-------------------------------- MODULE Pipe --------------------------------
(***************************************************************************)
(* The computer of project 2 and the printer it forks (2/code/sauce:       *)
(* print.c, printer.c, and their callers in scheduler.c and computer.c).   *)
(* The computer writes records of one size into a pipe, under MUTEX, and   *)
(* never hears of the printer again after its first answer; the printer    *)
(* keeps the spool files.  Either may be killed, and the computer started  *)
(* again; ./.spool/ and printer.out stay.                                  *)
(*                                                                         *)
(* A text is printed in chunks; a chunk stands for the bytes in it.        *)
(***************************************************************************)
EXTENDS Integers, Sequences, SequencesExt, FiniteSets

CONSTANTS
  MaxPID,     \* bound: processes loaded in a run
  MaxChunks,  \* bound: chunks a process prints
  MaxRuns,    \* bound: runs of the computer
  Slots,      \* records that fit in the pipe
  NoDir

PID == 2 .. MaxPID

Chunk == [run : 0 .. MaxRuns, n : 0 .. MaxChunks + MaxPID, full : BOOLEAN]

ASSUME PipeAssumption ==
  /\ MaxPID \in Nat \ {0, 1} /\ MaxChunks \in Nat /\ MaxRuns \in Nat
  /\ Slots \in Nat \ {0}
  /\ \A D \in SUBSET PID : NoDir \notin [D -> Seq(Chunk)]

VARIABLES
  pc,       \* next operation of the computer
  job,      \* the process whose text it prints, and the chunks of it left
  run,      \* which run this is
  next,     \* the least PID it has not given
  alive,    \* its processes that are not over
  pipe,     \* records on their way
  answer,   \* the printer's first and only one
  printer,  \* next operation of the printer
  msg,      \* the record it works on
  spool,    \* ./.spool/: the texts by PID, or NoDir
  paper,    \* printer.out
  printed   \* history: the chunks each process of this run has printed

computer == <<pc, job, run, next, alive>>
child    == <<printer, msg>>
disk     == <<spool, paper>>
vars     == <<computer, pipe, answer, child, disk, printed>>

Record(p, type, chunk) == [pid |-> p, type |-> type, chunk |-> chunk]
NoChunk == [run |-> 0, n |-> 0, full |-> FALSE]
NoRecord == Record(0, "PRINT_ACK", NoChunk)
NoJob == [pid |-> 0, left |-> 0]

Init ==
  /\ pc = "off" /\ job = NoJob /\ run = 0 /\ next = 2 /\ alive = {}
  /\ pipe = <<>> /\ answer = "none"
  /\ printer = "none" /\ msg = NoRecord
  /\ spool = NoDir /\ paper = <<>>
  /\ printed = [p \in PID |-> <<>>]

-----------------------------------------------------------------------------
(* The computer.                                                           *)
Goes(a, b) == pc = a /\ pc' = b

(* Mutant: a full pipe is not waited for.                                  *)
Write_NoWait(r) == pipe' = Append(pipe, r)

(* write: it waits for room.  The computer holds the read end of the pipe  *)
(* as well: without a printer it is not told, it waits for ever.           *)
Write(r) == Len(pipe) < Slots /\ pipe' = Append(pipe, r)

(* A killed computer leaves its printer behind, which still does what is in*)
(* its pipe; the user waits for that before the next run.                  *)
Settled == printer \in {"none", "killed"} \/ (printer = "read" /\ pipe = <<>>)

(* print_init: two new pipes, and the fork.                                *)
Start ==
  /\ pc \in {"off", "down"} /\ pc' = "ack"
  /\ run < MaxRuns /\ Settled
  /\ run' = run + 1 /\ next' = 2 /\ alive' = {} /\ job' = NoJob
  /\ pipe' = <<>> /\ answer' = "none" /\ msg' = NoRecord
  /\ printer' = "init"
  /\ printed' = [p \in PID |-> <<>>]
  /\ UNCHANGED disk

ReadAck ==
  /\ answer # "none"
  /\ Goes("ack", IF answer = "PRINT_ACK" THEN "run" ELSE "off")
  /\ UNCHANGED <<job, run, next, alive, pipe, answer, child, disk, printed>>

(* process_submit, print_init_spool.                                       *)
Load ==
  /\ pc = "run" /\ next \in PID
  /\ Write(Record(next, "INIT_SPOOL", NoChunk))
  /\ alive' = alive \union {next}
  /\ next' = next + 1
  /\ UNCHANGED <<pc, job, run, answer, child, disk, printed>>

(* print_print: a text of some chunks,                                     *)
PrintText ==
  /\ Goes("run", "print")
  /\ \E p \in alive : \E n \in 1 .. MaxChunks - Len(printed[p]) :
       job' = [pid |-> p, left |-> n]
  /\ UNCHANGED <<run, next, alive, pipe, answer, child, disk, printed>>

(* Mutant: the pointer into the text is not moved on.                      *)
PrintChunk_Same ==
  \E full \in BOOLEAN :
    LET p == job.pid
        c == [run |-> run, n |-> Len(printed[p]) + 1, full |-> full]
    IN  /\ job.left > 1 => full
        /\ Goes("print", IF job.left = 1 THEN "run" ELSE "print")
        /\ Write(Record(p, "PRINT_REQ", [c EXCEPT !.n = 1]))
        /\ printed' = [printed EXCEPT ![p] = Append(@, c)]
        /\ job' = IF job.left = 1 THEN NoJob ELSE [job EXCEPT !.left = @ - 1]
        /\ UNCHANGED <<run, next, alive, answer, child, disk>>

(* one record each, all but perhaps the last of them full.                 *)
PrintChunk ==
  \E full \in BOOLEAN :
    LET p == job.pid
        c == [run |-> run, n |-> Len(printed[p]) + 1, full |-> full]
    IN  /\ job.left > 1 => full
        /\ Goes("print", IF job.left = 1 THEN "run" ELSE "print")
        /\ Write(Record(p, "PRINT_REQ", c))
        /\ printed' = [printed EXCEPT ![p] = Append(@, c)]
        /\ job' = IF job.left = 1 THEN NoJob ELSE [job EXCEPT !.left = @ - 1]
        /\ UNCHANGED <<run, next, alive, answer, child, disk>>

(* process_exit, print_end_spool.                                          *)
Exit ==
  /\ pc = "run"
  /\ \E p \in alive : /\ Write(Record(p, "END_SPOOL", NoChunk))
                      /\ alive' = alive \ {p}
  /\ UNCHANGED <<pc, job, run, next, answer, child, disk, printed>>

(* Mutant: the printer is not waited for.                                  *)
PowerOff_NoWait ==
  /\ Goes("run", "off")
  /\ Write(Record(0, "PRINT_TERM", NoChunk))
  /\ UNCHANGED <<job, run, next, alive, answer, child, disk, printed>>

(* computer_poweroff, print_terminate.                                     *)
PowerOff ==
  /\ Goes("run", "waitpid")
  /\ Write(Record(0, "PRINT_TERM", NoChunk))
  /\ UNCHANGED <<job, run, next, alive, answer, child, disk, printed>>

WaitPID ==
  /\ printer \in {"none", "killed"}
  /\ Goes("waitpid", "off")
  /\ UNCHANGED <<job, run, next, alive, pipe, answer, child, disk, printed>>

KillComputer ==
  /\ pc \notin {"off", "down"} /\ pc' = "down"
  /\ UNCHANGED <<job, run, next, alive, pipe, answer, child, disk, printed>>

-----------------------------------------------------------------------------
(* The printer.                                                            *)
NoFiles == << >>
Without(files, p) == [f \in DOMAIN files \ {p} |-> files[f]]
Put(p, text) == [f \in DOMAIN spool \union {p} |-> IF f = p THEN text ELSE spool[f]]

(* Mutant: nothing is removed.                                             *)
empty_spool_dir_None == spool

(* empty_spool_dir: an empty directory is removed and made again, another  *)
(* one is emptied.                                                         *)
empty_spool_dir == NoFiles

(* printer_init: the paper, the directory and the answer, which may be that*)
(* one of the two could not be made.                                       *)
PrinterInit ==
  /\ printer = "init"
  /\ \/ /\ printer' = "read" /\ answer' = "PRINT_ACK"
        /\ paper' = <<>>
        /\ spool' = IF spool = NoDir THEN NoFiles ELSE empty_spool_dir
     \/ /\ printer' = "none" /\ answer' = "TERMINATE"
        /\ paper' \in {paper, <<>>} /\ UNCHANGED spool
  /\ UNCHANGED <<computer, pipe, msg, printed>>

(* printer_main: the next record.                                          *)
Read ==
  /\ printer = "read" /\ pipe # <<>>
  /\ printer' = Head(pipe).type
  /\ msg' = Head(pipe)
  /\ pipe' = Tail(pipe)
  /\ UNCHANGED <<computer, answer, disk, printed>>

Handled == printer' = "read" /\ msg' = NoRecord

InitSpool ==
  /\ printer = "INIT_SPOOL" /\ Handled
  /\ spool' = Put(msg.pid, <<>>)
  /\ UNCHANGED <<computer, pipe, answer, paper, printed>>

(* printer_print writes strlen(buf) bytes: a full chunk has no end, and the*)
(* first byte of the PID, which follows it in the record, is written too.  *)
Stray(p) == [run |-> 0, n |-> p, full |-> FALSE]
Bytes(r) == IF r.chunk.full THEN <<r.chunk, Stray(r.pid)>> ELSE <<r.chunk>>

PrintReq ==
  /\ printer = "PRINT_REQ" /\ Handled
  /\ spool' = Put(msg.pid, (IF msg.pid \in DOMAIN spool THEN spool[msg.pid] ELSE <<>>)
                              \o Bytes(msg))
  /\ UNCHANGED <<computer, pipe, answer, paper, printed>>

(* printer_end_spool: the page, and then the file is removed.              *)
Page(p, partial) == Append(paper, [pid |-> p, text |-> spool[p], partial |-> partial])

EndSpool ==
  /\ printer = "END_SPOOL"
  /\ IF msg.pid \in DOMAIN spool
       THEN printer' = "remove" /\ paper' = Page(msg.pid, FALSE) /\ UNCHANGED msg
       ELSE Handled /\ UNCHANGED paper
  /\ UNCHANGED <<computer, pipe, answer, spool, printed>>

RemoveFile ==
  /\ printer = "remove" /\ Handled
  /\ spool' = Without(spool, msg.pid)
  /\ UNCHANGED <<computer, pipe, answer, paper, printed>>

(* Mutant: the process does not exit but goes on reading.                  *)
Terminate_Stay ==
  /\ printer = "PRINT_TERM"
  /\ IF spool = NoFiles
       THEN spool' = NoDir /\ printer' = "read" /\ UNCHANGED paper
       ELSE \E p \in DOMAIN spool : /\ paper' = Page(p, TRUE)
                                    /\ spool' = Without(spool, p)
                                    /\ UNCHANGED printer
  /\ UNCHANGED <<computer, pipe, answer, msg, printed>>

(* printer_terminate: the files that are left, in the order of the         *)
(* directory, each marked as partial.                                      *)
Terminate ==
  /\ printer = "PRINT_TERM"
  /\ IF spool = NoFiles
       THEN spool' = NoDir /\ printer' = "none" /\ UNCHANGED paper
       ELSE \E p \in DOMAIN spool : /\ paper' = Page(p, TRUE)
                                    /\ spool' = Without(spool, p)
                                    /\ UNCHANGED printer
  /\ UNCHANGED <<computer, pipe, answer, msg, printed>>

(* The files the printer may be copying to the paper.                      *)
Copying == CASE printer = "END_SPOOL"  -> DOMAIN spool \intersect {msg.pid}
             [] printer = "PRINT_TERM" -> DOMAIN spool
             [] OTHER                  -> {}

(* A kill in the middle of a page leaves the beginning of it, unmarked.    *)
KillPrinter ==
  /\ printer \notin {"none", "killed"} /\ printer' = "killed"
  /\ \/ UNCHANGED paper
     \/ \E p \in Copying : \E n \in 0 .. Len(spool[p]) :
          paper' = Append(paper, [pid |-> p, text |-> SubSeq(spool[p], 1, n),
                                  partial |-> FALSE])
  /\ UNCHANGED <<computer, pipe, answer, msg, spool, printed>>

-----------------------------------------------------------------------------
Computer == \/ Start \/ ReadAck \/ Load \/ PrintText \/ PrintChunk \/ Exit \/ PowerOff
            \/ WaitPID
Printer  == \/ PrinterInit \/ Read \/ InitSpool \/ PrintReq \/ EndSpool \/ RemoveFile
            \/ Terminate

Next == Computer \/ Printer \/ KillComputer \/ KillPrinter

(* The two processes run; processes end and the user switches off, as the  *)
(* input files of test.sh do.                                              *)
Spec == Init /\ [][Next]_vars /\ WF_vars(Computer) /\ WF_vars(Printer)

-----------------------------------------------------------------------------
MsgType == {"PRINT_REQ", "INIT_SPOOL", "END_SPOOL", "PRINT_TERM", "PRINT_ACK"}

(* Types; the pipe holds no more than fits.                                *)
TypeOK ==
  /\ pc \in {"off", "down", "ack", "run", "print", "waitpid"}
  /\ printer \in (MsgType \ {"PRINT_ACK"}) \union {"none", "killed", "init", "read", "remove"}
  /\ run \in 0 .. MaxRuns /\ next \in 2 .. MaxPID + 1 /\ alive \subseteq PID
  /\ pipe \in Seq([pid : PID \union {0}, type : MsgType, chunk : Chunk])
  /\ Len(pipe) <= Slots
  /\ answer \in {"none", "PRINT_ACK", "TERMINATE"}
  /\ spool = NoDir \/ (DOMAIN spool \subseteq PID /\ \A p \in DOMAIN spool : spool[p] \in Seq(Chunk))
  /\ paper \in Seq([pid : PID, text : Seq(Chunk), partial : BOOLEAN])
  /\ printed \in [PID -> Seq(Chunk)]

Started == answer = "PRINT_ACK"
OnPaper(p) == {i \in DOMAIN paper : paper[i].pid = p}

(* What a process that prints these chunks gets into its file.             *)
Written(p) ==
  FlattenSeq([k \in DOMAIN printed[p] |-> Bytes(Record(p, "PRINT_REQ", printed[p][k]))])

(* The page a printer was killed at.                                       *)
Torn(i) == printer = "killed" /\ i = Len(paper)

(* print.c tells nobody when it is done, and yet: a page has all the chunks*)
(* its process has printed, of this run, in order, and after each full one *)
(* the PID; it is marked partial only if the process is not over; and no   *)
(* process has two pages.  Only a page at which the printer was killed has *)
(* the first of the chunks and no mark.                                    *)
PagesComplete ==
  Started => \A p \in PID :
    /\ Cardinality(OnPaper(p)) <= 1
    /\ \A i \in OnPaper(p) :
         \/ paper[i].text = Written(p) /\ paper[i].partial = (p \in alive)
         \/ Torn(i) /\ IsPrefix(paper[i].text, Written(p))

(* What the printer still has to do of a kind for a process.               *)
Pending(p, type) == \/ msg.pid = p /\ msg.type = type
                    \/ \E i \in DOMAIN pipe : pipe[i].pid = p /\ pipe[i].type = type

(* printer_dump_spool runs in the computer and reads the directory.        *)
printer_dump_spool == IF spool = NoDir THEN {} ELSE DOMAIN spool

(* Though the printer may lag behind, the dump prints "all pids with open  *)
(* spool file" (computer.h) but for those whose record is still on its way.*)
DumpLags ==
  pc \in {"run", "print"} => \A p \in PID :
    /\ p \in alive \ printer_dump_spool => Pending(p, "INIT_SPOOL")
    /\ p \in printer_dump_spool \ alive => Pending(p, "END_SPOOL")

(* When the computer has been switched off every process it ran is on the  *)
(* paper, and the directory is gone.                                       *)
AllPrintedWhenOff ==
  pc = "off" /\ Started /\ printer # "killed" =>
    /\ spool = NoDir
    /\ \A p \in 2 .. next - 1 : OnPaper(p) # {}

(* The computer comes to its end, though its printer is slow, unless one of*)
(* the two is killed.                                                      *)
Ends == <>[](pc \in {"off", "down"} \/ printer = "killed")
=============================================================================
