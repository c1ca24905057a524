------------------------------ MODULE Delivery ------------------------------
(***************************************************************************)
(* The way of a process' output to the paper in project 3 (print.c,        *)
(* printer.c, util.c): a spool file in ./.spool/, a header and a text on   *)
(* the computer's socket, a spool file in ./.printerspool/, and a page.    *)
(* Either side may be killed and started again; the directories stay.      *)
(*                                                                         *)
(* A text is a sequence of cells, a cell being what the socket takes and   *)
(* delivers at once; a header is one.  The threads of the printer and of   *)
(* the computer are as in Printer and Computer, seen from further away.    *)
(***************************************************************************)
EXTENDS Integers, Sequences, FiniteSets

CONSTANTS
  CID, PID,      \* the computers, and the processes of each
  Comm,          \* the communicators
  MQS,           \* slots of a message queue
  Buffer,        \* cells that fit in a socket
  MaxText,       \* bound: cells of a text
  MaxRuns,       \* bound: starts of each computer, by CID
  MaxStarts,     \* bound: starts of the printer
  Mortal,        \* who may be killed: computers, and Printer
  Junk,          \* what malloc returns
  Printer, None, NoDir

PrintID == CID \X PID
Run == UNION {1 .. MaxRuns[c] : c \in CID}
Cell == [id : PrintID, run : Run, n : 1 .. MaxText]
IsText(s) == s \in Seq(Cell \union {Junk})

ASSUME DeliveryAssumption ==
  /\ MQS \in Nat \ {0} /\ Buffer \in Nat \ {0} /\ MaxText \in Nat
  /\ MaxRuns \in [CID -> Nat] /\ MaxStarts \in Nat
  /\ PID \subseteq Nat \ {0, 1} /\ IsFiniteSet(PID)
  /\ Mortal \subseteq CID \union {Printer}
  /\ Printer \notin CID /\ None \notin CID
  /\ \A D \in SUBSET PrintID : NoDir \notin [D -> Seq(Cell \union {Junk})]

NoFiles == << >>

VARIABLES
  spool,       \* ./.spool/: the texts by file name, or NoDir
  pspool,      \* ./.printerspool/
  paper,       \* printer.out
  pc, job,     \* next operation of each computer, and the file it sends
  sentCells,   \* cells of it that sendfile has sent
  run,         \* which run of the computer this is
  alive,       \* its processes that are not over
  next,        \* the least PID it has not given
  link,        \* its connection
  sock,        \* what is on the way in the connection
  waiting,     \* connections no communicator has won yet
  comm,        \* the communicators
  queue,       \* their message queues
  printer, starts,
  printed,     \* history: what each life of each process has spooled
  severed,     \* history: messages whose text was cut off by a kill
  killed       \* history: computers whose last run was killed

disk     == <<spool, pspool, paper>>
computer == <<pc, job, sentCells, run, alive, next>>
network  == <<link, sock, waiting>>
server   == <<comm, queue, printer, starts>>
history  == <<printed, severed, killed>>
vars     == <<disk, computer, network, server, history>>

-----------------------------------------------------------------------------
Without(files, id) == [f \in DOMAIN files \ {id} |-> files[f]]
With(files, id, text) ==
  [f \in DOMAIN files \union {id} |-> IF f = id THEN text ELSE files[f]]
NoJob == [pid |-> 0, type |-> "END_SPOOL"]
Free == [conn |-> None, pc |-> "idle", msg |-> None, text |-> <<>>]

Init ==
  /\ spool = NoDir /\ pspool = NoDir /\ paper = <<>>
  /\ pc = [c \in CID |-> "down"]
  /\ job = [c \in CID |-> NoJob]
  /\ sentCells = [c \in CID |-> 0]
  /\ run = [c \in CID |-> 0]
  /\ alive = [c \in CID |-> {}]
  /\ next = [c \in CID |-> 2]
  /\ link = [c \in CID |-> "none"]
  /\ sock = [c \in CID |-> <<>>]
  /\ waiting = <<>>
  /\ comm = [k \in Comm |-> Free]
  /\ queue = [k \in Comm |-> <<>>]
  /\ printer = "down" /\ starts = 0
  /\ printed = NoFiles /\ severed = {} /\ killed = {}

-----------------------------------------------------------------------------
(* The computer.                                                           *)
Step(c, a, b) == pc[c] = a /\ pc' = [pc EXCEPT ![c] = b]

(* The end of computer c, however it comes: its socket is closed.          *)
Down(c) ==
  /\ pc' = [pc EXCEPT ![c] = "down"]
  /\ alive' = [alive EXCEPT ![c] = {}]
  /\ job' = [job EXCEPT ![c] = NoJob]
  /\ sentCells' = [sentCells EXCEPT ![c] = 0]
  /\ link' = [link EXCEPT ![c] = IF @ = "open" THEN "closed" ELSE "none"]
  /\ UNCHANGED <<run, next, sock, waiting>>

(* The user starts a computer again when the printer has no message of its *)
(* earlier run any more: the two would have the same print IDs.            *)
Settled(c) ==
  /\ link[c] = "none"
  /\ \A k \in Comm : \A i \in DOMAIN queue[k] : queue[k][i].cid # c

(* Mutant: what an earlier run has left is removed.                        *)
Boot_Empty(c) ==
  /\ Step(c, "down", "connect")
  /\ run[c] < MaxRuns[c] /\ Settled(c)
  /\ run' = [run EXCEPT ![c] = @ + 1]
  /\ next' = [next EXCEPT ![c] = 2]
  /\ spool' = IF spool = NoDir THEN NoFiles
                               ELSE [f \in {g \in DOMAIN spool : g[1] # c} |-> spool[f]]
  /\ killed' = killed \ {c}
  /\ UNCHANGED <<pspool, paper, job, sentCells, alive, network, server, printed, severed>>

(* print_init: the directory, which may be there,                          *)
Boot(c) ==
  /\ Step(c, "down", "connect")
  /\ run[c] < MaxRuns[c] /\ Settled(c)
  /\ run' = [run EXCEPT ![c] = @ + 1]
  /\ next' = [next EXCEPT ![c] = 2]
  /\ spool' = IF spool = NoDir THEN NoFiles ELSE spool
  /\ killed' = killed \ {c}
  /\ UNCHANGED <<pspool, paper, job, sentCells, alive, network, server, printed, severed>>

(* and the connection, which the manager of the printer queues.            *)
Connect(c) ==
  /\ pc[c] = "connect"
  /\ IF printer = "up"
       THEN /\ Step(c, "connect", "run")
            /\ link' = [link EXCEPT ![c] = "open"]
            /\ waiting' = Append(waiting, c)
            /\ UNCHANGED <<job, sentCells, run, alive, next, sock>>
       ELSE Down(c)
  /\ UNCHANGED <<disk, server, history>>

(* Mutant: what is there is kept.                                          *)
InitSpool_Append(c) ==
  LET p == next[c]
  IN  /\ pc[c] = "run" /\ p \in PID /\ spool # NoDir
      /\ spool' = IF <<c, p>> \in DOMAIN spool THEN spool ELSE With(spool, <<c, p>>, <<>>)
      /\ printed' = With(printed, <<c, p, run[c]>>, <<>>)
      /\ alive' = [alive EXCEPT ![c] = @ \union {p}]
      /\ next' = [next EXCEPT ![c] = p + 1]
      /\ UNCHANGED <<pspool, paper, pc, job, sentCells, run, network, server, severed, killed>>

(* print_init_spool truncates what is there; without the directory it      *)
(* closes a null pointer.                                                  *)
InitSpool(c) ==
  LET p == next[c]
  IN  /\ pc[c] = "run" /\ p \in PID
      /\ IF spool = NoDir
           THEN Down(c) /\ UNCHANGED <<spool, printed>>
           ELSE /\ spool' = With(spool, <<c, p>>, <<>>)
                /\ printed' = With(printed, <<c, p, run[c]>>, <<>>)
                /\ alive' = [alive EXCEPT ![c] = @ \union {p}]
                /\ next' = [next EXCEPT ![c] = p + 1]
                /\ UNCHANGED <<pc, job, sentCells, run, network>>
      /\ UNCHANGED <<pspool, paper, server, severed, killed>>

(* print_print: append to the file.                                        *)
SpoolLine(c) ==
  \E p \in alive[c] :
    LET id   == <<c, p>>
        life == <<c, p, run[c]>>
        cell == [id |-> id, run |-> run[c], n |-> Len(printed[life]) + 1]
    IN  /\ pc[c] = "run" /\ Len(printed[life]) < MaxText
        /\ spool' = [spool EXCEPT ![id] = Append(@, cell)]
        /\ printed' = [printed EXCEPT ![life] = Append(@, cell)]
        /\ UNCHANGED <<pspool, paper, computer, network, server, severed, killed>>

(* process_exit, and print_terminate with the files of this CID.           *)
Exit(c) ==
  \E p \in alive[c] :
    /\ Step(c, "run", "header")
    /\ alive' = [alive EXCEPT ![c] = @ \ {p}]
    /\ job' = [job EXCEPT ![c] = [pid |-> p, type |-> "END_SPOOL"]]
    /\ UNCHANGED <<disk, sentCells, run, next, network, server, history>>

PowerOff(c) ==
  /\ pc[c] = "run"
  /\ IF spool = NoDir THEN Down(c)
     ELSE /\ Step(c, "run", "scan")
          /\ alive' = [alive EXCEPT ![c] = {}]
          /\ UNCHANGED <<job, sentCells, run, next, network>>
  /\ UNCHANGED <<disk, server, history>>

OwnFiles(c) == IF spool = NoDir THEN {} ELSE {f \in DOMAIN spool : f[1] = c}

(* Mutant: not marked as partial.                                          *)
Scan_Complete(c) ==
  /\ pc[c] = "scan"
  /\ IF OwnFiles(c) = {} THEN Down(c)
     ELSE \E f \in OwnFiles(c) :
            /\ Step(c, "scan", "header")
            /\ job' = [job EXCEPT ![c] = [pid |-> f[2], type |-> "END_SPOOL"]]
            /\ UNCHANGED <<sentCells, run, alive, next, network>>
  /\ UNCHANGED <<disk, server, history>>

Scan(c) ==
  /\ pc[c] = "scan"
  /\ IF OwnFiles(c) = {} THEN Down(c)
     ELSE \E f \in OwnFiles(c) :
            /\ Step(c, "scan", "header")
            /\ job' = [job EXCEPT ![c] = [pid |-> f[2], type |-> "CPU_TERM"]]
            /\ UNCHANGED <<sentCells, run, alive, next, network>>
  /\ UNCHANGED <<disk, server, history>>

-----------------------------------------------------------------------------
(* print_end_spool.                                                        *)
File(c) == <<c, job[c].pid>>
Back(c) == IF job[c].type = "END_SPOOL" THEN "run" ELSE "scan"

(* A write to the socket waits for room.  When the printer has gone it is  *)
(* lost or SIGPIPE ends the computer.                                      *)
Write(c, cell, b) ==
  IF link[c] = "open"
    THEN /\ Len(sock[c]) < Buffer
         /\ sock' = [sock EXCEPT ![c] = Append(@, cell)]
         /\ pc' = [pc EXCEPT ![c] = b]
         /\ UNCHANGED <<job, run, alive, next, link, waiting>>
    ELSE \/ pc' = [pc EXCEPT ![c] = b] /\ UNCHANGED <<job, run, alive, next, network>>
         \/ Down(c)

SendHeader(c) ==
  /\ pc[c] = "header"
  /\ IF File(c) \notin OwnFiles(c)
       THEN Step(c, "header", Back(c)) /\ UNCHANGED <<job, run, alive, next, network>>
       ELSE Write(c, [cid |-> c, pid |-> job[c].pid, size |-> Len(spool[File(c)]),
                      type |-> job[c].type], "text")
  /\ sentCells' = [sentCells EXCEPT ![c] = 0]
  /\ UNCHANGED <<disk, server, history>>

SendFile(c) ==
  /\ pc[c] = "text"
  /\ IF sentCells[c] = Len(spool[File(c)])
       THEN Step(c, "text", "remove") /\ UNCHANGED <<job, sentCells, run, alive, next, network>>
       ELSE /\ Write(c, spool[File(c)][sentCells[c] + 1], "text")
            /\ sentCells' = [sentCells EXCEPT ![c] = IF pc'[c] = "text" THEN @ + 1 ELSE 0]
  /\ UNCHANGED <<disk, server, history>>

Remove(c) ==
  /\ Step(c, "remove", Back(c))
  /\ spool' = Without(spool, File(c))
  /\ UNCHANGED <<pspool, paper, job, sentCells, run, alive, next, network, server,
                 history>>

(* Kill -9, a crash, a power cut.                                          *)
KillComputer(c) ==
  /\ c \in Mortal /\ pc[c] # "down"
  /\ Down(c)
  /\ severed' = IF pc[c] = "text" /\ sentCells[c] < Len(spool[File(c)])
                  THEN severed \union {File(c)} ELSE severed
  /\ killed' = killed \union {c}
  /\ UNCHANGED <<disk, server, printed>>

-----------------------------------------------------------------------------
(* The communicators.                                                      *)
Win(k) ==
  /\ comm[k].pc = "idle" /\ waiting # <<>>
  /\ comm' = [comm EXCEPT ![k] = [conn |-> Head(waiting), pc |-> "header",
                                  msg |-> None, text |-> <<>>]]
  /\ waiting' = Tail(waiting)
  /\ UNCHANGED <<disk, computer, link, sock, queue, printer, starts, history>>

(* Mutant: the end of the connection is not noticed.                       *)
ReadHeader_Stay(k) ==
  LET c == comm[k].conn
  IN  /\ comm[k].pc = "header" /\ sock[c] # <<>>
      /\ sock' = [sock EXCEPT ![c] = Tail(@)]
      /\ comm' = [comm EXCEPT ![k].msg = Head(sock[c]), ![k].pc = "text"]
      /\ UNCHANGED <<disk, computer, link, waiting, queue, printer, starts, history>>

(* The first read: a header, or the end of the connection.  Whatever else  *)
(* is in the socket is taken for a header too: after that anything goes.   *)
ReadHeader(k) ==
  LET c == comm[k].conn
  IN  /\ comm[k].pc = "header"
      /\ \/ /\ sock[c] # <<>>
            /\ sock' = [sock EXCEPT ![c] = Tail(@)]
            /\ IF "size" \in DOMAIN Head(sock[c])
                 THEN /\ comm' = [comm EXCEPT ![k].msg = Head(sock[c]), ![k].pc = "text"]
                      /\ UNCHANGED printer
                 ELSE UNCHANGED comm /\ printer' = "garbled"
            /\ UNCHANGED link
         \/ /\ sock[c] = <<>> /\ link[c] = "closed"
            /\ link' = [link EXCEPT ![c] = "none"]
            /\ comm' = [comm EXCEPT ![k] = Free]
            /\ UNCHANGED <<sock, printer>>
      /\ UNCHANGED <<disk, computer, waiting, queue, starts, history>>

(* The second read: what is there of the text.  Nobody looks at how much   *)
(* that was; the rest of the buffer is what malloc returned.               *)
ReadText(k) ==
  LET c    == comm[k].conn
      size == comm[k].msg.size
      n    == IF Len(sock[c]) < size THEN Len(sock[c]) ELSE size
  IN  /\ comm[k].pc = "text"
      /\ size = 0 \/ sock[c] # <<>> \/ link[c] = "closed"
      /\ comm' = [comm EXCEPT
                    ![k].text = [i \in 1 .. size |-> IF i <= n THEN sock[c][i] ELSE Junk],
                    ![k].pc = "put"]
      /\ sock' = [sock EXCEPT ![c] = SubSeq(@, n + 1, Len(@))]
      /\ UNCHANGED <<disk, computer, link, waiting, queue, printer, starts, history>>

(* Mutant: it does not wait for the slot.                                  *)
Put_NoWait(k) ==
  LET m == comm[k].msg
  IN  /\ comm[k].pc = "put"
      /\ pspool' = With(pspool, <<m.cid, m.pid>>, comm[k].text)
      /\ queue' = [queue EXCEPT ![k] = Append(@, m)]
      /\ comm' = [comm EXCEPT ![k] = [@ EXCEPT !.pc = "header", !.msg = None, !.text = <<>>]]
      /\ UNCHANGED <<spool, paper, computer, network, printer, starts, history>>

(* write_msg, and the message queue when it has a free slot.               *)
Put(k) ==
  LET m == comm[k].msg
  IN  /\ comm[k].pc = "put" /\ Len(queue[k]) < MQS
      /\ pspool' = With(pspool, <<m.cid, m.pid>>, comm[k].text)
      /\ queue' = [queue EXCEPT ![k] = Append(@, m)]
      /\ comm' = [comm EXCEPT ![k] = [@ EXCEPT !.pc = "header", !.msg = None, !.text = <<>>]]
      /\ UNCHANGED <<spool, paper, computer, network, printer, starts, history>>

(* printer_end_spool.                                                      *)
Page(k) ==
  LET m  == Head(queue[k])
      id == <<m.cid, m.pid>>
  IN  /\ queue[k] # <<>>
      /\ paper' = Append(paper, [cid |-> m.cid, pid |-> m.pid, type |-> m.type,
                                 text |-> pspool[id]])
      /\ pspool' = Without(pspool, id)
      /\ queue' = [queue EXCEPT ![k] = Tail(@)]
      /\ UNCHANGED <<spool, computer, network, comm, printer, starts, history>>

-----------------------------------------------------------------------------
(* The start and the end of the printer.                                   *)

(* Mutant: ".spool" is removed with the files in it.                       *)
empty_dir_Force(done) ==
  \/ done /\ spool = NoDir /\ pspool' = NoFiles /\ UNCHANGED spool
  \/ ~done /\ spool # NoDir /\ spool' = NoDir /\ UNCHANGED pspool

(* empty_dir("./.printerspool/"), which is there.  It first removes        *)
(* ".spool", which succeeds when that is an empty directory; then the mkdir*)
(* of the one it was called for fails.                                     *)
empty_dir(done) ==
  \/ done /\ spool # NoFiles /\ pspool' = NoFiles /\ UNCHANGED spool
  \/ ~done /\ spool = NoFiles /\ spool' = NoDir /\ UNCHANGED pspool

(* printer_init: a new paper, and a directory of its own, or else exit.    *)
PrinterInit ==
  /\ printer \in {"down", "killed"} /\ starts < MaxStarts
  /\ starts' = starts + 1
  /\ paper' = <<>>
  /\ \E done \in BOOLEAN :
       /\ IF pspool = NoDir THEN done /\ pspool' = NoFiles /\ UNCHANGED spool
                            ELSE empty_dir(done)
       /\ printer' = IF done THEN "up" ELSE "down"
  /\ UNCHANGED <<computer, network, comm, queue, history>>

PrinterGone(end) ==
  /\ printer' = end
  /\ comm' = [k \in Comm |-> Free]
  /\ queue' = [k \in Comm |-> <<>>]
  /\ sock' = [c \in CID |-> <<>>]
  /\ link' = [c \in CID |-> IF link[c] \in {"open", "dead"} THEN "dead" ELSE "none"]
  /\ waiting' = <<>>

(* printer_terminate, on SIGINT: the queues are printed and the directory  *)
(* is removed.                                                             *)
Sigint ==
  /\ printer = "up" /\ \A k \in Comm : queue[k] = <<>>
  /\ PrinterGone("down")
  /\ pspool' = NoDir
  /\ UNCHANGED <<spool, paper, computer, starts, history>>

(* A kill in the middle of a page leaves the beginning of it, unmarked.    *)
KillPrinter ==
  /\ Printer \in Mortal /\ printer = "up"
  /\ PrinterGone("killed")
  /\ \/ UNCHANGED paper
     \/ \E k \in Comm : \E n \in 0 .. MaxText :
          /\ queue[k] # <<>>
          /\ LET m == Head(queue[k])
                 t == pspool[<<m.cid, m.pid>>]
             IN  /\ n <= Len(t)
                 /\ paper' = Append(paper, [cid |-> m.cid, pid |-> m.pid,
                                            type |-> "END_SPOOL",
                                            text |-> SubSeq(t, 1, n)])
  /\ UNCHANGED <<spool, pspool, computer, starts, history>>

-----------------------------------------------------------------------------
(* After a text was taken for a header anything may happen, which is not   *)
(* modelled.                                                               *)
Sane == printer # "garbled"

Works(c) ==
  Sane /\ \/ Connect(c) \/ InitSpool(c) \/ SpoolLine(c) \/ Exit(c) \/ PowerOff(c)
          \/ Scan(c) \/ SendHeader(c) \/ SendFile(c) \/ Remove(c)
Serves(k) == Sane /\ (Win(k) \/ ReadHeader(k) \/ ReadText(k) \/ Put(k))
Pages == Sane /\ \E k \in Comm : Page(k)
External(c) == Sane /\ (Boot(c) \/ KillComputer(c))

Next ==
  \/ \E c \in CID : Works(c) \/ External(c)
  \/ \E k \in Comm : Serves(k)
  \/ Pages \/ PrinterInit \/ Sigint \/ KillPrinter

(* Processes end and users switch their computers off ("The file should    *)
(* end with 0", README.txt); nobody need start anything again.             *)
Spec == /\ Init /\ [][Next]_vars
        /\ \A c \in CID : WF_vars(Works(c))
        /\ \A k \in Comm : WF_vars(Serves(k))
        /\ WF_vars(Pages)

-----------------------------------------------------------------------------
Header == [cid : CID, pid : PID, size : Nat, type : {"END_SPOOL", "CPU_TERM"}]
IsDir(d) == d = NoDir \/ (DOMAIN d \subseteq PrintID /\ \A f \in DOMAIN d : IsText(d[f]))

(* Types; a communicator serves a connection exactly when it is not idle,  *)
(* and no connection is served twice or both served and waiting.           *)
TypeOK ==
  /\ IsDir(spool) /\ IsDir(pspool)
  /\ pc \in [CID -> {"down", "connect", "run", "scan", "header", "text", "remove"}]
  /\ link \in [CID -> {"none", "open", "closed", "dead"}]
  /\ \A c \in CID : Len(sock[c]) <= Buffer
  /\ \A k \in Comm : Len(queue[k]) <= MQS /\ (comm[k].pc = "idle" <=> comm[k].conn = None)
  /\ \A k, j \in Comm : k # j => comm[k].conn # comm[j].conn \/ comm[k].conn = None
  /\ \A k \in Comm, i \in DOMAIN waiting : comm[k].conn # waiting[i]
  /\ printer \in {"down", "up", "garbled", "killed"} /\ starts \in 0 .. MaxStarts

Lives(c, p) == {r \in Run : <<c, p, r>> \in DOMAIN printed}

(* The page a printer was killed at.                                       *)
Torn(i) == printer = "killed" /\ i = Len(paper)

(* computer.h: print_end_spool is to "output pids spool file to            *)
(* printer.out".  What is on a page is, whole, what one life of the process*)
(* it names has spooled, unless its computer was killed in the middle of   *)
(* sending it; only the page at which the printer was killed may break off.*)
PagesFaithful ==
  \A i \in DOMAIN paper :
    LET e == paper[i] IN
      \/ <<e.cid, e.pid>> \in severed
      \/ \E r \in Lives(e.cid, e.pid) :
           LET t == printed[<<e.cid, e.pid, r>>] IN
             \/ e.text = t
             \/ /\ Torn(i) /\ Len(e.text) <= Len(t)
                /\ e.text = SubSeq(t, 1, Len(e.text))

(* A process that is not over has its spool file, though a printer that is *)
(* started may remove the directory.                                       *)
FileThere == \A c \in CID : \A p \in alive[c] : <<c, p>> \in OwnFiles(c)

(* A message printed again after a kill is marked partial: no life of a    *)
(* process has two pages that claim to be complete, unless the printer was *)
(* killed before it could write the mark.                                  *)
CompleteOnce ==
  \A i, j \in DOMAIN paper :
    /\ i # j /\ paper[i].text = paper[j].text /\ paper[i].text # <<>>
    /\ ~Torn(i) /\ ~Torn(j)
    /\ paper[i].type = "END_SPOOL" /\ paper[i].text[1] # Junk
    => paper[j].type = "CPU_TERM"

(* The last life of a process so far, if it has spooled something.         *)
Latest(life) == /\ printed[life] # <<>>
                /\ \A r \in Lives(life[1], life[2]) : r <= life[3]

Stable == printer = "up" /\ starts = 1
OnPaper(t) == \E i \in DOMAIN paper : paper[i].text = t
InSpool(id, t) == spool # NoDir /\ id \in DOMAIN spool /\ spool[id] = t
InPrinter(id, t) == \/ pspool # NoDir /\ id \in DOMAIN pspool /\ pspool[id] = t
                    \/ \E k \in Comm : comm[k].text = t

(* While the printer stays up no output is lost, whenever a computer is    *)
(* killed: it is in the spool file until it is on its way, unless the next *)
(* run of the computer gives the PID to another process.                   *)
NothingLost ==
  Stable => \A life \in DOMAIN printed :
    LET id == <<life[1], life[2]>>
        t  == printed[life]
    IN  Latest(life) =>
          \/ InSpool(id, t) \/ InPrinter(id, t) \/ OnPaper(t)
          \/ \E i \in DOMAIN sock[life[1]] : sock[life[1]][i] = t[Len(t)]

(* In the end all computers are down and all that was spooled is on paper, *)
(* but what a computer whose last run was killed has left in its spool     *)
(* file, or the printer has not been there all the time; however many      *)
(* computers wait for a communicator and however full their sockets are.   *)
AllDelivered ==
  <>[](Stable =>
         /\ \A c \in CID : pc[c] = "down"
         /\ \A life \in DOMAIN printed :
              LET c == life[1]
                  t == printed[life]
              IN  Latest(life) =>
                    OnPaper(t) \/ (c \in killed /\ InSpool(<<c, life[2]>>, t)))

(* README.txt: "If there is already a directory or file in the current path*)
(* called .printerspool, the process will try to delete or empty it."      *)
StartEmpties == [][starts' # starts => pspool' \in {NoDir, NoFiles}]_vars
=============================================================================
