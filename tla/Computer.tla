------------------------------ MODULE Computer ------------------------------
(***************************************************************************)
(* The computer process of project 3 (3/code/sauce/computer.c, scheduler.c,*)
(* cpu.c, shell.c, load.c, print.c, darray.c): the scheduler, on the main  *)
(* thread, gives each ready process a quantum of TQ instructions; the shell*)
(* thread reads commands.  Both work under MUTEX, which the scheduler gives*)
(* up while a process sleeps, and either thread gives up while the load    *)
(* command waits for its line.                                             *)
(*                                                                         *)
(* Programs are the instruction words of their files, executed as in Cpu.  *)
(* The user loads a program where no other one is (README.txt).  A spool   *)
(* file is the sequence of what was printed to it.                         *)
(***************************************************************************)
EXTENDS Solo, FiniteSetsExt, SequencesExt

CONSTANTS
  M,         \* words of memory
  TQ,        \* instructions of a quantum
  MaxPID,    \* bound: after it load_prog finds no more programs
  MaxLines,  \* bound: lines before the end of the input
  Horizon,   \* bound: instructions of a run in the reference computer
  Line,      \* the lines the input may hold
  Short,     \* files that end before the words their first line announces
  Leftover,  \* spool files an earlier run with the same CID left behind
  Lossy,     \* TRUE: the printer may go away
  NoFile

PID == 2 .. MaxPID
Process == 1 .. MaxPID               \* with the idle one
Command == {"number"} \X Nat         \* a line the shell takes for a command
Name == ({"file"} \X File) \union {<<"missing", 0>>, <<"bad_base", 0>>}
Junk == <<"junk", 0>>
Output == Seq([what : {"AC", "registers", "memory", "table", "old"}, words : Seq(Int)])

ASSUME ComputerAssumption ==
  /\ M \in Nat /\ M >= Len(PROG_IDLE)
  /\ TQ \in Nat \ {0}
  /\ MaxPID \in Nat \ {0, 1}
  /\ MaxLines \in Nat /\ Horizon \in Nat
  /\ Image \in [File -> Seq(Word)]
  /\ Base \in [File -> Nat]
  /\ Line \subseteq Command \union Name \union {Junk}
  /\ Short \subseteq File
  /\ Leftover \subseteq PID
  /\ Lossy \in BOOLEAN
  /\ NoFile \notin File \union Output

(* README.txt: the idle process has the addresses 0 to 3; the user puts    *)
(* every program elsewhere, and no two at the same place.                  *)
ASSUME PlacementAssumption ==
  /\ \A f \in File : Segment(f) \subseteq Len(PROG_IDLE) .. M - 1
  /\ \A f, g \in File : f # g => Segment(f) \intersect Segment(g) = {}

VARIABLES
  MUTEX, TERMINATE,
  pc,             \* next operation of each thread
  cmd, name,      \* the command a thread is executing, and the file it names
  PROCESS_COUNT,
  capacity,       \* of the process table; it moves whenever this grows
  PCB,            \* the contexts of the processes, the idle one at 1
  ReadyQueue, RUNNING_PCB,  \* pointers to PCBs
  cpu,            \* registers and memory
  ticks,          \* instructions of this quantum
  spool, sent,    \* .spool/CID.PID, and the messages to the printer
  printer,        \* TRUE while the printer is there
  typed,          \* lines read
  program,        \* history: the file each process was loaded from
  status          \* "running", or how the process ended

request == <<cmd, name>>
table   == <<PROCESS_COUNT, capacity>>
output  == <<spool, sent>>
outside == <<printer, typed>>
procs   == <<table, ReadyQueue, RUNNING_PCB, PCB, program>>
calm    == <<request, procs, cpu, ticks, output, outside, status>>
vars    == <<MUTEX, TERMINATE, pc, calm>>

-----------------------------------------------------------------------------
Main == "main"
Shell == "shell"
Thread == {Main, Shell}

(* A pointer to a PCB knows the capacity of the table it points into; the  *)
(* PCB of the idle process is static.                                      *)
Idle == [pid |-> 1, cap |-> 0]
Dangles(p) == p # Idle /\ p.cap # capacity

Step(t, a, b) == /\ status = "running"
                 /\ pc[t] = a
                 /\ pc' = [pc EXCEPT ![t] = b]
Wait == MUTEX > 0 /\ MUTEX' = MUTEX - 1
Post == MUTEX' = MUTEX + 1

(* Thread t works on what MUTEX protects.                                  *)
Inside(t) == pc[t] \in {"pick", "run", "command", "expired", "post"}

(* Where a thread goes on after shell_command.                             *)
Return(t) == IF t = Shell THEN "post" ELSE IF ticks = TQ THEN "expired" ELSE "run"

(* print_print: append to the spool file, which is created if need be.     *)
Printed(p, x) ==
  [spool EXCEPT ![p] = Append(IF @ = NoFile THEN <<>> ELSE @, x)]

(* Mutant: the file is not removed.                                        *)
EndSpool_Keep(p, type) ==
  IF spool[p] = NoFile
    THEN UNCHANGED <<output, status>>
    ELSE /\ sent' = Append(sent, [pid |-> p, text |-> spool[p], type |-> type])
         /\ UNCHANGED <<spool, status>>

(* print_end_spool: send the file to the printer and remove it.  Without   *)
(* the printer the message is lost, or SIGPIPE kills the computer.         *)
EndSpool(p, type) ==
  IF spool[p] = NoFile
    THEN UNCHANGED <<output, status>>
    ELSE \/ /\ spool' = [spool EXCEPT ![p] = NoFile]
            /\ sent' = IF printer
                         THEN Append(sent, [pid |-> p, text |-> spool[p],
                                            type |-> type])
                         ELSE sent
            /\ UNCHANGED status
         \/ ~printer /\ status' = "sigpipe" /\ UNCHANGED output

-----------------------------------------------------------------------------
(* After boot_system: the idle process is in memory and in its PCB.        *)
Init ==
  /\ MUTEX = 1
  /\ TERMINATE = FALSE
  /\ pc = [t \in Thread |-> IF t = Main THEN "test" ELSE "prompt"]
  /\ cmd = [t \in Thread |-> 0]
  /\ name = [t \in Thread |-> NoFile]
  /\ PROCESS_COUNT = 2
  /\ capacity = 2
  /\ PCB = [p \in Process |-> NewContext(0)]
  /\ ReadyQueue = <<>>
  /\ RUNNING_PCB = Idle
  /\ cpu = load_words(Blank(M), PROG_IDLE, 0)
  /\ ticks = 0
  /\ spool = [p \in Process |-> IF p \in Leftover
                                  THEN <<Shows("old", <<>>)>> ELSE NoFile]
  /\ sent = <<>>
  /\ printer = TRUE
  /\ typed = 0
  /\ program = [p \in PID |-> NoFile]
  /\ status = "running"

-----------------------------------------------------------------------------
(* process_execute.                                                        *)
Test ==
  /\ Step(Main, "test", IF TERMINATE THEN "join" ELSE "wait")
  /\ UNCHANGED <<MUTEX, TERMINATE, calm>>

WaitTurn ==
  /\ Step(Main, "wait", "pick")
  /\ Wait
  /\ UNCHANGED <<TERMINATE, calm>>

(* The next process is switched in.                                        *)
Pick ==
  /\ Step(Main, "pick", "run")
  /\ IF ReadyQueue = <<>>
       THEN RUNNING_PCB' = Idle /\ UNCHANGED ReadyQueue
       ELSE RUNNING_PCB' = Head(ReadyQueue) /\ ReadyQueue' = Tail(ReadyQueue)
  /\ cpu' = LoadContext(cpu, PCB[RUNNING_PCB'.pid])
  /\ ticks' = 0
  /\ UNCHANGED <<MUTEX, TERMINATE, request, table, PCB, output, outside, program,
                 status>>

(* cpu_operation: the next instruction, one of those with the given codes. *)
Fetch(codes, b) ==
  /\ Step(Main, "run", b)
  /\ ~Wild(cpu)
  /\ cpu' = cpu_execute_instruction(cpu_fetch_instruction(cpu))
  /\ cpu_fetch_instruction(cpu).IR0 \in codes
  /\ ticks' = ticks + 1

AfterFetch == IF ticks + 1 = TQ THEN "expired" ELSE "run"

(* The instructions that only compute.                                     *)
Compute ==
  /\ Fetch(1 .. 6, AfterFetch)
  /\ UNCHANGED <<MUTEX, TERMINATE, request, procs, output, outside, status>>

PrintAC ==
  /\ Fetch({7}, AfterFetch)
  /\ spool' = Printed(RUNNING_PCB.pid, Shows("AC", <<cpu.AC>>))
  /\ UNCHANGED <<MUTEX, TERMINATE, request, procs, sent, outside, status>>

(* Sleep gives the shell its chance in the middle of a quantum.            *)
Sleep ==
  /\ Fetch({8}, "asleep")
  /\ Post
  /\ UNCHANGED <<TERMINATE, request, procs, output, outside, status>>

Wake ==
  /\ Step(Main, "asleep", Return(Main))
  /\ Wait
  /\ UNCHANGED <<TERMINATE, calm>>

ShellInstr ==
  /\ Fetch({9}, "command")
  /\ cmd' = [cmd EXCEPT ![Main] = cpu'.IR1 % 256]   \* a uint8_t
  /\ UNCHANGED <<MUTEX, TERMINATE, name, procs, output, outside, status>>

(* Mutant: the context is not saved.                                       *)
Expire_NoSave ==
  /\ Step(Main, "expired", "post")
  /\ ReadyQueue' = IF RUNNING_PCB = Idle THEN ReadyQueue
                   ELSE Append(ReadyQueue, RUNNING_PCB)
  /\ UNCHANGED <<MUTEX, TERMINATE, request, table, PCB, RUNNING_PCB, cpu, ticks,
                 output, outside, program, status>>

(* Mutant: the process goes to the head of the queue.                      *)
Expire_Head ==
  /\ Step(Main, "expired", "post")
  /\ PCB' = [PCB EXCEPT ![RUNNING_PCB.pid] = SaveContext(@, cpu)]
  /\ ReadyQueue' = IF RUNNING_PCB = Idle THEN ReadyQueue
                   ELSE <<RUNNING_PCB>> \o ReadyQueue
  /\ UNCHANGED <<MUTEX, TERMINATE, request, table, RUNNING_PCB, cpu, ticks,
                 output, outside, program, status>>

(* TQ_EXPIRATION: switched out and back into the ready queue, but for the  *)
(* idle process.                                                           *)
Expire ==
  /\ Step(Main, "expired", "post")
  /\ PCB' = [PCB EXCEPT ![RUNNING_PCB.pid] = SaveContext(@, cpu)]
  /\ ReadyQueue' = IF RUNNING_PCB = Idle THEN ReadyQueue
                   ELSE Append(ReadyQueue, RUNNING_PCB)
  /\ UNCHANGED <<MUTEX, TERMINATE, request, table, RUNNING_PCB, cpu, ticks,
                 output, outside, program, status>>

(* Mutant: the process ends and is put back into the ready queue.          *)
Exit_Requeue ==
  /\ Fetch(Int \ 1 .. 9, "post")
  /\ PCB' = [PCB EXCEPT ![RUNNING_PCB.pid] = NewContext(0)]
  /\ EndSpool(RUNNING_PCB.pid, "END_SPOOL")
  /\ ReadyQueue' = Append(ReadyQueue, RUNNING_PCB)
  /\ UNCHANGED <<MUTEX, TERMINATE, request, table, RUNNING_PCB, outside, program>>

(* EXIT: process_exit zeroes the PCB and has the output printed.           *)
Exit ==
  /\ Fetch(Int \ 1 .. 9, "post")
  /\ PCB' = [PCB EXCEPT ![RUNNING_PCB.pid] = NewContext(0)]
  /\ EndSpool(RUNNING_PCB.pid, "END_SPOOL")
  /\ UNCHANGED <<MUTEX, TERMINATE, request, table, ReadyQueue, RUNNING_PCB, outside,
                 program>>

(* Mutant: the sem_post is forgotten.                                      *)
EndTurn_NoPost ==
  /\ Step(Main, "post", "test")
  /\ UNCHANGED <<MUTEX, TERMINATE, calm>>

EndTurn ==
  /\ Step(Main, "post", "test")
  /\ Post
  /\ UNCHANGED <<TERMINATE, calm>>

(* A PCB pointer into the table that was freed when it grew: what is read  *)
(* there may still be the old PCB, as in the actions above, or anything.   *)
(* The same goes for two threads that work at once, and for an address     *)
(* outside memory, after which anything may happen.                        *)
Undefined ==
  /\ status = "running"
  /\ \/ Inside(Main) /\ Inside(Shell)
     \/ pc[Main] = "pick" /\ ReadyQueue # <<>> /\ Dangles(Head(ReadyQueue))
     \/ pc[Main] \in {"pick", "run", "command", "expired"} /\ Dangles(RUNNING_PCB)
     \/ pc[Main] = "run" /\ Wild(cpu)
     \/ \E t \in Thread : /\ pc[t] = "command" /\ cmd[t] = 4   \* the dump of the queue
                         /\ \E k \in DOMAIN ReadyQueue : Dangles(ReadyQueue[k])
  /\ status' = "undefined"
  /\ UNCHANGED <<MUTEX, TERMINATE, pc, request, procs, cpu, ticks, output, outside>>

-----------------------------------------------------------------------------
(* main, after the scheduler: wait for the shell thread, and power off.    *)
Join ==
  /\ Step(Main, "join", "poweroff")
  /\ pc[Shell] = "ended"
  /\ UNCHANGED <<MUTEX, TERMINATE, calm>>

(* print_terminate: the spool files that are left, in any order.           *)
PowerOff ==
  /\ Step(Main, "poweroff", "poweroff")
  /\ IF \A p \in Process : spool[p] = NoFile
       THEN status' = "off" /\ UNCHANGED output
       ELSE \E p \in Process : spool[p] # NoFile /\ EndSpool(p, "CPU_TERM")
  /\ UNCHANGED <<MUTEX, TERMINATE, request, procs, cpu, ticks, outside>>

-----------------------------------------------------------------------------
(* getline: a line, or the end of the input, which stays the end.          *)
ReadLine(l) == typed < MaxLines /\ l \in Line /\ typed' = typed + 1
ReadEOF == typed' = MaxLines

(* shell_thread.                                                           *)
Prompt ==
  /\ Step(Shell, "prompt", IF TERMINATE THEN "ended" ELSE "getline")
  /\ UNCHANGED <<MUTEX, TERMINATE, calm>>

GetLine ==
  /\ \/ /\ Step(Shell, "getline", "prompt")
        /\ ReadEOF /\ TERMINATE' = TRUE /\ UNCHANGED cmd
     \/ /\ Step(Shell, "getline", "prompt")
        /\ (\E l \in Line \ Command : ReadLine(l)) /\ UNCHANGED <<TERMINATE, cmd>>
     \/ \E l \in Line \intersect Command :
          /\ Step(Shell, "getline", "wait")
          /\ ReadLine(l)
          /\ cmd' = [cmd EXCEPT ![Shell] = l[2] % 256]
          /\ UNCHANGED TERMINATE
  /\ UNCHANGED <<MUTEX, name, procs, cpu, ticks, output, printer, status>>

(* Mutant: the shell does not wait for its turn.                           *)
ShellWait_None ==
  /\ Step(Shell, "wait", "command")
  /\ UNCHANGED <<MUTEX, TERMINATE, calm>>

ShellWait ==
  /\ Step(Shell, "wait", "command")
  /\ Wait
  /\ UNCHANGED <<TERMINATE, calm>>

ShellPost ==
  /\ Step(Shell, "post", "prompt")
  /\ Post
  /\ UNCHANGED <<TERMINATE, calm>>

-----------------------------------------------------------------------------
(* shell_command, on behalf of the user or of the running process, whose   *)
(* spool file gets a copy of what is shown.                                *)
Terminate(t) ==
  /\ Step(t, "command", Return(t))
  /\ cmd[t] = 0
  /\ TERMINATE' = TRUE
  /\ UNCHANGED <<MUTEX, calm>>

(* What the running process is shown: its registers, the memory, or the    *)
(* ready queue or process table.                                           *)
Dumped(c) ==
  CASE c = 2 -> Shows("registers", <<cpu.BASE, cpu.PC, cpu.IR0, cpu.IR1, cpu.AC,
                                     cpu.MAR, cpu.MBR>>)
    [] c = 3 -> Shows("memory", <<>>)
    [] OTHER -> Shows("table", <<>>)

(* The four dumps, and the codes that mean nothing.                        *)
Dump(t) ==
  /\ Step(t, "command", Return(t))
  /\ cmd[t] \notin {0, 1, 6}
  /\ cpu' = IF cmd[t] = 3 THEN shell_print_memory(cpu, M) ELSE cpu
  /\ spool' = IF t = Main /\ cmd[t] \in 2 .. 5
                THEN Printed(RUNNING_PCB.pid, Dumped(cmd[t])) ELSE spool
  /\ UNCHANGED <<MUTEX, TERMINATE, request, procs, ticks, sent, outside, status>>

(* printer_dump_spool formats the CID of each of its files, an int that is *)
(* not 0, with %s.                                                         *)
DumpSpool(t) ==
  /\ Step(t, "command", Return(t))
  /\ cmd[t] = 6
  /\ status' = IF t = Main \/ \E p \in Process : spool[p] # NoFile
                 THEN "crashed" ELSE status
  /\ UNCHANGED <<MUTEX, TERMINATE, request, procs, cpu, ticks, output, outside>>

(* Load waits for a line without MUTEX.                                    *)
LoadPrompt(t) ==
  /\ Step(t, "command", "name")
  /\ cmd[t] = 1
  /\ Post
  /\ UNCHANGED <<TERMINATE, calm>>

(* No process is where f goes, and none is about to be loaded there.       *)
Vacant(f) == /\ \A p \in PID : program[p] = f => spool[p] = NoFile
             /\ \A t \in Thread : name[t] # f

(* A line that is not two words, no line, or a file that is not there; a   *)
(* base that is not a number ends the command without taking MUTEX again.  *)
LoadName(t) ==
  /\ \/ \E f \in File : /\ Vacant(f)
                        /\ Step(t, "name", "load") /\ ReadLine(<<"file", f>>)
                        /\ name' = [name EXCEPT ![t] = f]
     \/ /\ Step(t, "name", "noload")
        /\ ReadEOF \/ \E l \in Line : /\ l \notin Name \/ l[1] = "missing"
                                      /\ ReadLine(l)
        /\ UNCHANGED name
     \/ /\ Step(t, "name", Return(t)) /\ ReadLine(<<"bad_base", 0>>)
        /\ UNCHANGED name
  /\ UNCHANGED <<MUTEX, TERMINATE, cmd, procs, cpu, ticks, output, printer, status>>

(* Mutant: it stops doubling one step early.                               *)
Grown_Early(index) ==
  Min({c \in {capacity * 2^k : k \in 0 .. index} : c >= index})

(* darray_insert: the capacity doubles until the index fits.               *)
Grown(index) == Min({c \in {capacity * 2^k : k \in 0 .. index} : c > index})

(* print_init_spool: an empty file, whatever was left there.               *)
InitSpool(p) == [spool EXCEPT ![p] = <<>>]

(* process_submit.                                                         *)
Submit(p, f) ==
  /\ PROCESS_COUNT' = p + 1
  /\ capacity' = Grown(p)
  /\ PCB' = [PCB EXCEPT ![p] = NewContext(Base[f])]
  /\ spool' = InitSpool(p)
  /\ ReadyQueue' = Append(ReadyQueue, [pid |-> p, cap |-> capacity'])
  /\ program' = [program EXCEPT ![p] = f]

(* load_prog, and process_submit when the file was read to its end.        *)
Load(t) ==
  /\ Step(t, "load", Return(t))
  /\ Wait
  /\ cpu' = load_words(cpu, Image[name[t]], Base[name[t]])
  /\ IF name[t] \in Short
       THEN UNCHANGED <<table, ReadyQueue, PCB, spool, program>>
       ELSE PROCESS_COUNT \in PID /\ Submit(PROCESS_COUNT, name[t])
  /\ name' = [name EXCEPT ![t] = NoFile]
  /\ UNCHANGED <<TERMINATE, cmd, RUNNING_PCB, ticks, sent, outside, status>>

(* Nothing to load; nor is there when the bound on the processes is met.   *)
NoLoad(t) ==
  /\ \/ Step(t, "noload", Return(t))
     \/ /\ Step(t, "load", Return(t))
        /\ PROCESS_COUNT \notin PID /\ name[t] \notin Short
  /\ Wait
  /\ name' = [name EXCEPT ![t] = NoFile]
  /\ UNCHANGED <<TERMINATE, cmd, procs, cpu, ticks, output, outside, status>>

ShellCommand(t) == \/ Terminate(t) \/ Dump(t) \/ DumpSpool(t)
                   \/ LoadPrompt(t) \/ Load(t) \/ NoLoad(t)

-----------------------------------------------------------------------------
PrinterGone ==
  /\ Lossy /\ status = "running"
  /\ printer' = FALSE
  /\ UNCHANGED <<MUTEX, TERMINATE, pc, request, procs, cpu, ticks, output, typed,
                 status>>

(* What the threads do without a line from the user.                       *)
MainWorks ==
  \/ Test \/ WaitTurn \/ Pick \/ Compute \/ PrintAC \/ Sleep \/ Wake \/ ShellInstr
  \/ Expire \/ Exit \/ EndTurn \/ Undefined \/ Join \/ PowerOff \/ ShellCommand(Main)
ShellWorks == Prompt \/ ShellWait \/ ShellPost \/ ShellCommand(Shell)

MainNext  == MainWorks \/ LoadName(Main)
ShellNext == ShellWorks \/ GetLine \/ LoadName(Shell)

Next == MainNext \/ ShellNext \/ PrinterGone

(* Two threads of a preemptive scheduler, and an input that comes, as it   *)
(* does with "./computer < comp.in".                                       *)
Spec == Init /\ [][Next]_vars /\ WF_vars(MainNext) /\ WF_vars(ShellNext)

(* A user who may stop typing.                                             *)
QuietUserSpec ==
  Init /\ [][Next]_vars /\ WF_vars(MainWorks) /\ WF_vars(ShellWorks)

-----------------------------------------------------------------------------
PCs(t) == {"wait", "command", "name", "load", "noload", "post"} \union
            IF t = Main THEN {"test", "pick", "run", "asleep", "expired", "join",
                              "poweroff"}
                        ELSE {"prompt", "getline", "ended"}
Pointer == [pid : PID, cap : Nat] \union {Idle}
(* Types; the process table always has room for the PIDs given.            *)
TypeOK ==
  /\ MUTEX \in Nat /\ TERMINATE \in BOOLEAN
  /\ pc \in [Thread -> PCs(Main) \union PCs(Shell)]
  /\ \A t \in Thread : pc[t] \in PCs(t)
  /\ cmd \in [Thread -> 0 .. 255] /\ name \in [Thread -> File \union {NoFile}]
  /\ PROCESS_COUNT \in 2 .. MaxPID + 1 /\ capacity \in Nat
  /\ capacity >= PROCESS_COUNT
  /\ ReadyQueue \in Seq(Pointer \ {Idle}) /\ RUNNING_PCB \in Pointer
  /\ PCB \in [Process -> [Register -> Int]]
  /\ cpu \in Machine(M) /\ ticks \in 0 .. TQ
  /\ spool \in [Process -> Output \union {NoFile}]
  /\ sent \in Seq([pid : Process, text : Output, type : {"END_SPOOL", "CPU_TERM"}])
  /\ printer \in BOOLEAN /\ typed \in 0 .. MaxLines
  /\ program \in [PID -> File \union {NoFile}]
  /\ status \in {"running", "off", "crashed", "sigpipe", "undefined"}

(* The shell executes no command in the middle of an instruction, a switch *)
(* or a command of a process, sleeping and waiting for a line aside.       *)
Exclusion == ~(Inside(Main) /\ Inside(Shell))

Submitted == 2 .. PROCESS_COUNT - 1
Running == pc[Main] \in {"run", "command", "name", "load", "noload", "asleep",
                         "expired"}
InCPU(p) == Running /\ RUNNING_PCB.pid = p
SentFor(p) == {k \in DOMAIN sent : sent[k].pid = p}
Ready(p) == {k \in DOMAIN ReadyQueue : ReadyQueue[k].pid = p}

(* No process is lost or runs twice: each one submitted is in the CPU, once*)
(* in the ready queue, or over and its output gone.                        *)
OnceReady ==
  status = "running" /\ pc[Main] # "poweroff" =>
    \A p \in Submitted :
      /\ Cardinality(Ready(p)) <= 1
      /\ Ready(p) # {} => ~InCPU(p) /\ spool[p] # NoFile
      /\ Ready(p) = {} => InCPU(p) \/ spool[p] = NoFile

(* The registers of process p, in the processor or in its PCB.             *)
Context(p) == IF InCPU(p) THEN cpu ELSE PCB[p]
At(p, run) == /\ Context(p).PC = run.PC /\ Context(p).AC = run.AC
              /\ \A a \in Segment(program[p]) : cpu.Mem[a] = run.Mem[a]

(* What the computers of both projects show a program.                     *)
Common(out) ==
  FlattenSeq([k \in DOMAIN out |->
                IF out[k].what \in {"AC", "registers", "memory"} THEN <<out[k]>>
                ELSE <<>>])
Runs == [f \in File |-> [n \in 0 .. Horizon |-> Alone(f, n)]]

(* The reference run, n instructions of it, and its output so far: that of *)
(* a shell instruction comes with the command it executes.                 *)
AsAlone(p, n) ==
  LET run  == Runs[program[p]]
      done == IF InCPU(p) /\ pc[Main] = "command" THEN n - 1 ELSE n
  IN  /\ At(p, run[n]) /\ done >= 0
      /\ Common(spool[p]) = Common(run[done].out)

(* Time sharing is transparent: whatever the other processes and the shell *)
(* do, each process has the registers, the memory and the output of some   *)
(* point of its run on the computer of project 1, and what is sent of it at*)
(* its end is all that it prints there.                                    *)
Transparent ==
  status = "running" =>
    \A p \in Submitted :
      /\ spool[p] # NoFile => \E n \in 0 .. Horizon : AsAlone(p, n)
      /\ \A k \in SentFor(p) :
           \E n \in 0 .. Horizon :
             /\ Common(sent[k].text) = Common(Runs[program[p]][n].out)
             /\ sent[k].type = "END_SPOOL" => Runs[program[p]][n].over

(* What time sharing asks of the programs, at the given points of their    *)
(* runs: a program that reaches out of its own words reaches out of the    *)
(* memory, not into the words of another one, and a shell instruction has a*)
(* command that fits the uint8_t of project 3; to project 1 it is an int.  *)
Disciplined(times) ==
  \A f \in File \ Short, n \in times :
    LET s  == Alone(f, n)
        at == Base[f] + s.PC
    IN  /\ Strays(f, s) =>
             \/ ~({at, at + 1} \subseteq 0 .. M - 1)
             \/ /\ {at, at + 1} \subseteq Segment(f)
                /\ Base[f] + s.Mem[at + 1] \notin 0 .. M - 1
        /\ {at, at + 1} \subseteq Segment(f) /\ s.Mem[at] = 9 =>
             s.Mem[at + 1] \in 0 .. 255

(* Horizon instructions are enough: where they lead, fewer have led before.*)
HorizonReached ==
  \A f \in File : \E n \in 0 .. Horizon - 1 : Alone(f, Horizon) = Alone(f, n)

(* The output of a process is sent to the printer once, at its end or when *)
(* the computer is switched off; only a printer that went away misses it.  *)
SentOnce ==
  \A p \in Submitted :
    LET n == Cardinality(SentFor(p)) + IF spool[p] = NoFile THEN 0 ELSE 1
    IN  n <= 1 /\ (printer => n = 1)

(* scheduler.c: ReadyQueue "points to PCBs in ProcessTable".               *)
ReadyQueuePointsIntoTable ==
  \A k \in DOMAIN ReadyQueue : ~Dangles(ReadyQueue[k])

(* README.txt: the computer terminates, on command 0 or at the end of its  *)
(* input, whatever its processes are doing.                                *)
Terminates == TERMINATE ~> status # "running"

Ending == {f \in File : Alone(f, Horizon).over}

(* Round robin: a process whose program comes to its end alone comes to its*)
(* end, whatever the other ones do, and though nobody types anything more: *)
(* in the end none of them is left.                                        *)
ProcessesEnd ==
  <>[](\/ TERMINATE \/ status # "running"
       \/ \A p \in Submitted : program[p] \in Ending => spool[p] = NoFile)
=============================================================================
