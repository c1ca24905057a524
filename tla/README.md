# Verification of the CS 4348 computer and printer

The repository holds three versions of one system.  Project 3 (`3/code`) is the
complete one: *computer* processes run programs under a time-sharing scheduler
and spool what they print; a *printer* process serves many computers over TCP.
Project 2 (`2/code`) has one computer with its printer forked behind a pipe,
project 1 (`1/sauce`) only the CPU and its shell.  Most of this directory models
project 3, where the threads, the failures and the shutdown are; the pipe of
project 2 has a module of its own, and project 1 is the reference that time
sharing is held against.

## Inventory

### Printer process of project 3 (`printer.c`, `queue.c`, `util.c`)

| part | state | operations |
|---|---|---|
| manager thread (`printer_manager`) | connection queue, its three semaphores | accept a connection and produce it |
| NC communicator threads (`communicator`) | the socket won, its own message queue with three semaphores, spool files `.printerspool/CID.PID` | consume a connection, read messages, spool, produce them, post `sync_pc` |
| printer thread (`printer_init`, `printer_main`) | `queueLens`, `sync_pc`, `mainBusy`, `printer.out` | wait for work, take a snapshot of the queue lengths, print exactly that batch |
| SIGINT handler (`printer_terminate`) | `PRINTER_TERMINATE` | wait for the batch, cancel the threads, print what is left, destroy, exit |

They interact through the queues (bounded buffers), through `sync_pc`, which
counts the messages of all queues, through `mainBusy`, and through the spool
files, written by a communicator before it enqueues and removed by whoever
prints.  The hard parts: one counter shared by several queues; batches taken
from a snapshot; an interrupt at any point, on the manager thread, which never
resumes, and further ones on any other thread; deferred cancellation without a join;
connections that break between the two reads of a message; an `exit(1)` of one thread
in the middle of another one's page; and `printer_init`, which runs
concurrently with the threads that rely on it.
Correct means: the buffers never overflow or lose mutual exclusion, every message
is printed once, in the order of its connection, with its own text, the printer
thread neither sleeps with work waiting nor runs for nothing, and SIGINT ends the process.

### Computer process of project 3 (`computer.c`, `scheduler.c`, `cpu.c`, `shell.c`, `load.c`, `print.c`, `darray.c`, `memory.c`)

| part | state | operations |
|---|---|---|
| scheduler (main thread) | ready queue of PCB pointers, process table, `RUNNING_PCB` | switch in, run a quantum, switch out and requeue, exit |
| CPU and memory | registers, `Mem` | fetch and execute; print, sleep and shell instructions |
| shell thread | the command line | terminate, load, four dumps, spool dump |
| print client | `.spool/CID.PID`, the socket | open, append to, send and remove a spool file; at power-off send the rest |

The two threads share everything under `MUTEX`; sleep and the load command give
it up in the middle of an operation.  Correct means: one thread at a time works
on the shared state, no process is lost or run twice, a program prints what it
prints alone, its output is sent exactly once, processes come to their end and
the computer powers off.

### Between them

A computer sends, for each process that ends and for each file left at power-off,
a header and the bytes of the spool file on one TCP connection; a communicator
reads both with one `read` each.  Computers and printer share a working directory
with `.spool/`, `.printerspool/` and `printer.out`, which outlive the processes.
The hard parts: a text that arrives in pieces; a process killed between two steps,
and its files in the next run; a printer that cleans up at its start; a computer
that waits on a full socket, with `MUTEX`, for a communicator that serves another
one.  Correct means: a page is the whole text of one process, nothing that was
spooled is lost while the printer stays up, no page is complete twice.

### Project 2 (`2/code/sauce/print.c`, `printer.c`)

The computer forks its printer and writes records of one size into a pipe: open,
append a chunk, end, terminate.  The printer keeps the spool files and answers
once, at the start; at power-off the computer waits for its end.  Hard: a full
pipe, a printer that lags behind while the computer dumps its directory, a printer
that dies unnoticed because the computer holds the read end too, a computer that is
killed and leaves its printer behind.  Scheduler, shell and CPU are, but for the
CID, line for line those of project 3.

### Project 1 (`1/sauce`)

Sequential: load, run to the end, print to the terminal.

## Modules

| module | what it is |
|---|---|
| `Printer` | the printer process, its clients and the network |
| `PrintService` | what a printer promises: abstract specification of `Printer` |
| `MCPrinter` | instances for TLC, used by the `Printer*.cfg` |
| `PrinterProofs` | theorems about `Printer`, for all constants: types, exclusion, the exact accounting of its semaphores |
| `PaperProofs` | theorems about `Printer`: what becomes of the messages; it implements `PrintService` |
| `Cpu` | registers, memory, instructions and context switch, as functions |
| `Solo` | the computer of project 1: the run of a program alone |
| `Computer` | the computer process, its input and the printer at the other end |
| `MCComputer` | programs and inputs for TLC, used by the `Computer*.cfg` |
| `Delivery` | a process' output from `.spool/` to the page, with restarts |
| `MCDelivery` | instances for TLC, used by the `Delivery*.cfg` |
| `Pipe` | project 2's computer and its forked printer (`Pipe.cfg`) |
| `ComputerProofs` | theorems about `Computer`, for all constants: what the functions of `Cpu` keep, types, `MUTEX`, the processes and their output |
| `TransparencyProofs` | theorems about `Computer` and `Solo`: every process runs as it does alone |
| `DeliveryProofs` | theorems about `Delivery`, for all constants: types and framing, the spool files |
| `DeliveryMessages` | theorems about `Delivery`: what becomes of the output, with kills and restarts |
| `PipeProofs` | theorems about `Pipe`, for all constants |
| `Induction` | induction over the naturals for a given set, and what it shows of `FlattenSeq` and of sums over a set |

`Computer` EXTENDS `Solo`, which EXTENDS `Cpu`; `Printer` INSTANCEs `PrintService`.
`Delivery` composes the two processes of project 3, each seen from further away:
only what touches the directories, the sockets and the queues is a step of it.

### Printer

Threads have a program counter `pc[t]` whose values name the next operation.
Every `sem_wait`, `sem_post`, queue operation and spool or paper access is one
action.  Queue `q` has one producer, thread `q`: the message queue of
communicator `q`, or, for `q = NC + 1`, the manager's connection queue; numbering
from 1 rather than 0 is the only renaming.  The producer's five steps
(`Produce`) and the consumer's five (`Consume`) are written once and used for
both kinds of queue.

* `PrinterScan` does lock, read of the length and unlock of one queue in a step;
  nobody else can use the queue between them.
* `PrinterTake` is the head of the two `for` loops and `sem_wait(&sync_pc)`;
  `queueLens` counts down what the loops have left.
* `EndSpool` is `printer_end_spool`, up to the removal of the file, which is a step
  of its own (`PrinterRemove`) while communicators run and part of the step in
  `FinalCheckPrint`, where only the removal could be observed separately.  The page is
  copied line by line, which shows only if the process ends meanwhile: `exit(1)` in a
  communicator flushes the lines copied so far, and a crash may leave some.  `CutPage` chooses
  whether the page under way (`PageUnderWay`) stays in that state, in `torn`; `Printout`
  is the paper with that page, cut and without its mark (`Unmarked`).
* `CommRead` is both reads of a message.  The connection may break between them: the
  second read's result is not looked at, and what `malloc` returned is spooled as the text.
  `TearLink` is that case, for the last message sent before a reset; the link is then
  `"torn"`, `TextRead` is `Damaged`, and the next read of a header returns 0, because the
  error has been reported.  Headers that come in pieces are left out here and in `Delivery`.
* `Sigint` sends the manager into the handler from whatever it is doing.  The
  kernel delivers a process-directed signal to the main thread when that thread
  does not block it, and here it does not.  The manager may hold the connection
  queue's mutex at that moment: nobody needs it afterwards.
* `printer_terminate` has no guard, and the manager blocks SIGINT while it is in it: a
  further one runs the handler on the printer thread or a communicator, wherever that is
  (`SigintAgain`, up to `Interrupts` signals in all).  `again[t]` is where thread `t` is in it; it never
  comes back.  If it gets `mainBusy` (`AgainWaitBusy`) it cancels all threads, itself
  included, and stops at its next cancellation point, the opening of `printer.out`; only with empty queues
  may it get through to `exit` (`AgainExit`).  A thread caught in `write_msg` leaves its file
  as it was or cut (`StopsWriting`).
* Cancellation is deferred: after `HandlerCancel` the other threads still take
  every step up to their next cancellation point (`Point`, `CommDies`,
  `PrinterDies`), so one may enqueue after the final check.  A race with the
  handler on a queue, or the use of a destroyed one, may lose the message or
  crash (`Enqueue`, `CommCorrupts`).
* A client sends its script, one message a step, and closes; a connection may be
  reset, after which the read of a header returns -1 and the communicator calls `exit(1)`.

`PrintService` knows only the connections, how much of its script each has
sent, which have broken, the paper, and whether the service is up, failing or down.  `Ask` sends,
`PutOnPaper` prints the next message of a connection, `Garble` prints a wrong text
for it, once the connection has broken; `Stop` ends the service and may cut one page (`CutPage`).  After
`Fail` it promises no further page.  The refinement mapping reads `asked` off `toSend`, `broken` off
`link`, `service` off `status` and `again` (a further SIGINT is a `Fail`); `paper` is `Printout`.
Everything between a socket and the paper, and the shutdown up
to `exit`, are stuttering steps of it.

### Cpu, Solo and Computer

A program is the words of its file.  `Cpu` transcribes `cpu.c` transfer by transfer, on a
record of registers and memory: `MAR` and `MBR` are there because `load_prog` and the memory
dump use them too, while a process sleeps, and a program can see them (shell instruction 2).
`Solo!Alone(f, n)` is the state and output of program `f` after `n` instructions on project
1's computer, written independently of `Cpu`, in one step per instruction.  `Disciplined` and
`HorizonReached` in `Computer` say which programs the theorem about `Transparent` covers.
`Computer` runs one instruction a step; `Fetch` is `cpu_fetch_instruction` and the execution
up to the call that a print, sleep or shell instruction makes.  Sleep gives up `MUTEX`; the
load command is four actions (`LoadPrompt`, `LoadName`, `Load`, `NoLoad`), because it waits
for its line without `MUTEX`, and an invalid base returns without taking it again.

A PCB pointer remembers the capacity of the table it points into: when
`darray_insert` moves the table, older pointers dangle, and a step that uses one
may do as if nothing had happened or lead to `Undefined`; so may a step of two threads
at once, or one that uses an address outside memory.  A spool file is the sequence of what
was shown.  Input is any sequence of at most `MaxLines` lines of `Line`, followed by
the end of file; the shell and a process that loads compete for it.

### Delivery

A text is a sequence of cells, a cell being what a socket takes or delivers at
once; each remembers the print ID, the run of the computer and its position, so that a page that
mixes texts shows.  `run[c]` counts the starts of computer `c` and `printed`
remembers what each life of each process has spooled, `severed` the texts a kill has cut off in the
socket and `killed` the computers whose last run was killed: only they may leave a text in a spool file
for ever (`AllDelivered`).  A write waits for room in the
socket, and is lost or kills the computer when the printer has gone.  `ReadText` takes what is there
and fills the rest with `Junk`; a
cell taken for a header ends the model (`printer = "garbled"`), since anything
may follow.  `empty_dir` removes `.spool` first, as the code does.  `KillComputer`
and `KillPrinter` stop a process between any two steps; its connection then ends as the kernel ends it.
A printer killed while it copies a file leaves the beginning of the page, without the
partial mark; the properties about pages say what they allow for that page (`Torn`).

### Pipe

One action per record written or handled.  A record carries a chunk; a full one has
no terminator, and `Bytes` says what `strlen` makes of that: the chunk and the PID
that follows it.  `Start` makes new pipes; what is in `.spool/` and
`printer.out` is what the last run left.  `KillPrinter` may, as in `Delivery`, leave the
beginning of a page.

## What the runs show

Bounds are in the `.cfg` files.

| run | question | result |
|---|---|---|
| `PrinterServe` | two computers, three messages, no failure | types, no overflow, exact slot and `sync_pc` accounting, exactly-once printing in order with the right text, no empty batch, everything printed; `PrintService` implemented |
| `PrinterShutdown` | up to three SIGINTs at any point after start-up, on any thread | exclusion, accounting until cancellation, one handler at a time past `mainBusy` and never during a batch, nobody dequeues from an empty queue, the paper is always a prefix of each script, the process ends unless a further SIGINT has caught a thread the handler needs (`HeldUp`); `PrintService` implemented |
| `PrinterStartup` | connections and SIGINT during `printer_init`; a reset at any point, between a header and its text included | exclusion; of each connection the paper has a prefix of its script, but for a last page with a wrong text, if the connection broke there, or cut by `exit(1)` or a crash |
| `ComputerRun` | all inputs of five lines, programs that use the shell, leftovers, printer gone | exclusion, no process lost or doubled, every process computes and prints what it does alone, sent once, power-off |
| `ComputerFaults` | three processes, one that never ends, overflow, addresses outside memory, a file cut short, bad bases, a user who stops typing | the same as long as nothing undefined happened; programs that end do end |
| `Delivery` | two computers, one communicator, sockets of one cell, kills and restarts of a computer and the printer | pages are whole texts, no process loses its file, complete pages once, nothing lost while the printer is up; in the end everything spooled is on paper, but for what a computer whose last run was killed has left in its spool file |
| `Pipe` | two processes of up to two chunks, two runs, either side killed anywhere | one page a process with all its chunks, partial exactly if the process was not over (but for a page at which the printer was killed), dump differs only by records on their way, the computer ends |

Why the bounds are enough.  One or two slots per queue make both "full" and
"empty" happen constantly; two communicators are enough for a batch over several
queues and for two consumers of the connection queue; with one slot the slot
semaphores alone exclude producers and consumers, so `QueueExclusion` is checked
where a queue has two (`PrinterStartup`, `PrinterShutdown`).  A quantum of two
instructions cuts the programs at every instruction; the third of three processes moves the
table (its capacity is 4 until PID 4) under the other two; an `int` wraps at `INT_MAX`, here 127, and
the theorems hold for every value of it; `Horizon` exceeds the length of the longest run.  In
`Delivery` a second start of computer 1 meets the files of the first, and a second start of the printer meets
the directory of a killed one; texts of one cell in sockets of one cell block on every message.  In `Pipe` three slots
are fewer than the records of two processes, so the pipe is full in most runs.

Five runs end in a violation, each a disagreement between the code and what the
repository says of it ("findings" in `PROJECT.json`):

* `PrinterSigintHangs`: `printer_init` sets `sync_pc` to 0 after communicators
  may have posted it.  Such a message waits until another one comes, and when it is then
  counted in a batch the printer thread blocks inside it, with `mainBusy`: SIGINT never
  ends the process.  After start-up one SIGINT always does (`PrinterShutdown`).
* `PrinterFinalCheck`: cancelled communicators are not joined; one enqueues after
  the final check, and its message is destroyed.
* `ComputerTable`: the table of PCBs moves under the pointers of the ready queue.
* `DeliveryShort`: a text that comes in two pieces is spooled after the first one, and its page is not the text.
* `DeliveryStart`: `empty_dir` removes an empty `.spool` instead of emptying `.printerspool/`, and the printer gives up.

Other weaknesses are known and have no run of their own.  A second SIGINT while the first is
handled may hang the printer for good: on the printer thread inside a batch it waits for the `mainBusy` that
this thread has taken (`printer.c:370`), on a communicator it may keep a queue's mutex or a
message already counted, and once past `mainBusy` it cancels itself and keeps that.
`HeldUp` names these cases, the only ones `SigintTerminates` excepts.  A communicator that gets
a message before the spool directory is there crashes the printer (`WriteMsg`).  Shell command 6 formats an
`int` with `%s` and crashes on the first spool file (`print.c:192`, `DumpSpool`).  Two
connections with the same print ID overwrite a waiting spool file: the instances
keep print IDs distinct, and a computer is started again only when the printer
has nothing of its earlier run left (`Settled`).  After an invalid base
(`shell.c:123`) `MUTEX` counts to two and `Exclusion` no longer holds: `ComputerRun` has no
`bad_base` line; `ComputerFaults` has, and lets the two threads lead to
`Undefined`.  `empty_dir` can take `.spool` from a running computer with nothing
in it, which then crashes at its next load (`InitSpool` of `Delivery`).  In project 2 a
full chunk brings a stray byte to the page (`Bytes`), and a computer whose printer was
killed blocks once the pipe is full (`Ends` excepts it).

### Fairness

`Spec` of `Printer`: weak fairness of each thread, and nothing about SIGINT, nor about a
thread that a further SIGINT has caught.
Threads are preemptively scheduled, and a step that stays enabled is taken in the
end; glibc's semaphores are not first-come-first-served, so strong fairness of
`sem_wait` is not assumed.  `FairClientSpec` adds that computers send everything and
close, needed by `AllPrinted`, and by the promise of `PrintService` where there are
more connections than communicators: a computer that never closes keeps its
communicator, and the messages of the next connection wait.
`Spec` of `Computer`: weak fairness of both threads, with an input that comes, as
from a file.  `QuietUserSpec` takes the reading of lines out of it (`MainWorks`,
`ShellWorks`): the user may stop typing.  That the shell's command is ever
executed does not follow: the scheduler may take `MUTEX` again each time, and no
property claims it.
`Spec` of `Delivery`: weak fairness of every computer, communicator and of the printer
thread, that is, processes end and users switch off, as the README tells them; nobody
need start or kill anything.  `Spec` of `Pipe`: weak fairness of both processes.

`CHECK_DEADLOCK FALSE` is in every configuration because the processes end (or,
for the printer, wait for connections that will not come); that they do not stop too early
is what `AllPrinted`, `SigintTerminates`, `Terminates`, `ProcessesEnd`, `AllDelivered` and `Ends` say.

## What is proved

Each theorem is about every value of the constants that satisfies the assumptions of its
module; TLC evaluates those on every run.

### Printer

`PrinterProofs` proves, for every number of communicators, every capacity, every
set of connections and scripts, with any number of SIGINTs, resets and the start-up
race, from `CapacityAssumption` and `DataAssumption` alone:

* `Invariance`: the inductive invariant `IInv` holds in every reachable state;
* `TypeCorrect` (`TypeOK`), `NoOverflow` (`BuffersBounded`), `MutualExclusion`
  (`QueueExclusion`), `PaperProtected` (`BusyProtectsPaper`) and
  `NothingFromNothing` (`DequeueFinds`).

The argument.  Exclusion alone is not inductive: `LockInv` adds that a mutex with
a holder is 0; its being at most 1 is part of `TypeOK`, so types and
exclusion are proved together.  `BusyInv` says the same of `mainBusy`, held by the batch or
kept by the handler for ever, on whichever thread; `AgainInv` that a thread is caught only while
the first handler runs, and that at most one gets past `mainBusy`.  For the slots the exact equations (`SlotAccounting`)
break when a thread is interrupted or cancelled between two semaphore
operations, so this invariant has inequalities, which nothing breaks: `EmptyInv` (free slots promised or
being filled, plus the length, never exceed the capacity) and `FullInv` (elements
promised or being taken never exceed the length), with `DestroyedInv` for the
empty queues after `HandlerDestroy`.  `FullInv` shows that a dequeue
finds something, which `GotInv` needs, which the types of `got` and `item`
(`HeldInv`) need in turn: a thread that went on with an uninitialised message
would have no type.  `Flat` regroups the disjuncts of `Next` by kind
of operation; there is one step lemma per part of the invariant (`TypeStep`,
`HeldStep`, `GotStep`, `LockStep`, `SlotsStep`, and short ones for the rest), each with
one case per kind.  `CountStep` is the lemma on cardinalities that the sums rest on.

From it follow the equations:

* `ExactSlots` (`SlotAccounting`): until the threads of a queue are interrupted or cancelled,
  free slots, elements and operations under way add up exactly.  Each of the ten steps of
  producer and consumer changes both sides by as much (`Exact`), which is inductive beside `IInv`
  (`ExactStep`).
* `ExactSync` (`SyncAccounting`): `sync_pc`, with the posts and the takings under way,
  is the number of messages in all the message queues, until cancellation.  It assumes `Ready`,
  that `printer_init` is over when the first connection comes: before, it sets `sync_pc` to 0 and the
  equation is false (`PrinterSigintHangs`).  `Drift` is the difference of the two sides; one lemma
  per kind of step says that the step leaves it alone.  The number of queues is a parameter, so
  the two sums are folds over a finite set (`Total` of `Induction`).

* `BatchesFind` (`NoEmptyBatch`): every batch finds a message, with the start-up race and
  SIGINT too, once or again.  What `printer_init` drops only makes `Drift` negative, so `sync_pc` never counts more
  than the queues hold; what of a queue the snapshot has not seen is still there when it gets there
  (`BatchInv`), because the handler does not get past `mainBusy` meanwhile.

`PaperProofs` goes on to what the queues carry, with any number of SIGINTs, cancellation, resets
between any two reads, pages cut by `exit(1)` or a crash, and the start-up race included.  It assumes `Distinct`, that no two messages have the same print ID, as the CIDs of
computers and the PIDs within one give it; without it a message overwrites the spool file of another one.

* `Messages`: `MessageInv` holds in every reachable state.
* `Conserved` (`Conservation`): until cancellation, paper, printer, queue and hand of the
  communicator, socket and what is not sent yet make up the script of each connection that has not
  broken inside a message, in this order.
* `Faithful` (`PaperFaithful`): whatever happens, the paper has a prefix of each script, of which at most the last
  page is wrong: with memory for a text, if the connection broke in that message; cut and without
  its mark, if the process called `exit(1)` or crashed.
* `Spooled` (`SpooledUntilPrinted`): a message in a queue has its spool file, with its own text or with what was
  taken for it when its connection broke.
* `Serves`: `Init` implies `Service!Init`, and every step of `Printer` is a step of `PrintService` or a
  stutter: the safety part of `ServesAsPromised`.

The argument.  The *line* of a communicator is what it holds, behind what is in its queue,
behind what the printer has taken from that queue and not yet printed.  `LinedInv` says that
each message which has been read and is not on paper is in just one line, that those of one
connection are in the same line and in order (`Ordered`), and, until cancellation, that none is missing; afterwards
a line may lose its end (`NoGap`).  A step then does one of four things to the lines: nothing, put the
next message of a connection at an end (`Join`), take a message off a front (`Leave`), or lose an
end (`Lose`); these are lemmas about sequences, and the lemma for each action shows which
one it is.  `Join` needs to know that the message read is the next one of
its connection (`NetInv`) and that no other communicator has that connection (`ConnInv`: a
connection is new, with the manager, in the connection queue or with one communicator) or messages of it
(`ServerInv`).  `PagesInv`, that the paper has the first messages of each connection, then
follows from `Leave`: the first message of a line is the first of its connection that is not printed.
A page may be a wrong one (`IsPage`) only if it is the last message read of a broken
connection (`Broke`): nothing is left in the socket of such a connection (`LinkInv`), and the
message in a communicator's hand is the last one read (`ReadInv`).  The page left at the end is
the next of its connection (`CutInv`), since the message under way is a first one of a line.
`SpoolInv` says when a message in a line has its file; to keep it, the file removed must
be that of a printed message (`RemoveInv`), and none may be written before
the directory is there (`MkdirInv`).  `HandInv` is the type of what a communicator holds.

### Computer

`ComputerProofs`, for every memory, quantum, number of processes and
lines, every set of programs, from `WordAssumption` and `ComputerAssumption`:

* `TypeCorrect` (`TypeOK`).  `TInv` adds what the types need: a thread that loads has a
  file to load, a quantum that goes on is not used up, and what a PCB holds can be put
  into the registers (`Saved`).  One lemma for each function of `Cpu` says that the
  result is a machine again, whatever the program does.
* `MutualExclusion` (`Exclusion`), assuming `NoBadBase`, that no line names an invalid
  base: after one the code posts `MUTEX` twice and exclusion is lost,
  so no more is true.  `LockInv`: `MUTEX` and the number of threads past
  their `sem_wait` add up to 1, one case per action.
* `ProcessesKept` (`OnceReady`).  `PlacesInv`: of the PIDs given, those in the ready queue
  and the one in the CPU are different and have their spool file, and the others have
  none.  It is stated while nothing undefined has happened, as `OnceReady` is, and holds
  with bad bases too, when two threads may be inside at once: what such a race does is an
  outcome of `Undefined`, and between two whole steps no process is lost.
* `OutputSentOnce` (`SentOnce`).  `SentInv`: no message for a process that has its
  file, at most one for each process, and one for each that has none while the
  printer is there.  It rests on `PlacesInv`: a process that exits still has its file.

`TransparencyProofs` shows that the computer of project 3 runs each process as that of project 1
runs its program, whatever the quantum, the other programs, the shell and their interleaving.

* `TimeSharing` (`OnCourse`): a process with a spool file has the registers, the memory and
  the output of some point of the run `Solo!Alone` of its program, and what is sent of it
  is the output of a point, of the end if it was sent as the end.  Runs may be of any length.
* `TransparentRuns` (`Transparent`): the same, stated as the runs of TLC check it, with the
  first `Horizon` points of each run.

Three hypotheses, beside `PlacementAssumption`.  `NoBadBase`, as for `Exclusion`.  `Disciplined`:
what two programs on one computer cannot do and still each be as if alone.  A program that
reaches out of its own words reaches out of the memory, which is undefined on both
computers, and not into another program; and the command of a shell instruction fits the
`uint8_t` of project 3, since project 1 keeps it in an `int`.  `HorizonReached`, for
`TransparentRuns` only: each run ends or comes round within `Horizon` instructions, so that its
first points are all it has.  `MCComputer` assumes the last two of its programs
(`MCPrograms`), and TLC evaluates that on `ComputerRun` and `ComputerFaults`.

The argument.  `FollowInv` says of each process that is not over that it `Follow`s its run:
for some `n` its saved context or, if it has the CPU, the registers of the CPU, its words in
the shared memory and its spool file are those of `Alone(f, n)`.  While its shell
instruction is under way it is past the instruction and `Owes` what the command shows.  The
idle program has words of its own, and `IdleInv` says that it never leaves them.  Nothing
else may write where a process is: `ApartInv` and `NamesInv` say that two live processes, or
a live process and a pending `load`, are of different programs, and `FileFacts` that those
are in disjoint words.  `TextsInv` is the claim about the messages.  The step that matters
is one instruction: `FetchSame` and `StepSame` show that `Cpu` and `Solo` do the same on the
words of the process, and a lemma per action shows that the rest leaves the others where
they are.  It needs `PlacesInv` for who is in the CPU and `LockInv` for who may touch it.
That a run which comes round has no further points is `RunCovered`.

### Pipe

`PipeProofs`, for any number of processes, chunks, runs and any size of the pipe, with
kills: `TypeCorrect` (`TypeOK`), `InOrder` (the inductive invariant), `PagesAreComplete`
(`PagesComplete`), `DumpOnlyLags` (`DumpLags`) and `PrintedWhenOff` (`AllPrintedWhenOff`).
The properties speak of the paper and the directory, which the printer writes, and of
the process, which has gone on meanwhile, so the invariant has to say what is on its way.
Number the records of a process in the order they are sent (`Rank`).  Those not handled yet,
in the pipe or in the printer's hand, have consecutive numbers from some `low` up, each once
and in this order (`Pend`); and the file and the page of the process are what the records
below `low` leave (`Stage`): nothing (`Waits`), a file of the first chunks (`Open`), a file and
its page (`Closing`), only the page (`Done`).  Each action of the computer adds a record at
the end, each of the printer takes the first; there is one lemma for each action
(`Served...`), for its own process and for the others.

### Delivery

`DeliveryProofs`, for any number of computers, processes, communicators, starts and sizes of
sockets and queues, with kills, from `DeliveryAssumption` (finite sets, positive sizes, and
`NoDir` is no directory):

* `TypeCorrect` (`TypeOK`).  That a page holds cells and never a header is the framing
  of the protocol: a communicator reads as many cells as the header told it, and no other
  header may be among them, although texts come in pieces and the reader may have taken
  fewer.  `FrameInv`: what a header announces is next in the socket or still to be sent, by a
  computer that sends nothing else before.  It needs `FilesInv` (the file being sent neither
  grows nor goes) and `LinkInv` (no two communicators, nor a communicator and the connection
  queue, have the same connection, and a new one starts empty).
* `FilesKept` (`FileThere`): a process that is not over has its spool file, although
  computers share the directory and a printer may start, or be killed, meanwhile.  The printer
  removes `.spool` only when it is empty.

`DeliveryMessages`, from the same assumption, follows the output to the paper:

* `NoMixture` (`OfOneLife`, which no run checks): each cell of a page is that of one life of the
  process the page names, in its place, or junk for a cell that a short read did not get; never
  of another process, computer or run of it, and never of another page.
* `WholePages` (`PagesFaithful`), assuming `MaxText <= 1`, that a text comes in one piece: the page is
  all of the life, unless one of the two was killed at it.  Without the hypothesis
  it is false (`DeliveryShort`); `NoMixture` is what remains true then.
* `PrintedOnce` (`CompleteOnce`): a text is not printed twice as a complete one, although a computer
  that is killed leaves files it has sent already and sends them again.
* `NoneLost` (`NothingLost`): while the printer stays up, the output of the latest life of a
  process is somewhere on its way.

The argument.  A message is a header, and its text is known from the print ID and the run only
because a process that is over prints no more: `LivesInv` gives each cell of a life its place,
and `SpoolInv` says that the file being sent is that of a life which is `Frozen`.  From there
`SockInv`, `HandInv`, `QueueInv` and `PaperInv` follow it: behind a header in a
socket, or before a communicator that has read one, are the cells of that life, as many as
are sent (`Carried`), and what was read is the same with junk in places (`Received`).  `Frozen`
lasts as long as a message is on its way, because the computer is started again only
when none is (`Settled`), and `FrozenStays` shows it for the paper, where pages of earlier runs stay.
A printer's file is named by the print ID alone, so two messages with one ID on their way at
once would be two pages of one text: `ApartInv` excludes it, from `SentInv`, that the file of a
message on its way is gone or is being sent, unless its computer is down.  For `PrintedOnce`
the other way round: once a page claims to be complete (`Claims`), no message with its ID and run
that is still on its way or to be sent is one that will (`OnceInv`); one that a
kill left is marked by `print_terminate`.

`NoneLost` needs two more.  `StartInv`: since the first start of the printer every computer that runs
is connected, so that what it writes does arrive.  `LostInv`: the latest life of each process
is `Kept` in its file or is `Gone` to the printer (last cell in the socket, with a communicator, in a
printer's file or on paper), and a file that is `AllSent` is `Gone`, as it is removed next.  One lemma
for each step of the printer hands the text on (`GoneHeader` to `GonePage`); that the cell which
`ReadText` takes is the last of the right text comes from `Carried`, and that `Put` replaces no file
from `ApartInv`.  TLC has checked `MessageInv`, `StartInv` and `LostInv` on instances with two runs,
two processes or two computers.

### Induction over data

The library's induction theorems take an operator, which the provers cannot instantiate.
`NatSetInduction` takes a set instead, from the well-founded order on finite sets, which the
library states without one.  `Induction` uses it for the recursive function
inside `FlattenSeq`, for the one inside `MapThenSumSet`, under any choice of the order of
the elements, and for `Solo!Alone`: that the run exists (`StepsExist`, `IterationExists`)
and what stays true along it (`IterationStays`).  With `FlattenSeq` `Computer` selects what
an output has in common with the other (`Common`), `Pipe` makes a text of its chunks and
`Printer` selects the messages of a connection (`Of`): a `SelectSeq` cannot be expanded by
the provers.

### Only model-checked

Every safety property of a passing run is a theorem.  Liveness stays with TLC, as fairness is
out of the prover's reach: `AllPrinted`, `SigintTerminates`, `Terminates`, `ProcessesEnd`,
`AllDelivered`, `Ends` and the fairness in `ServesAsPromised`.  So do the violations, and
`PagesFaithful` for texts of more than one cell, which `DeliveryShort` refutes.

## Assumed and not modelled

Assumed of the user, from `3/code/README.txt`: programs are loaded where nothing else
is (`PlacementAssumption`, `Vacant`), the CID of a computer is its own.  Assumed here: a restart waits for what the
killed process left in the other one (`Settled`, in `Delivery` and `Pipe`); computers and printer run in one
directory.

* Of a message only the text may be short: a header of 16 bytes comes whole.
  What follows a text taken for a header is left open.
* SIGINT inside the C library (`malloc`, `printf`), and the order in which glibc's
  semaphores wake.
* A config file, port, paper or directory that cannot be opened at start-up, which ends the
  process before it does anything, and a full disk.
* The contents of the dumps of tables, and the prompts and log lines on the terminal.
* The nodes of the linked list in `queue.c`: under its mutex a queue is a sequence;
  the races without it are outcomes of `Enqueue` and `CommCorrupts`.
* The threads of project 2's computer, which are those of `Computer`.
* Test programs, scripts and build files.

## Plan

Modelling and proofs are complete to the extent described above.  What could follow: the linked
list of `queue.c` as a refinement of a sequence.
