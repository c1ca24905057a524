------------------------------ MODULE Printer ------------------------------
(***************************************************************************)
(* The printer process of project 3 (3/code/sauce/printer.c): the manager  *)
(* thread that accepts connections, the NC communicator threads that read  *)
(* print messages, the printer thread that puts them on paper, and the     *)
(* SIGINT handler, which runs on the manager thread and never returns.     *)
(* Every semaphore operation and every access to a shared queue is a step. *)
(*                                                                         *)
(* Queue q is produced by thread q alone: message queue i by communicator  *)
(* i, and the connection queue, number NC + 1, by the manager (the numbers *)
(* start at 1 here and at 0 in the code).  Its three semaphores are        *)
(* messageQueueMutexs[q], messageQueueEmptys[q] and messageQueueFulls[q],  *)
(* or connectionQueueMutex, -Empty and -Full.                              *)
(***************************************************************************)
EXTENDS Integers, SequencesExt

CONSTANTS
  NC,          \* communicator threads
  CQS,         \* slots of the connection queue
  MQS,         \* slots of each message queue
  Client,      \* the connections computer processes make
  PrintID,     \* print IDs <<cid, pid>>
  Text,        \* contents of a spool file
  Script,      \* Script[c]: the print messages connection c carries, in order
  Resettable,  \* connections the network may reset
  Ready,       \* TRUE: printer_init is over before the first connection
  Interrupts,  \* how many SIGINTs there are at most
  Nil

Comm == 1 .. NC
Manager == NC + 1
Printer == NC + 2
Thread == 1 .. NC + 2
ConnQ == NC + 1
Queue == 1 .. NC + 1
Slots(q) == IF q = ConnQ THEN CQS ELSE MQS

PrintMsg == [id : PrintID, text : Text, type : {"END_SPOOL", "CPU_TERM"}]
Damaged == "damaged"   \* a text cut short, or memory nobody has written to

ASSUME CapacityAssumption ==
  /\ NC \in Nat \ {0}
  /\ CQS \in Nat \ {0}
  /\ MQS \in Nat \ {0}

ASSUME DataAssumption ==
  /\ Script \in [Client -> Seq(PrintMsg)]
  /\ Resettable \subseteq Client
  /\ Ready \in BOOLEAN
  /\ Interrupts \in Nat
  /\ Nil \notin Client \union PrintMsg \union Text
  /\ Damaged \notin Text \union {Nil}

VARIABLES
  buf,               \* the contents of each queue
  sem,               \* the value of each semaphore
  PRINTER_TERMINATE,
  again,             \* printer_terminate on a thread other than the manager
  pc,                \* next operation of each thread
  item,              \* what a thread is about to produce, Nil if nothing
  got,               \* what it consumed last: a connection, or a message
  queueLens, pq,     \* printer thread: messages left of the snapshot, queue
  hq,                \* handler: the queue the final check has reached
  link, toSend, sock,        \* clients, and the bytes in their sockets
  spool, paper,      \* .printerspool/CID.PID, and the pages of printer.out
  torn,              \* the page that was left unfinished at the end, or Nil
  status             \* "running", or how the process ended

batch == <<queueLens, pq>>
net   == <<link, toSend, sock>>
files == <<spool, paper>>
data  == <<item, got, batch, hq, net, files, PRINTER_TERMINATE, again, torn,
           status>>
vars  == <<buf, sem, pc, data>>

-----------------------------------------------------------------------------
Mutex(q) == <<"mutex", q>>
Empty(q) == <<"empty", q>>
Full(q)  == <<"full", q>>
sync_pc  == <<"sync_pc", 0>>
mainBusy == <<"mainBusy", 0>>
Semaphore == ({"mutex", "empty", "full"} \X Queue) \union {sync_pc, mainBusy}

HandlerPC == {"wait_busy", "cancel", "final_check", "destroy", "rmdir"}

(* A thread that a further SIGINT caught has cancelled all of them, itself *)
(* included.                                                               *)
SelfCancelled == \E t \in Thread : again[t] = "final_check"

(* pthread_cancel has been called for the printer thread and communicators *)
Cancelled ==
  pc[Manager] \in {"final_check", "destroy", "rmdir"} \/ SelfCancelled

(* Thread t goes from a to b, in a running process; Point is such a move   *)
(* through a cancellation point, where a pending request stops the thread. *)
(* A thread in printer_terminate never gets back to what it was doing.     *)
Step(t, a, b) == /\ status = "running"
                 /\ again[t] = "no"
                 /\ pc[t] = a
                 /\ pc' = [pc EXCEPT ![t] = b]
Point(t, a, b) == ~Cancelled /\ Step(t, a, b)
Move(t, a, b) == Step(t, a, b) /\ UNCHANGED <<buf, sem, data>>

(* sem_wait and sem_post; sem_wait is a cancellation point.                *)
SemWait(t, a, b, s) == /\ Point(t, a, b)
                       /\ sem[s] > 0
                       /\ sem' = [sem EXCEPT ![s] = @ - 1]
                       /\ UNCHANGED <<buf, data>>
SemPost(t, a, b, s) == /\ Step(t, a, b)
                       /\ sem' = [sem EXCEPT ![s] = @ + 1]
                       /\ UNCHANGED <<buf, data>>

(* The spool directory exists once the printer thread has made it.         *)
NoSpoolDir == pc[Printer] \in {"mkdir", "dead_early"}

(* Mutant: the CID is left out of the name.                                *)
SpoolName_NoCID(m) == CHOOSE d \in PrintID : d[2] = m.id[2]

(* The file of a message: SPOOL_NAME_FMT, "CID.PID".                       *)
SpoolName(m) == m.id

(* printer_end_spool up to its last line of output: the text of the spool  *)
(* file goes on paper, line by line.  When the file is missing it calls    *)
(* fclose(NULL).                                                           *)
EndSpool(m) ==
  IF spool[SpoolName(m)] = Nil
    THEN status' = "crashed" /\ UNCHANGED paper
    ELSE /\ paper' = Append(paper, [m EXCEPT !.text = spool[SpoolName(m)]])
         /\ UNCHANGED status

(* The page printer_end_spool may have begun: of the printer thread, or of *)
(* the final check.                                                        *)
PageUnderWay(m) ==
  \/ pc[Printer] = "print" /\ m = got[Printer]
  \/ pc[Manager] = "final_check" /\ buf[hq] # <<>> /\ m = Head(buf[hq])

(* exit flushes printer.out with the lines copied so far, and a crash may  *)
(* leave what filled a buffer: a page cut anywhere, without its mark.      *)
CutPage == UNCHANGED torn \/ \E m \in PrintMsg : PageUnderWay(m) /\ torn' = m

-----------------------------------------------------------------------------
(* The state once printer_manager_init has returned.  printer_init, which  *)
(* runs on the printer thread and owns sync_pc and the spool directory,    *)
(* may or may not be over.                                                 *)
Init ==
  /\ buf = [q \in Queue |-> <<>>]
  /\ sem = [s \in Semaphore |-> CASE s[1] \in {"mutex", "mainBusy"} -> 1
                                 [] s[1] = "empty" -> Slots(s[2])
                                 [] s[1] \in {"full", "sync_pc"} -> 0]
  /\ PRINTER_TERMINATE = FALSE
  /\ again = [t \in Thread |-> "no"]
  /\ pc = [t \in Thread |-> CASE t = Manager -> "accept"
                              [] t = Printer -> IF Ready THEN "top" ELSE "mkdir"
                              [] OTHER -> "outer"]
  /\ item = [t \in Thread |-> Nil]
  /\ got = [t \in Thread |-> Nil]
  /\ queueLens = [i \in Comm |-> 0]
  /\ pq = 1
  /\ hq = 1
  /\ link = [c \in Client |-> "new"]
  /\ toSend = Script
  /\ sock = [c \in Client |-> <<>>]
  /\ spool = [d \in PrintID |-> Nil]
  /\ paper = <<>>
  /\ torn = Nil
  /\ status = "running"

-----------------------------------------------------------------------------
(* The bounded buffer, producer side: thread t puts item[t] in queue t.    *)
(* A communicator writes the spool file between its lock and its enqueue.  *)

(* Mutant: it does not wait for a free slot.                               *)
WaitEmpty_NoWait(t) == Move(t, "wait_empty", "lock")

WaitEmpty(t) == SemWait(t, "wait_empty", "lock", Empty(t))

Lock(t) ==
  SemWait(t, "lock", IF t = Manager THEN "enqueue" ELSE "write_msg", Mutex(t))

(* The handler uses and destroys the queues without their mutexes: a       *)
(* message put in the queue it is emptying, or in a destroyed one, may be  *)
(* lost.                                                                   *)
Enqueue(t) ==
  /\ Step(t, "enqueue", "unlock")
  /\ item' = [item EXCEPT ![t] = Nil]
  /\ \/ /\ pc[Manager] # "rmdir"
        /\ buf' = [buf EXCEPT ![t] = Append(@, item[t])]
     \/ /\ \/ pc[Manager] = "rmdir" \/ SelfCancelled
           \/ pc[Manager] = "final_check" /\ hq = t
        /\ UNCHANGED buf
  /\ UNCHANGED <<sem, got, batch, hq, net, files, PRINTER_TERMINATE, again,
                 torn, status>>

Unlock(t) == SemPost(t, "unlock", "post_full", Mutex(t))

PostFull(t) ==
  SemPost(t, "post_full", IF t = Manager THEN "accept" ELSE "post_sync", Full(t))

Produce(t) ==
  WaitEmpty(t) \/ Lock(t) \/ Enqueue(t) \/ Unlock(t) \/ PostFull(t)

(* Consumer side: thread t takes got[t] from queue q.                      *)

(* Mutant: it does not wait for an element.                                *)
WaitFull_NoWait(t, q) == Move(t, "wait_full", "lock_full")

WaitFull(t, q) == SemWait(t, "wait_full", "lock_full", Full(q))

(* Mutant: it does not lock.                                               *)
LockFull_NoLock(t, q) == Move(t, "lock_full", "dequeue")

LockFull(t, q) == SemWait(t, "lock_full", "dequeue", Mutex(q))

(* Mutant: the node stays at the head.                                     *)
Dequeue_Keep(t, q) ==
  /\ Step(t, "dequeue", "unlock_full")
  /\ buf[q] # <<>>
  /\ got' = [got EXCEPT ![t] = Head(buf[q])]
  /\ UNCHANGED <<buf, sem, item, batch, hq, net, files, PRINTER_TERMINATE,
                 again, torn, status>>

(* queue_dequeue returns without touching its argument on an empty queue.  *)
Dequeue(t, q) ==
  /\ Step(t, "dequeue", "unlock_full")
  /\ IF buf[q] = <<>>
       THEN UNCHANGED <<buf, got>>
       ELSE /\ got' = [got EXCEPT ![t] = Head(buf[q])]
            /\ buf' = [buf EXCEPT ![q] = Tail(@)]
  /\ UNCHANGED <<sem, item, batch, hq, net, files, PRINTER_TERMINATE, again,
                 torn, status>>

UnlockFull(t, q) == SemPost(t, "unlock_full", "post_empty", Mutex(q))

AfterConsume(t) == IF t = Printer THEN "print" ELSE "inner"

(* Mutant: it posts the mutex a second time instead.                       *)
PostEmpty_Mutex(t, q) == SemPost(t, "post_empty", AfterConsume(t), Mutex(q))

PostEmpty(t, q) == SemPost(t, "post_empty", AfterConsume(t), Empty(q))

Consume(t, q) == \/ WaitFull(t, q) \/ LockFull(t, q) \/ Dequeue(t, q)
                 \/ UnlockFull(t, q) \/ PostEmpty(t, q)

-----------------------------------------------------------------------------
(* printer_manager: a client connects and accept returns its socket, which *)
(* is then produced on the connection queue.                               *)
Accept(c) ==
  /\ Step(Manager, "accept", "wait_empty")
  /\ link[c] = "new"
  /\ link' = [link EXCEPT ![c] = "open"]
  /\ item' = [item EXCEPT ![Manager] = c]
  /\ UNCHANGED <<buf, sem, got, batch, hq, toSend, sock, files,
                 PRINTER_TERMINATE, again, torn, status>>

ManagerProduce == Produce(Manager)

-----------------------------------------------------------------------------
(* communicator: consume a connection, then produce its messages.  The     *)
(* flag is tested before read blocks, not after.                           *)
CommLoop(i) ==
  \/ Move(i, "outer", IF PRINTER_TERMINATE THEN "done" ELSE "wait_full")
  \/ Move(i, "inner", IF PRINTER_TERMINATE THEN "outer" ELSE "read")

CommConsume(i) == Consume(i, ConnQ)

(* The header of the last message sent had come when the connection was    *)
(* reset, the text had not.  The -1 of the second read goes unnoticed, for *)
(* the tests behind it look at the result of the first one; the next read  *)
(* returns 0, since an error is reported once.                             *)
TearLink(c) ==
  /\ link[c] = "reset"
  /\ Len(sock[c]) = 1
  /\ link' = [link EXCEPT ![c] = "torn"]

(* Both reads of one message: the header, then fileSize bytes of text.     *)
CommRead(i) ==
  /\ Point(i, "read", "wait_empty")
  /\ sock[got[i]] # <<>>
  /\ item' = [item EXCEPT ![i] = Head(sock[got[i]])]
  /\ sock' = [sock EXCEPT ![got[i]] = Tail(@)]
  /\ UNCHANGED link \/ TearLink(got[i])
  /\ UNCHANGED <<buf, sem, got, batch, hq, toSend, files, PRINTER_TERMINATE,
                 again, torn, status>>

(* read returns 0: the client closed its end and everything was read, or a *)
(* reset has been reported before.                                         *)
CommDisconnect(i) ==
  /\ Point(i, "read", "outer")
  /\ sock[got[i]] = <<>>
  /\ link[got[i]] \in {"closed", "torn"}
  /\ got' = [got EXCEPT ![i] = Nil]
  /\ UNCHANGED <<buf, sem, item, batch, hq, net, files, PRINTER_TERMINATE,
                 again, torn, status>>

(* The read of a header returns -1: the communicator exits, and the whole  *)
(* process with it, even when a request to cancel it has come meanwhile.   *)
CommReadError(i) ==
  /\ Step(i, "read", "read")
  /\ link[got[i]] = "reset"
  /\ status' = "exit1"
  /\ CutPage
  /\ UNCHANGED <<buf, sem, item, got, batch, hq, net, files, PRINTER_TERMINATE,
                 again>>

(* What the communicator took for the text: of a torn message, memory that *)
(* malloc returned.                                                        *)
TextRead(i) == IF link[got[i]] = "torn" THEN Damaged ELSE item[i].text

(* write_msg: truncate and write the spool file.  Without the directory    *)
(* fopen returns NULL, which fwrite dereferences.                          *)
WriteMsg(i) ==
  /\ Point(i, "write_msg", "enqueue")
  /\ IF NoSpoolDir
       THEN status' = "crashed" /\ UNCHANGED spool
       ELSE /\ spool' = [spool EXCEPT ![SpoolName(item[i])] = TextRead(i)]
            /\ UNCHANGED status
  /\ UNCHANGED <<buf, sem, item, got, batch, hq, net, paper, PRINTER_TERMINATE,
                 again, torn>>

CommProduce(i) == Produce(i)

(* Mutant: the printer thread is not told.                                 *)
CommPostSync_None(i) == Move(i, "post_sync", "inner")

CommPostSync(i) == SemPost(i, "post_sync", "inner", sync_pc)

(* A thread that stops for good inside write_msg leaves the spool file     *)
(* untouched or truncated, and the mutex locked.                           *)
StopsWriting(t) ==
  \/ UNCHANGED spool
  \/ /\ pc[t] = "write_msg"
     /\ spool' = [spool EXCEPT ![SpoolName(item[t])] = Damaged]

(* A pending cancellation takes effect.                                    *)
CommDies(i) ==
  /\ Cancelled
  /\ \E a \in {"wait_full", "lock_full", "read", "wait_empty", "lock",
               "write_msg"} : Step(i, a, "dead")
  /\ StopsWriting(i)
  /\ UNCHANGED <<buf, sem, item, got, batch, hq, net, paper, PRINTER_TERMINATE,
                 again, torn, status>>

(* The race with the handler, and a step on what it has freed, may also    *)
(* corrupt the heap.                                                       *)
CommCorrupts(i) ==
  /\ status = "running" /\ again[i] = "no"
  /\ \/ pc[Manager] = "final_check" /\ hq = i /\ pc[i] = "enqueue"
     \/ /\ pc[Manager] = "rmdir" \/ SelfCancelled
        /\ pc[i] \in {"dequeue", "enqueue", "unlock", "post_full"}
  /\ status' = "crashed"
  /\ CutPage
  /\ UNCHANGED <<buf, sem, pc, item, got, batch, hq, net, files,
                 PRINTER_TERMINATE, again>>

-----------------------------------------------------------------------------
(* printer_main, from printer_init on.                                     *)

(* printer_init empties printer.out and makes the spool directory, ...     *)
PrinterMkdir ==
  /\ Step(Printer, "mkdir", "sem_init")
  /\ paper' = <<>>
  /\ UNCHANGED <<buf, sem, item, got, batch, hq, net, spool, PRINTER_TERMINATE,
                 again, torn, status>>

(* ... and then initialises sync_pc, whatever was posted on it before.     *)
PrinterSemInit ==
  /\ Step(Printer, "sem_init", "top")
  /\ sem' = [sem EXCEPT ![sync_pc] = 0]
  /\ UNCHANGED <<buf, data>>

PrinterTop ==
  /\ Step(Printer, "top", IF PRINTER_TERMINATE THEN "done" ELSE "wait_sync")
  /\ queueLens' = [i \in Comm |-> 0]
  /\ pq' = 1
  /\ UNCHANGED <<buf, sem, item, got, hq, net, files, PRINTER_TERMINATE, again,
                 torn, status>>

(* Mutant: it does not wait for a message.                                 *)
PrinterWaitSync_NoWait == Move(Printer, "wait_sync", "wait_busy")

PrinterWaitSync == SemWait(Printer, "wait_sync", "wait_busy", sync_pc)

PrinterWaitBusy == SemWait(Printer, "wait_busy", "repost", mainBusy)

(* Mutant: the post that makes the wait a mere test is missing.            *)
PrinterRepost_None == Move(Printer, "repost", "scan")

PrinterRepost == SemPost(Printer, "repost", "scan", sync_pc)

(* The snapshot of queue pq, taken under its mutex.                        *)
PrinterScan ==
  /\ Step(Printer, "scan", IF pq + 1 \in Comm THEN "scan" ELSE "take")
  /\ sem[Mutex(pq)] > 0
  /\ queueLens' = [queueLens EXCEPT ![pq] = Len(buf[pq])]
  /\ pq' = IF pq + 1 \in Comm THEN pq + 1 ELSE 1
  /\ UNCHANGED <<buf, sem, item, got, hq, net, files, PRINTER_TERMINATE, again,
                 torn, status>>

(* The next message of the snapshot, in queue order; queueLens counts what *)
(* the two for loops have left.                                            *)
PrinterTake(i) ==
  /\ Step(Printer, "take", "wait_full")
  /\ queueLens[i] > 0
  /\ \A j \in 1 .. i - 1 : queueLens[j] = 0
  /\ sem[sync_pc] > 0
  /\ sem' = [sem EXCEPT ![sync_pc] = @ - 1]
  /\ queueLens' = [queueLens EXCEPT ![i] = @ - 1]
  /\ pq' = i
  /\ UNCHANGED <<buf, item, got, hq, net, files, PRINTER_TERMINATE, again,
                 torn, status>>

PrinterConsume == Consume(Printer, pq)

PrinterPrint ==
  /\ Step(Printer, "print", "remove")
  /\ EndSpool(got[Printer])
  /\ UNCHANGED <<buf, sem, item, got, batch, hq, net, spool, PRINTER_TERMINATE,
                 again, torn>>

PrinterRemove ==
  /\ Step(Printer, "remove", "take")
  /\ spool' = [spool EXCEPT ![SpoolName(got[Printer])] = Nil]
  /\ got' = [got EXCEPT ![Printer] = Nil]
  /\ UNCHANGED <<buf, sem, item, batch, hq, net, paper, PRINTER_TERMINATE,
                 again, torn, status>>

BatchOver == \A i \in Comm : queueLens[i] = 0

(* Mutant: mainBusy stays taken.                                           *)
PrinterFinish_Busy == BatchOver /\ Move(Printer, "take", "top")

PrinterFinish == BatchOver /\ SemPost(Printer, "take", "top", mainBusy)

PrinterDies ==
  /\ Cancelled
  /\ \/ Move(Printer, "mkdir", "dead_early")
     \/ \E a \in {"wait_sync", "wait_busy"} : Move(Printer, a, "dead")

-----------------------------------------------------------------------------
(* printer_terminate, on the manager thread: the kernel prefers it while   *)
(* it does not block the signal.                                           *)
Sigint ==
  /\ Interrupts > 0
  /\ status = "running"
  /\ pc[Manager] \notin HandlerPC
  /\ pc' = [pc EXCEPT ![Manager] = "wait_busy"]
  /\ PRINTER_TERMINATE' = TRUE
  /\ UNCHANGED <<buf, sem, item, got, batch, hq, net, files, again, torn,
                 status>>

(* Mutant: it does not wait for the end of the batch.                      *)
HandlerWaitBusy_NoWait == Move(Manager, "wait_busy", "cancel")

HandlerWaitBusy == SemWait(Manager, "wait_busy", "cancel", mainBusy)

(* pthread_cancel only asks: nothing joins the threads.                    *)
HandlerCancel == Move(Manager, "cancel", "final_check")

(* Mutant: the message is not taken out of the queue.                      *)
FinalCheckPrint_Keep ==
  /\ Step(Manager, "final_check", "final_check")
  /\ buf[hq] # <<>>
  /\ EndSpool(Head(buf[hq]))
  /\ UNCHANGED <<buf, sem, item, got, batch, hq, net, spool, PRINTER_TERMINATE,
                 again, torn>>

(* final_check_message_queues prints what the queues hold, ...             *)
FinalCheckPrint ==
  /\ Step(Manager, "final_check", "final_check")
  /\ buf[hq] # <<>>
  /\ LET m == Head(buf[hq]) IN
       /\ EndSpool(m)
       /\ spool' = [spool EXCEPT ![SpoolName(m)] = Nil]
  /\ buf' = [buf EXCEPT ![hq] = Tail(@)]
  /\ UNCHANGED <<sem, item, got, batch, hq, net, PRINTER_TERMINATE, again,
                 torn>>

(* ... and goes on when it sees a queue empty.                             *)
FinalCheckNext ==
  /\ Step(Manager, "final_check",
          IF hq + 1 \in Comm THEN "final_check" ELSE "destroy")
  /\ buf[hq] = <<>>
  /\ hq' = hq + 1
  /\ UNCHANGED <<buf, sem, item, got, batch, net, files, PRINTER_TERMINATE,
                 again, torn, status>>

(* What the queues still hold goes with them.                              *)
HandlerDestroy ==
  /\ Step(Manager, "destroy", "rmdir")
  /\ buf' = [q \in Queue |-> <<>>]
  /\ UNCHANGED <<sem, data>>

(* rmdir fails when the directory is not empty, or not there.              *)
RmdirExit ==
  status' = IF ~NoSpoolDir /\ \A d \in PrintID : spool[d] = Nil
              THEN "exit0" ELSE "exit69"

HandlerExit ==
  /\ Step(Manager, "rmdir", "rmdir")
  /\ RmdirExit
  /\ UNCHANGED <<buf, sem, item, got, batch, hq, net, files, PRINTER_TERMINATE,
                 again, torn>>

(* A further SIGINT: the manager blocks it while it is in the handler, so  *)
(* that it interrupts one of the other threads.                            *)
SigintAgain(t) ==
  /\ status = "running"
  /\ pc[Manager] \in HandlerPC
  /\ t # Manager /\ again[t] = "no"
  /\ pc[t] \notin {"done", "dead", "dead_early"}
  /\ Cardinality({u \in Thread : again[u] # "no"}) + 1 < Interrupts
  /\ again' = [again EXCEPT ![t] = "wait_busy"]
  /\ StopsWriting(t)
  /\ UNCHANGED <<buf, sem, pc, item, got, batch, hq, net, paper,
                 PRINTER_TERMINATE, torn, status>>

AgainWaitBusy(t) ==
  /\ ~Cancelled
  /\ status = "running"
  /\ again[t] = "wait_busy"
  /\ sem[mainBusy] > 0
  /\ sem' = [sem EXCEPT ![mainBusy] = @ - 1]
  /\ again' = [again EXCEPT ![t] = "final_check"]
  /\ UNCHANGED <<buf, pc, item, got, batch, hq, net, files, PRINTER_TERMINATE,
                 torn, status>>

(* It has asked for its own end and comes to it at the first cancellation  *)
(* point: opening printer.out if it finds a message.  Only when there is   *)
(* none may it get through the whole handler.                              *)
AgainExit(t) ==
  /\ status = "running"
  /\ again[t] = "final_check"
  /\ \A i \in Comm : buf[i] = <<>>
  /\ RmdirExit
  /\ UNCHANGED <<buf, sem, pc, item, got, batch, hq, net, files,
                 PRINTER_TERMINATE, again, torn>>

-----------------------------------------------------------------------------
(* The computer processes at the other end of the sockets, and the network.*)
(* print_end_spool sends a message and its text, print_terminate closes.   *)
ClientSend(c) ==
  /\ status = "running"
  /\ link[c] = "open"
  /\ toSend[c] # <<>>
  /\ sock' = [sock EXCEPT ![c] = Append(@, Head(toSend[c]))]
  /\ toSend' = [toSend EXCEPT ![c] = Tail(@)]
  /\ UNCHANGED <<buf, sem, pc, item, got, batch, hq, link, files,
                 PRINTER_TERMINATE, again, torn, status>>

ClientClose(c) ==
  /\ status = "running"
  /\ link[c] = "open"
  /\ toSend[c] = <<>>
  /\ link' = [link EXCEPT ![c] = "closed"]
  /\ UNCHANGED <<buf, sem, pc, item, got, batch, hq, toSend, sock, files,
                 PRINTER_TERMINATE, again, torn, status>>

ClientReset(c) ==
  /\ status = "running"
  /\ c \in Resettable
  /\ link[c] = "open"
  /\ link' = [link EXCEPT ![c] = "reset"]
  /\ UNCHANGED <<buf, sem, pc, item, got, batch, hq, toSend, sock, files,
                 PRINTER_TERMINATE, again, torn, status>>

-----------------------------------------------------------------------------
ManagerNext == ManagerProduce \/ \E c \in Client : Accept(c)

CommNext(i) ==
  \/ CommLoop(i) \/ CommConsume(i) \/ CommRead(i) \/ CommDisconnect(i)
  \/ CommReadError(i) \/ WriteMsg(i) \/ CommProduce(i) \/ CommPostSync(i)
  \/ CommDies(i) \/ CommCorrupts(i)

PrinterNext ==
  \/ PrinterMkdir \/ PrinterSemInit \/ PrinterTop \/ PrinterWaitSync
  \/ PrinterWaitBusy \/ PrinterRepost \/ PrinterScan
  \/ (\E i \in Comm : PrinterTake(i))
  \/ PrinterConsume \/ PrinterPrint \/ PrinterRemove \/ PrinterFinish
  \/ PrinterDies

HandlerNext ==
  \/ HandlerWaitBusy \/ HandlerCancel \/ FinalCheckPrint \/ FinalCheckNext
  \/ HandlerDestroy \/ HandlerExit

ClientNext == \E c \in Client : ClientSend(c) \/ ClientClose(c) \/ ClientReset(c)

AgainNext ==
  \E t \in Thread : SigintAgain(t) \/ AgainWaitBusy(t) \/ AgainExit(t)

Next == \/ ManagerNext \/ (\E i \in Comm : CommNext(i)) \/ PrinterNext
        \/ Sigint \/ HandlerNext \/ AgainNext \/ ClientNext

(* The threads are pthreads of a preemptive scheduler: each one that can   *)
(* take its next step eventually does.  Nothing is assumed of SIGINT, nor  *)
(* of a thread that a further one caught.                                  *)
Fairness ==
  /\ WF_vars(ManagerNext) /\ WF_vars(HandlerNext) /\ WF_vars(PrinterNext)
  /\ \A i \in Comm : WF_vars(CommNext(i))

Spec == Init /\ [][Next]_vars /\ Fairness

(* Computers that run to their end: they send everything and close.        *)
FairClientSpec ==
  Spec /\ \A c \in Client : WF_vars(ClientSend(c) \/ ClientClose(c))

-----------------------------------------------------------------------------
Message == [id : PrintID, text : Text \union {Damaged},
            type : {"END_SPOOL", "CPU_TERM"}]

PC(t) ==
  CASE t = Manager -> {"accept", "wait_empty", "lock", "enqueue", "unlock",
                       "post_full"} \union HandlerPC
    [] t = Printer -> {"mkdir", "sem_init", "top", "wait_sync", "wait_busy",
                       "repost", "scan", "take", "wait_full", "lock_full",
                       "dequeue", "unlock_full", "post_empty", "print",
                       "remove", "done", "dead", "dead_early"}
    [] OTHER -> {"outer", "wait_full", "lock_full", "dequeue", "unlock_full",
                 "post_empty", "inner", "read", "wait_empty", "lock",
                 "write_msg", "enqueue", "unlock", "post_full", "post_sync",
                 "done", "dead"}

Carried(q) == IF q = ConnQ THEN Client ELSE PrintMsg

(* Types: semaphores are natural numbers, binary ones included, and what a *)
(* thread holds is what its queue carries.                                 *)
TypeOK ==
  /\ buf \in [Queue -> Seq(Client \union PrintMsg)]
  /\ \A q \in Queue : buf[q] \in Seq(Carried(q))
  /\ sem \in [Semaphore -> Nat]
  /\ sem[mainBusy] <= 1 /\ \A q \in Queue : sem[Mutex(q)] <= 1
  /\ PRINTER_TERMINATE \in BOOLEAN
  /\ again \in [Thread -> {"no", "wait_busy", "final_check"}]
  /\ pc \in [Thread -> UNION {PC(t) : t \in Thread}]
  /\ \A t \in Thread : pc[t] \in PC(t)
  /\ item \in [Thread -> Client \union PrintMsg \union {Nil}]
  /\ got \in [Thread -> Client \union PrintMsg \union {Nil}]
  /\ queueLens \in [Comm -> Nat] /\ pq \in Comm /\ hq \in 1 .. NC + 1
  /\ link \in [Client -> {"new", "open", "closed", "reset", "torn"}]
  /\ toSend \in [Client -> Seq(PrintMsg)]
  /\ sock \in [Client -> Seq(PrintMsg)]
  /\ spool \in [PrintID -> Text \union {Nil, Damaged}]
  /\ paper \in Seq(Message)
  /\ torn \in PrintMsg \union {Nil}
  /\ status \in {"running", "crashed", "exit0", "exit1", "exit69"}

(* design.txt: "to make sure none of the buffers overflowed".              *)
BuffersBounded == \A q \in Queue : Len(buf[q]) <= Slots(q)

Consumers(q) == IF q = ConnQ THEN Comm ELSE {Printer}
Takes(t, q) == t \in Consumers(q) /\ (t = Printer => pq = q)

(* Thread t is between its lock and its unlock of the mutex of queue q.    *)
InSection(t, q) ==
  \/ t = q /\ pc[t] \in {"write_msg", "enqueue", "unlock"}
  \/ Takes(t, q) /\ pc[t] \in {"dequeue", "unlock_full"}

(* No two threads work on a queue at once, from the producer's lock to the *)
(* last unlock, whatever has been cancelled or interrupted meanwhile.      *)
QueueExclusion ==
  \A q \in Queue : \A t, u \in Thread :
    InSection(t, q) /\ InSection(u, q) => t = u

(* queue_dequeue returns without a value on an empty queue: until the      *)
(* handler has destroyed the queues, nobody calls it on one, interrupted   *)
(* or cancelled producers notwithstanding.                                 *)
DequeueFinds ==
  \A t \in Thread, q \in Queue :
    Takes(t, q) /\ pc[t] = "dequeue" /\ pc[Manager] # "rmdir" => buf[q] # <<>>

At(t, S) == IF pc[t] \in S THEN 1 ELSE 0
Count(q, S) == Cardinality({t \in Consumers(q) : Takes(t, q) /\ pc[t] \in S})

(* The semaphores of a queue count its slots exactly, up to the operations *)
(* under way, until the handler takes over its threads; so nobody dequeues *)
(* from an empty queue and goes on with an uninitialised message.          *)
SlotAccounting ==
  \A q \in Queue : ~(IF q = ConnQ THEN PRINTER_TERMINATE ELSE Cancelled) =>
    /\ sem[Empty(q)] + Len(buf[q]) + At(q, {"lock", "write_msg", "enqueue"})
         + Count(q, {"unlock_full", "post_empty"}) = Slots(q)
    /\ sem[Full(q)] + At(q, {"unlock", "post_full"})
         + Count(q, {"lock_full", "dequeue"}) = Len(buf[q])

Waiting == MapThenSumSet(LAMBDA i : Len(buf[i]), Comm)

(* design.txt: sync_pc counts the messages left in the message queues, up  *)
(* to the messages being put in and taken out.                             *)
SyncAccounting ==
  ~Cancelled =>
    sem[sync_pc] + MapThenSumSet(LAMBDA i : At(i, {"unlock", "post_full",
                                             "post_sync"}), Comm)
            + At(Printer, {"wait_busy", "repost", "wait_full", "lock_full",
                           "dequeue"}) = Waiting

(* The messages of s that are of connection c.                             *)
Carries(c, m) == \E k \in DOMAIN Script[c] : Script[c][k].id = m.id
Of(c, s) ==
  FlattenSeq([k \in DOMAIN s |-> IF Carries(c, s[k]) THEN <<s[k]>> ELSE <<>>])

InHand(t) == IF item[t] = Nil THEN <<>> ELSE <<item[t]>>
InPrinter == IF pc[Printer] \in {"unlock_full", "post_empty", "print"}
               THEN <<got[Printer]>> ELSE <<>>

(* Exactly once, in order: the messages of a connection are on paper with  *)
(* their own text, in the printer's hand, in one message queue, in a       *)
(* communicator's hand, in the socket or not yet sent, in this order.  A   *)
(* connection that broke inside a message is excepted, its last page is    *)
(* wrong.  Print IDs are distinct in the runs that check this.             *)
Conservation ==
  ~Cancelled /\ status = "running" =>
    \A c \in Client : link[c] # "torn" => \E i \in Comm :
      /\ Of(c, paper) \o Of(c, InPrinter) \o Of(c, buf[i])
           \o Of(c, InHand(i)) \o sock[c] \o toSend[c] = Script[c]
      /\ \A j \in Comm \ {i} : Of(c, buf[j]) = <<>> /\ Of(c, InHand(j)) = <<>>

(* Until it is printed, a message of a queue has its spool file, with its  *)
(* own text, or what was taken for it when its connection broke.           *)
SpooledUntilPrinted ==
  \A i \in Comm : \A k \in DOMAIN buf[i] :
    \/ spool[SpoolName(buf[i][k])] = buf[i][k].text
    \/ /\ spool[SpoolName(buf[i][k])] = Damaged
       /\ \E c \in Client : link[c] = "torn" /\ Carries(c, buf[i][k])

(* A page with a wrong text, and one that was cut.                         *)
Garbled(m)  == [m EXCEPT !.text = Damaged]
Unmarked(m) == [m EXCEPT !.text = Damaged, !.type = "END_SPOOL"]

Printout == IF torn = Nil THEN paper ELSE Append(paper, Unmarked(torn))

(* Whatever happens, shutdown and resets included, what is on paper of a   *)
(* connection is what it asked for, in order, with no gap and no           *)
(* duplicate.  Its last page may be wrong: with memory for a text, if the  *)
(* connection broke before that came; cut and without its mark, if the     *)
(* process called exit(1) or crashed.                                      *)
PaperFaithful ==
  \A c \in Client : \E n \in 0 .. Len(Script[c]) :
    LET good == SubSeq(Script[c], 1, n) IN
      \/ Of(c, Printout) = good
      \/ /\ n < Len(Script[c])
         /\ LET next == Script[c][n + 1] IN
              \/ /\ link[c] = "torn"
                 /\ Of(c, Printout) = Append(good, Garbled(next))
              \/ /\ status \in {"exit1", "crashed"}
                 /\ Of(c, Printout) = Append(good, Unmarked(next))

InBatch == pc[Printer] \in {"repost", "scan", "take", "wait_full", "lock_full",
                            "dequeue", "unlock_full", "post_empty", "print",
                            "remove"}

(* The handler, on whichever thread it runs, goes past mainBusy only       *)
(* between two batches of the printer thread, and on one thread: no two    *)
(* print at the same time.                                                 *)
PastBusy ==
  {t \in Thread : again[t] = "final_check" \/
                  (t = Manager /\ pc[t] \in HandlerPC \ {"wait_busy"})}
BusyProtectsPaper ==
  \A t, u \in PastBusy : t = u /\ ~InBatch

(* A batch finds something to print: the printer thread never goes round   *)
(* for nothing.                                                            *)
NoEmptyBatch ==
  [][pc[Printer] = "scan" /\ pc'[Printer] = "take"
       => \E i \in Comm : queueLens'[i] > 0]_vars

(* README: before it exits the printer "checks the message queues a final  *)
(* time and outputs them": nothing is left in a queue.                     *)
FinalCheckComplete ==
  pc[Manager] \in {"destroy", "rmdir"} => \A i \in Comm : buf[i] = <<>>

(* Every message of every connection is eventually printed.                *)
AllPrinted == \A c \in Client : <>(Of(c, paper) = Script[c])

(* A further SIGINT has caught a thread that has what the handler waits    *)
(* for: mainBusy, or what the printer thread needs to finish its batch,    *)
(* which is the mutex of a queue or a message already counted.             *)
HeldUp ==
  \E t \in Thread :
    \/ again[t] = "final_check"
    \/ /\ again[t] = "wait_busy"
       /\ \/ t = Printer /\ InBatch
          \/ t \in Comm /\ pc[t] \in {"write_msg", "enqueue", "unlock",
                                     "post_full", "post_sync"}

(* README: "The printer can be terminated with ctrl + c or SIGINT".  It    *)
(* ends, unless it is interrupted again and held up.                       *)
SigintTerminates == PRINTER_TERMINATE ~> (status # "running" \/ HeldUp)

-----------------------------------------------------------------------------
(* What a computer sees of the printer, besides its paper.                 *)
Asked == [c \in Client |-> Len(Script[c]) - Len(toSend[c])]
Broken == {c \in Client : link[c] \in {"reset", "torn"}}
ServiceState == CASE status # "running" -> "down"
                  [] status = "running" /\ (\E t \in Thread : again[t] # "no") -> "failing"
                  [] OTHER -> "up"

Service == INSTANCE PrintService WITH
             asked <- Asked, paper <- Printout, broken <- Broken,
             service <- ServiceState

(* The printer implements the service of PrintService.tla: whatever the    *)
(* order of its threads and wherever SIGINT finds them, each page is the   *)
(* next message of its connection, printed once and while the process is   *)
(* there, and every message gets its page unless the process ends, is      *)
(* interrupted twice or loses the connection.                              *)
ServesAsPromised == Service!Spec
=============================================================================
