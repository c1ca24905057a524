--------------------------- MODULE PrinterProofs ---------------------------
(***************************************************************************)
(* Theorems about Printer, for every number of communicators, all queue    *)
(* capacities and all connections, with or without SIGINT and with the     *)
(* start-up race.                                                          *)
(***************************************************************************)
EXTENDS Printer, Induction, FiniteSetTheorems, TLAPS

-----------------------------------------------------------------------------
(* What the inductive invariant is made of.                                *)

(* What a thread is about to produce is of its queue's kind.               *)
Holding == {"wait_empty", "lock", "write_msg", "enqueue"}
HeldInv == \A t \in Queue : pc[t] \in Holding => item[t] \in Carried(t)

(* Nobody goes on with something it has not dequeued.                      *)
GotInv ==
  /\ \A i \in Comm :
       /\ pc[i] \in {"read", "wait_empty", "lock", "write_msg", "enqueue",
                     "unlock", "post_full", "post_sync"} => got[i] \in Client
       /\ pc[i] \in {"unlock_full", "post_empty", "inner"}
            => PRINTER_TERMINATE \/ got[i] \in Client
  /\ pc[Printer] \in {"unlock_full", "post_empty", "print", "remove"}
       => got[Printer] \in PrintMsg

(* A held mutex is zero, and has one holder.                               *)
LockInv ==
  /\ QueueExclusion
  /\ \A q \in Queue : \A t \in Thread : InSection(t, q) => sem[Mutex(q)] = 0

(* mainBusy belongs to the batch or to the handler.                        *)
BusyInv ==
  /\ InBatch => sem[mainBusy] = 0 /\ pc[Manager] \notin HandlerPC \ {"wait_busy"}
  /\ pc[Manager] \in HandlerPC \ {"wait_busy"} => sem[mainBusy] = 0
  /\ pc[Manager] \in HandlerPC => PRINTER_TERMINATE
  /\ pc[Manager] \notin {"destroy", "rmdir"} => hq \in Comm

(* A further SIGINT passes mainBusy on one thread only, and keeps it.      *)
AgainInv ==
  /\ \A t \in Thread : again[t] = "final_check" =>
       sem[mainBusy] = 0 /\ ~InBatch /\ pc[Manager] \notin HandlerPC \ {"wait_busy"}
  /\ \A t, u \in Thread :
       again[t] = "final_check" /\ again[u] = "final_check" => t = u
  /\ \A t \in Thread : again[t] # "no" => pc[Manager] \in HandlerPC

(* The semaphores of a queue never promise more than it has, even when a   *)
(* thread is interrupted or cancelled between two of them, until the       *)
(* handler has destroyed it.                                               *)
Filling == {"lock", "write_msg", "enqueue"}
Filled == {"unlock", "post_full"}
Emptying == {"lock_full", "dequeue"}
Emptied == {"unlock_full", "post_empty"}
EmptySum(q) == sem[Empty(q)] + At(q, Filling) + Count(q, Emptied)
FullSum(q) == sem[Full(q)] + At(q, Filled) + Count(q, Emptying)

EmptyInv ==
  \A q \in Queue : pc[Manager] # "rmdir" => EmptySum(q) + Len(buf[q]) <= Slots(q)

FullInv ==
  \A q \in Queue : ~(IF q = ConnQ THEN pc[Manager] = "rmdir" ELSE Cancelled) =>
    FullSum(q) <= Len(buf[q])

(* Destroyed queues stay empty.                                            *)
DestroyedInv == pc[Manager] = "rmdir" => \A q \in Queue : buf[q] = <<>>

(* The inductive invariant.                                                *)
IInv == /\ TypeOK /\ HeldInv /\ GotInv /\ LockInv /\ BusyInv /\ AgainInv
        /\ EmptyInv /\ FullInv /\ DestroyedInv

-----------------------------------------------------------------------------
(* The threads and queues are distinct, and so are the semaphores.         *)
LEMMA Threads ==
  /\ Queue = Comm \union {Manager}
  /\ Thread = Comm \union {Manager, Printer}
  /\ Manager \notin Comm /\ Printer \notin Comm /\ Manager # Printer
  /\ 1 \in Comm /\ ConnQ = Manager
BY CapacityAssumption DEF Queue, Comm, Thread, Manager, Printer, ConnQ

(* The names of different semaphores differ, and all are in Semaphore.     *)
LEMMA Keys ==
  /\ sync_pc \in Semaphore /\ mainBusy \in Semaphore /\ sync_pc # mainBusy
  /\ \A q \in Queue :
       /\ Mutex(q) \in Semaphore /\ Empty(q) \in Semaphore /\ Full(q) \in Semaphore
       /\ {Mutex(q), Empty(q), Full(q)} \intersect {sync_pc, mainBusy} = {}
  /\ \A q, r \in Queue :
       /\ Mutex(q) # Empty(r) /\ Mutex(q) # Full(r) /\ Empty(q) # Full(r)
       /\ q # r => Mutex(q) # Mutex(r) /\ Empty(q) # Empty(r) /\ Full(q) # Full(r)
BY DEF Semaphore, Mutex, Empty, Full, sync_pc, mainBusy

(* Counting the consumers of a queue.                                      *)
Counted(q, S) == {t \in Consumers(q) : Takes(t, q) /\ pc[t] \in S}

(* A queue has finitely many consumers, so counting them gives a number.   *)
LEMMA CountedFinite ==
  ASSUME NEW q \in Queue, NEW S
  PROVE  IsFiniteSet(Counted(q, S)) /\ Count(q, S) \in Nat
<1>1. IsFiniteSet(Consumers(q))
  <2>1. IsFiniteSet(1 .. NC) BY CapacityAssumption, FS_Interval
  <2>2. IsFiniteSet({Printer}) BY FS_Singleton
  <2> QED BY <2>1, <2>2 DEF Consumers, Comm
<1>2. IsFiniteSet(Counted(q, S))
  BY <1>1, FS_Subset DEF Counted
<1> QED BY <1>2, FS_CardinalityType DEF Count, Counted

(* Thread t goes to b, and no other thread moves.                          *)
Goto(t, b) == pc' = [pc EXCEPT ![t] = b]

(* One step of thread t changes the count by t alone.                      *)
LEMMA CountStep ==
  ASSUME TypeOK, NEW t \in Thread, NEW b, Goto(t, b),
         t = Printer \/ UNCHANGED pq, NEW q \in Queue, NEW S
  PROVE  LET new == b \in S /\ t \in Consumers(q) /\ (t = Printer => pq' = q)
             old == pc[t] \in S /\ Takes(t, q)
         IN  /\ (new <=> old) => Count(q, S)' = Count(q, S)
             /\ new /\ ~old => Count(q, S)' = Count(q, S) + 1
             /\ ~new /\ old => Count(q, S)' = Count(q, S) - 1
<1> DEFINE C == Counted(q, S)  D == Counted(q, S)'
           d == IF t \in D THEN 1 ELSE 0
           e == IF t \in C THEN 1 ELSE 0
<1>0. PICK P : pc \in [Thread -> P] BY DEF TypeOK
<1>1. \A u \in Thread \ {t} : u \in C <=> u \in D
  BY <1>0 DEF Goto, Counted, Takes, Consumers, Thread, Printer
<1>2. C \subseteq Thread /\ D \subseteq Thread
  BY Threads DEF Goto, Counted, Consumers
<1>3. t \in C <=> pc[t] \in S /\ Takes(t, q)
  BY <1>0 DEF Goto, Counted, Takes
<1>4. t \in D <=> b \in S /\ t \in Consumers(q) /\ (t = Printer => pq' = q)
  BY <1>0 DEF Goto, Counted, Takes, Consumers
<1>5. IsFiniteSet(C) /\ IsFiniteSet(C \ {t}) /\ Cardinality(C \ {t}) \in Nat
  BY CountedFinite, FS_Subset, FS_CardinalityType
<1>6. C \ {t} = D \ {t}
  BY <1>1, <1>2
<1>7. Cardinality(C) = Cardinality(C \ {t}) + e
  <2>1. CASE t \in C
    <3>1. C = (C \ {t}) \union {t} BY <2>1
    <3> HIDE DEF C
    <3>2. Cardinality(C) = Cardinality(C \ {t}) + 1
      BY <1>5, <3>1, FS_AddElement
    <3> QED BY <3>2, <2>1
  <2>2. CASE t \notin C
    <3>1. C = C \ {t} BY <2>2
    <3>2. e = 0 BY <2>2
    <3> HIDE DEF C, e
    <3> QED BY <3>1, <3>2, <1>5
  <2> QED BY <2>1, <2>2
<1>8. Cardinality(D) = Cardinality(C \ {t}) + d
  <2>1. CASE t \in D
    <3>1. D = (C \ {t}) \union {t} BY <2>1, <1>6
    <3>2. t \notin C \ {t} OBVIOUS
    <3> HIDE DEF C, D
    <3>3. Cardinality(D) = Cardinality(C \ {t}) + 1
      BY <1>5, <3>1, <3>2, FS_AddElement
    <3> QED BY <3>3, <2>1
  <2>2. CASE t \notin D
    <3>1. D = C \ {t} BY <2>2, <1>6
    <3> HIDE DEF C, D
    <3> QED BY <3>1, <2>2, <1>5
  <2> QED BY <2>1, <2>2
<1>9. Count(q, S) = Cardinality(C) /\ Count(q, S)' = Cardinality(D)
  BY DEF Count, Counted
<1> HIDE DEF C, D
<1>10. Cardinality(D) = Cardinality(C) + d - e BY <1>5, <1>7, <1>8
<1>11. d \in {0, 1} /\ e \in {0, 1} /\ (d = 1 <=> t \in D) /\ (e = 1 <=> t \in C)
  OBVIOUS
<1>12. Cardinality(C) \in Nat BY <1>5, FS_CardinalityType
<1> HIDE DEF d, e
<1>13. /\ (t \in D <=> t \in C) => Count(q, S)' = Count(q, S)
       /\ t \in D /\ t \notin C => Count(q, S)' = Count(q, S) + 1
       /\ t \notin D /\ t \in C => Count(q, S)' = Count(q, S) - 1
  BY <1>9, <1>10, <1>11, <1>12
<1> QED BY <1>3, <1>4, <1>13

-----------------------------------------------------------------------------
(* The steps of Next, one disjunct for each kind: a queue operation is one *)
(* case for all the threads and queues that may perform it.                *)
Flat ==
  \/ \E t \in Queue : Produce(t)
  \/ \E t \in Thread, q \in Queue : Takes(t, q) /\ Consume(t, q)
  \/ \E c \in Client : Accept(c)
  \/ \E i \in Comm :
       \/ CommLoop(i) \/ CommRead(i) \/ CommDisconnect(i) \/ CommReadError(i)
       \/ WriteMsg(i) \/ CommPostSync(i) \/ CommDies(i) \/ CommCorrupts(i)
       \/ PrinterTake(i)
  \/ PrinterMkdir \/ PrinterSemInit \/ PrinterTop \/ PrinterWaitSync
  \/ PrinterWaitBusy \/ PrinterRepost \/ PrinterScan \/ PrinterPrint
  \/ PrinterRemove \/ PrinterFinish \/ PrinterDies
  \/ Sigint \/ HandlerNext \/ AgainNext \/ ClientNext
  \/ UNCHANGED vars

(* Every step is one of these.                                             *)
LEMMA FlatNext == TypeOK /\ [Next]_vars => Flat
<1> SUFFICES ASSUME TypeOK, [Next]_vars PROVE Flat OBVIOUS
<1>1. CASE ManagerNext BY <1>1, Threads DEF ManagerNext, ManagerProduce, Flat
<1>2. ASSUME NEW i \in Comm, CommNext(i) PROVE Flat
  <2>1. CASE CommConsume(i)
    <3>1. i \in Thread /\ ConnQ \in Queue /\ Takes(i, ConnQ)
      BY Threads DEF Takes, Consumers
    <3> QED BY <2>1, <3>1 DEF CommConsume, Flat
  <2>2. CASE CommProduce(i) BY <2>2, Threads DEF CommProduce, Flat
  <2> QED BY <1>2, <2>1, <2>2 DEF CommNext, Flat
<1>3. CASE PrinterNext
  <2>1. CASE PrinterConsume
    <3>1. Printer \in Thread /\ pq \in Queue /\ Takes(Printer, pq)
      BY Threads DEF Takes, Consumers, TypeOK
    <3> QED BY <2>1, <3>1 DEF PrinterConsume, Flat
  <2> QED BY <1>3, <2>1 DEF PrinterNext, Flat
<1> QED BY <1>1, <1>2, <1>3 DEF Next, Flat

-----------------------------------------------------------------------------
(* Types.                                                                  *)

(* The two parts of the type invariant that most steps disturb.            *)
PCType == /\ pc \in [Thread -> UNION {PC(t) : t \in Thread}]
          /\ \A t \in Thread : pc[t] \in PC(t)

SemsOK == /\ sem \in [Semaphore -> Nat]
          /\ sem[mainBusy] <= 1 /\ \A q \in Queue : sem[Mutex(q)] <= 1

(* A sem_wait, a sem_post or a plain move of thread t from a to b.         *)
LEMMA SemType ==
  ASSUME TypeOK, NEW t \in Thread, NEW a, NEW b \in PC(t),
         \/ Move(t, a, b)
         \/ \E s \in Semaphore : SemWait(t, a, b, s)
         \/ \E s \in Semaphore : SemPost(t, a, b, s)
              /\ ((s = mainBusy \/ \E q \in Queue : s = Mutex(q)) => sem[s] = 0)
  PROVE  TypeOK'
<1>1. PCType'
  <2>1. b \in UNION {PC(u) : u \in Thread} OBVIOUS
  <2>2. pc' = [pc EXCEPT ![t] = b] BY DEF Move, SemWait, SemPost, Step, Point
  <2> QED BY <2>1, <2>2 DEF TypeOK, PCType
<1>2. SemsOK'
  <2>1. CASE Move(t, a, b) BY <2>1 DEF TypeOK, SemsOK, SemsOK, Move
  <2>2. ASSUME NEW s \in Semaphore, SemWait(t, a, b, s) PROVE SemsOK'
    BY <2>2, Keys DEF TypeOK, SemsOK, SemWait
  <2>3. ASSUME NEW s \in Semaphore, SemPost(t, a, b, s),
               (s = mainBusy \/ \E q \in Queue : s = Mutex(q)) => sem[s] = 0
        PROVE  SemsOK'
    BY <2>3, Keys DEF TypeOK, SemsOK, SemPost
  <2> QED BY <2>1, <2>2, <2>3
<1>3. UNCHANGED <<buf, data>>
  BY DEF Move, SemWait, SemPost
<1> QED BY <1>1, <1>2, <1>3 DEF TypeOK, SemsOK, PCType, data, batch, net, files

(* Printing a message.                                                     *)
LEMMA EndSpoolType ==
  ASSUME TypeOK, NEW m \in PrintMsg, EndSpool(m)
  PROVE  /\ paper' \in Seq(Message)
         /\ status' \in {"running", "crashed", "exit0", "exit1", "exit69"}
<1>1. m.id \in PrintID BY DEF PrintMsg
<1>2. spool[m.id] \in Text \union {Nil, Damaged} BY <1>1 DEF TypeOK
<1>3. CASE spool[m.id] = Nil BY <1>3 DEF EndSpool, SpoolName, TypeOK
<1>4. CASE spool[m.id] # Nil
  <2>1. [m EXCEPT !.text = spool[m.id]] \in Message
    BY <1>2, <1>4 DEF PrintMsg, Message
  <2>2. paper' = Append(paper, [m EXCEPT !.text = spool[m.id]]) /\ UNCHANGED status
    BY <1>4 DEF EndSpool, SpoolName
  <2> QED BY <2>1, <2>2 DEF TypeOK
<1> QED BY <1>3, <1>4

(* Every step of the printer keeps the types.                              *)
LEMMA TypeStep == IInv /\ [Next]_vars => TypeOK'
<1> SUFFICES ASSUME IInv, [Next]_vars PROVE TypeOK' OBVIOUS
<1>0. Flat /\ TypeOK BY FlatNext DEF IInv
<1>1. ASSUME NEW t \in Queue, Produce(t) PROVE TypeOK'
  <2>0. t \in Thread /\ (t = Manager \/ t \in Comm) BY Threads
  <2>1. CASE WaitEmpty(t)
    <3>1. "lock" \in PC(t) BY <2>0, Threads DEF PC
    <3> QED BY <2>0, <2>1, <3>1, <1>0, SemType, Keys DEF WaitEmpty
  <2>2. CASE Lock(t)
    <3>1. (IF t = Manager THEN "enqueue" ELSE "write_msg") \in PC(t)
      BY <2>0, Threads DEF PC
    <3> QED BY <2>0, <2>2, <3>1, <1>0, SemType, Keys DEF Lock
  <2>3. CASE Enqueue(t)
    <3>1. item[t] \in Carried(t) BY <2>3 DEF Enqueue, Step, IInv, HeldInv, Holding
    <3>2. "unlock" \in PC(t) BY <2>0, Threads DEF PC
    <3>3. PCType'
      BY <1>0, <2>0, <2>3, <3>2 DEF Enqueue, Step, TypeOK, PCType
    <3>4. item' \in [Thread -> Client \union PrintMsg \union {Nil}]
      BY <1>0, <2>0, <2>3 DEF Enqueue, TypeOK
    <3>5. /\ buf' \in [Queue -> Seq(Client \union PrintMsg)]
          /\ \A q \in Queue : buf'[q] \in Seq(Carried(q))
      <4>1. Append(buf[t], item[t]) \in Seq(Carried(t))
        BY <1>0, <3>1 DEF TypeOK
      <4>2. Seq(Carried(t)) \subseteq Seq(Client \union PrintMsg)
        BY DEF Carried
      <4>3. UNCHANGED buf \/ buf' = [buf EXCEPT ![t] = Append(buf[t], item[t])]
        BY <2>3 DEF Enqueue
      <4> QED BY <1>0, <4>1, <4>2, <4>3 DEF TypeOK
    <3>6. UNCHANGED <<sem, got, batch, hq, net, files, PRINTER_TERMINATE,
                      again, torn, status>>
      BY <2>3 DEF Enqueue
    <3> QED BY <1>0, <3>3, <3>4, <3>5, <3>6 DEF TypeOK, PCType, batch, net, files
  <2>4. CASE Unlock(t)
    <3>1. "post_full" \in PC(t) BY <2>0, Threads DEF PC
    <3>2. sem[Mutex(t)] = 0
      BY <2>0, <2>4 DEF Unlock, SemPost, Step, IInv, LockInv, InSection
    <3> QED BY <2>0, <2>4, <3>1, <3>2, <1>0, SemType, Keys DEF Unlock
  <2>5. CASE PostFull(t)
    <3>1. (IF t = Manager THEN "accept" ELSE "post_sync") \in PC(t)
      BY <2>0, Threads DEF PC
    <3>2. Full(t) # mainBusy /\ \A q \in Queue : Full(t) # Mutex(q) BY Keys
    <3> QED BY <2>0, <2>5, <3>1, <3>2, <1>0, SemType, Keys DEF PostFull
  <2> QED BY <1>1, <2>1, <2>2, <2>3, <2>4, <2>5 DEF Produce
<1>2. ASSUME NEW t \in Thread, NEW q \in Queue, Takes(t, q), Consume(t, q)
      PROVE  TypeOK'
  <2>0. t # Manager /\ (t = Printer \/ t \in Comm)
    BY <1>2, Threads DEF Takes, Consumers
  <2>1. CASE WaitFull(t, q)
    <3>1. "lock_full" \in PC(t) BY <2>0, Threads DEF PC
    <3> QED BY <2>0, <2>1, <3>1, <1>0, SemType, Keys DEF WaitFull
  <2>2. CASE LockFull(t, q)
    <3>1. "dequeue" \in PC(t) BY <2>0, Threads DEF PC
    <3> QED BY <2>0, <2>2, <3>1, <1>0, SemType, Keys DEF LockFull
  <2>3. CASE Dequeue(t, q)
    <3>1. PCType'
      <4>1. "unlock_full" \in PC(t) BY <2>0, Threads DEF PC
      <4> QED BY <1>0, <2>3, <4>1 DEF Dequeue, Step, TypeOK, PCType
    <3>2. CASE buf[q] = <<>>
      BY <1>0, <2>3, <3>1, <3>2 DEF Dequeue, TypeOK, PCType, batch, net, files
    <3>3. CASE buf[q] # <<>>
      <4>1. /\ Head(buf[q]) \in Client \union PrintMsg
            /\ Tail(buf[q]) \in Seq(Carried(q))
            /\ Tail(buf[q]) \in Seq(Client \union PrintMsg)
        BY <1>0, <3>3 DEF TypeOK
      <4>2. /\ got' = [got EXCEPT ![t] = Head(buf[q])]
            /\ buf' = [buf EXCEPT ![q] = Tail(buf[q])]
        BY <2>3, <3>3 DEF Dequeue
      <4>3. /\ got' \in [Thread -> Client \union PrintMsg \union {Nil}]
            /\ buf' \in [Queue -> Seq(Client \union PrintMsg)]
            /\ \A r \in Queue : buf'[r] \in Seq(Carried(r))
        BY <1>0, <4>1, <4>2 DEF TypeOK
      <4>4. UNCHANGED <<sem, item, batch, hq, net, files, PRINTER_TERMINATE,
                        again, torn, status>>
        BY <2>3 DEF Dequeue
      <4> QED BY <1>0, <3>1, <4>3, <4>4 DEF TypeOK, PCType, batch, net, files
    <3> QED BY <3>2, <3>3
  <2>4. CASE UnlockFull(t, q)
    <3>1. "post_empty" \in PC(t) BY <2>0, Threads DEF PC
    <3>2. sem[Mutex(q)] = 0
      BY <1>2, <2>4 DEF UnlockFull, SemPost, Step, IInv, LockInv, InSection
    <3> QED BY <2>0, <2>4, <3>1, <3>2, <1>0, SemType, Keys DEF UnlockFull
  <2>5. CASE PostEmpty(t, q)
    <3>1. AfterConsume(t) \in PC(t) BY <2>0, Threads DEF PC, AfterConsume
    <3>2. Empty(q) # mainBusy /\ \A r \in Queue : Empty(q) # Mutex(r) BY Keys
    <3> QED BY <2>0, <2>5, <3>1, <3>2, <1>0, SemType, Keys DEF PostEmpty
  <2> QED BY <1>2, <2>1, <2>2, <2>3, <2>4, <2>5 DEF Consume
<1>3. ASSUME NEW c \in Client, Accept(c) PROVE TypeOK'
  <2>1. PCType'
    <3>1. "wait_empty" \in PC(Manager) BY Threads DEF PC
    <3> QED BY <1>0, <1>3, <3>1, Threads DEF Accept, Step, TypeOK, PCType
  <2>2. /\ item' \in [Thread -> Client \union PrintMsg \union {Nil}]
        /\ link' \in [Client -> {"new", "open", "closed", "reset", "torn"}]
    BY <1>0, <1>3, Threads DEF Accept, TypeOK
  <2>3. UNCHANGED <<buf, sem, got, batch, hq, toSend, sock, files,
                    PRINTER_TERMINATE, again, torn, status>>
    BY <1>3 DEF Accept
  <2> QED BY <1>0, <2>1, <2>2, <2>3 DEF TypeOK, PCType, batch, files
<1>4. ASSUME NEW i \in Comm, CommLoop(i) PROVE TypeOK'
  <2>1. {"done", "wait_full", "outer", "read"} \subseteq PC(i)
    BY Threads DEF PC
  <2>2. \E a : \E b \in PC(i) : Move(i, a, b)
    <3>1. \/ Move(i, "outer", "done") \/ Move(i, "outer", "wait_full")
          \/ Move(i, "inner", "outer") \/ Move(i, "inner", "read")
      BY <1>4 DEF CommLoop
    <3> QED BY <2>1, <3>1
  <2> QED BY <2>2, <1>0, SemType, Threads
<1>5. ASSUME NEW i \in Comm, CommRead(i) PROVE TypeOK'
  <2>1. PCType'
    <3>1. "wait_empty" \in PC(i) BY Threads DEF PC
    <3> QED BY <1>0, <1>5, <3>1, Threads DEF CommRead, Point, Step, TypeOK, PCType
  <2>2. got[i] \in Client
    BY <1>5 DEF CommRead, Point, Step, IInv, GotInv
  <2>3. Head(sock[got[i]]) \in PrintMsg /\ Tail(sock[got[i]]) \in Seq(PrintMsg)
    BY <1>0, <1>5, <2>2 DEF CommRead, TypeOK
  <2>4. /\ item' \in [Thread -> Client \union PrintMsg \union {Nil}]
        /\ sock' \in [Client -> Seq(PrintMsg)]
    BY <1>0, <1>5, <2>2, <2>3 DEF CommRead, TypeOK
  <2>5. UNCHANGED <<buf, sem, got, batch, hq, toSend, files, PRINTER_TERMINATE,
                    again, torn, status>>
    BY <1>5 DEF CommRead
  <2>6. link' \in [Client -> {"new", "open", "closed", "reset", "torn"}]
    BY <1>0, <1>5, <2>2 DEF CommRead, TearLink, TypeOK
  <2> QED BY <1>0, <2>1, <2>4, <2>5, <2>6 DEF TypeOK, PCType, batch, files
<1>6. ASSUME NEW i \in Comm, CommDisconnect(i) PROVE TypeOK'
  <2>1. PCType'
    <3>1. "outer" \in PC(i) BY Threads DEF PC
    <3> QED BY <1>0, <1>6, <3>1, Threads
            DEF CommDisconnect, Point, Step, TypeOK, PCType
  <2> QED BY <1>0, <1>6, <2>1
          DEF CommDisconnect, TypeOK, PCType, batch, net, files
<1>7. ASSUME NEW i \in Comm, CommReadError(i) PROVE TypeOK'
  <2>1. PCType'
    BY <1>0, <1>7, Threads DEF CommReadError, Point, Step, TypeOK, PCType
  <2>2. torn' \in PrintMsg \union {Nil}
    BY <1>0, <1>7 DEF CommReadError, CutPage, TypeOK
  <2> QED BY <1>0, <1>7, <2>1, <2>2
          DEF CommReadError, TypeOK, PCType, batch, net, files
<1>8. ASSUME NEW i \in Comm, WriteMsg(i) PROVE TypeOK'
  <2>1. PCType'
    <3>1. "enqueue" \in PC(i) BY Threads DEF PC
    <3> QED BY <1>0, <1>8, <3>1, Threads DEF WriteMsg, Point, Step, TypeOK, PCType
  <2>2. item[i] \in PrintMsg
    BY <1>8, Threads DEF WriteMsg, Point, Step, IInv, HeldInv, Holding, Carried
  <2>3. /\ spool' \in [PrintID -> Text \union {Nil, Damaged}]
        /\ status' \in {"running", "crashed", "exit0", "exit1", "exit69"}
    <3>1. item[i].id \in PrintID /\ TextRead(i) \in Text \union {Damaged}
      BY <2>2 DEF PrintMsg, TextRead
    <3>2. \/ UNCHANGED spool /\ status' = "crashed"
          \/ /\ spool' = [spool EXCEPT ![item[i].id] = TextRead(i)]
             /\ UNCHANGED status
      BY <1>8 DEF WriteMsg, SpoolName
    <3> QED BY <1>0, <3>1, <3>2 DEF TypeOK
  <2>4. UNCHANGED <<buf, sem, item, got, batch, hq, net, paper,
                    PRINTER_TERMINATE, again, torn>>
    BY <1>8 DEF WriteMsg
  <2> QED BY <1>0, <2>1, <2>3, <2>4 DEF TypeOK, PCType, batch, net
<1>9. ASSUME NEW i \in Comm, CommPostSync(i) PROVE TypeOK'
  <2>1. "inner" \in PC(i) BY Threads DEF PC
  <2>2. sync_pc # mainBusy /\ \A r \in Queue : sync_pc # Mutex(r) BY Keys
  <2> QED BY <1>0, <1>9, <2>1, <2>2, SemType, Keys, Threads DEF CommPostSync
<1>10. ASSUME NEW i \in Comm, CommDies(i) PROVE TypeOK'
  <2>1. PICK a : Step(i, a, "dead") BY <1>10 DEF CommDies
  <2>2. PCType'
    <3>1. "dead" \in PC(i) BY Threads DEF PC
    <3> QED BY <1>0, <2>1, <3>1, Threads DEF Step, TypeOK, PCType
  <2>3. spool' \in [PrintID -> Text \union {Nil, Damaged}]
    BY <1>0, <1>10 DEF CommDies, StopsWriting, TypeOK
  <2>4. UNCHANGED <<buf, sem, item, got, batch, hq, net, paper,
                    PRINTER_TERMINATE, again, torn, status>>
    BY <1>10 DEF CommDies
  <2> QED BY <1>0, <2>2, <2>3, <2>4 DEF TypeOK, PCType, batch, net
<1>11. ASSUME NEW i \in Comm, CommCorrupts(i) PROVE TypeOK'
  <2>1. torn' \in PrintMsg \union {Nil}
    BY <1>0, <1>11 DEF CommCorrupts, CutPage, TypeOK
  <2> QED BY <1>0, <1>11, <2>1 DEF CommCorrupts, TypeOK, batch, net, files
<1>12. ASSUME NEW i \in Comm, PrinterTake(i) PROVE TypeOK'
  <2>1. PCType'
    <3>1. "wait_full" \in PC(Printer) BY Threads DEF PC
    <3> QED BY <1>0, <1>12, <3>1, Threads DEF PrinterTake, Step, TypeOK, PCType
  <2>2. SemsOK'
    BY <1>0, <1>12, Keys DEF PrinterTake, TypeOK, SemsOK
  <2>3. queueLens' \in [Comm -> Nat] /\ pq' \in Comm
    BY <1>0, <1>12 DEF PrinterTake, TypeOK
  <2>4. UNCHANGED <<buf, item, got, hq, net, files, PRINTER_TERMINATE, again,
                    torn, status>>
    BY <1>12 DEF PrinterTake
  <2> QED BY <1>0, <2>1, <2>2, <2>3, <2>4 DEF TypeOK, PCType, SemsOK, net, files
<1>13. CASE PrinterMkdir
  <2>1. PCType'
    <3>1. "sem_init" \in PC(Printer) BY Threads DEF PC
    <3> QED BY <1>0, <1>13, <3>1, Threads DEF PrinterMkdir, Step, TypeOK, PCType
  <2> QED BY <1>0, <1>13, <2>1 DEF PrinterMkdir, TypeOK, PCType, batch, net
<1>14. CASE PrinterSemInit
  <2>1. PCType'
    <3>1. "top" \in PC(Printer) BY Threads DEF PC
    <3> QED BY <1>0, <1>14, <3>1, Threads DEF PrinterSemInit, Step, TypeOK, PCType
  <2>2. SemsOK'
    BY <1>0, <1>14, Keys DEF PrinterSemInit, TypeOK, SemsOK
  <2>3. UNCHANGED <<buf, data>> BY <1>14 DEF PrinterSemInit
  <2> QED BY <1>0, <2>1, <2>2, <2>3
          DEF TypeOK, PCType, SemsOK, data, batch, net, files
<1>15. CASE PrinterTop
  <2>1. PCType'
    <3>1. {"done", "wait_sync"} \subseteq PC(Printer) BY Threads DEF PC
    <3> QED BY <1>0, <1>15, <3>1, Threads DEF PrinterTop, Step, TypeOK, PCType
  <2> QED BY <1>0, <1>15, <2>1, Threads
          DEF PrinterTop, TypeOK, PCType, net, files
<1>16. CASE PrinterWaitSync
  <2>1. "wait_busy" \in PC(Printer) BY Threads DEF PC
  <2> QED BY <1>0, <1>16, <2>1, SemType, Keys, Threads DEF PrinterWaitSync
<1>17. CASE PrinterWaitBusy
  <2>1. "repost" \in PC(Printer) BY Threads DEF PC
  <2> QED BY <1>0, <1>17, <2>1, SemType, Keys, Threads DEF PrinterWaitBusy
<1>18. CASE PrinterRepost
  <2>1. "scan" \in PC(Printer) BY Threads DEF PC
  <2>2. sync_pc # mainBusy /\ \A r \in Queue : sync_pc # Mutex(r) BY Keys
  <2> QED BY <1>0, <1>18, <2>1, <2>2, SemType, Keys, Threads DEF PrinterRepost
<1>19. CASE PrinterScan
  <2>1. PCType'
    <3>1. {"scan", "take"} \subseteq PC(Printer) BY Threads DEF PC
    <3> QED BY <1>0, <1>19, <3>1, Threads DEF PrinterScan, Step, TypeOK, PCType
  <2>2. Len(buf[pq]) \in Nat
    BY <1>0, Threads DEF TypeOK
  <2>3. queueLens' \in [Comm -> Nat] /\ pq' \in Comm
    BY <1>0, <1>19, <2>2, Threads DEF PrinterScan, TypeOK
  <2>4. UNCHANGED <<buf, sem, item, got, hq, net, files, PRINTER_TERMINATE,
                    again, torn, status>>
    BY <1>19 DEF PrinterScan
  <2> QED BY <1>0, <2>1, <2>3, <2>4 DEF TypeOK, PCType, net, files
<1>20. CASE PrinterPrint
  <2>1. PCType'
    <3>1. "remove" \in PC(Printer) BY Threads DEF PC
    <3> QED BY <1>0, <1>20, <3>1, Threads DEF PrinterPrint, Step, TypeOK, PCType
  <2>2. got[Printer] \in PrintMsg
    BY <1>20 DEF PrinterPrint, Step, IInv, GotInv
  <2>3. paper' \in Seq(Message)
        /\ status' \in {"running", "crashed", "exit0", "exit1", "exit69"}
    BY <1>0, <1>20, <2>2, EndSpoolType DEF PrinterPrint
  <2>4. UNCHANGED <<buf, sem, item, got, batch, hq, net, spool,
                    PRINTER_TERMINATE, again, torn>>
    BY <1>20 DEF PrinterPrint
  <2> QED BY <1>0, <2>1, <2>3, <2>4 DEF TypeOK, PCType, batch, net
<1>21. CASE PrinterRemove
  <2>1. PCType'
    <3>1. "take" \in PC(Printer) BY Threads DEF PC
    <3> QED BY <1>0, <1>21, <3>1, Threads DEF PrinterRemove, Step, TypeOK, PCType
  <2> QED BY <1>0, <1>21, <2>1 DEF PrinterRemove, TypeOK, PCType, batch, net
<1>22. CASE PrinterFinish
  <2>1. "top" \in PC(Printer) BY Threads DEF PC
  <2>2. sem[mainBusy] = 0
    BY <1>22 DEF PrinterFinish, SemPost, Step, IInv, BusyInv, InBatch
  <2> QED BY <1>0, <1>22, <2>1, <2>2, SemType, Keys, Threads DEF PrinterFinish
<1>23. CASE PrinterDies
  <2>1. {"dead_early", "dead"} \subseteq PC(Printer) BY Threads DEF PC
  <2> QED BY <1>0, <1>23, <2>1, SemType, Threads DEF PrinterDies
<1>24. CASE Sigint
  <2>1. PCType'
    <3>1. "wait_busy" \in PC(Manager) BY Threads DEF PC, HandlerPC
    <3> QED BY <1>0, <1>24, <3>1, Threads DEF Sigint, TypeOK, PCType
  <2> QED BY <1>0, <1>24, <2>1 DEF Sigint, TypeOK, PCType, batch, net, files
<1>25. CASE HandlerNext
  <2>0. HandlerPC \subseteq PC(Manager) BY Threads DEF PC
  <2>1. CASE HandlerWaitBusy
    <3>1. "cancel" \in PC(Manager) BY <2>0 DEF HandlerPC
    <3> QED BY <1>0, <2>1, <3>1, SemType, Keys, Threads DEF HandlerWaitBusy
  <2>2. CASE HandlerCancel
    <3>1. "final_check" \in PC(Manager) BY <2>0 DEF HandlerPC
    <3> QED BY <1>0, <2>2, <3>1, SemType, Keys, Threads DEF HandlerCancel
  <2>3. CASE FinalCheckPrint
    <3>1. PCType'
      BY <1>0, <2>3, Threads DEF FinalCheckPrint, Step, TypeOK, PCType
    <3>2. hq \in Comm /\ hq \in Queue /\ Carried(hq) = PrintMsg
      BY <2>3, Threads DEF FinalCheckPrint, Step, IInv, BusyInv, Carried
    <3>3. /\ Head(buf[hq]) \in PrintMsg
          /\ Tail(buf[hq]) \in Seq(Carried(hq))
          /\ Tail(buf[hq]) \in Seq(Client \union PrintMsg)
      BY <1>0, <2>3, <3>2 DEF FinalCheckPrint, TypeOK
    <3>4. /\ buf' \in [Queue -> Seq(Client \union PrintMsg)]
          /\ \A r \in Queue : buf'[r] \in Seq(Carried(r))
      BY <1>0, <2>3, <3>2, <3>3 DEF FinalCheckPrint, TypeOK
    <3>5. paper' \in Seq(Message)
          /\ status' \in {"running", "crashed", "exit0", "exit1", "exit69"}
      BY <1>0, <2>3, <3>3, EndSpoolType DEF FinalCheckPrint
    <3>6. spool' \in [PrintID -> Text \union {Nil, Damaged}]
      BY <1>0, <2>3 DEF FinalCheckPrint, TypeOK
    <3>7. UNCHANGED <<sem, item, got, batch, hq, net, PRINTER_TERMINATE, again,
                      torn>>
      BY <2>3 DEF FinalCheckPrint
    <3> QED BY <1>0, <3>1, <3>4, <3>5, <3>6, <3>7 DEF TypeOK, PCType, batch, net
  <2>4. CASE FinalCheckNext
    <3>1. PCType'
      <4>1. {"final_check", "destroy"} \subseteq PC(Manager)
        BY <2>0 DEF HandlerPC
      <4> QED BY <1>0, <2>4, <4>1, Threads
              DEF FinalCheckNext, Step, TypeOK, PCType
    <3>2. hq' \in 1 .. NC + 1
      BY <2>4, CapacityAssumption
         DEF FinalCheckNext, Step, IInv, BusyInv, Comm
    <3>3. UNCHANGED <<buf, sem, item, got, batch, net, files,
                      PRINTER_TERMINATE, again, torn, status>>
      BY <2>4 DEF FinalCheckNext
    <3> QED BY <1>0, <3>1, <3>2, <3>3 DEF TypeOK, PCType, batch, net, files
  <2>5. CASE HandlerDestroy
    <3>1. PCType'
      <4>1. "rmdir" \in PC(Manager) BY <2>0 DEF HandlerPC
      <4> QED BY <1>0, <2>5, <4>1, Threads DEF HandlerDestroy, Step, TypeOK, PCType
    <3>2. \A S : <<>> \in Seq(S) OBVIOUS
    <3>3. /\ buf' \in [Queue -> Seq(Client \union PrintMsg)]
          /\ \A r \in Queue : buf'[r] \in Seq(Carried(r))
      BY <2>5, <3>2 DEF HandlerDestroy
    <3>4. UNCHANGED <<sem, data>> BY <2>5 DEF HandlerDestroy
    <3> QED BY <1>0, <3>1, <3>3, <3>4 DEF TypeOK, PCType, data, batch, net, files
  <2>6. CASE HandlerExit
    <3>1. PCType' BY <1>0, <2>6, Threads DEF HandlerExit, Step, TypeOK, PCType
    <3> QED BY <1>0, <2>6, <3>1 DEF HandlerExit, RmdirExit, TypeOK, PCType, batch, net, files
  <2> QED BY <1>25, <2>1, <2>2, <2>3, <2>4, <2>5, <2>6 DEF HandlerNext
<1>26. CASE ClientNext
  <2>1. PICK c \in Client : ClientSend(c) \/ ClientClose(c) \/ ClientReset(c)
    BY <1>26 DEF ClientNext
  <2>2. CASE ClientSend(c)
    <3>1. /\ Append(sock[c], Head(toSend[c])) \in Seq(PrintMsg)
          /\ Tail(toSend[c]) \in Seq(PrintMsg)
      BY <1>0, <2>2 DEF ClientSend, TypeOK
    <3> QED BY <1>0, <2>2, <3>1 DEF ClientSend, TypeOK, batch, files
  <2>3. CASE ClientClose(c)
    BY <1>0, <2>3 DEF ClientClose, TypeOK, batch, files
  <2>4. CASE ClientReset(c)
    BY <1>0, <2>4 DEF ClientReset, TypeOK, batch, files
  <2> QED BY <2>1, <2>2, <2>3, <2>4
<1>27. CASE UNCHANGED vars
  BY <1>0, <1>27 DEF TypeOK, vars, data, batch, net, files
<1>28. CASE AgainNext
  <2>1. PICK t \in Thread : SigintAgain(t) \/ AgainWaitBusy(t) \/ AgainExit(t)
    BY <1>28 DEF AgainNext
  <2>2. CASE SigintAgain(t)
    <3>1. /\ again' \in [Thread -> {"no", "wait_busy", "final_check"}]
          /\ spool' \in [PrintID -> Text \union {Nil, Damaged}]
      BY <1>0, <2>2 DEF SigintAgain, StopsWriting, TypeOK
    <3>2. UNCHANGED <<buf, sem, pc, item, got, batch, hq, net, paper,
                      PRINTER_TERMINATE, torn, status>>
      BY <2>2 DEF SigintAgain
    <3> QED BY <1>0, <3>1, <3>2 DEF TypeOK, batch, net
  <2>3. CASE AgainWaitBusy(t)
    <3>1. again' \in [Thread -> {"no", "wait_busy", "final_check"}]
      BY <1>0, <2>3 DEF AgainWaitBusy, TypeOK
    <3>2. SemsOK'
      BY <1>0, <2>3, Keys DEF AgainWaitBusy, TypeOK, SemsOK
    <3>3. UNCHANGED <<buf, pc, item, got, batch, hq, net, files,
                      PRINTER_TERMINATE, torn, status>>
      BY <2>3 DEF AgainWaitBusy
    <3> QED BY <1>0, <3>1, <3>2, <3>3 DEF TypeOK, SemsOK, batch, net, files
  <2>4. CASE AgainExit(t)
    BY <1>0, <2>4 DEF AgainExit, RmdirExit, TypeOK, batch, net, files
  <2> QED BY <2>1, <2>2, <2>3, <2>4
<1> QED BY <1>0, <1>1, <1>2, <1>3, <1>4, <1>5, <1>6, <1>7, <1>8, <1>9, <1>10,
           <1>11, <1>12, <1>13, <1>14, <1>15, <1>16, <1>17, <1>18, <1>19, <1>20,
           <1>21, <1>22, <1>23, <1>24, <1>25, <1>26, <1>27, <1>28 DEF Flat

-----------------------------------------------------------------------------
(* mainBusy.                                                               *)
LEMMA BusyStep == IInv /\ [Next]_vars => BusyInv'
<1> SUFFICES ASSUME IInv, [Next]_vars PROVE BusyInv' OBVIOUS
<1>a. Flat /\ BusyInv BY FlatNext DEF IInv
<1>b. PICK P : /\ pc \in [Thread -> P]
               /\ sem \in [Semaphore -> Nat] /\ sem[mainBusy] <= 1
  BY DEF IInv, TypeOK
<1>0. /\ BusyInv /\ pc \in [Thread -> P]
      /\ sem \in [Semaphore -> Nat] /\ sem[mainBusy] <= 1
  BY <1>a, <1>b
<1> USE Threads, Keys
    DEF BusyInv, InBatch, HandlerPC, Step, Point, SemWait, SemPost, Move
<1>1. ASSUME NEW t \in Queue, Produce(t) PROVE BusyInv'
  BY <1>0, <1>1, ZenonT(60) DEF Produce, WaitEmpty, Lock, Enqueue, Unlock, PostFull, data
<1>2. ASSUME NEW t \in Thread, NEW q \in Queue, Takes(t, q), Consume(t, q)
      PROVE  BusyInv'
  <2>0. t # Manager BY <1>2 DEF Takes, Consumers
  <2>1. CASE WaitFull(t, q) BY <1>0, <2>0, <2>1 DEF WaitFull, data
  <2>2. CASE LockFull(t, q) BY <1>0, <2>0, <2>2 DEF LockFull, data
  <2>3. CASE Dequeue(t, q) BY <1>0, <2>0, <2>3 DEF Dequeue
  <2>4. CASE UnlockFull(t, q) BY <1>0, <2>0, <2>4 DEF UnlockFull, data
  <2>5. CASE PostEmpty(t, q)
    BY <1>0, <2>0, <2>5 DEF PostEmpty, AfterConsume, data
  <2> QED BY <1>2, <2>1, <2>2, <2>3, <2>4, <2>5 DEF Consume
<1>3. ASSUME NEW c \in Client, Accept(c) PROVE BusyInv'
  BY <1>0, <1>3 DEF Accept
<1>4. ASSUME NEW i \in Comm,
             \/ CommLoop(i) \/ CommRead(i) \/ CommDisconnect(i) \/ CommReadError(i)
             \/ WriteMsg(i) \/ CommPostSync(i) \/ CommDies(i) \/ CommCorrupts(i)
      PROVE  BusyInv'
  BY <1>0, <1>4 DEF CommLoop, CommRead, CommDisconnect, CommReadError, WriteMsg,
     CommPostSync, CommDies, CommCorrupts, data
<1>5. ASSUME NEW i \in Comm, PrinterTake(i) PROVE BusyInv'
  BY <1>0, <1>5 DEF PrinterTake
<1>6. CASE \/ PrinterMkdir \/ PrinterSemInit \/ PrinterTop \/ PrinterWaitSync
           \/ PrinterWaitBusy \/ PrinterRepost \/ PrinterScan \/ PrinterPrint
           \/ PrinterRemove \/ PrinterFinish \/ PrinterDies
  <2>1. CASE PrinterMkdir BY <1>0, <2>1 DEF PrinterMkdir, data
  <2>2. CASE PrinterSemInit BY <1>0, <2>2 DEF PrinterSemInit, data
  <2>3. CASE PrinterTop BY <1>0, <2>3 DEF PrinterTop, data
  <2>4. CASE PrinterWaitSync BY <1>0, <2>4 DEF PrinterWaitSync, data
  <2>5. CASE PrinterWaitBusy BY <1>0, <2>5 DEF PrinterWaitBusy, data
  <2>6. CASE PrinterRepost BY <1>0, <2>6 DEF PrinterRepost, data
  <2>7. CASE PrinterScan BY <1>0, <2>7 DEF PrinterScan, data
  <2>8. CASE PrinterPrint BY <1>0, <2>8 DEF PrinterPrint, data
  <2>9. CASE PrinterRemove BY <1>0, <2>9 DEF PrinterRemove, data
  <2>10. CASE PrinterFinish BY <1>0, <2>10 DEF PrinterFinish, data
  <2>11. CASE PrinterDies BY <1>0, <2>11 DEF PrinterDies, Cancelled, data
  <2> QED BY <1>6, <2>1, <2>2, <2>3, <2>4, <2>5, <2>6, <2>7, <2>8, <2>9, <2>10, <2>11
<1>7. CASE Sigint \/ ClientNext \/ UNCHANGED vars
  BY <1>0, <1>7 DEF Sigint, ClientNext, ClientSend, ClientClose, ClientReset, vars, data
<1>8. CASE HandlerNext
  <2>1. CASE HandlerWaitBusy BY <1>0, <2>1 DEF HandlerWaitBusy, data
  <2>2. CASE HandlerCancel BY <1>0, <2>2 DEF HandlerCancel, data
  <2>3. CASE FinalCheckPrint BY <1>0, <2>3 DEF FinalCheckPrint, data
  <2>4. CASE FinalCheckNext BY <1>0, <2>4 DEF FinalCheckNext, data
  <2>5. CASE HandlerDestroy BY <1>0, <2>5 DEF HandlerDestroy, data
  <2>6. CASE HandlerExit BY <1>0, <2>6 DEF HandlerExit, data
  <2> QED BY <1>8, <2>1, <2>2, <2>3, <2>4, <2>5, <2>6 DEF HandlerNext
<1>9. CASE AgainNext
  BY <1>0, <1>9 DEF AgainNext, SigintAgain, AgainWaitBusy, AgainExit
<1> QED BY <1>a, <1>1, <1>2, <1>3, <1>4, <1>5, <1>6, <1>7, <1>8, <1>9 DEF Flat

-----------------------------------------------------------------------------
(* Steps that matter to no queue: thread t, if any, goes to a place outside*)
(* every queue operation, where it may still use what it has consumed.     *)
Away == {"outer", "inner", "read", "wait_full", "done", "dead", "dead_early",
         "sem_init", "top", "wait_sync", "wait_busy", "repost", "scan", "take",
         "remove"}

(* The semaphores that guard queue q.                                      *)
QueueSems(q) == <<sem[Mutex(q)], sem[Empty(q)], sem[Full(q)]>>

(* Thread t goes to a place outside the queue operations, and out of one   *)
(* only when it is cancelled.                                              *)
Operating == Filling \union Filled \union Emptying \union Emptied

Goes(t) ==
  \E b \in Away :
    /\ pc' = [pc EXCEPT ![t] = b]
    /\ pc[t] \in Operating => Cancelled
    /\ b = "read" => pc[t] = "read" \/ (pc[t] = "inner" /\ ~PRINTER_TERMINATE)
    /\ b = "inner" => pc[t] = "post_sync"
    /\ b = "remove" => pc[t] = "print"
    /\ \/ UNCHANGED got
       \/ b \in {"outer", "take"} /\ \E x : got' = [got EXCEPT ![t] = x]

(* A step that leaves the queues and their semaphores alone.               *)
Quiet ==
  /\ UNCHANGED <<buf, item, PRINTER_TERMINATE>>
  /\ \A q \in Queue : QueueSems(q)' = QueueSems(q)
  /\ \/ UNCHANGED <<pc, pq, got>>
     \/ UNCHANGED pq /\ \E t \in Comm : Goes(t)
     \/ pc[Printer] \notin {"dequeue", "unlock_full"} /\ Goes(Printer)

(* All the steps but the queue operations, write_msg, accept, read, the    *)
(* interrupt and the handler are quiet.                                    *)
LEMMA QuietSteps ==
  ASSUME TypeOK,
         \/ \E i \in Comm :
              \/ CommLoop(i) \/ CommDisconnect(i) \/ CommReadError(i)
              \/ CommPostSync(i) \/ CommDies(i) \/ CommCorrupts(i)
              \/ PrinterTake(i)
         \/ PrinterMkdir \/ PrinterSemInit \/ PrinterTop \/ PrinterWaitSync
         \/ PrinterWaitBusy \/ PrinterRepost \/ PrinterScan \/ PrinterPrint
         \/ PrinterRemove \/ PrinterFinish \/ PrinterDies
         \/ AgainNext \/ ClientNext \/ UNCHANGED vars
  PROVE  Quiet
<1>0. sem \in [Semaphore -> Nat] BY DEF TypeOK
<1>1. ASSUME NEW s \in {sync_pc, mainBusy},
             sem' = [sem EXCEPT ![s] = @ - 1] \/ sem' = [sem EXCEPT ![s] = @ + 1]
               \/ sem' = [sem EXCEPT ![s] = 0]
      PROVE  \A q \in Queue : QueueSems(q)' = QueueSems(q)
  <2>1. \A k \in Semaphore \ {s} : sem'[k] = sem[k] BY <1>0, <1>1
  <2>2. \A q \in Queue : {Mutex(q), Empty(q), Full(q)} \subseteq Semaphore \ {s}
    BY Keys
  <2> QED BY <2>1, <2>2 DEF QueueSems
<1>2. ASSUME UNCHANGED sem PROVE \A q \in Queue : QueueSems(q)' = QueueSems(q)
  BY <1>2 DEF QueueSems
<1> USE DEF Goes, Away, Operating, Filling, Filled, Emptying, Emptied, Move, SemWait,
            SemPost, Point, Step, data, batch
<1>3. ASSUME NEW i \in Comm,
             \/ CommLoop(i) \/ CommDisconnect(i) \/ CommReadError(i)
             \/ CommPostSync(i) \/ CommDies(i) \/ CommCorrupts(i)
             \/ PrinterTake(i)
      PROVE  Quiet
  <2>0. pc \in [Thread -> UNION {PC(t) : t \in Thread}] /\ i \in Thread
    BY Threads DEF TypeOK
  <2>1. CASE CommLoop(i) BY <1>2, <2>1 DEF CommLoop, Quiet
  <2>2. CASE CommDisconnect(i) BY <1>2, <2>2 DEF CommDisconnect, Quiet
  <2>3. CASE CommReadError(i) BY <1>2, <2>3 DEF CommReadError, Quiet
  <2>4. CASE CommPostSync(i) BY <1>1, <2>4 DEF CommPostSync, Quiet
  <2>5. CASE CommDies(i) BY <1>2, <2>5 DEF CommDies, Quiet
  <2>6. CASE CommCorrupts(i) BY <1>2, <2>6 DEF CommCorrupts, Quiet
  <2>7. CASE PrinterTake(i) BY <1>1, <2>7 DEF PrinterTake, Quiet
  <2> QED BY <1>3, <2>1, <2>2, <2>3, <2>4, <2>5, <2>6, <2>7
<1>4. CASE PrinterMkdir BY <1>2, <1>4 DEF PrinterMkdir, Quiet
<1>5. CASE PrinterSemInit BY <1>1, <1>5 DEF PrinterSemInit, Quiet
<1>6. CASE PrinterTop BY <1>2, <1>6 DEF PrinterTop, Quiet
<1>7. CASE PrinterWaitSync BY <1>1, <1>7 DEF PrinterWaitSync, Quiet
<1>8. CASE PrinterWaitBusy BY <1>1, <1>8 DEF PrinterWaitBusy, Quiet
<1>9. CASE PrinterRepost BY <1>1, <1>9 DEF PrinterRepost, Quiet
<1>10. CASE PrinterScan BY <1>2, <1>10 DEF PrinterScan, Quiet
<1>11. CASE PrinterPrint BY <1>2, <1>11 DEF PrinterPrint, Quiet
<1>12. CASE PrinterRemove BY <1>2, <1>12 DEF PrinterRemove, Quiet
<1>13. CASE PrinterFinish BY <1>1, <1>13 DEF PrinterFinish, Quiet
<1>14. CASE PrinterDies BY <1>2, <1>14 DEF PrinterDies, Quiet
<1>15. CASE ClientNext
  BY <1>2, <1>15 DEF ClientNext, ClientSend, ClientClose, ClientReset, Quiet
<1>16. CASE UNCHANGED vars BY <1>2, <1>16 DEF vars, Quiet
<1>17. CASE AgainNext
  <2>1. PICK t \in Thread : SigintAgain(t) \/ AgainWaitBusy(t) \/ AgainExit(t)
    BY <1>17 DEF AgainNext
  <2>2. CASE SigintAgain(t) BY <1>2, <2>2 DEF SigintAgain, Quiet
  <2>3. CASE AgainWaitBusy(t) BY <1>1, <2>3 DEF AgainWaitBusy, Quiet
  <2>4. CASE AgainExit(t) BY <1>2, <2>4 DEF AgainExit, Quiet
  <2> QED BY <2>1, <2>2, <2>3, <2>4
<1> QED BY <1>3, <1>4, <1>5, <1>6, <1>7, <1>8, <1>9, <1>10, <1>11, <1>12, <1>13,
           <1>14, <1>15, <1>16, <1>17

(* The steps that are left when the quiet ones are set apart.              *)
LEMMA Cases ==
  ASSUME TypeOK, [Next]_vars
  PROVE  \/ Quiet
         \/ \E t \in Queue : Produce(t)
         \/ \E t \in Thread, q \in Queue : Takes(t, q) /\ Consume(t, q)
         \/ \E c \in Client : Accept(c)
         \/ \E i \in Comm : CommRead(i) \/ WriteMsg(i)
         \/ Sigint \/ HandlerNext
BY FlatNext, QuietSteps DEF Flat

-----------------------------------------------------------------------------
(* Mutexes.                                                                *)
Inside == {"write_msg", "enqueue", "unlock"}
Working == {"dequeue", "unlock_full"}

(* A step that brings no thread into a section and posts no mutex.         *)
LEMMA LockKept ==
  ASSUME TypeOK, LockInv,
         \A q \in Queue : sem'[Mutex(q)] = sem[Mutex(q)],
         NEW t \in Thread, NEW b, pc' = [pc EXCEPT ![t] = b],
         b \in Inside => pc[t] \in Inside,
         b \in Working => pc[t] \in Working,
         UNCHANGED pq \/ (t = Printer /\ b \notin Working)
  PROVE  LockInv'
<1>0. PICK P : pc \in [Thread -> P] BY DEF TypeOK
<1>1. \A u \in Thread, q \in Queue : InSection(u, q)' => InSection(u, q)
  BY <1>0, Threads DEF InSection, Takes, Consumers, Inside, Working
<1> QED BY <1>1 DEF LockInv, QueueExclusion

(* Thread t takes the mutex of queue q.                                    *)
LEMMA LockTaken ==
  ASSUME TypeOK, LockInv, NEW t \in Thread, NEW q \in Queue,
         sem[Mutex(q)] > 0, sem' = [sem EXCEPT ![Mutex(q)] = @ - 1],
         NEW b, pc' = [pc EXCEPT ![t] = b], UNCHANGED pq,
         \/ t = q /\ b \in Inside
         \/ Takes(t, q) /\ b \in Working
  PROVE  LockInv'
<1>1. pc \in [Thread -> UNION {PC(u) : u \in Thread}] BY DEF TypeOK
<1>2. /\ sem'[Mutex(q)] = 0
      /\ \A r \in Queue \ {q} : sem'[Mutex(r)] = sem[Mutex(r)]
  <2>1. sem \in [Semaphore -> Nat] /\ sem[Mutex(q)] <= 1 BY DEF TypeOK
  <2>2. Mutex(q) \in Semaphore /\ sem[Mutex(q)] \in Nat BY <2>1, Keys
  <2>3. \A r \in Queue \ {q} : Mutex(r) \in Semaphore /\ Mutex(r) # Mutex(q)
    BY Keys
  <2> QED BY <2>1, <2>2, <2>3
<1>3. \A u \in Thread \ {t}, r \in Queue : InSection(u, r)' => InSection(u, r)
  BY <1>1, Threads DEF InSection, Takes, Consumers
<1>4. \A r \in Queue \ {q} : ~InSection(t, r)'
  BY <1>1, Threads DEF InSection, Takes, Consumers, Inside, Working
<1>5. \A u \in Thread : ~InSection(u, q)
  BY DEF LockInv
<1>6. \A u \in Thread \ {t} : ~InSection(u, q)'
  BY <1>3, <1>5
<1>7. \A r \in Queue : \A u \in Thread : InSection(u, r)' => sem'[Mutex(r)] = 0
  <2> SUFFICES ASSUME NEW r \in Queue, NEW u \in Thread, InSection(u, r)'
               PROVE  sem'[Mutex(r)] = 0
    OBVIOUS
  <2>1. CASE r = q BY <2>1, <1>2
  <2>2. CASE r # q
    <3>1. InSection(u, r) BY <1>3, <1>4, <2>2
    <3> QED BY <3>1, <2>2, <1>2 DEF LockInv
  <2> QED BY <2>1, <2>2
<1>8. QueueExclusion'
  <2> SUFFICES ASSUME NEW r \in Queue, NEW u \in Thread, NEW w \in Thread,
                      InSection(u, r)', InSection(w, r)'
               PROVE  u = w
    BY DEF QueueExclusion
  <2>1. CASE r = q BY <2>1, <1>6
  <2>2. CASE r # q
    <3>1. InSection(u, r) /\ InSection(w, r) BY <1>3, <1>4, <2>2
    <3> QED BY <3>1 DEF LockInv, QueueExclusion
  <2> QED BY <2>1, <2>2
<1> QED BY <1>7, <1>8 DEF LockInv

(* Thread t, in its section of queue q, gives the mutex back and leaves.   *)
LEMMA LockGiven ==
  ASSUME TypeOK, LockInv, NEW t \in Thread, NEW q \in Queue, InSection(t, q),
         sem' = [sem EXCEPT ![Mutex(q)] = @ + 1],
         NEW b, pc' = [pc EXCEPT ![t] = b], UNCHANGED pq,
         b \notin Inside \union Working
  PROVE  LockInv'
<1>1. pc \in [Thread -> UNION {PC(u) : u \in Thread}] BY DEF TypeOK
<1>2. \A r \in Queue \ {q} : sem'[Mutex(r)] = sem[Mutex(r)]
  <2>1. sem \in [Semaphore -> Nat] BY DEF TypeOK
  <2> QED BY <2>1, Keys
<1>3. /\ \A u \in Thread, r \in Queue : InSection(u, r)' => InSection(u, r)
      /\ \A r \in Queue : ~InSection(t, r)'
  BY <1>1, Threads DEF InSection, Takes, Consumers, Inside, Working
<1>4. \A u \in Thread : ~InSection(u, q)'
  BY <1>3 DEF LockInv, QueueExclusion
<1> QED BY <1>2, <1>3, <1>4 DEF LockInv, QueueExclusion

(* Every step keeps the mutual exclusion of the queue operations: a lock   *)
(* is taken only when the mutex is free, and given back by its holder.     *)
LEMMA LockStep == IInv /\ [Next]_vars => LockInv'
<1> SUFFICES ASSUME IInv, [Next]_vars PROVE LockInv' OBVIOUS
<1>a. TypeOK /\ LockInv BY DEF IInv
<1>b. PICK P : pc \in [Thread -> P] /\ sem \in [Semaphore -> Nat]
  BY <1>a DEF TypeOK
<1>c. ASSUME NEW s \in Semaphore, \A q \in Queue : s # Mutex(q),
             \/ sem' = [sem EXCEPT ![s] = @ - 1]
             \/ sem' = [sem EXCEPT ![s] = @ + 1]
      PROVE  \A q \in Queue : sem'[Mutex(q)] = sem[Mutex(q)]
  BY <1>b, <1>c, Keys
<1>d. Queue \subseteq Thread /\ Comm \subseteq Thread /\ Manager \in Thread
      /\ Printer \in Thread
  BY Threads
<1> USE DEF Step, Point, SemWait, SemPost, Move, Inside, Working, batch, data
<1>1. CASE Quiet
  <2>1. \A q \in Queue : sem'[Mutex(q)] = sem[Mutex(q)]
    BY <1>1 DEF Quiet, QueueSems
  <2>2. CASE UNCHANGED <<pc, pq, got>>
    BY <1>a, <2>1, <2>2 DEF LockInv, QueueExclusion, InSection, Takes, Consumers
  <2>3. ASSUME NEW t \in Comm \union {Printer}, NEW b \in Away,
               pc' = [pc EXCEPT ![t] = b], UNCHANGED pq \/ t = Printer
        PROVE  LockInv'
    <3>1. b \notin Inside /\ b \notin Working BY DEF Away
    <3> HIDE DEF Inside, Working
    <3> QED BY <1>a, <1>d, <2>1, <2>3, <3>1, LockKept
  <2> QED BY <1>1, <2>2, <2>3 DEF Quiet, Goes
<1>2. ASSUME NEW t \in Queue, Produce(t) PROVE LockInv'
  <2>0. t \in Thread BY Threads
  <2>1. CASE WaitEmpty(t)
    <3>1. \A q \in Queue : sem'[Mutex(q)] = sem[Mutex(q)]
      BY <1>c, <2>1, Keys DEF WaitEmpty
    <3>2. pc' = [pc EXCEPT ![t] = "lock"] /\ UNCHANGED pq BY <2>1 DEF WaitEmpty
    <3> QED BY <1>a, <2>0, <3>1, <3>2, LockKept
  <2>2. CASE Lock(t)
    <3>1. PICK b \in Inside : pc' = [pc EXCEPT ![t] = b] BY <2>2 DEF Lock
    <3>2. sem[Mutex(t)] > 0 /\ sem' = [sem EXCEPT ![Mutex(t)] = @ - 1]
          /\ UNCHANGED pq
      BY <2>2 DEF Lock
    <3> QED BY <1>a, <2>0, <3>1, <3>2, LockTaken
  <2>3. CASE Enqueue(t)
    <3>1. /\ pc[t] = "enqueue" /\ pc' = [pc EXCEPT ![t] = "unlock"]
          /\ UNCHANGED <<sem, pq>>
      BY <2>3 DEF Enqueue
    <3> QED BY <1>a, <2>0, <3>1, LockKept
  <2>4. CASE Unlock(t)
    <3>1. /\ InSection(t, t) /\ sem' = [sem EXCEPT ![Mutex(t)] = @ + 1]
          /\ pc' = [pc EXCEPT ![t] = "post_full"] /\ UNCHANGED pq
      BY <2>4 DEF Unlock, InSection
    <3> QED BY <1>a, <2>0, <3>1, LockGiven
  <2>5. CASE PostFull(t)
    <3>1. \A q \in Queue : sem'[Mutex(q)] = sem[Mutex(q)]
      BY <1>c, <2>5, Keys DEF PostFull
    <3>2. PICK b \in {"accept", "post_sync"} : pc' = [pc EXCEPT ![t] = b]
      BY <2>5 DEF PostFull
    <3>3. UNCHANGED pq BY <2>5 DEF PostFull
    <3> QED BY <1>a, <2>0, <3>1, <3>2, <3>3, LockKept
  <2> QED BY <1>2, <2>1, <2>2, <2>3, <2>4, <2>5 DEF Produce
<1>3. ASSUME NEW t \in Thread, NEW q \in Queue, Takes(t, q), Consume(t, q)
      PROVE  LockInv'
  <2>1. CASE WaitFull(t, q)
    <3>1. \A r \in Queue : sem'[Mutex(r)] = sem[Mutex(r)]
      BY <1>c, <2>1, Keys DEF WaitFull
    <3>2. pc' = [pc EXCEPT ![t] = "lock_full"] /\ UNCHANGED pq
      BY <2>1 DEF WaitFull
    <3> QED BY <1>a, <3>1, <3>2, LockKept
  <2>2. CASE LockFull(t, q)
    <3>1. /\ sem[Mutex(q)] > 0 /\ sem' = [sem EXCEPT ![Mutex(q)] = @ - 1]
          /\ pc' = [pc EXCEPT ![t] = "dequeue"] /\ UNCHANGED pq
      BY <2>2 DEF LockFull
    <3> QED BY <1>a, <1>3, <3>1, LockTaken
  <2>3. CASE Dequeue(t, q)
    <3>1. /\ pc[t] = "dequeue" /\ pc' = [pc EXCEPT ![t] = "unlock_full"]
          /\ UNCHANGED <<sem, pq>>
      BY <2>3 DEF Dequeue
    <3> QED BY <1>a, <3>1, LockKept
  <2>4. CASE UnlockFull(t, q)
    <3>1. /\ InSection(t, q) /\ sem' = [sem EXCEPT ![Mutex(q)] = @ + 1]
          /\ pc' = [pc EXCEPT ![t] = "post_empty"] /\ UNCHANGED pq
      BY <1>3, <2>4 DEF UnlockFull, InSection
    <3> QED BY <1>a, <3>1, LockGiven
  <2>5. CASE PostEmpty(t, q)
    <3>1. \A r \in Queue : sem'[Mutex(r)] = sem[Mutex(r)]
      BY <1>c, <2>5, Keys DEF PostEmpty
    <3>2. PICK b \in {"print", "inner"} : pc' = [pc EXCEPT ![t] = b]
      BY <2>5 DEF PostEmpty, AfterConsume
    <3>3. UNCHANGED pq BY <2>5 DEF PostEmpty
    <3> QED BY <1>a, <3>1, <3>2, <3>3, LockKept
  <2> QED BY <1>3, <2>1, <2>2, <2>3, <2>4, <2>5 DEF Consume
<1>4. ASSUME NEW c \in Client, Accept(c) PROVE LockInv'
  <2>1. pc' = [pc EXCEPT ![Manager] = "wait_empty"] /\ UNCHANGED <<sem, pq>>
    BY <1>4 DEF Accept
  <2> QED BY <1>a, <1>d, <2>1, LockKept
<1>5. ASSUME NEW i \in Comm, CommRead(i) \/ WriteMsg(i) PROVE LockInv'
  <2>0. UNCHANGED <<sem, pq>> BY <1>5 DEF CommRead, WriteMsg
  <2>1. CASE CommRead(i)
    <3>1. pc' = [pc EXCEPT ![i] = "wait_empty"] BY <2>1 DEF CommRead
    <3> QED BY <1>a, <1>d, <2>0, <3>1, LockKept
  <2>2. CASE WriteMsg(i)
    <3>1. pc[i] = "write_msg" /\ pc' = [pc EXCEPT ![i] = "enqueue"]
      BY <2>2 DEF WriteMsg
    <3> QED BY <1>a, <1>d, <2>0, <3>1, LockKept
  <2> QED BY <1>5, <2>1, <2>2
<1>6. CASE Sigint \/ HandlerNext
  <2>1. PICK b \in HandlerPC : pc' = [pc EXCEPT ![Manager] = b]
    BY <1>6 DEF Sigint, HandlerNext, HandlerWaitBusy, HandlerCancel, FinalCheckPrint,
       FinalCheckNext, HandlerDestroy, HandlerExit, HandlerPC
  <2>2. UNCHANGED pq
    BY <1>6 DEF Sigint, HandlerNext, HandlerWaitBusy, HandlerCancel, FinalCheckPrint,
       FinalCheckNext, HandlerDestroy, HandlerExit
  <2>3. \A q \in Queue : sem'[Mutex(q)] = sem[Mutex(q)]
    <3>1. CASE HandlerWaitBusy
      BY <1>c, <3>1, Keys DEF HandlerWaitBusy
    <3>2. CASE ~HandlerWaitBusy
      BY <1>6, <3>2 DEF Sigint, HandlerNext, HandlerCancel, FinalCheckPrint,
         FinalCheckNext, HandlerDestroy, HandlerExit
    <3> QED BY <3>1, <3>2
  <2>4. b \notin Inside \union Working BY DEF HandlerPC
  <2> HIDE DEF Inside, Working
  <2> QED BY <1>a, <1>d, <2>1, <2>2, <2>3, <2>4, LockKept
<1> QED BY <1>a, <1>1, <1>2, <1>3, <1>4, <1>5, <1>6, Cases

-----------------------------------------------------------------------------
(* What threads are about to produce.                                      *)
LEMMA HeldKept ==
  ASSUME TypeOK, HeldInv, UNCHANGED item,
         NEW t \in Thread, NEW b, pc' = [pc EXCEPT ![t] = b],
         b \in Holding => pc[t] \in Holding
  PROVE  HeldInv'
<1>1. PICK P : pc \in [Thread -> P] BY DEF TypeOK
<1>2. \A u \in Thread : pc'[u] \in Holding => pc[u] \in Holding BY <1>1
<1> QED BY <1>2, Threads DEF HeldInv, Carried

(* Thread t, back to holding nothing or about to produce x.                *)
LEMMA HeldSet ==
  ASSUME TypeOK, HeldInv, NEW t \in Thread, NEW x, item' = [item EXCEPT ![t] = x],
         NEW b, pc' = [pc EXCEPT ![t] = b],
         b \in Holding => x \in Carried(t)
  PROVE  HeldInv'
<1>1. PICK P, I : pc \in [Thread -> P] /\ item \in [Thread -> I] BY DEF TypeOK
<1>2. \A u \in Thread \ {t} : pc'[u] = pc[u] /\ item'[u] = item[u] BY <1>1
<1>3. pc'[t] = b /\ item'[t] = x BY <1>1
<1> QED BY <1>2, <1>3, Threads DEF HeldInv, Carried

(* Every step keeps what a producer holds of the kind its queue carries.   *)
LEMMA HeldStep == IInv /\ [Next]_vars => HeldInv'
<1> SUFFICES ASSUME IInv, [Next]_vars PROVE HeldInv' OBVIOUS
<1>a. TypeOK /\ HeldInv BY DEF IInv
<1>d. Queue \subseteq Thread /\ Comm \subseteq Thread /\ Manager \in Thread
      /\ Printer \in Thread
  BY Threads
<1> USE DEF Step, Point, SemWait, SemPost, Move, batch, data
<1>1. CASE Quiet
  <2>1. CASE UNCHANGED <<pc, pq, got>>
    BY <1>a, <1>1, <2>1 DEF Quiet, HeldInv, Carried
  <2>2. ASSUME NEW t \in Thread, NEW b \in Away, pc' = [pc EXCEPT ![t] = b]
        PROVE  HeldInv'
    <3>1. b \notin Holding BY DEF Away, Holding
    <3>2. UNCHANGED item BY <1>1 DEF Quiet
    <3> QED BY <1>a, <2>2, <3>1, <3>2, HeldKept
  <2> QED BY <1>1, <1>d, <2>1, <2>2 DEF Quiet, Goes
<1>2. ASSUME NEW t \in Queue, Produce(t) PROVE HeldInv'
  <2>1. CASE Enqueue(t)
    <3>1. /\ item' = [item EXCEPT ![t] = Nil]
          /\ pc' = [pc EXCEPT ![t] = "unlock"]
      BY <2>1 DEF Enqueue
    <3>2. "unlock" \notin Holding BY DEF Holding
    <3> QED BY <1>a, <1>d, <3>1, <3>2, HeldSet
  <2>2. CASE ~Enqueue(t)
    <3>1. UNCHANGED item
      BY <1>2, <2>2 DEF Produce, WaitEmpty, Lock, Unlock, PostFull
    <3>2. PICK b : pc' = [pc EXCEPT ![t] = b] /\ (b \in Holding => pc[t] \in Holding)
      BY <1>2, <2>2 DEF Produce, WaitEmpty, Lock, Unlock, PostFull, Holding
    <3> QED BY <1>a, <1>d, <3>1, <3>2, HeldKept
  <2> QED BY <2>1, <2>2
<1>3. ASSUME NEW t \in Thread, NEW q \in Queue, Takes(t, q), Consume(t, q)
      PROVE  HeldInv'
  <2>1. UNCHANGED item
    BY <1>3 DEF Consume, WaitFull, LockFull, Dequeue, UnlockFull, PostEmpty
  <2>2. PICK b \in {"lock_full", "dequeue", "unlock_full", "post_empty", "print",
                    "inner"} : pc' = [pc EXCEPT ![t] = b]
    <3>1. CASE Dequeue(t, q) BY <3>1 DEF Dequeue
    <3>2. CASE ~Dequeue(t, q)
      BY <1>3, <3>2 DEF Consume, WaitFull, LockFull, UnlockFull, PostEmpty,
         AfterConsume
    <3> QED BY <3>1, <3>2
  <2>3. b \notin Holding BY DEF Holding
  <2> QED BY <1>a, <2>1, <2>2, <2>3, HeldKept
<1>4. ASSUME NEW c \in Client, Accept(c) PROVE HeldInv'
  <2>1. /\ item' = [item EXCEPT ![Manager] = c]
        /\ pc' = [pc EXCEPT ![Manager] = "wait_empty"]
    BY <1>4 DEF Accept
  <2>2. c \in Carried(Manager) BY DEF Carried, ConnQ, Manager
  <2> QED BY <1>a, <1>d, <2>1, <2>2, HeldSet
<1>5. ASSUME NEW i \in Comm, CommRead(i) PROVE HeldInv'
  <2>1. /\ item' = [item EXCEPT ![i] = Head(sock[got[i]])]
        /\ pc' = [pc EXCEPT ![i] = "wait_empty"]
        /\ sock[got[i]] # <<>>
    BY <1>5 DEF CommRead
  <2>2. sock[got[i]] \in Seq(PrintMsg)
    <3>1. got[i] \in Client BY <1>5 DEF CommRead, IInv, GotInv
    <3> QED BY <1>a, <3>1 DEF TypeOK
  <2>3. Head(sock[got[i]]) \in PrintMsg BY <2>1, <2>2
  <2>4. Carried(i) = PrintMsg BY Threads DEF Carried
  <2> QED BY <1>a, <1>d, <2>1, <2>3, <2>4, HeldSet
<1>6. ASSUME NEW i \in Comm, WriteMsg(i) PROVE HeldInv'
  <2>1. /\ pc[i] = "write_msg" /\ pc' = [pc EXCEPT ![i] = "enqueue"]
        /\ UNCHANGED item
    BY <1>6 DEF WriteMsg
  <2>2. "write_msg" \in Holding BY DEF Holding
  <2> QED BY <1>a, <1>d, <2>1, <2>2, HeldKept
<1>7. CASE Sigint \/ HandlerNext
  <2>1. PICK b \in HandlerPC : pc' = [pc EXCEPT ![Manager] = b]
    BY <1>7 DEF Sigint, HandlerNext, HandlerWaitBusy, HandlerCancel, FinalCheckPrint,
       FinalCheckNext, HandlerDestroy, HandlerExit, HandlerPC
  <2>2. UNCHANGED item
    BY <1>7 DEF Sigint, HandlerNext, HandlerWaitBusy, HandlerCancel, FinalCheckPrint,
       FinalCheckNext, HandlerDestroy, HandlerExit
  <2>3. b \notin Holding BY DEF HandlerPC, Holding
  <2> QED BY <1>a, <1>d, <2>1, <2>2, <2>3, HeldKept
<1> QED BY <1>a, <1>1, <1>2, <1>3, <1>4, <1>5, <1>6, <1>7, Cases

-----------------------------------------------------------------------------
(* Only the steps of AgainNext have to do with a further SIGINT.           *)
LEMMA AgainKept ==
  ASSUME TypeOK, [Next]_vars
  PROVE  UNCHANGED again \/ AgainNext
<1>1. Flat BY FlatNext
<1> USE DEF Step, Point, SemWait, SemPost, Move, data
<1>2. ASSUME NEW t \in Queue, Produce(t) PROVE UNCHANGED again
  BY <1>2 DEF Produce, WaitEmpty, Lock, Enqueue, Unlock, PostFull
<1>3. ASSUME NEW t \in Thread, NEW q \in Queue, Consume(t, q) PROVE UNCHANGED again
  BY <1>3 DEF Consume, WaitFull, LockFull, Dequeue, UnlockFull, PostEmpty
<1>4. ASSUME NEW i \in Comm,
             \/ CommLoop(i) \/ CommRead(i) \/ CommDisconnect(i) \/ CommReadError(i)
             \/ WriteMsg(i) \/ CommPostSync(i) \/ CommDies(i) \/ CommCorrupts(i)
             \/ PrinterTake(i)
      PROVE  UNCHANGED again
  BY <1>4 DEF CommLoop, CommRead, CommDisconnect, CommReadError, WriteMsg,
     CommPostSync, CommDies, CommCorrupts, PrinterTake
<1>5. CASE \/ PrinterMkdir \/ PrinterSemInit \/ PrinterTop \/ PrinterWaitSync
           \/ PrinterWaitBusy \/ PrinterRepost \/ PrinterScan \/ PrinterPrint
           \/ PrinterRemove \/ PrinterFinish \/ PrinterDies
  BY <1>5 DEF PrinterMkdir, PrinterSemInit, PrinterTop, PrinterWaitSync,
     PrinterWaitBusy, PrinterRepost, PrinterScan, PrinterPrint, PrinterRemove,
     PrinterFinish, PrinterDies
<1>6. CASE Sigint \/ HandlerNext \/ ClientNext \/ UNCHANGED vars
           \/ \E c \in Client : Accept(c)
  BY <1>6 DEF Sigint, HandlerNext, HandlerWaitBusy, HandlerCancel, FinalCheckPrint,
     FinalCheckNext, HandlerDestroy, HandlerExit, ClientNext, ClientSend, ClientClose,
     ClientReset, Accept, vars
<1> QED BY <1>1, <1>2, <1>3, <1>4, <1>5, <1>6 DEF Flat

(* What cancels the threads never stops doing so.                          *)
LEMMA SelfCancelledStays ==
  ASSUME TypeOK, [Next]_vars, SelfCancelled
  PROVE  SelfCancelled'
<1>1. again \in [Thread -> {"no", "wait_busy", "final_check"}] BY DEF TypeOK
<1>2. CASE UNCHANGED again BY <1>2 DEF SelfCancelled
<1>3. ASSUME NEW t \in Thread, SigintAgain(t) \/ AgainWaitBusy(t) \/ AgainExit(t)
      PROVE  SelfCancelled'
  BY <1>1, <1>3 DEF SelfCancelled, SigintAgain, AgainWaitBusy, AgainExit
<1> QED BY <1>2, <1>3, AgainKept DEF AgainNext

(* The handler never goes back.                                            *)
LEMMA Phases ==
  ASSUME TypeOK, [Next]_vars
  PROVE  /\ Cancelled => Cancelled'
         /\ pc[Manager] \in HandlerPC => pc'[Manager] \in HandlerPC
         /\ pc[Manager] = "rmdir" => pc'[Manager] = "rmdir"
         /\ PRINTER_TERMINATE => PRINTER_TERMINATE'
<1>0. PICK P : pc \in [Thread -> P] BY DEF TypeOK
<1> DEFINE Calls(m) == m \in {"final_check", "destroy", "rmdir"}
           Goal == /\ Calls(pc[Manager]) => Calls(pc'[Manager])
                   /\ pc[Manager] \in HandlerPC => pc'[Manager] \in HandlerPC
                   /\ pc[Manager] = "rmdir" => pc'[Manager] = "rmdir"
                   /\ PRINTER_TERMINATE => PRINTER_TERMINATE'
<1> SUFFICES Goal BY SelfCancelledStays DEF Cancelled
<1> USE <1>0, Threads DEF Step, Point, SemWait, SemPost, Move, data
<1>1. CASE Quiet BY <1>1 DEF Quiet, Goes
<1>2. ASSUME NEW t \in Queue, Produce(t)
      PROVE  UNCHANGED PRINTER_TERMINATE /\
             (pc[Manager] \in HandlerPC => pc'[Manager] = pc[Manager])
  BY <1>2 DEF Produce, WaitEmpty, Lock, Enqueue, Unlock, PostFull, HandlerPC
<1>3. ASSUME NEW t \in Thread, NEW q \in Queue, Takes(t, q), Consume(t, q)
      PROVE  UNCHANGED PRINTER_TERMINATE /\ pc'[Manager] = pc[Manager]
  BY <1>3 DEF Consume, WaitFull, LockFull, Dequeue, UnlockFull, PostEmpty, Takes,
     Consumers
<1>4. ASSUME NEW c \in Client, Accept(c)
      PROVE  UNCHANGED PRINTER_TERMINATE /\ pc[Manager] = "accept"
  BY <1>4 DEF Accept
<1>5. ASSUME NEW i \in Comm, CommRead(i) \/ WriteMsg(i)
      PROVE  UNCHANGED PRINTER_TERMINATE /\ pc'[Manager] = pc[Manager]
  BY <1>5 DEF CommRead, WriteMsg
<1>6. CASE Sigint BY <1>6 DEF Sigint, HandlerPC
<1>7. CASE HandlerNext
  BY <1>7 DEF HandlerNext, HandlerWaitBusy, HandlerCancel, FinalCheckPrint,
     FinalCheckNext, HandlerDestroy, HandlerExit, HandlerPC
<1> QED BY <1>1, <1>2, <1>3, <1>4, <1>5, <1>6, <1>7, Cases DEF HandlerPC

(* A thread that a further SIGINT caught passes mainBusy when neither a    *)
(* batch nor another thread has it, and nobody gives it back.              *)
LEMMA AgainStep == IInv /\ [Next]_vars => AgainInv'
<1> SUFFICES ASSUME IInv, [Next]_vars PROVE AgainInv' OBVIOUS
<1>a. Flat /\ BusyInv /\ AgainInv BY FlatNext DEF IInv
<1>b. PICK P : /\ pc \in [Thread -> P]
               /\ sem \in [Semaphore -> Nat] /\ sem[mainBusy] <= 1
               /\ again \in [Thread -> {"no", "wait_busy", "final_check"}]
  BY DEF IInv, TypeOK
<1>h. pc[Manager] \in HandlerPC => pc'[Manager] \in HandlerPC
  BY Phases DEF IInv
<1> DEFINE Past(m) == m \in HandlerPC \ {"wait_busy"}
           In(b) == b \in {"repost", "scan", "take", "wait_full", "lock_full",
                           "dequeue", "unlock_full", "post_empty", "print",
                           "remove"}
           Kept == /\ UNCHANGED again
                   /\ sem[mainBusy] = 0 => sem'[mainBusy] = 0
                   /\ In(pc'[Printer]) => In(pc[Printer])
                   /\ Past(pc'[Manager]) => Past(pc[Manager])
<1>k. ASSUME Kept PROVE AgainInv'
  <2>1. InBatch' => InBatch BY <1>k DEF InBatch
  <2> QED BY <1>a, <1>h, <1>k, <2>1 DEF AgainInv
<1>f. ASSUME UNCHANGED again, SelfCancelled => Kept PROVE AgainInv'
  <2>1. CASE SelfCancelled BY <1>f, <1>k, <2>1
  <2>2. CASE ~SelfCancelled BY <1>a, <1>f, <1>h, <2>2 DEF SelfCancelled, AgainInv
  <2> QED BY <2>1, <2>2
<1>0. /\ SelfCancelled => sem[mainBusy] = 0 /\ ~In(pc[Printer])
      /\ Printer \in Thread /\ Manager \in Thread
  BY <1>a, Threads DEF AgainInv, InBatch, SelfCancelled
<1> HIDE DEF Past
<1>p. /\ \A m : m \in {"cancel", "final_check", "destroy", "rmdir"} <=> Past(m)
  BY DEF Past, HandlerPC
<1> USE <1>0, <1>b, Threads, Keys DEF Step, Point, SemWait, SemPost, Move
<1>1. ASSUME NEW t \in Queue, Produce(t) PROVE Kept
  BY <1>1, <1>p DEF Produce, WaitEmpty, Lock, Enqueue, Unlock, PostFull, data
<1>2. ASSUME NEW t \in Thread, NEW q \in Queue, Takes(t, q), Consume(t, q)
      PROVE  Kept
  <2>0. t # Manager BY <1>2 DEF Takes, Consumers
  <2>1. CASE WaitFull(t, q) BY <2>0, <2>1 DEF WaitFull, data
  <2>2. CASE LockFull(t, q) BY <2>0, <2>2 DEF LockFull, data
  <2>3. CASE Dequeue(t, q) BY <2>0, <2>3 DEF Dequeue
  <2>4. CASE UnlockFull(t, q) BY <2>0, <2>4 DEF UnlockFull, data
  <2>5. CASE PostEmpty(t, q)
    BY <2>0, <2>5 DEF PostEmpty, AfterConsume, data
  <2> QED BY <1>2, <2>1, <2>2, <2>3, <2>4, <2>5 DEF Consume
<1>3. ASSUME NEW c \in Client, Accept(c) PROVE Kept
  BY <1>3, <1>p DEF Accept
<1>4. ASSUME NEW i \in Comm,
             \/ CommLoop(i) \/ CommRead(i) \/ CommDisconnect(i) \/ CommReadError(i)
             \/ WriteMsg(i) \/ CommPostSync(i) \/ CommDies(i) \/ CommCorrupts(i)
      PROVE  Kept
  BY <1>4 DEF CommLoop, CommRead, CommDisconnect, CommReadError, WriteMsg,
     CommPostSync, CommDies, CommCorrupts, data
<1>5. ASSUME NEW i \in Comm, PrinterTake(i) PROVE Kept
  BY <1>5 DEF PrinterTake
<1>6. CASE \/ PrinterMkdir \/ PrinterSemInit \/ PrinterTop \/ PrinterWaitSync
           \/ PrinterWaitBusy \/ PrinterRepost \/ PrinterScan \/ PrinterPrint
           \/ PrinterRemove \/ PrinterFinish \/ PrinterDies
  <2>1. CASE PrinterMkdir BY <1>k, <2>1 DEF PrinterMkdir, data
  <2>2. CASE PrinterSemInit BY <1>k, <2>2 DEF PrinterSemInit, data
  <2>3. CASE PrinterTop BY <1>k, <2>3 DEF PrinterTop, data
  <2>4. CASE PrinterWaitSync BY <1>k, <2>4 DEF PrinterWaitSync, data
  <2>5. CASE PrinterWaitBusy BY <1>f, <2>5 DEF PrinterWaitBusy, data
  <2>6. CASE PrinterRepost BY <1>k, <2>6 DEF PrinterRepost, data
  <2>7. CASE PrinterScan BY <1>k, <2>7 DEF PrinterScan, data
  <2>8. CASE PrinterPrint BY <1>k, <2>8 DEF PrinterPrint, data
  <2>9. CASE PrinterRemove BY <1>k, <2>9 DEF PrinterRemove, data
  <2>10. CASE PrinterFinish BY <1>f, <2>10 DEF PrinterFinish, data
  <2>11. CASE PrinterDies BY <1>k, <2>11 DEF PrinterDies, data
  <2> QED BY <1>6, <2>1, <2>2, <2>3, <2>4, <2>5, <2>6, <2>7, <2>8, <2>9, <2>10, <2>11
<1>7. CASE Sigint \/ ClientNext \/ UNCHANGED vars
  BY <1>7, <1>k, <1>p
     DEF Sigint, ClientNext, ClientSend, ClientClose, ClientReset, vars, data
<1>8. CASE HandlerNext
  <2>1. CASE HandlerWaitBusy BY <1>f, <2>1 DEF HandlerWaitBusy, data
  <2>2. CASE HandlerCancel BY <1>k, <1>p, <2>2 DEF HandlerCancel, data
  <2>3. CASE FinalCheckPrint BY <1>k, <1>p, <2>3 DEF FinalCheckPrint, data
  <2>4. CASE FinalCheckNext BY <1>k, <1>p, <2>4 DEF FinalCheckNext, data
  <2>5. CASE HandlerDestroy BY <1>k, <1>p, <2>5 DEF HandlerDestroy, data
  <2>6. CASE HandlerExit BY <1>k, <1>p, <2>6 DEF HandlerExit, data
  <2> QED BY <1>8, <2>1, <2>2, <2>3, <2>4, <2>5, <2>6 DEF HandlerNext
<1>9. CASE AgainNext
  <2>1. PICK t \in Thread : SigintAgain(t) \/ AgainWaitBusy(t) \/ AgainExit(t)
    BY <1>9 DEF AgainNext
  <2>2. CASE SigintAgain(t)
    BY <1>a, <1>h, <2>2 DEF SigintAgain, AgainInv, InBatch
  <2>3. CASE AgainWaitBusy(t)
    <3>1. ~SelfCancelled /\ sem[mainBusy] = 1 BY <2>3 DEF AgainWaitBusy, Cancelled
    <3>2. /\ UNCHANGED pc /\ sem'[mainBusy] = 0
          /\ again' = [again EXCEPT ![t] = "final_check"]
      BY <2>3, <3>1 DEF AgainWaitBusy
    <3>3. ~InBatch' /\ pc'[Manager] \notin HandlerPC \ {"wait_busy"}
      BY <1>a, <3>1, <3>2 DEF BusyInv, InBatch
    <3>4. \A u \in Thread : again'[u] = "final_check" => u = t
      BY <3>1, <3>2 DEF SelfCancelled
    <3>5. again[t] # "no" /\ \A u \in Thread : again'[u] # "no" => again[u] # "no"
      BY <2>3, <3>2 DEF AgainWaitBusy
    <3> QED BY <1>a, <1>h, <3>2, <3>3, <3>4, <3>5 DEF AgainInv
  <2>4. CASE AgainExit(t)
    BY <1>k, <2>4 DEF AgainExit
  <2> QED BY <2>1, <2>2, <2>3, <2>4
<1> QED
  BY <1>a, <1>k, <1>1, <1>2, <1>3, <1>4, <1>5, <1>6, <1>7, <1>8, <1>9 DEF Flat

(* Nothing is cancelled during a batch, nor before the first SIGINT.       *)
LEMMA NotYetCancelled ==
  ASSUME IInv, InBatch \/ ~PRINTER_TERMINATE PROVE ~Cancelled
BY DEF IInv, BusyInv, AgainInv, Cancelled, SelfCancelled, HandlerPC

-----------------------------------------------------------------------------
(* The semaphores and the contents of the queues.                          *)

(* A consumer of a queue between two operations is counted.                *)
LEMMA CountPositive ==
  ASSUME NEW q \in Queue, NEW t, Takes(t, q), NEW S, pc[t] \in S
  PROVE  Count(q, S) > 0
<1>1. t \in Counted(q, S) BY DEF Counted, Takes
<1>2. Cardinality(Counted(q, S)) # 0
  BY <1>1, CountedFinite, FS_EmptySet
<1> QED BY <1>2, CountedFinite DEF Count, Counted

(* A dequeue finds something.                                              *)
LEMMA SomethingToTake ==
  ASSUME IInv, NEW t \in Thread, NEW q \in Queue, Takes(t, q), pc[t] = "dequeue",
         pc[Manager] # "rmdir"
  PROVE  buf[q] # <<>> /\ Len(buf[q]) > 0
<1>1. ~(IF q = ConnQ THEN pc[Manager] = "rmdir" ELSE Cancelled)
  <2>1. CASE q = ConnQ BY <2>1
  <2>2. CASE q # ConnQ
    <3>1. t = Printer BY <2>2 DEF Takes, Consumers
    <3> QED BY <2>2, <3>1, NotYetCancelled DEF InBatch
  <2> QED BY <2>1, <2>2
<1>2. FullSum(q) <= Len(buf[q]) BY <1>1 DEF IInv, FullInv
<1>3. Count(q, Emptying) > 0 /\ Count(q, Emptying) \in Nat
  BY CountPositive, CountedFinite DEF Emptying
<1>4. sem[Full(q)] \in Nat /\ At(q, Filled) \in Nat
  BY Keys DEF IInv, TypeOK, At
<1>5. buf[q] \in Seq(Carried(q)) BY DEF IInv, TypeOK
<1>6. Len(buf[q]) > 0 BY <1>2, <1>3, <1>4, <1>5 DEF FullSum
<1> QED BY <1>5, <1>6

(* The terms of the sums are numbers.                                      *)
LEMMA SumTypes ==
  ASSUME TypeOK, NEW q \in Queue
  PROVE  /\ sem[Empty(q)] \in Nat /\ sem[Full(q)] \in Nat
         /\ Len(buf[q]) \in Nat
         /\ \A S : At(q, S) \in Nat /\ Count(q, S) \in Nat
BY Keys, CountedFinite DEF TypeOK, At

(* What one step of thread t changes in At and Count.                      *)
LEMMA Moved ==
  ASSUME TypeOK, NEW t \in Thread, NEW b, Goto(t, b),
         t = Printer \/ UNCHANGED pq, NEW q \in Queue, NEW S
  PROVE  /\ At(q, S)' = IF t # q THEN At(q, S) ELSE IF b \in S THEN 1 ELSE 0
         /\ LET new == b \in S /\ t \in Consumers(q) /\ (t = Printer => pq' = q)
                old == pc[t] \in S /\ Takes(t, q)
            IN  /\ (new <=> old) => Count(q, S)' = Count(q, S)
                /\ new /\ ~old => Count(q, S)' = Count(q, S) + 1
                /\ ~new /\ old => Count(q, S)' = Count(q, S) - 1
         /\ Count(q, S)' \in Nat
<1>1. PICK P : pc \in [Thread -> P] BY DEF TypeOK
<1>2. q \in Thread BY Threads
<1>3. At(q, S)' = IF t # q THEN At(q, S) ELSE IF b \in S THEN 1 ELSE 0
  BY <1>1, <1>2 DEF At, Goto
<1>4. LET new == b \in S /\ t \in Consumers(q) /\ (t = Printer => pq' = q)
          old == pc[t] \in S /\ Takes(t, q)
      IN  /\ (new <=> old) => Count(q, S)' = Count(q, S)
          /\ new /\ ~old => Count(q, S)' = Count(q, S) + 1
          /\ ~new /\ old => Count(q, S)' = Count(q, S) - 1
  BY CountStep
<1>5. Count(q, S)' \in Nat
  <2>1. Consumers(q)' = Consumers(q) BY DEF Consumers
  <2>2. IsFiniteSet(Consumers(q))
    <3>1. IsFiniteSet(Comm) BY CapacityAssumption, FS_Interval DEF Comm
    <3>2. IsFiniteSet({Printer}) BY FS_Singleton
    <3> QED BY <3>1, <3>2 DEF Consumers
  <2>3. IsFiniteSet({u \in Consumers(q) : Takes(u, q)' /\ pc'[u] \in S})
    BY <2>2, FS_Subset
  <2>4. Count(q, S)' = Cardinality({u \in Consumers(q) : Takes(u, q)' /\ pc'[u] \in S})
    BY <2>1 DEF Count
  <2> QED BY <2>3, <2>4, FS_CardinalityType
<1> QED BY <1>3, <1>4, <1>5

(* A step that enters no part of an operation on queue q: its sums do not  *)
(* grow.                                                                   *)
LEMMA SumsKept ==
  ASSUME TypeOK, NEW t \in Thread, NEW b, Goto(t, b),
         UNCHANGED pq \/ (t = Printer /\ b \notin Emptying \union Emptied),
         NEW q \in Queue,
         t = q => \A S \in {Filling, Filled} : b \in S => pc[t] \in S,
         Takes(t, q) => \A S \in {Emptying, Emptied} : b \in S => pc[t] \in S,
         sem'[Empty(q)] = sem[Empty(q)], sem'[Full(q)] = sem[Full(q)]
  PROVE  EmptySum(q)' <= EmptySum(q) /\ FullSum(q)' <= FullSum(q)
<1>0. t = Printer \/ UNCHANGED pq OBVIOUS
<1>1. ASSUME NEW S \in {Filling, Filled}
      PROVE  At(q, S)' <= At(q, S) /\ At(q, S)' \in Nat
  BY <1>1, Moved DEF At
<1>2. ASSUME NEW S \in {Emptying, Emptied}
      PROVE  Count(q, S)' <= Count(q, S) /\ Count(q, S)' \in Nat
  <2>1. LET new == b \in S /\ t \in Consumers(q) /\ (t = Printer => pq' = q)
            old == pc[t] \in S /\ Takes(t, q)
        IN  /\ (new <=> old) => Count(q, S)' = Count(q, S)
            /\ new /\ ~old => Count(q, S)' = Count(q, S) + 1
            /\ ~new /\ old => Count(q, S)' = Count(q, S) - 1
    <3>1. PICK P : pc \in [Thread -> P] BY DEF TypeOK
    <3> QED BY <1>0, CountStep
  <2>2. (b \in S /\ t \in Consumers(q) /\ (t = Printer => pq' = q))
          => pc[t] \in S /\ Takes(t, q)
    BY DEF Takes
  <2>3. Count(q, S)' \in Nat BY <1>0, Moved
  <2>4. Count(q, S) \in Nat BY CountedFinite
  <2> QED BY <2>1, <2>2, <2>3, <2>4
<1>3. /\ At(q, Filling)' <= At(q, Filling) /\ At(q, Filling)' \in Nat
      /\ At(q, Filled)' <= At(q, Filled) /\ At(q, Filled)' \in Nat
      /\ Count(q, Emptying)' <= Count(q, Emptying) /\ Count(q, Emptying)' \in Nat
      /\ Count(q, Emptied)' <= Count(q, Emptied) /\ Count(q, Emptied)' \in Nat
  BY <1>1, <1>2
<1>4. /\ At(q, Filling) \in Nat /\ At(q, Filled) \in Nat
      /\ Count(q, Emptying) \in Nat /\ Count(q, Emptied) \in Nat
      /\ sem[Empty(q)] \in Nat /\ sem[Full(q)] \in Nat
  BY SumTypes
<1>5. /\ EmptySum(q)' = sem[Empty(q)] + At(q, Filling)' + Count(q, Emptied)'
      /\ FullSum(q)' = sem[Full(q)] + At(q, Filled)' + Count(q, Emptying)'
  BY DEF EmptySum, FullSum, Empty, Full
<1> QED BY <1>3, <1>4, <1>5 DEF EmptySum, FullSum

(* A step between places that are not counted.                             *)
LEMMA CountSame ==
  ASSUME TypeOK, NEW t \in Thread, NEW b, Goto(t, b),
         t = Printer \/ UNCHANGED pq, NEW q \in Queue, NEW S, b \notin S,
         pc[t] \notin S
  PROVE  Count(q, S)' = Count(q, S)
<1>1. PICK P : pc \in [Thread -> P] BY DEF TypeOK
<1>2. LET new == b \in S /\ t \in Consumers(q) /\ (t = Printer => pq' = q)
          old == pc[t] \in S /\ Takes(t, q)
      IN  /\ (new <=> old) => Count(q, S)' = Count(q, S)
          /\ new /\ ~old => Count(q, S)' = Count(q, S) + 1
          /\ ~new /\ old => Count(q, S)' = Count(q, S) - 1
  BY CountStep
<1> QED BY <1>2

(* A step that neither enters nor leaves a part of an operation on queue q.*)
LEMMA SumsSame ==
  ASSUME TypeOK, NEW t \in Thread, NEW b, Goto(t, b), NEW q \in Queue,
         t = q => \A S \in {Filling, Filled} : b \in S <=> pc[t] \in S,
         \/ UNCHANGED pq /\ ~Takes(t, q)
         \/ /\ UNCHANGED pq \/ t = Printer
            /\ b \notin Emptying \union Emptied /\ pc[t] \notin Emptying \union Emptied,
         sem'[Empty(q)] = sem[Empty(q)], sem'[Full(q)] = sem[Full(q)]
  PROVE  EmptySum(q)' = EmptySum(q) /\ FullSum(q)' = FullSum(q)
<1>1. ASSUME NEW S \in {Filling, Filled} PROVE At(q, S)' = At(q, S)
  BY <1>1, Moved DEF At
<1>2. ASSUME NEW S \in {Emptying, Emptied} PROVE Count(q, S)' = Count(q, S)
  <2>1. t = Printer \/ UNCHANGED pq
    OBVIOUS
  <2>2. LET new == b \in S /\ t \in Consumers(q) /\ (t = Printer => pq' = q)
            old == pc[t] \in S /\ Takes(t, q)
        IN  /\ (new <=> old) => Count(q, S)' = Count(q, S)
            /\ new /\ ~old => Count(q, S)' = Count(q, S) + 1
            /\ ~new /\ old => Count(q, S)' = Count(q, S) - 1
    BY <2>1, CountStep
  <2> QED BY <2>2 DEF Takes
<1>3. /\ At(q, Filling)' = At(q, Filling) /\ At(q, Filled)' = At(q, Filled)
      /\ Count(q, Emptying)' = Count(q, Emptying) /\ Count(q, Emptied)' = Count(q, Emptied)
  BY <1>1, <1>2
<1>4. /\ EmptySum(q)' = sem'[Empty(q)] + At(q, Filling)' + Count(q, Emptied)'
      /\ FullSum(q)' = sem'[Full(q)] + At(q, Filled)' + Count(q, Emptying)'
  BY DEF EmptySum, FullSum, Empty, Full
<1> QED BY <1>3, <1>4 DEF EmptySum, FullSum

(* Thread t takes one step of an operation on the queue it produces, ...   *)
LEMMA Produced ==
  ASSUME TypeOK, NEW t \in Queue, NEW b, Goto(t, b), UNCHANGED pq,
         b \notin Emptying \union Emptied, pc[t] \notin Emptying \union Emptied
  PROVE  /\ \A S : At(t, S)' = (IF b \in S THEN 1 ELSE 0)
         /\ \A S : At(t, S) = (IF pc[t] \in S THEN 1 ELSE 0)
         /\ Count(t, Emptying)' = Count(t, Emptying)
         /\ Count(t, Emptied)' = Count(t, Emptied)
<1>1. PICK P : pc \in [Thread -> P] BY DEF TypeOK
<1>2. t \in Thread BY Threads
<1>3. ASSUME NEW S, b \notin S, pc[t] \notin S PROVE Count(t, S)' = Count(t, S)
  BY <1>2, <1>3, CountSame
<1> QED BY <1>1, <1>2, <1>3 DEF At, Goto

(* ... or on the queue q it consumes.                                      *)
LEMMA Consumed ==
  ASSUME TypeOK, NEW t \in Thread, NEW q \in Queue, Takes(t, q),
         NEW b, Goto(t, b), UNCHANGED pq, NEW S
  PROVE  /\ At(q, S)' = At(q, S)
         /\ b \in S /\ pc[t] \notin S => Count(q, S)' = Count(q, S) + 1
         /\ b \notin S /\ pc[t] \in S => Count(q, S)' = Count(q, S) - 1
         /\ (b \in S <=> pc[t] \in S) => Count(q, S)' = Count(q, S)
<1>1. PICK P : pc \in [Thread -> P] BY DEF TypeOK
<1>2. t # q /\ q \in Thread BY Threads DEF Takes, Consumers
<1>3. At(q, S)' = At(q, S) BY <1>1, <1>2 DEF At, Goto
<1>4. t \in Consumers(q) /\ (t = Printer => pq' = q) BY DEF Takes
<1>5. LET new == b \in S /\ t \in Consumers(q) /\ (t = Printer => pq' = q)
          old == pc[t] \in S /\ Takes(t, q)
      IN  /\ (new <=> old) => Count(q, S)' = Count(q, S)
          /\ new /\ ~old => Count(q, S)' = Count(q, S) + 1
          /\ ~new /\ old => Count(q, S)' = Count(q, S) - 1
  BY CountStep
<1> QED BY <1>3, <1>4, <1>5

(* Neither sum outgrows what it is compared with.                          *)
EmptyKept(q) == EmptySum(q)' + Len(buf[q])' <= EmptySum(q) + Len(buf[q])
FullKept(q) == FullSum(q)' + Len(buf[q]) <= FullSum(q) + Len(buf[q])'
Kept(q) == EmptyKept(q) /\ FullKept(q)

(* Both change as much as what they are compared with.                     *)
Exact(q) == /\ EmptySum(q)' + Len(buf[q])' = EmptySum(q) + Len(buf[q])
            /\ FullSum(q)' + Len(buf[q]) = FullSum(q) + Len(buf[q])'

(* The two sums of a queue are natural numbers.                            *)
LEMMA SumNumbers ==
  ASSUME TypeOK, NEW q \in Queue
  PROVE  EmptySum(q) \in Nat /\ FullSum(q) \in Nat
BY SumTypes, SMTT(30) DEF EmptySum, FullSum

(* A step on semaphore s of queue r.                                       *)
LEMMA SemAt ==
  ASSUME TypeOK, NEW r \in Queue, NEW s \in {Mutex(r), Empty(r), Full(r)},
         NEW v, sem' = [sem EXCEPT ![s] = v], NEW q \in Queue
  PROVE  /\ sem'[s] = v
         /\ \A k \in {Mutex(q), Empty(q), Full(q)} \ {s} : sem'[k] = sem[k]
         /\ q # r => s \notin {Mutex(q), Empty(q), Full(q)}
<1>1. sem \in [Semaphore -> Nat] BY DEF TypeOK
<1>2. s \in Semaphore /\ {Mutex(q), Empty(q), Full(q)} \subseteq Semaphore BY Keys
<1>3. q # r => s \notin {Mutex(q), Empty(q), Full(q)} BY Keys
<1> QED BY <1>1, <1>2, <1>3

(* The buffer and its sums, when the sums do not grow.                     *)
LEMMA KeptKept ==
  ASSUME TypeOK, NEW q \in Queue, buf'[q] = buf[q],
         EmptySum(q)' <= EmptySum(q), FullSum(q)' <= FullSum(q),
         EmptySum(q)' \in Nat, FullSum(q)' \in Nat
  PROVE  Kept(q)
BY SumTypes, SumNumbers DEF Kept, EmptyKept, FullKept

(* The same when they stay as they are.                                    *)
LEMMA SameExact ==
  ASSUME TypeOK, NEW q \in Queue, buf'[q] = buf[q],
         EmptySum(q)' = EmptySum(q), FullSum(q)' = FullSum(q)
  PROVE  Exact(q)
BY DEF Exact

(* The same for all queues at once, in the form that can be primed.        *)
LEMMA SumsNow == TypeOK => \A q \in Queue : EmptySum(q) \in Nat /\ FullSum(q) \in Nat
BY SumNumbers

(* The same in the next state.                                             *)
LEMMA SumsNext ==
  TypeOK' => (\A q \in Queue : EmptySum(q) \in Nat /\ FullSum(q) \in Nat)'
BY SumsNow, PTL

(* Exact sums do not grow either.                                          *)
LEMMA ExactKeeps ==
  ASSUME TypeOK, TypeOK', NEW q \in Queue, Exact(q)
  PROVE  Kept(q)
<1>1. /\ EmptySum(q) \in Nat /\ FullSum(q) \in Nat /\ EmptySum(q)' \in Nat
      /\ FullSum(q)' \in Nat
  BY SumsNow, SumsNext
<1>2. (\A r \in Queue : Len(buf[r]) \in Nat) /\ (\A r \in Queue : Len(buf[r]) \in Nat)'
  BY DEF TypeOK
<1> QED BY <1>1, <1>2 DEF Exact, Kept, EmptyKept, FullKept

(* A step of the producer of a queue: exact but for an element that is lost*)
(* to the handler.                                                         *)
LEMMA ProduceKeeps ==
  ASSUME IInv, TypeOK, TypeOK', NEW t \in Queue, Produce(t), NEW q \in Queue
  PROVE  \/ Exact(q)
         \/ EmptyKept(q) /\ (pc[Manager] = "rmdir" \/ (Cancelled /\ q \in Comm))
<1>0. /\ EmptySum(q)' \in Nat /\ FullSum(q)' \in Nat
      /\ EmptySum(q) \in Nat /\ FullSum(q) \in Nat
  BY SumsNext, SumsNow
<1> USE DEF Step, Point, SemWait, SemPost, Goto, data, batch
<1>1. PICK b : /\ Goto(t, b) /\ UNCHANGED pq
               /\ b \notin Emptying \union Emptied
               /\ pc[t] \notin Emptying \union Emptied
  BY DEF Produce, WaitEmpty, Lock, Enqueue, Unlock, PostFull, Emptying, Emptied
<1>2. CASE q # t
  <2>1. sem'[Empty(q)] = sem[Empty(q)] /\ sem'[Full(q)] = sem[Full(q)]
    <3>1. \/ UNCHANGED sem
          \/ \E s \in {Mutex(t), Empty(t), Full(t)} : \E v : sem' = [sem EXCEPT ![s] = v]
      BY DEF Produce, WaitEmpty, Lock, Enqueue, Unlock, PostFull
    <3> QED BY <1>2, <3>1, SemAt
  <2>2. buf'[q] = buf[q]
    BY <1>2 DEF Produce, WaitEmpty, Lock, Enqueue, Unlock, PostFull, TypeOK
  <2>3. EmptySum(q)' = EmptySum(q) /\ FullSum(q)' = FullSum(q)
    <3> HIDE DEF Goto
    <3> QED BY <1>1, <1>2, <2>1, Threads, SumsSame
  <2> QED BY <2>2, <2>3, SameExact
<1>3. CASE q = t
  <2>0. /\ EmptySum(q)' = sem'[Empty(q)] + At(q, Filling)' + Count(q, Emptied)
        /\ FullSum(q)' = sem'[Full(q)] + At(q, Filled)' + Count(q, Emptying)
        /\ EmptySum(q) = sem[Empty(q)] + At(q, Filling) + Count(q, Emptied)
        /\ FullSum(q) = sem[Full(q)] + At(q, Filled) + Count(q, Emptying)
    <3> HIDE DEF Goto
    <3>1. Count(q, Emptying)' = Count(q, Emptying) /\ Count(q, Emptied)' = Count(q, Emptied)
      BY <1>1, <1>3, Produced
    <3> QED BY <3>1 DEF EmptySum, FullSum, Empty, Full
  <2>a. ASSUME NEW a, NEW c, pc[t] = a, Goto(t, c)
        PROVE  /\ At(q, Filling) = (IF a \in Filling THEN 1 ELSE 0)
               /\ At(q, Filled) = (IF a \in Filled THEN 1 ELSE 0)
               /\ At(q, Filling)' = (IF c \in Filling THEN 1 ELSE 0)
               /\ At(q, Filled)' = (IF c \in Filled THEN 1 ELSE 0)
    BY <1>3, <2>a, Threads DEF At, TypeOK
  <2>n. /\ sem[Empty(q)] \in Nat /\ sem[Full(q)] \in Nat /\ Len(buf[q]) \in Nat
        /\ Count(q, Emptied) \in Nat /\ Count(q, Emptying) \in Nat
    BY SumTypes
  <2>k. /\ Mutex(q) # Empty(q) /\ Mutex(q) # Full(q) /\ Empty(q) # Full(q)
        /\ {Mutex(q), Empty(q), Full(q)} \subseteq Semaphore
        /\ sem \in [Semaphore -> Nat]
    BY Keys DEF TypeOK
  <2>1. CASE WaitEmpty(t)
    <3>0. sem' = [sem EXCEPT ![Empty(q)] = sem[Empty(q)] - 1] /\ UNCHANGED buf
      BY <1>3, <2>1 DEF WaitEmpty
    <3>1. /\ sem'[Empty(q)] = sem[Empty(q)] - 1 /\ sem'[Full(q)] = sem[Full(q)]
          /\ buf'[q] = buf[q]
      BY <3>0, <2>k
    <3>2. /\ At(q, Filling) = 0 /\ At(q, Filling)' = 1
          /\ At(q, Filled) = 0 /\ At(q, Filled)' = 0
      BY <2>1, <2>a DEF WaitEmpty, Filling, Filled
    <3> QED BY <2>0, <2>n, <3>1, <3>2 DEF Exact
  <2>2. CASE Lock(t)
    <3>0. sem' = [sem EXCEPT ![Mutex(q)] = sem[Mutex(q)] - 1] /\ UNCHANGED buf
      BY <1>3, <2>2 DEF Lock
    <3>1. /\ sem'[Empty(q)] = sem[Empty(q)] /\ sem'[Full(q)] = sem[Full(q)]
          /\ buf'[q] = buf[q]
      BY <3>0, <2>k
    <3>2. /\ At(q, Filling) = 1 /\ At(q, Filling)' = 1
          /\ At(q, Filled) = 0 /\ At(q, Filled)' = 0
      BY <2>2, <2>a DEF Lock, Filling, Filled
    <3> QED BY <2>0, <2>n, <3>1, <3>2 DEF Exact
  <2>3. CASE Enqueue(t)
    <3>1. UNCHANGED sem BY <2>3 DEF Enqueue
    <3>2. /\ At(q, Filling) = 1 /\ At(q, Filling)' = 0
          /\ At(q, Filled) = 0 /\ At(q, Filled)' = 1
      BY <2>3, <2>a DEF Enqueue, Filling, Filled
    <3>a. EmptySum(q)' = EmptySum(q) - 1 /\ FullSum(q)' = FullSum(q) + 1
      BY <2>0, <2>n, <3>1, <3>2
    <3>3. CASE Len(buf'[q]) = Len(buf[q]) + 1
      BY <1>0, <2>n, <3>a, <3>3, SMTT(30) DEF Exact
    <3>4. CASE ~(Len(buf'[q]) = Len(buf[q]) + 1)
      <4>1. ASSUME buf' = [buf EXCEPT ![t] = Append(@, item[t])] PROVE FALSE
        <5>1. buf[q] \in Seq(Carried(q)) BY DEF TypeOK
        <5>2. buf'[q] = Append(buf[q], item[t]) BY <1>3, <4>1 DEF TypeOK
        <5> QED BY <3>4, <5>1, <5>2
      <4>2. /\ UNCHANGED buf
            /\ \/ pc[Manager] = "rmdir" \/ SelfCancelled
               \/ pc[Manager] = "final_check" /\ hq = t
        BY <2>3, <4>1 DEF Enqueue
      <4>3. EmptyKept(q)
        BY <2>0, <2>n, <3>1, <3>2, <4>2 DEF EmptyKept
      <4>4. t # Manager
        BY <2>3, <4>2, Threads DEF Enqueue, IInv, AgainInv, SelfCancelled, HandlerPC
      <4>5. q \in Comm BY <1>3, <4>4, Threads
      <4> QED BY <4>2, <4>3, <4>5 DEF Cancelled
    <3> QED BY <3>3, <3>4
  <2>4. CASE Unlock(t)
    <3>0. sem' = [sem EXCEPT ![Mutex(q)] = sem[Mutex(q)] + 1] /\ UNCHANGED buf
      BY <1>3, <2>4 DEF Unlock
    <3>1. /\ sem'[Empty(q)] = sem[Empty(q)] /\ sem'[Full(q)] = sem[Full(q)]
          /\ buf'[q] = buf[q]
      BY <3>0, <2>k
    <3>2. /\ At(q, Filling) = 0 /\ At(q, Filling)' = 0
          /\ At(q, Filled) = 1 /\ At(q, Filled)' = 1
      BY <2>4, <2>a DEF Unlock, Filling, Filled
    <3> QED BY <2>0, <2>n, <3>1, <3>2 DEF Exact
  <2>5. CASE PostFull(t)
    <3>0. sem' = [sem EXCEPT ![Full(q)] = sem[Full(q)] + 1] /\ UNCHANGED buf
      BY <1>3, <2>5 DEF PostFull
    <3>1. /\ sem'[Empty(q)] = sem[Empty(q)] /\ sem'[Full(q)] = sem[Full(q)] + 1
          /\ buf'[q] = buf[q]
      BY <3>0, <2>k
    <3>2. /\ At(q, Filling) = 0 /\ At(q, Filling)' = 0
          /\ At(q, Filled) = 1 /\ At(q, Filled)' = 0
      <4>1. PICK c \in {"accept", "post_sync"} : Goto(t, c) BY <2>5 DEF PostFull
      <4>2. pc[t] = "post_full" BY <2>5 DEF PostFull
      <4> HIDE DEF Goto
      <4> QED BY <2>a, <4>1, <4>2 DEF Filling, Filled
    <3>3. EmptySum(q)' = EmptySum(q) /\ FullSum(q)' = FullSum(q)
      BY <2>0, <2>n, <3>1, <3>2
    <3> QED BY <1>0, <2>n, <3>1, <3>3 DEF Exact
  <2> QED BY <2>1, <2>2, <2>3, <2>4, <2>5 DEF Produce
<1> QED BY <1>2, <1>3

(* The sums of a queue, and its length, when one unit moves.               *)
LEMMA OneUnit ==
  /\ \A a, b, c \in Nat : a + b + (c + 1) = (a + b + c) + 1
  /\ \A a, b, c \in Nat : a + b + (c - 1) = (a + b + c) - 1
  /\ \A a, b, c \in Nat : (a + 1) + b + (c - 1) = a + b + c
OBVIOUS

(* One moves from one term of a sum to another.                            *)
LEMMA OneMoves ==
  \A a, b \in Nat : (a + 1) + (b - 1) = a + b /\ (a - 1) + b = a + (b - 1)
OBVIOUS

(* A step of a consumer of a queue.                                        *)
LEMMA ConsumeKeeps ==
  ASSUME IInv, TypeOK', NEW t \in Thread, NEW r \in Queue, Takes(t, r),
         Consume(t, r), NEW q \in Queue
  PROVE  Exact(q) \/ (pc[Manager] = "rmdir" /\ FullKept(q))
<1>0. /\ EmptySum(q)' \in Nat /\ FullSum(q)' \in Nat
      /\ EmptySum(q) \in Nat /\ FullSum(q) \in Nat
      /\ TypeOK
  BY SumsNext, SumsNow DEF IInv
<1> USE DEF Step, Point, SemWait, SemPost, Goto, data, batch
<1>1. PICK b : /\ Goto(t, b) /\ UNCHANGED pq
               /\ b \notin Filling \union Filled
               /\ pc[t] \notin Filling \union Filled
  <2>1. CASE Dequeue(t, r) BY <2>1 DEF Dequeue, Filling, Filled
  <2>2. CASE ~Dequeue(t, r)
    BY <2>2 DEF Consume, WaitFull, LockFull, UnlockFull, PostEmpty, AfterConsume,
       Filling, Filled
  <2> QED BY <2>1, <2>2
<1>2. CASE q # r
  <2>1. sem'[Empty(q)] = sem[Empty(q)] /\ sem'[Full(q)] = sem[Full(q)]
    <3>1. \/ UNCHANGED sem
          \/ \E s \in {Mutex(r), Empty(r), Full(r)} : \E v : sem' = [sem EXCEPT ![s] = v]
      <4>1. CASE Dequeue(t, r) BY <4>1 DEF Dequeue
      <4>2. CASE ~Dequeue(t, r)
        BY <4>2 DEF Consume, WaitFull, LockFull, UnlockFull, PostEmpty
      <4> QED BY <4>1, <4>2
    <3> QED BY <1>0, <1>2, <3>1, SemAt
  <2>2. buf'[q] = buf[q]
    <3>1. UNCHANGED buf \/ \E x : buf' = [buf EXCEPT ![r] = x]
      BY DEF Consume, WaitFull, LockFull, Dequeue, UnlockFull, PostEmpty
    <3>2. DOMAIN buf = Queue BY <1>0 DEF TypeOK
    <3> QED BY <1>2, <3>1, <3>2
  <2>3. ~Takes(t, q)
    BY <1>2, Threads DEF Takes, Consumers
  <2>4. EmptySum(q)' = EmptySum(q) /\ FullSum(q)' = FullSum(q)
    <3> HIDE DEF Goto
    <3> QED BY <1>0, <1>1, <2>1, <2>3, SumsSame
  <2> QED BY <1>0, <2>2, <2>4, SameExact
<1>3. CASE q = r
  <2>0. /\ EmptySum(q)' = sem'[Empty(q)] + At(q, Filling) + Count(q, Emptied)'
        /\ FullSum(q)' = sem'[Full(q)] + At(q, Filled) + Count(q, Emptying)'
        /\ EmptySum(q) = sem[Empty(q)] + At(q, Filling) + Count(q, Emptied)
        /\ FullSum(q) = sem[Full(q)] + At(q, Filled) + Count(q, Emptying)
    <3> HIDE DEF Goto
    <3>1. At(q, Filling)' = At(q, Filling) /\ At(q, Filled)' = At(q, Filled)
      BY <1>0, <1>1, <1>3, Consumed
    <3> QED BY <3>1 DEF EmptySum, FullSum, Empty, Full
  <2>c. ASSUME NEW c, Goto(t, c), NEW S
        PROVE  /\ c \in S /\ pc[t] \notin S => Count(q, S)' = Count(q, S) + 1
               /\ c \notin S /\ pc[t] \in S => Count(q, S)' = Count(q, S) - 1
               /\ (c \in S <=> pc[t] \in S) => Count(q, S)' = Count(q, S)
    <3> HIDE DEF Goto
    <3> QED BY <1>0, <1>1, <1>3, <2>c, Consumed
  <2>n. /\ sem[Empty(q)] \in Nat /\ sem[Full(q)] \in Nat /\ Len(buf[q]) \in Nat
        /\ Count(q, Emptied) \in Nat /\ Count(q, Emptying) \in Nat
        /\ At(q, Filling) \in Nat /\ At(q, Filled) \in Nat
    BY <1>0, SumTypes
  <2>k. /\ Mutex(q) # Empty(q) /\ Mutex(q) # Full(q) /\ Empty(q) # Full(q)
        /\ {Mutex(q), Empty(q), Full(q)} \subseteq Semaphore
        /\ sem \in [Semaphore -> Nat]
    BY <1>0, Keys DEF TypeOK
  <2>1. CASE WaitFull(t, r)
    <3>1. sem' = [sem EXCEPT ![Full(q)] = sem[Full(q)] - 1] /\ UNCHANGED buf
      BY <1>3, <2>1 DEF WaitFull
    <3>2. /\ sem'[Empty(q)] = sem[Empty(q)] /\ sem'[Full(q)] = sem[Full(q)] - 1
          /\ buf'[q] = buf[q]
      BY <3>1, <2>k
    <3>3. pc[t] = "wait_full" /\ Goto(t, "lock_full") BY <2>1 DEF WaitFull
    <3>4. /\ Count(q, Emptying)' = Count(q, Emptying) + 1
          /\ Count(q, Emptied)' = Count(q, Emptied)
      <4> HIDE DEF Goto
      <4> QED BY <2>c, <3>3 DEF Emptying, Emptied
    <3>5. EmptySum(q)' = EmptySum(q) /\ FullSum(q)' = FullSum(q)
      BY <2>0, <2>n, <3>2, <3>4
    <3> QED BY <1>0, <2>n, <3>2, <3>5 DEF Exact
  <2>2. CASE LockFull(t, r)
    <3>1. sem' = [sem EXCEPT ![Mutex(q)] = sem[Mutex(q)] - 1] /\ UNCHANGED buf
      BY <1>3, <2>2 DEF LockFull
    <3>2. /\ sem'[Empty(q)] = sem[Empty(q)] /\ sem'[Full(q)] = sem[Full(q)]
          /\ buf'[q] = buf[q]
      BY <3>1, <2>k
    <3>3. pc[t] = "lock_full" /\ Goto(t, "dequeue") BY <2>2 DEF LockFull
    <3>4. /\ Count(q, Emptying)' = Count(q, Emptying)
          /\ Count(q, Emptied)' = Count(q, Emptied)
      <4> HIDE DEF Goto
      <4> QED BY <2>c, <3>3 DEF Emptying, Emptied
    <3>5. EmptySum(q)' = EmptySum(q) /\ FullSum(q)' = FullSum(q)
      BY <2>0, <2>n, <3>2, <3>4
    <3> QED BY <1>0, <2>n, <3>2, <3>5 DEF Exact
  <2>3. CASE Dequeue(t, r)
    <3>1. UNCHANGED sem BY <2>3 DEF Dequeue
    <3>2. pc[t] = "dequeue" /\ Goto(t, "unlock_full") BY <2>3 DEF Dequeue
    <3>3. /\ Count(q, Emptying)' = Count(q, Emptying) - 1
          /\ Count(q, Emptied)' = Count(q, Emptied) + 1
      <4> HIDE DEF Goto
      <4> QED BY <2>c, <3>2 DEF Emptying, Emptied
    <3>4. sem'[Empty(q)] = sem[Empty(q)] /\ sem'[Full(q)] = sem[Full(q)] BY <3>1
    <3>5. EmptySum(q)' = EmptySum(q) + 1 /\ FullSum(q)' = FullSum(q) - 1
      <4>1. EmptySum(q)' = sem[Empty(q)] + At(q, Filling) + (Count(q, Emptied) + 1)
        BY <2>0, <3>4, <3>3
      <4>2. FullSum(q)' = sem[Full(q)] + At(q, Filled) + (Count(q, Emptying) - 1)
        BY <2>0, <3>4, <3>3
      <4>3. /\ EmptySum(q) = sem[Empty(q)] + At(q, Filling) + Count(q, Emptied)
            /\ FullSum(q) = sem[Full(q)] + At(q, Filled) + Count(q, Emptying)
        BY <2>0
      <4>4. sem[Empty(q)] + At(q, Filling) + (Count(q, Emptied) + 1)
              = (sem[Empty(q)] + At(q, Filling) + Count(q, Emptied)) + 1
        <5>1. /\ sem[Empty(q)] \in Nat
              /\ At(q, Filling) \in Nat
              /\ Count(q, Emptied) \in Nat
          BY <2>n
        <5> QED BY <5>1, OneUnit, ZenonT(60)
      <4>5. sem[Full(q)] + At(q, Filled) + (Count(q, Emptying) - 1)
              = (sem[Full(q)] + At(q, Filled) + Count(q, Emptying)) - 1
        <5>1. /\ sem[Full(q)] \in Nat
              /\ At(q, Filled) \in Nat
              /\ Count(q, Emptying) \in Nat
          BY <2>n
        <5> QED BY <5>1, OneUnit, Zenon
      <4>6. EmptySum(q)' = EmptySum(q) + 1 BY <4>1, <4>3, <4>4, Zenon
      <4>7. FullSum(q)' = FullSum(q) - 1 BY <4>2, <4>3, <4>5, Zenon
      <4> QED BY <4>6, <4>7
    <3>6. CASE buf[q] # <<>>
      <4>1. buf'[q] = Tail(buf[q])
        BY <1>0, <1>3, <2>3, <3>6 DEF Dequeue, TypeOK
      <4>2. buf[q] \in Seq(Carried(q)) BY <1>0 DEF TypeOK
      <4>3. Len(buf'[q]) = Len(buf[q]) - 1 BY <3>6, <4>1, <4>2
      <4>4. Len(buf[q])' = Len(buf[q]) - 1 BY <4>3
      <4>5. /\ (EmptySum(q) + 1) + (Len(buf[q]) - 1) = EmptySum(q) + Len(buf[q])
            /\ (FullSum(q) - 1) + Len(buf[q]) = FullSum(q) + (Len(buf[q]) - 1)
        BY <1>0, <2>n, OneMoves
      <4> QED BY <3>5, <4>4, <4>5, Zenon DEF Exact
    <3>7. CASE buf[q] = <<>>
      <4>1. UNCHANGED buf BY <1>3, <2>3, <3>7 DEF Dequeue
      <4>2. pc[Manager] = "rmdir" BY <1>3, <3>2, <3>7, SomethingToTake
      <4> QED BY <1>0, <2>n, <3>5, <4>1, <4>2 DEF FullKept
    <3> QED BY <3>6, <3>7
  <2>4. CASE UnlockFull(t, r)
    <3>1. sem' = [sem EXCEPT ![Mutex(q)] = sem[Mutex(q)] + 1] /\ UNCHANGED buf
      BY <1>3, <2>4 DEF UnlockFull
    <3>2. /\ sem'[Empty(q)] = sem[Empty(q)] /\ sem'[Full(q)] = sem[Full(q)]
          /\ buf'[q] = buf[q]
      BY <3>1, <2>k
    <3>3. pc[t] = "unlock_full" /\ Goto(t, "post_empty") BY <2>4 DEF UnlockFull
    <3>4. /\ Count(q, Emptying)' = Count(q, Emptying)
          /\ Count(q, Emptied)' = Count(q, Emptied)
      <4> HIDE DEF Goto
      <4> QED BY <2>c, <3>3 DEF Emptying, Emptied
    <3>5. EmptySum(q)' = EmptySum(q) /\ FullSum(q)' = FullSum(q)
      BY <2>0, <2>n, <3>2, <3>4
    <3> QED BY <1>0, <2>n, <3>2, <3>5 DEF Exact
  <2>5. CASE PostEmpty(t, r)
    <3>1. sem' = [sem EXCEPT ![Empty(q)] = sem[Empty(q)] + 1] /\ UNCHANGED buf
      BY <1>3, <2>5 DEF PostEmpty
    <3>2. /\ sem'[Empty(q)] = sem[Empty(q)] + 1 /\ sem'[Full(q)] = sem[Full(q)]
          /\ buf'[q] = buf[q]
      BY <3>1, <2>k
    <3>3. pc[t] = "post_empty" /\ Goto(t, AfterConsume(t)) BY <2>5 DEF PostEmpty
    <3>4. /\ Count(q, Emptying)' = Count(q, Emptying)
          /\ Count(q, Emptied)' = Count(q, Emptied) - 1
      <4>1. AfterConsume(t) \in {"print", "inner"} BY DEF AfterConsume
      <4> HIDE DEF Goto
      <4> QED BY <2>c, <3>3, <4>1 DEF Emptying, Emptied
    <3>5. EmptySum(q)' = EmptySum(q) /\ FullSum(q)' = FullSum(q)
      <4>1. EmptySum(q)' = (sem[Empty(q)] + 1) + At(q, Filling)
                             + (Count(q, Emptied) - 1)
        BY <2>0, <3>2, <3>4
      <4>2. FullSum(q)' = FullSum(q) BY <2>0, <3>2, <3>4
      <4>3. EmptySum(q) = sem[Empty(q)] + At(q, Filling) + Count(q, Emptied)
        BY <2>0
      <4>4. (sem[Empty(q)] + 1) + At(q, Filling) + (Count(q, Emptied) - 1)
              = sem[Empty(q)] + At(q, Filling) + Count(q, Emptied)
        <5>1. /\ sem[Empty(q)] \in Nat
              /\ At(q, Filling) \in Nat
              /\ Count(q, Emptied) \in Nat
          BY <2>n
        <5> QED BY <5>1, OneUnit, Zenon
      <4>5. EmptySum(q)' = EmptySum(q) BY <4>1, <4>3, <4>4, Zenon
      <4> QED BY <4>2, <4>5, Zenon
    <3> QED BY <1>0, <2>n, <3>2, <3>5 DEF Exact
  <2> QED BY <2>1, <2>2, <2>3, <2>4, <2>5 DEF Consume
<1> QED BY <1>2, <1>3


(* What a step must keep of each queue's sums.                             *)
SlotsKept(q) ==
  /\ pc'[Manager] = "rmdir" \/ EmptyKept(q)
  /\ (IF q = ConnQ THEN pc'[Manager] = "rmdir" ELSE Cancelled') \/ FullKept(q)

(* A step that keeps the sums of every queue keeps the slot invariants.    *)
LEMMA SlotsInvs ==
  ASSUME IInv, TypeOK', [Next]_vars, \A q \in Queue : SlotsKept(q)
  PROVE  EmptyInv' /\ FullInv'
<1>0. /\ Cancelled => Cancelled'
      /\ pc[Manager] = "rmdir" => pc'[Manager] = "rmdir"
  BY Phases DEF IInv
<1>1. ASSUME NEW q \in Queue, pc'[Manager] # "rmdir"
      PROVE  EmptySum(q)' + Len(buf[q])' <= Slots(q)
  <2>1. EmptySum(q) + Len(buf[q]) <= Slots(q) BY <1>0, <1>1 DEF IInv, EmptyInv
  <2>2. EmptySum(q)' + Len(buf[q])' <= EmptySum(q) + Len(buf[q])
    BY <1>1 DEF SlotsKept, EmptyKept
  <2>3. /\ EmptySum(q) \in Nat /\ EmptySum(q)' \in Nat /\ Slots(q) \in Nat
        /\ Len(buf[q]) \in Nat /\ Len(buf[q])' \in Nat
    <3>1. (\A r \in Queue : Len(buf[r]) \in Nat) /\ (\A r \in Queue : Len(buf[r]) \in Nat)'
      BY DEF IInv, TypeOK
    <3> QED BY <3>1, SumsNow, SumsNext, CapacityAssumption DEF IInv, Slots
  <2> QED BY <2>1, <2>2, <2>3
<1>2. ASSUME NEW q \in Queue,
             ~(IF q = ConnQ THEN pc'[Manager] = "rmdir" ELSE Cancelled')
      PROVE  FullSum(q)' <= Len(buf[q])'
  <2>1. FullSum(q) <= Len(buf[q]) BY <1>0, <1>2 DEF IInv, FullInv
  <2>2. FullSum(q)' + Len(buf[q]) <= FullSum(q) + Len(buf[q])'
    BY <1>2 DEF SlotsKept, FullKept
  <2>3. /\ FullSum(q) \in Nat /\ FullSum(q)' \in Nat
        /\ Len(buf[q]) \in Nat /\ Len(buf[q])' \in Nat
    <3>1. (\A r \in Queue : Len(buf[r]) \in Nat) /\ (\A r \in Queue : Len(buf[r]) \in Nat)'
      BY DEF IInv, TypeOK
    <3> QED BY <3>1, SumsNow, SumsNext DEF IInv
  <2> QED BY <2>1, <2>2, <2>3
<1>3. EmptyInv' BY <1>1 DEF EmptyInv, Slots
<1>4. FullInv' BY <1>2 DEF FullInv
<1> QED BY <1>3, <1>4

(* A step of thread t outside the operations on a queue.                   *)
LEMMA OutsideKeeps ==
  ASSUME TypeOK, TypeOK', NEW t \in Thread, NEW b, Goto(t, b),
         b \notin Filling \union Filled \union Emptying \union Emptied
           \/ (b = "enqueue" /\ pc[t] = "write_msg"),
         UNCHANGED pq \/ t = Printer, UNCHANGED buf,
         \A q \in Queue : sem'[Empty(q)] = sem[Empty(q)] /\ sem'[Full(q)] = sem[Full(q)],
         NEW q \in Queue
  PROVE  Kept(q)
<1>1. /\ UNCHANGED pq \/ (t = Printer /\ b \notin Emptying \union Emptied)
      /\ t = q => \A S \in {Filling, Filled} : b \in S => pc[t] \in S
      /\ Takes(t, q) => \A S \in {Emptying, Emptied} : b \in S => pc[t] \in S
  <2>1. PC(Printer) \intersect {"write_msg"} = {} BY Threads DEF PC
  <2>2. t = Printer => pc[t] # "write_msg" BY <2>1 DEF TypeOK
  <2>3. "enqueue" \notin Filled \union Emptying \union Emptied /\ "write_msg" \in Filling
    BY DEF Filled, Filling, Emptying, Emptied
  <2> QED BY <2>2, <2>3
<1>2. EmptySum(q)' <= EmptySum(q) /\ FullSum(q)' <= FullSum(q)
  BY <1>1, SumsKept
<1>3. buf'[q] = buf[q] OBVIOUS
<1>4. EmptySum(q)' \in Nat /\ FullSum(q)' \in Nat BY SumsNext
<1> QED BY <1>2, <1>3, <1>4, KeptKept

(* A step that leaves the queues and what the threads do with them alone.  *)
LEMMA StillKeeps ==
  ASSUME TypeOK, UNCHANGED <<buf, pc, pq>>, NEW q \in Queue,
         sem'[Empty(q)] = sem[Empty(q)], sem'[Full(q)] = sem[Full(q)]
  PROVE  Kept(q)
<1>1. /\ EmptySum(q)' = EmptySum(q) /\ FullSum(q)' = FullSum(q)
      /\ Len(buf[q])' = Len(buf[q])
  BY DEF EmptySum, FullSum, At, Count, Takes, Consumers, Empty, Full
<1>2. EmptySum(q) \in Nat /\ FullSum(q) \in Nat /\ Len(buf[q]) \in Nat
  BY SumTypes, SumNumbers
<1> QED BY <1>1, <1>2 DEF Kept, EmptyKept, FullKept

(* Every step keeps the slot invariants: no queue overflows, and a full    *)
(* count never exceeds what is in the queue.                               *)
LEMMA SlotsStep == IInv /\ [Next]_vars => EmptyInv' /\ FullInv'
<1> SUFFICES ASSUME IInv, [Next]_vars, NEW q \in Queue PROVE SlotsKept(q)
  BY TypeStep, SlotsInvs
<1>a. TypeOK /\ TypeOK' BY TypeStep DEF IInv
<1>b. /\ Cancelled => Cancelled'
      /\ pc[Manager] = "rmdir" => pc'[Manager] = "rmdir"
  BY <1>a, Phases
<1>c. Kept(q) => SlotsKept(q) BY DEF Kept, SlotsKept
<1>d. Queue \subseteq Thread /\ Comm \subseteq Thread /\ Manager \in Thread
      /\ Printer \in Thread
  BY Threads
<1>e. UNCHANGED sem => \A r \in Queue : sem'[Empty(r)] = sem[Empty(r)]
                                     /\ sem'[Full(r)] = sem[Full(r)]
  OBVIOUS
<1>1. CASE Quiet
  <2>0. UNCHANGED buf BY <1>1 DEF Quiet
  <2>1. \A r \in Queue : sem'[Empty(r)] = sem[Empty(r)] /\ sem'[Full(r)] = sem[Full(r)]
    BY <1>1 DEF Quiet, QueueSems, Empty, Full
  <2>2. CASE UNCHANGED <<pc, pq, got>>
    BY <1>a, <1>c, <2>0, <2>1, <2>2, StillKeeps
  <2>3. ASSUME NEW t \in Comm \union {Printer}, NEW b \in Away,
               pc' = [pc EXCEPT ![t] = b], UNCHANGED pq \/ t = Printer
        PROVE  SlotsKept(q)
    <3>1. b \notin Filling \union Filled \union Emptying \union Emptied
      BY DEF Away, Filling, Filled, Emptying, Emptied
    <3>2. Goto(t, b) BY <2>3 DEF Goto
    <3> QED BY <1>a, <1>c, <1>d, <2>0, <2>1, <2>3, <3>1, <3>2, OutsideKeeps
  <2> QED BY <1>1, <2>2, <2>3 DEF Quiet, Goes
<1>2. ASSUME NEW t \in Queue, Produce(t) PROVE SlotsKept(q)
  <2>1. \/ Kept(q)
        \/ EmptyKept(q) /\ (pc[Manager] = "rmdir" \/ (Cancelled /\ q \in Comm))
    BY <1>a, <1>2, ProduceKeeps, ExactKeeps
  <2>2. pc[Manager] = "rmdir" => Cancelled' BY <1>b DEF Cancelled
  <2> QED BY <1>b, <1>c, <2>1, <2>2, Threads DEF SlotsKept
<1>3. ASSUME NEW t \in Thread, NEW r \in Queue, Takes(t, r), Consume(t, r)
      PROVE  SlotsKept(q)
  BY <1>a, <1>b, <1>c, <1>3, ConsumeKeeps, ExactKeeps DEF SlotsKept
<1>4. ASSUME NEW c \in Client, Accept(c) PROVE SlotsKept(q)
  <2>1. Goto(Manager, "wait_empty") /\ UNCHANGED <<pq, buf, sem>>
    BY <1>4 DEF Accept, Step, Goto, batch
  <2>2. "wait_empty" \notin Filling \union Filled \union Emptying \union Emptied
    BY DEF Filling, Filled, Emptying, Emptied
  <2> QED BY <1>a, <1>c, <1>d, <1>e, <2>1, <2>2, OutsideKeeps
<1>5. ASSUME NEW i \in Comm, CommRead(i) \/ WriteMsg(i) PROVE SlotsKept(q)
  <2>1. UNCHANGED <<pq, buf, sem>> BY <1>5 DEF CommRead, WriteMsg, batch
  <2>2. CASE CommRead(i)
    <3>1. Goto(i, "wait_empty") BY <2>2 DEF CommRead, Point, Step, Goto
    <3>2. "wait_empty" \notin Filling \union Filled \union Emptying \union Emptied
      BY DEF Filling, Filled, Emptying, Emptied
    <3> QED BY <1>a, <1>c, <1>d, <1>e, <2>1, <3>1, <3>2, OutsideKeeps
  <2>3. CASE WriteMsg(i)
    <3>1. Goto(i, "enqueue") /\ pc[i] = "write_msg"
      BY <2>3 DEF WriteMsg, Point, Step, Goto
    <3> QED BY <1>a, <1>c, <1>d, <1>e, <2>1, <3>1, OutsideKeeps
  <2> QED BY <1>5, <2>2, <2>3
<1>6. ASSUME NEW b \in HandlerPC, pc' = [pc EXCEPT ![Manager] = b], UNCHANGED <<pq, buf>>,
             \A r \in Queue : sem'[Empty(r)] = sem[Empty(r)] /\ sem'[Full(r)] = sem[Full(r)]
      PROVE  SlotsKept(q)
  <2>1. Goto(Manager, b) BY <1>6 DEF Goto
  <2>2. b \notin Filling \union Filled \union Emptying \union Emptied
    BY DEF HandlerPC, Filling, Filled, Emptying, Emptied
  <2> QED BY <1>a, <1>c, <1>d, <1>6, <2>1, <2>2, OutsideKeeps
<1>7. CASE \/ Sigint \/ HandlerCancel \/ FinalCheckNext \/ HandlerExit
  <2>1. PICK b \in HandlerPC : pc' = [pc EXCEPT ![Manager] = b]
    BY <1>7 DEF Sigint, HandlerCancel, FinalCheckNext, HandlerExit, Move, Step, HandlerPC
  <2>2. UNCHANGED <<pq, buf, sem>>
    BY <1>7 DEF Sigint, HandlerCancel, FinalCheckNext, HandlerExit, Move, data, batch
  <2> QED BY <1>6, <1>e, <2>1, <2>2
<1>8. CASE HandlerWaitBusy
  <2>1. /\ pc' = [pc EXCEPT ![Manager] = "cancel"] /\ UNCHANGED <<pq, buf>>
        /\ sem' = [sem EXCEPT ![mainBusy] = @ - 1]
    BY <1>8 DEF HandlerWaitBusy, SemWait, Point, Step, data, batch
  <2>2. \A r \in Queue : sem'[Empty(r)] = sem[Empty(r)] /\ sem'[Full(r)] = sem[Full(r)]
    <3>1. sem \in [Semaphore -> Nat] BY <1>a DEF TypeOK
    <3> QED BY <2>1, <3>1, Keys
  <2>3. "cancel" \in HandlerPC BY DEF HandlerPC
  <2> QED BY <1>6, <2>1, <2>2, <2>3
<1>9. CASE FinalCheckPrint
  <2>0. /\ pc[Manager] = "final_check" /\ pc' = [pc EXCEPT ![Manager] = "final_check"]
        /\ buf[hq] # <<>> /\ buf' = [buf EXCEPT ![hq] = Tail(@)]
        /\ UNCHANGED <<sem, pq>>
    BY <1>9 DEF FinalCheckPrint, Step, batch
  <2>1. hq \in Comm BY <2>0 DEF IInv, BusyInv
  <2>2. UNCHANGED pc
    <3>1. PICK P : pc \in [Thread -> P] BY <1>a DEF TypeOK
    <3> QED BY <2>0, <3>1
  <2>3. /\ EmptySum(q)' = EmptySum(q) /\ FullSum(q)' = FullSum(q)
    BY <2>0, <2>2 DEF EmptySum, FullSum, At, Count, Takes, Consumers, Empty, Full
  <2>4. EmptySum(q) \in Nat /\ FullSum(q) \in Nat /\ Len(buf[q]) \in Nat
    BY <1>a, SumTypes, SumNumbers
  <2>5. DOMAIN buf = Queue BY <1>a DEF TypeOK
  <2>6. CASE q # hq
    <3>1. Len(buf[q])' = Len(buf[q]) BY <2>0, <2>5, <2>6
    <3> QED BY <1>c, <2>3, <2>4, <3>1 DEF Kept, EmptyKept, FullKept
  <2>7. CASE q = hq
    <3>1. buf'[q] = Tail(buf[q]) BY <2>0, <2>5, <2>7
    <3>2. buf[q] \in Seq(Carried(q)) BY <1>a DEF TypeOK
    <3>a. buf[q] # <<>> BY <2>0, <2>7
    <3>b. Len(Tail(buf[q])) = Len(buf[q]) - 1 BY <3>2, <3>a
    <3>3. Len(buf'[q]) = Len(buf[q]) - 1 BY <3>1, <3>b
    <3>4. Len(buf[q])' = Len(buf[q]) - 1 BY <3>3
    <3>5. EmptyKept(q) BY <2>3, <2>4, <3>4 DEF EmptyKept
    <3>6. q # ConnQ /\ Cancelled' BY <2>0, <2>1, <2>2, <2>7, Threads DEF Cancelled
    <3> QED BY <3>5, <3>6 DEF SlotsKept
  <2> QED BY <2>6, <2>7
<1>10. CASE HandlerDestroy
  <2>1. pc'[Manager] = "rmdir"
    <3>1. PICK P : pc \in [Thread -> P] BY <1>a DEF TypeOK
    <3> QED BY <1>10, <1>d, <3>1 DEF HandlerDestroy, Step
  <2> QED BY <2>1 DEF SlotsKept, Cancelled
<1> QED BY <1>a, <1>1, <1>2, <1>3, <1>4, <1>5, <1>7, <1>8, <1>9, <1>10, Cases
        DEF HandlerNext

(* A destroyed queue stays empty.                                          *)
LEMMA DestroyedStep == IInv /\ [Next]_vars => DestroyedInv'
<1> SUFFICES ASSUME IInv, [Next]_vars PROVE DestroyedInv' OBVIOUS
<1>0. TypeOK /\ DestroyedInv BY DEF IInv
<1>1. PICK P : pc \in [Thread -> P] BY <1>0 DEF TypeOK
<1>2. DOMAIN buf = Queue BY <1>0 DEF TypeOK
<1> USE Threads DEF Step, Point, SemWait, SemPost, Move, data
<1>3. CASE HandlerDestroy BY <1>3 DEF HandlerDestroy, DestroyedInv
<1>4. ASSUME NEW t \in Queue, Enqueue(t) PROVE DestroyedInv'
  <2>1. pc'[Manager] = "rmdir" => pc[Manager] = "rmdir" BY <1>1, <1>4 DEF Enqueue
  <2>2. pc[Manager] = "rmdir" => UNCHANGED buf BY <1>4 DEF Enqueue
  <2> QED BY <1>0, <2>1, <2>2 DEF DestroyedInv
<1>5. ASSUME NEW t \in Thread, NEW q \in Queue, Takes(t, q), Dequeue(t, q)
      PROVE  DestroyedInv'
  <2>1. pc'[Manager] = pc[Manager] BY <1>1, <1>5 DEF Dequeue, Takes, Consumers
  <2>2. pc[Manager] = "rmdir" => UNCHANGED buf
    BY <1>0, <1>5 DEF Dequeue, DestroyedInv
  <2> QED BY <1>0, <2>1, <2>2 DEF DestroyedInv
<1>6. CASE FinalCheckPrint BY <1>1, <1>6 DEF FinalCheckPrint, DestroyedInv
<1>7. ASSUME UNCHANGED buf, pc'[Manager] = "rmdir" => pc[Manager] = "rmdir"
      PROVE  DestroyedInv'
  BY <1>0, <1>7 DEF DestroyedInv
<1>8. CASE Quiet BY <1>1, <1>7, <1>8 DEF Quiet, Goes
<1>9. ASSUME NEW t \in Queue, Produce(t), ~Enqueue(t) PROVE DestroyedInv'
  BY <1>1, <1>7, <1>9 DEF Produce, WaitEmpty, Lock, Unlock, PostFull
<1>10. ASSUME NEW t \in Thread, NEW q \in Queue, Takes(t, q), Consume(t, q),
              ~Dequeue(t, q)
       PROVE  DestroyedInv'
  BY <1>1, <1>7, <1>10 DEF Consume, WaitFull, LockFull, UnlockFull, PostEmpty, Takes,
     Consumers
<1>11. ASSUME NEW c \in Client, Accept(c) PROVE DestroyedInv'
  BY <1>1, <1>7, <1>11 DEF Accept
<1>12. ASSUME NEW i \in Comm, CommRead(i) \/ WriteMsg(i) PROVE DestroyedInv'
  BY <1>1, <1>7, <1>12 DEF CommRead, WriteMsg
<1>13. CASE Sigint BY <1>1, <1>7, <1>13 DEF Sigint
<1>14. CASE HandlerWaitBusy \/ HandlerCancel \/ FinalCheckNext \/ HandlerExit
  BY <1>1, <1>7, <1>14 DEF HandlerWaitBusy, HandlerCancel, FinalCheckNext, HandlerExit
<1> QED BY <1>0, <1>3, <1>4, <1>5, <1>6, <1>8, <1>9, <1>10, <1>11, <1>12, <1>13,
           <1>14, Cases DEF HandlerNext

-----------------------------------------------------------------------------
(* What threads have dequeued.                                             *)
Connected == {"read", "wait_empty", "lock", "write_msg", "enqueue", "unlock",
              "post_full", "post_sync"}
Took == {"unlock_full", "post_empty", "inner"}
Printing == {"unlock_full", "post_empty", "print", "remove"}

(* A step that leaves got alone, and takes no thread from outside into a   *)
(* region where got matters, keeps GotInv.                                 *)
LEMMA GotKept ==
  ASSUME TypeOK, GotInv, UNCHANGED got, PRINTER_TERMINATE => PRINTER_TERMINATE',
         NEW t \in Thread, NEW b, pc' = [pc EXCEPT ![t] = b],
         t \in Comm /\ b \in Connected
           => pc[t] \in Connected \/ (pc[t] = "inner" /\ ~PRINTER_TERMINATE),
         t \in Comm /\ b \in Took => pc[t] \in Connected \union Took,
         t = Printer /\ b \in Printing => pc[t] \in Printing
  PROVE  GotInv'
<1>1. PICK P : pc \in [Thread -> P] BY DEF TypeOK
<1>2. \A u \in Thread \ {t} : pc'[u] = pc[u] BY <1>1
<1>3. pc'[t] = b BY <1>1
<1> QED BY <1>2, <1>3, Threads DEF GotInv, Connected, Took, Printing

(* Thread t takes x, or lets go of what it has.                            *)
LEMMA GotSet ==
  ASSUME TypeOK, GotInv, PRINTER_TERMINATE => PRINTER_TERMINATE',
         NEW t \in Thread, NEW x, got' = [got EXCEPT ![t] = x],
         NEW b, pc' = [pc EXCEPT ![t] = b],
         t \in Comm /\ b \in Connected \union Took => x \in Client,
         t = Printer /\ b \in Printing => x \in PrintMsg
  PROVE  GotInv'
<1>1. PICK P, G : pc \in [Thread -> P] /\ got \in [Thread -> G] BY DEF TypeOK
<1>2. \A u \in Thread \ {t} : pc'[u] = pc[u] /\ got'[u] = got[u] BY <1>1
<1>3. pc'[t] = b /\ got'[t] = x BY <1>1
<1> QED BY <1>2, <1>3, Threads DEF GotInv, Connected, Took, Printing

(* Every step keeps GotInv: a dequeue that FullInv shows to find something *)
(* is the only way into its regions.                                       *)
LEMMA GotStep == IInv /\ [Next]_vars => GotInv'
<1> SUFFICES ASSUME IInv, [Next]_vars PROVE GotInv' OBVIOUS
<1>a. TypeOK /\ GotInv BY DEF IInv
<1>b. PRINTER_TERMINATE => PRINTER_TERMINATE' BY <1>a, Phases
<1>d. Queue \subseteq Thread /\ Comm \subseteq Thread /\ Manager \in Thread
      /\ Printer \in Thread
  BY Threads
<1> USE DEF Step, Point, SemWait, SemPost, Move, batch, data
<1>1. CASE Quiet
  <2>1. CASE UNCHANGED <<pc, pq, got>>
    BY <1>a, <1>b, <2>1 DEF GotInv
  <2>2. ASSUME NEW t \in Comm \union {Printer}, NEW b \in Away,
               pc' = [pc EXCEPT ![t] = b],
               b = "read" => pc[t] = "read" \/ (pc[t] = "inner" /\ ~PRINTER_TERMINATE),
               b = "inner" => pc[t] = "post_sync",
               b = "remove" => pc[t] = "print",
               UNCHANGED got
        PROVE  GotInv'
    <3>1. /\ b \in Connected => b = "read"
          /\ b \in Took => b = "inner"
          /\ b \in Printing => b = "remove"
          /\ "read" \in Connected /\ "post_sync" \in Connected /\ "print" \in Printing
      BY DEF Away, Connected, Took, Printing
    <3> QED BY <1>a, <1>b, <1>d, <2>2, <3>1, GotKept
  <2>3. ASSUME NEW t \in Comm \union {Printer}, NEW b \in {"outer", "take"},
               pc' = [pc EXCEPT ![t] = b],
               NEW x, got' = [got EXCEPT ![t] = x]
        PROVE  GotInv'
    <3>1. b \notin Connected \union Took \union Printing
      BY DEF Connected, Took, Printing
    <3> QED BY <1>a, <1>b, <1>d, <2>3, <3>1, GotSet
  <2>4. ASSUME NEW t \in Comm \union {Printer}, Goes(t) PROVE GotInv'
    BY <2>2, <2>3, <2>4 DEF Goes
  <2> QED BY <1>1, <2>1, <2>4 DEF Quiet
<1>2. ASSUME NEW t \in Queue, Produce(t) PROVE GotInv'
  <2>1. UNCHANGED got
    BY <1>2 DEF Produce, WaitEmpty, Lock, Enqueue, Unlock, PostFull
  <2>2. PICK b : /\ pc' = [pc EXCEPT ![t] = b] /\ b \notin Took
                 /\ pc[t] \in Connected
    BY <1>2 DEF Produce, WaitEmpty, Lock, Enqueue, Unlock, PostFull, Connected, Took
  <2> QED BY <1>a, <1>b, <1>d, <2>1, <2>2, Threads, GotKept
<1>3. ASSUME NEW t \in Thread, NEW q \in Queue, Takes(t, q), Consume(t, q)
      PROVE  GotInv'
  <2>1. CASE WaitFull(t, q) \/ LockFull(t, q)
    <3>1. PICK b \in {"lock_full", "dequeue"} : pc' = [pc EXCEPT ![t] = b]
      BY <2>1 DEF WaitFull, LockFull
    <3>2. UNCHANGED got BY <2>1 DEF WaitFull, LockFull
    <3>3. b \notin Connected \union Took \union Printing
      BY DEF Connected, Took, Printing
    <3> QED BY <1>a, <1>b, <3>1, <3>2, <3>3, GotKept
  <2>2. CASE UnlockFull(t, q) \/ PostEmpty(t, q)
    <3>1. PICK b : /\ pc' = [pc EXCEPT ![t] = b]
                   /\ b = "post_empty" \/ b = AfterConsume(t)
      BY <2>2 DEF UnlockFull, PostEmpty
    <3>2. UNCHANGED got /\ pc[t] \in Took /\ pc[t] \in Printing
      BY <2>2 DEF UnlockFull, PostEmpty, Took, Printing
    <3>3. t \in Comm => b \notin Connected
      BY <3>1, Threads DEF AfterConsume, Connected
    <3> QED BY <1>a, <1>b, <3>1, <3>2, <3>3, GotKept
  <2>3. CASE Dequeue(t, q)
    <3>0. pc[t] = "dequeue" /\ pc' = [pc EXCEPT ![t] = "unlock_full"]
      BY <2>3 DEF Dequeue
    <3>1. CASE buf[q] # <<>>
      <4>1. got' = [got EXCEPT ![t] = Head(buf[q])] BY <2>3, <3>1 DEF Dequeue
      <4>2. buf[q] \in Seq(Carried(q)) BY <1>a DEF TypeOK
      <4>3. Head(buf[q]) \in Carried(q) BY <3>1, <4>2
      <4>4. /\ t \in Comm => Carried(q) = Client
            /\ t = Printer => Carried(q) = PrintMsg
        BY <1>3, Threads DEF Takes, Consumers, Carried
      <4> QED BY <1>a, <1>b, <3>0, <4>1, <4>3, <4>4, GotSet
    <3>2. CASE buf[q] = <<>>
      <4>1. UNCHANGED got BY <2>3, <3>2 DEF Dequeue
      <4>2. pc[Manager] = "rmdir" BY <1>3, <3>0, <3>2, SomethingToTake
      <4>3. PRINTER_TERMINATE BY <4>2 DEF IInv, BusyInv, HandlerPC
      <4>4. t # Printer
        BY <3>0, <4>2 DEF IInv, BusyInv, InBatch, HandlerPC
      <4>5. t \in Comm BY <1>3, <4>4, Threads DEF Takes, Consumers
      <4>6. PICK P : pc \in [Thread -> P] BY <1>a DEF TypeOK
      <4>7. /\ \A u \in Thread \ {t} : pc'[u] = pc[u]
            /\ pc'[t] = "unlock_full"
        BY <3>0, <4>6
      <4> QED BY <1>a, <1>b, <4>1, <4>3, <4>5, <4>7, Threads DEF GotInv
    <3> QED BY <3>1, <3>2
  <2> QED BY <1>3, <2>1, <2>2, <2>3 DEF Consume
<1>4. ASSUME NEW i \in Comm, CommRead(i) \/ WriteMsg(i) PROVE GotInv'
  <2>1. UNCHANGED got BY <1>4 DEF CommRead, WriteMsg
  <2>2. PICK b : /\ pc' = [pc EXCEPT ![i] = b] /\ b \notin Took
                 /\ pc[i] \in Connected
    BY <1>4 DEF CommRead, WriteMsg, Connected, Took
  <2> QED BY <1>a, <1>b, <1>d, <2>1, <2>2, Threads, GotKept
<1>5. CASE Sigint \/ HandlerNext \/ \E c \in Client : Accept(c)
  <2>1. UNCHANGED got /\ \E b : pc' = [pc EXCEPT ![Manager] = b]
    BY <1>5 DEF Sigint, HandlerNext, HandlerWaitBusy, HandlerCancel, FinalCheckPrint,
       FinalCheckNext, HandlerDestroy, HandlerExit, Accept
  <2> QED BY <1>a, <1>b, <1>d, <2>1, Threads, GotKept
<1> QED BY <1>a, <1>1, <1>2, <1>3, <1>4, <1>5, Cases

-----------------------------------------------------------------------------
(* The invariant holds at first, and every step preserves it.              *)
LEMMA InitType == Init => TypeOK
<1> SUFFICES ASSUME Init PROVE TypeOK OBVIOUS
<1> USE Threads, CapacityAssumption, DataAssumption DEF Init
<1>1. /\ buf \in [Queue -> Seq(Client \union PrintMsg)]
      /\ \A q \in Queue : buf[q] \in Seq(Carried(q))
  <2>1. \A S : <<>> \in Seq(S) OBVIOUS
  <2> QED BY <2>1
<1>2. sem \in [Semaphore -> Nat]
  <2> SUFFICES ASSUME NEW s \in Semaphore PROVE sem[s] \in Nat OBVIOUS
  <2>1. CASE s[1] \in {"mutex", "mainBusy"} BY <2>1
  <2>2. CASE s[1] = "empty" BY <2>2 DEF Slots
  <2>3. CASE s[1] \in {"full", "sync_pc"} BY <2>3
  <2> QED BY <2>1, <2>2, <2>3 DEF Semaphore, sync_pc, mainBusy
<1>3. sem[mainBusy] <= 1 /\ \A q \in Queue : sem[Mutex(q)] <= 1
  BY Keys DEF mainBusy, Mutex
<1>4. pc \in [Thread -> UNION {PC(t) : t \in Thread}] /\ \A t \in Thread : pc[t] \in PC(t)
  <2>1. \A t \in Thread : pc[t] \in PC(t) BY DEF PC
  <2> QED BY <2>1
<1>5. /\ item \in [Thread -> Client \union PrintMsg \union {Nil}]
      /\ got \in [Thread -> Client \union PrintMsg \union {Nil}]
  OBVIOUS
<1>a. queueLens \in [Comm -> Nat] /\ pq \in Comm /\ hq \in 1 .. NC + 1
  OBVIOUS
<1>b. link \in [Client -> {"new", "open", "closed", "reset", "torn"}] OBVIOUS
<1>c. toSend \in [Client -> Seq(PrintMsg)] OBVIOUS
<1>d. spool \in [PrintID -> Text \union {Nil, Damaged}] OBVIOUS
<1>e. PRINTER_TERMINATE \in BOOLEAN
      /\ status \in {"running", "crashed", "exit0", "exit1", "exit69"}
  OBVIOUS
<1>f. /\ again \in [Thread -> {"no", "wait_busy", "final_check"}]
      /\ torn \in PrintMsg \union {Nil}
  OBVIOUS
<1>6. sock \in [Client -> Seq(PrintMsg)] /\ paper \in Seq(Message)
  <2>1. \A S : <<>> \in Seq(S) OBVIOUS
  <2> QED BY <2>1
<1> QED BY <1>1, <1>2, <1>3, <1>4, <1>5, <1>6, <1>a, <1>b, <1>c, <1>d,
       <1>e, <1>f DEF TypeOK

(* At first every slot of every queue is free and nothing is under way.     *)
LEMMA InitSums ==
  ASSUME Init, NEW q \in Queue
  PROVE  EmptySum(q) = Slots(q) /\ FullSum(q) = 0 /\ Len(buf[q]) = 0
<1>0. \A t \in Thread : pc[t] \in {"accept", "top", "mkdir", "outer"}
  BY DEF Init
<1>1. \A S \in {Filling, Filled} : At(q, S) = 0
  BY <1>0, Threads DEF At, Filling, Filled
<1>2. \A S \in {Emptying, Emptied} : Count(q, S) = 0
  <2> SUFFICES ASSUME NEW S \in {Emptying, Emptied} PROVE Count(q, S) = 0
    OBVIOUS
  <2>1. {t \in Consumers(q) : Takes(t, q) /\ pc[t] \in S} = {}
    BY <1>0, Threads DEF Consumers, Emptying, Emptied
  <2> QED BY <2>1, FS_EmptySet DEF Count
<1>3. sem[Empty(q)] = Slots(q) /\ sem[Full(q)] = 0
  BY Keys DEF Init, Empty, Full
<1>4. Slots(q) \in Nat BY CapacityAssumption DEF Slots
<1>5. Len(buf[q]) = 0 BY DEF Init
<1> QED BY <1>1, <1>2, <1>3, <1>4, <1>5 DEF EmptySum, FullSum

(* The inductive invariant holds when the printer starts.                  *)
LEMMA InitInv == Init => IInv
<1> SUFFICES ASSUME Init PROVE IInv OBVIOUS
<1>1. TypeOK BY InitType
<1>2. \A t \in Thread : pc[t] \in {"accept", "top", "mkdir", "outer"}
  BY DEF Init
<1>3. HeldInv /\ GotInv BY <1>2, Threads DEF HeldInv, GotInv, Holding
<1>4. LockInv
  BY <1>2, Threads DEF LockInv, QueueExclusion, InSection, Takes, Consumers
<1>5. BusyInv
  <2>1. pc[Manager] = "accept" BY Threads DEF Init
  <2>2. pc[Printer] \in {"top", "mkdir"} BY Threads DEF Init
  <2>3. hq \in Comm BY Threads DEF Init
  <2> QED BY <2>1, <2>2, <2>3 DEF BusyInv, InBatch, HandlerPC
<1>6. \A q \in Queue : EmptySum(q) = Slots(q) /\ FullSum(q) = 0 /\ Len(buf[q]) = 0
  BY InitSums
<1>7. EmptyInv /\ FullInv
  <2>1. \A q \in Queue : Slots(q) \in Nat BY CapacityAssumption DEF Slots
  <2> QED BY <1>6, <2>1 DEF EmptyInv, FullInv
<1>8. DestroyedInv BY <1>2, Threads DEF DestroyedInv
<1>9. AgainInv BY DEF Init, AgainInv
<1> QED BY <1>1, <1>3, <1>4, <1>5, <1>7, <1>8, <1>9 DEF IInv

(* Every step keeps the inductive invariant.                                *)
LEMMA IInvStep == IInv /\ [Next]_vars => IInv'
BY TypeStep, HeldStep, GotStep, LockStep, BusyStep, AgainStep, SlotsStep, DestroyedStep
   DEF IInv

(* IInv holds in every state: SIGINT, cancelled threads, an early message  *)
(* and a reset connection included.                                        *)
THEOREM Invariance == Spec => []IInv
<1> QED BY InitInv, IInvStep, PTL DEF Spec

(* Types: no thread goes on with something it has not dequeued, and the    *)
(* binary semaphores stay binary.                                          *)
THEOREM TypeCorrect == Spec => []TypeOK
<1>1. IInv => TypeOK BY DEF IInv
<1> QED BY Invariance, <1>1, PTL

(* No queue ever holds more than its slots, whatever its semaphores have   *)
(* been through when a thread is cancelled.                                *)
THEOREM NoOverflow == Spec => []BuffersBounded
<1>1. ASSUME IInv PROVE BuffersBounded
  <2> SUFFICES ASSUME NEW q \in Queue PROVE Len(buf[q]) <= Slots(q)
    BY DEF BuffersBounded
  <2>0. Slots(q) \in Nat BY CapacityAssumption DEF Slots
  <2>1. CASE pc[Manager] = "rmdir"
    <3>1. buf[q] = <<>> BY <1>1, <2>1 DEF IInv, DestroyedInv
    <3> QED BY <2>0, <3>1
  <2>2. CASE pc[Manager] # "rmdir"
    <3>1. EmptySum(q) + Len(buf[q]) <= Slots(q)
      BY <1>1, <2>2 DEF IInv, EmptyInv
    <3>2. EmptySum(q) \in Nat /\ Len(buf[q]) \in Nat
      BY <1>1, SumNumbers, SumTypes DEF IInv
    <3> QED BY <2>0, <3>1, <3>2
  <2> QED BY <2>1, <2>2
<1>2. IInv => BuffersBounded BY <1>1
<1> QED BY Invariance, <1>2, PTL

(* The threads of a queue work on it one at a time.                        *)
THEOREM MutualExclusion == Spec => []QueueExclusion
<1>1. IInv => QueueExclusion BY DEF IInv, LockInv
<1> QED BY Invariance, <1>1, PTL

(* The handler never cancels or prints in the middle of a batch.           *)
THEOREM PaperProtected == Spec => []BusyProtectsPaper
<1>1. IInv => BusyProtectsPaper
  BY DEF IInv, BusyInv, AgainInv, BusyProtectsPaper, PastBusy
<1> QED BY Invariance, <1>1, PTL

(* queue_dequeue, which returns without a value on an empty queue, is      *)
(* never called on one before the handler has destroyed it.                *)
THEOREM NothingFromNothing == Spec => []DequeueFinds
<1>1. IInv => DequeueFinds BY SomethingToTake DEF DequeueFinds
<1> QED BY Invariance, <1>1, PTL

-----------------------------------------------------------------------------
(* Slots.                                                                  *)

(* The threads of queue q do no longer all come back from where they are.  *)
TakenOver(q) == IF q = ConnQ THEN PRINTER_TERMINATE ELSE Cancelled

(* SlotAccounting, in the sums of the inductive invariant.                 *)
ExactInv ==
  \A q \in Queue : ~TakenOver(q) =>
    EmptySum(q) + Len(buf[q]) = Slots(q) /\ FullSum(q) = Len(buf[q])

(* These are the sums of SlotAccounting.                                   *)
LEMMA ExactIs == TypeOK => (ExactInv <=> SlotAccounting)
<1> SUFFICES ASSUME TypeOK, NEW q \in Queue
             PROVE  /\ EmptySum(q) + Len(buf[q])
                         = sem[Empty(q)] + Len(buf[q]) + At(q, Filling) + Count(q, Emptied)
                    /\ FullSum(q) = sem[Full(q)] + At(q, Filled) + Count(q, Emptying)
  BY DEF ExactInv, SlotAccounting, TakenOver, Filling, Filled, Emptying, Emptied
<1>1. /\ sem[Empty(q)] \in Nat /\ Len(buf[q]) \in Nat /\ At(q, Filling) \in Nat
      /\ Count(q, Emptied) \in Nat
  BY SumTypes
<1> QED BY <1>1, SMTT(30) DEF EmptySum, FullSum

(* What the sums count are natural numbers.                                *)
LEMMA Numbers ==
  TypeOK => \A q \in Queue : /\ EmptySum(q) \in Nat /\ FullSum(q) \in Nat
                             /\ Len(buf[q]) \in Nat
BY SumNumbers, SumTypes

(* The same in the next state.                                             *)
LEMMA NumbersNext ==
  TypeOK' => (\A q \in Queue : /\ EmptySum(q) \in Nat /\ FullSum(q) \in Nat
                               /\ Len(buf[q]) \in Nat)'
BY Numbers, PTL

(* Until the handler takes over the threads of a queue, each step changes  *)
(* its semaphores, its length and the operations under way by amounts that *)
(* agree.                                                                  *)
LEMMA ExactStep ==
  ASSUME IInv, [Next]_vars, NEW q \in Queue, ~TakenOver(q)'
  PROVE  Exact(q)
<1>a. TypeOK /\ TypeOK' BY TypeStep DEF IInv
<1>b. ~TakenOver(q) /\ (q # ConnQ => ~Cancelled /\ ~Cancelled')
  BY <1>a, Phases DEF TakenOver
<1>d. Queue \subseteq Thread /\ Comm \subseteq Thread /\ Manager \in Thread
      /\ Printer \in Thread
  BY Threads
<1>1. CASE Quiet
  <2>1. buf'[q] = buf[q] /\ sem'[Empty(q)] = sem[Empty(q)] /\ sem'[Full(q)] = sem[Full(q)]
    BY <1>1 DEF Quiet, QueueSems
  <2>2. CASE UNCHANGED <<pc, pq, got>>
    <3>1. EmptySum(q)' = EmptySum(q) /\ FullSum(q)' = FullSum(q)
      BY <2>1, <2>2 DEF EmptySum, FullSum, At, Count, Takes, Consumers, Empty, Full
    <3> QED BY <1>a, <2>1, <3>1, SameExact
  <2>3. ASSUME NEW t \in Comm \union {Printer}, Goes(t), UNCHANGED pq \/ t = Printer
        PROVE  Exact(q)
    <3>1. PICK b \in Away : Goto(t, b) /\ (pc[t] \in Operating => Cancelled)
      BY <2>3 DEF Goes, Goto
    <3>2. b \notin Operating
      BY DEF Away, Operating, Filling, Filled, Emptying, Emptied
    <3>3. CASE pc[t] \notin Operating
      <4>1. EmptySum(q)' = EmptySum(q) /\ FullSum(q)' = FullSum(q)
        BY <1>a, <1>d, <2>1, <2>3, <3>1, <3>2, <3>3, SumsSame DEF Operating
      <4> QED BY <1>a, <2>1, <4>1, SameExact
    <3>4. CASE pc[t] \in Operating
      <4>1. Cancelled /\ q = ConnQ
        BY <1>b, <3>1, <3>4
      <4>2. FALSE
        BY <1>b, <4>1, NotYetCancelled DEF TakenOver
      <4> QED BY <4>2
    <3> QED BY <3>3, <3>4
  <2> QED BY <1>1, <2>2, <2>3 DEF Quiet
<1>2. ASSUME NEW t \in Queue, Produce(t) PROVE Exact(q)
  <2>1. Exact(q) \/ pc[Manager] = "rmdir" \/ (Cancelled /\ q \in Comm)
    BY <1>a, <1>2, ProduceKeeps
  <2>2. q = ConnQ => pc[Manager] # "rmdir"
    BY <1>b DEF TakenOver, IInv, BusyInv, HandlerPC
  <2> QED BY <1>b, <2>1, <2>2, Threads DEF Cancelled
<1>3. ASSUME NEW t \in Thread, NEW r \in Queue, Takes(t, r), Consume(t, r)
      PROVE  Exact(q)
  <2>1. Exact(q) \/ pc[Manager] = "rmdir"
    BY <1>a, <1>3, ConsumeKeeps
  <2>2. pc[Manager] # "rmdir"
    BY <1>b DEF TakenOver, IInv, BusyInv, Cancelled, HandlerPC
  <2> QED BY <2>1, <2>2
<1>5. ASSUME NEW c \in Client, Accept(c) PROVE Exact(q)
  <2>1. /\ Goto(Manager, "wait_empty") /\ pc[Manager] = "accept"
        /\ pq' = pq /\ buf' = buf /\ sem' = sem
    BY <1>5 DEF Accept, Step, Goto, batch
  <2>2. /\ "wait_empty" \notin Filling \union Filled \union Emptying \union Emptied
        /\ "accept" \notin Filling \union Filled \union Emptying \union Emptied
    BY DEF Filling, Filled, Emptying, Emptied
  <2>3. EmptySum(q)' = EmptySum(q) /\ FullSum(q)' = FullSum(q)
    BY <1>a, <1>d, <2>1, <2>2, SumsSame
  <2> QED BY <1>a, <2>1, <2>3, SameExact
<1>6. ASSUME NEW i \in Comm, CommRead(i) PROVE Exact(q)
  <2>1. /\ Goto(i, "wait_empty") /\ pc[i] = "read" /\ pq' = pq /\ buf' = buf /\ sem' = sem
    BY <1>6 DEF CommRead, Point, Step, Goto, batch
  <2>2. /\ "wait_empty" \notin Filling \union Filled \union Emptying \union Emptied
        /\ "read" \notin Filling \union Filled \union Emptying \union Emptied
    BY DEF Filling, Filled, Emptying, Emptied
  <2>3. EmptySum(q)' = EmptySum(q) /\ FullSum(q)' = FullSum(q)
    BY <1>a, <1>d, <2>1, <2>2, SumsSame
  <2> QED BY <1>a, <2>1, <2>3, SameExact
<1>7. ASSUME NEW i \in Comm, WriteMsg(i) PROVE Exact(q)
  <2>1. /\ Goto(i, "enqueue") /\ pc[i] = "write_msg" /\ pq' = pq /\ buf' = buf /\ sem' = sem
    BY <1>7 DEF WriteMsg, Point, Step, Goto, batch
  <2>2. /\ "enqueue" \in Filling \ Filled /\ "write_msg" \in Filling \ Filled
        /\ "enqueue" \notin Emptying \union Emptied
        /\ "write_msg" \notin Emptying \union Emptied
    BY DEF Filling, Filled, Emptying, Emptied
  <2>3. EmptySum(q)' = EmptySum(q) /\ FullSum(q)' = FullSum(q)
    BY <1>a, <1>d, <2>1, <2>2, SumsSame
  <2> QED BY <1>a, <2>1, <2>3, SameExact
<1>8. CASE Sigint
  <2>1. q # ConnQ
    BY <1>8 DEF Sigint, TakenOver
  <2>2. Manager # q /\ ~Takes(Manager, q)
    BY <2>1, Threads DEF Takes, Consumers
  <2>3. Goto(Manager, "wait_busy") /\ pq' = pq /\ buf' = buf /\ sem' = sem
    BY <1>8 DEF Sigint, Goto, batch
  <2>4. EmptySum(q)' = EmptySum(q) /\ FullSum(q)' = FullSum(q)
    BY <1>a, <1>d, <2>2, <2>3, SumsSame
  <2> QED BY <1>a, <2>3, <2>4, SameExact
<1>9. CASE HandlerNext
  <2>1. pc[Manager] \in HandlerPC
    BY <1>9 DEF HandlerNext, HandlerWaitBusy, HandlerCancel, FinalCheckPrint,
       FinalCheckNext, HandlerDestroy, HandlerExit, SemWait, Point, Move, Step, HandlerPC
  <2>2. q # ConnQ
    BY <1>b, <2>1 DEF TakenOver, IInv, BusyInv
  <2>3. Manager # q /\ ~Takes(Manager, q)
    BY <2>2, Threads DEF Takes, Consumers
  <2>4. HandlerWaitBusy \/ HandlerCancel
    BY <1>9, <1>b, <2>2 DEF HandlerNext, FinalCheckPrint,
       FinalCheckNext, HandlerDestroy, HandlerExit, Step, Cancelled
  <2>5. ~HandlerCancel
    BY <1>a, <1>b, <1>d, <2>2 DEF HandlerCancel, Move, Step, Cancelled, TypeOK
  <2>6. /\ Goto(Manager, "cancel") /\ UNCHANGED <<pq, buf>>
        /\ sem' = [sem EXCEPT ![mainBusy] = @ - 1]
    BY <2>4, <2>5 DEF HandlerWaitBusy, SemWait, Point, Step, data, batch, Goto
  <2>7. sem'[Empty(q)] = sem[Empty(q)] /\ sem'[Full(q)] = sem[Full(q)]
    <3>1. sem \in [Semaphore -> Nat] BY <1>a DEF TypeOK
    <3> QED BY <2>6, <3>1, Keys
  <2>8. EmptySum(q)' = EmptySum(q) /\ FullSum(q)' = FullSum(q)
    BY <1>a, <1>d, <2>3, <2>6, <2>7, SumsSame
  <2> QED BY <1>a, <2>6, <2>8, SameExact
<1> QED BY <1>a, <1>1, <1>2, <1>3, <1>5, <1>6, <1>7, <1>8, <1>9, Cases

(* The semaphores of a queue count its slots exactly, whatever the order   *)
(* of the threads, up to the operations under way: of every message and    *)
(* connection queue, until its threads are cancelled or interrupted.       *)
THEOREM ExactSlots == Spec => []SlotAccounting
<1>1. Init => IInv /\ ExactInv
  <2> SUFFICES ASSUME Init PROVE ExactInv
    BY InitInv
  <2> SUFFICES ASSUME NEW q \in Queue
               PROVE  EmptySum(q) + Len(buf[q]) = Slots(q) /\ FullSum(q) = Len(buf[q])
    BY DEF ExactInv
  <2>1. Slots(q) \in Nat BY CapacityAssumption DEF Slots
  <2>2. EmptySum(q) = Slots(q) /\ FullSum(q) = 0 /\ Len(buf[q]) = 0
    BY InitSums
  <2> QED BY <2>1, <2>2
<1>2. IInv /\ ExactInv /\ [Next]_vars => IInv' /\ ExactInv'
  <2> SUFFICES ASSUME IInv, ExactInv, [Next]_vars PROVE ExactInv'
    BY IInvStep
  <2> SUFFICES ASSUME NEW q \in Queue, ~TakenOver(q)'
               PROVE  EmptySum(q)' + Len(buf[q])' = Slots(q) /\ FullSum(q)' = Len(buf[q])'
    BY DEF ExactInv, Slots, TakenOver
  <2>1. TypeOK /\ TypeOK' BY TypeStep DEF IInv
  <2>2. ~TakenOver(q) BY <2>1, Phases DEF TakenOver
  <2>3. EmptySum(q) + Len(buf[q]) = Slots(q) /\ FullSum(q) = Len(buf[q])
    BY <2>2 DEF ExactInv
  <2>4. Exact(q) BY ExactStep
  <2>5. /\ EmptySum(q) \in Nat /\ FullSum(q) \in Nat /\ Len(buf[q]) \in Nat
        /\ EmptySum(q)' \in Nat /\ FullSum(q)' \in Nat /\ Len(buf[q])' \in Nat
    <3>1. /\ EmptySum(q) \in Nat /\ FullSum(q) \in Nat /\ Len(buf[q]) \in Nat
      BY <2>1, SumNumbers, SumTypes
    <3>3. /\ EmptySum(q)' \in Nat /\ FullSum(q)' \in Nat /\ Len(buf[q])' \in Nat
      BY <2>1, NumbersNext
    <3> QED BY <3>1, <3>3
  <2>6. EmptySum(q)' + Len(buf[q])' = Slots(q)
    BY <2>3, <2>4 DEF Exact
  <2>7. FullSum(q)' + FullSum(q) = FullSum(q) + Len(buf[q])'
    BY <2>3, <2>4 DEF Exact
  <2>8. FullSum(q)' = Len(buf[q])'
    <3> DEFINE f == FullSum(q)'
               g == Len(buf[q])'
               e == FullSum(q)
    <3>1. f \in Nat /\ g \in Nat /\ e \in Nat /\ f + e = e + g BY <2>5, <2>7
    <3> HIDE DEF f, g, e
    <3>2. f = g BY <3>1
    <3> QED BY <3>2 DEF f, g
  <2> QED BY <2>6, <2>8
<1>3. IInv /\ ExactInv => SlotAccounting
  BY ExactIs DEF IInv
<1> QED BY <1>1, <1>2, <1>3, PTL DEF Spec

-----------------------------------------------------------------------------
(* Messages.                                                               *)

(* A message is counted in its queue before the communicator has posted it *)
(* on sync_pc, and until the printer thread, which has waited on sync_pc,  *)
(* dequeues it.                                                            *)
Posting == {"unlock", "post_full", "post_sync"}
Fetching == {"wait_busy", "repost", "wait_full", "lock_full", "dequeue"}
Lengths == [i \in Comm |-> Len(buf[i])]
Unposted == [i \in Comm |-> At(i, Posting)]
InQueues == Total(Lengths, Comm)
ToPost == Total(Unposted, Comm)

(* SyncAccounting in these sums, and printer_init is over.                 *)
SyncInv ==
  /\ pc[Printer] \notin {"mkdir", "sem_init"}
  /\ ~Cancelled => sem[sync_pc] + ToPost + At(Printer, Fetching) = InQueues

(* There are finitely many communicators.                                  *)
LEMMA CommFinite == IsFiniteSet(Comm)
BY CapacityAssumption, FS_Interval DEF Comm

(* The number of messages waiting, as Waiting adds them up.                *)
LEMMA WaitingIs == TypeOK => Waiting = InQueues
<1> SUFFICES ASSUME TypeOK PROVE Waiting = InQueues OBVIOUS
<1> DEFINE S == Comm
           f == Lengths
           a == CHOOSE it : it = [s \in SUBSET Comm |->
                                    IF s = {} THEN 0
                                    ELSE LET x == CHOOSE x \in s : TRUE
                                         IN  Len(buf[x]) + it[s \ {x}]]
<1>1. Sums(f, S, a)
  <2>1. ASSUME NEW s \in SUBSET S, s # {} PROVE f[Chosen(s)] = Len(buf[Chosen(s)])
    <3>1. Chosen(s) \in S
      BY <2>1, ChosenIs
    <3> QED BY <3>1 DEF Lengths
  <2>2. \E it : it = [s \in SUBSET Comm |-> IF s = {} THEN 0
                                            ELSE LET x == CHOOSE x \in s : TRUE
                                                 IN  Len(buf[x]) + it[s \ {x}]]
    <3>1. PICK it : it = [s \in SUBSET S |-> Plus(f, it, s)]
      BY CommFinite, SumExists DEF Sums
    <3>2. \A s \in SUBSET S : Plus(f, it, s) = IF s = {} THEN 0
                                               ELSE Len(buf[Chosen(s)]) + it[s \ {Chosen(s)}]
      BY <2>1 DEF Plus
    <3>3. it = [s \in SUBSET S |-> IF s = {} THEN 0
                                   ELSE Len(buf[Chosen(s)]) + it[s \ {Chosen(s)}]]
      BY <3>1, <3>2
    <3> QED BY <3>3 DEF Chosen
  <2>3. a = [s \in SUBSET Comm |-> IF s = {} THEN 0
                                   ELSE LET x == CHOOSE x \in s : TRUE
                                        IN  Len(buf[x]) + a[s \ {x}]]
    BY <2>2
  <2> HIDE DEF a
  <2>4. a = [s \in SUBSET S |-> IF s = {} THEN 0
                                ELSE Len(buf[Chosen(s)]) + a[s \ {Chosen(s)}]]
    BY <2>3 DEF Chosen
  <2>5. \A s \in SUBSET S : Plus(f, a, s) = IF s = {} THEN 0
                                            ELSE Len(buf[Chosen(s)]) + a[s \ {Chosen(s)}]
    BY <2>1 DEF Plus
  <2> QED BY <2>4, <2>5 DEF Sums
<1>2. Waiting = a[S]
  BY DEF Waiting, MapThenSumSet, MapThenFoldSet
<1>3. \A i \in S : f[i] \in Int
  BY DEF Lengths, TypeOK, Queue
<1> HIDE DEF a
<1>4. Total(f, S) = a[S]
  BY <1>1, <1>3, CommFinite, TotalIs
<1> QED BY <1>2, <1>4 DEF InQueues

(* The number of messages still to be posted, as SyncAccounting adds them. *)
LEMMA ToPostIs ==
  MapThenSumSet(LAMBDA i : At(i, {"unlock", "post_full", "post_sync"}), Comm) = ToPost
<1> DEFINE S == Comm
           f == Unposted
           a == CHOOSE it : it = [s \in SUBSET Comm |->
                                    IF s = {} THEN 0
                                    ELSE LET x == CHOOSE x \in s : TRUE
                                         IN  At(x, Posting) + it[s \ {x}]]
<1>1. Sums(f, S, a)
  <2>1. ASSUME NEW s \in SUBSET S, s # {} PROVE f[Chosen(s)] = At(Chosen(s), Posting)
    <3>1. Chosen(s) \in S
      BY <2>1, ChosenIs
    <3> QED BY <3>1 DEF Unposted
  <2>2. \E it : it = [s \in SUBSET Comm |-> IF s = {} THEN 0
                                            ELSE LET x == CHOOSE x \in s : TRUE
                                                 IN  At(x, Posting) + it[s \ {x}]]
    <3>1. PICK it : it = [s \in SUBSET S |-> Plus(f, it, s)]
      BY CommFinite, SumExists DEF Sums
    <3>2. \A s \in SUBSET S : Plus(f, it, s) = IF s = {} THEN 0
                                               ELSE At(Chosen(s), Posting) + it[s \ {Chosen(s)}]
      BY <2>1 DEF Plus
    <3>3. it = [s \in SUBSET S |-> IF s = {} THEN 0
                                   ELSE At(Chosen(s), Posting) + it[s \ {Chosen(s)}]]
      BY <3>1, <3>2
    <3> QED BY <3>3 DEF Chosen
  <2>3. a = [s \in SUBSET Comm |-> IF s = {} THEN 0
                                   ELSE LET x == CHOOSE x \in s : TRUE
                                        IN  At(x, Posting) + a[s \ {x}]]
    BY <2>2
  <2> HIDE DEF a
  <2>4. a = [s \in SUBSET S |-> IF s = {} THEN 0
                                ELSE At(Chosen(s), Posting) + a[s \ {Chosen(s)}]]
    BY <2>3 DEF Chosen
  <2>5. \A s \in SUBSET S : Plus(f, a, s) = IF s = {} THEN 0
                                            ELSE At(Chosen(s), Posting) + a[s \ {Chosen(s)}]
    BY <2>1 DEF Plus
  <2> QED BY <2>4, <2>5 DEF Sums
<1>2. MapThenSumSet(LAMBDA i : At(i, {"unlock", "post_full", "post_sync"}), Comm) = a[S]
  BY DEF MapThenSumSet, MapThenFoldSet, Posting
<1>3. \A i \in S : f[i] \in Int
  BY DEF Unposted, At
<1> HIDE DEF a
<1>4. Total(f, S) = a[S]
  BY <1>1, <1>3, CommFinite, TotalIs
<1> QED BY <1>2, <1>4 DEF ToPost

(* A step on the queue of k changes the number of messages by what it puts *)
(* in or takes out.                                                        *)
LEMMA InQueuesChanged ==
  ASSUME TypeOK, TypeOK', NEW k, \A i \in Comm \ {k} : buf'[i] = buf[i]
  PROVE  /\ InQueues \in Int
         /\ k \in Comm => InQueues' = InQueues + (Len(buf'[k]) - Len(buf[k]))
         /\ k \notin Comm => InQueues' = InQueues
<1> DEFINE f == [i \in Comm |-> Len(buf[i])]
           g == [i \in Comm |-> Len(buf'[i])]
<1>1. InQueues = Total(f, Comm) /\ InQueues' = Total(g, Comm)
  BY DEF InQueues, Lengths
<1>2. \A i \in Comm : f[i] \in Int /\ g[i] \in Int
  BY Threads DEF TypeOK
<1>3. \A i \in Comm \ {k} : f[i] = g[i]
  OBVIOUS
<1>4. k \in Comm => f[k] = Len(buf[k]) /\ g[k] = Len(buf'[k])
  OBVIOUS
<1> HIDE DEF f, g
<1>5. /\ Total(f, Comm) \in Int
      /\ k \in Comm => Total(g, Comm) = Total(f, Comm) + (g[k] - f[k])
      /\ k \notin Comm => Total(g, Comm) = Total(f, Comm)
  BY <1>2, <1>3, CommFinite, TotalChanged
<1> QED BY <1>1, <1>4, <1>5

(* A step of thread t changes the number of messages to be posted by its   *)
(* own.                                                                    *)
LEMMA ToPostChanged ==
  ASSUME TypeOK, NEW t \in Thread, NEW b, Goto(t, b)
  PROVE  /\ ToPost \in Int
         /\ t \in Comm => ToPost' = ToPost + ((IF b \in Posting THEN 1 ELSE 0) - At(t, Posting))
         /\ t \notin Comm => ToPost' = ToPost
<1> DEFINE f == [i \in Comm |-> At(i, Posting)]
           g == [i \in Comm |-> At(i, Posting)']
<1>0. PICK P : pc \in [Thread -> P] BY DEF TypeOK
<1>1. ToPost = Total(f, Comm) /\ ToPost' = Total(g, Comm)
  BY DEF ToPost, Unposted, Posting
<1>2. \A i \in Comm : f[i] \in Int /\ g[i] \in Int
  BY DEF At
<1>3. \A i \in Comm \ {t} : f[i] = g[i]
  BY <1>0, Threads DEF At, Goto
<1>4. t \in Comm => f[t] = At(t, Posting) /\ g[t] = IF b \in Posting THEN 1 ELSE 0
  BY <1>0 DEF At, Goto
<1> HIDE DEF f, g
<1>5. /\ Total(f, Comm) \in Int
      /\ t \in Comm => Total(g, Comm) = Total(f, Comm) + (g[t] - f[t])
      /\ t \notin Comm => Total(g, Comm) = Total(f, Comm)
  BY <1>2, <1>3, CommFinite, TotalChanged
<1> QED BY <1>1, <1>4, <1>5

(* By how much sync_pc, with the steps under way, exceeds the messages.    *)
Drift == sem[sync_pc] + ToPost + At(Printer, Fetching) - InQueues

(* Its terms are integers.                                                 *)
LEMMA DriftTypes ==
  TypeOK => /\ sem[sync_pc] \in Nat /\ ToPost \in Int /\ InQueues \in Int
            /\ At(Printer, Fetching) \in {0, 1}
<1> SUFFICES ASSUME TypeOK
             PROVE  /\ sem[sync_pc] \in Nat /\ ToPost \in Int /\ InQueues \in Int
                    /\ At(Printer, Fetching) \in {0, 1}
  OBVIOUS
<1>1. sem[sync_pc] \in Nat
  BY Keys DEF TypeOK
<1>2. ToPost \in Int
  <2> DEFINE f == Unposted
  <2>1. \A i \in Comm : f[i] \in Int
    BY DEF Unposted, At
  <2>2. Total(f, Comm) \in Int
    BY <2>1, CommFinite, TotalChanged
  <2> QED BY <2>2 DEF ToPost
<1>3. InQueues \in Int
  <2> DEFINE f == Lengths
  <2>1. \A i \in Comm : f[i] \in Int
    BY Threads DEF Lengths, TypeOK
  <2>2. Total(f, Comm) \in Int
    BY <2>1, CommFinite, TotalChanged
  <2> QED BY <2>2 DEF InQueues
<1> QED BY <1>1, <1>2, <1>3 DEF At

(* The same in the next state.                                             *)
LEMMA DriftTypesNext ==
  TypeOK' => (/\ sem[sync_pc] \in Nat /\ ToPost \in Int /\ InQueues \in Int
              /\ At(Printer, Fetching) \in {0, 1})'
BY DriftTypes, PTL

(* A step of thread t on queue k and on sync_pc whose changes cancel out.  *)
LEMMA DriftKept ==
  ASSUME TypeOK, TypeOK', NEW t \in Thread, NEW b, Goto(t, b),
         NEW k, \A i \in Comm \ {k} : buf'[i] = buf[i],
         NEW ds \in Int, sem'[sync_pc] = sem[sync_pc] + ds,
         NEW db \in Int, IF k \in Comm THEN Len(buf'[k]) = Len(buf[k]) + db ELSE db = 0,
         t \in Comm => ds + (IF b \in Posting THEN 1 ELSE 0) = db + At(t, Posting),
         t = Printer => ds + (IF b \in Fetching THEN 1 ELSE 0) = db + At(t, Fetching),
         t = Manager => ds = db
  PROVE  Drift' = Drift
<1> DEFINE s == sem[sync_pc]
           T == ToPost
           Q == InQueues
           F == At(Printer, Fetching)
           s2 == sem'[sync_pc]
           T2 == ToPost'
           Q2 == InQueues'
           F2 == At(Printer, Fetching)'
<1>0. PICK P : pc \in [Thread -> P] BY DEF TypeOK
<1>1. s \in Int /\ T \in Int /\ Q \in Int /\ F \in Int
  BY DriftTypes
<1>2. s2 = s + ds
  OBVIOUS
<1>3. Q2 = Q + db
  <2>1. k \in Comm => Len(buf[k]) \in Int
    BY Threads DEF TypeOK
  <2>2. /\ k \in Comm => Q2 = Q + (Len(buf'[k]) - Len(buf[k]))
        /\ k \notin Comm => Q2 = Q
    BY InQueuesChanged
  <2>3. CASE k \in Comm
    <3> DEFINE m == Len(buf[k])
               n == Len(buf'[k])
    <3>1. m \in Int /\ n = m + db /\ Q2 = Q + (n - m)
      BY <2>1, <2>2, <2>3
    <3> HIDE DEF Q, Q2, m, n
    <3> QED BY <1>1, <3>1
  <2>4. CASE k \notin Comm
    <3>1. db = 0 /\ Q2 = Q
      BY <2>2, <2>4
    <3> HIDE DEF Q, Q2
    <3> QED BY <1>1, <3>1
  <2> QED BY <2>3, <2>4
<1>4. CASE t \in Comm
  <2>1. T2 = T + ((IF b \in Posting THEN 1 ELSE 0) - At(t, Posting))
    BY <1>4, ToPostChanged
  <2>2. F2 = F
    BY <1>0, <1>4, Threads DEF At, Goto
  <2>3. At(t, Posting) \in Int
    BY DEF At
  <2>4. ds + (IF b \in Posting THEN 1 ELSE 0) = db + At(t, Posting)
    BY <1>4
  <2> HIDE DEF s, T, Q, F, s2, T2, Q2, F2
  <2>5. s2 + T2 + F2 - Q2 = s + T + F - Q
    BY <1>1, <1>2, <1>3, <2>1, <2>2, <2>3, <2>4, SMTT(30)
  <2> QED BY <2>5 DEF Drift, s, T, Q, F, s2, T2, Q2, F2
<1>5. CASE t = Printer
  <2>1. T2 = T
    BY <1>5, Threads, ToPostChanged
  <2>2. F2 = IF b \in Fetching THEN 1 ELSE 0
    BY <1>0, <1>5, Threads DEF At, Goto
  <2>3. ds + F2 = db + F
    BY <1>5, <2>2
  <2>4. F2 \in Int
    BY <2>2
  <2> HIDE DEF s, T, Q, F, s2, T2, Q2, F2
  <2>5. s2 + T2 + F2 - Q2 = s + T + F - Q
    BY <1>1, <1>2, <1>3, <2>1, <2>3, <2>4
  <2> QED BY <2>5 DEF Drift, s, T, Q, F, s2, T2, Q2, F2
<1>6. CASE t = Manager
  <2>1. T2 = T
    BY <1>6, Threads, ToPostChanged
  <2>2. F2 = F
    BY <1>0, <1>6, Threads DEF At, Goto
  <2>3. ds = db
    BY <1>6
  <2> HIDE DEF s, T, Q, F, s2, T2, Q2, F2
  <2>4. s2 + T2 + F2 - Q2 = s + T + F - Q
    BY <1>1, <1>2, <1>3, <2>1, <2>2, <2>3
  <2> QED BY <2>4 DEF Drift, s, T, Q, F, s2, T2, Q2, F2
<1> QED BY <1>4, <1>5, <1>6, Threads

(* A step that is neither on sync_pc nor on what a message queue holds,    *)
(* and takes no thread into or out of where it is counted.                 *)
LEMMA DriftElsewhere ==
  ASSUME TypeOK, TypeOK', NEW t \in Thread, NEW b, Goto(t, b),
         \A i \in Comm : buf'[i] = buf[i], sem'[sync_pc] = sem[sync_pc],
         t \in Comm => (b \in Posting <=> pc[t] \in Posting),
         t = Printer => (b \in Fetching <=> pc[t] \in Fetching)
  PROVE  Drift' = Drift
<1>1. sem'[sync_pc] = sem[sync_pc] + 0
  BY DriftTypes
<1>2. Manager \notin Comm
  BY Threads
<1>3. 0 \in Int
  OBVIOUS
<1>4. t \in Comm => 0 + (IF b \in Posting THEN 1 ELSE 0) = 0 + At(t, Posting)
  BY DEF At
<1>5. t = Printer => 0 + (IF b \in Fetching THEN 1 ELSE 0) = 0 + At(t, Fetching)
  BY DEF At
<1>6. IF Manager \in Comm THEN Len(buf'[Manager]) = Len(buf[Manager]) + 0 ELSE 0 = 0
  BY <1>2
<1>7. \A i \in Comm \ {Manager} : buf'[i] = buf[i]
  OBVIOUS
<1> QED BY <1>1, <1>3, <1>4, <1>5, <1>6, <1>7, DriftKept

(* Until the handler cancels the threads, the steps on sync_pc and those   *)
(* on the message queues and their threads make up for each other; only    *)
(* printer_init drops what was posted.                                     *)
LEMMA SyncStep ==
  ASSUME IInv, [Next]_vars, ~Cancelled', ~PrinterSemInit
  PROVE  Drift' = Drift
<1>a. TypeOK /\ TypeOK' BY TypeStep DEF IInv
<1>b. ~Cancelled BY <1>a, Phases
<1>c. Flat BY <1>a, FlatNext
<1>d. Queue \subseteq Thread /\ Comm \subseteq Thread /\ Manager \in Thread
      /\ Printer \in Thread
  BY Threads
<1>e. sem \in [Semaphore -> Nat] /\ \A q \in Queue : sync_pc \notin {Mutex(q), Empty(q), Full(q)}
  BY <1>a, Keys DEF TypeOK
<1> USE DEF Step, Point, Move, SemWait, SemPost
<1>1. ASSUME NEW t \in Queue, Produce(t) PROVE Drift' = Drift
  <2>0. t # Printer /\ t \in Thread
    BY Threads
  <2>1. CASE WaitEmpty(t) \/ Lock(t) \/ Unlock(t) \/ PostFull(t)
    <3>1. PICK b : /\ Goto(t, b)
                   /\ t \in Comm => (b \in Posting <=> pc[t] \in Posting)
      BY <2>1, Threads DEF WaitEmpty, Lock, Unlock, PostFull, Posting, Goto
    <3>2. buf' = buf
      BY <2>1 DEF WaitEmpty, Lock, Unlock, PostFull
    <3>3. sem'[sync_pc] = sem[sync_pc]
      <4>1. PICK s \in {Mutex(t), Empty(t), Full(t)} :
              \/ sem' = [sem EXCEPT ![s] = @ + 1]
              \/ sem' = [sem EXCEPT ![s] = @ - 1]
        BY <2>1 DEF WaitEmpty, Lock, Unlock, PostFull
      <4>2. s # sync_pc
        BY <1>e, <4>1
      <4> QED BY <1>e, <4>1, <4>2, Keys
    <3> QED BY <1>a, <2>0, <3>1, <3>2, <3>3, DriftElsewhere
  <2>2. CASE Enqueue(t)
    <3>1. Goto(t, "unlock") /\ pc[t] = "enqueue" /\ sem'[sync_pc] = sem[sync_pc] + 0
      BY <1>e, <2>2, DriftTypes, <1>a DEF Enqueue, Goto
    <3>2. buf' = [buf EXCEPT ![t] = Append(buf[t], item[t])]
      BY <1>b, <2>2 DEF Enqueue, Cancelled
    <3>3. \A i \in Comm \ {t} : buf'[i] = buf[i]
      BY <1>a, <3>2, Threads DEF TypeOK
    <3>4. Len(buf'[t]) = Len(buf[t]) + 1
      <4>1. buf[t] \in Seq(Carried(t)) /\ buf'[t] = Append(buf[t], item[t])
        BY <1>a, <3>2 DEF TypeOK
      <4> QED BY <4>1
    <3>5. "unlock" \in Posting /\ "enqueue" \notin Posting
      BY DEF Posting
    <3>6. t \in Comm => 0 + (IF "unlock" \in Posting THEN 1 ELSE 0) = 1 + At(t, Posting)
      BY <3>1, <3>5 DEF At
    <3>7. CASE t \in Comm
      <4>1. IF t \in Comm THEN Len(buf'[t]) = Len(buf[t]) + 1 ELSE 1 = 0
        BY <3>4, <3>7
      <4> QED BY <1>a, <2>0, <3>1, <3>3, <3>6, <3>7, <4>1, Threads, DriftKept
    <3>8. CASE t = Manager
      <4>1. sem'[sync_pc] = sem[sync_pc]
        BY <2>2 DEF Enqueue
      <4>2. \A i \in Comm : buf'[i] = buf[i]
        BY <3>3, <3>8, Threads
      <4> QED BY <1>a, <2>0, <3>1, <3>8, <4>1, <4>2, Threads, DriftElsewhere
    <3> QED BY <3>7, <3>8, Threads
  <2> QED BY <1>1, <2>1, <2>2 DEF Produce
<1>2. ASSUME NEW t \in Thread, NEW q \in Queue, Takes(t, q), Consume(t, q)
      PROVE  Drift' = Drift
  <2>0. \/ t = Printer /\ q \in Comm
        \/ t \in Comm /\ q = ConnQ
    BY <1>2, Threads DEF Takes, Consumers
  <2>1. CASE WaitFull(t, q) \/ LockFull(t, q) \/ UnlockFull(t, q) \/ PostEmpty(t, q)
    <3>1. PICK b : /\ Goto(t, b)
                   /\ t \in Comm => (b \in Posting <=> pc[t] \in Posting)
                   /\ t = Printer => (b \in Fetching <=> pc[t] \in Fetching)
      BY <2>1, Threads
         DEF WaitFull, LockFull, UnlockFull, PostEmpty, AfterConsume, Posting, Fetching, Goto
    <3>2. buf' = buf
      BY <2>1 DEF WaitFull, LockFull, UnlockFull, PostEmpty
    <3>3. sem'[sync_pc] = sem[sync_pc]
      <4>1. PICK s \in {Mutex(q), Empty(q), Full(q)} :
              \/ sem' = [sem EXCEPT ![s] = @ + 1]
              \/ sem' = [sem EXCEPT ![s] = @ - 1]
        BY <2>1 DEF WaitFull, LockFull, UnlockFull, PostEmpty
      <4>2. s # sync_pc
        BY <1>e, <4>1
      <4> QED BY <1>e, <4>1, <4>2, Keys
    <3> QED BY <1>a, <3>1, <3>2, <3>3, DriftElsewhere
  <2>2. CASE Dequeue(t, q)
    <3>1. Goto(t, "unlock_full") /\ pc[t] = "dequeue"
      BY <2>2 DEF Dequeue, Goto
    <3>2. sem' = sem
      BY <2>2 DEF Dequeue
    <3>3. buf[q] # <<>>
      BY <1>2, <1>b, <3>1, SomethingToTake DEF Cancelled
    <3>4. buf' = [buf EXCEPT ![q] = Tail(buf[q])]
      BY <2>2, <3>3 DEF Dequeue
    <3>5. \A i \in Comm \ {q} : buf'[i] = buf[i]
      BY <1>a, <3>4, Threads DEF TypeOK
    <3>6. CASE t = Printer /\ q \in Comm
      <4>1. Len(buf'[q]) = Len(buf[q]) + (-1)
        <5>1. buf[q] \in Seq(Carried(q)) /\ buf'[q] = Tail(buf[q])
          BY <1>a, <3>4 DEF TypeOK
        <5> QED BY <3>3, <5>1
      <4>2. IF q \in Comm THEN Len(buf'[q]) = Len(buf[q]) + (-1) ELSE -1 = 0
        BY <3>6, <4>1
      <4>3. 0 + (IF "unlock_full" \in Fetching THEN 1 ELSE 0) = -1 + At(t, Fetching)
        BY <3>1 DEF At, Fetching
      <4>4. sem'[sync_pc] = sem[sync_pc] + 0
        BY <3>2, <1>a, DriftTypes
      <4>5. -1 \in Int /\ 0 \in Int
        OBVIOUS
      <4> QED BY <1>a, <3>1, <3>5, <3>6, <4>2, <4>3, <4>4, <4>5, Threads, DriftKept
    <3>7. CASE t \in Comm /\ q = ConnQ
      <4>1. \A i \in Comm : buf'[i] = buf[i]
        BY <3>5, <3>7, Threads
      <4>2. "unlock_full" \notin Posting /\ "dequeue" \notin Posting
        BY DEF Posting
      <4> QED BY <1>a, <3>1, <3>2, <3>7, <4>1, <4>2, Threads, DriftElsewhere
    <3> QED BY <2>0, <3>6, <3>7
  <2> QED BY <1>2, <2>1, <2>2 DEF Consume
<1>3. ASSUME NEW c \in Client, Accept(c) PROVE Drift' = Drift
  BY <1>a, <1>3, Threads, DriftElsewhere DEF Accept, Goto
<1>4. ASSUME NEW i \in Comm,
             CommLoop(i) \/ CommRead(i) \/ CommDisconnect(i) \/ WriteMsg(i)
      PROVE  Drift' = Drift
  <2>1. PICK b : Goto(i, b) /\ b \notin Posting /\ pc[i] \notin Posting
    BY <1>4 DEF CommLoop, CommRead, CommDisconnect, WriteMsg, Posting, Goto
  <2>2. sem' = sem /\ buf' = buf
    BY <1>4 DEF CommLoop, CommRead, CommDisconnect, WriteMsg
  <2> QED BY <1>a, <2>1, <2>2, Threads, DriftElsewhere
<1>5. ASSUME NEW i \in Comm, CommPostSync(i) PROVE Drift' = Drift
  <2>1. Goto(i, "inner") /\ pc[i] = "post_sync" /\ buf' = buf
    BY <1>5 DEF CommPostSync, Goto
  <2>2. sem'[sync_pc] = sem[sync_pc] + 1
    BY <1>5, <1>e, Keys DEF CommPostSync
  <2>3. 1 + (IF "inner" \in Posting THEN 1 ELSE 0) = 0 + At(i, Posting)
    BY <2>1 DEF At, Posting
  <2>4. IF Manager \in Comm THEN Len(buf'[Manager]) = Len(buf[Manager]) + 0 ELSE 0 = 0
    BY Threads
  <2>5. 0 \in Int /\ 1 \in Int /\ i \in Thread /\ i # Printer /\ i # Manager
    BY Threads
  <2>6. \A j \in Comm \ {Manager} : buf'[j] = buf[j]
    BY <2>1
  <2> QED BY <1>a, <2>1, <2>2, <2>3, <2>4, <2>5, <2>6, DriftKept
(* The printer thread between its message queues and sync_pc.              *)
<1>6. ASSUME NEW b, Goto(Printer, b), buf' = buf,
             NEW ds \in Int, sem'[sync_pc] = sem[sync_pc] + ds,
             ds + (IF b \in Fetching THEN 1 ELSE 0) = At(Printer, Fetching)
      PROVE  Drift' = Drift
  <2>1. ds + (IF b \in Fetching THEN 1 ELSE 0) = 0 + At(Printer, Fetching)
    BY <1>6 DEF At
  <2>2. IF Manager \in Comm THEN Len(buf'[Manager]) = Len(buf[Manager]) + 0 ELSE 0 = 0
    BY Threads
  <2>3. 0 \in Int /\ Printer \in Thread /\ Printer \notin Comm /\ Printer # Manager
    BY Threads
  <2>4. \A j \in Comm \ {Manager} : buf'[j] = buf[j]
    BY <1>6
  <2> QED BY <1>a, <1>6, <2>1, <2>2, <2>3, <2>4, DriftKept
<1>7. CASE PrinterWaitSync
  <2>1. Goto(Printer, "wait_busy") /\ pc[Printer] = "wait_sync" /\ buf' = buf
    BY <1>7 DEF PrinterWaitSync, Goto
  <2>2. sem'[sync_pc] = sem[sync_pc] + (-1)
    BY <1>7, <1>e, Keys DEF PrinterWaitSync
  <2>3. -1 + (IF "wait_busy" \in Fetching THEN 1 ELSE 0) = At(Printer, Fetching)
    BY <2>1 DEF At, Fetching
  <2>4. -1 \in Int
    OBVIOUS
  <2> QED BY <1>6, <2>1, <2>2, <2>3, <2>4
<1>8. CASE PrinterRepost
  <2>1. Goto(Printer, "scan") /\ pc[Printer] = "repost" /\ buf' = buf
    BY <1>8 DEF PrinterRepost, Goto
  <2>2. sem'[sync_pc] = sem[sync_pc] + 1
    BY <1>8, <1>e, Keys DEF PrinterRepost
  <2>3. 1 + (IF "scan" \in Fetching THEN 1 ELSE 0) = At(Printer, Fetching)
    BY <2>1 DEF At, Fetching
  <2> QED BY <1>6, <2>1, <2>2, <2>3
<1>9. ASSUME NEW i \in Comm, PrinterTake(i) PROVE Drift' = Drift
  <2>1. Goto(Printer, "wait_full") /\ pc[Printer] = "take" /\ buf' = buf
    BY <1>9 DEF PrinterTake, Goto
  <2>2. sem'[sync_pc] = sem[sync_pc] + (-1)
    BY <1>9, <1>e, Keys DEF PrinterTake
  <2>3. -1 + (IF "wait_full" \in Fetching THEN 1 ELSE 0) = At(Printer, Fetching)
    BY <2>1 DEF At, Fetching
  <2>4. -1 \in Int
    OBVIOUS
  <2> QED BY <1>6, <2>1, <2>2, <2>3, <2>4
<1>10. CASE PrinterMkdir \/ PrinterTop \/ PrinterScan \/ PrinterPrint \/ PrinterRemove
            \/ PrinterWaitBusy \/ PrinterFinish
  <2>1. PICK b : Goto(Printer, b) /\ (b \in Fetching <=> pc[Printer] \in Fetching)
    BY <1>10 DEF PrinterMkdir, PrinterTop, PrinterScan, PrinterPrint, PrinterRemove,
       PrinterWaitBusy, PrinterFinish, Fetching, Goto
  <2>2. buf' = buf
    BY <1>10 DEF PrinterMkdir, PrinterTop, PrinterScan, PrinterPrint, PrinterRemove,
       PrinterWaitBusy, PrinterFinish
  <2>3. sem'[sync_pc] = sem[sync_pc]
    BY <1>10, <1>e, Keys DEF PrinterMkdir, PrinterTop, PrinterScan, PrinterPrint,
       PrinterRemove, PrinterWaitBusy, PrinterFinish
  <2> QED BY <1>a, <2>1, <2>2, <2>3, Threads, DriftElsewhere
<1>11. CASE Sigint \/ HandlerNext
  <2>1. PICK b : Goto(Manager, b)
    BY <1>11 DEF Sigint, HandlerNext, HandlerWaitBusy, HandlerCancel, FinalCheckPrint,
       FinalCheckNext, HandlerDestroy, HandlerExit, Goto
  <2>2. Sigint \/ HandlerWaitBusy \/ HandlerCancel
    BY <1>11, <1>b DEF HandlerNext, FinalCheckPrint, FinalCheckNext, HandlerDestroy,
       HandlerExit, Cancelled
  <2>3. buf' = buf
    BY <2>2 DEF Sigint, HandlerWaitBusy, HandlerCancel
  <2>4. sem'[sync_pc] = sem[sync_pc]
    BY <1>e, <2>2, Keys DEF Sigint, HandlerWaitBusy, HandlerCancel
  <2> QED BY <1>a, <2>1, <2>3, <2>4, Threads, DriftElsewhere
<1>12. ASSUME pc' = pc, buf' = buf, sem' = sem PROVE Drift' = Drift
  BY <1>12 DEF Drift, ToPost, Unposted, InQueues, Lengths, At
<1>13. CASE (\E i \in Comm : CommReadError(i) \/ CommCorrupts(i)) \/ ClientNext
            \/ UNCHANGED vars
  <2>1. buf' = buf /\ sem' = sem
    BY <1>13 DEF CommReadError, CommCorrupts, ClientNext, ClientSend, ClientClose,
       ClientReset, vars
  <2>2. pc' = pc
    <3>1. PICK P : pc \in [Thread -> P] BY <1>a DEF TypeOK
    <3> QED BY <1>13, <3>1 DEF CommReadError, CommCorrupts, ClientNext, ClientSend,
            ClientClose, ClientReset, vars
  <2> QED BY <1>12, <2>1, <2>2
<1>14. CASE AgainNext
  <2>1. buf' = buf /\ pc' = pc /\ sem'[sync_pc] = sem[sync_pc]
    BY <1>14, <1>e, Keys DEF AgainNext, SigintAgain, AgainWaitBusy, AgainExit
  <2> QED BY <2>1 DEF Drift, ToPost, Unposted, InQueues, Lengths, At
<1>15. ~PrinterSemInit /\ ~PrinterDies /\ \A i \in Comm : ~CommDies(i)
  BY <1>b DEF PrinterDies, CommDies
<1> QED BY <1>c, <1>1, <1>2, <1>3, <1>4, <1>5, <1>7, <1>8, <1>9, <1>10, <1>11, <1>13,
           <1>14, <1>15 DEF Flat

(* printer_init is never run again.                                        *)
LEMMA Initialised ==
  ASSUME TypeOK, [Next]_vars, pc[Printer] \notin {"mkdir", "sem_init"}
  PROVE  pc'[Printer] \notin {"mkdir", "sem_init"}
<1>1. Flat
  BY FlatNext
<1>2. PICK P : pc \in [Thread -> P] BY DEF TypeOK
<1> USE <1>2, Threads DEF Step, Point, Move, SemWait, SemPost
<1> SUFFICES ASSUME pc'[Printer] # pc[Printer]
             PROVE  pc'[Printer] \notin {"mkdir", "sem_init"}
  OBVIOUS
<1>3. \A t \in Queue : ~Produce(t)
  BY DEF Produce, WaitEmpty, Lock, Enqueue, Unlock, PostFull
<1>4. ASSUME NEW q \in Queue, Consume(Printer, q)
      PROVE  pc'[Printer] \notin {"mkdir", "sem_init"}
  BY <1>4 DEF Consume, WaitFull, LockFull, Dequeue, UnlockFull, PostEmpty, AfterConsume
<1>5. ASSUME NEW t \in Comm, NEW q \in Queue PROVE ~Consume(t, q)
  BY DEF Consume, WaitFull, LockFull, Dequeue, UnlockFull, PostEmpty
<1>6. \A t \in Thread, q \in Queue : Takes(t, q) => t = Printer \/ t \in Comm
  BY DEF Takes, Consumers
<1>7. \A i \in Comm : ~(CommLoop(i) \/ CommRead(i) \/ CommDisconnect(i) \/ CommReadError(i)
                        \/ WriteMsg(i) \/ CommPostSync(i) \/ CommDies(i) \/ CommCorrupts(i))
  BY DEF CommLoop, CommRead, CommDisconnect, CommReadError, WriteMsg, CommPostSync,
     CommDies, CommCorrupts
<1>8. ASSUME \/ \E i \in Comm : PrinterTake(i)
             \/ PrinterTop \/ PrinterWaitSync \/ PrinterWaitBusy \/ PrinterRepost
             \/ PrinterScan \/ PrinterPrint \/ PrinterRemove \/ PrinterFinish
             \/ PrinterDies
      PROVE  pc'[Printer] \notin {"mkdir", "sem_init"}
  BY <1>8 DEF PrinterTake, PrinterTop, PrinterWaitSync, PrinterWaitBusy, PrinterRepost,
     PrinterScan, PrinterPrint, PrinterRemove, PrinterFinish, PrinterDies
<1>9. ~PrinterMkdir /\ ~PrinterSemInit
  BY DEF PrinterMkdir, PrinterSemInit
<1>10. \A c \in Client : ~Accept(c)
  BY DEF Accept
<1>11. ~Sigint /\ ~HandlerNext /\ ~AgainNext /\ ~ClientNext /\ ~UNCHANGED vars
  BY DEF Sigint, AgainNext, SigintAgain, AgainWaitBusy, AgainExit,
     HandlerNext, HandlerWaitBusy, HandlerCancel, FinalCheckPrint,
     FinalCheckNext, HandlerDestroy, HandlerExit, ClientNext, ClientSend, ClientClose,
     ClientReset, vars
<1> QED BY <1>1, <1>3, <1>4, <1>5, <1>6, <1>7, <1>8, <1>9, <1>10, <1>11 DEF Flat

(* Where printer_init is over before the first connection, sync_pc counts  *)
(* the messages in the message queues exactly, up to the steps under way,  *)
(* whatever the order of communicators and printer thread.                 *)
THEOREM ExactSync == ASSUME Ready PROVE Spec => []SyncAccounting
<1>1. Init => IInv /\ SyncInv
  <2> SUFFICES ASSUME Init PROVE SyncInv
    BY InitInv
  <2>1. pc[Printer] = "top" /\ \A i \in Comm : pc[i] = "outer" /\ buf[i] = <<>>
    BY Threads DEF Init
  <2>2. InQueues = 0
    <3> DEFINE f == Lengths
    <3>1. \A i \in Comm : f[i] = 0
      BY <2>1 DEF Lengths
    <3>2. Total(f, Comm) = 0
      BY <3>1, CommFinite, TotalZero
    <3> QED BY <3>2 DEF InQueues
  <2>3. ToPost = 0
    <3> DEFINE f == Unposted
    <3>1. \A i \in Comm : f[i] = 0
      BY <2>1 DEF Unposted, At, Posting
    <3>2. Total(f, Comm) = 0
      BY <3>1, CommFinite, TotalZero
    <3> QED BY <3>2 DEF ToPost
  <2>4. sem[sync_pc] = 0
    BY Keys DEF Init, sync_pc
  <2>5. At(Printer, Fetching) = 0
    BY <2>1 DEF At, Fetching
  <2> QED BY <2>1, <2>2, <2>3, <2>4, <2>5 DEF SyncInv
<1>2. IInv /\ SyncInv /\ [Next]_vars => IInv' /\ SyncInv'
  <2> SUFFICES ASSUME IInv, SyncInv, [Next]_vars PROVE SyncInv'
    BY IInvStep
  <2>1. TypeOK /\ TypeOK'
    BY TypeStep DEF IInv
  <2>2. pc'[Printer] \notin {"mkdir", "sem_init"}
    BY <2>1, Initialised DEF SyncInv
  <2>3. ASSUME ~Cancelled' PROVE Drift' = 0
    <3>1. ~Cancelled
      BY <2>1, <2>3, Phases
    <3>2. sem[sync_pc] + ToPost + At(Printer, Fetching) = InQueues
      BY <3>1 DEF SyncInv
    <3>3. Drift = 0
      BY <2>1, <3>2, DriftTypes DEF Drift
    <3>4. Drift' = Drift
      BY <2>3, SyncStep DEF SyncInv, PrinterSemInit, Step
    <3> QED BY <3>3, <3>4
  <2>4. ASSUME ~Cancelled'
        PROVE  (sem[sync_pc] + ToPost + At(Printer, Fetching) = InQueues)'
    <3> DEFINE s == sem'[sync_pc]
               T == ToPost'
               F == At(Printer, Fetching)'
               Q == InQueues'
    <3>1. s \in Int /\ T \in Int /\ F \in Int /\ Q \in Int
      BY <2>1, DriftTypesNext
    <3>2. s + T + F - Q = 0
      BY <2>3, <2>4 DEF Drift
    <3> HIDE DEF s, T, F, Q
    <3>3. s + T + F = Q
      BY <3>1, <3>2
    <3> QED BY <3>3 DEF s, T, F, Q
  <2> QED BY <2>2, <2>4 DEF SyncInv
<1>3. IInv /\ SyncInv => SyncAccounting
  <2> SUFFICES ASSUME TypeOK, SyncInv, ~Cancelled
               PROVE  sem[sync_pc] + ToPost + At(Printer, Fetching) = Waiting
    BY ToPostIs DEF IInv, SyncAccounting, Fetching
  <2> QED BY WaitingIs DEF SyncInv
<1> QED BY <1>1, <1>2, <1>3, PTL DEF Spec

-----------------------------------------------------------------------------
(* Batches.                                                                *)


(* sync_pc never counts more than the messages of the queues.              *)
LEMMA DriftStep ==
  ASSUME IInv, [Next]_vars, ~Cancelled => Drift <= 0
  PROVE  (~Cancelled => Drift <= 0)'
<1> SUFFICES ASSUME ~Cancelled' PROVE Drift' <= 0
  OBVIOUS
<1>1. TypeOK /\ TypeOK' /\ ~Cancelled /\ Drift <= 0
  BY TypeStep, Phases DEF IInv
<1>2. CASE ~PrinterSemInit
  BY <1>1, <1>2, SyncStep
<1>3. CASE PrinterSemInit
  <2>1. Goto(Printer, "top") /\ pc[Printer] = "sem_init" /\ buf' = buf
    BY <1>3 DEF PrinterSemInit, Step, Goto
  <2>2. sem'[sync_pc] = sem[sync_pc] + (-sem[sync_pc])
    <3>1. sem \in [Semaphore -> Nat] /\ sync_pc \in Semaphore
      BY <1>1, Keys DEF TypeOK
    <3>2. sem'[sync_pc] = 0
      BY <1>3, <3>1 DEF PrinterSemInit
    <3>3. sem[sync_pc] \in Nat
      BY <3>1
    <3> QED BY <3>2, <3>3
  <2>3. \A i \in Comm : Len(buf'[i]) = Len(buf[i]) /\ At(i, Posting)' = At(i, Posting)
    <3>1. \A i \in Comm : pc'[i] = pc[i]
      <4>1. PICK P : pc \in [Thread -> P] BY <1>1 DEF TypeOK
      <4> QED BY <2>1, <4>1, Threads DEF Goto
    <3> QED BY <2>1, <3>1 DEF At
  <2>4. InQueues' = InQueues /\ ToPost' = ToPost
    BY <2>3 DEF InQueues, ToPost, Lengths, Unposted
  <2>5. At(Printer, Fetching) = 0 /\ At(Printer, Fetching)' = 0
    <3>1. PICK P : pc \in [Thread -> P] BY <1>1 DEF TypeOK
    <3>2. pc'[Printer] = "top"
      BY <2>1, <3>1, Threads DEF Goto
    <3> QED BY <2>1, <3>2 DEF At, Fetching
  <2>6. sem[sync_pc] \in Nat /\ ToPost \in Int /\ InQueues \in Int
    BY <1>1, DriftTypes
  <2> QED BY <1>1, <2>2, <2>4, <2>5, <2>6 DEF Drift
<1> QED BY <1>2, <1>3

(* The printer thread goes round: where it comes from, and what of its     *)
(* snapshot it changes on the way.                                         *)
ToScan == {"wait_sync", "wait_busy", "repost"}
LEMMA Rounds ==
  ASSUME TypeOK, [Next]_vars
  PROVE  /\ pc'[Printer] \in ToScan =>
              pq' = 1 \/ (pc[Printer] \in ToScan /\ pq' = pq)
         /\ pc'[Printer] = "scan" =>
              \/ pc[Printer] = "scan" /\ batch' = batch
              \/ PrinterScan
              \/ pc[Printer] = "repost" /\ batch' = batch /\ buf' = buf
         /\ pc[Printer] = "scan" /\ pc'[Printer] # "scan" => PrinterScan
<1> DEFINE Goal == /\ pc'[Printer] \in ToScan =>
                        pq' = 1 \/ (pc[Printer] \in ToScan /\ pq' = pq)
                   /\ pc'[Printer] = "scan" =>
                        \/ pc[Printer] = "scan" /\ batch' = batch
                        \/ PrinterScan
                        \/ pc[Printer] = "repost" /\ batch' = batch /\ buf' = buf
                   /\ pc[Printer] = "scan" /\ pc'[Printer] # "scan" => PrinterScan
<1>0. Flat
  BY FlatNext
<1>1. PICK P : pc \in [Thread -> P] BY DEF TypeOK
<1> USE <1>1, Threads DEF Step, Point, Move, SemWait, SemPost, data, batch, ToScan
<1>2. ASSUME pc'[Printer] = pc[Printer], batch' = batch PROVE Goal
  BY <1>2
<1>3. ASSUME NEW t \in Queue, Produce(t) PROVE Goal
  BY <1>2, <1>3 DEF Produce, WaitEmpty, Lock, Enqueue, Unlock, PostFull
<1>4. ASSUME NEW q \in Queue, Consume(Printer, q) PROVE Goal
  BY <1>4 DEF Consume, WaitFull, LockFull, Dequeue, UnlockFull, PostEmpty, AfterConsume
<1>5. ASSUME NEW t \in Comm, NEW q \in Queue, Consume(t, q) PROVE Goal
  BY <1>2, <1>5 DEF Consume, WaitFull, LockFull, Dequeue, UnlockFull, PostEmpty
<1>6. \A t \in Thread, q \in Queue : Takes(t, q) => t = Printer \/ t \in Comm
  BY DEF Takes, Consumers
<1>7. ASSUME NEW i \in Comm,
             \/ CommLoop(i) \/ CommRead(i) \/ CommDisconnect(i) \/ CommReadError(i)
             \/ WriteMsg(i) \/ CommPostSync(i) \/ CommDies(i) \/ CommCorrupts(i)
      PROVE  Goal
  BY <1>2, <1>7 DEF CommLoop, CommRead, CommDisconnect, CommReadError, WriteMsg,
     CommPostSync, CommDies, CommCorrupts
<1>8. ASSUME \/ \E i \in Comm : PrinterTake(i)
             \/ PrinterMkdir \/ PrinterSemInit \/ PrinterTop \/ PrinterPrint
             \/ PrinterRemove \/ PrinterFinish \/ PrinterDies
      PROVE  Goal
  BY <1>8 DEF PrinterTake, PrinterMkdir, PrinterSemInit, PrinterTop, PrinterPrint,
     PrinterRemove, PrinterFinish, PrinterDies
<1>9. ASSUME PrinterWaitSync \/ PrinterWaitBusy \/ PrinterRepost \/ PrinterScan PROVE Goal
  BY <1>9 DEF PrinterWaitSync, PrinterWaitBusy, PrinterRepost, PrinterScan
<1>10. ASSUME NEW c \in Client, Accept(c) PROVE Goal
  BY <1>2, <1>10 DEF Accept
<1>11. ASSUME Sigint \/ HandlerNext \/ AgainNext \/ ClientNext \/ UNCHANGED vars PROVE Goal
  BY <1>2, <1>11 DEF Sigint, AgainNext, SigintAgain, AgainWaitBusy, AgainExit,
     HandlerNext, HandlerWaitBusy, HandlerCancel, FinalCheckPrint,
     FinalCheckNext, HandlerDestroy, HandlerExit, ClientNext, ClientSend, ClientClose,
     ClientReset, vars
<1> QED BY <1>0, <1>3, <1>4, <1>5, <1>6, <1>7, <1>8, <1>9, <1>10, <1>11 DEF Flat

(* While it takes its snapshot no message queue gets empty.                *)
LEMMA StaysFull ==
  ASSUME IInv, [Next]_vars, pc[Printer] = "scan", NEW i \in Comm, buf[i] # <<>>
  PROVE  buf'[i] # <<>>
<1>0. TypeOK /\ ~Cancelled
  BY NotYetCancelled DEF IInv, InBatch
<1>1. Flat
  BY <1>0, FlatNext
<1>2. /\ buf \in [Queue -> Seq(Client \union PrintMsg)] /\ Comm \subseteq Queue
      /\ ConnQ \notin Comm /\ i \in Comm
      /\ item \in [Thread -> Client \union PrintMsg \union {Nil}]
  BY <1>0, Threads DEF TypeOK
<1> USE DEF Step, Point, Move, SemWait, SemPost
<1>3. ASSUME NEW t \in Queue, Produce(t) PROVE buf'[i] # <<>>
  <2>1. CASE ~Enqueue(t)
    BY <1>3, <2>1 DEF Produce, WaitEmpty, Lock, Unlock, PostFull
  <2>2. CASE Enqueue(t)
    <3>1. CASE buf' = buf
      BY <3>1
    <3>2. CASE buf' = [buf EXCEPT ![t] = Append(@, item[t])]
      <4>1. CASE i = t
        <5>1. buf'[i] = Append(buf[i], item[t])
          BY <1>2, <3>2, <4>1
        <5> QED BY <5>1, <1>2
      <4>2. CASE i # t
        BY <1>2, <3>2, <4>2
      <4> QED BY <4>1, <4>2
    <3> QED BY <2>2, <3>1, <3>2 DEF Enqueue
  <2> QED BY <2>1, <2>2
<1>4. ASSUME NEW t \in Thread, NEW q \in Queue, Takes(t, q), Consume(t, q)
      PROVE  buf'[i] # <<>>
  <2>1. CASE ~Dequeue(t, q)
    BY <1>4, <2>1 DEF Consume, WaitFull, LockFull, UnlockFull, PostEmpty
  <2>2. CASE Dequeue(t, q)
    <3>1. t # Printer
      BY <2>2 DEF Dequeue
    <3>2. q \notin Comm
      BY <1>2, <1>4, <3>1, Threads DEF Takes, Consumers
    <3> QED BY <1>2, <2>2, <3>2 DEF Dequeue
  <2> QED BY <2>1, <2>2
<1>5. ASSUME NEW c \in Client, Accept(c) PROVE buf' = buf
  BY <1>5 DEF Accept
<1>6. ASSUME NEW k \in Comm,
             \/ CommLoop(k) \/ CommRead(k) \/ CommDisconnect(k) \/ CommReadError(k)
             \/ WriteMsg(k) \/ CommPostSync(k) \/ CommDies(k) \/ CommCorrupts(k)
             \/ PrinterTake(k)
      PROVE  buf' = buf
  BY <1>6 DEF CommLoop, CommRead, CommDisconnect, CommReadError, WriteMsg, CommPostSync,
     CommDies, CommCorrupts, PrinterTake
<1>7. ASSUME \/ PrinterMkdir \/ PrinterSemInit \/ PrinterTop \/ PrinterWaitSync
             \/ PrinterWaitBusy \/ PrinterRepost \/ PrinterScan \/ PrinterPrint
             \/ PrinterRemove \/ PrinterFinish \/ PrinterDies
      PROVE  buf' = buf
  BY <1>7 DEF PrinterMkdir, PrinterSemInit, PrinterTop, PrinterWaitSync, PrinterWaitBusy,
     PrinterRepost, PrinterScan, PrinterPrint, PrinterRemove, PrinterFinish, PrinterDies
<1>8. ASSUME Sigint \/ HandlerNext \/ AgainNext \/ ClientNext \/ UNCHANGED vars PROVE buf' = buf
  BY <1>0, <1>8 DEF Sigint, AgainNext, SigintAgain, AgainWaitBusy, AgainExit,
     HandlerNext, HandlerWaitBusy, HandlerCancel, FinalCheckPrint,
     FinalCheckNext, HandlerDestroy, HandlerExit, ClientNext, ClientSend, ClientClose,
     ClientReset, vars, Cancelled
<1> QED BY <1>1, <1>3, <1>4, <1>5, <1>6, <1>7, <1>8 DEF Flat

(* Where sync_pc has let the printer thread through, a message is in a     *)
(* queue.                                                                  *)
LEMMA SomethingWaits ==
  ASSUME TypeOK, Drift <= 0, At(Printer, Fetching) = 1
  PROVE  \E i \in Comm : buf[i] # <<>>
<1>1. sem[sync_pc] \in Nat /\ InQueues \in Int
  BY DriftTypes
<1>2. ToPost \in Nat
  <2>1. \A i \in Comm : Unposted[i] \in Nat
    BY DEF Unposted, At
  <2> QED BY <2>1, CommFinite, TotalPositive DEF ToPost
<1>3. InQueues > 0
  BY <1>1, <1>2 DEF Drift
<1>4. \A i \in Comm : Lengths[i] \in Nat
  BY Threads DEF Lengths, TypeOK
<1>5. PICK i \in Comm : Lengths[i] > 0
  BY <1>3, <1>4, CommFinite, TotalPositive DEF InQueues
<1>6. Len(buf[i]) > 0
  BY <1>5 DEF Lengths
<1> QED BY <1>6

(* What makes a batch find something: the printer thread starts its        *)
(* snapshot at the first queue with a message in some queue, and what it   *)
(* has not seen of it is still there.                                      *)
Found ==
  \/ \E i \in Comm : i < pq /\ queueLens[i] > 0
  \/ \E i \in Comm : i >= pq /\ buf[i] # <<>>
BatchInv ==
  /\ ~Cancelled => Drift <= 0
  /\ pc[Printer] \in ToScan => pq = 1
  /\ pc[Printer] = "scan" => Found

(* The queue it looks at is counted in the snapshot.                       *)
LEMMA ScanFinds ==
  ASSUME TypeOK, PrinterScan, Found
  PROVE  IF pq + 1 \in Comm THEN Found' ELSE \E i \in Comm : queueLens'[i] > 0
<1>1. /\ queueLens' = [queueLens EXCEPT ![pq] = Len(buf[pq])]
      /\ pq' = IF pq + 1 \in Comm THEN pq + 1 ELSE 1
      /\ buf' = buf
  BY DEF PrinterScan
<1>2. /\ queueLens \in [Comm -> Nat] /\ pq \in Comm
      /\ \A i \in Comm : i \in Nat /\ Len(buf[i]) \in Nat /\ (buf[i] # <<>> => Len(buf[i]) > 0)
  <2>1. \A i \in Comm : buf[i] \in Seq(Client \union PrintMsg)
    BY Threads DEF TypeOK
  <2>2. ASSUME NEW s \in Seq(Client \union PrintMsg)
        PROVE  Len(s) \in Nat /\ (s # <<>> => Len(s) > 0)
    OBVIOUS
  <2> QED BY <2>1, <2>2, CapacityAssumption DEF TypeOK, Comm
<1>3. CASE \E i \in Comm : i < pq /\ queueLens[i] > 0
  <2>1. PICK i \in Comm : i < pq /\ queueLens[i] > 0
    BY <1>3
  <2>2. queueLens'[i] > 0
    BY <1>1, <1>2, <2>1
  <2> QED BY <1>1, <1>2, <2>1, <2>2 DEF Found
<1>4. CASE \E i \in Comm : i >= pq /\ buf[i] # <<>>
  <2>1. PICK i \in Comm : i >= pq /\ buf[i] # <<>>
    BY <1>4
  <2>2. CASE i = pq
    <3>1. queueLens'[i] = Len(buf[i]) /\ Len(buf[i]) > 0
      BY <1>1, <1>2, <2>1, <2>2
    <3> QED BY <1>1, <1>2, <2>2, <3>1 DEF Found
  <2>3. CASE i # pq
    <3>1. pq + 1 \in Comm /\ i >= pq + 1
      BY <1>2, <2>1, <2>3, CapacityAssumption DEF Comm
    <3> QED BY <1>1, <2>1, <3>1 DEF Found
  <2> QED BY <2>2, <2>3
<1> QED BY <1>3, <1>4 DEF Found

(* Every step keeps it.                                                    *)
LEMMA BatchStep == IInv /\ BatchInv /\ [Next]_vars => BatchInv'
<1> SUFFICES ASSUME IInv, BatchInv, [Next]_vars PROVE BatchInv'
  OBVIOUS
<1>1. TypeOK
  BY DEF IInv
<1>2. (~Cancelled => Drift <= 0)'
  BY DriftStep DEF BatchInv
<1>3. (pc[Printer] \in ToScan => pq = 1)'
  BY <1>1, Rounds DEF BatchInv
<1>4. ASSUME pc'[Printer] = "scan" PROVE Found'
  <2>1. CASE pc[Printer] = "scan" /\ batch' = batch
    <3>1. pq' = pq /\ queueLens' = queueLens
      BY <2>1 DEF batch
    <3>2. \A i \in Comm : buf[i] # <<>> => buf'[i] # <<>>
      BY <2>1, StaysFull
    <3> QED BY <2>1, <3>1, <3>2 DEF BatchInv, Found
  <2>2. CASE PrinterScan
    <3>1. pc[Printer] = "scan" /\ pc'[Printer] = IF pq + 1 \in Comm THEN "scan" ELSE "take"
      <4>1. PICK P : pc \in [Thread -> P] BY <1>1 DEF TypeOK
      <4> QED BY <2>2, <4>1, Threads DEF PrinterScan, Step
    <3>2. pq + 1 \in Comm
      BY <1>4, <3>1
    <3> QED BY <1>1, <2>2, <3>1, <3>2, ScanFinds DEF BatchInv
  <2>3. CASE pc[Printer] = "repost" /\ batch' = batch /\ buf' = buf
    <3>1. pq = 1 /\ ~Cancelled
      BY <2>3, NotYetCancelled DEF BatchInv, ToScan, InBatch, IInv
    <3>2. Drift <= 0 /\ At(Printer, Fetching) = 1
      BY <2>3, <3>1 DEF BatchInv, At, Fetching
    <3>3. PICK i \in Comm : buf[i] # <<>>
      BY <1>1, <3>2, SomethingWaits
    <3>4. pq' = 1 /\ i >= 1 /\ buf'[i] # <<>>
      BY <2>3, <3>1, <3>3, CapacityAssumption DEF batch, Comm
    <3> QED BY <3>4 DEF Found
  <2> QED BY <1>1, <1>4, <2>1, <2>2, <2>3, Rounds
<1> QED BY <1>2, <1>3, <1>4 DEF BatchInv

(* A batch finds something to print, wherever SIGINT comes and whatever    *)
(* printer_init drops: the printer thread never goes round for nothing.    *)
THEOREM BatchesFind == Spec => NoEmptyBatch
<1>1. Init => IInv /\ BatchInv
  <2> SUFFICES ASSUME Init PROVE BatchInv
    BY InitInv
  <2>1. /\ pc[Printer] \notin ToScan /\ pc[Printer] # "scan" /\ pc[Printer] \notin Fetching
        /\ \A i \in Comm : pc[i] = "outer" /\ buf[i] = <<>>
    BY Threads DEF Init, ToScan, Fetching
  <2>2. InQueues = 0
    <3>1. \A i \in Comm : Lengths[i] = 0
      BY <2>1 DEF Lengths
    <3> QED BY <3>1, CommFinite, TotalZero DEF InQueues
  <2>3. ToPost = 0
    <3>1. \A i \in Comm : Unposted[i] = 0
      BY <2>1 DEF Unposted, At, Posting
    <3> QED BY <3>1, CommFinite, TotalZero DEF ToPost
  <2>4. sem[sync_pc] = 0
    BY Keys DEF Init, sync_pc
  <2>5. At(Printer, Fetching) = 0
    BY <2>1 DEF At
  <2> QED BY <2>1, <2>2, <2>3, <2>4, <2>5 DEF BatchInv, Drift
<1>2. IInv /\ BatchInv /\ [Next]_vars => IInv' /\ BatchInv'
  BY IInvStep, BatchStep
<1>3. ASSUME IInv, BatchInv, [Next]_vars, pc[Printer] = "scan", pc'[Printer] = "take"
      PROVE  \E i \in Comm : queueLens'[i] > 0
  <2>1. TypeOK
    BY <1>3 DEF IInv
  <2>2. PrinterScan
    BY <1>3, <2>1, Rounds
  <2>3. pq + 1 \notin Comm
    <3>1. PICK P : pc \in [Thread -> P] BY <2>1 DEF TypeOK
    <3> QED BY <1>3, <2>2, <3>1, Threads DEF PrinterScan, Step
  <2> QED BY <1>3, <2>1, <2>2, <2>3, ScanFinds DEF BatchInv
<1>4. IInv /\ BatchInv /\ [Next]_vars
        => [pc[Printer] = "scan" /\ pc'[Printer] = "take"
              => \E i \in Comm : queueLens'[i] > 0]_vars
  BY <1>3
<1> QED BY <1>1, <1>2, <1>4, PTL DEF Spec, NoEmptyBatch
=============================================================================
