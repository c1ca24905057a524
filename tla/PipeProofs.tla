----------------------------- MODULE PipeProofs -----------------------------
(***************************************************************************)
(* Theorems about Pipe: whatever the two processes do, in any order, and   *)
(* whichever of them is killed, the page of a process is what it printed in*)
(* this run, and the directory lags behind by what is still in the pipe.   *)
(*                                                                         *)
(* The argument: number the records of a process in the order they are     *)
(* sent, 0 for INIT_SPOOL, n for the n-th PRINT_REQ, and one more than its *)
(* chunks for END_SPOOL (Rank).  Those that are not handled yet are then of*)
(* consecutive numbers `low' to Top(p), in this order, each once (Pend), and*)
(* its file and page are what the ones below `low' leave: no file and no   *)
(* page (Waits), a file of the first low - 1 chunks (Open), a file and a   *)
(* page of all of them (Closing), or only the page (Done).  Every step of  *)
(* the computer adds a record at the end, one of the printer takes the     *)
(* first and moves `low' on.                                               *)
(***************************************************************************)
EXTENDS Pipe, Induction, FiniteSetTheorems, TLAPS

-----------------------------------------------------------------------------
(* Types.                                                                  *)
Work == {"INIT_SPOOL", "PRINT_REQ", "END_SPOOL"}
TermRecord == Record(0, "PRINT_TERM", NoChunk)
Sent == [pid : PID, type : Work, chunk : Chunk] \union {TermRecord}
PageType == [pid : PID, text : Seq(Chunk), partial : BOOLEAN]
Handling == Work \union {"PRINT_TERM"}

ControlOK ==
  /\ pc \in {"off", "down", "ack", "run", "print", "waitpid"}
  /\ printer \in Handling \union {"none", "killed", "init", "read", "remove"}
  /\ run \in 0 .. MaxRuns /\ next \in 2 .. MaxPID + 1 /\ alive \subseteq 2 .. next - 1
  /\ answer \in {"none", "PRINT_ACK", "TERMINATE"}

PrintedOK ==
  /\ printed \in [PID -> Seq(Chunk)] /\ \A p \in PID : Len(printed[p]) <= MaxChunks
  /\ pc = "print" => /\ job.pid \in alive /\ job.left \in Nat \ {0}
                     /\ Len(printed[job.pid]) + job.left <= MaxChunks

RecordsOK ==
  /\ pipe \in Seq(Sent) /\ Len(pipe) <= Slots /\ msg \in Sent \union {NoRecord}
  /\ printer \in Handling => msg.type = printer
  /\ printer = "remove" => msg.type = "END_SPOOL"

DiskOK ==
  /\ spool = NoDir \/ \E D \in SUBSET PID : spool \in [D -> Seq(Chunk)]
  /\ printer \in Handling \union {"read", "remove"} => spool # NoDir
  /\ paper \in Seq(PageType)

Types == ControlOK /\ PrintedOK /\ RecordsOK /\ DiskOK

LEMMA Constants ==
  /\ MaxPID \in Nat \ {0, 1} /\ MaxChunks \in Nat /\ MaxRuns \in Nat /\ Slots \in Nat \ {0}
  /\ 0 \notin PID /\ PID \subseteq Nat
  /\ NoChunk \in Chunk /\ \A p \in PID : Stray(p) \in Chunk
BY PipeAssumption DEF PID, NoChunk, Chunk, Stray

LEMMA TypesIsType == Types => TypeOK
<1> SUFFICES ASSUME Types PROVE TypeOK
  OBVIOUS
<1>1. alive \subseteq PID
  BY Constants DEF Types, ControlOK, PID
<1>2. Sent \subseteq [pid : PID \union {0}, type : MsgType, chunk : Chunk]
  BY Constants DEF Sent, TermRecord, Record, MsgType, Work
<1>3. pipe \in Seq([pid : PID \union {0}, type : MsgType, chunk : Chunk])
  <2> DEFINE T == [pid : PID \union {0}, type : MsgType, chunk : Chunk]
  <2>1. Sent \subseteq T /\ pipe \in Seq(Sent)
    BY <1>2 DEF Types, RecordsOK
  <2> HIDE DEF T
  <2>2. pipe \in Seq(T)
    BY <2>1
  <2> QED BY <2>2 DEF T
<1>4. \/ spool = NoDir
      \/ DOMAIN spool \subseteq PID /\ \A p \in DOMAIN spool : spool[p] \in Seq(Chunk)
  BY DEF Types, DiskOK
<1> QED BY <1>1, <1>3, <1>4
        DEF Types, ControlOK, PrintedOK, RecordsOK, DiskOK, TypeOK, MsgType, Handling, Work,
            PageType

LEMMA Records ==
  /\ \A p \in PID, c \in Chunk : /\ Record(p, "INIT_SPOOL", c) \in Sent
                                 /\ Record(p, "PRINT_REQ", c) \in Sent
                                 /\ Record(p, "END_SPOOL", c) \in Sent
  /\ TermRecord \in Sent /\ TermRecord # NoRecord
  /\ \A r \in Sent : r.type \in Handling
  /\ TermRecord.pid = 0 /\ TermRecord.type = "PRINT_TERM"
  /\ NoRecord.pid = 0 /\ NoRecord.type = "PRINT_ACK"
BY Constants DEF Sent, TermRecord, NoRecord, Record, Work, Handling

LEMMA WorkRecord ==
  ASSUME NEW r \in Sent \union {NoRecord}, r.type \in Work
  PROVE  r.pid \in PID /\ r.chunk \in Chunk
BY DEF Sent, TermRecord, NoRecord, Record, Work

(* What is written to a file.                                              *)
LEMMA BytesType ==
  ASSUME NEW r, r.chunk \in Chunk, r.pid \in PID
  PROVE  Bytes(r) \in Seq(Chunk)
<1> DEFINE a == r.chunk
           b == Stray(r.pid)
<1>1. a \in Chunk /\ b \in Chunk
  BY Constants
<1>2. Bytes(r) = IF a.full THEN <<a, b>> ELSE <<a>>
  BY DEF Bytes
<1> HIDE DEF a, b
<1>3. <<a, b>> \in Seq(Chunk) /\ <<a>> \in Seq(Chunk)
  BY <1>1
<1> QED BY <1>2, <1>3

LEMMA PutFacts ==
  ASSUME NEW D \in SUBSET PID, spool \in [D -> Seq(Chunk)], NEW p \in PID, NEW text \in Seq(Chunk)
  PROVE  /\ Put(p, text) \in [D \union {p} -> Seq(Chunk)] /\ Put(p, text)[p] = text
         /\ Put(p, text) # NoDir
         /\ \A q \in D : q # p => Put(p, text)[q] = spool[q]
<1>1. Put(p, text) \in [D \union {p} -> Seq(Chunk)]
  BY DEF Put
<1>2. D \union {p} \in SUBSET PID
  OBVIOUS
<1>3. Put(p, text) # NoDir
  BY <1>1, <1>2, PipeAssumption
<1> QED BY <1>1, <1>3 DEF Put

LEMMA WithoutFacts ==
  ASSUME NEW D \in SUBSET PID, spool \in [D -> Seq(Chunk)], NEW p
  PROVE  /\ Without(spool, p) \in [D \ {p} -> Seq(Chunk)] /\ Without(spool, p) # NoDir
         /\ \A q \in D \ {p} : Without(spool, p)[q] = spool[q]
<1>1. Without(spool, p) \in [D \ {p} -> Seq(Chunk)]
  BY DEF Without
<1>2. D \ {p} \in SUBSET PID
  OBVIOUS
<1>3. Without(spool, p) # NoDir
  BY <1>1, <1>2, PipeAssumption
<1> QED BY <1>1, <1>3 DEF Without

LEMMA NoFilesFacts == NoFiles \in [{} -> Seq(Chunk)] /\ NoFiles # NoDir /\ DOMAIN NoFiles = {}
<1>1. NoFiles \in [{} -> Seq(Chunk)]
  BY DEF NoFiles
<1> QED BY <1>1, PipeAssumption DEF NoFiles

LEMMA WriteFacts ==
  ASSUME RecordsOK, NEW r \in Sent, Write(r)
  PROVE  pipe' \in Seq(Sent) /\ Len(pipe') <= Slots /\ Len(pipe') = Len(pipe) + 1
<1>1. pipe' = Append(pipe, r) /\ pipe \in Seq(Sent) /\ Len(pipe) < Slots /\ Slots \in Nat
  BY Constants DEF RecordsOK, Write
<1> QED BY <1>1

LEMMA TypesInit == Init => Types
<1> SUFFICES ASSUME Init PROVE Types
  OBVIOUS
<1>1. ControlOK /\ RecordsOK /\ DiskOK
  BY Constants, Records DEF Init, ControlOK, RecordsOK, DiskOK, Handling, Work
<1>2. PrintedOK
  BY Constants DEF Init, PrintedOK
<1> QED BY <1>1, <1>2 DEF Types

(* The steps of the computer write well-formed records.                    *)
LEMMA TypesComputer ==
  ASSUME Types, Computer \/ KillComputer
  PROVE  Types'
<1>0. /\ ControlOK /\ PrintedOK /\ RecordsOK /\ DiskOK
      /\ MaxPID \in Nat \ {0, 1} /\ MaxChunks \in Nat /\ MaxRuns \in Nat
  BY Constants DEF Types
<1> USE <1>0
<1>1. ASSUME Start PROVE Types'
  <2>1. ControlOK'
    BY <1>1 DEF Start, ControlOK
  <2>2. PrintedOK'
    BY <1>1 DEF Start, PrintedOK
  <2>3. RecordsOK'
    BY <1>1, Records, Constants DEF Start, RecordsOK, Handling, Work
  <2>4. DiskOK'
    BY <1>1 DEF Start, DiskOK, disk, Handling, Work
  <2> QED BY <2>1, <2>2, <2>3, <2>4 DEF Types
<1>2. ASSUME ReadAck \/ PowerOff \/ WaitPID \/ KillComputer PROVE Types'
  <2>1. ControlOK'
    BY <1>2 DEF ReadAck, PowerOff, WaitPID, KillComputer, ControlOK, child, Goes
  <2>2. PrintedOK'
    BY <1>2 DEF ReadAck, PowerOff, WaitPID, KillComputer, PrintedOK, Goes
  <2>3. RecordsOK'
    <3>1. CASE UNCHANGED pipe
      BY <1>2, <3>1 DEF ReadAck, PowerOff, WaitPID, KillComputer, RecordsOK, child
    <3>2. CASE PowerOff
      <4>1. Write(TermRecord) /\ UNCHANGED child
        BY <3>2 DEF PowerOff, TermRecord
      <4> QED BY <4>1, Records, WriteFacts DEF RecordsOK, child
    <3> QED BY <1>2, <3>1, <3>2 DEF ReadAck, WaitPID, KillComputer
  <2>4. DiskOK'
    BY <1>2 DEF ReadAck, PowerOff, WaitPID, KillComputer, DiskOK, disk, child
  <2> QED BY <2>1, <2>2, <2>3, <2>4 DEF Types
<1>3. ASSUME Load PROVE Types'
  <2>1. next \in PID /\ next' = next + 1 /\ alive' = alive \union {next} /\ pc' = pc /\ pc = "run"
    BY <1>3 DEF Load
  <2>2. next' \in 2 .. MaxPID + 1 /\ alive' \subseteq 2 .. next' - 1
    BY <2>1 DEF ControlOK, PID
  <2>3. ControlOK'
    BY <1>3, <2>1, <2>2 DEF Load, ControlOK, child
  <2>4. PrintedOK'
    BY <1>3 DEF Load, PrintedOK
  <2>5. RecordsOK'
    <3>1. Write(Record(next, "INIT_SPOOL", NoChunk)) /\ UNCHANGED child
      BY <1>3 DEF Load
    <3>2. Record(next, "INIT_SPOOL", NoChunk) \in Sent
      BY <2>1, Records, Constants
    <3> QED BY <3>1, <3>2, WriteFacts DEF RecordsOK, child
  <2>6. DiskOK'
    BY <1>3 DEF Load, DiskOK, disk, child
  <2> QED BY <2>3, <2>4, <2>5, <2>6 DEF Types
<1>4. ASSUME PrintText PROVE Types'
  <2>0. PICK p \in alive :
          \E n \in 1 .. MaxChunks - Len(printed[p]) : job' = [pid |-> p, left |-> n]
    BY <1>4 DEF PrintText
  <2>1. PICK n \in 1 .. MaxChunks - Len(printed[p]) : job' = [pid |-> p, left |-> n]
    BY <2>0
  <2>2. p \in PID
    BY DEF ControlOK, PID
  <2>3. PrintedOK'
    BY <1>4, <2>1, <2>2 DEF PrintText, PrintedOK
  <2>4. ControlOK' /\ RecordsOK' /\ DiskOK'
    BY <1>4 DEF PrintText, ControlOK, RecordsOK, DiskOK, disk, child, Goes
  <2> QED BY <2>3, <2>4 DEF Types
<1>5. ASSUME PrintChunk PROVE Types'
  <2> DEFINE p == job.pid
  <2>1. PICK full \in BOOLEAN :
          LET c == [run |-> run, n |-> Len(printed[p]) + 1, full |-> full]
          IN  /\ Goes("print", IF job.left = 1 THEN "run" ELSE "print")
              /\ Write(Record(p, "PRINT_REQ", c))
              /\ printed' = [printed EXCEPT ![p] = Append(@, c)]
              /\ job' = IF job.left = 1 THEN NoJob ELSE [job EXCEPT !.left = @ - 1]
              /\ UNCHANGED <<run, next, alive, answer, child, disk>>
    BY <1>5 DEF PrintChunk
  <2> DEFINE c == [run |-> run, n |-> Len(printed[p]) + 1, full |-> full]
             chunks == Append(printed[p], c)
  <2>2. /\ pc = "print" /\ p \in alive /\ p \in PID /\ job.left \in Nat \ {0}
        /\ Len(printed[p]) + job.left <= MaxChunks /\ printed \in [PID -> Seq(Chunk)]
    BY <2>1 DEF Goes, PrintedOK, ControlOK, PID
  <2>3. c \in Chunk
    BY <2>2 DEF Chunk, ControlOK
  <2>4. /\ Goes("print", IF job.left = 1 THEN "run" ELSE "print")
        /\ Write(Record(p, "PRINT_REQ", c))
        /\ printed' = [printed EXCEPT ![p] = chunks]
        /\ job' = IF job.left = 1 THEN NoJob ELSE [job EXCEPT !.left = @ - 1]
        /\ UNCHANGED <<run, next, alive, answer, child, disk>>
    BY <2>1
  <2>5. Record(p, "PRINT_REQ", c) \in Sent
    BY <2>2, <2>3, Records
  <2> HIDE DEF c
  <2>6. chunks \in Seq(Chunk) /\ Len(chunks) = Len(printed[p]) + 1
    BY <2>2, <2>3
  <2> HIDE DEF chunks
  <2>7. PrintedOK'
    <3>1. printed' \in [PID -> Seq(Chunk)] /\ \A q \in PID : Len(printed'[q]) <= MaxChunks
      <4>1. Len(chunks) <= MaxChunks
        BY <2>2, <2>6
      <4> QED BY <2>2, <2>4, <2>6, <4>1 DEF PrintedOK
    <3>2. CASE job.left = 1
      BY <2>4, <3>1, <3>2 DEF PrintedOK, Goes
    <3>3. CASE job.left # 1
      <4>1. job'.pid = p /\ job'.left = job.left - 1
        <5>1. job' = [job EXCEPT !.left = @ - 1]
          BY <2>4, <3>3
        <5> QED BY <5>1
      <4>2. printed'[p] = chunks
        BY <2>2, <2>4
      <4> QED BY <2>2, <2>4, <2>6, <3>1, <3>3, <4>1, <4>2, SMTT(30) DEF PrintedOK
    <3> QED BY <3>2, <3>3
  <2>8. ControlOK'
    BY <2>4 DEF ControlOK, Goes, child
  <2>9. RecordsOK'
    BY <2>4, <2>5, WriteFacts DEF RecordsOK, child
  <2>10. DiskOK'
    BY <2>4 DEF DiskOK, disk, child
  <2> QED BY <2>7, <2>8, <2>9, <2>10 DEF Types
<1>6. ASSUME Exit PROVE Types'
  <2>1. PICK p \in alive : Write(Record(p, "END_SPOOL", NoChunk)) /\ alive' = alive \ {p}
    BY <1>6 DEF Exit
  <2>2. p \in PID
    BY DEF ControlOK, PID
  <2>3. RecordsOK'
    <3>1. Record(p, "END_SPOOL", NoChunk) \in Sent
      BY <2>2, Records, Constants
    <3> QED BY <1>6, <2>1, <3>1, WriteFacts DEF Exit, RecordsOK, child
  <2>4. ControlOK' /\ PrintedOK' /\ DiskOK'
    BY <1>6, <2>1 DEF Exit, ControlOK, PrintedOK, DiskOK, disk, child
  <2> QED BY <2>3, <2>4 DEF Types
<1> QED BY <1>1, <1>2, <1>3, <1>4, <1>5, <1>6 DEF Computer

(* A page has a text.                                                      *)
LEMMA PageFacts ==
  ASSUME DiskOK, NEW D \in SUBSET PID, spool \in [D -> Seq(Chunk)], NEW p \in D, NEW b \in BOOLEAN
  PROVE  Page(p, b) \in Seq(PageType)
<1> DEFINE pg == [pid |-> p, text |-> spool[p], partial |-> b]
<1>1. pg \in PageType
  BY DEF PageType
<1>2. Page(p, b) = Append(paper, pg) /\ paper \in Seq(PageType)
  BY DEF Page, DiskOK
<1> HIDE DEF pg
<1> QED BY <1>1, <1>2

LEMMA TypesPrinter ==
  ASSUME Types, Printer \/ KillPrinter
  PROVE  Types'
<1>0. /\ ControlOK /\ PrintedOK /\ RecordsOK /\ DiskOK
  BY DEF Types
<1> USE <1>0
<1>1. ASSUME PrinterInit PROVE Types'
  <2>1. ControlOK' /\ PrintedOK'
    BY <1>1 DEF PrinterInit, ControlOK, PrintedOK, computer
  <2>2. RecordsOK'
    BY <1>1 DEF PrinterInit, RecordsOK, Handling, Work
  <2>3. DiskOK'
    <3>1. CASE printer' = "read" /\ paper' = <<>> /\ spool' = NoFiles
      <4>1. {} \in SUBSET PID /\ spool' \in [{} -> Seq(Chunk)] /\ spool' # NoDir
        BY <3>1, NoFilesFacts
      <4>2. paper' \in Seq(PageType)
        <5>1. <<>> \in Seq(PageType)
          OBVIOUS
        <5> QED BY <3>1, <5>1
      <4>3. \E D \in SUBSET PID : spool' \in [D -> Seq(Chunk)]
        BY <4>1
      <4> QED BY <4>1, <4>2, <4>3 DEF DiskOK
    <3>2. CASE printer' = "none" /\ UNCHANGED spool /\ paper' \in {paper, <<>>}
      <4>1. paper' \in Seq(PageType)
        <5>1. <<>> \in Seq(PageType) /\ paper \in Seq(PageType)
          BY DEF DiskOK
        <5> QED BY <3>2, <5>1
      <4>2. spool' = spool /\ printer' = "none"
        BY <3>2
      <4> QED BY <4>1, <4>2 DEF DiskOK, Handling, Work
    <3> QED BY <1>1, <3>1, <3>2 DEF PrinterInit, empty_spool_dir
  <2> QED BY <2>1, <2>2, <2>3 DEF Types
<1>2. ASSUME Read PROVE Types'
  <2>1. /\ pipe \in Seq(Sent) /\ pipe # <<>> /\ msg' = Head(pipe) /\ pipe' = Tail(pipe)
        /\ printer' = Head(pipe).type /\ printer = "read"
    BY <1>2 DEF Read, RecordsOK
  <2>2. Head(pipe) \in Sent /\ Tail(pipe) \in Seq(Sent) /\ Len(Tail(pipe)) = Len(pipe) - 1
        /\ Len(pipe) \in Nat
    BY <2>1
  <2>3. printer' \in Handling
    BY <2>1, <2>2, Records
  <2>4. ControlOK' /\ PrintedOK' /\ DiskOK'
    BY <1>2, <2>1, <2>3 DEF Read, ControlOK, PrintedOK, DiskOK, computer, disk
  <2>5. RecordsOK'
    <3>1. Len(Tail(pipe)) <= Slots
      BY <2>2, Constants DEF RecordsOK
    <3> QED BY <2>1, <2>2, <2>3, <3>1 DEF RecordsOK, Handling, Work
  <2> QED BY <2>4, <2>5 DEF Types
<1>3. ASSUME InitSpool \/ PrintReq \/ RemoveFile PROVE Types'
  <2>0. /\ msg.type \in Work /\ msg \in Sent \union {NoRecord}
        /\ printer \in Work \union {"remove"}
    BY <1>3 DEF InitSpool, PrintReq, RemoveFile, RecordsOK, Handling, Work
  <2>1. /\ printer' = "read" /\ msg' = NoRecord /\ msg.pid \in PID /\ msg.chunk \in Chunk
        /\ spool # NoDir
    <3>1. msg.pid \in PID /\ msg.chunk \in Chunk
      BY <2>0, WorkRecord
    <3> QED BY <1>3, <2>0, <3>1 DEF InitSpool, PrintReq, RemoveFile, Handled, DiskOK, Handling
  <2>2. PICK D \in SUBSET PID : spool \in [D -> Seq(Chunk)]
    BY <2>1 DEF DiskOK
  <2>3. spool' # NoDir /\ \E E \in SUBSET PID : spool' \in [E -> Seq(Chunk)]
    <3>1. CASE InitSpool
      <4>1. spool' = Put(msg.pid, <<>>) /\ <<>> \in Seq(Chunk)
        BY <3>1 DEF InitSpool
      <4>2. spool' \in [D \union {msg.pid} -> Seq(Chunk)] /\ spool' # NoDir
        BY <2>1, <2>2, <4>1, PutFacts
      <4>3. D \union {msg.pid} \in SUBSET PID
        BY <2>1
      <4> QED BY <4>2, <4>3
    <3>2. CASE PrintReq
      <4> DEFINE old == IF msg.pid \in DOMAIN spool THEN spool[msg.pid] ELSE <<>>
      <4>1. old \in Seq(Chunk) /\ Bytes(msg) \in Seq(Chunk)
        BY <2>1, <2>2, BytesType
      <4>2. spool' = Put(msg.pid, old \o Bytes(msg))
        BY <3>2 DEF PrintReq
      <4> HIDE DEF old
      <4>3. old \o Bytes(msg) \in Seq(Chunk)
        BY <4>1
      <4>4. spool' \in [D \union {msg.pid} -> Seq(Chunk)] /\ spool' # NoDir
        BY <2>1, <2>2, <4>2, <4>3, PutFacts
      <4>5. D \union {msg.pid} \in SUBSET PID
        BY <2>1
      <4> QED BY <4>4, <4>5
    <3>3. CASE RemoveFile
      BY <2>2, <3>3, WithoutFacts DEF RemoveFile
    <3> QED BY <1>3, <3>1, <3>2, <3>3
  <2>4. ControlOK' /\ PrintedOK'
    BY <1>3, <2>1 DEF InitSpool, PrintReq, RemoveFile, ControlOK, PrintedOK, computer
  <2>5. RecordsOK'
    BY <1>3, <2>1, Records DEF InitSpool, PrintReq, RemoveFile, RecordsOK, Handling, Work
  <2>6. DiskOK'
    BY <1>3, <2>1, <2>3 DEF InitSpool, PrintReq, RemoveFile, DiskOK
  <2> QED BY <2>4, <2>5, <2>6 DEF Types
<1>4. ASSUME EndSpool PROVE Types'
  <2>1. printer = "END_SPOOL" /\ msg.type = "END_SPOOL" /\ msg.pid \in PID /\ spool # NoDir
    <3>1. printer = "END_SPOOL" /\ msg.type = "END_SPOOL" /\ spool # NoDir
      BY <1>4 DEF EndSpool, RecordsOK, DiskOK, Handling, Work
    <3>2. msg.type \in Work /\ msg \in Sent \union {NoRecord}
      BY <3>1 DEF Work, RecordsOK
    <3>3. msg.pid \in PID
      BY <3>2, WorkRecord
    <3> QED BY <3>1, <3>3
  <2>2. PICK D \in SUBSET PID : spool \in [D -> Seq(Chunk)]
    BY <2>1 DEF DiskOK
  <2>3. CASE printer' = "remove" /\ paper' = Page(msg.pid, FALSE) /\ msg.pid \in D /\ UNCHANGED msg
    <3>1. paper' \in Seq(PageType)
      BY <2>2, <2>3, PageFacts
    <3>2. ControlOK' /\ PrintedOK' /\ RecordsOK'
      BY <1>4, <2>1, <2>3
      DEF EndSpool, ControlOK, PrintedOK, RecordsOK, computer, Handling, Work
    <3> QED BY <1>4, <2>1, <3>1, <3>2 DEF EndSpool, DiskOK, Types
  <2>4. CASE Handled /\ UNCHANGED paper
    BY <1>4, <2>1, <2>4, Records
    DEF EndSpool, Handled, ControlOK, PrintedOK, RecordsOK, DiskOK, computer, Types, Handling, Work
  <2> QED BY <1>4, <2>2, <2>3, <2>4 DEF EndSpool
<1>5. ASSUME Terminate PROVE Types'
  <2>1. printer = "PRINT_TERM" /\ spool # NoDir
    BY <1>5 DEF Terminate, DiskOK, Handling
  <2>2. PICK D \in SUBSET PID : spool \in [D -> Seq(Chunk)]
    BY <2>1 DEF DiskOK
  <2>3. CASE spool' = NoDir /\ printer' = "none" /\ UNCHANGED paper
    BY <1>5, <2>3
    DEF Terminate, ControlOK, PrintedOK, RecordsOK, DiskOK, computer, Types, Handling, Work
  <2>4. CASE \E p \in DOMAIN spool : /\ paper' = Page(p, TRUE) /\ spool' = Without(spool, p)
                                     /\ UNCHANGED printer
    <3>1. PICK p \in D : /\ paper' = Page(p, TRUE) /\ spool' = Without(spool, p)
                         /\ UNCHANGED printer
      BY <2>2, <2>4
    <3>2. paper' \in Seq(PageType)
      BY <2>2, <3>1, PageFacts
    <3>3. spool' \in [D \ {p} -> Seq(Chunk)] /\ spool' # NoDir
      BY <2>2, <3>1, WithoutFacts
    <3>4. DiskOK'
      BY <3>2, <3>3 DEF DiskOK
    <3> QED BY <1>5, <3>1, <3>4
        DEF Terminate, ControlOK, PrintedOK, RecordsOK, computer, Types
  <2> QED BY <1>5, <2>3, <2>4 DEF Terminate
<1>6. ASSUME KillPrinter PROVE Types'
  <2>1. paper' \in Seq(PageType)
    <3>1. CASE UNCHANGED paper
      BY <3>1 DEF DiskOK
    <3>2. CASE \E p \in Copying : \E n \in 0 .. Len(spool[p]) :
                 paper' = Append(paper, [pid |-> p, text |-> SubSeq(spool[p], 1, n),
                                         partial |-> FALSE])
      <4>1. PICK p \in Copying : \E n \in 0 .. Len(spool[p]) :
                 paper' = Append(paper, [pid |-> p, text |-> SubSeq(spool[p], 1, n),
                                         partial |-> FALSE])
        BY <3>2
      <4>2. PICK n \in 0 .. Len(spool[p]) :
                 paper' = Append(paper, [pid |-> p, text |-> SubSeq(spool[p], 1, n),
                                         partial |-> FALSE])
        BY <4>1
      <4>3. printer \in {"END_SPOOL", "PRINT_TERM"} /\ p \in DOMAIN spool
        <5>1. CASE printer = "END_SPOOL"
          BY <5>1 DEF Copying
        <5>2. CASE printer = "PRINT_TERM"
          BY <5>2 DEF Copying
        <5>3. CASE printer \notin {"END_SPOOL", "PRINT_TERM"}
          BY <5>3 DEF Copying
        <5> QED BY <5>1, <5>2, <5>3
      <4>4. PICK D \in SUBSET PID : spool \in [D -> Seq(Chunk)]
        BY <4>3 DEF DiskOK, Handling, Work
      <4> DEFINE text == SubSeq(spool[p], 1, n)
                 pg == [pid |-> p, text |-> text, partial |-> FALSE]
      <4>5. p \in PID /\ spool[p] \in Seq(Chunk)
        BY <4>3, <4>4
      <4>6. text \in Seq(Chunk)
        BY <4>5
      <4> HIDE DEF text
      <4>7. pg \in PageType
        BY <4>5, <4>6 DEF PageType
      <4>8. paper' = Append(paper, pg)
        BY <4>2 DEF text
      <4> HIDE DEF pg
      <4> QED BY <4>7, <4>8 DEF DiskOK
    <3> QED BY <1>6, <3>1, <3>2 DEF KillPrinter
  <2> QED BY <1>6, <2>1
      DEF KillPrinter, ControlOK, PrintedOK, RecordsOK, DiskOK, computer, Types, Handling, Work
<1> QED BY <1>1, <1>2, <1>3, <1>4, <1>5, <1>6 DEF Printer

-----------------------------------------------------------------------------
(* The place of a record among those of its process, which prints `len'    *)
(* chunks in all.                                                          *)
Rank(r, len) == CASE r.type = "INIT_SPOOL" -> 0
                  [] r.type = "PRINT_REQ"  -> r.chunk.n
                  [] OTHER                 -> len + 1

(* Of the records q[0] to q[N] those of process p are, in this order, the  *)
(* ones of the ranks low to top.                                           *)
PendAt(q, N, p, len, top, low) ==
  /\ \A i \in 0 .. N : q[i].pid = p => Rank(q[i], len) \in low .. top
  /\ \A i, j \in 0 .. N :
       i < j /\ q[i].pid = p /\ q[j].pid = p => Rank(q[i], len) < Rank(q[j], len)
  /\ \A k \in low .. top : \E i \in 0 .. N : q[i].pid = p /\ Rank(q[i], len) = k

(* The record at the head is the one of the least rank.                    *)
LEMMA PendFirst ==
  ASSUME NEW q, NEW N \in Nat, NEW p, NEW len \in Nat, NEW top \in Int, NEW low \in Int,
         PendAt(q, N, p, len, top, low), q[0].pid = p
  PROVE  low <= top /\ Rank(q[0], len) = low
<1>1. 0 \in 0 .. N
  OBVIOUS
<1>2. Rank(q[0], len) \in low .. top
  BY <1>1 DEF PendAt
<1>3. PICK i \in 0 .. N : q[i].pid = p /\ Rank(q[i], len) = low
  <2>1. low \in low .. top
    BY <1>2
  <2> QED BY <2>1 DEF PendAt
<1>4. CASE i # 0
  <2>1. Rank(q[0], len) < Rank(q[i], len)
    BY <1>1, <1>3, <1>4 DEF PendAt
  <2> QED BY <1>2, <1>3, <2>1
<1> QED BY <1>2, <1>3, <1>4

(* It is handled,                                                          *)
LEMMA PendPop ==
  ASSUME NEW q, NEW q2, NEW N \in Nat, NEW p, NEW len \in Nat, NEW top \in Int, NEW low \in Int,
         PendAt(q, N, p, len, top, low), q[0].pid = p, q2[0].pid # p,
         \A i \in 1 .. N : q2[i] = q[i]
  PROVE  PendAt(q2, N, p, len, top, low + 1)
<1>1. Rank(q[0], len) = low
  BY PendFirst
<1>2. \A i \in 0 .. N : q2[i].pid = p =>
        i \in 1 .. N /\ q[i].pid = p /\ Rank(q2[i], len) = Rank(q[i], len)
  OBVIOUS
<1>3. \A i \in 1 .. N : q[i].pid = p => Rank(q[i], len) \in low + 1 .. top
  <2> SUFFICES ASSUME NEW i \in 1 .. N, q[i].pid = p PROVE Rank(q[i], len) \in low + 1 .. top
    OBVIOUS
  <2>1. Rank(q[i], len) \in low .. top /\ Rank(q[0], len) < Rank(q[i], len)
    BY DEF PendAt
  <2> QED BY <1>1, <2>1
<1>4. \A i \in 0 .. N : q2[i].pid = p => Rank(q2[i], len) \in low + 1 .. top
  BY <1>2, <1>3
<1>5. \A i, j \in 0 .. N :
         i < j /\ q2[i].pid = p /\ q2[j].pid = p => Rank(q2[i], len) < Rank(q2[j], len)
  BY <1>2 DEF PendAt
<1>6. \A k \in low + 1 .. top : \E i \in 0 .. N : q2[i].pid = p /\ Rank(q2[i], len) = k
  <2> SUFFICES ASSUME NEW k \in low + 1 .. top
               PROVE  \E i \in 0 .. N : q2[i].pid = p /\ Rank(q2[i], len) = k
    OBVIOUS
  <2>1. k \in low .. top /\ k # low
    OBVIOUS
  <2>2. PICK i \in 0 .. N : q[i].pid = p /\ Rank(q[i], len) = k
    BY <2>1 DEF PendAt
  <2>3. i # 0
    BY <1>1, <2>1, <2>2
  <2> QED BY <2>2, <2>3
<1> QED BY <1>4, <1>5, <1>6 DEF PendAt

(* a record of another process is,                                         *)
LEMMA PendOther ==
  ASSUME NEW q, NEW q2, NEW N \in Nat, NEW p, NEW len \in Nat, NEW top \in Int, NEW low \in Int,
         PendAt(q, N, p, len, top, low), q[0].pid # p, q2[0].pid # p,
         \A i \in 1 .. N : q2[i] = q[i]
  PROVE  PendAt(q2, N, p, len, top, low)
<1>1. \A i \in 0 .. N : q2[i].pid = p =>
        i \in 1 .. N /\ q[i].pid = p /\ Rank(q2[i], len) = Rank(q[i], len)
  OBVIOUS
<1>2. \A i \in 0 .. N : q[i].pid = p =>
        i \in 1 .. N /\ q2[i].pid = p /\ Rank(q2[i], len) = Rank(q[i], len)
  OBVIOUS
<1>3. \A i \in 0 .. N : q2[i].pid = p => Rank(q2[i], len) \in low .. top
  BY <1>1 DEF PendAt
<1>4. \A i, j \in 0 .. N :
         i < j /\ q2[i].pid = p /\ q2[j].pid = p => Rank(q2[i], len) < Rank(q2[j], len)
  BY <1>1 DEF PendAt
<1>5. \A k \in low .. top : \E i \in 0 .. N : q2[i].pid = p /\ Rank(q2[i], len) = k
  <2> SUFFICES ASSUME NEW k \in low .. top
               PROVE  \E i \in 0 .. N : q2[i].pid = p /\ Rank(q2[i], len) = k
    OBVIOUS
  <2>1. PICK i \in 0 .. N : q[i].pid = p /\ Rank(q[i], len) = k
    BY DEF PendAt
  <2> QED BY <1>2, <2>1
<1> QED BY <1>3, <1>4, <1>5 DEF PendAt

(* the next one is read, while none is worked on,                          *)
LEMMA PendShift ==
  ASSUME NEW q, NEW q2, NEW N \in Nat, NEW N2 \in Nat, N = N2 + 1, NEW p, NEW len \in Nat,
         NEW top \in Int, NEW low \in Int, PendAt(q, N, p, len, top, low), q[0].pid # p,
         \A i \in 0 .. N2 : q2[i] = q[i + 1]
  PROVE  PendAt(q2, N2, p, len, top, low)
<1>1. \A i \in 0 .. N2 : /\ i + 1 \in 0 .. N /\ q2[i].pid = q[i + 1].pid
                         /\ Rank(q2[i], len) = Rank(q[i + 1], len)
  OBVIOUS
<1>3. \A i \in 0 .. N2 : q2[i].pid = p => Rank(q2[i], len) \in low .. top
  BY <1>1 DEF PendAt
<1>4. \A i, j \in 0 .. N2 :
         i < j /\ q2[i].pid = p /\ q2[j].pid = p => Rank(q2[i], len) < Rank(q2[j], len)
  <2> SUFFICES ASSUME NEW i \in 0 .. N2, NEW j \in 0 .. N2, i < j, q2[i].pid = p, q2[j].pid = p
               PROVE  Rank(q2[i], len) < Rank(q2[j], len)
    OBVIOUS
  <2>1. PICK a, b : a = i + 1 /\ b = j + 1
    OBVIOUS
  <2>2. a \in 0 .. N /\ b \in 0 .. N /\ a < b /\ q[a].pid = p /\ q[b].pid = p
    BY <1>1, <2>1
  <2>3. Rank(q[a], len) < Rank(q[b], len)
    BY <2>2 DEF PendAt
  <2> QED BY <1>1, <2>1, <2>3
<1>5. \A k \in low .. top : \E i \in 0 .. N2 : q2[i].pid = p /\ Rank(q2[i], len) = k
  <2> SUFFICES ASSUME NEW k \in low .. top
               PROVE  \E i \in 0 .. N2 : q2[i].pid = p /\ Rank(q2[i], len) = k
    OBVIOUS
  <2>1. PICK i \in 0 .. N : q[i].pid = p /\ Rank(q[i], len) = k
    BY DEF PendAt
  <2>2. PICK j : j = i - 1
    OBVIOUS
  <2>3. j \in 0 .. N2 /\ i = j + 1
    BY <2>1, <2>2
  <2>4. q2[j].pid = p /\ Rank(q2[j], len) = k
    BY <1>1, <2>1, <2>3
  <2> QED BY <2>3, <2>4
<1> QED BY <1>3, <1>4, <1>5 DEF PendAt

(* one of another process is written,                                      *)
LEMMA PendPushOther ==
  ASSUME NEW q, NEW q2, NEW N \in Nat, NEW N2 \in Nat, N2 = N + 1, NEW p, NEW len \in Nat,
         NEW top \in Int, NEW low \in Int, PendAt(q, N, p, len, top, low), q2[N2].pid # p,
         \A i \in 0 .. N : q2[i] = q[i]
  PROVE  PendAt(q2, N2, p, len, top, low)
<1>1. \A i \in 0 .. N2 : q2[i].pid = p =>
        i \in 0 .. N /\ q[i].pid = p /\ Rank(q2[i], len) = Rank(q[i], len)
  OBVIOUS
<1>2. \A i \in 0 .. N : i \in 0 .. N2 /\ q2[i].pid = q[i].pid /\ Rank(q2[i], len) = Rank(q[i], len)
  OBVIOUS
<1>3. \A i \in 0 .. N2 : q2[i].pid = p => Rank(q2[i], len) \in low .. top
  BY <1>1 DEF PendAt
<1>4. \A i, j \in 0 .. N2 :
         i < j /\ q2[i].pid = p /\ q2[j].pid = p => Rank(q2[i], len) < Rank(q2[j], len)
  BY <1>1 DEF PendAt
<1>5. \A k \in low .. top : \E i \in 0 .. N2 : q2[i].pid = p /\ Rank(q2[i], len) = k
  <2> SUFFICES ASSUME NEW k \in low .. top
               PROVE  \E i \in 0 .. N2 : q2[i].pid = p /\ Rank(q2[i], len) = k
    OBVIOUS
  <2>1. PICK i \in 0 .. N : q[i].pid = p /\ Rank(q[i], len) = k
    BY DEF PendAt
  <2> QED BY <1>2, <2>1
<1> QED BY <1>3, <1>4, <1>5 DEF PendAt

(* or the next one of the process itself.                                  *)
LEMMA PendPush ==
  ASSUME NEW q, NEW q2, NEW N \in Nat, NEW N2 \in Nat, N2 = N + 1, NEW p,
         NEW len \in Nat, NEW len2 \in Nat, NEW top \in Int, NEW top2 \in Int, NEW low \in Int,
         PendAt(q, N, p, len, top, low), \A i \in 0 .. N : q2[i] = q[i],
         \A i \in 0 .. N : q[i].pid = p => Rank(q[i], len2) = Rank(q[i], len),
         q2[N2].pid = p, Rank(q2[N2], len2) = top2, top2 = top + 1, low <= top2
  PROVE  PendAt(q2, N2, p, len2, top2, low)
<1>1. \A i \in 0 .. N2 : i # N2 => i \in 0 .. N
  OBVIOUS
<1>2. \A i \in 0 .. N : /\ i \in 0 .. N2 /\ q2[i].pid = q[i].pid
                        /\ q[i].pid = p => Rank(q2[i], len2) = Rank(q[i], len)
  OBVIOUS
<1>3. ASSUME NEW i \in 0 .. N2, q2[i].pid = p PROVE Rank(q2[i], len2) \in low .. top2
  <2>1. CASE i = N2
    BY <2>1
  <2>2. CASE i # N2
    <3>1. i \in 0 .. N /\ q[i].pid = p /\ Rank(q2[i], len2) = Rank(q[i], len)
      BY <1>1, <1>2, <1>3, <2>2
    <3>2. Rank(q[i], len) \in low .. top
      BY <3>1 DEF PendAt
    <3> QED BY <3>1, <3>2
  <2> QED BY <2>1, <2>2
<1>4. ASSUME NEW i \in 0 .. N2, NEW j \in 0 .. N2, i < j, q2[i].pid = p, q2[j].pid = p
      PROVE  Rank(q2[i], len2) < Rank(q2[j], len2)
  <2>1. i \in 0 .. N /\ q[i].pid = p /\ Rank(q2[i], len2) = Rank(q[i], len)
    BY <1>2, <1>4
  <2>2. CASE j = N2
    <3>1. Rank(q[i], len) \in low .. top
      BY <2>1 DEF PendAt
    <3> QED BY <2>1, <2>2, <3>1
  <2>3. CASE j # N2
    <3>1. j \in 0 .. N /\ q[j].pid = p /\ Rank(q2[j], len2) = Rank(q[j], len)
      BY <1>1, <1>2, <1>4, <2>3
    <3> QED BY <1>4, <2>1, <3>1 DEF PendAt
  <2> QED BY <2>2, <2>3
<1>5. ASSUME NEW k \in low .. top2
      PROVE  \E i \in 0 .. N2 : q2[i].pid = p /\ Rank(q2[i], len2) = k
  <2>1. CASE k = top2
    <3>1. N2 \in 0 .. N2
      OBVIOUS
    <3> QED BY <2>1, <3>1
  <2>2. CASE k # top2
    <3>1. k \in low .. top
      BY <2>2
    <3>2. PICK i \in 0 .. N : q[i].pid = p /\ Rank(q[i], len) = k
      BY <3>1 DEF PendAt
    <3> QED BY <1>2, <3>2
  <2> QED BY <2>1, <2>2
<1> QED BY <1>3, <1>4, <1>5 DEF PendAt

-----------------------------------------------------------------------------
(* What the first k of the chunks of a process make of its file.           *)
Text(chunks, p, k) == FlattenSeq([j \in 1 .. k |-> Bytes(Record(p, "PRINT_REQ", chunks[j]))])

LEMMA TextParts ==
  ASSUME NEW chunks \in Seq(Chunk), NEW p \in PID, NEW k \in 0 .. Len(chunks)
  PROVE  /\ [j \in 1 .. k |-> Bytes(Record(p, "PRINT_REQ", chunks[j]))] \in Seq(Seq(Chunk))
         /\ Text(chunks, p, k) \in Seq(Chunk)
<1> DEFINE s == [j \in 1 .. k |-> Bytes(Record(p, "PRINT_REQ", chunks[j]))]
<1>1. ASSUME NEW j \in 1 .. k PROVE Bytes(Record(p, "PRINT_REQ", chunks[j])) \in Seq(Chunk)
  <2> DEFINE r == Record(p, "PRINT_REQ", chunks[j])
  <2>1. chunks[j] \in Chunk
    OBVIOUS
  <2>2. r.chunk \in Chunk /\ r.pid \in PID
    BY <2>1 DEF Record
  <2> HIDE DEF r
  <2>3. Bytes(r) \in Seq(Chunk)
    BY <2>2, BytesType
  <2> QED BY <2>3 DEF r
<1>2. s \in [1 .. k -> Seq(Chunk)]
  BY <1>1
<1>3. k \in Nat
  OBVIOUS
<1> HIDE DEF s
<1>4. s \in Seq(Seq(Chunk))
  BY <1>2, <1>3
<1>5. FlattenSeq(s) \in Seq(Chunk)
  BY <1>4, FlattenType
<1> QED BY <1>4, <1>5 DEF s, Text

LEMMA TextNone ==
  ASSUME NEW chunks, NEW p
  PROVE  Text(chunks, p, 0) = <<>>
<1> DEFINE s == [j \in 1 .. 0 |-> Bytes(Record(p, "PRINT_REQ", chunks[j]))]
<1>1. s = <<>>
  OBVIOUS
<1> HIDE DEF s
<1>2. FlattenSeq(s) = <<>>
  BY <1>1, FlattenIs
<1> QED BY <1>2 DEF s, Text

LEMMA BytesSame ==
  ASSUME NEW r
  PROVE  Bytes(r) = Bytes(Record(r.pid, "PRINT_REQ", r.chunk))
BY DEF Bytes, Record

LEMMA TextNext ==
  ASSUME NEW chunks \in Seq(Chunk), NEW p \in PID, NEW k \in Nat, NEW n \in Nat, n = k + 1,
         n <= Len(chunks)
  PROVE  Text(chunks, p, n) = Text(chunks, p, k) \o Bytes(Record(p, "PRINT_REQ", chunks[n]))
<1> DEFINE s == [j \in 1 .. k |-> Bytes(Record(p, "PRINT_REQ", chunks[j]))]
           t == [j \in 1 .. n |-> Bytes(Record(p, "PRINT_REQ", chunks[j]))]
           x == Bytes(Record(p, "PRINT_REQ", chunks[n]))
<1>1. x = t[n]
  <2>1. n \in 1 .. n
    OBVIOUS
  <2> QED BY <2>1
<1>2. k \in 0 .. Len(chunks) /\ n \in 0 .. Len(chunks)
  OBVIOUS
<1>3. s \in Seq(Seq(Chunk)) /\ t \in Seq(Seq(Chunk))
  BY <1>2, TextParts
<1>4. Len(s) = k /\ Len(t) = n /\ \A i \in 1 .. k : s[i] = t[i]
  OBVIOUS
<1>5. n \in 1 .. n
  OBVIOUS
<1> HIDE DEF s, t, x
<1>6. t[n] \in Seq(Chunk) /\ k = n - 1
  BY <1>3, <1>4, <1>5
<1>7. FlattenSeq(t) = FlattenSeq(s) \o t[n]
  <2>1. /\ s \in Seq(Seq(Chunk)) /\ k \in Nat /\ n \in Nat /\ k = n - 1 /\ Len(s) = k
        /\ Len(t) = n /\ (\A i \in 1 .. k : s[i] = t[i]) /\ t[n] \in Seq(Chunk)
    BY <1>3, <1>4, <1>6
  <2> QED BY <2>1, FlattenNext, SMTT(30)
<1> QED BY <1>1, <1>7 DEF s, t, x, Text

LEMMA TextSame ==
  ASSUME NEW chunks, NEW chunks2, NEW p, NEW k, \A j \in 1 .. k : chunks2[j] = chunks[j]
  PROVE  Text(chunks2, p, k) = Text(chunks, p, k)
<1>1. [j \in 1 .. k |-> Bytes(Record(p, "PRINT_REQ", chunks2[j]))]
        = [j \in 1 .. k |-> Bytes(Record(p, "PRINT_REQ", chunks[j]))]
  OBVIOUS
<1> QED BY <1>1 DEF Text

LEMMA WrittenIs ==
  ASSUME NEW p \in PID, printed[p] \in Seq(Chunk)
  PROVE  Written(p) = Text(printed[p], p, Len(printed[p]))
<1>1. DOMAIN printed[p] = 1 .. Len(printed[p])
  OBVIOUS
<1> QED BY <1>1 DEF Written, Text

LEMMA PrefixSubSeq ==
  ASSUME NEW T, NEW s \in Seq(T), NEW n \in 0 .. Len(s)
  PROVE  IsPrefix(SubSeq(s, 1, n), s)
<1> DEFINE u == SubSeq(s, 1, n)
<1>1. Len(u) = n /\ u = SubSeq(s, 1, Len(u))
  OBVIOUS
<1> HIDE DEF u
<1>2. IsPrefix(u, s)
  BY <1>1 DEF IsPrefix
<1> QED BY <1>2 DEF u

LEMMA PrefixSelf ==
  ASSUME NEW T, NEW s \in Seq(T)
  PROVE  IsPrefix(s, s)
BY DEF IsPrefix

-----------------------------------------------------------------------------
(* The record the printer works on and those in the pipe.                  *)
QOf(m, s) == [i \in 0 .. Len(s) |-> IF i = 0 THEN m ELSE s[i]]

LEMMA PushFacts ==
  ASSUME Types, NEW r \in Sent, pipe' = Append(pipe, r), UNCHANGED msg
  PROVE  /\ pipe \in Seq(Sent) /\ Len(pipe) \in Nat /\ Len(pipe') = Len(pipe) + 1
         /\ pipe'[Len(pipe')] = r /\ \A i \in 1 .. Len(pipe) : pipe'[i] = pipe[i]
         /\ QOf(msg', pipe')[Len(pipe')] = r
         /\ \A i \in 0 .. Len(pipe) : QOf(msg', pipe')[i] = QOf(msg, pipe)[i]
<1>1. pipe \in Seq(Sent)
  BY DEF Types, RecordsOK
<1>2. /\ Len(pipe) \in Nat /\ Len(pipe') \in Nat /\ Len(pipe') = Len(pipe) + 1
      /\ pipe'[Len(pipe')] = r /\ \A i \in 1 .. Len(pipe) : pipe'[i] = pipe[i]
  BY <1>1
<1>3. /\ QOf(msg', pipe')[Len(pipe')] = pipe'[Len(pipe')]
      /\ \A i \in 0 .. Len(pipe) : QOf(msg', pipe')[i] = QOf(msg, pipe)[i]
  BY <1>2 DEF QOf
<1> QED BY <1>1, <1>2, <1>3

LEMMA QRead ==
  ASSUME NEW T, NEW s \in Seq(T), s # <<>>, NEW m, NEW h, h = Head(s), NEW t, t = Tail(s)
  PROVE  /\ Len(t) \in Nat /\ Len(s) = Len(t) + 1
         /\ \A i \in 0 .. Len(t) : QOf(h, t)[i] = QOf(m, s)[i + 1]
<1>1. Len(t) \in Nat /\ Len(s) = Len(t) + 1 /\ h = s[1]
  OBVIOUS
<1>2. \A i \in 1 .. Len(t) : t[i] = s[i + 1]
  OBVIOUS
<1>3. \A i \in 0 .. Len(t) : QOf(m, s)[i + 1] = s[i + 1]
  BY <1>1 DEF QOf
<1>4. \A i \in 0 .. Len(t) : QOf(h, t)[i] = s[i + 1]
  BY <1>1, <1>2 DEF QOf
<1> QED BY <1>1, <1>3, <1>4

LEMMA QHandled ==
  ASSUME NEW s, Len(s) \in Nat, NEW m, NEW m2
  PROVE  /\ QOf(m, s)[0] = m /\ QOf(m2, s)[0] = m2
         /\ \A i \in 1 .. Len(s) : QOf(m2, s)[i] = QOf(m, s)[i] /\ QOf(m, s)[i] = s[i]
BY DEF QOf

-----------------------------------------------------------------------------
(* How far the printer is with the text of a process: it has still to do   *)
(* the records of ranks low to Top(p), and its file and its page are as    *)
(* after the ones before.                                                  *)
Files == printer_dump_spool
On(pages, p) == {i \in DOMAIN pages : pages[i].pid = p}
Chunks(p) == Len(printed[p])
Top(p) == Chunks(p) + IF p \in alive THEN 0 ELSE 1
Pend(p, low) == PendAt(QOf(msg, pipe), Len(pipe), p, Chunks(p), Top(p), low)
All(p) == Text(printed[p], p, Chunks(p))
Removes(p) == printer = "remove" /\ msg.pid = p

Waits(p, low) == low = 0 /\ p \notin Files /\ On(paper, p) = {}
Open(p, low) ==
  /\ low \in 1 .. Chunks(p) + 1 /\ p \in Files /\ spool[p] = Text(printed[p], p, low - 1)
  /\ On(paper, p) = {} /\ ~Removes(p)
Closing(p, low) ==
  /\ low = Chunks(p) + 1 /\ p \in Files /\ On(paper, p) = {Len(paper)}
  /\ \/ printer = "killed" /\ IsPrefix(paper[Len(paper)].text, All(p))
     \/ Removes(p) /\ paper[Len(paper)].text = All(p) /\ ~paper[Len(paper)].partial
Done(p, low) ==
  /\ low = Top(p) + 1 /\ p \notin Files
  /\ \E i \in DOMAIN paper : /\ On(paper, p) = {i} /\ paper[i].text = All(p)
                             /\ paper[i].partial = (p \in alive)
Stage(p, low) ==
  /\ low \in Nat /\ Pend(p, low)
  /\ Waits(p, low) \/ Open(p, low) \/ Closing(p, low) \/ Done(p, low)
Staged(p) == \E low \in Nat : Stage(p, low)

(* Nothing follows the record that ends the printer, and the computer      *)
(* writes nothing then; the other records are of processes of this run.    *)
Over == pc \in {"waitpid", "off", "down"}
Genuine(r) ==
  /\ r.type \in Work => r.pid \in 2 .. next - 1
  /\ r.type = "PRINT_REQ" => /\ r.chunk.n \in 1 .. Chunks(r.pid)
                             /\ r.chunk = printed[r.pid][r.chunk.n]
QueueOK ==
  /\ Genuine(msg) /\ \A i \in 1 .. Len(pipe) : Genuine(pipe[i])
  /\ msg.type = "PRINT_TERM" => pipe = <<>> /\ Over
  /\ \A i \in 1 .. Len(pipe) : pipe[i].type = "PRINT_TERM" => i = Len(pipe) /\ Over

ChildOK ==
  /\ printer = "read" => msg = NoRecord
  /\ printer = "none" => msg.type = "PRINT_TERM"
  /\ (spool = NoDir) <=> (printer = "none")
  /\ printer # "init"

ComputerOK ==
  /\ \A p \in PID : p >= next => printed[p] = <<>> /\ p \notin Files /\ On(paper, p) = {}
  /\ \A p \in alive : On(paper, p) # {} => Over
  /\ pc = "off" => printer \in {"none", "killed"}

BeforeAnswer ==
  answer = "none" =>
    /\ pipe = <<>> /\ msg = NoRecord /\ printed = [p \in PID |-> <<>>] /\ next = 2 /\ alive = {}
    /\ pc \in {"off", "ack", "down"} /\ printer \in {"init", "killed", "none"}
    /\ pc = "off" => printer = "none"
Refused == answer = "TERMINATE" => printer = "none" /\ pc \in {"ack", "off", "down"}
Served == Started => /\ QueueOK /\ ChildOK /\ ComputerOK
                     /\ \A p \in 2 .. next - 1 : Staged(p)

PipeInv == BeforeAnswer /\ Refused /\ Served

-----------------------------------------------------------------------------
(* Steps that keep a process where it is.                                  *)
LEMMA StageTyped ==
  ASSUME Types, NEW p \in PID
  PROVE  /\ printed[p] \in Seq(Chunk) /\ Chunks(p) \in Nat /\ Top(p) \in Nat /\ Len(pipe) \in Nat
         /\ pipe \in Seq(Sent) /\ Len(paper) \in Nat /\ DOMAIN paper = 1 .. Len(paper)
         /\ paper \in Seq(PageType)
         /\ Top(p) = IF p \in alive THEN Chunks(p) ELSE Chunks(p) + 1
<1>1. printed[p] \in Seq(Chunk) /\ pipe \in Seq(Sent) /\ paper \in Seq(PageType)
  BY DEF Types, PrintedOK, RecordsOK, DiskOK
<1>2. Chunks(p) \in Nat /\ Len(pipe) \in Nat /\ Len(paper) \in Nat /\ DOMAIN paper = 1 .. Len(paper)
  BY <1>1 DEF Chunks
<1>3. Top(p) \in Nat /\ Top(p) = IF p \in alive THEN Chunks(p) ELSE Chunks(p) + 1
  BY <1>2 DEF Top
<1> QED BY <1>1, <1>2, <1>3

(* A record of another process is written.                                 *)
LEMMA StagePush ==
  ASSUME Types, NEW p \in PID, NEW low \in Nat, Stage(p, low), NEW r \in Sent, r.pid # p,
         pipe' = Append(pipe, r), printed'[p] = printed[p], p \in alive' <=> p \in alive,
         UNCHANGED <<child, disk>>
  PROVE  Stage(p, low)'
<1>0. UNCHANGED msg
  BY DEF child
<1>1. /\ pipe \in Seq(Sent) /\ Len(pipe) \in Nat /\ Chunks(p) \in Nat /\ Top(p) \in Int
      /\ Len(pipe') = Len(pipe) + 1
      /\ QOf(msg', pipe')[Len(pipe')] = r
      /\ \A i \in 0 .. Len(pipe) : QOf(msg', pipe')[i] = QOf(msg, pipe)[i]
  <2>1. Chunks(p) \in Nat /\ Top(p) \in Nat
    BY StageTyped
  <2>2. /\ pipe \in Seq(Sent) /\ Len(pipe) \in Nat
        /\ Len(pipe') = Len(pipe) + 1
        /\ QOf(msg', pipe')[Len(pipe')] = r
        /\ \A i \in 0 .. Len(pipe) : QOf(msg', pipe')[i] = QOf(msg, pipe)[i]
    BY <1>0, PushFacts, ZenonT(30)
  <2> QED BY <2>1, <2>2
<1>2. Chunks(p)' = Chunks(p) /\ Top(p)' = Top(p) /\ All(p)' = All(p)
  BY DEF Chunks, Top, All
<1>3. PendAt(QOf(msg, pipe), Len(pipe), p, Chunks(p), Top(p), low)
  BY DEF Stage, Pend
<1>4. PendAt(QOf(msg', pipe'), Len(pipe'), p, Chunks(p), Top(p), low)
  <2> DEFINE q == QOf(msg, pipe)
             q2 == QOf(msg', pipe')
             N == Len(pipe)
             N2 == Len(pipe')
  <2>1. /\ N \in Nat /\ N2 \in Nat /\ N2 = N + 1 /\ q2[N2].pid # p
        /\ \A i \in 0 .. N : q2[i] = q[i]
    BY <1>1
  <2> HIDE DEF q, q2, N, N2
  <2>2. PendAt(q, N, p, Chunks(p), Top(p), low)
    BY <1>3 DEF q, N
  <2>3. PendAt(q2, N2, p, Chunks(p), Top(p), low)
    BY <1>1, <2>1, <2>2, PendPushOther
  <2> QED BY <2>3 DEF q2, N2
<1>5. Pend(p, low)'
  BY <1>2, <1>4 DEF Pend
<1>6. (Waits(p, low) \/ Open(p, low) \/ Closing(p, low) \/ Done(p, low))'
  <2>1. /\ Waits(p, low) => Waits(p, low)'
        /\ Open(p, low) => Open(p, low)'
        /\ Closing(p, low) => Closing(p, low)'
    BY <1>2 DEF Waits, Open, Closing, Files, printer_dump_spool, Removes, child, disk
  <2>2. Done(p, low) => Done(p, low)'
    BY <1>2 DEF Done, Files, printer_dump_spool, child, disk
  <2> QED BY <2>1, <2>2 DEF Stage
<1> QED BY <1>5, <1>6 DEF Stage

(* One of its own is written.                                              *)
LEMMA PendOwn ==
  ASSUME Types, NEW p \in PID, NEW low \in Nat, Pend(p, low), NEW r, NEW len \in Nat,
         Len(pipe') = Len(pipe) + 1, QOf(msg', pipe')[Len(pipe')] = r,
         \A i \in 0 .. Len(pipe) : QOf(msg', pipe')[i] = QOf(msg, pipe)[i],
         r.pid = p, Rank(r, len) = Top(p) + 1, low <= Top(p) + 1,
         Chunks(p)' = len, Top(p)' = Top(p) + 1,
         \A i \in 0 .. Len(pipe) : LET x == QOf(msg, pipe)[i] IN
            x.pid = p => Rank(x, len) = Rank(x, Chunks(p))
  PROVE  Pend(p, low)'
<1> DEFINE q == QOf(msg, pipe)
           q2 == QOf(msg', pipe')
           N == Len(pipe)
           N2 == Len(pipe')
           top == Top(p)
           top2 == Top(p) + 1
           old == Chunks(p)
<1>1. /\ N \in Nat /\ N2 \in Nat /\ N2 = N + 1 /\ q2[N2] = r /\ \A i \in 0 .. N : q2[i] = q[i]
  BY StageTyped
<1>2. top \in Int /\ top2 \in Int /\ top2 = top + 1 /\ old \in Nat /\ low <= top2
  BY StageTyped
<1>3. PendAt(q, N, p, old, top, low)
  BY DEF Pend
<1>4. \A i \in 0 .. N : q[i].pid = p => Rank(q[i], len) = Rank(q[i], old)
  OBVIOUS
<1>5. q2[N2].pid = p /\ Rank(q2[N2], len) = top2
  BY <1>1
<1> HIDE DEF q, q2, N, N2, top, top2, old
<1>6. PendAt(q2, N2, p, len, top2, low)
  BY <1>1, <1>2, <1>3, <1>4, <1>5, PendPush
<1> QED BY <1>6 DEF q2, N2, top2, Pend

LEMMA QueuePush ==
  ASSUME Types, QueueOK, ~Over, NEW r \in Sent, pipe' = Append(pipe, r), UNCHANGED msg,
         Genuine(r)', r.type = "PRINT_TERM" => Over',
         \A x \in Sent \union {NoRecord} : Genuine(x) => Genuine(x)'
  PROVE  QueueOK'
<1>1. /\ pipe \in Seq(Sent) /\ Len(pipe) \in Nat /\ Len(pipe') = Len(pipe) + 1
      /\ pipe'[Len(pipe')] = r /\ \A i \in 1 .. Len(pipe) : pipe'[i] = pipe[i]
  BY PushFacts
<1>2. msg \in Sent \union {NoRecord} /\ \A i \in 1 .. Len(pipe) : pipe[i] \in Sent
  BY <1>1 DEF Types, RecordsOK
<1>3. Genuine(msg)'
  BY <1>2 DEF QueueOK, Genuine
<1>4. ASSUME NEW i \in 1 .. Len(pipe')
      PROVE  Genuine(pipe[i])' /\ (pipe'[i].type = "PRINT_TERM" => i = Len(pipe') /\ Over')
  <2>1. CASE i = Len(pipe')
    BY <1>1, <2>1 DEF Genuine
  <2>2. CASE i # Len(pipe')
    <3>1. i \in 1 .. Len(pipe) /\ pipe'[i] = pipe[i]
      BY <1>1, <2>2
    <3>2. Genuine(pipe[i]) /\ pipe[i].type # "PRINT_TERM"
      BY <3>1 DEF QueueOK
    <3> QED BY <1>2, <3>1, <3>2 DEF Genuine
  <2> QED BY <2>1, <2>2
<1>5. msg'.type # "PRINT_TERM"
  BY DEF QueueOK
<1> QED BY <1>3, <1>4, <1>5 DEF QueueOK

(* The printer does something for another process.                         *)
LEMMA StageOther ==
  ASSUME Types, NEW p \in PID, NEW low \in Nat, Stage(p, low), Pend(p, low)',
         printer # "killed", ~Removes(p), ~Removes(p)', UNCHANGED <<printed, alive>>,
         p \in Files' <=> p \in Files, p \in Files => spool'[p] = spool[p],
         On(paper', p) = On(paper, p), \A i \in On(paper, p) : paper'[i] = paper[i]
  PROVE  Stage(p, low)'
<1>1. Chunks(p)' = Chunks(p) /\ Top(p)' = Top(p) /\ All(p)' = All(p)
  BY DEF Chunks, Top, All
<1>2. Waits(p, low) => Waits(p, low)'
  BY DEF Waits
<1>3. Open(p, low) => Open(p, low)'
  BY <1>1 DEF Open
<1>4. ~Closing(p, low)
  BY DEF Closing
<1>5. ASSUME Done(p, low) PROVE Done(p, low)'
  <2>1. PICK i \in DOMAIN paper : /\ On(paper, p) = {i} /\ paper[i].text = All(p)
                                  /\ paper[i].partial = (p \in alive)
    BY <1>5 DEF Done
  <2>2. i \in DOMAIN paper' /\ paper'[i] = paper[i]
    <3>1. i \in On(paper', p)
      BY <2>1
    <3> QED BY <2>1, <3>1 DEF On
  <2> QED BY <1>1, <1>5, <2>1, <2>2 DEF Done
<1> QED BY <1>2, <1>3, <1>4, <1>5 DEF Stage

(* The pages of p when one of process n is added.                          *)
LEMMA OnAppend ==
  ASSUME NEW pages \in Seq(PageType), NEW pg \in PageType
  PROVE  LET new == Append(pages, pg) IN
         /\ Len(new) \in DOMAIN new /\ new[Len(new)] = pg
         /\ \A p : pg.pid # p => On(new, p) = On(pages, p)
         /\ \A p : pg.pid = p /\ On(pages, p) = {} => On(new, p) = {Len(new)}
         /\ \A p : \A i \in On(pages, p) : new[i] = pages[i]
<1> DEFINE new == Append(pages, pg)
<1>1. /\ DOMAIN pages = 1 .. Len(pages) /\ DOMAIN new = 1 .. Len(pages) + 1 /\ Len(pages) \in Nat
      /\ \A i \in 1 .. Len(pages) : new[i] = pages[i]
      /\ Len(new) = Len(pages) + 1 /\ new[Len(pages) + 1] = pg
  OBVIOUS
<1>2. PICK n \in Nat : n = Len(pages) + 1
  BY <1>1
<1>3. \A i \in DOMAIN new : i # n => i \in DOMAIN pages /\ new[i] = pages[i]
  BY <1>1, <1>2
<1>4. \A i \in DOMAIN pages : i \in DOMAIN new /\ i # n /\ new[i] = pages[i]
  BY <1>1, <1>2
<1>5. n \in DOMAIN new /\ new[n] = pg /\ Len(new) = n
  BY <1>1, <1>2
<1> HIDE DEF new
<1>6. \A p : pg.pid # p => On(new, p) = On(pages, p)
  BY <1>3, <1>4, <1>5 DEF On
<1>7. \A p : pg.pid = p /\ On(pages, p) = {} => On(new, p) = {Len(new)}
  BY <1>3, <1>4, <1>5 DEF On
<1>8. \A p : \A i \in On(pages, p) : new[i] = pages[i]
  BY <1>4 DEF On
<1> QED BY <1>5, <1>6, <1>7, <1>8 DEF new

-----------------------------------------------------------------------------
(* The steps of the computer.                                              *)
LEMMA ServedQuiet ==
  ASSUME Types, Served, Started, ReadAck \/ PrintText \/ WaitPID \/ KillComputer
  PROVE  Served'
<1>1. /\ UNCHANGED <<next, alive, pipe, answer, child, disk, printed>>
      /\ Over => Over'
      /\ pc' = "off" => pc = "off" \/ printer \in {"none", "killed"}
  BY DEF ReadAck, PrintText, WaitPID, KillComputer, Goes, Over, Started
<1>2. QueueOK /\ ChildOK /\ ComputerOK /\ \A p \in 2 .. next - 1 : Staged(p)
  BY DEF Served
<1>3. QueueOK'
  BY <1>1, <1>2 DEF QueueOK, Genuine, Chunks, child
<1>4. ChildOK'
  BY <1>1, <1>2 DEF ChildOK, child, disk
<1>5. ComputerOK'
  BY <1>1, <1>2 DEF ComputerOK, Files, printer_dump_spool, child, disk
<1>6. ASSUME NEW p \in 2 .. next' - 1 PROVE Staged(p)'
  <2>1. Staged(p)
    BY <1>1, <1>2
  <2> QED BY <1>1, <2>1 DEF Staged, Stage, Pend, Waits, Open, Closing, Done, Chunks, Top, All,
        Removes, Files, printer_dump_spool, child, disk
<1> QED BY <1>3, <1>4, <1>5, <1>6 DEF Served

LEMMA ServedPowerOff ==
  ASSUME Types, Served, Started, PowerOff
  PROVE  Served'
<1>1. /\ pipe' = Append(pipe, TermRecord) /\ TermRecord \in Sent /\ ~Over /\ Over'
      /\ pc' = "waitpid" /\ UNCHANGED <<next, alive, child, disk, printed, msg>>
  BY DEF PowerOff, Goes, Over, Write, TermRecord, Sent, child
<1>2. QueueOK /\ ChildOK /\ ComputerOK /\ \A p \in 2 .. next - 1 : Staged(p)
  BY DEF Served
<1>3. QueueOK'
  <2>1. Genuine(TermRecord)'
    BY DEF Genuine, TermRecord, Record, Work
  <2>2. \A x \in Sent \union {NoRecord} : Genuine(x) => Genuine(x)'
    BY <1>1 DEF Genuine, Chunks
  <2> QED BY <1>1, <1>2, <2>1, <2>2, QueuePush
<1>4. ChildOK'
  BY <1>1, <1>2 DEF ChildOK, child, disk
<1>5. ComputerOK'
  BY <1>1, <1>2 DEF ComputerOK, Files, printer_dump_spool, child, disk
<1>6. ASSUME NEW p \in 2 .. next' - 1 PROVE Staged(p)'
  <2>1. p \in PID /\ TermRecord.pid # p /\ p \in 2 .. next - 1
    BY <1>1, Constants DEF Types, ControlOK, PID, TermRecord, Record
  <2>2. PICK low \in Nat : Stage(p, low)
    BY <1>2, <2>1 DEF Staged
  <2>3. Stage(p, low)'
    BY <1>1, <2>1, <2>2, StagePush
  <2> QED BY <2>3 DEF Staged
<1> QED BY <1>3, <1>4, <1>5, <1>6 DEF Served

LEMMA ServedLoad ==
  ASSUME Types, Served, Started, Load
  PROVE  Served'
<1>0. PICK n : n = next
  OBVIOUS
<1> DEFINE r == Record(n, "INIT_SPOOL", NoChunk)
<1>1. /\ pipe' = Append(pipe, r) /\ r \in Sent /\ ~Over /\ n \in PID /\ next' = n + 1
      /\ n = next /\ alive' = alive \union {n} /\ UNCHANGED <<pc, child, disk, printed, msg>>
      /\ r.pid = n /\ r.type = "INIT_SPOOL" /\ Rank(r, 0) = 0
  BY <1>0, Constants DEF Load, Over, Write, Sent, child, Record, Work, Rank
<1>2. /\ QueueOK /\ ChildOK /\ ComputerOK /\ \A p \in 2 .. next - 1 : Staged(p)
      /\ next \in Nat /\ 2 .. next - 1 \subseteq PID /\ alive \subseteq 2 .. next - 1
  BY Constants DEF Served, Types, ControlOK, PID
<1> HIDE DEF r
<1>3. QueueOK'
  <2>1. Genuine(r)'
    <3>1. n \in 2 .. next' - 1 /\ r.type # "PRINT_REQ"
      BY <1>1, Constants DEF PID
    <3> QED BY <1>1, <3>1 DEF Genuine
  <2>2. \A x \in Sent \union {NoRecord} : Genuine(x) => Genuine(x)'
    BY <1>1, <1>2 DEF Genuine, Chunks
  <2>3. r.type # "PRINT_TERM"
    BY <1>1
  <2> QED BY <1>1, <1>2, <2>1, <2>2, <2>3, QueuePush
<1>4. ChildOK'
  BY <1>1, <1>2 DEF ChildOK, child, disk
<1>5. ComputerOK'
  <2>1. \A p \in PID : p >= next' => p >= next
    BY <1>1, <1>2, Constants
  <2>2. On(paper, n) = {}
    BY <1>1, <1>2 DEF ComputerOK
  <2> QED BY <1>1, <1>2, <2>1, <2>2 DEF ComputerOK, Files, printer_dump_spool, child, disk, Over
<1>6. ASSUME NEW p \in 2 .. next - 1 PROVE Staged(p)'
  <2>1. p \in PID /\ r.pid # p /\ (p \in alive' <=> p \in alive)
    BY <1>1, <1>2
  <2>2. PICK low \in Nat : Stage(p, low)
    BY <1>2 DEF Staged
  <2>3. Stage(p, low)'
    BY <1>1, <2>1, <2>2, StagePush
  <2> QED BY <2>3 DEF Staged
<1>7. Staged(n)'
  <2>1. /\ printed[n] = <<>> /\ printed'[n] = <<>> /\ n \notin Files /\ n \notin Files'
        /\ On(paper, n) = {} /\ On(paper', n) = {}
    BY <1>1, <1>2 DEF ComputerOK, Files, printer_dump_spool, disk
  <2>2. Chunks(n) = 0 /\ Chunks(n)' = 0 /\ Top(n)' = 0
    <3>1. Len(<<>>) = 0 /\ n \in alive'
      BY <1>1
    <3> QED BY <2>1, <3>1 DEF Chunks, Top
  <2> DEFINE q == QOf(msg, pipe)
             q2 == QOf(msg', pipe')
             N == Len(pipe)
             N2 == Len(pipe')
  <2>3. /\ N \in Nat /\ N2 \in Nat /\ N2 = N + 1 /\ q2[N2] = r /\ \A i \in 0 .. N : q2[i] = q[i]
    BY <1>1, PushFacts
  <2>4. ASSUME NEW i \in 0 .. N PROVE q[i].pid # n
    <3>1. q[i] \in Sent \union {NoRecord} /\ Genuine(q[i])
      <4>1. CASE i = 0
        BY <1>2, <4>1 DEF QOf, QueueOK, Types, RecordsOK
      <4>2. CASE i # 0
        <5>1. i \in 1 .. Len(pipe) /\ q[i] = pipe[i]
          BY <2>3, <4>2 DEF QOf
        <5>2. pipe[i] \in Sent
          BY <5>1 DEF Types, RecordsOK
        <5> QED BY <1>2, <5>1, <5>2 DEF QueueOK
      <4> QED BY <4>1, <4>2
    <3>2. CASE q[i].type \in Work
      BY <1>1, <1>2, <3>1, <3>2 DEF Genuine
    <3>3. CASE q[i].type \notin Work
      <4>1. q[i].pid = 0
        BY <3>1, <3>3 DEF Sent, TermRecord, NoRecord, Record
      <4> QED BY <1>1, <4>1, Constants
    <3> QED BY <3>2, <3>3
  <2> HIDE DEF q, q2, N, N2
  <2>5. PendAt(q, N, n, 0, -1, 0)
    BY <2>4 DEF PendAt
  <2>6. PendAt(q2, N2, n, 0, 0, 0)
    <3>1. PICK z \in Nat, y \in Int : z = 0 /\ y = -1
      OBVIOUS
    <3>2. /\ q2[N2].pid = n /\ Rank(q2[N2], z) = z /\ z = y + 1 /\ z <= z /\ z \in Int
          /\ \A i \in 0 .. N : q[i].pid = n => Rank(q[i], z) = Rank(q[i], z)
      BY <1>1, <2>3, <3>1
    <3>3. PendAt(q, N, n, z, y, z)
      BY <2>5, <3>1
    <3>4. PendAt(q2, N2, n, z, z, z)
      BY <2>3, <3>2, <3>3, PendPush
    <3> QED BY <3>1, <3>4
  <2>7. Pend(n, 0)' /\ Waits(n, 0)'
    <3>1. Pend(n, 0)'
      BY <1>1, <2>2, <2>6 DEF q2, N2, Pend
    <3> QED BY <2>1, <3>1 DEF Waits
  <2> QED BY <2>7 DEF Staged, Stage
<1>8. \A p \in 2 .. next' - 1 : p \in 2 .. next - 1 \/ p = n
  BY <1>1, <1>2
<1> QED BY <1>3, <1>4, <1>5, <1>6, <1>7, <1>8 DEF Served

(* A process that is not over, before the computer's last record.          *)
LEMMA Speaking ==
  ASSUME Types, Served, Started, ~Over, NEW p \in alive
  PROVE  /\ p \in PID /\ p \in 2 .. next - 1 /\ Top(p) = Chunks(p) /\ Chunks(p) \in Nat
         /\ \E low \in Nat : /\ Pend(p, low) /\ low <= Chunks(p) + 1
                             /\ Waits(p, low) \/ Open(p, low)
         /\ \A len \in Nat : \A i \in 0 .. Len(pipe) : LET x == QOf(msg, pipe)[i] IN
              x.pid = p => Rank(x, len) = Rank(x, Chunks(p))
<1>1. p \in PID /\ p \in 2 .. next - 1
  BY Constants DEF Types, ControlOK, PID
<1>2. Chunks(p) \in Nat /\ Top(p) = Chunks(p)
  BY <1>1, StageTyped
<1>3. On(paper, p) = {}
  BY DEF Served, ComputerOK
<1>4. PICK low \in Nat : Stage(p, low)
  BY <1>1 DEF Served, Staged
<1>5. ~Closing(p, low) /\ ~Done(p, low)
  BY <1>3 DEF Closing, Done
<1>6. low <= Chunks(p) + 1
  BY <1>2, <1>4, <1>5 DEF Stage, Waits, Open
<1>7. ASSUME NEW len \in Nat, NEW i \in 0 .. Len(pipe), QOf(msg, pipe)[i].pid = p
      PROVE  Rank(QOf(msg, pipe)[i], len) = Rank(QOf(msg, pipe)[i], Chunks(p))
  <2> DEFINE x == QOf(msg, pipe)[i]
             c == Chunks(p)
  <2>1. Rank(x, c) \in low .. c
    BY <1>2, <1>4, <1>7 DEF Stage, Pend, PendAt
  <2>2. c \in Nat
    BY <1>2
  <2> HIDE DEF x, c
  <2>3. x.type \in {"INIT_SPOOL", "PRINT_REQ"}
    BY <2>1, <2>2 DEF Rank
  <2>4. Rank(x, len) = Rank(x, c)
    BY <2>3 DEF Rank
  <2> QED BY <2>4 DEF x, c
<1> QED BY <1>1, <1>2, <1>4, <1>5, <1>6, <1>7 DEF Stage

LEMMA ServedPrintChunk ==
  ASSUME Types, Types', Served, Started, PrintChunk
  PROVE  Served'
<1>1. PICK p : p = job.pid
  OBVIOUS
<1>2. PICK c : /\ \E full \in BOOLEAN : c = [run |-> run, n |-> Len(printed[p]) + 1, full |-> full]
               /\ Goes("print", IF job.left = 1 THEN "run" ELSE "print")
               /\ Write(Record(p, "PRINT_REQ", c))
               /\ printed' = [printed EXCEPT ![p] = Append(@, c)]
               /\ UNCHANGED <<next, alive, answer, child, disk>>
  BY <1>1 DEF PrintChunk
<1> DEFINE r == Record(p, "PRINT_REQ", c)
<1>3. /\ QueueOK /\ ChildOK /\ ComputerOK /\ \A u \in 2 .. next - 1 : Staged(u)
  BY DEF Served
<1>4. /\ pc = "print" /\ pc' # "off" /\ pipe' = Append(pipe, r) /\ ~Over /\ p \in alive
      /\ printed' = [printed EXCEPT ![p] = Append(@, c)] /\ printed \in [PID -> Seq(Chunk)]
      /\ UNCHANGED <<next, alive, child, disk, msg>>
  BY <1>1, <1>2 DEF Goes, Write, Over, child, Types, PrintedOK
<1>5. /\ p \in PID /\ p \in 2 .. next - 1 /\ Top(p) = Chunks(p) /\ Chunks(p) \in Nat
      /\ next \in Nat /\ 2 .. next - 1 \subseteq PID
  BY <1>4, Speaking, Constants DEF Types, ControlOK, PID
<1>6. c \in Chunk /\ c.n = Len(printed[p]) + 1
  <2>1. /\ Len(printed[p]) <= MaxChunks /\ MaxPID \in Nat \ {0} /\ MaxChunks \in Nat
        /\ run \in 0 .. MaxRuns
    BY <1>5, Constants DEF Types, PrintedOK, ControlOK
  <2>2. Len(printed[p]) \in Nat
    BY <1>4, <1>5
  <2>3. PICK full \in BOOLEAN : c = [run |-> run, n |-> Len(printed[p]) + 1, full |-> full]
    BY <1>2
  <2> QED BY <2>1, <2>2, <2>3 DEF Chunk
<1>7. r \in Sent /\ r.pid = p /\ r.type = "PRINT_REQ" /\ r.chunk = c
  BY <1>5, <1>6 DEF Sent, Record, Work
<1>8. Rank(r, Chunks(p) + 1) = Chunks(p) + 1
  BY <1>6, <1>7 DEF Rank, Chunks
<1> HIDE DEF r
<1>9. /\ \A u \in PID : u # p => printed'[u] = printed[u]
      /\ printed'[p] = Append(printed[p], c) /\ printed[p] \in Seq(Chunk)
  BY <1>4, <1>5
<1>10. /\ Len(printed'[p]) = Chunks(p) + 1 /\ printed'[p][Chunks(p) + 1] = c
       /\ \A k \in 1 .. Chunks(p) : printed'[p][k] = printed[p][k]
  BY <1>6, <1>9 DEF Chunks
<1>11. QueueOK'
  <2>1. Genuine(r)'
    <3>1. r.chunk.n \in 1 .. Len(printed'[p]) /\ r.chunk = printed'[p][r.chunk.n]
      BY <1>5, <1>6, <1>7, <1>10 DEF Chunks
    <3> QED BY <1>4, <1>5, <1>7, <3>1 DEF Genuine, Chunks
  <2>2. ASSUME NEW x \in Sent \union {NoRecord}, Genuine(x) PROVE Genuine(x)'
    <3>1. x.type \in Work => x.pid \in 2 .. next' - 1
      BY <1>4, <2>2 DEF Genuine
    <3>2. ASSUME x.type = "PRINT_REQ"
          PROVE  x.chunk.n \in 1 .. Len(printed'[x.pid]) /\ x.chunk = printed'[x.pid][x.chunk.n]
      <4>1. /\ x.pid \in 2 .. next - 1 /\ x.chunk.n \in 1 .. Len(printed[x.pid])
            /\ x.chunk = printed[x.pid][x.chunk.n]
        BY <2>2, <3>2 DEF Genuine, Chunks, Work
      <4>2. CASE x.pid = p
        <5>1. x.chunk.n \in 1 .. Chunks(p)
          BY <4>1, <4>2 DEF Chunks
        <5>2. x.chunk.n \in 1 .. Chunks(p) + 1 /\ printed'[p][x.chunk.n] = printed[p][x.chunk.n]
          BY <1>5, <1>10, <5>1
        <5> QED BY <1>10, <4>1, <4>2, <5>2
      <4>3. CASE x.pid # p
        BY <1>5, <1>9, <4>1, <4>3
      <4> QED BY <4>2, <4>3
    <3> QED BY <3>1, <3>2 DEF Genuine, Chunks
  <2>3. r.type # "PRINT_TERM"
    BY <1>7
  <2> QED BY <1>3, <1>4, <1>7, <2>1, <2>2, <2>3, QueuePush
<1>12. ChildOK'
  BY <1>3, <1>4 DEF ChildOK, child, disk
<1>13. ComputerOK'
  <2>1. \A u \in PID : u >= next => u # p
    BY <1>5
  <2> QED BY <1>3, <1>4, <1>9, <2>1 DEF ComputerOK, Files, printer_dump_spool, child, disk, Over
<1>14. ASSUME NEW u \in 2 .. next - 1, u # p PROVE Staged(u)'
  <2>1. u \in PID /\ r.pid # u /\ printed'[u] = printed[u]
    BY <1>5, <1>7, <1>9, <1>14
  <2>2. PICK low \in Nat : Stage(u, low)
    BY <1>3, <1>14 DEF Staged
  <2>3. Stage(u, low)'
    BY <1>4, <1>7, <2>1, <2>2, StagePush
  <2> QED BY <2>3 DEF Staged
<1>15. Staged(p)'
  <2>1. PICK low \in Nat : /\ Pend(p, low) /\ low <= Chunks(p) + 1
                           /\ Waits(p, low) \/ Open(p, low)
    BY <1>4, Speaking
  <2>2. Chunks(p)' = Chunks(p) + 1 /\ Top(p)' = Chunks(p) + 1
    BY <1>4, <1>5, <1>10 DEF Chunks, Top
  <2>3. Pend(p, low)'
    <3>1. PICK len \in Nat : len = Chunks(p) + 1
      BY <1>5
    <3>2. \A i \in 0 .. Len(pipe) : LET x == QOf(msg, pipe)[i] IN
              x.pid = p => Rank(x, len) = Rank(x, Chunks(p))
      BY <1>4, Speaking
    <3>3. Rank(r, len) = Top(p) + 1 /\ low <= Top(p) + 1 /\ Chunks(p)' = len /\ Top(p)' = Top(p) + 1
      BY <1>5, <1>8, <2>1, <2>2, <3>1
    <3>4. /\ Len(pipe') = Len(pipe) + 1 /\ QOf(msg', pipe')[Len(pipe')] = r /\ r.pid = p
          /\ \A i \in 0 .. Len(pipe) : QOf(msg', pipe')[i] = QOf(msg, pipe)[i]
      BY <1>4, <1>7, PushFacts
    <3> QED BY <1>5, <2>1, <3>2, <3>3, <3>4, PendOwn
  <2>4. Waits(p, low) => Waits(p, low)'
    BY <1>4 DEF Waits, Files, printer_dump_spool, disk
  <2>5. ASSUME Open(p, low) PROVE Open(p, low)'
    <3>1. low \in 1 .. Chunks(p) + 1 /\ low \in 1 .. (Chunks(p) + 1) + 1
      BY <1>5, <2>5 DEF Open
    <3>2. \A j \in 1 .. low - 1 : printed'[p][j] = printed[p][j]
      BY <1>5, <1>10, <3>1
    <3>3. Text(printed'[p], p, low - 1) = Text(printed[p], p, low - 1)
      BY <3>2, TextSame
    <3> QED BY <1>4, <2>2, <2>5, <3>1, <3>3
        DEF Open, Files, printer_dump_spool, disk, child, Removes
  <2> QED BY <2>1, <2>3, <2>4, <2>5 DEF Staged, Stage
<1> QED BY <1>4, <1>11, <1>12, <1>13, <1>14, <1>15 DEF Served

LEMMA ServedExit ==
  ASSUME Types, Served, Started, Exit
  PROVE  Served'
<1>1. PICK p \in alive : Write(Record(p, "END_SPOOL", NoChunk)) /\ alive' = alive \ {p}
  BY DEF Exit
<1> DEFINE r == Record(p, "END_SPOOL", NoChunk)
<1>2. QueueOK /\ ChildOK /\ ComputerOK /\ \A u \in 2 .. next - 1 : Staged(u)
  BY DEF Served
<1>3. /\ pc = "run" /\ ~Over /\ pipe' = Append(pipe, r)
      /\ UNCHANGED <<pc, next, child, disk, printed, msg>>
  BY <1>1 DEF Exit, Over, Write, child
<1>4. /\ p \in PID /\ p \in 2 .. next - 1 /\ Top(p) = Chunks(p) /\ Chunks(p) \in Nat
      /\ next \in Nat /\ 2 .. next - 1 \subseteq PID
  BY <1>1, <1>3, Speaking, Constants DEF Types, ControlOK, PID
<1>5. /\ r \in Sent /\ r.pid = p /\ r.type = "END_SPOOL" /\ Rank(r, Chunks(p)) = Chunks(p) + 1
  BY <1>4, Constants DEF Sent, Record, Work, Rank
<1> HIDE DEF r
<1>6. QueueOK'
  <2>1. Genuine(r)'
    BY <1>3, <1>4, <1>5 DEF Genuine
  <2>2. \A x \in Sent \union {NoRecord} : Genuine(x) => Genuine(x)'
    BY <1>3 DEF Genuine, Chunks
  <2>3. r.type # "PRINT_TERM"
    BY <1>5
  <2> QED BY <1>2, <1>3, <1>5, <2>1, <2>2, <2>3, QueuePush
<1>7. ChildOK'
  BY <1>2, <1>3 DEF ChildOK, child, disk
<1>8. ComputerOK'
  BY <1>1, <1>2, <1>3 DEF ComputerOK, Files, printer_dump_spool, child, disk, Over
<1>9. ASSUME NEW u \in 2 .. next - 1, u # p PROVE Staged(u)'
  <2>1. u \in PID /\ r.pid # u /\ (u \in alive' <=> u \in alive) /\ printed'[u] = printed[u]
    BY <1>1, <1>3, <1>4, <1>5, <1>9
  <2>2. PICK low \in Nat : Stage(u, low)
    BY <1>2, <1>9 DEF Staged
  <2>3. Stage(u, low)'
    BY <1>3, <1>5, <2>1, <2>2, StagePush
  <2> QED BY <2>3 DEF Staged
<1>10. Staged(p)'
  <2>1. PICK low \in Nat : /\ Pend(p, low) /\ low <= Chunks(p) + 1
                           /\ Waits(p, low) \/ Open(p, low)
    BY <1>1, <1>3, Speaking
  <2>2. Chunks(p)' = Chunks(p) /\ Top(p)' = Chunks(p) + 1
    BY <1>1, <1>3, <1>4 DEF Chunks, Top
  <2>3. Pend(p, low)'
    <3>1. PICK len \in Nat : len = Chunks(p)
      BY <1>4
    <3>2. \A i \in 0 .. Len(pipe) : LET x == QOf(msg, pipe)[i] IN
              x.pid = p => Rank(x, len) = Rank(x, Chunks(p))
      BY <3>1
    <3>3. Rank(r, len) = Top(p) + 1 /\ low <= Top(p) + 1 /\ Chunks(p)' = len /\ Top(p)' = Top(p) + 1
      BY <1>4, <1>5, <2>1, <2>2, <3>1
    <3>4. /\ Len(pipe') = Len(pipe) + 1 /\ QOf(msg', pipe')[Len(pipe')] = r /\ r.pid = p
          /\ \A i \in 0 .. Len(pipe) : QOf(msg', pipe')[i] = QOf(msg, pipe)[i]
      BY <1>3, <1>5, PushFacts
    <3> QED BY <1>4, <2>1, <3>2, <3>3, <3>4, PendOwn
  <2>4. Waits(p, low) => Waits(p, low)'
    BY <1>3 DEF Waits, Files, printer_dump_spool, disk
  <2>5. Open(p, low) => Open(p, low)'
    BY <1>3, <2>2 DEF Open, Files, printer_dump_spool, disk, child, Removes
  <2> QED BY <2>1, <2>3, <2>4, <2>5 DEF Staged, Stage
<1> QED BY <1>3, <1>6, <1>7, <1>8, <1>9, <1>10 DEF Served

-----------------------------------------------------------------------------
(* The steps of the printer.                                               *)
LEMMA PendSkip ==
  ASSUME Types, NEW p \in PID, NEW low \in Nat, Pend(p, low), msg.pid # p, msg'.pid # p,
         UNCHANGED <<pipe, printed, alive>>
  PROVE  Pend(p, low)'
<1> DEFINE q == QOf(msg, pipe)
           q2 == QOf(msg', pipe)
           N == Len(pipe)
           top == Top(p)
           len == Chunks(p)
<1>1. N \in Nat /\ len \in Nat /\ top \in Int
  BY StageTyped
<1>2. q[0].pid # p /\ q2[0].pid # p /\ \A i \in 1 .. N : q2[i] = q[i]
  BY <1>1 DEF QOf
<1>3. PendAt(q, N, p, len, top, low)
  BY DEF Pend
<1>4. Chunks(p)' = len /\ Top(p)' = top
  BY DEF Chunks, Top
<1> HIDE DEF q, q2, N, top, len
<1>5. PendAt(q2, N, p, len, top, low)
  BY <1>1, <1>2, <1>3, PendOther, SMTT(30)
<1> QED BY <1>4, <1>5 DEF q2, N, Pend

LEMMA PendHead ==
  ASSUME Types, NEW p \in PID, NEW low \in Nat, Pend(p, low), msg.pid = p
  PROVE  low <= Top(p) /\ Rank(msg, Chunks(p)) = low
<1> DEFINE q == QOf(msg, pipe)
           N == Len(pipe)
           top == Top(p)
           len == Chunks(p)
<1>1. N \in Nat /\ len \in Nat /\ top \in Int
  BY StageTyped
<1>2. q[0] = msg /\ q[0].pid = p
  BY <1>1 DEF QOf
<1>3. PendAt(q, N, p, len, top, low)
  BY DEF Pend
<1> HIDE DEF q, N, top, len
<1>4. low <= top /\ Rank(q[0], len) = low
  BY <1>1, <1>2, <1>3, PendFirst
<1> QED BY <1>2, <1>4 DEF top, len

LEMMA PendHandled ==
  ASSUME Types, NEW p \in PID, NEW low \in Nat, Pend(p, low), msg.pid = p, msg'.pid # p,
         UNCHANGED <<pipe, printed, alive>>
  PROVE  Pend(p, low + 1)'
<1> DEFINE q == QOf(msg, pipe)
           q2 == QOf(msg', pipe)
           N == Len(pipe)
           top == Top(p)
           len == Chunks(p)
<1>1. N \in Nat /\ len \in Nat /\ top \in Int
  BY StageTyped
<1>2. q[0].pid = p /\ q2[0].pid # p /\ \A i \in 1 .. N : q2[i] = q[i]
  BY <1>1 DEF QOf
<1>3. PendAt(q, N, p, len, top, low)
  BY DEF Pend
<1>4. Chunks(p)' = len /\ Top(p)' = top
  BY DEF Chunks, Top
<1> HIDE DEF q, q2, N, top, len
<1>5. PendAt(q2, N, p, len, top, low + 1)
  BY <1>1, <1>2, <1>3, PendPop
<1> QED BY <1>4, <1>5 DEF q2, N, Pend

LEMMA QueueHandled ==
  ASSUME QueueOK, UNCHANGED <<computer, pipe, printed>>, msg' \in {msg, NoRecord}
  PROVE  QueueOK'
<1>1. \A x : Genuine(x) => Genuine(x)'
  BY DEF Genuine, Chunks, computer
<1>2. Genuine(NoRecord) /\ NoRecord.type # "PRINT_TERM"
  BY DEF Genuine, NoRecord, Record, Work
<1>3. Genuine(msg)'
  BY <1>2 DEF QueueOK, Genuine, Chunks, computer
<1>4. \A i \in 1 .. Len(pipe) : Genuine(pipe[i])'
  BY DEF QueueOK, Genuine, Chunks, computer
<1>5. Over' <=> Over
  BY DEF Over, computer
<1> QED BY <1>2, <1>3, <1>4, <1>5 DEF QueueOK

LEMMA ComputerStays ==
  ASSUME ComputerOK, UNCHANGED <<computer, printed>>, printer \notin {"none", "killed"},
         NEW n, n \in 2 .. next - 1, next \in Nat, Files' \subseteq Files \union {n},
         \A u \in PID : u # n => On(paper', u) = On(paper, u),
         n \in alive => On(paper', n) = On(paper, n) \/ Over,
         alive \subseteq PID
  PROVE  ComputerOK'
<1>1. \A u \in PID : u >= next => u # n
  OBVIOUS
<1> QED BY <1>1 DEF ComputerOK, computer, Over

LEMMA FilesPut ==
  ASSUME Types, spool # NoDir, NEW p \in PID, NEW text \in Seq(Chunk), spool' = Put(p, text)
  PROVE  /\ Files' = Files \union {p} /\ spool' # NoDir /\ spool'[p] = text
         /\ \A u \in Files : u # p => spool'[u] = spool[u]
<1>1. PICK D \in SUBSET PID : spool \in [D -> Seq(Chunk)]
  BY DEF Types, DiskOK
<1>2. /\ spool' \in [D \union {p} -> Seq(Chunk)] /\ spool' # NoDir /\ spool'[p] = text
      /\ \A u \in D : u # p => spool'[u] = spool[u]
  BY <1>1, PutFacts, ZenonT(60)
<1>3. Files = D /\ Files' = D \union {p}
  BY <1>1, <1>2 DEF Files, printer_dump_spool
<1> QED BY <1>2, <1>3

LEMMA FilesWithout ==
  ASSUME Types, spool # NoDir, NEW p, spool' = Without(spool, p)
  PROVE  /\ Files' = Files \ {p} /\ spool' # NoDir
         /\ \A u \in Files : u # p => spool'[u] = spool[u]
<1>1. PICK D \in SUBSET PID : spool \in [D -> Seq(Chunk)]
  BY DEF Types, DiskOK
<1>2. /\ spool' \in [D \ {p} -> Seq(Chunk)] /\ spool' # NoDir
      /\ \A u \in D : u # p => spool'[u] = spool[u]
  BY <1>1, WithoutFacts
<1>3. Files = D /\ Files' = D \ {p}
  BY <1>1, <1>2 DEF Files, printer_dump_spool
<1> QED BY <1>2, <1>3

LEMMA FilesText ==
  ASSUME Types, NEW p \in Files
  PROVE  p \in PID /\ spool # NoDir /\ spool[p] \in Seq(Chunk) /\ Files = DOMAIN spool
<1>1. spool # NoDir /\ Files = DOMAIN spool
  BY DEF Files, printer_dump_spool
<1>2. PICK D \in SUBSET PID : spool \in [D -> Seq(Chunk)]
  BY <1>1 DEF Types, DiskOK
<1> QED BY <1>1, <1>2

(* The printer works on a record of a process.                             *)
LEMMA Working ==
  ASSUME Types, Served, Started, msg.type \in Work, NEW p, p = msg.pid
  PROVE  /\ p \in PID /\ p \in 2 .. next - 1 /\ next \in Nat /\ 2 .. next - 1 \subseteq PID
         /\ alive \subseteq PID /\ Chunks(p) \in Nat
         /\ \E low \in Nat : /\ Stage(p, low) /\ ~Done(p, low)
                             /\ low <= Top(p) /\ Rank(msg, Chunks(p)) = low
<1>1. /\ p \in PID /\ p \in 2 .. next - 1 /\ next \in Nat /\ 2 .. next - 1 \subseteq PID
      /\ alive \subseteq PID
  BY Constants DEF Types, ControlOK, PID, Served, QueueOK, Genuine
<1>2. PICK low \in Nat : Stage(p, low)
  BY <1>1 DEF Served, Staged
<1>3. low <= Top(p) /\ Rank(msg, Chunks(p)) = low
  BY <1>1, <1>2, PendHead DEF Stage
<1>4. ~Done(p, low)
  BY <1>1, <1>3, StageTyped DEF Done
<1> QED BY <1>1, <1>2, <1>3, <1>4, StageTyped

(* Processes it does not work on.                                          *)
LEMMA OthersStay ==
  ASSUME Types, Served, Started, msg' \in {msg, NoRecord}, UNCHANGED <<computer, pipe, printed>>,
         printer # "killed", NEW u \in PID, u \in 2 .. next - 1, msg.pid # u,
         u \in Files' <=> u \in Files, u \in Files => spool'[u] = spool[u],
         On(paper', u) = On(paper, u), \A i \in On(paper, u) : paper'[i] = paper[i]
  PROVE  Staged(u)'
<1>1. PICK low \in Nat : Stage(u, low)
  BY DEF Served, Staged
<1>2. msg.pid # u /\ msg'.pid # u
  <2>1. NoRecord.pid = 0 /\ u # 0
    BY Constants DEF NoRecord, Record
  <2> QED BY <2>1
<1>3. Pend(u, low)'
  BY <1>1, <1>2, PendSkip DEF Stage, computer
<1>4. ~Removes(u) /\ ~Removes(u)'
  BY <1>2 DEF Removes
<1>5. Stage(u, low)'
  BY <1>1, <1>3, <1>4, StageOther DEF computer
<1> QED BY <1>5 DEF Staged

LEMMA ServedRead ==
  ASSUME Types, Types', Served, Started, Read
  PROVE  Served'
<1>1. /\ QueueOK /\ ChildOK /\ ComputerOK /\ \A p \in 2 .. next - 1 : Staged(p)
      /\ next \in Nat /\ 2 .. next - 1 \subseteq PID
  BY Constants DEF Served, Types, ControlOK, PID
<1>2. /\ msg = NoRecord /\ pipe \in Seq(Sent) /\ pipe # <<>>
      /\ msg' = Head(pipe) /\ pipe' = Tail(pipe)
      /\ printer = "read" /\ UNCHANGED <<computer, disk, printed>>
  BY <1>1 DEF Read, ChildOK, Types, RecordsOK
<1>3. /\ Len(pipe) \in Nat /\ Len(pipe') \in Nat /\ Len(pipe) = Len(pipe') + 1 /\ msg' = pipe[1]
      /\ \A i \in 1 .. Len(pipe') : pipe'[i] = pipe[i + 1]
  BY <1>2
<1>4. QueueOK'
  <2>1. Genuine(msg)' /\ (msg'.type = "PRINT_TERM" => pipe' = <<>> /\ Over')
    <3>1. 1 \in 1 .. Len(pipe)
      BY <1>3
    <3>2. Genuine(pipe[1]) /\ (pipe[1].type = "PRINT_TERM" => 1 = Len(pipe) /\ Over)
      BY <1>1, <3>1 DEF QueueOK
    <3>3. Genuine(msg)'
      BY <1>2, <1>3, <3>2 DEF Genuine, Chunks, computer
    <3>4. ASSUME msg'.type = "PRINT_TERM" PROVE pipe' = <<>> /\ Over'
      <4>1. Len(pipe') = 0 /\ Over
        BY <1>3, <3>2, <3>4
      <4>2. pipe' \in Seq(Sent)
        BY <1>2
      <4>3. pipe' = <<>>
        BY <4>1, <4>2
      <4> QED BY <1>2, <4>1, <4>3 DEF Over, computer
    <3> QED BY <3>3, <3>4
  <2>2. ASSUME NEW i \in 1 .. Len(pipe')
        PROVE  Genuine(pipe[i])' /\ (pipe'[i].type = "PRINT_TERM" => i = Len(pipe') /\ Over')
    <3>1. PICK j : j = i + 1
      OBVIOUS
    <3>2. j \in 1 .. Len(pipe) /\ pipe'[i] = pipe[j] /\ (j = Len(pipe) => i = Len(pipe'))
      BY <1>3, <3>1
    <3>3. Genuine(pipe[j]) /\ (pipe[j].type = "PRINT_TERM" => j = Len(pipe) /\ Over)
      BY <1>1, <3>2 DEF QueueOK
    <3> QED BY <1>2, <3>2, <3>3 DEF Genuine, Chunks, computer, Over
  <2> QED BY <2>1, <2>2 DEF QueueOK
<1>5. ChildOK'
  <2>1. spool' # NoDir
    BY <1>2 DEF disk, Types, DiskOK
  <2>2. printer' \in Handling
    <3>1. msg' \in Sent /\ printer' = msg'.type
      BY <1>2 DEF Read
    <3> QED BY <3>1, Records
  <2> QED BY <2>1, <2>2 DEF ChildOK, Handling, Work
<1>6. ComputerOK'
  BY <1>1, <1>2 DEF ComputerOK, Files, printer_dump_spool, computer, disk, Over
<1>7. ASSUME NEW p \in 2 .. next - 1 PROVE Staged(p)'
  <2>1. PICK low \in Nat : Stage(p, low)
    BY <1>1 DEF Staged
  <2>2. p \in PID /\ p # 0 /\ NoRecord.pid = 0
    BY <1>1, Constants DEF NoRecord, Record
  <2>3. Pend(p, low)'
    <3> DEFINE q == QOf(msg, pipe)
               q2 == QOf(msg', pipe')
               N == Len(pipe)
               N2 == Len(pipe')
               top == Top(p)
               len == Chunks(p)
    <3>1. N \in Nat /\ N2 \in Nat /\ N = N2 + 1 /\ len \in Nat /\ top \in Int
      BY <1>3, <2>2, StageTyped
    <3>2. q[0].pid # p
      BY <1>2, <1>3, <2>2 DEF QOf
    <3>3. \A i \in 0 .. N2 : q2[i] = q[i + 1]
      <4>1. \A i \in 0 .. N2 : q[i + 1] = pipe[i + 1]
        BY <1>3 DEF QOf
      <4>2. \A i \in 0 .. N2 : q2[i] = pipe[i + 1]
        BY <1>3 DEF QOf
      <4> QED BY <4>1, <4>2
    <3>4. PendAt(q, N, p, len, top, low)
      BY <2>1 DEF Stage, Pend
    <3>5. Chunks(p)' = len /\ Top(p)' = top
      BY <1>2 DEF Chunks, Top, computer
    <3> HIDE DEF q, q2, N, N2, top, len
    <3>6. PendAt(q2, N2, p, len, top, low)
      BY <3>1, <3>2, <3>3, <3>4, PendShift
    <3> QED BY <3>5, <3>6 DEF q2, N2, Pend
  <2>4. ~Removes(p) /\ ~Removes(p)'
    <3>1. msg' \in Sent /\ printer' = msg'.type
      BY <1>2 DEF Read
    <3>2. printer' \in Handling
      BY <3>1, Records
    <3> QED BY <1>2, <3>2 DEF Removes, Handling, Work
  <2>5. /\ UNCHANGED <<printed, alive>> /\ printer # "killed" /\ (p \in Files' <=> p \in Files)
        /\ p \in Files => spool'[p] = spool[p]
        /\ On(paper', p) = On(paper, p) /\ \A i \in On(paper, p) : paper'[i] = paper[i]
    BY <1>2 DEF computer, disk, Files, printer_dump_spool
  <2>6. Stage(p, low)'
    BY <2>1, <2>2, <2>3, <2>4, <2>5, StageOther
  <2> QED BY <2>6 DEF Staged
<1> QED BY <1>2, <1>4, <1>5, <1>6, <1>7 DEF Served, computer

LEMMA ServedInitSpool ==
  ASSUME Types, Served, Started, InitSpool
  PROVE  Served'
<1>1. QueueOK /\ ChildOK /\ ComputerOK
  BY DEF Served
<1>2. PICK p : p = msg.pid
  OBVIOUS
<1>3. /\ printer = "INIT_SPOOL" /\ printer' = "read" /\ msg' = NoRecord /\ spool' = Put(p, <<>>)
      /\ msg.type = "INIT_SPOOL" /\ msg.type \in Work /\ spool # NoDir
      /\ UNCHANGED <<computer, pipe, answer, paper, printed, alive>>
  BY <1>2 DEF InitSpool, Handled, Types, RecordsOK, DiskOK, Handling, Work, computer
<1>4. /\ p \in PID /\ p \in 2 .. next - 1 /\ next \in Nat /\ 2 .. next - 1 \subseteq PID
      /\ alive \subseteq PID /\ Chunks(p) \in Nat
      /\ \E low \in Nat : /\ Stage(p, low) /\ ~Done(p, low)
                          /\ low <= Top(p) /\ Rank(msg, Chunks(p)) = low
  BY <1>2, <1>3, Working
<1>5. PICK low \in Nat : /\ Stage(p, low) /\ ~Done(p, low)
                         /\ low <= Top(p) /\ Rank(msg, Chunks(p)) = low
  BY <1>4
<1>6. /\ Files' = Files \union {p} /\ spool' # NoDir /\ spool'[p] = <<>>
      /\ \A u \in Files : u # p => spool'[u] = spool[u]
  <2>1. <<>> \in Seq(Chunk)
    OBVIOUS
  <2> QED BY <1>3, <1>4, <2>1, FilesPut
<1>7. QueueOK'
  BY <1>1, <1>3, QueueHandled
<1>8. ChildOK'
  BY <1>3, <1>6 DEF ChildOK
<1>9. ComputerOK'
  BY <1>1, <1>3, <1>4, <1>6, ComputerStays
<1>10. ASSUME NEW u \in 2 .. next - 1, u # p PROVE Staged(u)'
  <2>1. /\ u \in PID /\ (u \in Files' <=> u \in Files) /\ (u \in Files => spool'[u] = spool[u])
        /\ On(paper', u) = On(paper, u) /\ \A i \in On(paper, u) : paper'[i] = paper[i]
        /\ printer # "killed" /\ msg.pid # u
    BY <1>2, <1>3, <1>4, <1>6, <1>10
  <2> QED BY <1>3, <1>10, <2>1, OthersStay
<1>11. Staged(p)'
  <2>1. low = 0
    BY <1>3, <1>5 DEF Rank
  <2>2. On(paper, p) = {}
    BY <1>4, <1>5, <2>1 DEF Stage, Waits, Open, Closing
  <2>3. Pend(p, low + 1)'
    <3>1. msg'.pid # p
      BY <1>3, <1>4, Constants DEF NoRecord, Record
    <3> QED BY <1>2, <1>3, <1>4, <1>5, <3>1, PendHandled DEF Stage
  <2>4. Chunks(p)' = Chunks(p)
    BY <1>3 DEF Chunks
  <2>5. Open(p, 1)'
    <3>1. Text(printed'[p], p, 1 - 1) = <<>>
      BY TextNone
    <3>2. 1 \in 1 .. Chunks(p) + 1
      BY <1>4
    <3> QED BY <1>3, <1>6, <2>2, <2>4, <3>1, <3>2 DEF Open, Removes
  <2>6. Stage(p, 1)'
    BY <2>1, <2>3, <2>5 DEF Stage
  <2> QED BY <2>6 DEF Staged
<1> QED BY <1>3, <1>7, <1>8, <1>9, <1>10, <1>11 DEF Served, computer

LEMMA ServedPrintReq ==
  ASSUME Types, Served, Started, PrintReq
  PROVE  Served'
<1>1. QueueOK /\ ChildOK /\ ComputerOK
  BY DEF Served
<1>2. PICK p : p = msg.pid
  OBVIOUS
<1>3. /\ printer = "PRINT_REQ" /\ printer' = "read" /\ msg' = NoRecord
      /\ spool' = Put(p, (IF p \in DOMAIN spool THEN spool[p] ELSE <<>>) \o Bytes(msg))
      /\ msg.type = "PRINT_REQ" /\ msg.type \in Work /\ spool # NoDir
      /\ UNCHANGED <<computer, pipe, answer, paper, printed, alive>>
  BY <1>2 DEF PrintReq, Handled, Types, RecordsOK, DiskOK, Handling, Work, computer
<1>4. /\ p \in PID /\ p \in 2 .. next - 1 /\ next \in Nat /\ 2 .. next - 1 \subseteq PID
      /\ alive \subseteq PID /\ Chunks(p) \in Nat
      /\ \E low \in Nat : /\ Stage(p, low) /\ ~Done(p, low)
                          /\ low <= Top(p) /\ Rank(msg, Chunks(p)) = low
  BY <1>2, <1>3, Working
<1>5. PICK low \in Nat : /\ Stage(p, low) /\ ~Done(p, low)
                         /\ low <= Top(p) /\ Rank(msg, Chunks(p)) = low
  BY <1>4
<1>6. msg.chunk.n = low /\ low \in 1 .. Chunks(p) /\ msg.chunk = printed[p][low]
  BY <1>1, <1>2, <1>3, <1>5 DEF Rank, QueueOK, Genuine
<1>7. Open(p, low)
  BY <1>3, <1>4, <1>5, <1>6 DEF Stage, Waits, Closing, Removes
<1>8. /\ p \in DOMAIN spool /\ spool[p] \in Seq(Chunk) /\ Bytes(msg) \in Seq(Chunk)
      /\ On(paper, p) = {}
  <2>1. p \in Files /\ On(paper, p) = {}
    BY <1>7 DEF Open
  <2>2. msg.chunk \in Chunk
    BY <1>3, WorkRecord DEF Types, RecordsOK
  <2>3. Bytes(msg) \in Seq(Chunk)
    BY <1>2, <1>4, <2>2, BytesType
  <2> QED BY <2>1, <2>3, FilesText
<1> DEFINE text == spool[p] \o Bytes(msg)
<1>9. text \in Seq(Chunk) /\ spool' = Put(p, text)
  <2>1. spool[p] \o Bytes(msg) \in Seq(Chunk)
    BY <1>8
  <2> QED BY <1>3, <1>8, <2>1
<1>10. text = Text(printed[p], p, low)
  <2>1. spool[p] = Text(printed[p], p, low - 1)
    BY <1>7 DEF Open
  <2>2. PICK k \in Nat : k = low - 1
    BY <1>6
  <2>3. low = k + 1 /\ low <= Len(printed[p]) /\ printed[p] \in Seq(Chunk)
    BY <1>4, <1>6, <2>2, StageTyped DEF Chunks
  <2>4. Text(printed[p], p, low) = Text(printed[p], p, k) \o Bytes(msg)
    <3>1. Text(printed[p], p, low)
            = Text(printed[p], p, k) \o Bytes(Record(p, "PRINT_REQ", printed[p][low]))
      BY <1>4, <2>3, TextNext
    <3>2. Bytes(msg) = Bytes(Record(p, "PRINT_REQ", printed[p][low]))
      BY <1>2, <1>6, BytesSame
    <3> QED BY <3>1, <3>2
  <2> QED BY <2>1, <2>2, <2>4
<1> HIDE DEF text
<1>11. /\ Files' = Files \union {p} /\ spool' # NoDir /\ spool'[p] = text
       /\ \A u \in Files : u # p => spool'[u] = spool[u]
  BY <1>3, <1>4, <1>9, FilesPut
<1>12. QueueOK'
  BY <1>1, <1>3, QueueHandled
<1>13. ChildOK'
  BY <1>3, <1>11 DEF ChildOK
<1>14. ComputerOK'
  BY <1>1, <1>3, <1>4, <1>11, ComputerStays
<1>15. ASSUME NEW u \in 2 .. next - 1, u # p PROVE Staged(u)'
  <2>1. /\ u \in PID /\ (u \in Files' <=> u \in Files) /\ (u \in Files => spool'[u] = spool[u])
        /\ On(paper', u) = On(paper, u) /\ \A i \in On(paper, u) : paper'[i] = paper[i]
        /\ printer # "killed" /\ msg.pid # u
    BY <1>2, <1>3, <1>4, <1>11, <1>15
  <2> QED BY <1>3, <1>15, <2>1, OthersStay
<1>16. Staged(p)'
  <2>1. Pend(p, low + 1)'
    <3>1. msg'.pid # p
      BY <1>3, <1>4, Constants DEF NoRecord, Record
    <3> QED BY <1>2, <1>3, <1>4, <1>5, <3>1, PendHandled DEF Stage
  <2>2. Chunks(p)' = Chunks(p) /\ low + 1 - 1 = low /\ low + 1 \in 1 .. Chunks(p) + 1
    BY <1>3, <1>4, <1>6 DEF Chunks
  <2>3. Open(p, low + 1)'
    BY <1>3, <1>8, <1>10, <1>11, <2>2 DEF Open, Removes
  <2>4. Stage(p, low + 1)'
    BY <2>1, <2>3 DEF Stage
  <2> QED BY <2>4 DEF Staged
<1> QED BY <1>3, <1>12, <1>13, <1>14, <1>15, <1>16 DEF Served, computer

(* The page of a process whose records are all handled.                    *)
LEMMA EndOpen ==
  ASSUME Types, Served, Started, msg.type = "END_SPOOL", printer \notin {"killed", "remove"},
         NEW p, p = msg.pid
  PROVE  /\ Stage(p, Chunks(p) + 1) /\ Open(p, Chunks(p) + 1) /\ p \notin alive
         /\ spool[p] = All(p) /\ p \in Files /\ On(paper, p) = {}
<1>1. /\ p \in PID /\ Chunks(p) \in Nat
      /\ \E low \in Nat : /\ Stage(p, low) /\ ~Done(p, low)
                          /\ low <= Top(p) /\ Rank(msg, Chunks(p)) = low
  BY Working DEF Work
<1>2. PICK low \in Nat : /\ Stage(p, low) /\ ~Done(p, low)
                         /\ low <= Top(p) /\ Rank(msg, Chunks(p)) = low
  BY <1>1
<1>3. low = Chunks(p) + 1
  BY <1>2 DEF Rank
<1>4. p \notin alive
  BY <1>1, <1>2, <1>3, StageTyped
<1>5. Open(p, low)
  BY <1>1, <1>2, <1>3 DEF Stage, Waits, Closing, Removes
<1>6. spool[p] = All(p)
  BY <1>1, <1>3, <1>5 DEF Open, All
<1> QED BY <1>2, <1>3, <1>4, <1>5, <1>6 DEF Open

LEMMA ServedEndSpool ==
  ASSUME Types, Served, Started, EndSpool
  PROVE  Served'
<1>1. QueueOK /\ ChildOK /\ ComputerOK
  BY DEF Served
<1>2. PICK p : p = msg.pid
  OBVIOUS
<1>3. /\ printer = "END_SPOOL" /\ msg.type = "END_SPOOL" /\ msg.type \in Work
      /\ UNCHANGED <<computer, pipe, answer, spool, printed, alive>>
  BY <1>2 DEF EndSpool, Types, RecordsOK, Handling, Work, computer
<1>4. /\ p \in PID /\ p \in 2 .. next - 1 /\ next \in Nat /\ 2 .. next - 1 \subseteq PID
      /\ alive \subseteq PID /\ Chunks(p) \in Nat
  BY <1>2, <1>3, Working
<1>5. /\ Stage(p, Chunks(p) + 1) /\ Open(p, Chunks(p) + 1) /\ p \notin alive
      /\ spool[p] = All(p) /\ p \in Files /\ On(paper, p) = {}
  BY <1>2, <1>3, EndOpen
<1>6. p \in DOMAIN spool /\ spool[p] \in Seq(Chunk)
  BY <1>5, FilesText
<1> DEFINE pg == [pid |-> p, text |-> spool[p], partial |-> FALSE]
<1>7. printer' = "remove" /\ paper' = Append(paper, pg) /\ UNCHANGED msg
  BY <1>2, <1>3, <1>6 DEF EndSpool, Page
<1>8. pg \in PageType /\ pg.pid = p /\ pg.text = spool[p] /\ ~pg.partial
  BY <1>4, <1>6 DEF PageType
<1> HIDE DEF pg
<1>9. /\ Len(paper') \in DOMAIN paper' /\ paper'[Len(paper')] = pg
      /\ On(paper', p) = {Len(paper')}
      /\ \A u : u # p => On(paper', u) = On(paper, u)
      /\ \A u : \A i \in On(paper, u) : paper'[i] = paper[i]
  <2>1. paper \in Seq(PageType)
    BY DEF Types, DiskOK
  <2> DEFINE new == Append(paper, pg)
  <2>2. /\ Len(new) \in DOMAIN new /\ new[Len(new)] = pg
        /\ \A u : pg.pid # u => On(new, u) = On(paper, u)
        /\ \A u : pg.pid = u /\ On(paper, u) = {} => On(new, u) = {Len(new)}
        /\ \A u : \A i \in On(paper, u) : new[i] = paper[i]
    BY <1>8, <2>1, OnAppend, Zenon
  <2> HIDE DEF new
  <2>3. paper' = new
    BY <1>7 DEF new
  <2> QED BY <1>5, <1>8, <2>2, <2>3
<1>10. Files' = Files
  BY <1>3 DEF Files, printer_dump_spool
<1>11. QueueOK'
  BY <1>1, <1>3, <1>7, QueueHandled
<1>12. ChildOK'
  BY <1>1, <1>3, <1>7 DEF ChildOK
<1>13. ComputerOK'
  BY <1>1, <1>3, <1>4, <1>5, <1>9, <1>10, ComputerStays
<1>14. ASSUME NEW u \in 2 .. next - 1, u # p PROVE Staged(u)'
  <2>1. /\ u \in PID /\ (u \in Files' <=> u \in Files) /\ (u \in Files => spool'[u] = spool[u])
        /\ On(paper', u) = On(paper, u) /\ \A i \in On(paper, u) : paper'[i] = paper[i]
        /\ printer # "killed" /\ msg.pid # u
    BY <1>2, <1>3, <1>4, <1>9, <1>10, <1>14
  <2> QED BY <1>3, <1>7, <1>14, <2>1, OthersStay
<1>15. Staged(p)'
  <2>1. Chunks(p)' = Chunks(p) /\ Top(p)' = Top(p) /\ All(p)' = All(p)
    BY <1>3 DEF Chunks, Top, All
  <2>2. Pend(p, Chunks(p) + 1)'
    BY <1>3, <1>5, <1>7, <2>1 DEF Stage, Pend
  <2>3. Closing(p, Chunks(p) + 1)'
    BY <1>2, <1>5, <1>7, <1>8, <1>9, <1>10, <2>1 DEF Closing, Removes
  <2>4. Chunks(p) + 1 \in Nat
    BY <1>4
  <2> QED BY <2>1, <2>2, <2>3, <2>4 DEF Stage, Staged
<1> QED BY <1>3, <1>11, <1>12, <1>13, <1>14, <1>15 DEF Served, computer

LEMMA ServedRemoveFile ==
  ASSUME Types, Served, Started, RemoveFile
  PROVE  Served'
<1>1. QueueOK /\ ChildOK /\ ComputerOK
  BY DEF Served
<1>2. PICK p : p = msg.pid
  OBVIOUS
<1>3. /\ printer = "remove" /\ printer' = "read" /\ msg' = NoRecord /\ spool' = Without(spool, p)
      /\ msg.type = "END_SPOOL" /\ msg.type \in Work /\ spool # NoDir
      /\ UNCHANGED <<computer, pipe, answer, paper, printed, alive>>
  BY <1>2 DEF RemoveFile, Handled, Types, RecordsOK, DiskOK, Handling, Work, computer
<1>4. /\ p \in PID /\ p \in 2 .. next - 1 /\ next \in Nat /\ 2 .. next - 1 \subseteq PID
      /\ alive \subseteq PID /\ Chunks(p) \in Nat
      /\ \E low \in Nat : /\ Stage(p, low) /\ ~Done(p, low)
                          /\ low <= Top(p) /\ Rank(msg, Chunks(p)) = low
  BY <1>2, <1>3, Working
<1>5. PICK low \in Nat : /\ Stage(p, low) /\ ~Done(p, low)
                         /\ low <= Top(p) /\ Rank(msg, Chunks(p)) = low
  BY <1>4
<1>6. low = Chunks(p) + 1 /\ Top(p) = low /\ p \notin alive
  <2>1. low = Chunks(p) + 1
    BY <1>3, <1>5 DEF Rank
  <2> QED BY <1>4, <1>5, <2>1, StageTyped
<1>7. Closing(p, low) /\ Removes(p)
  BY <1>2, <1>3, <1>4, <1>5, <1>6 DEF Stage, Waits, Open, Removes
<1>8. /\ Files' = Files \ {p} /\ spool' # NoDir
      /\ \A u \in Files : u # p => spool'[u] = spool[u]
  BY <1>3, FilesWithout
<1>9. QueueOK'
  BY <1>1, <1>3, QueueHandled
<1>10. ChildOK'
  BY <1>3, <1>8 DEF ChildOK
<1>11. ComputerOK'
  BY <1>1, <1>3, <1>4, <1>8, ComputerStays
<1>12. ASSUME NEW u \in 2 .. next - 1, u # p PROVE Staged(u)'
  <2>1. /\ u \in PID /\ (u \in Files' <=> u \in Files) /\ (u \in Files => spool'[u] = spool[u])
        /\ On(paper', u) = On(paper, u) /\ \A i \in On(paper, u) : paper'[i] = paper[i]
        /\ printer # "killed" /\ msg.pid # u
    BY <1>2, <1>3, <1>4, <1>8, <1>12
  <2> QED BY <1>3, <1>12, <2>1, OthersStay
<1>13. Staged(p)'
  <2>1. Pend(p, low + 1)'
    <3>1. msg'.pid # p
      BY <1>3, <1>4, Constants DEF NoRecord, Record
    <3> QED BY <1>2, <1>3, <1>4, <1>5, <3>1, PendHandled DEF Stage
  <2>2. Top(p)' = Top(p) /\ All(p)' = All(p)
    BY <1>3 DEF Chunks, Top, All
  <2>3. /\ Len(paper) \in DOMAIN paper /\ On(paper, p) = {Len(paper)}
        /\ paper[Len(paper)].text = All(p) /\ paper[Len(paper)].partial = FALSE
    <3>1. /\ On(paper, p) = {Len(paper)} /\ paper[Len(paper)].text = All(p)
          /\ ~paper[Len(paper)].partial
      BY <1>3, <1>7 DEF Closing
    <3>2. Len(paper) \in DOMAIN paper
      BY <3>1 DEF On
    <3>3. paper[Len(paper)].partial \in BOOLEAN
      <4>1. paper \in Seq(PageType)
        BY <1>4, StageTyped
      <4>2. paper[Len(paper)] \in PageType
        BY <3>2, <4>1
      <4> QED BY <4>2 DEF PageType
    <3> QED BY <3>1, <3>2, <3>3
  <2>4. Done(p, low + 1)'
    <3>1. low + 1 = Top(p)' + 1 /\ p \notin Files' /\ (p \in alive') = FALSE
      BY <1>3, <1>6, <1>8, <2>2
    <3>2. /\ On(paper', p) = {Len(paper)} /\ paper'[Len(paper)].text = All(p)'
          /\ paper'[Len(paper)].partial = FALSE /\ Len(paper) \in DOMAIN paper'
      BY <1>3, <2>2, <2>3
    <3> QED BY <3>1, <3>2 DEF Done
  <2>5. Stage(p, low + 1)'
    BY <2>1, <2>4 DEF Stage
  <2> QED BY <2>5 DEF Staged
<1> QED BY <1>3, <1>9, <1>10, <1>11, <1>12, <1>13 DEF Served, computer

(* A file left when the printer is told to end: its process is not over.   *)
LEMMA TermOpen ==
  ASSUME Types, Served, Started, msg.type = "PRINT_TERM", printer \notin {"killed", "remove"},
         NEW p \in Files
  PROVE  /\ p \in PID /\ p \in 2 .. next - 1 /\ Over /\ p \in alive
         /\ Stage(p, Chunks(p) + 1) /\ spool[p] = All(p) /\ On(paper, p) = {}
<1>1. p \in PID /\ p \in 2 .. next - 1
  <2>1. p \in PID
    BY FilesText
  <2>2. ~(p >= next)
    BY <2>1 DEF Served, ComputerOK
  <2> QED BY <2>1, <2>2, Constants DEF PID, Types, ControlOK
<1>2. Over /\ pipe = <<>>
  BY DEF Served, QueueOK
<1>3. PICK low \in Nat : Stage(p, low)
  BY <1>1 DEF Served, Staged
<1>4. /\ Chunks(p) \in Nat /\ Top(p) \in Nat
      /\ Top(p) = IF p \in alive THEN Chunks(p) ELSE Chunks(p) + 1
  BY <1>1, StageTyped
<1>5. ~(low <= Top(p))
  <2> SUFFICES ASSUME low <= Top(p) PROVE FALSE
    OBVIOUS
  <2>1. low \in low .. Top(p)
    BY <1>4
  <2>2. PICK i \in 0 .. Len(pipe) : QOf(msg, pipe)[i].pid = p
    BY <1>3, <2>1 DEF Stage, Pend, PendAt
  <2>3. Len(pipe) = 0 /\ i = 0
    BY <1>2, <2>2
  <2>4. msg.pid = p
    BY <2>2, <2>3 DEF QOf
  <2>5. msg.pid = 0
    BY DEF Types, RecordsOK, Sent, Work, TermRecord, NoRecord, Record
  <2> QED BY <1>1, <2>4, <2>5, Constants
<1>6. Open(p, low)
  BY <1>3 DEF Stage, Waits, Closing, Done, Removes
<1>7. low = Chunks(p) + 1 /\ p \in alive
  BY <1>4, <1>5, <1>6 DEF Open
<1>8. spool[p] = All(p) /\ On(paper, p) = {}
  BY <1>4, <1>6, <1>7 DEF Open, All
<1> QED BY <1>1, <1>2, <1>3, <1>7, <1>8

LEMMA ServedTerminate ==
  ASSUME Types, Served, Started, Terminate
  PROVE  Served'
<1>1. QueueOK /\ ChildOK /\ ComputerOK
  BY DEF Served
<1>2. /\ printer = "PRINT_TERM" /\ msg.type = "PRINT_TERM" /\ spool # NoDir
      /\ UNCHANGED <<computer, pipe, answer, msg, printed, alive>>
  BY DEF Terminate, Types, RecordsOK, DiskOK, Handling, computer
<1>3. /\ next \in Nat /\ 2 .. next - 1 \subseteq PID /\ alive \subseteq PID
      /\ \A u \in PID : msg.pid # u
  <2>1. msg.pid = 0
    BY <1>2 DEF Types, RecordsOK, Sent, Work, TermRecord, NoRecord, Record
  <2> QED BY <2>1, Constants DEF PID, Types, ControlOK
<1>4. QueueOK'
  BY <1>1, <1>2, QueueHandled
<1>5. CASE spool = NoFiles /\ spool' = NoDir /\ printer' = "none" /\ UNCHANGED paper
  <2>1. Files = {} /\ Files' = {}
    BY <1>2, <1>5, NoFilesFacts DEF Files, printer_dump_spool
  <2>2. ChildOK'
    BY <1>2, <1>5 DEF ChildOK
  <2>3. ComputerOK'
    BY <1>1, <1>2, <1>5, <2>1 DEF ComputerOK, computer, Over
  <2>4. ASSUME NEW u \in 2 .. next - 1 PROVE Staged(u)'
    <3>1. /\ u \in PID /\ (u \in Files' <=> u \in Files) /\ (u \in Files => spool'[u] = spool[u])
          /\ On(paper', u) = On(paper, u) /\ \A i \in On(paper, u) : paper'[i] = paper[i]
          /\ printer # "killed" /\ msg.pid # u
      BY <1>2, <1>3, <1>5, <2>1, <2>4
    <3> QED BY <1>2, <2>4, <3>1, OthersStay
  <2> QED BY <1>2, <1>4, <2>2, <2>3, <2>4 DEF Served, computer
<1>6. CASE \E p \in DOMAIN spool : /\ paper' = Page(p, TRUE) /\ spool' = Without(spool, p)
                                   /\ UNCHANGED printer
  <2>1. PICK p \in DOMAIN spool : /\ paper' = Page(p, TRUE) /\ spool' = Without(spool, p)
                                  /\ UNCHANGED printer
    BY <1>6
  <2>2. p \in Files
    BY <1>2 DEF Files, printer_dump_spool
  <2>3. /\ p \in PID /\ p \in 2 .. next - 1 /\ Over /\ p \in alive
        /\ Stage(p, Chunks(p) + 1) /\ spool[p] = All(p) /\ On(paper, p) = {}
    BY <1>2, <2>2, TermOpen
  <2>4. spool[p] \in Seq(Chunk) /\ Chunks(p) \in Nat /\ Top(p) = Chunks(p)
    BY <2>2, <2>3, FilesText, StageTyped
  <2> DEFINE pg == [pid |-> p, text |-> spool[p], partial |-> TRUE]
  <2>5. pg \in PageType /\ pg.pid = p /\ pg.text = spool[p] /\ pg.partial = TRUE
    BY <2>3, <2>4 DEF PageType
  <2>6. paper' = Append(paper, pg)
    BY <2>1 DEF Page
  <2> HIDE DEF pg
  <2>7. /\ Len(paper') \in DOMAIN paper' /\ paper'[Len(paper')] = pg
        /\ On(paper', p) = {Len(paper')}
        /\ \A u : u # p => On(paper', u) = On(paper, u)
        /\ \A u : \A i \in On(paper, u) : paper'[i] = paper[i]
    <3>1. paper \in Seq(PageType)
      BY DEF Types, DiskOK
    <3> DEFINE new == Append(paper, pg)
    <3>2. /\ Len(new) \in DOMAIN new /\ new[Len(new)] = pg
          /\ \A u : pg.pid # u => On(new, u) = On(paper, u)
          /\ \A u : pg.pid = u /\ On(paper, u) = {} => On(new, u) = {Len(new)}
          /\ \A u : \A i \in On(paper, u) : new[i] = paper[i]
      BY <2>5, <3>1, OnAppend, Zenon
    <3> HIDE DEF new
    <3>3. paper' = new
      BY <2>6 DEF new
    <3> QED BY <2>3, <2>5, <3>2, <3>3
  <2>8. /\ Files' = Files \ {p} /\ spool' # NoDir
        /\ \A u \in Files : u # p => spool'[u] = spool[u]
    BY <1>2, <2>1, FilesWithout
  <2>9. ChildOK'
    BY <1>2, <2>1, <2>8 DEF ChildOK
  <2>10. ComputerOK'
    BY <1>1, <1>2, <1>3, <2>3, <2>7, <2>8, ComputerStays
  <2>11. ASSUME NEW u \in 2 .. next - 1, u # p PROVE Staged(u)'
    <3>1. /\ u \in PID /\ (u \in Files' <=> u \in Files) /\ (u \in Files => spool'[u] = spool[u])
          /\ On(paper', u) = On(paper, u) /\ \A i \in On(paper, u) : paper'[i] = paper[i]
          /\ printer # "killed" /\ msg.pid # u
      BY <1>2, <1>3, <2>7, <2>8, <2>11
    <3> QED BY <1>2, <2>11, <3>1, OthersStay
  <2>12. Staged(p)'
    <3>1. Chunks(p)' = Chunks(p) /\ Top(p)' = Top(p) /\ All(p)' = All(p)
      BY <1>2 DEF Chunks, Top, All
    <3>2. Pend(p, Chunks(p) + 1)'
      BY <1>2, <2>3, <3>1 DEF Stage, Pend
    <3>3. Done(p, Chunks(p) + 1)'
      BY <1>2, <2>3, <2>4, <2>5, <2>7, <2>8, <3>1 DEF Done
    <3>4. Chunks(p) + 1 \in Nat
      BY <2>4
    <3> QED BY <3>1, <3>2, <3>3, <3>4 DEF Stage, Staged
  <2> QED BY <1>2, <1>4, <2>9, <2>10, <2>11, <2>12 DEF Served, computer
<1> QED BY <1>5, <1>6 DEF Terminate

LEMMA ServedKillPrinter ==
  ASSUME Types, Served, Started, KillPrinter
  PROVE  Served'
<1>1. QueueOK /\ ChildOK /\ ComputerOK /\ \A u \in 2 .. next - 1 : Staged(u)
  BY DEF Served
<1>2. /\ printer \notin {"none", "killed"} /\ printer' = "killed"
      /\ UNCHANGED <<computer, pipe, answer, msg, spool, printed, alive>>
  BY DEF KillPrinter, computer
<1>3. next \in Nat /\ 2 .. next - 1 \subseteq PID /\ alive \subseteq PID
  BY Constants DEF PID, Types, ControlOK
<1>4. QueueOK'
  BY <1>1, <1>2, QueueHandled
<1>5. ChildOK'
  BY <1>1, <1>2 DEF ChildOK
<1>6. Files' = Files /\ \A u : ~Removes(u)'
  BY <1>2 DEF Files, printer_dump_spool, Removes
<1>7. ASSUME NEW u \in PID
      PROVE  /\ Chunks(u)' = Chunks(u) /\ Top(u)' = Top(u) /\ All(u)' = All(u)
             /\ \A low \in Nat : Pend(u, low) => Pend(u, low)'
  BY <1>2 DEF Chunks, Top, All, Pend
<1>8. CASE UNCHANGED paper
  <2>1. ComputerOK'
    BY <1>1, <1>2, <1>6, <1>8 DEF ComputerOK, computer, Over
  <2>2. ASSUME NEW u \in 2 .. next - 1 PROVE Staged(u)'
    <3>0. u \in PID
      BY <1>3
    <3>1. PICK low \in Nat : Stage(u, low)
      BY <1>1 DEF Staged
    <3>2. Waits(u, low) => Waits(u, low)'
      BY <1>6, <1>8 DEF Waits
    <3>3. Open(u, low) => Open(u, low)'
      BY <1>2, <1>6, <1>7, <1>8, <3>0 DEF Open
    <3>4. Closing(u, low) => Closing(u, low)'
      <4>1. IsPrefix(All(u), All(u))
        <5>1. printed[u] \in Seq(Chunk) /\ Chunks(u) \in 0 .. Len(printed[u])
          BY <3>0, StageTyped DEF Chunks
        <5>2. All(u) \in Seq(Chunk)
          BY <3>0, <5>1, TextParts DEF All
        <5> QED BY <5>2, PrefixSelf
      <4> QED BY <1>2, <1>6, <1>7, <1>8, <3>0, <4>1 DEF Closing
    <3>5. Done(u, low) => Done(u, low)'
      BY <1>2, <1>6, <1>7, <1>8, <3>0 DEF Done
    <3>6. Pend(u, low)'
      BY <1>7, <3>0, <3>1 DEF Stage
    <3> QED BY <3>1, <3>2, <3>3, <3>4, <3>5, <3>6 DEF Stage, Staged
  <2> QED BY <1>2, <1>4, <1>5, <2>1, <2>2 DEF Served, computer
<1>9. CASE \E p \in Copying : \E n \in 0 .. Len(spool[p]) :
             paper' = Append(paper, [pid |-> p, text |-> SubSeq(spool[p], 1, n), partial |-> FALSE])
  <2>1. PICK p \in Copying : \E n \in 0 .. Len(spool[p]) :
             paper' = Append(paper, [pid |-> p, text |-> SubSeq(spool[p], 1, n), partial |-> FALSE])
    BY <1>9
  <2>2. PICK n \in 0 .. Len(spool[p]) :
             paper' = Append(paper, [pid |-> p, text |-> SubSeq(spool[p], 1, n), partial |-> FALSE])
    BY <2>1
  <2>3. /\ p \in PID /\ p \in 2 .. next - 1 /\ (p \in alive => Over) /\ p \in Files
        /\ Stage(p, Chunks(p) + 1) /\ spool[p] = All(p) /\ On(paper, p) = {}
        /\ printer \in {"END_SPOOL", "PRINT_TERM"}
    <3>1. CASE printer = "END_SPOOL"
      <4>1. msg.type = "END_SPOOL" /\ p = msg.pid
        BY <2>1, <3>1 DEF Copying, Types, RecordsOK, Handling, Work
      <4>2. p \in PID /\ p \in 2 .. next - 1
        BY <4>1, Working DEF Work
      <4> QED BY <3>1, <4>1, <4>2, EndOpen
    <3>2. CASE printer = "PRINT_TERM"
      <4>1. msg.type = "PRINT_TERM" /\ p \in DOMAIN spool /\ spool # NoDir
        BY <2>1, <3>2 DEF Copying, Types, RecordsOK, DiskOK, Handling, Work
      <4>2. p \in Files
        BY <4>1 DEF Files, printer_dump_spool
      <4> QED BY <3>2, <4>1, <4>2, TermOpen
    <3>3. CASE printer \notin {"END_SPOOL", "PRINT_TERM"}
      BY <2>1, <3>3 DEF Copying
    <3> QED BY <3>1, <3>2, <3>3
  <2>4. spool[p] \in Seq(Chunk) /\ Chunks(p) \in Nat
    BY <2>3, FilesText, StageTyped
  <2> DEFINE text == SubSeq(spool[p], 1, n)
             pg == [pid |-> p, text |-> text, partial |-> FALSE]
  <2>5. text \in Seq(Chunk) /\ IsPrefix(text, All(p))
    <3>1. text \in Seq(Chunk)
      BY <2>4
    <3>2. IsPrefix(text, spool[p])
      BY <2>4, PrefixSubSeq
    <3> QED BY <2>3, <3>1, <3>2
  <2>6. paper' = Append(paper, pg)
    BY <2>2
  <2> HIDE DEF text
  <2>7. pg \in PageType /\ pg.pid = p /\ pg.text = text
    BY <2>3, <2>5 DEF PageType
  <2> HIDE DEF pg
  <2>8. /\ Len(paper') \in DOMAIN paper' /\ paper'[Len(paper')] = pg
        /\ On(paper', p) = {Len(paper')}
        /\ \A u : u # p => On(paper', u) = On(paper, u)
        /\ \A u : \A i \in On(paper, u) : paper'[i] = paper[i]
    <3>1. paper \in Seq(PageType)
      BY DEF Types, DiskOK
    <3> DEFINE new == Append(paper, pg)
    <3>2. /\ Len(new) \in DOMAIN new /\ new[Len(new)] = pg
          /\ \A u : pg.pid # u => On(new, u) = On(paper, u)
          /\ \A u : pg.pid = u /\ On(paper, u) = {} => On(new, u) = {Len(new)}
          /\ \A u : \A i \in On(paper, u) : new[i] = paper[i]
      BY <2>7, <3>1, OnAppend, Zenon
    <3> HIDE DEF new
    <3>3. paper' = new
      BY <2>6 DEF new
    <3> QED BY <2>3, <2>7, <3>2, <3>3
  <2>9. ComputerOK'
    BY <1>1, <1>2, <1>3, <1>6, <2>3, <2>8, ComputerStays
  <2>10. ASSUME NEW u \in 2 .. next - 1, u # p PROVE Staged(u)'
    <3>1. PICK low \in Nat : Stage(u, low)
      BY <1>1 DEF Staged
    <3>2. u \in PID /\ Pend(u, low)' /\ ~Removes(u) /\ ~Removes(u)'
      BY <1>3, <1>6, <1>7, <2>3, <3>1 DEF Stage, Removes
    <3>3. /\ UNCHANGED <<printed, alive>> /\ printer # "killed" /\ (u \in Files' <=> u \in Files)
          /\ u \in Files => spool'[u] = spool[u]
          /\ On(paper', u) = On(paper, u) /\ \A i \in On(paper, u) : paper'[i] = paper[i]
      BY <1>2, <1>6, <2>8, <2>10
    <3>4. Stage(u, low)'
      BY <3>1, <3>2, <3>3, StageOther
    <3> QED BY <3>4 DEF Staged
  <2>11. Staged(p)'
    <3>1. Chunks(p)' = Chunks(p) /\ All(p)' = All(p) /\ Pend(p, Chunks(p) + 1)'
      <4>1. Chunks(p) + 1 \in Nat /\ Pend(p, Chunks(p) + 1)
        BY <2>3, <2>4 DEF Stage
      <4> QED BY <1>2, <4>1 DEF Pend, Chunks, Top, All
    <3>2. Closing(p, Chunks(p) + 1)'
      BY <1>2, <1>6, <2>3, <2>5, <2>7, <2>8, <3>1 DEF Closing
    <3>3. Chunks(p) + 1 \in Nat
      BY <2>4
    <3> QED BY <3>1, <3>2, <3>3 DEF Stage, Staged
  <2> QED BY <1>2, <1>4, <1>5, <2>9, <2>10, <2>11 DEF Served, computer
<1> QED BY <1>8, <1>9 DEF KillPrinter

-----------------------------------------------------------------------------
(* Nothing is in the pipe until the printer has answered; a printer that   *)
(* refuses is gone.                                                        *)
LEMMA InvInit == Init => PipeInv
<1> SUFFICES ASSUME Init PROVE PipeInv
  OBVIOUS
<1>1. BeforeAnswer /\ Refused
  BY DEF Init, BeforeAnswer, Refused
<1>2. ~Started
  BY DEF Init, Started
<1> QED BY <1>1, <1>2 DEF PipeInv, Served

LEMMA BeforeAnswerStep ==
  ASSUME Types, PipeInv, Next
  PROVE  BeforeAnswer'
<1>1. CASE Start
  BY <1>1 DEF Start, BeforeAnswer
<1>2. CASE PrinterInit
  BY <1>2 DEF PrinterInit, BeforeAnswer
<1>3. ASSUME ~Start, ~PrinterInit, answer' = "none" PROVE BeforeAnswer'
  <2>0. answer = "none"
    BY <1>3 DEF Next, Computer, Printer, ReadAck, Load, PrintText, PrintChunk, Exit, PowerOff,
                WaitPID, KillComputer, Read, InitSpool, PrintReq, EndSpool, RemoveFile,
                Terminate, KillPrinter
  <2>1. /\ pipe = <<>> /\ msg = NoRecord /\ printed = [p \in PID |-> <<>>] /\ next = 2 /\ alive = {}
        /\ pc \in {"off", "ack", "down"} /\ printer \in {"init", "killed", "none"}
        /\ pc = "off" => printer = "none"
    BY <2>0 DEF PipeInv, BeforeAnswer
  <2>2. KillComputer \/ KillPrinter
    BY <1>3, <2>0, <2>1 DEF Next, Computer, Printer, ReadAck, Load, PrintText, PrintChunk, Exit,
          PowerOff, WaitPID, Read, InitSpool, PrintReq, EndSpool, RemoveFile, Terminate, Goes
  <2>3. CASE KillComputer
    BY <2>1, <2>3 DEF KillComputer, BeforeAnswer, child
  <2>4. CASE KillPrinter
    BY <2>1, <2>4 DEF KillPrinter, BeforeAnswer, computer
  <2> QED BY <2>2, <2>3, <2>4
<1> QED BY <1>1, <1>2, <1>3 DEF BeforeAnswer

(* The printer starts before its answer.                                   *)
LEMMA InitBefore ==
  ASSUME Types, PipeInv, PrinterInit
  PROVE  answer = "none" /\ pc \in {"ack", "down"}
<1>1. printer = "init"
  BY DEF PrinterInit
<1>2. answer = "none"
  BY <1>1 DEF PipeInv, Refused, Served, ChildOK, Started, Types, ControlOK
<1> QED BY <1>1, <1>2 DEF PipeInv, BeforeAnswer

LEMMA RefusedStep ==
  ASSUME Types, PipeInv, Next
  PROVE  Refused'
<1>1. CASE PrinterInit
  BY <1>1, InitBefore DEF PrinterInit, Refused, computer
<1>2. CASE Start
  BY <1>2 DEF Start, Refused
<1>3. ASSUME ~Start, ~PrinterInit, answer' = "TERMINATE" PROVE Refused'
  <2>0. answer = "TERMINATE"
    BY <1>3 DEF Next, Computer, Printer, ReadAck, Load, PrintText, PrintChunk, Exit, PowerOff,
                WaitPID, KillComputer, Read, InitSpool, PrintReq, EndSpool, RemoveFile,
                Terminate, KillPrinter
  <2>1. printer = "none" /\ pc \in {"ack", "off", "down"}
    BY <2>0 DEF PipeInv, Refused
  <2>2. ReadAck \/ KillComputer
    BY <1>3, <2>0, <2>1 DEF Next, Computer, Printer, Load, PrintText, PrintChunk, Exit, PowerOff,
          WaitPID, Read, InitSpool, PrintReq, EndSpool, RemoveFile, Terminate, Goes, KillPrinter
  <2> QED BY <2>0, <2>1, <2>2 DEF ReadAck, KillComputer, Refused, Goes, child
<1> QED BY <1>1, <1>2, <1>3 DEF Refused

LEMMA ServedStarts ==
  ASSUME Types, PipeInv, PrinterInit, Started'
  PROVE  Served'
<1>1. /\ pipe = <<>> /\ msg = NoRecord /\ printed = [p \in PID |-> <<>>] /\ next = 2 /\ alive = {}
      /\ pc \in {"ack", "down"}
  BY InitBefore DEF PipeInv, BeforeAnswer
<1>2. /\ printer' = "read" /\ paper' = <<>> /\ spool' = NoFiles
      /\ UNCHANGED <<computer, pipe, msg, printed>>
  BY DEF PrinterInit, Started, empty_spool_dir
<1>3. Files' = {} /\ spool' # NoDir /\ \A p : On(paper', p) = {}
  BY <1>2, NoFilesFacts DEF Files, printer_dump_spool, On
<1>4. QueueOK'
  <2>1. msg' = NoRecord /\ pipe' = <<>> /\ NoRecord.type = "PRINT_ACK"
    BY <1>1, <1>2, Records
  <2> QED BY <2>1 DEF QueueOK, Genuine, Work
<1>5. ChildOK'
  BY <1>1, <1>2, <1>3 DEF ChildOK
<1>6. ComputerOK'
  BY <1>1, <1>2, <1>3 DEF ComputerOK, computer
<1>7. 2 .. next' - 1 = {}
  BY <1>1, <1>2 DEF computer
<1> QED BY <1>4, <1>5, <1>6, <1>7 DEF Served

LEMMA ServedStep ==
  ASSUME Types, Types', PipeInv, Next
  PROVE  Served'
<1>0. Served
  BY DEF PipeInv
<1>1. CASE Start
  BY <1>1 DEF Start, Served, Started
<1>2. CASE PrinterInit
  BY <1>2, ServedStarts DEF Served
<1>3. CASE ~Start /\ ~PrinterInit
  <2>1. UNCHANGED answer
    BY <1>3 DEF Next, Computer, Printer, ReadAck, Load, PrintText, PrintChunk, Exit, PowerOff,
                WaitPID, KillComputer, Read, InitSpool, PrintReq, EndSpool, RemoveFile,
                Terminate, KillPrinter
  <2>2. CASE ~Started
    BY <2>1, <2>2 DEF Served, Started
  <2>3. CASE Started
    <3>1. ReadAck \/ PrintText \/ WaitPID \/ KillComputer => Served'
      BY <1>0, <2>3, ServedQuiet
    <3>2. /\ Load => Served'
          /\ PrintChunk => Served'
          /\ Exit => Served'
          /\ PowerOff => Served'
      BY <1>0, <2>3, ServedLoad, ServedPrintChunk, ServedExit, ServedPowerOff
    <3>3. /\ Read => Served'
          /\ InitSpool => Served'
          /\ PrintReq => Served'
      BY <1>0, <2>3, ServedRead, ServedInitSpool, ServedPrintReq
    <3>4. /\ EndSpool => Served'
          /\ RemoveFile => Served'
          /\ Terminate => Served'
          /\ KillPrinter => Served'
      BY <1>0, <2>3, ServedEndSpool, ServedRemoveFile, ServedTerminate, ServedKillPrinter
    <3> QED BY <1>3, <3>1, <3>2, <3>3, <3>4 DEF Next, Computer, Printer
  <2> QED BY <2>2, <2>3
<1> QED BY <1>1, <1>2, <1>3

LEMMA TypesStep ==
  ASSUME Types, [Next]_vars
  PROVE  Types'
<1>1. CASE Next
  BY <1>1, TypesComputer, TypesPrinter DEF Next
<1>2. CASE UNCHANGED vars
  BY <1>2 DEF vars, computer, child, disk, Types, ControlOK, PrintedOK, RecordsOK, DiskOK
<1> QED BY <1>1, <1>2

LEMMA InvStep ==
  ASSUME Types, Types', PipeInv, [Next]_vars
  PROVE  PipeInv'
<1>1. CASE Next
  BY <1>1, BeforeAnswerStep, RefusedStep, ServedStep DEF PipeInv
<1>2. CASE UNCHANGED vars
  <2> USE <1>2 DEF vars, computer, child, disk
  <2>1. BeforeAnswer' /\ Refused'
    BY DEF PipeInv, BeforeAnswer, Refused
  <2>2. QueueOK => QueueOK'
    BY DEF QueueOK, Genuine, Over, Chunks
  <2>3. ChildOK /\ ComputerOK => ChildOK' /\ ComputerOK'
    BY DEF ChildOK, ComputerOK, Files, printer_dump_spool, On, Over
  <2>4. ASSUME NEW p PROVE Staged(p) => Staged(p)'
    BY DEF Staged, Stage, Pend, QOf, Chunks, Top, Waits, Open, Closing, Done, All, Removes,
           Files, printer_dump_spool, On
  <2> QED BY <2>1, <2>2, <2>3, <2>4 DEF PipeInv, Served, Started
<1> QED BY <1>1, <1>2

-----------------------------------------------------------------------------
(* What follows for the pages and the files.                               *)
LEMMA OneAt ==
  ASSUME NEW S, NEW k, S = {k}
  PROVE  Cardinality(S) = 1
BY FS_Singleton

LEMMA InvPages == Types /\ PipeInv => PagesComplete
<1> SUFFICES ASSUME Types, PipeInv, Started, NEW p \in PID
             PROVE  /\ Cardinality(OnPaper(p)) <= 1
                    /\ \A i \in OnPaper(p) :
                         \/ paper[i].text = Written(p) /\ paper[i].partial = (p \in alive)
                         \/ Torn(i) /\ IsPrefix(paper[i].text, Written(p))
  BY DEF PagesComplete
<1>1. OnPaper(p) = On(paper, p)
  BY DEF OnPaper, On
<1>2. printed[p] \in Seq(Chunk) /\ Written(p) = All(p)
  <2>1. printed[p] \in Seq(Chunk)
    BY StageTyped
  <2> QED BY <2>1, WrittenIs DEF All, Chunks
<1>3. QueueOK /\ ChildOK /\ ComputerOK /\ \A u \in 2 .. next - 1 : Staged(u)
  BY DEF PipeInv, Served
<1>4. CASE On(paper, p) = {}
  BY <1>1, <1>4, FS_EmptySet
<1>5. CASE On(paper, p) # {}
  <2>1. p \in 2 .. next - 1
    BY <1>3, <1>5, Constants DEF ComputerOK, PID, Types, ControlOK
  <2>2. PICK low \in Nat : Stage(p, low)
    BY <1>3, <2>1 DEF Staged
  <2>3. CASE Closing(p, low)
    <3>1. Cardinality(On(paper, p)) = 1
      BY <2>3, OneAt DEF Closing
    <3>2. ASSUME printer = "killed", IsPrefix(paper[Len(paper)].text, All(p)),
                 NEW i \in On(paper, p)
          PROVE  Torn(i) /\ IsPrefix(paper[i].text, All(p))
      BY <2>3, <3>2 DEF Closing, Torn
    <3>3. ASSUME Removes(p), paper[Len(paper)].text = All(p), ~paper[Len(paper)].partial,
                 NEW i \in On(paper, p)
          PROVE  paper[i].text = All(p) /\ paper[i].partial = (p \in alive)
      <4>1. i = Len(paper)
        BY <2>3 DEF Closing
      <4>2. msg.pid = p /\ msg.type = "END_SPOOL"
        BY <3>3 DEF Removes, Types, RecordsOK
      <4>3. low <= Top(p) /\ low = Chunks(p) + 1
        BY <2>2, <2>3, <4>2, PendHead DEF Stage, Closing
      <4>4. p \notin alive
        BY <4>3, StageTyped
      <4>5. paper[i].partial = FALSE
        <5>1. paper \in Seq(PageType) /\ i \in DOMAIN paper
          BY StageTyped DEF On
        <5>2. paper[i] \in PageType
          BY <5>1
        <5>3. paper[i].partial \in BOOLEAN
          BY <5>2 DEF PageType
        <5> QED BY <3>3, <4>1, <5>3
      <4>6. paper[i].text = All(p)
        BY <3>3, <4>1
      <4>7. (p \in alive) = FALSE
        BY <4>4
      <4>8. paper[i].partial = (p \in alive)
        BY <4>5, <4>7
      <4> QED BY <4>6, <4>8
    <3> QED BY <1>1, <1>2, <2>3, <3>1, <3>2, <3>3 DEF Closing
  <2>4. CASE Done(p, low)
    <3>1. PICK i \in DOMAIN paper : /\ On(paper, p) = {i} /\ paper[i].text = All(p)
                                    /\ paper[i].partial = (p \in alive)
      BY <2>4 DEF Done
    <3>2. Cardinality(On(paper, p)) = 1
      BY <3>1, OneAt
    <3> QED BY <1>1, <1>2, <3>1, <3>2
  <2> QED BY <1>5, <2>2, <2>3, <2>4 DEF Stage, Waits, Open
<1> QED BY <1>4, <1>5

(* A rank that is still to come is that of a record in the pipe or at hand.*)
LEMMA Waiting ==
  ASSUME Types, PipeInv, Started, NEW p \in 2 .. next - 1, NEW low \in Nat, Stage(p, low),
         NEW k \in low .. Top(p)
  PROVE  \/ msg.pid = p /\ Rank(msg, Chunks(p)) = k
         \/ \E i \in DOMAIN pipe : pipe[i].pid = p /\ Rank(pipe[i], Chunks(p)) = k
<1>1. PICK i \in 0 .. Len(pipe) : LET x == QOf(msg, pipe)[i] IN
        x.pid = p /\ Rank(x, Chunks(p)) = k
  BY DEF Stage, Pend, PendAt
<1>2. CASE i = 0
  BY <1>1, <1>2 DEF QOf
<1>3. CASE i # 0
  <2>1. pipe \in Seq(Sent) /\ Len(pipe) \in Nat
    BY DEF Types, RecordsOK
  <2>2. i \in DOMAIN pipe /\ QOf(msg, pipe)[i] = pipe[i]
    BY <1>1, <1>3, <2>1 DEF QOf
  <2> QED BY <1>1, <2>2
<1> QED BY <1>2, <1>3

(* The rank tells the kind of the record.                                  *)
LEMMA RankKind ==
  ASSUME Types, PipeInv, Started, NEW p \in PID,
         NEW r, r \in Sent \union {NoRecord}, Genuine(r), r.pid = p, NEW len, len = Chunks(p)
  PROVE  /\ Rank(r, len) = 0 => r.type = "INIT_SPOOL"
         /\ Rank(r, len) = len + 1 => r.type = "END_SPOOL"
<1>1. r.type \in Work
  BY Constants DEF Sent, TermRecord, NoRecord, Record, Work
<1>2. len \in Nat
  BY StageTyped
<1>3. r.type = "PRINT_REQ" => r.chunk.n \in 1 .. len
  BY DEF Genuine
<1>4. CASE r.type = "INIT_SPOOL"
  BY <1>2, <1>4 DEF Rank
<1>5. CASE r.type = "PRINT_REQ"
  <2>1. Rank(r, len) = r.chunk.n
    BY <1>5 DEF Rank
  <2> QED BY <1>2, <1>3, <1>5, <2>1
<1>6. CASE r.type = "END_SPOOL"
  <2>1. Rank(r, len) = len + 1
    BY <1>6 DEF Rank
  <2> QED BY <1>2, <1>6, <2>1
<1> QED BY <1>1, <1>4, <1>5, <1>6 DEF Work

LEMMA RankPending ==
  ASSUME Types, PipeInv, Started, NEW p \in 2 .. next - 1, NEW low \in Nat, Stage(p, low),
         NEW k \in low .. Top(p)
  PROVE  /\ k = 0 => Pending(p, "INIT_SPOOL")
         /\ k = Chunks(p) + 1 => Pending(p, "END_SPOOL")
<1>0. p \in PID
  BY Constants DEF PID, Types, ControlOK
<1>1. QueueOK
  BY DEF PipeInv, Served
<1>2. CASE msg.pid = p /\ Rank(msg, Chunks(p)) = k
  <2>1. msg \in Sent \union {NoRecord} /\ Genuine(msg)
    BY <1>1 DEF Types, RecordsOK, QueueOK
  <2> QED BY <1>0, <1>2, <2>1, RankKind DEF Pending
<1>3. ASSUME NEW i \in DOMAIN pipe, pipe[i].pid = p, Rank(pipe[i], Chunks(p)) = k
      PROVE  /\ k = 0 => Pending(p, "INIT_SPOOL")
             /\ k = Chunks(p) + 1 => Pending(p, "END_SPOOL")
  <2>1. pipe \in Seq(Sent)
    BY DEF Types, RecordsOK
  <2>2. pipe[i] \in Sent /\ i \in 1 .. Len(pipe)
    BY <2>1
  <2>3. Genuine(pipe[i])
    BY <1>1, <2>2 DEF QueueOK
  <2> QED BY <1>0, <1>3, <2>2, <2>3, RankKind DEF Pending
<1> QED BY <1>2, <1>3, Waiting

LEMMA InvDump == Types /\ PipeInv => DumpLags
<1> SUFFICES ASSUME Types, PipeInv, pc \in {"run", "print"}, NEW p \in PID
             PROVE  /\ p \in alive \ printer_dump_spool => Pending(p, "INIT_SPOOL")
                    /\ p \in printer_dump_spool \ alive => Pending(p, "END_SPOOL")
  BY DEF DumpLags
<1>1. Started
  BY DEF PipeInv, BeforeAnswer, Refused, Started, Types, ControlOK
<1>2. ~Over /\ QueueOK /\ ChildOK /\ ComputerOK /\ \A u \in 2 .. next - 1 : Staged(u)
  BY <1>1 DEF PipeInv, Served, Over
<1>3. Chunks(p) \in Nat /\ Top(p) = IF p \in alive THEN Chunks(p) ELSE Chunks(p) + 1
  BY StageTyped
<1>4. ASSUME p \in alive \ Files PROVE Pending(p, "INIT_SPOOL")
  <2>1. p \in 2 .. next - 1 /\ On(paper, p) = {}
    BY <1>2, <1>4 DEF Types, ControlOK, ComputerOK
  <2>2. PICK low \in Nat : Stage(p, low)
    BY <1>2, <2>1 DEF Staged
  <2>3. Waits(p, low)
    BY <1>4, <2>1, <2>2 DEF Stage, Open, Closing, Done
  <2>4. low = 0 /\ 0 \in low .. Top(p)
    BY <1>3, <2>3 DEF Waits
  <2> QED BY <1>1, <2>1, <2>2, <2>4, RankPending
<1>5. ASSUME p \in Files \ alive PROVE Pending(p, "END_SPOOL")
  <2>1. p \in 2 .. next - 1
    BY <1>2, <1>5, Constants DEF ComputerOK, PID, Types, ControlOK
  <2>2. PICK low \in Nat : Stage(p, low)
    BY <1>2, <2>1 DEF Staged
  <2>3. low <= Chunks(p) + 1
    BY <1>3, <1>5, <2>2 DEF Stage, Waits, Open, Closing, Done
  <2>4. PICK k \in Nat : k = Chunks(p) + 1
    BY <1>3
  <2>5. k \in low .. Top(p)
    BY <1>3, <1>5, <2>3, <2>4
  <2> QED BY <1>1, <2>1, <2>2, <2>4, <2>5, RankPending
<1> QED BY <1>4, <1>5 DEF Files

LEMMA InvOff == Types /\ PipeInv => AllPrintedWhenOff
<1> SUFFICES ASSUME Types, PipeInv, pc = "off", Started, printer # "killed"
             PROVE  spool = NoDir /\ \A p \in 2 .. next - 1 : OnPaper(p) # {}
  BY DEF AllPrintedWhenOff
<1>1. QueueOK /\ ChildOK /\ ComputerOK /\ \A u \in 2 .. next - 1 : Staged(u)
  BY DEF PipeInv, Served
<1>2. printer = "none" /\ msg.type = "PRINT_TERM" /\ spool = NoDir /\ pipe = <<>> /\ Files = {}
  BY <1>1 DEF ComputerOK, ChildOK, QueueOK, Files, printer_dump_spool
<1>3. msg.pid = 0
  BY <1>2 DEF Types, RecordsOK, Sent, Work, TermRecord, NoRecord, Record
<1>4. ASSUME NEW p \in 2 .. next - 1 PROVE OnPaper(p) # {}
  <2>1. p \in PID
    BY Constants DEF PID, Types, ControlOK
  <2>2. PICK low \in Nat : Stage(p, low)
    BY <1>1 DEF Staged
  <2>3. ~Waits(p, low)
    <3> SUFFICES ASSUME Waits(p, low) PROVE FALSE
      OBVIOUS
    <3>1. low = 0 /\ 0 \in low .. Top(p)
      BY <2>1, StageTyped DEF Waits
    <3>2. Pending(p, "INIT_SPOOL")
      BY <2>2, <3>1, RankPending
    <3> QED BY <1>2, <3>2 DEF Pending
  <2>4. Done(p, low)
    BY <1>2, <2>2, <2>3 DEF Stage, Open, Closing
  <2> QED BY <2>4 DEF Done, OnPaper, On
<1> QED BY <1>2, <1>4

-----------------------------------------------------------------------------
(* Types hold: what is in the pipe is a record for a process, or the last  *)
(* one, and no more of them than fit.                                      *)
THEOREM TypeCorrect == Spec => []TypeOK
<1>1. Init => Types
  BY TypesInit
<1>2. Types /\ [Next]_vars => Types'
  BY TypesStep
<1>3. Types => TypeOK
  BY TypesIsType
<1> QED BY <1>1, <1>2, <1>3, PTL DEF Spec

(* Every record has been sent once and is handled in the order of its      *)
(* process, whatever the two do and whoever is killed.                     *)
THEOREM InOrder == Spec => [](Types /\ PipeInv)
<1>1. Init => Types /\ PipeInv
  BY TypesInit, InvInit
<1>2. Types /\ PipeInv /\ [Next]_vars => (Types /\ PipeInv)'
  BY TypesStep, InvStep
<1> QED BY <1>1, <1>2, PTL DEF Spec

(* The page of a process is what it has printed in this run, in order and  *)
(* once, for any number of processes and chunks and any size of the pipe.  *)
THEOREM PagesAreComplete == Spec => []PagesComplete
BY InOrder, InvPages, PTL

(* The dump the computer makes of the printer's directory differs from its *)
(* own processes by no more than the records that are on their way.        *)
THEOREM DumpOnlyLags == Spec => []DumpLags
BY InOrder, InvDump, PTL

(* After a poweroff nothing is left in the directory, and each process has *)
(* its page.                                                               *)
THEOREM PrintedWhenOff == Spec => []AllPrintedWhenOff
BY InOrder, InvOff, PTL
=============================================================================
