--------------------------- MODULE DeliveryProofs ---------------------------
(***************************************************************************)
(* Theorems about Delivery: whatever the computers, the communicators and  *)
(* the printer do, in any order, killed or not, a directory holds texts    *)
(* only, no connection is served twice, and a process that is not over has *)
(* its spool file.                                                         *)
(*                                                                         *)
(* That the page of a text is made of cells hangs on the framing: the      *)
(* second read of a communicator takes as many cells as the header says,   *)
(* and another header must not be among them.  FrameInv says why: the      *)
(* cells a header announces are next in the socket or still to be sent by  *)
(* a computer that sends nothing else before.  It needs FilesInv, that the *)
(* file being sent neither grows nor goes, and LinkInv, that two readers   *)
(* never share a socket and that a new connection starts with an empty one.*)
(***************************************************************************)
EXTENDS Delivery, TLAPS

-----------------------------------------------------------------------------
(* Types.                                                                  *)
Files == IF spool = NoDir THEN {} ELSE DOMAIN spool
Sending == {"header", "text", "remove"}
Communicator == [conn : CID \union {None}, pc : {"idle", "header", "text", "put"},
                 msg : Header \union {None}, text : Seq(Cell \union {Junk})]

ComputerTypes ==
  /\ pc \in [CID -> {"down", "connect", "run", "scan"} \union Sending]
  /\ job \in [CID -> [pid : PID \union {0}, type : {"END_SPOOL", "CPU_TERM"}]]
  /\ sentCells \in [CID -> Nat] /\ next \in [CID -> Nat] /\ alive \in [CID -> SUBSET PID]
  /\ run \in [CID -> Nat]
  /\ \A c \in CID : run[c] <= MaxRuns[c] /\ (pc[c] # "down" => run[c] # 0)

DiskTypes ==
  /\ spool = NoDir \/ \E D \in SUBSET PrintID : spool \in [D -> Seq(Cell)]
  /\ pspool = NoDir \/ \E D \in SUBSET PrintID : pspool \in [D -> Seq(Cell \union {Junk})]
  /\ printed \in [DOMAIN printed -> Seq(Cell)]

NetworkTypes ==
  /\ link \in [CID -> {"none", "open", "closed", "dead"}]
  /\ sock \in [CID -> Seq(Header \union Cell)] /\ \A c \in CID : Len(sock[c]) <= Buffer
  /\ waiting \in Seq(CID)

ServerTypes ==
  /\ comm \in [Comm -> Communicator]
  /\ \A k \in Comm : /\ comm[k].pc = "idle" <=> comm[k].conn = None
                     /\ comm[k].pc \in {"text", "put"} => comm[k].msg \in Header
  /\ queue \in [Comm -> Seq(Header)] /\ \A k \in Comm : Len(queue[k]) <= MQS
  /\ printer \in {"down", "up", "garbled", "killed"} /\ starts \in 0 .. MaxStarts

(* A process that is not over has its file; the one a computer sends is    *)
(* not among them, and is there until it has been sent.                    *)
FilesOf(c) ==
  /\ alive[c] # {} => pc[c] \in {"run"} \union Sending
  /\ \A p \in alive[c] : <<c, p>> \in Files /\ <<c, p, run[c]>> \in DOMAIN printed
  /\ pc[c] \in Sending => /\ job[c].pid \in PID \ alive[c]
                          /\ job[c].type = "CPU_TERM" => alive[c] = {}
  /\ pc[c] \in {"text", "remove"} => File(c) \in Files
  /\ pc[c] = "text" => sentCells[c] <= Len(spool[File(c)])
FilesInv == \A c \in CID : FilesOf(c)

(* A connection that is open or not yet read to its end is one waiting or  *)
(* one served, and no other is.                                            *)
Unserved(c) == /\ \A k \in Comm : comm[k].conn # c
               /\ \A i \in DOMAIN waiting : waiting[i] # c
LinkOf(c) ==
  /\ link[c] \in {"none", "dead"} => sock[c] = <<>> /\ Unserved(c)
  /\ link[c] = "closed" => pc[c] = "down"
  /\ pc[c] = "connect" => link[c] = "none"
ServedOnce ==
  /\ \A k, j \in Comm : k # j => comm[k].conn # comm[j].conn \/ comm[k].conn = None
  /\ \A k \in Comm, i \in DOMAIN waiting : comm[k].conn # waiting[i]
  /\ \A i, j \in DOMAIN waiting : waiting[i] = waiting[j] => i = j
PrinterInv ==
  IF printer \in {"up", "garbled"}
    THEN pspool # NoDir
    ELSE waiting = <<>> /\ \A k \in Comm : comm[k] = Free /\ queue[k] = <<>>
LinkInv == (\A c \in CID : LinkOf(c)) /\ ServedOnce /\ PrinterInv

(* A header announces the cells that follow it: of the sequence s in a     *)
(* socket, no other header is among them (Spaced), and those that are not  *)
(* in it are the `left' ones the computer has still to send (Promised).    *)
Heads(s) == {i \in DOMAIN s : s[i] \in Header}
Spaced(s) == \A i, j \in Heads(s) : i < j => i + s[i].size < j
Promised(s, left) == \A i \in Heads(s) : i + s[i].size <= Len(s) + left
Left(c) == IF pc[c] = "text" THEN Len(spool[File(c)]) - sentCells[c] ELSE 0
FrameOf(c) ==
  /\ Spaced(sock[c]) /\ (link[c] = "open" => Promised(sock[c], Left(c)))
  /\ \A k \in Comm : comm[k].conn = c /\ comm[k].pc = "text" =>
       /\ \A j \in Heads(sock[c]) : comm[k].msg.size < j
       /\ link[c] = "open" => comm[k].msg.size <= Len(sock[c]) + Left(c)
FrameInv == \A c \in CID : FrameOf(c)

Types == ComputerTypes /\ DiskTypes /\ NetworkTypes /\ ServerTypes
DeliveryInv == Types /\ FilesInv /\ LinkInv /\ FrameInv

-----------------------------------------------------------------------------
(* The constants, and values apart: a cell is not a header, no directory   *)
(* is NoDir.                                                               *)
LEMMA Constants ==
  /\ MQS \in Nat \ {0} /\ Buffer \in Nat \ {0} /\ MaxText \in Nat
  /\ MaxRuns \in [CID -> Nat] /\ MaxStarts \in Nat /\ PID \subseteq Nat \ {0, 1}
  /\ Printer \notin CID /\ None \notin CID
BY DeliveryAssumption

LEMMA HeaderFacts ==
  /\ \A r \in Header : /\ "size" \in DOMAIN r /\ r.size \in Nat
                        /\ r.cid \in CID /\ r.pid \in PID
  /\ \A r \in Cell : "size" \notin DOMAIN r /\ r \notin Header
<1>1. \A r \in Header : /\ "size" \in DOMAIN r /\ r.size \in Nat
                        /\ r.cid \in CID /\ r.pid \in PID
  BY DEF Header
<1>2. \A r \in Cell : "size" \notin DOMAIN r
  BY DEF Cell
<1> QED BY <1>1, <1>2

LEMMA NoDirFacts ==
  /\ \A D \in SUBSET PrintID : \A d \in [D -> Seq(Cell)] : d # NoDir /\ DOMAIN d = D
  /\ \A D \in SUBSET PrintID : \A d \in [D -> Seq(Cell \union {Junk})] : d # NoDir /\ DOMAIN d = D
  /\ Seq(Cell) \subseteq Seq(Cell \union {Junk})
<1>1. Seq(Cell) \subseteq Seq(Cell \union {Junk})
  OBVIOUS
<1>2. \A D \in SUBSET PrintID : [D -> Seq(Cell)] \subseteq [D -> Seq(Cell \union {Junk})]
  BY <1>1
<1>3. \A D \in SUBSET PrintID : \A d \in [D -> Seq(Cell \union {Junk})] : d # NoDir /\ DOMAIN d = D
  BY DeliveryAssumption
<1> QED BY <1>1, <1>2, <1>3

(* A directory with a file more, or less, or with another text in one.     *)
LEMMA WithFile ==
  ASSUME NEW T, NEW D, NEW d \in [D -> Seq(T)], NEW f, NEW text \in Seq(T)
  PROVE  With(d, f, text) \in [D \union {f} -> Seq(T)]
BY DEF With

LEMMA WithoutFile ==
  ASSUME NEW T, NEW D, NEW d \in [D -> Seq(T)], NEW f
  PROVE  Without(d, f) \in [D \ {f} -> Seq(T)]
BY DEF Without

LEMMA EmptyDir == \A T : NoFiles \in [{} -> Seq(T)] /\ DOMAIN NoFiles = {}
BY DEF NoFiles

(* A step of a computer keeps the types: when it ends, and when it writes  *)
(* to its socket.                                                          *)
LEMMA DownTypes ==
  ASSUME ComputerTypes, NetworkTypes, NEW c \in CID, Down(c)
  PROVE  ComputerTypes' /\ NetworkTypes'
<1>1. ComputerTypes'
  BY Constants DEF Down, ComputerTypes, NoJob
<1>2. NetworkTypes'
  BY DEF Down, NetworkTypes
<1> QED BY <1>1, <1>2

LEMMA WriteTypes ==
  ASSUME ComputerTypes, NetworkTypes, NEW c \in CID, NEW cell \in Header \union Cell,
         NEW b \in Sending, pc[c] # "down", Write(c, cell, b), sentCells' \in [CID -> Nat]
  PROVE  ComputerTypes' /\ NetworkTypes'
<1>1. CASE Down(c)
  BY <1>1, DownTypes
<1>2. CASE ~Down(c)
  <2>1. /\ pc' = [pc EXCEPT ![c] = b] /\ UNCHANGED <<job, run, alive, next, link, waiting>>
        /\ \/ UNCHANGED sock
           \/ Len(sock[c]) < Buffer /\ sock' = [sock EXCEPT ![c] = Append(sock[c], cell)]
    BY <1>2 DEF Write, network
  <2>2. ComputerTypes'
    BY <2>1, Constants DEF ComputerTypes
  <2>3. NetworkTypes'
    <3>1. CASE UNCHANGED sock
      BY <2>1, <3>1 DEF NetworkTypes
    <3>2. CASE Len(sock[c]) < Buffer /\ sock' = [sock EXCEPT ![c] = Append(sock[c], cell)]
      <4> DEFINE new == Append(sock[c], cell)
      <4>1. new \in Seq(Header \union Cell) /\ Len(new) <= Buffer
        <5>1. sock[c] \in Seq(Header \union Cell) /\ Len(sock[c]) < Buffer /\ Buffer \in Nat
          BY <3>2, Constants DEF NetworkTypes
        <5> QED BY <5>1
      <4>2. sock' = [sock EXCEPT ![c] = new]
        BY <3>2
      <4> HIDE DEF new
      <4> QED BY <2>1, <4>1, <4>2 DEF NetworkTypes
    <3> QED BY <2>1, <3>1, <3>2
  <2> QED BY <2>2, <2>3
<1> QED BY <1>1, <1>2

(* The file of a process, and the one being sent.                          *)
LEMMA FileFacts ==
  ASSUME DiskTypes, NEW f \in Files
  PROVE  /\ spool # NoDir /\ f \in PrintID /\ f \in DOMAIN spool /\ spool[f] \in Seq(Cell)
         /\ Len(spool[f]) \in Nat /\ Files = DOMAIN spool
<1>1. spool # NoDir /\ Files = DOMAIN spool
  BY DEF Files
<1>2. PICK D \in SUBSET PrintID : spool \in [D -> Seq(Cell)]
  BY <1>1 DEF DiskTypes
<1> QED BY <1>1, <1>2

LEMMA OwnIs ==
  ASSUME DiskTypes, NEW c \in CID
  PROVE  /\ OwnFiles(c) = {f \in Files : f[1] = c}
         /\ \A f \in OwnFiles(c) : f[2] \in PID /\ f = <<c, f[2]>>
         /\ \A p : <<c, p>> \in OwnFiles(c) <=> <<c, p>> \in Files
<1>1. OwnFiles(c) = {f \in Files : f[1] = c}
  BY DEF OwnFiles, Files
<1>2. \A f \in Files : f \in CID \X PID
  BY FileFacts DEF PrintID
<1> QED BY <1>1, <1>2

(* When it starts, connects, is switched off or killed.                   *)
LEMMA TypesUp ==
  ASSUME Types, FilesInv, NEW c \in CID, Boot(c) \/ Connect(c) \/ PowerOff(c) \/ KillComputer(c)
  PROVE  Types'
<1>0. ComputerTypes /\ DiskTypes /\ NetworkTypes /\ ServerTypes
  BY DEF Types
<1> USE <1>0
<1>1. ServerTypes'
  BY DEF Boot, Connect, PowerOff, KillComputer, ServerTypes, server, Communicator
<1>2. CASE Boot(c)
  <2>1. ComputerTypes'
    <3>1. /\ pc' = [pc EXCEPT ![c] = "connect"] /\ run[c] < MaxRuns[c]
          /\ run' = [run EXCEPT ![c] = run[c] + 1] /\ next' = [next EXCEPT ![c] = 2]
          /\ UNCHANGED <<job, sentCells, alive>>
      BY <1>2 DEF Boot, Step
    <3>2. /\ run' \in [CID -> Nat]
          /\ \A d \in CID : run'[d] <= MaxRuns[d] /\ (pc'[d] # "down" => run'[d] # 0)
      <4>1. run' \in [CID -> Nat]
        BY <3>1 DEF ComputerTypes
      <4>2. ASSUME NEW d \in CID
            PROVE  run'[d] <= MaxRuns[d] /\ (pc'[d] # "down" => run'[d] # 0)
        <5>1. CASE d = c
          <6>1. run'[c] = run[c] + 1 /\ run[c] \in Nat /\ MaxRuns[c] \in Nat
            BY <3>1, Constants DEF ComputerTypes
          <6> QED BY <3>1, <5>1, <6>1
        <5>2. CASE d # c
          BY <3>1, <5>2 DEF ComputerTypes
        <5> QED BY <5>1, <5>2
      <4> QED BY <4>1, <4>2
    <3> QED BY <3>1, <3>2 DEF ComputerTypes
  <2>2. NetworkTypes'
    BY <1>2 DEF Boot, NetworkTypes, network
  <2>3. DiskTypes'
    <3>1. NoFiles \in [{} -> Seq(Cell)] /\ {} \in SUBSET PrintID
      BY EmptyDir
    <3>2. \E D \in SUBSET PrintID : NoFiles \in [D -> Seq(Cell)]
      BY <3>1
    <3> QED BY <1>2, <3>2 DEF Boot, DiskTypes, history
  <2> QED BY <1>1, <2>1, <2>2, <2>3 DEF Types
<1>3. CASE Connect(c) \/ PowerOff(c) \/ KillComputer(c)
  <2>1. DiskTypes'
    BY <1>3 DEF Connect, PowerOff, KillComputer, DiskTypes, disk, history
  <2>2. ComputerTypes' /\ NetworkTypes'
    <3>1. CASE Down(c)
      BY <3>1, DownTypes
    <3>2. CASE Connect(c) /\ ~Down(c)
      <4>1. /\ Step(c, "connect", "run") /\ link' = [link EXCEPT ![c] = "open"]
            /\ waiting' = Append(waiting, c)
            /\ UNCHANGED <<job, sentCells, run, alive, next, sock>>
        BY <3>2 DEF Connect
      <4>2. waiting' \in Seq(CID)
        BY <4>1 DEF NetworkTypes
      <4>3. NetworkTypes'
        BY <4>1, <4>2 DEF NetworkTypes
      <4> QED BY <4>1, <4>3 DEF Step, ComputerTypes
    <3>3. CASE PowerOff(c) /\ ~Down(c)
      BY <3>3, Constants DEF PowerOff, Step, ComputerTypes, NetworkTypes, network
    <3> QED BY <1>3, <3>1, <3>2, <3>3 DEF KillComputer
  <2> QED BY <1>1, <2>1, <2>2 DEF Types
<1> QED BY <1>2, <1>3

(* What a process prints goes to its spool file, which is there, and to   *)
(* the history of this life.                                              *)
LEMMA LineIs ==
  ASSUME Types, FilesInv, NEW c \in CID, SpoolLine(c)
  PROVE  /\ pc[c] = "run"
         /\ \E p \in alive[c], life \in DOMAIN printed : \E text, all \in Seq(Cell) :
              /\ <<c, p>> \in Files /\ spool' = [spool EXCEPT ![<<c, p>>] = text]
              /\ printed' = [printed EXCEPT ![life] = all]
              /\ UNCHANGED <<pspool, computer, network>>
<1>0. ComputerTypes /\ DiskTypes
  BY DEF Types
<1>1. PICK p \in alive[c] :
        LET id   == <<c, p>>
            life == <<c, p, run[c]>>
            cell == [id |-> id, run |-> run[c], n |-> Len(printed[life]) + 1]
        IN  /\ pc[c] = "run" /\ Len(printed[life]) < MaxText
            /\ spool' = [spool EXCEPT ![id] = Append(@, cell)]
            /\ printed' = [printed EXCEPT ![life] = Append(@, cell)]
            /\ UNCHANGED <<pspool, paper, computer, network, server, severed>>
  BY DEF SpoolLine
<1> DEFINE id   == <<c, p>>
           life == <<c, p, run[c]>>
           cell == [id |-> id, run |-> run[c], n |-> Len(printed[life]) + 1]
           text == Append(spool[id], cell)
           all  == Append(printed[life], cell)
<1>2. /\ pc[c] = "run" /\ Len(printed[life]) < MaxText
      /\ spool' = [spool EXCEPT ![id] = text] /\ printed' = [printed EXCEPT ![life] = all]
      /\ UNCHANGED <<pspool, computer, network>>
  BY <1>1
<1>3. /\ p \in PID /\ id \in Files /\ life \in DOMAIN printed
      /\ spool[id] \in Seq(Cell) /\ printed[life] \in Seq(Cell)
  BY <1>0, FileFacts DEF FilesInv, FilesOf, ComputerTypes, DiskTypes
<1>4. cell \in Cell
  <2>1. run[c] \in 1 .. MaxRuns[c] /\ id \in PrintID
    BY <1>0, <1>2, <1>3, Constants DEF ComputerTypes, PrintID
  <2>2. Len(printed[life]) + 1 \in 1 .. MaxText
    BY <1>2, <1>3, Constants
  <2>3. run[c] \in Run
    BY <2>1 DEF Run
  <2> QED BY <2>1, <2>2, <2>3 DEF Cell
<1> HIDE DEF cell, life
<1>5. text \in Seq(Cell) /\ all \in Seq(Cell)
  BY <1>3, <1>4
<1> HIDE DEF text, all
<1> QED BY <1>2, <1>3, <1>5

(* When a process starts or prints.                                       *)
LEMMA TypesSpooling ==
  ASSUME Types, FilesInv, NEW c \in CID, InitSpool(c) \/ SpoolLine(c)
  PROVE  Types'
<1>0. ComputerTypes /\ DiskTypes /\ NetworkTypes /\ ServerTypes
  BY DEF Types
<1> USE <1>0
<1>1. ServerTypes'
  BY DEF InitSpool, SpoolLine, ServerTypes, server, Communicator
<1>2. CASE InitSpool(c) /\ spool = NoDir
  <2>1. Down(c) /\ UNCHANGED <<spool, pspool, printed>>
    BY <1>2 DEF InitSpool
  <2>2. DiskTypes'
    BY <2>1 DEF DiskTypes
  <2> QED BY <1>1, <2>1, <2>2, DownTypes DEF Types
<1>3. CASE InitSpool(c) /\ spool # NoDir
  <2> DEFINE p == next[c]
             life == <<c, p, run[c]>>
  <2>1. /\ p \in PID /\ spool' = With(spool, <<c, p>>, <<>>) /\ printed' = With(printed, life, <<>>)
        /\ alive' = [alive EXCEPT ![c] = @ \union {p}] /\ next' = [next EXCEPT ![c] = p + 1]
        /\ UNCHANGED <<pspool, pc, job, sentCells, run, network>>
    BY <1>3 DEF InitSpool
  <2>2. ComputerTypes' /\ NetworkTypes'
    BY <2>1, SMTT(30) DEF ComputerTypes, NetworkTypes, network
  <2>3. DiskTypes'
    <3>1. PICK D \in SUBSET PrintID : spool \in [D -> Seq(Cell)]
      BY <1>3 DEF DiskTypes
    <3>2. <<>> \in Seq(Cell) /\ D \union {<<c, p>>} \in SUBSET PrintID
      BY <2>1 DEF PrintID
    <3>3. spool' \in [D \union {<<c, p>>} -> Seq(Cell)]
      BY <2>1, <3>1, <3>2, WithFile
    <3>4. printed' \in [DOMAIN printed \union {life} -> Seq(Cell)]
      BY <2>1, <3>2, WithFile DEF DiskTypes
    <3>5. printed' \in [DOMAIN printed' -> Seq(Cell)]
      BY <3>4
    <3> QED BY <2>1, <3>2, <3>3, <3>5 DEF DiskTypes
  <2> QED BY <1>1, <2>2, <2>3 DEF Types
<1>4. CASE SpoolLine(c)
  <2>1. PICK p \in alive[c], life \in DOMAIN printed : \E text, all \in Seq(Cell) :
          /\ <<c, p>> \in Files /\ spool' = [spool EXCEPT ![<<c, p>>] = text]
          /\ printed' = [printed EXCEPT ![life] = all]
          /\ UNCHANGED <<pspool, computer, network>>
    BY <1>4, LineIs
  <2>2. PICK text, all \in Seq(Cell) :
          /\ <<c, p>> \in Files /\ spool' = [spool EXCEPT ![<<c, p>>] = text]
          /\ printed' = [printed EXCEPT ![life] = all]
    BY <2>1
  <2>3. DiskTypes'
    <3>1. PICK D \in SUBSET PrintID : spool \in [D -> Seq(Cell)]
      BY <2>2, FileFacts DEF DiskTypes
    <3>2. spool' \in [D -> Seq(Cell)] /\ printed' \in [DOMAIN printed' -> Seq(Cell)]
      BY <2>2, <3>1 DEF DiskTypes
    <3> QED BY <2>1, <3>1, <3>2 DEF DiskTypes
  <2>4. ComputerTypes' /\ NetworkTypes'
    BY <2>1 DEF ComputerTypes, NetworkTypes, computer, network
  <2> QED BY <1>1, <2>3, <2>4 DEF Types
<1> QED BY <1>2, <1>3, <1>4

(* When a text is chosen, sent and removed.                               *)
LEMMA TypesSending ==
  ASSUME Types, FilesInv, NEW c \in CID,
         Exit(c) \/ Scan(c) \/ SendHeader(c) \/ SendFile(c) \/ Remove(c)
  PROVE  Types'
<1>0. ComputerTypes /\ DiskTypes /\ NetworkTypes /\ ServerTypes
  BY DEF Types
<1> USE <1>0
<1>1. ServerTypes'
  BY DEF Exit, Scan, SendHeader, SendFile, Remove, ServerTypes, server, Communicator
<1>2. CASE Exit(c) \/ Scan(c)
  <2>1. DiskTypes'
    BY <1>2 DEF Exit, Scan, DiskTypes, disk, history
  <2>2. CASE Exit(c)
    <3>1. PICK p \in alive[c] :
            /\ Step(c, "run", "header") /\ alive' = [alive EXCEPT ![c] = @ \ {p}]
            /\ job' = [job EXCEPT ![c] = [pid |-> p, type |-> "END_SPOOL"]]
            /\ UNCHANGED <<sentCells, run, next, network>>
      BY <2>2 DEF Exit
    <3> QED BY <1>1, <2>1, <3>1 DEF Types, Step, ComputerTypes, NetworkTypes, network, Sending
  <2>3. CASE Scan(c)
    <3>1. CASE Down(c)
      BY <1>1, <2>1, <3>1, DownTypes DEF Types
    <3>2. CASE ~Down(c)
      <4>1. PICK f \in OwnFiles(c) :
              /\ Step(c, "scan", "header")
              /\ job' = [job EXCEPT ![c] = [pid |-> f[2], type |-> "CPU_TERM"]]
              /\ UNCHANGED <<sentCells, run, alive, next, network>>
        BY <2>3, <3>2 DEF Scan
      <4>2. f[2] \in PID
        BY OwnIs
      <4> QED BY <1>1, <2>1, <4>1, <4>2
              DEF Types, Step, ComputerTypes, NetworkTypes, network, Sending
    <3> QED BY <3>1, <3>2
  <2> QED BY <1>2, <2>2, <2>3
<1>3. CASE SendHeader(c) \/ SendFile(c)
  <2>1. DiskTypes'
    BY <1>3 DEF SendHeader, SendFile, DiskTypes, disk, history
  <2>2. pc[c] \in Sending /\ Back(c) \in {"run", "scan"}
    BY <1>3 DEF SendHeader, SendFile, Sending, Back
  <2>3. sentCells' \in [CID -> Nat]
    <3>1. \/ sentCells' = [sentCells EXCEPT ![c] = 0] \/ UNCHANGED sentCells
          \/ sentCells' = [sentCells EXCEPT ![c] = sentCells[c] + 1]
      BY <1>3 DEF SendHeader, SendFile
    <3> QED BY <3>1 DEF ComputerTypes
  <2>4. CASE /\ UNCHANGED <<job, run, alive, next, network>>
             /\ \E b \in {"run", "scan", "remove"} : Step(c, pc[c], b)
    <3>1. PICK b \in {"run", "scan", "remove"} : pc' = [pc EXCEPT ![c] = b] /\ pc[c] # "down"
      BY <2>2, <2>4 DEF Step, Sending
    <3>2. ComputerTypes'
      BY <2>3, <2>4, <3>1 DEF ComputerTypes, Sending
    <3>3. NetworkTypes'
      BY <2>4 DEF NetworkTypes, network
    <3> QED BY <1>1, <2>1, <3>2, <3>3 DEF Types
  <2>5. CASE \E cell \in Header \union Cell : Write(c, cell, "text")
    <3>1. pc[c] # "down" /\ "text" \in Sending
      BY <2>2 DEF Sending
    <3> QED BY <1>1, <2>1, <2>3, <2>5, <3>1, WriteTypes DEF Types
  <2>6. CASE SendHeader(c)
    <3>1. CASE File(c) \notin OwnFiles(c)
      BY <2>2, <2>4, <2>6, <3>1 DEF SendHeader, Step
    <3>2. CASE File(c) \in OwnFiles(c)
      <4> DEFINE h == [cid |-> c, pid |-> job[c].pid, size |-> Len(spool[File(c)]),
                       type |-> job[c].type]
      <4>1. Write(c, h, "text") /\ File(c) \in Files
        BY <2>6, <3>2, OwnIs DEF SendHeader
      <4>2. h \in Header
        <5>1. job[c].pid \in PID /\ Len(spool[File(c)]) \in Nat
          BY <2>2, <4>1, FileFacts DEF FilesInv, FilesOf
        <5> QED BY <5>1 DEF Header, ComputerTypes
      <4> HIDE DEF h
      <4> QED BY <2>5, <4>1, <4>2
    <3> QED BY <3>1, <3>2
  <2>7. CASE SendFile(c)
    <3>1. /\ pc[c] = "text" /\ File(c) \in Files
          /\ sentCells[c] \in Nat /\ sentCells[c] <= Len(spool[File(c)])
      BY <2>7 DEF SendFile, FilesInv, FilesOf, ComputerTypes
    <3>2. CASE sentCells[c] = Len(spool[File(c)])
      BY <2>4, <2>7, <3>1, <3>2 DEF SendFile
    <3>3. CASE sentCells[c] # Len(spool[File(c)])
      <4> DEFINE cell == spool[File(c)][sentCells[c] + 1]
      <4>1. Write(c, cell, "text")
        BY <2>7, <3>3 DEF SendFile
      <4>2. cell \in Cell
        <5>1. spool[File(c)] \in Seq(Cell) /\ Len(spool[File(c)]) \in Nat
          BY <3>1, FileFacts
        <5>2. sentCells[c] + 1 \in 1 .. Len(spool[File(c)])
          BY <3>1, <3>3, <5>1
        <5> QED BY <5>1, <5>2
      <4> HIDE DEF cell
      <4> QED BY <2>5, <4>1, <4>2
    <3> QED BY <3>2, <3>3
  <2> QED BY <1>3, <2>6, <2>7
<1>4. CASE Remove(c)
  <2>1. ComputerTypes' /\ NetworkTypes'
    BY <1>4, Constants DEF Remove, Step, Back, ComputerTypes, NetworkTypes, network
  <2>2. DiskTypes'
    <3>1. File(c) \in Files
      BY <1>4 DEF Remove, Step, FilesInv, FilesOf
    <3>2. PICK D \in SUBSET PrintID : spool \in [D -> Seq(Cell)]
      BY <3>1, FileFacts DEF DiskTypes
    <3>3. spool' \in [D \ {File(c)} -> Seq(Cell)] /\ D \ {File(c)} \in SUBSET PrintID
      BY <1>4, <3>2, WithoutFile DEF Remove
    <3> QED BY <1>4, <3>3 DEF Remove, DiskTypes, history
  <2> QED BY <1>1, <2>1, <2>2 DEF Types
<1> QED BY <1>2, <1>3, <1>4
-----------------------------------------------------------------------------
(* A step of the printer.                                                  *)
LEMMA Serving ==
  ASSUME NetworkTypes, ServerTypes, LinkInv, NEW k \in Comm, comm[k].pc # "idle"
  PROVE  /\ comm[k].conn \in CID /\ printer \in {"up", "garbled"} /\ pspool # NoDir
         /\ link[comm[k].conn] \in {"open", "closed"}
<1>1. comm[k].conn # None /\ comm[k] \in Communicator
  BY DEF ServerTypes
<1>2. comm[k].conn \in CID
  BY <1>1 DEF Communicator
<1>3. printer \in {"up", "garbled"} /\ pspool # NoDir
  BY DEF LinkInv, PrinterInv, Free
<1>4. link[comm[k].conn] \in {"open", "closed"}
  <2>1. ~Unserved(comm[k].conn) /\ LinkOf(comm[k].conn)
    BY <1>2 DEF Unserved, LinkInv
  <2> QED BY <1>2, <2>1 DEF LinkOf, NetworkTypes
<1> QED BY <1>2, <1>3, <1>4

(* The communicators keep the types.  The text that is read is made of    *)
(* cells because of FrameInv.                                             *)
LEMMA TypesCommunicator ==
  ASSUME Types, LinkInv, FrameInv, NEW k \in Comm,
         Win(k) \/ ReadHeader(k) \/ ReadText(k) \/ Put(k)
  PROVE  Types'
<1>0. ComputerTypes /\ DiskTypes /\ NetworkTypes /\ ServerTypes
  BY DEF Types
<1> USE <1>0
<1>1. ComputerTypes'
  BY DEF Win, ReadHeader, ReadText, Put, ComputerTypes, computer
<1> DEFINE c == comm[k].conn
<1>2. CASE Win(k)
  <2>1. DiskTypes'
    BY <1>2 DEF Win, DiskTypes, disk, history
  <2>2. Head(waiting) \in CID /\ Tail(waiting) \in Seq(CID)
    BY <1>2 DEF Win, NetworkTypes
  <2>3. NetworkTypes'
    BY <1>2, <2>2 DEF Win, NetworkTypes
  <2>4. PICK d \in CID : d = Head(waiting)
    BY <2>2
  <2>5. ServerTypes'
    <3> DEFINE new == [conn |-> d, pc |-> "header", msg |-> None, text |-> <<>>]
    <3>1. new.conn = d /\ new.pc = "header" /\ d # None
      BY Constants
    <3>2. comm' = [comm EXCEPT ![k] = new] /\ UNCHANGED <<queue, printer, starts>>
      BY <1>2, <2>4 DEF Win
    <3>3. new \in Communicator
      <4>1. <<>> \in Seq(Cell \union {Junk})
        OBVIOUS
      <4> QED BY <4>1 DEF Communicator
    <3> HIDE DEF new
    <3> QED BY <3>1, <3>2, <3>3 DEF ServerTypes
  <2> QED BY <1>1, <2>1, <2>3, <2>5 DEF Types
<1>3. CASE ReadHeader(k)
  <2>1. DiskTypes'
    BY <1>3 DEF ReadHeader, DiskTypes, disk, history
  <2>2. c \in CID /\ sock[c] \in Seq(Header \union Cell)
    BY <1>3, Serving DEF ReadHeader, NetworkTypes
  <2>3. CASE sock[c] # <<>> /\ sock' = [sock EXCEPT ![c] = Tail(@)] /\ UNCHANGED <<link, waiting>>
    <3>1. Tail(sock[c]) \in Seq(Header \union Cell) /\ Len(Tail(sock[c])) <= Len(sock[c])
          /\ Head(sock[c]) \in Header \union Cell /\ Len(sock[c]) \in Nat
          /\ Len(Tail(sock[c])) \in Nat
      BY <2>2, <2>3
    <3>2. NetworkTypes'
      <4>1. Len(Tail(sock[c])) <= Buffer
        BY <2>2, <3>1, Constants DEF NetworkTypes
      <4> QED BY <2>3, <3>1, <4>1 DEF NetworkTypes
    <3>3. ServerTypes'
      <4>1. CASE "size" \in DOMAIN Head(sock[c])
        <5>1. PICK h \in Header : h = Head(sock[c])
          BY <3>1, <4>1, HeaderFacts
        <5>2. /\ comm' = [comm EXCEPT ![k].msg = h, ![k].pc = "text"]
              /\ UNCHANGED <<queue, printer, starts>> /\ comm[k].pc = "header"
          BY <1>3, <2>3, <4>1, <5>1 DEF ReadHeader
        <5> DEFINE new == [comm[k] EXCEPT !.msg = h, !.pc = "text"]
        <5>3. new \in Communicator /\ new.msg = h /\ new.pc = "text" /\ new.conn = comm[k].conn
          BY DEF ServerTypes, Communicator
        <5>4. comm' = [comm EXCEPT ![k] = new]
          BY <5>2 DEF ServerTypes
        <5> HIDE DEF new
        <5>5. comm[k].conn # None
          BY <2>2, Constants
        <5>6. comm' \in [Comm -> Communicator]
          BY <5>3, <5>4 DEF ServerTypes
        <5>7. \A j \in Comm : comm'[j] = IF j = k THEN new ELSE comm[j]
          BY <5>4 DEF ServerTypes
        <5>8. \A j \in Comm : /\ comm'[j].pc = "idle" <=> comm'[j].conn = None
                              /\ comm'[j].pc \in {"text", "put"} => comm'[j].msg \in Header
          BY <5>1, <5>3, <5>5, <5>7 DEF ServerTypes
        <5> QED BY <5>2, <5>6, <5>8 DEF ServerTypes
      <4>2. CASE "size" \notin DOMAIN Head(sock[c])
        BY <1>3, <2>3, <4>2 DEF ReadHeader, ServerTypes
      <4> QED BY <4>1, <4>2
    <3> QED BY <1>1, <2>1, <3>2, <3>3 DEF Types
  <2>4. CASE sock[c] = <<>>
    <3>1. /\ link' = [link EXCEPT ![c] = "none"] /\ comm' = [comm EXCEPT ![k] = Free]
          /\ UNCHANGED <<sock, printer, waiting, queue, starts>>
      BY <1>3, <2>4 DEF ReadHeader
    <3>2. NetworkTypes'
      BY <3>1 DEF NetworkTypes
    <3>3. Free \in Communicator /\ Free.pc = "idle" /\ Free.conn = None
      BY DEF Free, Communicator
    <3>4. ServerTypes'
      BY <3>1, <3>3 DEF ServerTypes
    <3> QED BY <1>1, <2>1, <3>2, <3>4 DEF Types
  <2> QED BY <1>3, <2>3, <2>4 DEF ReadHeader
<1>4. CASE ReadText(k)
  <2>1. DiskTypes'
    BY <1>4 DEF ReadText, DiskTypes, disk, history
  <2> DEFINE size == comm[k].msg.size
             n    == IF Len(sock[c]) < size THEN Len(sock[c]) ELSE size
             text == [i \in 1 .. size |-> IF i <= n THEN sock[c][i] ELSE Junk]
             rest == SubSeq(sock[c], n + 1, Len(sock[c]))
  <2>2. /\ c \in CID /\ sock[c] \in Seq(Header \union Cell) /\ size \in Nat
        /\ comm[k].pc = "text" /\ comm[k].msg \in Header
    BY <1>4, Serving, HeaderFacts DEF ReadText, NetworkTypes, ServerTypes
  <2>3. /\ comm' = [comm EXCEPT ![k].text = text, ![k].pc = "put"]
        /\ sock' = [sock EXCEPT ![c] = rest] /\ UNCHANGED <<link, waiting, queue, printer, starts>>
    BY <1>4 DEF ReadText
  <2>4. n \in Nat /\ n <= Len(sock[c]) /\ n <= size /\ Len(sock[c]) \in Nat
    BY <2>2
  <2>5. \A i \in 1 .. n : sock[c][i] \in Cell
    <3> SUFFICES ASSUME NEW i \in 1 .. n, sock[c][i] \notin Cell PROVE FALSE
      OBVIOUS
    <3>1. i \in DOMAIN sock[c] /\ i <= size
      BY <2>2, <2>4
    <3>2. sock[c][i] \in Header
      BY <2>2, <3>1
    <3>3. i \in Heads(sock[c])
      BY <3>1, <3>2 DEF Heads
    <3>4. size < i
      BY <2>2, <3>3 DEF FrameInv, FrameOf
    <3> QED BY <2>2, <3>1, <3>4
  <2>6. text \in Seq(Cell \union {Junk})
    <3>1. \A i \in 1 .. size : (IF i <= n THEN sock[c][i] ELSE Junk) \in Cell \union {Junk}
      BY <2>4, <2>5, <2>2
    <3> HIDE DEF n
    <3> QED BY <2>2, <3>1
  <2>7. rest \in Seq(Header \union Cell) /\ Len(rest) <= Buffer
    <3>1. Len(sock[c]) <= Buffer /\ Buffer \in Nat
      BY <2>2, Constants DEF NetworkTypes
    <3> HIDE DEF n
    <3> QED BY <2>2, <2>4, <3>1
  <2> HIDE DEF text, rest
  <2>8. NetworkTypes'
    BY <2>2, <2>3, <2>7 DEF NetworkTypes
  <2>9. ServerTypes'
    <3> DEFINE new == [comm[k] EXCEPT !.text = text, !.pc = "put"]
    <3>1. new \in Communicator /\ new.msg = comm[k].msg /\ new.pc = "put" /\ new.conn = comm[k].conn
      BY <2>6 DEF ServerTypes, Communicator
    <3>2. comm' = [comm EXCEPT ![k] = new]
      BY <2>3 DEF ServerTypes
    <3> HIDE DEF new
    <3> QED BY <2>2, <2>3, <3>1, <3>2, Constants, ZenonT(60) DEF ServerTypes
  <2> QED BY <1>1, <2>1, <2>8, <2>9 DEF Types
<1>5. CASE Put(k)
  <2> DEFINE m == comm[k].msg
             id == <<m.cid, m.pid>>
  <2>1. /\ comm[k].pc = "put" /\ Len(queue[k]) < MQS
        /\ pspool' = With(pspool, id, comm[k].text) /\ queue' = [queue EXCEPT ![k] = Append(@, m)]
        /\ comm' = [comm EXCEPT ![k] = [@ EXCEPT !.pc = "header", !.msg = None, !.text = <<>>]]
        /\ UNCHANGED <<spool, network, printer, starts, printed>>
    BY <1>5 DEF Put, history
  <2>2. m \in Header /\ id \in PrintID /\ comm[k].text \in Seq(Cell \union {Junk})
        /\ comm[k].conn # None /\ pspool # NoDir /\ comm[k] \in Communicator
    <3>1. m \in Header /\ comm[k] \in Communicator /\ comm[k].conn # None /\ pspool # NoDir
      BY <2>1, Serving DEF ServerTypes
    <3> QED BY <3>1, HeaderFacts DEF Communicator, PrintID
  <2>3. DiskTypes'
    <3>1. PICK D \in SUBSET PrintID : pspool \in [D -> Seq(Cell \union {Junk})]
      BY <2>2 DEF DiskTypes
    <3>2. pspool' \in [D \union {id} -> Seq(Cell \union {Junk})] /\ D \union {id} \in SUBSET PrintID
      BY <2>1, <2>2, <3>1, WithFile
    <3> QED BY <2>1, <3>2 DEF DiskTypes
  <2>4. NetworkTypes'
    BY <2>1 DEF NetworkTypes, network
  <2>5. ServerTypes'
    <3> DEFINE new == [comm[k] EXCEPT !.pc = "header", !.msg = None, !.text = <<>>]
               q == Append(queue[k], m)
    <3>1. new \in Communicator /\ new.pc = "header" /\ new.conn = comm[k].conn
      <4>1. <<>> \in Seq(Cell \union {Junk})
        OBVIOUS
      <4> QED BY <2>2, <4>1 DEF Communicator
    <3>2. q \in Seq(Header) /\ Len(q) <= MQS
      <4>1. queue[k] \in Seq(Header) /\ Len(queue[k]) < MQS /\ m \in Header /\ MQS \in Nat
        BY <2>1, <2>2, Constants DEF ServerTypes
      <4> QED BY <4>1
    <3>3. comm' = [comm EXCEPT ![k] = new] /\ queue' = [queue EXCEPT ![k] = q]
      BY <2>1
    <3> HIDE DEF new, q
    <3> QED BY <2>1, <2>2, <3>1, <3>2, <3>3 DEF ServerTypes
  <2> QED BY <1>1, <2>3, <2>4, <2>5 DEF Types
<1> QED BY <1>2, <1>3, <1>4, <1>5

(* The end of the printer, however it comes.                              *)
LEMMA GoneTypes ==
  ASSUME NetworkTypes, ServerTypes, NEW end \in {"down", "killed"}, PrinterGone(end),
         UNCHANGED starts
  PROVE  NetworkTypes' /\ ServerTypes'
<1>1. Free \in Communicator /\ Free.pc = "idle" /\ Free.conn = None
  BY DEF Free, Communicator
<1>2. ServerTypes'
  BY <1>1, Constants DEF PrinterGone, ServerTypes
<1>3. NetworkTypes'
  BY Constants DEF PrinterGone, NetworkTypes
<1> QED BY <1>2, <1>3

(* The printer thread and the start and the end of the printer.           *)
LEMMA TypesPrinter ==
  ASSUME Types, LinkInv, Pages \/ PrinterInit \/ Sigint \/ KillPrinter
  PROVE  Types'
<1>0. ComputerTypes /\ DiskTypes /\ NetworkTypes /\ ServerTypes
  BY DEF Types
<1> USE <1>0
<1>1. ComputerTypes'
  BY DEF Pages, Page, PrinterInit, Sigint, KillPrinter, ComputerTypes, computer
<1>2. CASE Pages
  <2>1. PICK k \in Comm : Page(k)
    BY <1>2 DEF Pages
  <2> DEFINE m == Head(queue[k])
             id == <<m.cid, m.pid>>
  <2>2. /\ queue[k] # <<>> /\ pspool' = Without(pspool, id)
        /\ queue' = [queue EXCEPT ![k] = Tail(@)]
        /\ UNCHANGED <<spool, network, comm, printer, starts, printed>>
    BY <2>1 DEF Page, history
  <2>3. pspool # NoDir
    BY <2>2 DEF LinkInv, PrinterInv
  <2>4. DiskTypes'
    <3>1. PICK D \in SUBSET PrintID : pspool \in [D -> Seq(Cell \union {Junk})]
      BY <2>3 DEF DiskTypes
    <3>2. pspool' \in [D \ {id} -> Seq(Cell \union {Junk})] /\ D \ {id} \in SUBSET PrintID
      BY <2>2, <3>1, WithoutFile
    <3> QED BY <2>2, <3>2 DEF DiskTypes
  <2>5. ServerTypes'
    <3> DEFINE q == Tail(queue[k])
    <3>1. q \in Seq(Header) /\ Len(q) <= MQS
      <4>1. queue[k] \in Seq(Header) /\ Len(queue[k]) <= MQS /\ MQS \in Nat
        BY Constants DEF ServerTypes
      <4> QED BY <2>2, <4>1
    <3>2. queue' = [queue EXCEPT ![k] = q]
      BY <2>2
    <3> HIDE DEF q
    <3> QED BY <2>2, <3>1, <3>2 DEF ServerTypes
  <2> QED BY <1>1, <2>2, <2>4, <2>5 DEF Types, NetworkTypes, network
<1>3. CASE PrinterInit
  <2>1. NetworkTypes' /\ ServerTypes'
    BY <1>3, Constants DEF PrinterInit, NetworkTypes, network, ServerTypes
  <2>2. DiskTypes'
    <3>1. NoFiles \in [{} -> Seq(Cell \union {Junk})] /\ {} \in SUBSET PrintID
      BY EmptyDir
    <3>2. \E D \in SUBSET PrintID : NoFiles \in [D -> Seq(Cell \union {Junk})]
      BY <3>1
    <3>3. /\ UNCHANGED printed /\ pspool' \in {pspool, NoFiles} /\ spool' \in {spool, NoDir}
      BY <1>3 DEF PrinterInit, empty_dir, history
    <3> QED BY <3>2, <3>3 DEF DiskTypes
  <2> QED BY <1>1, <2>1, <2>2 DEF Types
<1>4. CASE Sigint \/ KillPrinter
  <2>1. DiskTypes'
    BY <1>4 DEF Sigint, KillPrinter, DiskTypes, history
  <2>2. NetworkTypes' /\ ServerTypes'
    BY <1>4, GoneTypes DEF Sigint, KillPrinter
  <2> QED BY <1>1, <2>1, <2>2 DEF Types
<1> QED BY <1>2, <1>3, <1>4
-----------------------------------------------------------------------------
(* What a computer does to the others: nothing, and to their files neither.*)
ComputerStep(c) == \/ Boot(c) \/ Connect(c) \/ PowerOff(c) \/ KillComputer(c) \/ InitSpool(c)
                   \/ SpoolLine(c) \/ Exit(c) \/ Scan(c) \/ SendHeader(c) \/ SendFile(c)
                   \/ Remove(c)

LEMMA Alone ==
  ASSUME NEW c \in CID, ComputerStep(c), NEW d \in CID, d # c, Types
  PROVE  /\ pc'[d] = pc[d] /\ job'[d] = job[d] /\ sentCells'[d] = sentCells[d]
         /\ run'[d] = run[d] /\ alive'[d] = alive[d] /\ next'[d] = next[d]
         /\ link'[d] = link[d] /\ sock'[d] = sock[d]
<1>0. ComputerTypes /\ NetworkTypes
  BY DEF Types
<1>1. CASE Down(c)
  BY <1>0, <1>1 DEF Down, ComputerTypes, NetworkTypes
<1>2. CASE ~Down(c)
  <2>1. CASE Boot(c) \/ Connect(c) \/ PowerOff(c) \/ Scan(c) \/ Remove(c)
    BY <1>0, <1>2, <2>1 DEF Boot, Connect, PowerOff, Scan, Remove, Step,
          network, ComputerTypes, NetworkTypes
  <2>2. CASE InitSpool(c) \/ SpoolLine(c) \/ Exit(c)
    BY <1>0, <1>2, <2>2 DEF InitSpool, SpoolLine, Exit, Step, computer, network,
          ComputerTypes, NetworkTypes
  <2>3. CASE SendHeader(c) \/ SendFile(c)
    BY <1>0, <1>2, <2>3 DEF SendHeader, SendFile, Write, Step, network, ComputerTypes, NetworkTypes
  <2> QED BY <1>2, <2>1, <2>2, <2>3 DEF ComputerStep, KillComputer
<1> QED BY <1>1, <1>2

(* The files after print_init_spool, after print_print and after the      *)
(* removal that ends print_end_spool.                                     *)
LEMMA FilesMade ==
  ASSUME NEW c \in CID, InitSpool(c), spool # NoDir, Types
  PROVE  /\ Files' = Files \union {<<c, next[c]>>}
         /\ \A f \in Files : f # <<c, next[c]>> => spool'[f] = spool[f]
         /\ DOMAIN printed' = DOMAIN printed \union {<<c, next[c], run[c]>>}
<1>0. DiskTypes
  BY DEF Types
<1>1. /\ spool' = With(spool, <<c, next[c]>>, <<>>) /\ next[c] \in PID
      /\ printed' = With(printed, <<c, next[c], run[c]>>, <<>>)
  BY DEF InitSpool
<1>2. PICK D \in SUBSET PrintID : spool \in [D -> Seq(Cell)] /\ D = DOMAIN spool
  BY <1>0 DEF DiskTypes
<1>3. PICK f \in PrintID : f = <<c, next[c]>>
  BY <1>1 DEF PrintID
<1>4. <<>> \in Seq(Cell)
  OBVIOUS
<1>5. spool' = With(spool, f, <<>>)
  BY <1>1, <1>3
<1>6. spool' \in [D \union {f} -> Seq(Cell)] /\ \A g \in D : g # f => spool'[g] = spool[g]
  <2>1. With(spool, f, <<>>) \in [D \union {f} -> Seq(Cell)]
    BY <1>2, <1>4, WithFile
  <2>2. ASSUME NEW g \in D, g # f PROVE With(spool, f, <<>>)[g] = spool[g]
    BY <1>2, <2>2 DEF With
  <2> QED BY <1>5, <2>1, <2>2
<1>7. D \union {f} \in SUBSET PrintID
  OBVIOUS
<1>8. spool' # NoDir /\ DOMAIN spool' = D \union {f}
  BY <1>6, <1>7, NoDirFacts
<1>9. DOMAIN printed' = DOMAIN printed \union {<<c, next[c], run[c]>>}
  BY <1>1 DEF With
<1> QED BY <1>2, <1>3, <1>6, <1>8, <1>9 DEF Files

LEMMA FileLonger ==
  ASSUME NEW c \in CID, SpoolLine(c), Types, FilesInv
  PROVE  /\ pc[c] = "run" /\ Files' = Files
         /\ \A f \in Files : f[1] # c => spool'[f] = spool[f]
         /\ DOMAIN printed' = DOMAIN printed
         /\ UNCHANGED <<computer, network>>
<1>0. DiskTypes
  BY DEF Types
<1>1. PICK p \in alive[c], life \in DOMAIN printed : \E text, all \in Seq(Cell) :
        /\ <<c, p>> \in Files /\ spool' = [spool EXCEPT ![<<c, p>>] = text]
        /\ printed' = [printed EXCEPT ![life] = all]
        /\ UNCHANGED <<pspool, computer, network>>
  BY LineIs
<1>2. PICK text, all \in Seq(Cell) :
        /\ <<c, p>> \in Files /\ spool' = [spool EXCEPT ![<<c, p>>] = text]
        /\ printed' = [printed EXCEPT ![life] = all]
  BY <1>1
<1>3. PICK D \in SUBSET PrintID : spool \in [D -> Seq(Cell)] /\ D = DOMAIN spool
  BY <1>0, <1>2 DEF DiskTypes, Files
<1>4. spool' \in [D -> Seq(Cell)] /\ \A f \in D : f # <<c, p>> => spool'[f] = spool[f]
  BY <1>2, <1>3
<1>5. spool' # NoDir /\ spool # NoDir /\ DOMAIN spool' = D
  BY <1>2, <1>4, NoDirFacts DEF Files
<1> QED BY <1>1, <1>2, <1>3, <1>4, <1>5, LineIs DEF Files

LEMMA FileGone ==
  ASSUME NEW c \in CID, Remove(c), Types, FilesInv
  PROVE  /\ Files' = Files \ {File(c)}
         /\ \A f \in Files \ {File(c)} : spool'[f] = spool[f]
         /\ UNCHANGED printed
<1>0. DiskTypes
  BY DEF Types
<1>1. spool' = Without(spool, File(c)) /\ UNCHANGED printed /\ pc[c] = "remove"
  BY DEF Remove, Step, history
<1>2. PICK f \in Files : f = File(c)
  BY <1>1 DEF FilesInv, FilesOf
<1>3. PICK D \in SUBSET PrintID : spool \in [D -> Seq(Cell)] /\ D = DOMAIN spool
  BY <1>0, <1>2 DEF DiskTypes, Files
<1>4. spool' = Without(spool, f)
  BY <1>1, <1>2
<1>5. spool' \in [D \ {f} -> Seq(Cell)] /\ \A g \in D \ {f} : spool'[g] = spool[g]
  <2>1. Without(spool, f) \in [D \ {f} -> Seq(Cell)]
    BY <1>3, WithoutFile
  <2>2. ASSUME NEW g \in D \ {f} PROVE Without(spool, f)[g] = spool[g]
    BY <1>3 DEF Without
  <2> QED BY <1>4, <2>1, <2>2
<1>6. D \ {f} \in SUBSET PrintID
  OBVIOUS
<1>7. spool' # NoDir /\ DOMAIN spool' = D \ {f} /\ spool # NoDir
  BY <1>2, <1>5, <1>6, NoDirFacts DEF Files
<1> QED BY <1>1, <1>2, <1>3, <1>5, <1>7 DEF Files

(* The files of the other computers stay.                                 *)
LEMMA Elsewhere ==
  ASSUME NEW c \in CID, ComputerStep(c), Types, FilesInv
  PROVE  /\ \A f \in Files : f[1] # c => f \in Files' /\ spool'[f] = spool[f]
         /\ DOMAIN printed \subseteq DOMAIN printed'
<1>1. CASE UNCHANGED <<spool, printed>>
  BY <1>1 DEF Files
<1>2. CASE Boot(c)
  BY <1>2 DEF Boot, Files, history
<1>3. CASE InitSpool(c)
  <2>1. CASE spool = NoDir
    BY <1>1, <1>3, <2>1 DEF InitSpool
  <2>2. CASE spool # NoDir
    <3>1. \A f \in Files : f[1] # c => f # <<c, next[c]>>
      OBVIOUS
    <3> QED BY <1>3, <2>2, <3>1, FilesMade
  <2> QED BY <2>1, <2>2
<1>4. CASE SpoolLine(c)
  BY <1>4, FileLonger
<1>5. CASE Remove(c)
  <2>1. File(c)[1] = c
    BY DEF File
  <2> QED BY <1>5, <2>1, FileGone
<1> QED BY <1>1, <1>2, <1>3, <1>4, <1>5
        DEF ComputerStep, Connect, PowerOff, KillComputer, Exit, Scan, SendHeader, SendFile, disk,
            history

(* FilesInv, when a computer ends, when it writes to its socket, and in   *)
(* each of its steps.                                                     *)
LEMMA FilesDown ==
  ASSUME Types, NEW c \in CID, Down(c)
  PROVE  FilesOf(c)'
BY DEF Types, ComputerTypes, Down, FilesOf, Sending

LEMMA FilesWrite ==
  ASSUME Types, FilesInv, NEW c \in CID, NEW cell, pc[c] \in {"header", "text"},
         Write(c, cell, "text"), ~Down(c), File(c) \in Files, UNCHANGED <<spool, printed>>,
         sentCells' \in [CID -> Nat], sentCells'[c] <= Len(spool[File(c)])
  PROVE  FilesOf(c)'
<1>1. /\ pc' = [pc EXCEPT ![c] = "text"] /\ UNCHANGED <<job, run, alive>>
  BY DEF Write
<1>2. pc'[c] = "text" /\ UNCHANGED <<Files, File(c)>>
  BY <1>1 DEF Types, ComputerTypes, Files, File
<1> QED BY <1>1, <1>2 DEF FilesInv, FilesOf, Sending

LEMMA FilesStep ==
  ASSUME NEW c \in CID, ComputerStep(c), Types, FilesInv
  PROVE  FilesInv'
<1>0. ComputerTypes /\ DiskTypes
  BY DEF Types
<1>1. ASSUME NEW d \in CID, d # c PROVE FilesOf(d)'
  <2>1. /\ pc'[d] = pc[d] /\ job'[d] = job[d] /\ sentCells'[d] = sentCells[d]
        /\ run'[d] = run[d] /\ alive'[d] = alive[d]
    BY <1>1, Alone
  <2>2. FilesOf(d)
    BY DEF FilesInv
  <2>3. \A p : <<d, p>> \in Files => <<d, p>> \in Files' /\ spool'[<<d, p>>] = spool[<<d, p>>]
    <3>1. \A p : <<d, p>>[1] # c
      BY <1>1
    <3> QED BY <3>1, Elsewhere
  <2>4. File(d)' = File(d)
    BY <2>1 DEF File
  <2>5. File(d) \in Files => File(d) \in Files' /\ spool'[File(d)] = spool[File(d)]
    BY <2>3 DEF File
  <2>6. \A p \in alive[d] : <<d, p>> \in Files' /\ <<d, p, run[d]>> \in DOMAIN printed'
    BY <2>2, <2>3, Elsewhere DEF FilesOf
  <2> QED BY <2>1, <2>2, <2>4, <2>5, <2>6 DEF FilesOf, Sending
<1>2. FilesOf(c)
  BY DEF FilesInv
<1>3. FilesOf(c)'
  <2>1. CASE Down(c)
    BY <2>1, FilesDown
  <2>2. CASE Boot(c) \/ (Connect(c) /\ ~Down(c)) \/ (PowerOff(c) /\ ~Down(c))
    BY <1>0, <1>2, <2>2 DEF Boot, Connect, PowerOff, Step, FilesOf, ComputerTypes, Sending
  <2>3. CASE InitSpool(c) /\ ~Down(c)
    <3>1. /\ spool # NoDir /\ alive' = [alive EXCEPT ![c] = @ \union {next[c]}]
          /\ pc[c] = "run" /\ UNCHANGED <<pc, job, run>>
      BY <2>3 DEF InitSpool
    <3>2. /\ Files' = Files \union {<<c, next[c]>>}
          /\ DOMAIN printed' = DOMAIN printed \union {<<c, next[c], run[c]>>}
      BY <2>3, <3>1, FilesMade
    <3>3. alive'[c] = alive[c] \union {next[c]}
      BY <1>0, <3>1 DEF ComputerTypes
    <3> QED BY <1>2, <3>1, <3>2, <3>3 DEF FilesOf, Sending
  <2>4. CASE SpoolLine(c)
    <3>1. pc[c] = "run" /\ UNCHANGED <<Files, DOMAIN printed, computer>>
      BY <2>4, FileLonger
    <3> QED BY <1>2, <3>1 DEF FilesOf, Sending, computer
  <2>5. CASE Exit(c)
    <3>1. PICK p \in alive[c] :
            /\ Step(c, "run", "header") /\ alive' = [alive EXCEPT ![c] = @ \ {p}]
            /\ job' = [job EXCEPT ![c] = [pid |-> p, type |-> "END_SPOOL"]]
            /\ UNCHANGED <<spool, printed, run>>
      BY <2>5 DEF Exit, disk, history
    <3>2. /\ pc'[c] = "header" /\ alive'[c] = alive[c] \ {p} /\ p \in PID
          /\ job'[c].pid = p /\ job'[c].type = "END_SPOOL"
      BY <1>0, <3>1 DEF Step, ComputerTypes
    <3>3. Files' = Files
      BY <3>1 DEF Files
    <3> QED BY <1>2, <3>1, <3>2, <3>3 DEF FilesOf, Sending
  <2>6. CASE Scan(c) /\ ~Down(c)
    <3>1. PICK f \in OwnFiles(c) :
            /\ Step(c, "scan", "header")
            /\ job' = [job EXCEPT ![c] = [pid |-> f[2], type |-> "CPU_TERM"]]
            /\ UNCHANGED <<spool, printed, run, alive>>
      BY <2>6 DEF Scan, disk, history
    <3>2. pc[c] = "scan" /\ pc'[c] = "header" /\ job'[c].pid \in PID
      BY <1>0, <3>1, OwnIs DEF Step, ComputerTypes
    <3>3. alive'[c] = {}
      BY <1>2, <3>1, <3>2 DEF FilesOf, Sending
    <3> QED BY <3>2, <3>3 DEF FilesOf, Sending
  <2>7. CASE SendHeader(c) /\ ~Down(c)
    <3>1. /\ pc[c] = "header" /\ sentCells' = [sentCells EXCEPT ![c] = 0]
          /\ UNCHANGED <<spool, printed, run, alive, job>>
      BY <2>7 DEF SendHeader, disk, history, Write
    <3>2. CASE File(c) \notin OwnFiles(c)
      <4>1. Step(c, "header", Back(c))
        BY <2>7, <3>2 DEF SendHeader
      <4>2. pc'[c] = Back(c)
        BY <1>0, <4>1 DEF Step, ComputerTypes
      <4>3. Files' = Files
        BY <3>1 DEF Files
      <4> QED BY <1>0, <1>2, <3>1, <4>2, <4>3 DEF FilesOf, Sending, Back, ComputerTypes
    <3>3. CASE File(c) \in OwnFiles(c)
      <4>1. File(c) \in Files
        BY <1>0, <3>3, OwnIs
      <4>2. PICK cell : Write(c, cell, "text")
        BY <2>7, <3>3 DEF SendHeader
      <4>3. sentCells' \in [CID -> Nat] /\ sentCells'[c] = 0
        BY <1>0, <3>1 DEF ComputerTypes
      <4>4. 0 <= Len(spool[File(c)])
        BY <1>0, <4>1, FileFacts
      <4> QED BY <2>7, <3>1, <4>1, <4>2, <4>3, <4>4, FilesWrite
    <3> QED BY <3>2, <3>3
  <2>8. CASE SendFile(c) /\ ~Down(c)
    <3>1. pc[c] = "text" /\ UNCHANGED <<spool, printed>>
      BY <2>8 DEF SendFile, disk, history
    <3>2. File(c) \in Files /\ sentCells[c] <= Len(spool[File(c)])
      BY <1>2, <3>1 DEF FilesOf
    <3>3. CASE sentCells[c] = Len(spool[File(c)])
      <4>1. Step(c, "text", "remove") /\ UNCHANGED <<job, sentCells, run, alive>>
        BY <2>8, <3>3 DEF SendFile
      <4>2. pc'[c] = "remove" /\ UNCHANGED <<Files, File(c)>>
        BY <1>0, <3>1, <4>1 DEF Step, ComputerTypes, Files, File
      <4> QED BY <1>2, <3>1, <3>2, <4>1, <4>2 DEF FilesOf, Sending
    <3>4. CASE sentCells[c] # Len(spool[File(c)])
      <4>1. PICK cell : Write(c, cell, "text")
        BY <2>8, <3>4 DEF SendFile
      <4>2. sentCells' = [sentCells EXCEPT ![c] = IF pc'[c] = "text" THEN @ + 1 ELSE 0]
        BY <2>8, <3>4 DEF SendFile
      <4>3. /\ sentCells' \in [CID -> Nat] /\ sentCells[c] \in Nat
            /\ sentCells'[c] \in {0, sentCells[c] + 1}
        BY <1>0, <4>2 DEF ComputerTypes
      <4>4. Len(spool[File(c)]) \in Nat
        BY <1>0, <3>2, FileFacts
      <4>5. sentCells'[c] <= Len(spool[File(c)])
        BY <3>2, <3>4, <4>3, <4>4
      <4> QED BY <2>8, <3>1, <3>2, <4>1, <4>3, <4>5, FilesWrite
    <3> QED BY <3>3, <3>4
  <2>9. CASE Remove(c)
    <3>1. /\ pc[c] = "remove" /\ pc'[c] = Back(c) /\ UNCHANGED <<run, alive, job>>
      BY <1>0, <2>9 DEF Remove, Step, ComputerTypes
    <3>2. Files' = Files \ {File(c)} /\ UNCHANGED printed
      BY <2>9, FileGone
    <3>3. \A p \in alive[c] : <<c, p>> # File(c)
      BY <1>2, <3>1 DEF FilesOf, File, Sending
    <3> QED BY <1>0, <1>2, <3>1, <3>2, <3>3 DEF FilesOf, Sending, Back, ComputerTypes
  <2> QED BY <2>1, <2>2, <2>3, <2>4, <2>5, <2>6, <2>7, <2>8, <2>9 DEF ComputerStep, KillComputer
<1> QED BY <1>1, <1>3 DEF FilesInv

(* The printer takes the directory away only when no file is in it.       *)
LEMMA FilesServer ==
  ASSUME Types, FilesInv, UNCHANGED <<computer, printed>>,
         spool' = spool \/ (spool = NoFiles /\ spool' = NoDir)
  PROVE  FilesInv'
<1>1. CASE spool' = spool
  BY <1>1 DEF FilesInv, FilesOf, computer, Files, File
<1>2. CASE spool = NoFiles /\ spool' = NoDir
  <2>1. Files = {}
    BY <1>2, EmptyDir DEF Files
  <2> QED BY <2>1 DEF FilesInv, FilesOf, computer
<1> QED BY <1>1, <1>2

(* The connections.                                                        *)
LEMMA LinkStep ==
  ASSUME NEW c \in CID, ComputerStep(c), Types, FilesInv, LinkInv
  PROVE  LinkInv'
<1>0. ComputerTypes /\ NetworkTypes /\ ServerTypes
  BY DEF Types
<1>1. UNCHANGED <<comm, queue, printer, pspool>>
  BY DEF ComputerStep, Boot, Connect, PowerOff, KillComputer, InitSpool, SpoolLine, Exit, Scan,
         SendHeader, SendFile, Remove, disk, server
<1>2. LinkOf(c)
  BY DEF LinkInv
<1>3. CASE Connect(c) /\ ~Down(c)
  <2>1. /\ pc[c] = "connect" /\ printer = "up" /\ pc' = [pc EXCEPT ![c] = "run"]
        /\ link' = [link EXCEPT ![c] = "open"] /\ waiting' = Append(waiting, c) /\ UNCHANGED sock
    BY <1>3 DEF Connect, Step
  <2>2. waiting \in Seq(CID) /\ DOMAIN waiting' = 1 .. Len(waiting) + 1 /\ Len(waiting) \in Nat
        /\ \A i \in DOMAIN waiting' : waiting'[i] = IF i = Len(waiting) + 1 THEN c ELSE waiting[i]
    BY <1>0, <2>1 DEF NetworkTypes
  <2>3. Unserved(c)
    BY <1>2, <2>1 DEF LinkOf
  <2>4. ServedOnce'
    BY <1>1, <2>2, <2>3 DEF LinkInv, ServedOnce, Unserved
  <2>5. ASSUME NEW d \in CID PROVE LinkOf(d)'
    <3>1. CASE d = c
      BY <1>0, <2>1, <3>1 DEF LinkOf, ComputerTypes, NetworkTypes
    <3>2. CASE d # c
      <4>1. link'[d] = link[d] /\ pc'[d] = pc[d] /\ LinkOf(d)
        BY <1>0, <2>1, <3>2 DEF LinkInv, ComputerTypes, NetworkTypes
      <4>2. Unserved(d) => Unserved(d)'
        BY <1>1, <2>2, <3>2 DEF Unserved
      <4> QED BY <2>1, <4>1, <4>2 DEF LinkOf
    <3> QED BY <3>1, <3>2
  <2> QED BY <1>1, <2>1, <2>4, <2>5 DEF LinkInv, PrinterInv
<1>4. CASE ~(Connect(c) /\ ~Down(c))
  <2>1. UNCHANGED waiting
    <3>1. CASE Down(c)
      BY <3>1 DEF Down
    <3>2. CASE ~Down(c)
      BY <1>4, <3>2 DEF ComputerStep, Boot, PowerOff, KillComputer, InitSpool,
         SpoolLine, Exit, Scan, SendHeader, SendFile, Remove, Write, computer, network
    <3> QED BY <3>1, <3>2
  <2>2. ServedOnce' /\ PrinterInv' /\ \A d : Unserved(d)' <=> Unserved(d)
    BY <1>1, <2>1 DEF LinkInv, ServedOnce, PrinterInv, Unserved
  <2>3. ASSUME NEW d \in CID, d # c PROVE LinkOf(d)'
    <3>1. LinkOf(d)
      BY DEF LinkInv
    <3> QED BY <2>2, <2>3, <3>1, Alone DEF LinkOf
  <2>4. LinkOf(c)'
    <3>1. CASE Down(c) /\ pc[c] # "down"
      <4>1. /\ pc'[c] = "down" /\ link'[c] = IF link[c] = "open" THEN "closed" ELSE "none"
            /\ UNCHANGED sock
        BY <1>0, <3>1 DEF Down, ComputerTypes, NetworkTypes
      <4> QED BY <1>0, <1>2, <2>2, <3>1, <4>1 DEF LinkOf, NetworkTypes
    <3>2. CASE Boot(c)
      BY <1>2, <2>2, <3>2 DEF Boot, Settled, LinkOf, network
    <3>3. CASE ~Down(c) /\ ~Boot(c)
      <4>1. pc'[c] # "connect" /\ pc[c] # "down" /\ UNCHANGED link
        BY <1>0, <1>4, <3>3 DEF ComputerStep, PowerOff, KillComputer, InitSpool, Step, Back,
           SpoolLine, Exit, Scan, SendHeader, SendFile, Remove, Write, computer, network,
           ComputerTypes
      <4>2. link[c] # "open" => UNCHANGED sock
        BY <1>4, <3>3 DEF ComputerStep, PowerOff, KillComputer, InitSpool,
           SpoolLine, Exit, Scan, SendHeader, SendFile, Remove, Write, computer, network
      <4> QED BY <1>0, <1>2, <2>2, <4>1, <4>2 DEF LinkOf, NetworkTypes
    <3>4. Down(c) => pc[c] # "down" \/ Boot(c)
      BY DEF ComputerStep, Boot, Connect, PowerOff, KillComputer, InitSpool, SpoolLine, Exit, Scan,
         SendHeader, SendFile, Remove, Step
    <3> QED BY <3>1, <3>2, <3>3, <3>4
  <2> QED BY <2>2, <2>3, <2>4 DEF LinkInv
<1> QED BY <1>3, <1>4

(* Who wins a connection is the only one to serve it, until it is at its  *)
(* end.                                                                   *)
LEMMA LinkCommunicator ==
  ASSUME Types, LinkInv, NEW k \in Comm,
         Win(k) \/ ReadHeader(k) \/ ReadText(k) \/ Put(k)
  PROVE  LinkInv'
<1>0. NetworkTypes /\ ServerTypes
  BY DEF Types
<1>1. UNCHANGED pc
  BY DEF Win, ReadHeader, ReadText, Put, computer
<1>2. CASE Win(k)
  <2>1. /\ waiting # <<>> /\ waiting' = Tail(waiting) /\ UNCHANGED <<link, sock, printer, pspool>>
        /\ comm[k].pc = "idle" /\ waiting \in Seq(CID) /\ waiting[1] \in CID
    BY <1>0, <1>2 DEF Win, disk, NetworkTypes
  <2>2. PICK d \in CID : d = waiting[1]
    BY <2>1
  <2>3. \A j \in Comm : comm'[j].conn = IF j = k THEN d ELSE comm[j].conn
    <3>1. Head(waiting) = d
      BY <2>1, <2>2
    <3> QED BY <1>0, <1>2, <3>1 DEF Win, ServerTypes
  <2>4. /\ DOMAIN waiting' = 1 .. Len(waiting) - 1 /\ DOMAIN waiting = 1 .. Len(waiting)
        /\ Len(waiting) \in Nat \ {0}
        /\ \A i \in DOMAIN waiting' : i + 1 \in DOMAIN waiting /\ waiting'[i] = waiting[i + 1]
    BY <2>1
  <2>5. comm[k].conn = None
    BY <1>0, <2>1 DEF ServerTypes
  <2>6. ServedOnce'
    <3>1. ASSUME NEW j \in Comm, NEW l \in Comm, j # l
          PROVE  comm'[j].conn # comm'[l].conn \/ comm'[j].conn = None
      BY <2>2, <2>3, <2>4, <3>1 DEF LinkInv, ServedOnce
    <3>2. ASSUME NEW j \in Comm, NEW i \in DOMAIN waiting' PROVE comm'[j].conn # waiting'[i]
      <4>1. /\ i + 1 \in DOMAIN waiting /\ waiting'[i] = waiting[i + 1]
            /\ 1 \in DOMAIN waiting /\ i + 1 # 1
        BY <2>4
      <4> QED BY <2>2, <2>3, <4>1 DEF LinkInv, ServedOnce
    <3>3. ASSUME NEW i \in DOMAIN waiting', NEW j \in DOMAIN waiting', waiting'[i] = waiting'[j]
          PROVE  i = j
      <4>1. waiting[i + 1] = waiting[j + 1] /\ i + 1 \in DOMAIN waiting /\ j + 1 \in DOMAIN waiting
        BY <2>4, <3>3
      <4>2. i + 1 = j + 1
        BY <4>1 DEF LinkInv, ServedOnce
      <4> QED BY <2>4, <4>2
    <3> QED BY <3>1, <3>2, <3>3 DEF ServedOnce
  <2>7. ASSUME NEW e \in CID PROVE LinkOf(e)'
    <3>1. LinkOf(e)
      BY DEF LinkInv
    <3>2. Unserved(e) => e # d
      BY <2>2, <2>4 DEF Unserved
    <3>3. Unserved(e) => Unserved(e)'
      BY <2>3, <2>4, <3>2 DEF Unserved
    <3> QED BY <1>1, <2>1, <3>1, <3>3 DEF LinkOf
  <2>8. printer \in {"up", "garbled"}
    BY <2>1 DEF LinkInv, PrinterInv
  <2> QED BY <2>1, <2>6, <2>7, <2>8 DEF LinkInv, PrinterInv
<1>3. CASE ReadHeader(k) \/ ReadText(k) \/ Put(k)
  <2>0. PICK c \in CID : c = comm[k].conn
    BY <1>0, <1>3, Serving DEF ReadHeader, ReadText, Put
  <2>1. printer \in {"up", "garbled"} /\ pspool # NoDir /\ link[c] \in {"open", "closed"}
    BY <1>0, <1>3, <2>0, Serving DEF ReadHeader, ReadText, Put
  <2>2. PrinterInv'
    <3>1. printer' \in {"up", "garbled"}
      BY <1>3, <2>1 DEF ReadHeader, ReadText, Put
    <3>2. pspool' # NoDir
      <4>1. CASE Put(k)
        <5>1. DiskTypes /\ comm[k] \in Communicator /\ comm[k].msg \in Header
          BY <1>0, <4>1 DEF Types, Put, ServerTypes
        <5>2. PICK D \in SUBSET PrintID : pspool \in [D -> Seq(Cell \union {Junk})]
          BY <2>1, <5>1 DEF DiskTypes
        <5>3. PICK id \in PrintID : id = <<comm[k].msg.cid, comm[k].msg.pid>>
          BY <5>1, HeaderFacts DEF PrintID
        <5>4. comm[k].text \in Seq(Cell \union {Junk})
          BY <5>1 DEF Communicator
        <5>5. pspool' = With(pspool, id, comm[k].text)
          BY <4>1, <5>3 DEF Put
        <5>6. pspool' \in [D \union {id} -> Seq(Cell \union {Junk})]
          BY <5>2, <5>4, <5>5, WithFile
        <5>7. D \union {id} \in SUBSET PrintID
          OBVIOUS
        <5> QED BY <5>6, <5>7, NoDirFacts
      <4>2. CASE UNCHANGED pspool
        BY <2>1, <4>2
      <4> QED BY <1>3, <4>1, <4>2 DEF ReadHeader, ReadText, disk
    <3> QED BY <3>1, <3>2 DEF PrinterInv
  <2>3. UNCHANGED waiting /\ \A d \in CID : d # c => sock'[d] = sock[d] /\ link'[d] = link[d]
    BY <1>0, <1>3, <2>0 DEF ReadHeader, ReadText, Put, network, NetworkTypes
  <2>4. \A j \in Comm : comm'[j].conn \in {comm[j].conn, None}
    <3>1. CASE ReadHeader(k)
      <4>1. \/ UNCHANGED comm
            \/ comm' = [comm EXCEPT ![k] = Free]
            \/ \E msg : comm' = [comm EXCEPT ![k].msg = msg, ![k].pc = "text"]
        BY <3>1 DEF ReadHeader
      <4>2. Free.conn = None
        BY DEF Free
      <4>3. CASE \E msg : comm' = [comm EXCEPT ![k].msg = msg, ![k].pc = "text"]
        <5>1. PICK msg : comm' = [comm EXCEPT ![k].msg = msg, ![k].pc = "text"]
          BY <4>3
        <5> QED BY <1>0, <5>1 DEF ServerTypes, Communicator
      <4> QED BY <1>0, <4>1, <4>2, <4>3 DEF ServerTypes
    <3>2. CASE ReadText(k)
      <4>1. PICK text : comm' = [comm EXCEPT ![k].text = text, ![k].pc = "put"]
        BY <3>2 DEF ReadText
      <4> QED BY <1>0, <4>1 DEF ServerTypes, Communicator
    <3>3. CASE Put(k)
      <4>1. comm' = [comm EXCEPT ![k] = [@ EXCEPT !.pc = "header", !.msg = None, !.text = <<>>]]
        BY <3>3 DEF Put
      <4> QED BY <1>0, <4>1 DEF ServerTypes, Communicator
    <3> QED BY <1>3, <3>1, <3>2, <3>3
  <2>5. \A i \in DOMAIN waiting : waiting[i] # None
    BY <1>0, Constants DEF NetworkTypes
  <2>6. ServedOnce'
    BY <2>3, <2>4, <2>5 DEF LinkInv, ServedOnce
  <2>7. ASSUME NEW d \in CID PROVE LinkOf(d)'
    <3>1. LinkOf(d) /\ d # None
      BY Constants DEF LinkInv
    <3>2. Unserved(d) => Unserved(d)'
      BY <2>3, <2>4, <3>1 DEF Unserved
    <3>3. CASE d # c
      BY <1>1, <2>3, <3>1, <3>2, <3>3 DEF LinkOf
    <3>4. CASE d = c /\ UNCHANGED link
      BY <1>1, <2>1, <3>1, <3>4 DEF LinkOf
    <3>5. CASE d = c /\ link' # link
      <4>1. /\ link' = [link EXCEPT ![c] = "none"] /\ comm' = [comm EXCEPT ![k] = Free]
            /\ sock[c] = <<>> /\ UNCHANGED sock
        BY <1>3, <2>0, <3>5 DEF ReadHeader, ReadText, Put, network
      <4>2. Unserved(c)'
        <5>1. ASSUME NEW j \in Comm PROVE comm'[j].conn # c
          <6>1. CASE j = k
            BY <1>0, <2>1, <4>1, <6>1, Constants DEF ServerTypes, Free
          <6>2. CASE j # k
            <7>1. comm'[j] = comm[j]
              BY <1>0, <4>1, <6>2 DEF ServerTypes
            <7> QED BY <2>0, <2>1, <6>2, <7>1, Constants DEF LinkInv, ServedOnce
          <6> QED BY <6>1, <6>2
        <5>2. \A i \in DOMAIN waiting : waiting[i] # c
          BY <2>0 DEF LinkInv, ServedOnce
        <5>3. waiting' = waiting
          BY <2>3
        <5> QED BY <5>1, <5>2, <5>3 DEF Unserved
      <4>3. link'[c] = "none"
        BY <1>0, <2>1, <4>1 DEF NetworkTypes
      <4>4. sock'[c] = <<>> /\ pc'[c] = pc[c]
        BY <1>1, <4>1
      <4>5. link'[c] = "none" => LinkOf(c)'
        BY <4>2, <4>4 DEF LinkOf
      <4> QED BY <3>5, <4>3, <4>5
    <3> QED BY <3>3, <3>4, <3>5
  <2> QED BY <2>2, <2>6, <2>7 DEF LinkInv
<1> QED BY <1>2, <1>3

(* The end of the printer breaks all connections; its start finds none.   *)
LEMMA LinkPrinter ==
  ASSUME Types, LinkInv, Pages \/ PrinterInit \/ Sigint \/ KillPrinter
  PROVE  LinkInv'
<1>0. NetworkTypes /\ ServerTypes
  BY DEF Types
<1>1. CASE Pages \/ PrinterInit
  <2>1. UNCHANGED <<pc, link, sock, waiting, comm>>
    BY <1>1 DEF Pages, Page, PrinterInit, computer, network
  <2>2. ServedOnce' /\ \A c \in CID : LinkOf(c)'
    BY <2>1 DEF LinkInv, ServedOnce, LinkOf, Unserved
  <2>3. PrinterInv'
    <3>1. CASE Pages
      <4>1. PICK k \in Comm : Page(k)
        BY <3>1 DEF Pages
      <4>2. /\ queue[k] # <<>> /\ UNCHANGED printer
            /\ \E id : pspool' = Without(pspool, id)
        BY <4>1 DEF Page
      <4>3. printer \in {"up", "garbled"} /\ pspool # NoDir
        BY <4>2 DEF LinkInv, PrinterInv
      <4>4. PICK id : pspool' = Without(pspool, id)
        BY <4>2
      <4>5. PICK D \in SUBSET PrintID : pspool \in [D -> Seq(Cell \union {Junk})]
        BY <4>3 DEF Types, DiskTypes
      <4>6. pspool' \in [D \ {id} -> Seq(Cell \union {Junk})] /\ D \ {id} \in SUBSET PrintID
        BY <4>4, <4>5, WithoutFile
      <4>7. pspool' # NoDir
        BY <4>6, NoDirFacts
      <4> QED BY <4>2, <4>3, <4>7 DEF PrinterInv
    <3>2. CASE PrinterInit
      <4>1. /\ printer \in {"down", "killed"} /\ UNCHANGED <<comm, queue, waiting>>
            /\ \/ printer' = "up" /\ pspool' = NoFiles
               \/ printer' = "down"
        BY <3>2 DEF PrinterInit, empty_dir, network
      <4>2. NoFiles # NoDir
        <5>1. NoFiles \in [{} -> Seq(Cell)] /\ {} \in SUBSET PrintID
          BY EmptyDir
        <5> QED BY <5>1, NoDirFacts
      <4> QED BY <4>1, <4>2 DEF LinkInv, PrinterInv
    <3> QED BY <1>1, <3>1, <3>2
  <2> QED BY <2>2, <2>3 DEF LinkInv
<1>2. CASE Sigint \/ KillPrinter
  <2>1. /\ PrinterGone("down") \/ PrinterGone("killed")
        /\ UNCHANGED pc
    BY <1>2 DEF Sigint, KillPrinter, computer
  <2>2. /\ waiting' = <<>> /\ DOMAIN waiting' = {} /\ printer' \in {"down", "killed"}
        /\ \A k \in Comm : comm'[k] = Free /\ queue'[k] = <<>> /\ comm'[k].conn = None
    BY <2>1 DEF PrinterGone, Free
  <2>3. ServedOnce' /\ PrinterInv'
    BY <2>2 DEF ServedOnce, PrinterInv
  <2>4. ASSUME NEW c \in CID PROVE LinkOf(c)'
    <3>1. Unserved(c)'
      BY <2>2, Constants DEF Unserved
    <3>2. /\ sock'[c] = <<>> /\ pc'[c] = pc[c]
          /\ link'[c] = IF link[c] \in {"open", "dead"} THEN "dead" ELSE "none"
      BY <2>1 DEF PrinterGone
    <3>3. LinkOf(c)
      BY DEF LinkInv
    <3> QED BY <3>1, <3>2, <3>3 DEF LinkOf
  <2> QED BY <2>3, <2>4 DEF LinkInv
<1> QED BY <1>1, <1>2

(* The frames: a socket after a read, and after a write.                   *)
LEMMA FrameRead ==
  ASSUME NEW s \in Seq(Header \union Cell), NEW r \in Seq(Header \union Cell), NEW n \in Nat,
         Len(s) = Len(r) + n, \A j \in 1 .. Len(r) : r[j] = s[j + n]
  PROVE  /\ \A j \in Heads(r) : j + n \in Heads(s) /\ r[j].size = s[j + n].size
         /\ Spaced(s) => Spaced(r)
         /\ \A left \in Nat : Promised(s, left) => Promised(r, left)
<1>1. ASSUME NEW j \in Heads(r)
      PROVE  j + n \in Heads(s) /\ r[j] = s[j + n] /\ j \in Nat /\ r[j].size \in Nat
  <2>1. j \in 1 .. Len(r) /\ r[j] \in Header
    BY DEF Heads
  <2>2. j + n \in 1 .. Len(s) /\ r[j] = s[j + n]
    BY <2>1
  <2> QED BY <2>1, <2>2, HeaderFacts DEF Heads
<1>2. ASSUME Spaced(s), NEW i \in Heads(r), NEW j \in Heads(r), i < j PROVE i + r[i].size < j
  <2>1. (i + n) + s[i + n].size < j + n
    BY <1>1, <1>2 DEF Spaced
  <2>2. r[i].size = s[i + n].size /\ r[i].size \in Nat /\ i \in Nat /\ j \in Nat
    BY <1>1
  <2> QED BY <2>1, <2>2
<1>3. ASSUME NEW left \in Nat, Promised(s, left), NEW i \in Heads(r)
      PROVE  i + r[i].size <= Len(r) + left
  <2>1. (i + n) + s[i + n].size <= Len(s) + left
    BY <1>1, <1>3 DEF Promised
  <2>2. r[i].size = s[i + n].size /\ r[i].size \in Nat /\ i \in Nat
    BY <1>1
  <2> QED BY <2>1, <2>2
<1> QED BY <1>1, <1>2, <1>3 DEF Spaced, Promised

LEMMA FrameWrite ==
  ASSUME NEW s \in Seq(Header \union Cell), NEW cell \in Header \union Cell,
         NEW left \in Nat, Spaced(s)
  PROVE  LET r == Append(s, cell) IN
         /\ Len(r) = Len(s) + 1
         /\ cell \in Cell => /\ Heads(r) = Heads(s) /\ Spaced(r)
                             /\ Promised(s, left + 1) => Promised(r, left)
         /\ cell \in Header /\ Promised(s, 0) =>
              Heads(r) = Heads(s) \union {Len(s) + 1} /\ Spaced(r) /\ Promised(r, cell.size)
<1> DEFINE r == Append(s, cell)
<1>1. /\ Len(r) = Len(s) + 1 /\ Len(s) \in Nat /\ DOMAIN r = 1 .. Len(s) + 1
      /\ DOMAIN s = 1 .. Len(s) /\ r[Len(s) + 1] = cell /\ \A j \in 1 .. Len(s) : r[j] = s[j]
  OBVIOUS
<1> HIDE DEF r
<1>2. \A j \in Heads(s) : /\ j \in 1 .. Len(s) /\ j \in Heads(r) /\ r[j] = s[j]
                          /\ r[j].size \in Nat
  BY <1>1, HeaderFacts DEF Heads
<1>3. \A j \in Heads(r) : j \in Heads(s) \/ (j = Len(s) + 1 /\ cell \in Header)
  BY <1>1 DEF Heads
<1>4. ASSUME cell \in Cell
      PROVE  /\ Heads(r) = Heads(s) /\ Spaced(r)
             /\ Promised(s, left + 1) => Promised(r, left)
  <2>1. Heads(r) = Heads(s)
    BY <1>2, <1>3, <1>4, HeaderFacts
  <2>2. Spaced(r)
    BY <1>2, <2>1 DEF Spaced
  <2>3. ASSUME Promised(s, left + 1), NEW i \in Heads(r) PROVE i + r[i].size <= Len(r) + left
    <3>1. i + r[i].size <= Len(s) + (left + 1)
      BY <1>2, <2>1, <2>3 DEF Promised
    <3>2. i \in Nat /\ r[i].size \in Nat
      BY <1>2, <2>1
    <3> QED BY <1>1, <3>1, <3>2
  <2> QED BY <2>1, <2>2, <2>3 DEF Promised
<1>5. ASSUME cell \in Header, Promised(s, 0)
      PROVE  Heads(r) = Heads(s) \union {Len(s) + 1} /\ Spaced(r) /\ Promised(r, cell.size)
  <2>1. Heads(r) = Heads(s) \union {Len(s) + 1}
    BY <1>1, <1>2, <1>3, <1>5 DEF Heads
  <2>2. ASSUME NEW i \in Heads(s) PROVE i + r[i].size <= Len(s) /\ i \in Nat /\ r[i].size \in Nat
    <3>1. i + s[i].size <= Len(s) + 0
      BY <1>5 DEF Promised
    <3> QED BY <1>1, <1>2, <3>1
  <2>3. cell.size \in Nat /\ r[Len(s) + 1].size = cell.size
    BY <1>1, <1>5, HeaderFacts
  <2>4. ASSUME NEW i \in Heads(r), NEW j \in Heads(r), i < j PROVE i + r[i].size < j
    <3>1. i \in Heads(s)
      BY <1>1, <1>2, <2>1, <2>4
    <3>2. CASE j \in Heads(s)
      BY <1>2, <2>4, <3>1, <3>2 DEF Spaced
    <3>3. CASE j = Len(s) + 1
      <4>1. i + r[i].size <= Len(s) /\ i \in Nat /\ r[i].size \in Nat
        BY <2>2, <3>1
      <4> QED BY <1>1, <3>3, <4>1
    <3> QED BY <2>1, <3>2, <3>3
  <2>5. ASSUME NEW i \in Heads(r) PROVE i + r[i].size <= Len(r) + cell.size
    BY <1>1, <2>1, <2>2, <2>3
  <2> QED BY <2>1, <2>4, <2>5 DEF Spaced, Promised
<1> QED BY <1>1, <1>4, <1>5 DEF r

LEMMA NoFrames == Heads(<<>>) = {} /\ Spaced(<<>>) /\ \A left : Promised(<<>>, left)
<1>1. Heads(<<>>) = {}
  BY DEF Heads
<1> QED BY <1>1 DEF Spaced, Promised

(* What a computer has still to send.                                      *)
LEMMA LeftIs ==
  ASSUME DiskTypes, ComputerTypes, FilesInv, NEW c \in CID
  PROVE  Left(c) \in Nat
<1>1. CASE pc[c] = "text"
  <2>1. File(c) \in Files /\ sentCells[c] <= Len(spool[File(c)]) /\ sentCells[c] \in Nat
    BY <1>1 DEF FilesInv, FilesOf, ComputerTypes
  <2>2. Len(spool[File(c)]) \in Nat
    BY <2>1, FileFacts
  <2> QED BY <1>1, <2>1, <2>2 DEF Left
<1>2. CASE pc[c] # "text"
  BY <1>2 DEF Left
<1> QED BY <1>1, <1>2

(* A computer that sends a header has sent all of the text before; one    *)
(* that sends a cell owes one less.                                       *)
LEMMA FrameStep ==
  ASSUME NEW c \in CID, ComputerStep(c), Types, FilesInv, LinkInv, FrameInv
  PROVE  FrameInv'
<1>0. ComputerTypes /\ DiskTypes /\ NetworkTypes /\ ServerTypes
  BY DEF Types
<1>1. UNCHANGED comm
  BY DEF ComputerStep, Boot, Connect, PowerOff, KillComputer, InitSpool, SpoolLine, Exit, Scan,
         SendHeader, SendFile, Remove, server
<1>2. ASSUME NEW d \in CID, d # c PROVE FrameOf(d)'
  <2>1. FrameOf(d)
    BY DEF FrameInv
  <2>2. sock'[d] = sock[d] /\ link'[d] = link[d]
    BY <1>2, Alone
  <2>3. Left(d)' = Left(d)
    <3>1. pc'[d] = pc[d] /\ sentCells'[d] = sentCells[d] /\ File(d)' = File(d)
      BY <1>2, Alone DEF File
    <3>2. CASE pc[d] = "text"
      <4>1. File(d) \in Files /\ File(d)[1] = d
        BY <3>2 DEF FilesInv, FilesOf, File
      <4>2. spool'[File(d)] = spool[File(d)]
        BY <1>2, <4>1, Elsewhere
      <4> QED BY <3>1, <4>2 DEF Left
    <3>3. CASE pc[d] # "text"
      BY <3>1, <3>3 DEF Left
    <3> QED BY <3>2, <3>3
  <2> QED BY <1>1, <2>1, <2>2, <2>3 DEF FrameOf
<1>3. FrameOf(c) /\ FilesOf(c) /\ LinkOf(c)
  BY DEF FrameInv, FilesInv, LinkInv
<1>4. ASSUME UNCHANGED sock, link'[c] # "open" PROVE FrameOf(c)'
  BY <1>1, <1>3, <1>4 DEF FrameOf
<1>5. ASSUME UNCHANGED <<sock, link>>, Left(c)' = Left(c) PROVE FrameOf(c)'
  BY <1>1, <1>3, <1>5 DEF FrameOf
<1>6. ASSUME Connect(c), ~Down(c) PROVE FrameOf(c)'
  <2>1. pc[c] = "connect" /\ UNCHANGED sock
    BY <1>6 DEF Connect
  <2>2. sock[c] = <<>> /\ Unserved(c)
    BY <1>3, <2>1 DEF LinkOf
  <2>3. sock'[c] = <<>> /\ \A k \in Comm : comm'[k].conn # c
    BY <1>1, <2>1, <2>2 DEF Unserved
  <2> QED BY <2>3, NoFrames DEF FrameOf
<1> DEFINE Sends(cell) == /\ link[c] = "open" /\ UNCHANGED link
                          /\ sock' = [sock EXCEPT ![c] = Append(@, cell)]
<1>7. ASSUME NEW cell \in Cell, Sends(cell), Left(c) = Left(c)' + 1, Left(c)' \in Nat
      PROVE  FrameOf(c)'
  <2> DEFINE r == Append(sock[c], cell)
  <2>1. sock[c] \in Seq(Header \union Cell) /\ sock'[c] = r /\ link[c] = "open" /\ link'[c] = "open"
    BY <1>0, <1>7 DEF NetworkTypes
  <2>2. PICK left \in Nat : left = Left(c)'
    BY <1>7
  <2>3. Spaced(sock[c]) /\ Promised(sock[c], left + 1) /\ cell \in Header \union Cell
    BY <1>3, <1>7, <2>1, <2>2 DEF FrameOf
  <2>4. Len(r) = Len(sock[c]) + 1 /\ Heads(r) = Heads(sock[c]) /\ Spaced(r) /\ Promised(r, left)
    BY <2>1, <2>3, FrameWrite
  <2> HIDE DEF r
  <2>5. ASSUME NEW k \in Comm, comm[k].conn = c, comm[k].pc = "text"
        PROVE  /\ \A j \in Heads(r) : comm[k].msg.size < j
               /\ comm[k].msg.size <= Len(r) + left
    <3>1. comm[k].msg.size <= Len(sock[c]) + (left + 1)
      BY <1>3, <1>7, <2>1, <2>2, <2>5 DEF FrameOf
    <3>2. Len(sock[c]) \in Nat /\ comm[k].msg.size \in Nat
      BY <1>0, <2>1, <2>5, HeaderFacts DEF ServerTypes
    <3>3. comm[k].msg.size <= Len(r) + left
      <4>1. Len(r) = Len(sock[c]) + 1
        BY <2>4
      <4> QED BY <2>2, <3>1, <3>2, <4>1
    <3> QED BY <1>3, <2>4, <2>5, <3>3 DEF FrameOf
  <2> QED BY <1>1, <2>1, <2>2, <2>4, <2>5 DEF FrameOf
<1>8. ASSUME NEW cell \in Header, Sends(cell), Left(c) = 0, Left(c)' = cell.size
      PROVE  FrameOf(c)'
  <2> DEFINE r == Append(sock[c], cell)
  <2>1. sock[c] \in Seq(Header \union Cell) /\ sock'[c] = r /\ link[c] = "open" /\ link'[c] = "open"
    BY <1>0, <1>8 DEF NetworkTypes
  <2>2. Spaced(sock[c]) /\ Promised(sock[c], 0) /\ cell \in Header \union Cell /\ 0 \in Nat
    BY <1>3, <1>8, <2>1 DEF FrameOf
  <2>3. /\ Len(r) = Len(sock[c]) + 1 /\ Heads(r) = Heads(sock[c]) \union {Len(sock[c]) + 1}
        /\ Spaced(r) /\ Promised(r, cell.size)
    BY <1>8, <2>1, <2>2, FrameWrite
  <2> HIDE DEF r
  <2>4. ASSUME NEW k \in Comm, comm[k].conn = c, comm[k].pc = "text"
        PROVE  /\ \A j \in Heads(r) : comm[k].msg.size < j
               /\ comm[k].msg.size <= Len(r) + cell.size
    <3>1. comm[k].msg.size <= Len(sock[c]) + 0 /\ \A j \in Heads(sock[c]) : comm[k].msg.size < j
      BY <1>3, <1>8, <2>1, <2>4 DEF FrameOf
    <3>2. Len(sock[c]) \in Nat /\ comm[k].msg.size \in Nat /\ cell.size \in Nat
      BY <1>0, <2>1, <2>4, HeaderFacts DEF ServerTypes
    <3>3. comm[k].msg.size < Len(sock[c]) + 1 /\ comm[k].msg.size <= Len(r) + cell.size
      BY <2>3, <3>1, <3>2
    <3> QED BY <2>3, <3>1, <3>3
  <2> QED BY <1>1, <1>8, <2>1, <2>3, <2>4 DEF FrameOf
<1>9. FrameOf(c)'
  <2>1. CASE Down(c)
    <3>1. UNCHANGED sock /\ link'[c] # "open"
      BY <1>0, <2>1 DEF Down, NetworkTypes
    <3> QED BY <1>4, <3>1
  <2>2. CASE ~Down(c) /\ (Boot(c) \/ PowerOff(c) \/ InitSpool(c) \/ SpoolLine(c) \/ Exit(c)
                          \/ Scan(c) \/ Remove(c))
    <3>1. pc[c] # "text" /\ UNCHANGED <<sock, link>>
      BY <2>2 DEF Boot, PowerOff, InitSpool, SpoolLine, Exit, Scan, Remove, Step, network, computer
    <3>2. pc'[c] # "text"
      BY <1>0, <2>2 DEF Boot, PowerOff, InitSpool, SpoolLine, Exit, Scan, Remove, Step, Back,
         computer, ComputerTypes
    <3> QED BY <1>5, <3>1, <3>2 DEF Left
  <2>3. CASE ~Down(c) /\ SendHeader(c)
    <3>1. pc[c] = "header" /\ sentCells'[c] = 0 /\ UNCHANGED <<spool, job>> /\ Left(c) = 0
      BY <1>0, <2>3 DEF SendHeader, Write, disk, ComputerTypes, Left
    <3>2. CASE File(c) \notin OwnFiles(c)
      <4>1. UNCHANGED <<sock, link>> /\ pc'[c] # "text"
        BY <1>0, <2>3, <3>2 DEF SendHeader, Step, Back, network, ComputerTypes
      <4> QED BY <1>5, <3>1, <4>1 DEF Left
    <3>3. CASE File(c) \in OwnFiles(c)
      <4> DEFINE head == [cid |-> c, pid |-> job[c].pid, size |-> Len(spool[File(c)]),
                          type |-> job[c].type]
      <4>1. Write(c, head, "text") /\ pc'[c] = "text" /\ File(c)' = File(c)
        BY <1>0, <2>3, <3>1, <3>3 DEF SendHeader, Write, ComputerTypes, File
      <4>2. head \in Header /\ head.size = Len(spool[File(c)]) /\ head.size \in Nat
        <5>1. File(c) \in Files
          BY <1>0, <3>3, OwnIs
        <5>2. Len(spool[File(c)]) \in Nat
          BY <1>0, <5>1, FileFacts
        <5> QED BY <1>0, <1>3, <3>1, <5>2 DEF Header, FilesOf, Sending, ComputerTypes
      <4>3. Left(c)' = head.size
        BY <3>1, <4>1, <4>2 DEF Left
      <4>4. CASE link[c] = "open"
        <5>1. UNCHANGED link /\ sock' = [sock EXCEPT ![c] = Append(@, head)]
          BY <4>1, <4>4 DEF Write
        <5> HIDE DEF head
        <5> QED BY <1>8, <3>1, <4>2, <4>3, <4>4, <5>1
      <4>5. CASE link[c] # "open"
        <5>1. UNCHANGED <<sock, link>>
          BY <2>3, <4>1, <4>5 DEF Write, network
        <5> QED BY <1>4, <4>5, <5>1
      <4> QED BY <4>4, <4>5
    <3> QED BY <3>2, <3>3
  <2>4. CASE ~Down(c) /\ SendFile(c)
    <3>1. pc[c] = "text" /\ UNCHANGED <<spool, job>>
      BY <2>4 DEF SendFile, Step, Write, disk
    <3>2. File(c)' = File(c) /\ File(c) \in Files /\ sentCells[c] <= Len(spool[File(c)])
      BY <1>3, <3>1 DEF FilesOf, File
    <3>3. /\ spool[File(c)] \in Seq(Cell) /\ Len(spool[File(c)]) \in Nat /\ sentCells[c] \in Nat
          /\ Left(c) = Len(spool[File(c)]) - sentCells[c]
      BY <1>0, <3>1, <3>2, FileFacts DEF ComputerTypes, Left
    <3>4. CASE sentCells[c] = Len(spool[File(c)])
      <4>1. UNCHANGED <<sock, link>> /\ pc'[c] # "text"
        BY <1>0, <2>4, <3>4 DEF SendFile, Step, network, ComputerTypes
      <4> QED BY <1>5, <3>3, <3>4, <4>1 DEF Left
    <3>5. CASE sentCells[c] # Len(spool[File(c)])
      <4> DEFINE cell == spool[File(c)][sentCells[c] + 1]
      <4>1. /\ Write(c, cell, "text")
            /\ sentCells' = [sentCells EXCEPT ![c] = IF pc'[c] = "text" THEN @ + 1 ELSE 0]
        BY <2>4, <3>5 DEF SendFile
      <4>2. pc' = [pc EXCEPT ![c] = "text"]
        BY <2>4, <4>1 DEF Write
      <4>3. pc'[c] = "text" /\ sentCells'[c] = sentCells[c] + 1
        BY <1>0, <4>1, <4>2 DEF ComputerTypes
      <4>4. Left(c)' = Len(spool[File(c)]) - (sentCells[c] + 1)
        BY <3>1, <3>2, <4>3 DEF Left
      <4>5. Left(c) = Left(c)' + 1 /\ Left(c)' \in Nat
        BY <3>2, <3>3, <3>5, <4>4
      <4>6. cell \in Cell
        BY <3>2, <3>3, <3>5
      <4>7. CASE link[c] = "open"
        <5>1. UNCHANGED link /\ sock' = [sock EXCEPT ![c] = Append(@, cell)]
          BY <4>1, <4>7 DEF Write
        <5>2. PICK x \in Cell : x = cell
          BY <4>6
        <5>3. sock' = [sock EXCEPT ![c] = Append(@, x)]
          BY <5>1, <5>2
        <5> HIDE DEF cell
        <5> QED BY <1>7, <4>5, <4>7, <5>1, <5>3
      <4>8. CASE link[c] # "open"
        <5>1. UNCHANGED <<sock, link>>
          BY <2>4, <4>1, <4>8 DEF Write, network
        <5> QED BY <1>4, <4>8, <5>1
      <4> QED BY <4>7, <4>8
    <3> QED BY <3>4, <3>5
  <2> QED BY <1>6, <2>1, <2>2, <2>3, <2>4 DEF ComputerStep, KillComputer
<1> QED BY <1>2, <1>9 DEF FrameInv

(* What a communicator has read it takes from the front: a header, or the *)
(* cells the header announced.                                            *)
LEMMA FrameCommunicator ==
  ASSUME Types, FilesInv, LinkInv, FrameInv, NEW k \in Comm,
         Win(k) \/ ReadHeader(k) \/ ReadText(k) \/ Put(k)
  PROVE  FrameInv'
<1>0. ComputerTypes /\ DiskTypes /\ NetworkTypes /\ ServerTypes
  BY DEF Types
<1>1. \A c \in CID : Left(c)' = Left(c) /\ Left(c) \in Nat
  <2>1. UNCHANGED <<spool, computer>>
    BY DEF Win, ReadHeader, ReadText, Put, disk
  <2> QED BY <1>0, <2>1, LeftIs DEF Left, File, computer
<1>2. CASE Win(k) \/ Put(k) \/ (ReadHeader(k) /\ UNCHANGED sock)
  <2>1. UNCHANGED sock /\ \A j \in Comm : comm'[j] = comm[j] \/ comm'[j].pc # "text"
    <3>1. CASE Win(k)
      BY <1>0, <3>1 DEF Win, ServerTypes
    <3>2. CASE Put(k)
      <4>1. comm' = [comm EXCEPT ![k] = [@ EXCEPT !.pc = "header", !.msg = None, !.text = <<>>]]
            /\ comm[k] \in Communicator
        BY <1>0, <3>2 DEF Put, ServerTypes
      <4>2. comm'[k].pc = "header"
        BY <1>0, <4>1 DEF ServerTypes, Communicator
      <4> QED BY <1>0, <3>2, <4>1, <4>2 DEF Put, ServerTypes, network
    <3>3. CASE ReadHeader(k) /\ UNCHANGED sock
      <4>1. CASE comm' = [comm EXCEPT ![k] = Free]
        BY <1>0, <3>3, <4>1 DEF ServerTypes, Free
      <4>2. CASE sock[comm[k].conn] # <<>> /\ sock' = [sock EXCEPT ![comm[k].conn] = Tail(@)]
        <5>1. PICK c \in CID : c = comm[k].conn
          BY <1>0, <3>3, Serving DEF ReadHeader
        <5>2. sock[c] \in Seq(Header \union Cell) /\ sock'[c] = Tail(sock[c]) /\ sock[c] # <<>>
          BY <1>0, <4>2, <5>1 DEF NetworkTypes
        <5>3. Len(Tail(sock[c])) = Len(sock[c]) - 1 /\ Len(sock[c]) \in Nat
          BY <5>2
        <5>4. Tail(sock[c]) = sock[c]
          BY <3>3, <5>2
        <5>5. Len(sock[c]) = Len(sock[c]) - 1
          BY <5>3, <5>4, Zenon
        <5> QED BY <5>3, <5>5
      <4> QED BY <3>3, <4>1, <4>2 DEF ReadHeader
    <3> QED BY <1>2, <3>1, <3>2, <3>3
  <2>2. \A c \in CID : link'[c] = "open" => link[c] = "open"
    BY <1>0, <1>2 DEF Win, Put, ReadHeader, network, NetworkTypes
  <2>3. ASSUME NEW c \in CID PROVE FrameOf(c)'
    <3>1. FrameOf(c)
      BY DEF FrameInv
    <3>2. ASSUME NEW j \in Comm, comm'[j].conn = c, comm'[j].pc = "text"
          PROVE  comm'[j] = comm[j] /\ comm[j].conn = c /\ comm[j].pc = "text"
      BY <2>1, <3>2
    <3> QED BY <1>1, <2>1, <2>2, <3>1, <3>2 DEF FrameOf
  <2> QED BY <2>3 DEF FrameInv
<1>3. CASE (ReadHeader(k) /\ sock' # sock) \/ ReadText(k)
  <2>1. PICK c \in CID : c = comm[k].conn
    BY <1>0, <1>3, Serving DEF ReadHeader, ReadText
  <2>2. PICK s \in Seq(Header \union Cell) : s = sock[c]
    BY <1>0 DEF NetworkTypes
  <2>3. FrameOf(c) /\ Left(c) \in Nat /\ Left(c)' = Left(c)
    BY <1>1 DEF FrameInv
  <2>4. UNCHANGED link /\ \A d \in CID : d # c => sock'[d] = sock[d]
    BY <1>0, <1>3, <2>1 DEF ReadHeader, ReadText, NetworkTypes
  <2>5. PICK r \in Seq(Header \union Cell), n \in Nat :
          /\ sock'[c] = r /\ Len(s) = Len(r) + n /\ \A j \in 1 .. Len(r) : r[j] = s[j + n]
          /\ ReadHeader(k) => n = 1 /\ Len(s) # 0
    <3>1. CASE ReadHeader(k) /\ sock' # sock
      <4>1. s # <<>> /\ sock'[c] = Tail(s)
        BY <1>0, <2>1, <2>2, <3>1 DEF ReadHeader, NetworkTypes
      <4>2. /\ Tail(s) \in Seq(Header \union Cell) /\ Len(s) = Len(Tail(s)) + 1 /\ Len(s) # 0
            /\ \A j \in 1 .. Len(Tail(s)) : Tail(s)[j] = s[j + 1]
        BY <4>1
      <4>3. 1 \in Nat
        OBVIOUS
      <4> QED BY <1>3, <4>1, <4>2, <4>3
    <3>2. CASE ReadText(k)
      <4> DEFINE size == comm[k].msg.size
                 n == IF Len(s) < size THEN Len(s) ELSE size
      <4>1. n \in Nat /\ n <= Len(s)
        BY <1>0, <3>2, HeaderFacts DEF ReadText, ServerTypes
      <4>2. sock'[c] = SubSeq(s, n + 1, Len(s)) /\ ~ReadHeader(k)
        BY <1>0, <2>1, <2>2, <3>2 DEF ReadText, ReadHeader, NetworkTypes
      <4> HIDE DEF n
      <4>3. /\ SubSeq(s, n + 1, Len(s)) \in Seq(Header \union Cell)
            /\ Len(s) = Len(SubSeq(s, n + 1, Len(s))) + n
            /\ \A j \in 1 .. Len(SubSeq(s, n + 1, Len(s))) : SubSeq(s, n + 1, Len(s))[j] = s[j + n]
        BY <4>1
      <4> QED BY <4>1, <4>2, <4>3
    <3> QED BY <1>3, <3>1, <3>2
  <2>6. /\ \A j \in Heads(r) : j + n \in Heads(s) /\ r[j].size = s[j + n].size
        /\ Spaced(s) => Spaced(r)
        /\ Promised(s, Left(c)) => Promised(r, Left(c))
    <3>1. /\ Len(s) = Len(r) + n /\ \A j \in 1 .. Len(r) : r[j] = s[j + n]
          /\ r \in Seq(Header \union Cell) /\ n \in Nat /\ s \in Seq(Header \union Cell)
      BY <2>2, <2>5
    <3>2. /\ \A j \in Heads(r) : j + n \in Heads(s) /\ r[j].size = s[j + n].size
          /\ Spaced(s) => Spaced(r)
          /\ \A left \in Nat : Promised(s, left) => Promised(r, left)
      BY <3>1, FrameRead, Zenon
    <3> QED BY <2>3, <3>2
  <2>7. Spaced(r) /\ (link[c] = "open" => Promised(r, Left(c)))
    BY <2>2, <2>3, <2>6 DEF FrameOf
  <2>8. \A j \in Comm : j # k => comm'[j] = comm[j] /\ comm[j].conn # c
    BY <1>0, <1>3, <2>1, Constants DEF ReadHeader, ReadText, ServerTypes, LinkInv, ServedOnce
  <2>9. ASSUME comm'[k].pc = "text"
        PROVE  /\ \A j \in Heads(r) : comm'[k].msg.size < j
               /\ link[c] = "open" => comm'[k].msg.size <= Len(r) + Left(c)
    <3>1. CASE ReadHeader(k)
      <4>1. s # <<>> /\ comm[k].pc = "header" /\ n = 1 /\ Len(s) # 0
        BY <1>3, <2>1, <2>2, <2>5, <3>1 DEF ReadHeader, ReadText
      <4>2. "size" \in DOMAIN Head(s) /\ comm' = [comm EXCEPT ![k].msg = Head(s), ![k].pc = "text"]
        BY <2>1, <2>2, <2>9, <3>1, <4>1 DEF ReadHeader
      <4>3. PICK h \in Header : h = s[1] /\ h = Head(s)
        BY <4>1, <4>2, HeaderFacts
      <4>4. comm'[k].msg = h
        BY <1>0, <4>2, <4>3 DEF ServerTypes, Communicator
      <4>5. 1 \in Heads(s) /\ h.size \in Nat
        BY <4>1, <4>3, HeaderFacts DEF Heads
      <4>6. ASSUME NEW j \in Heads(r) PROVE h.size < j
        <5>1. j + 1 \in Heads(s) /\ j \in Nat /\ j # 0
          BY <2>6, <4>1 DEF Heads
        <5>2. 1 + h.size < j + 1
          BY <2>2, <2>3, <4>3, <4>5, <5>1 DEF FrameOf, Spaced
        <5> QED BY <4>5, <5>1, <5>2
      <4>7. ASSUME link[c] = "open" PROVE h.size <= Len(r) + Left(c)
        <5>1. 1 + h.size <= Len(s) + Left(c)
          BY <2>2, <2>3, <4>3, <4>5, <4>7 DEF FrameOf, Promised
        <5>2. Len(s) = Len(r) + 1
          BY <2>5, <4>1
        <5> QED BY <2>3, <4>5, <5>1, <5>2
      <4> QED BY <4>4, <4>6, <4>7
    <3>2. CASE ReadText(k)
      <4>1. PICK text : comm' = [comm EXCEPT ![k].text = text, ![k].pc = "put"]
        BY <3>2 DEF ReadText
      <4> QED BY <1>0, <2>9, <4>1 DEF ServerTypes, Communicator
    <3> QED BY <1>3, <3>1, <3>2
  <2>10. FrameOf(c)'
    BY <2>3, <2>4, <2>5, <2>7, <2>8, <2>9 DEF FrameOf
  <2>11. ASSUME NEW d \in CID, d # c PROVE FrameOf(d)'
    <3>1. FrameOf(d) /\ Left(d)' = Left(d) /\ sock'[d] = sock[d] /\ link'[d] = link[d]
      BY <1>1, <2>4, <2>11 DEF FrameInv
    <3>2. \A j \in Comm : comm'[j].conn = d => comm'[j] = comm[j]
      <4>1. comm'[k].conn # d
        <5>1. comm'[k].conn = comm[k].conn
          <6>1. CASE ReadHeader(k) /\ sock' # sock
            <7>1. \/ UNCHANGED comm
                  \/ comm' = [comm EXCEPT ![k].msg = Head(sock[comm[k].conn]), ![k].pc = "text"]
              BY <6>1 DEF ReadHeader
            <7> QED BY <1>0, <7>1 DEF ServerTypes, Communicator
          <6>2. CASE ReadText(k)
            <7>1. PICK text : comm' = [comm EXCEPT ![k].text = text, ![k].pc = "put"]
              BY <6>2 DEF ReadText
            <7> QED BY <1>0, <7>1 DEF ServerTypes, Communicator
          <6> QED BY <1>3, <6>1, <6>2
        <5> QED BY <2>1, <2>11, <5>1
      <4> QED BY <2>8, <4>1
    <3> QED BY <3>1, <3>2 DEF FrameOf
  <2> QED BY <2>10, <2>11 DEF FrameInv
<1> QED BY <1>2, <1>3

(* A printer that ends empties the sockets.                               *)
LEMMA FramePrinter ==
  ASSUME Types, FilesInv, FrameInv, Pages \/ PrinterInit \/ Sigint \/ KillPrinter
  PROVE  FrameInv'
<1>1. CASE Pages \/ PrinterInit
  <2>1. UNCHANGED <<sock, link, comm, computer>> /\ (spool' = spool \/ spool = NoFiles)
    BY <1>1 DEF Pages, Page, PrinterInit, empty_dir, network
  <2>2. ASSUME NEW c \in CID PROVE Left(c)' = Left(c)
    <3>1. CASE spool' = spool
      BY <2>1, <3>1 DEF Left, File, computer
    <3>2. CASE spool = NoFiles
      <4>1. Files = {}
        BY <3>2, EmptyDir DEF Files
      <4>2. pc[c] # "text"
        BY <4>1 DEF FilesInv, FilesOf
      <4> QED BY <2>1, <4>2 DEF Left, computer
    <3> QED BY <2>1, <3>1, <3>2
  <2> QED BY <2>1, <2>2 DEF FrameInv, FrameOf
<1>2. CASE Sigint \/ KillPrinter
  <2>1. \/ PrinterGone("down")
        \/ PrinterGone("killed")
    BY <1>2 DEF Sigint, KillPrinter
  <2>2. ASSUME NEW c \in CID PROVE FrameOf(c)'
    <3>1. sock'[c] = <<>> /\ link'[c] # "open" /\ \A k \in Comm : comm'[k].pc # "text"
      BY <2>1 DEF PrinterGone, Free
    <3> QED BY <3>1, NoFrames DEF FrameOf
  <2> QED BY <2>2 DEF FrameInv
<1> QED BY <1>1, <1>2

-----------------------------------------------------------------------------
(* The invariant holds at the start, and in every step.                   *)
LEMMA DeliveryInit == Init => DeliveryInv
<1> SUFFICES ASSUME Init PROVE DeliveryInv
  OBVIOUS
<1>1. ComputerTypes
  BY Constants DEF Init, ComputerTypes, NoJob, Sending
<1>2. DiskTypes
  <2>1. printed = NoFiles /\ DOMAIN NoFiles = {} /\ NoFiles \in [{} -> Seq(Cell)]
    BY EmptyDir DEF Init
  <2> QED BY <2>1 DEF Init, DiskTypes
<1>3. NetworkTypes
  BY Constants DEF Init, NetworkTypes
<1>4. ServerTypes
  <2>1. <<>> \in Seq(Cell \union {Junk}) /\ <<>> \in Seq(Header) /\ Len(<<>>) = 0
    OBVIOUS
  <2>2. Free \in Communicator /\ Free.pc = "idle" /\ Free.conn = None
    BY <2>1 DEF Free, Communicator
  <2> QED BY <2>1, <2>2, Constants DEF Init, ServerTypes
<1>5. FilesInv
  BY DEF Init, FilesInv, FilesOf, Sending
<1>6. LinkInv
  <2>1. DOMAIN waiting = {} /\ \A k \in Comm : comm[k].conn = None
    BY DEF Init, Free
  <2> QED BY <2>1, Constants DEF Init, LinkInv, LinkOf, Unserved, ServedOnce, PrinterInv
<1>7. FrameInv
  <2>1. \A c \in CID : sock[c] = <<>> /\ link[c] # "open"
    BY DEF Init
  <2>2. \A k \in Comm : comm[k].pc # "text"
    BY DEF Init, Free
  <2> QED BY <2>1, <2>2, NoFrames DEF FrameInv, FrameOf
<1> QED BY <1>1, <1>2, <1>3, <1>4, <1>5, <1>6, <1>7 DEF DeliveryInv, Types

LEMMA DeliveryStep == DeliveryInv /\ [Next]_vars => DeliveryInv'
<1> SUFFICES ASSUME DeliveryInv, [Next]_vars PROVE DeliveryInv'
  OBVIOUS
<1> USE DEF DeliveryInv
<1>1. ASSUME NEW c \in CID, ComputerStep(c) PROVE DeliveryInv'
  <2>1. Types'
    BY <1>1, TypesUp, TypesSpooling, TypesSending DEF ComputerStep
  <2> QED BY <1>1, <2>1, FilesStep, LinkStep, FrameStep
<1>2. ASSUME NEW k \in Comm, Win(k) \/ ReadHeader(k) \/ ReadText(k) \/ Put(k)
      PROVE  DeliveryInv'
  <2>1. FilesInv'
    BY <1>2, FilesServer DEF Win, ReadHeader, ReadText, Put, disk, history
  <2> QED BY <1>2, <2>1, TypesCommunicator, LinkCommunicator, FrameCommunicator
<1>3. CASE Pages \/ PrinterInit \/ Sigint \/ KillPrinter
  <2>1. FilesInv'
    BY <1>3, FilesServer DEF Pages, Page, PrinterInit, empty_dir, Sigint, KillPrinter, history
  <2> QED BY <1>3, <2>1, TypesPrinter, LinkPrinter, FramePrinter
<1>4. CASE UNCHANGED vars
  <2> USE <1>4 DEF vars, disk, computer, network, server, history
  <2>1. Types'
    BY DEF Types, ComputerTypes, DiskTypes, NetworkTypes, ServerTypes
  <2>2. FilesInv'
    BY FilesServer
  <2>3. LinkInv'
    BY DEF LinkInv, LinkOf, Unserved, ServedOnce, PrinterInv
  <2>4. FrameInv'
    <3>1. \A c \in CID : Left(c)' = Left(c)
      BY DEF Left, File
    <3> QED BY <3>1 DEF FrameInv, FrameOf
  <2> QED BY <2>1, <2>2, <2>3, <2>4
<1> QED BY <1>1, <1>2, <1>3, <1>4 DEF Next, Works, External, Serves, ComputerStep

LEMMA DeliveryCorrect == Spec => []DeliveryInv
BY DeliveryInit, DeliveryStep, PTL DEF Spec

(* Each file of a directory holds a text.                                 *)
LEMMA DirOf ==
  ASSUME NEW d, NEW T, d = NoDir \/ \E D \in SUBSET PrintID : d \in [D -> Seq(T)],
         T \subseteq Cell \union {Junk}
  PROVE  IsDir(d)
<1>1. CASE d # NoDir
  <2>1. PICK D \in SUBSET PrintID : d \in [D -> Seq(T)]
    BY <1>1
  <2>2. Seq(T) \subseteq Seq(Cell \union {Junk})
    OBVIOUS
  <2> QED BY <2>1, <2>2 DEF IsDir, IsText
<1> QED BY <1>1 DEF IsDir

(* TypeOK of Delivery: the directories and pages hold texts, never a      *)
(* header; no queue and no socket overflows; a connection is served by one*)
(* communicator at most, and not while it waits (manager and communicators*)
(* in printer.c).                                                         *)
THEOREM TypeCorrect == Spec => []TypeOK
<1>1. ASSUME DeliveryInv PROVE TypeOK
  <2>1. IsDir(spool) /\ IsDir(pspool)
    <3>1. Cell \subseteq Cell \union {Junk} /\ Cell \union {Junk} \subseteq Cell \union {Junk}
      OBVIOUS
    <3> QED BY <1>1, <3>1, DirOf DEF DeliveryInv, Types, DiskTypes
  <2>2. ServedOnce
    BY <1>1 DEF DeliveryInv, LinkInv
  <2> QED BY <1>1, <2>1, <2>2 DEF TypeOK, DeliveryInv, Types, ComputerTypes, NetworkTypes,
                              ServerTypes, ServedOnce, Sending
<1> QED BY <1>1, DeliveryCorrect, PTL

(* FileThere: a process that is not over has its spool file (print.c),    *)
(* though computers share the directory, leave files when they are killed,*)
(* and the printer removes ./.spool/ when it is started again and finds it*)
(* empty (empty_dir).                                                     *)
THEOREM FilesKept == Spec => []FileThere
<1>1. ASSUME DeliveryInv PROVE FileThere
  <2>1. \A c \in CID : \A p \in alive[c] : <<c, p>> \in Files
    BY <1>1 DEF DeliveryInv, FilesInv, FilesOf
  <2> QED BY <1>1, <2>1, OwnIs DEF FileThere, DeliveryInv, Types
<1> QED BY <1>1, DeliveryCorrect, PTL
=============================================================================
