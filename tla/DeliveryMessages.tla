---------------------------- MODULE DeliveryMessages ----------------------------
(***************************************************************************)
(* What becomes of the output of a process, for every number of computers, *)
(* processes, communicators, starts and kills: no page mixes two lives of a*)
(* process, no text is printed twice as a complete one, and none is lost   *)
(* while the printer stays up.  When a read of a text is never short the   *)
(* pages are whole.                                                        *)
(*                                                                         *)
(* MessageInv follows a text on its way.  Its life is over before it is    *)
(* sent, so that it cannot change any more (LivesInv, SpoolInv); a header  *)
(* in a socket or with a communicator is followed by the cells of one such *)
(* life, as far as they are sent (SockInv, HandInv); what is queued or     *)
(* printed is that text, with junk in places (QueueInv, PaperInv).  No two *)
(* messages on their way have the same print ID, or a later one would      *)
(* replace the file of an earlier one (SentInv, ApartInv), and a message   *)
(* printed as complete has left nothing behind that could be printed as    *)
(* complete again (OnceInv).                                               *)
(*                                                                         *)
(* LostInv holds while the printer stays up: the latest life of a process  *)
(* is in its spool file or Gone its way, and so is a file sent whole, which*)
(* is removed next.                                                        *)
(***************************************************************************)
EXTENDS DeliveryProofs

-----------------------------------------------------------------------------
(* What each life of a process has spooled is known from its length; its   *)
(* text is frozen when the process is over.  A spool file has the text of a*)
(* life, of the one that goes on when the process is not over.             *)
IdOf(life) == <<life[1], life[2]>>
CellOf(life, n) == [id |-> IdOf(life), run |-> life[3], n |-> n]

LifeOk(life) ==
  /\ life \in CID \X PID \X Run /\ life[3] <= run[life[1]]
  /\ life[3] = run[life[1]] => life[2] < next[life[1]]
  /\ \A n \in DOMAIN printed[life] : printed[life][n] = CellOf(life, n)
LivesInv == \A life \in DOMAIN printed : LifeOk(life)

Frozen(life) ==
  life \in DOMAIN printed /\ (life[3] < run[life[1]] \/ life[2] \notin alive[life[1]])

HasText(f, r) == <<f[1], f[2], r>> \in DOMAIN printed /\ spool[f] = printed[<<f[1], f[2], r>>]
SpoolInv ==
  /\ \A f \in Files : \E r \in Run : HasText(f, r) /\ (f[2] \in alive[f[1]] => r = run[f[1]])
  /\ \A c \in CID : pc[c] \in Sending =>
       File(c) \in Files /\ (job[c].type = "END_SPOOL" => HasText(File(c), run[c]))

-----------------------------------------------------------------------------
(* Messages on their way.  Message h has the text of the life in run r.    *)
Id(h) == <<h.cid, h.pid>>
Life(h, r) == <<h.cid, h.pid, r>>
Whole(h, r) == /\ Frozen(Life(h, r)) /\ Len(printed[Life(h, r)]) = h.size
               /\ h.type = "END_SPOOL" => r = run[h.cid]

(* After place i of a socket the text of h comes, as far as it is sent; the*)
(* computer is sending the rest, or was killed at it.                      *)
Carried(c, h, i) ==
  \E r \in Run :
    LET t == printed[Life(h, r)] IN
      /\ Whole(h, r)
      /\ \A j \in 1 .. h.size : i + j <= Len(sock[c]) => sock[c][i + j] = t[j]
      /\ i + h.size > Len(sock[c]) =>
           IF link[c] = "open"
             THEN /\ pc[c] = "text" /\ Id(h) = File(c) /\ t = spool[File(c)]
                  /\ i + sentCells[c] = Len(sock[c])
             ELSE Id(h) \in severed

(* A text received is what was sent, or has junk in places.                *)
Received(h, text) ==
  \E r \in Run :
    LET t == printed[Life(h, r)] IN
      /\ Whole(h, r) /\ Len(text) = h.size
      /\ \A j \in 1 .. h.size : text[j] \in {Junk, t[j]}
      /\ MaxText <= 1 => text = t \/ Id(h) \in severed

SockInv == \A c \in CID : \A i \in Heads(sock[c]) : sock[c][i].cid = c /\ Carried(c, sock[c][i], i)
HandInv ==
  \A k \in Comm :
    /\ comm[k].pc \in {"text", "put"} => comm[k].msg.cid = comm[k].conn
    /\ comm[k].pc = "text" => Carried(comm[k].conn, comm[k].msg, 0)
    /\ IF comm[k].pc = "put" THEN Received(comm[k].msg, comm[k].text) ELSE comm[k].text = <<>>
QueueInv ==
  /\ \A k \in Comm : \A i \in DOMAIN queue[k] :
       LET h == queue[k][i] IN Id(h) \in DOMAIN pspool /\ Received(h, pspool[Id(h)])
  /\ printer \in {"up", "garbled"} =>
       \A id \in DOMAIN pspool : \E k \in Comm : \E i \in DOMAIN queue[k] : Id(queue[k][i]) = id

(* No two messages on their way have the same print ID, and no message has *)
(* that of a file which is yet to be sent.                                 *)
InFlight(h) ==
  \/ \E c \in CID : \E i \in Heads(sock[c]) : sock[c][i] = h
  \/ \E k \in Comm : comm[k].pc \in {"text", "put"} /\ comm[k].msg = h
  \/ \E k \in Comm : \E i \in DOMAIN queue[k] : queue[k][i] = h

SentOf(c, p, type) ==
  /\ pc[c] # "connect"
  /\ <<c, p>> \in Files => pc[c] = "down" \/ (pc[c] \in {"text", "remove"} /\ job[c].pid = p)
  /\ type = "CPU_TERM" => \/ pc[c] \in {"down", "scan"}
                          \/ pc[c] \in Sending /\ job[c].type = "CPU_TERM"
SentInv == \A h \in Header : InFlight(h) => SentOf(h.cid, h.pid, h.type)

ApartInv ==
  /\ \A c \in CID : \A i, j \in Heads(sock[c]) : sock[c][i].pid = sock[c][j].pid => i = j
  /\ \A k \in Comm : comm[k].pc \in {"text", "put"} =>
       /\ \A i \in Heads(sock[comm[k].conn]) : sock[comm[k].conn][i].pid # comm[k].msg.pid
       /\ \A l \in Comm : \A i \in DOMAIN queue[l] : Id(queue[l][i]) # Id(comm[k].msg)
  /\ \A k, l \in Comm : \A i \in DOMAIN queue[k], j \in DOMAIN queue[l] :
       Id(queue[k][i]) = Id(queue[l][j]) => k = l /\ i = j
  /\ \A c \in CID, k \in Comm : \A i \in Heads(sock[c]), j \in DOMAIN queue[k] :
       Id(sock[c][i]) # Id(queue[k][j])

(* The paper.                                                              *)
PageOf(e, torn) ==
  \E r \in Run :
    LET t == printed[Life(e, r)] IN
      /\ Frozen(Life(e, r)) /\ Len(e.text) <= Len(t)
      /\ \A j \in 1 .. Len(e.text) : e.text[j] \in {Junk, t[j]}
      /\ MaxText <= 1 => \/ Id(e) \in severed \/ e.text = t
                         \/ torn /\ e.text = SubSeq(t, 1, Len(e.text))
PaperInv == paper \in Seq([cid : CID, pid : PID, type : {"END_SPOOL", "CPU_TERM"},
                           text : Seq(Cell \union {Junk})])
            /\ \A i \in DOMAIN paper : PageOf(paper[i], FALSE) \/ (Torn(i) /\ PageOf(paper[i], TRUE))

(* A page that claims to be all of a life.                                 *)
Claims(i, life) ==
  LET e == paper[i] IN
    /\ e.type = "END_SPOOL" /\ e.text # <<>> /\ e.text[1] # Junk
    /\ life = <<e.cid, e.pid, e.text[1].run>>
OnceInv ==
  /\ \A i, j \in DOMAIN paper : \A r \in Run : \A c \in CID : \A p \in PID :
       ~Torn(i) /\ ~Torn(j) /\ Claims(i, <<c, p, r>>) /\ Claims(j, <<c, p, r>>) => i = j
  /\ \A i \in DOMAIN paper : \A c \in CID : \A p \in PID :
       ~Torn(i) /\ Claims(i, <<c, p, run[c]>>) =>
         /\ ~(pc[c] = "header" /\ job[c] = [pid |-> p, type |-> "END_SPOOL"])
         /\ \A h \in Header : InFlight(h) /\ Id(h) = <<c, p>> => h.type = "CPU_TERM"

(* While the printer stays up.                                             *)
StartInv ==
  /\ starts = 0 => /\ printer = "down" /\ DOMAIN printed = {}
                   /\ \A c \in CID : pc[c] \in {"down", "connect"} /\ link[c] = "none"
  /\ printer \in {"up", "garbled"} /\ starts = 1 =>
       \A c \in CID : pc[c] \notin {"down", "connect"} => link[c] = "open"

Kept(life) == IdOf(life) \in Files /\ spool[IdOf(life)] = printed[life]
Gone(id, t) ==
  \/ OnPaper(t)
  \/ id \in DOMAIN pspool /\ pspool[id] = t
  \/ \E k \in Comm : comm[k].pc = "put" /\ Id(comm[k].msg) = id /\ comm[k].text = t
  \/ \E i \in DOMAIN sock[id[1]] : sock[id[1]][i] = t[Len(t)]
AllSent(c) == \/ pc[c] = "remove"
              \/ pc[c] = "text" /\ sentCells[c] = Len(spool[File(c)])
LostInv ==
  Stable =>
    /\ \A life \in DOMAIN printed :
         Latest(life) => Kept(life) \/ Gone(IdOf(life), printed[life])
    /\ \A c \in CID : AllSent(c) /\ spool[File(c)] # <<>> => Gone(File(c), spool[File(c)])

MessageInv == /\ LivesInv /\ SpoolInv /\ SockInv /\ HandInv /\ QueueInv /\ SentInv /\ ApartInv
              /\ PaperInv /\ OnceInv
-----------------------------------------------------------------------------
(* Lives.                                                                  *)
LEMMA Making ==
  ASSUME Types, LivesInv, NEW c \in CID, InitSpool(c), ~Down(c)
  PROVE  LET life == <<c, next[c], run[c]>> IN
         /\ life \notin DOMAIN printed /\ life \in CID \X PID \X Run
         /\ DOMAIN printed' = DOMAIN printed \union {life} /\ printed'[life] = <<>>
         /\ \A l \in DOMAIN printed : printed'[l] = printed[l]
         /\ alive' = [alive EXCEPT ![c] = @ \union {next[c]}]
         /\ next' = [next EXCEPT ![c] = next[c] + 1]
         /\ next[c] \in PID /\ next[c] \in Nat /\ run[c] \in Run /\ spool # NoDir
         /\ UNCHANGED <<pspool, paper, pc, job, sentCells, run, network, server, severed>>
<1> DEFINE life == <<c, next[c], run[c]>>
<1>1. /\ pc[c] = "run" /\ next[c] \in PID /\ spool # NoDir
      /\ printed' = With(printed, life, <<>>)
      /\ alive' = [alive EXCEPT ![c] = @ \union {next[c]}]
      /\ next' = [next EXCEPT ![c] = next[c] + 1]
      /\ UNCHANGED <<pspool, paper, pc, job, sentCells, run, network, server, severed>>
  BY DEF InitSpool
<1>2. run[c] \in 1 .. MaxRuns[c] /\ next[c] \in Nat
  BY <1>1, Constants DEF Types, ComputerTypes
<1>3. run[c] \in Run
  BY <1>2 DEF Run
<1>4. life \in CID \X PID \X Run
  BY <1>1, <1>3
<1>5. life \notin DOMAIN printed
  BY <1>2 DEF LivesInv, LifeOk
<1> HIDE DEF life
<1>6. /\ DOMAIN printed' = DOMAIN printed \union {life} /\ printed'[life] = <<>>
      /\ \A l \in DOMAIN printed : printed'[l] = printed[l]
  BY <1>1, <1>5 DEF With
<1> QED BY <1>1, <1>2, <1>3, <1>4, <1>5, <1>6 DEF life

LEMMA Printing ==
  ASSUME Types, FilesInv, NEW c \in CID, SpoolLine(c)
  PROVE  \E p \in alive[c] :
           LET life == <<c, p, run[c]>>
               cell == CellOf(life, Len(printed[life]) + 1)
           IN  /\ life \in DOMAIN printed /\ <<c, p>> \in Files /\ p \in PID
               /\ spool' = [spool EXCEPT ![<<c, p>>] = Append(spool[<<c, p>>], cell)]
               /\ printed' = [printed EXCEPT ![life] = Append(printed[life], cell)]
               /\ pc[c] = "run"
               /\ UNCHANGED <<pspool, paper, computer, network, server, severed>>
<1>1. PICK p \in alive[c] :
        LET id   == <<c, p>>
            life == <<c, p, run[c]>>
            cell == [id |-> id, run |-> run[c], n |-> Len(printed[life]) + 1]
        IN  /\ pc[c] = "run" /\ Len(printed[life]) < MaxText
            /\ spool' = [spool EXCEPT ![id] = Append(@, cell)]
            /\ printed' = [printed EXCEPT ![life] = Append(@, cell)]
            /\ UNCHANGED <<pspool, paper, computer, network, server, severed>>
  BY DEF SpoolLine
<1>2. <<c, p, run[c]>> \in DOMAIN printed /\ <<c, p>> \in Files /\ p \in PID
  BY DEF FilesInv, FilesOf, Types, ComputerTypes
<1>3. CellOf(<<c, p, run[c]>>, Len(printed[<<c, p, run[c]>>]) + 1)
        = [id |-> <<c, p>>, run |-> run[c], n |-> Len(printed[<<c, p, run[c]>>]) + 1]
  BY DEF CellOf, IdOf
<1> QED BY <1>1, <1>2, <1>3

(* What each step does to the lives: only a start of a computer counts its *)
(* run, only print_init_spool and print_print add to the history.          *)
LEMMA QuietStep ==
  ASSUME Types, NEW c \in CID, ComputerStep(c), ~Boot(c), ~SpoolLine(c), ~(InitSpool(c) /\ ~Down(c))
  PROVE  UNCHANGED <<printed, run, next>> /\ \A d \in CID : alive'[d] \subseteq alive[d]
<1>0. ComputerTypes
  BY DEF Types
<1>1. UNCHANGED printed
  <2>1. CASE InitSpool(c)
    BY <1>0, <2>1 DEF InitSpool, Down, ComputerTypes
  <2> QED BY <2>1 DEF ComputerStep, Connect, PowerOff, KillComputer, Exit, Scan,
                            SendHeader, SendFile, Remove, history
<1>2. CASE Down(c)
  BY <1>0, <1>1, <1>2 DEF Down, ComputerTypes
<1>3. CASE Exit(c)
  <2>1. PICK p \in alive[c] : alive' = [alive EXCEPT ![c] = @ \ {p}] /\ UNCHANGED <<run, next>>
    BY <1>3 DEF Exit
  <2> QED BY <1>0, <1>1, <2>1 DEF ComputerTypes
<1>4. CASE PowerOff(c) /\ ~Down(c)
  BY <1>0, <1>1, <1>4 DEF PowerOff, ComputerTypes
<1>5. CASE ~Down(c) /\ ~Exit(c) /\ ~PowerOff(c)
  BY <1>1, <1>5 DEF ComputerStep, Connect, KillComputer, Scan, SendHeader, SendFile,
                          Remove, Write
<1> QED BY <1>2, <1>3, <1>4, <1>5

LEMMA Quiet ==
  ASSUME Types, FilesInv, [Next]_vars
  PROVE  \/ \E c \in CID : Boot(c) \/ (InitSpool(c) /\ ~Down(c)) \/ SpoolLine(c)
         \/ /\ UNCHANGED <<printed, run, next>>
            /\ \A c \in CID : alive'[c] \subseteq alive[c]
<1>1. ASSUME NEW c \in CID, ComputerStep(c), ~Boot(c), ~SpoolLine(c), ~(InitSpool(c) /\ ~Down(c))
      PROVE  UNCHANGED <<printed, run, next>> /\ \A d \in CID : alive'[d] \subseteq alive[d]
  BY <1>1, QuietStep
<1>2. CASE UNCHANGED <<computer, printed>>
  BY <1>2 DEF computer
<1>3. CASE \E k \in Comm : Win(k) \/ ReadHeader(k) \/ ReadText(k) \/ Put(k)
  BY <1>2, <1>3 DEF Win, ReadHeader, ReadText, Put, history
<1>4. CASE Pages \/ PrinterInit \/ Sigint \/ KillPrinter \/ UNCHANGED vars
  BY <1>2, <1>4 DEF Pages, Page, PrinterInit, Sigint, KillPrinter, vars, history
<1> QED BY <1>1, <1>3, <1>4 DEF Next, Works, External, Serves, ComputerStep

(* The text of a process that is over stays what it is.                    *)
LEMMA FrozenStays ==
  ASSUME Types, FilesInv, LivesInv, [Next]_vars, NEW life, Frozen(life)
  PROVE  Frozen(life)' /\ printed'[life] = printed[life]
<1>0. ComputerTypes
  BY DEF Types
<1>1. /\ life \in DOMAIN printed /\ life[1] \in CID /\ life[3] \in Nat
      /\ life[3] <= run[life[1]] /\ run[life[1]] \in Nat
      /\ life[3] = run[life[1]] => life[2] < next[life[1]]
  <2>1. life \in DOMAIN printed
    BY DEF Frozen
  <2>2. life[1] \in CID /\ life[3] \in Run
    BY <2>1 DEF LivesInv, LifeOk
  <2>3. life[3] \in Nat
    BY <2>2 DEF Run
  <2> QED BY <1>0, <2>1, <2>2, <2>3 DEF LivesInv, LifeOk, ComputerTypes
<1>2. CASE /\ UNCHANGED <<printed, run, next>> /\ \A c \in CID : alive'[c] \subseteq alive[c]
  BY <1>1, <1>2 DEF Frozen
<1>3. ASSUME NEW c \in CID, Boot(c) PROVE Frozen(life)' /\ printed'[life] = printed[life]
  <2>1. run' = [run EXCEPT ![c] = run[c] + 1] /\ UNCHANGED <<printed, alive>>
    BY <1>3 DEF Boot, history
  <2>2. run'[life[1]] = IF life[1] = c THEN run[life[1]] + 1 ELSE run[life[1]]
    BY <1>0, <1>1, <2>1 DEF ComputerTypes
  <2>3. life[3] < run[life[1]] => life[3] < run'[life[1]]
    BY <1>1, <2>2
  <2> QED BY <2>1, <2>3 DEF Frozen
<1>4. ASSUME NEW c \in CID, InitSpool(c), ~Down(c)
      PROVE  Frozen(life)' /\ printed'[life] = printed[life]
  <2>1. /\ DOMAIN printed \subseteq DOMAIN printed' /\ printed'[life] = printed[life]
        /\ alive' = [alive EXCEPT ![c] = @ \union {next[c]}] /\ UNCHANGED run /\ next[c] \in Nat
    BY <1>1, <1>4, Making
  <2>2. alive'[life[1]] = IF life[1] = c THEN alive[c] \union {next[c]} ELSE alive[life[1]]
    BY <1>0, <1>1, <2>1 DEF ComputerTypes
  <2>3. life[3] = run[life[1]] /\ life[1] = c => life[2] # next[c]
    BY <1>1, <2>1
  <2>4. life[3] < run[life[1]] \/ life[3] = run[life[1]]
    BY <1>1
  <2> QED BY <1>1, <2>1, <2>2, <2>3, <2>4 DEF Frozen
<1>5. ASSUME NEW c \in CID, SpoolLine(c) PROVE Frozen(life)' /\ printed'[life] = printed[life]
  <2>1. PICK p \in alive[c] :
          LET new  == <<c, p, run[c]>>
              cell == CellOf(new, Len(printed[new]) + 1)
          IN  /\ printed' = [printed EXCEPT ![new] = Append(printed[new], cell)]
              /\ UNCHANGED computer
    BY <1>5, Printing
  <2>2. \A l \in DOMAIN printed : l # <<c, p, run[c]>> => printed'[l] = printed[l]
    BY <2>1
  <2>3. DOMAIN printed' = DOMAIN printed /\ UNCHANGED <<run, alive>>
    BY <2>1 DEF computer
  <2>4. life # <<c, p, run[c]>>
    BY <1>1 DEF Frozen
  <2> QED BY <1>1, <2>2, <2>3, <2>4 DEF Frozen
<1> QED BY <1>2, <1>3, <1>4, <1>5, Quiet

LEMMA LivesStep ==
  ASSUME Types, FilesInv, LivesInv, [Next]_vars
  PROVE  LivesInv'
<1>0. ComputerTypes /\ DiskTypes
  BY DEF Types
<1>1. CASE UNCHANGED <<printed, run, next>>
  BY <1>1 DEF LivesInv, LifeOk
<1>2. ASSUME NEW c \in CID, Boot(c) PROVE LivesInv'
  <2>1. /\ run' = [run EXCEPT ![c] = run[c] + 1] /\ next' = [next EXCEPT ![c] = 2]
        /\ UNCHANGED printed
    BY <1>2 DEF Boot, history
  <2>2. ASSUME NEW life \in DOMAIN printed PROVE LifeOk(life)'
    <3>1. life[1] \in CID /\ LifeOk(life) /\ life[3] \in Run
      BY DEF LivesInv, LifeOk
    <3>2. life[3] \in Nat /\ run[life[1]] \in Nat /\ life[3] <= run[life[1]]
      BY <1>0, <3>1 DEF LifeOk, Run, ComputerTypes
    <3>3. CASE life[1] = c
      <4>1. run'[life[1]] = run[life[1]] + 1
        BY <1>0, <2>1, <3>3 DEF ComputerTypes
      <4>2. life[3] <= run'[life[1]] /\ life[3] # run'[life[1]]
        BY <3>2, <4>1
      <4> QED BY <2>1, <3>1, <4>2 DEF LifeOk
    <3>4. CASE life[1] # c
      <4>1. run'[life[1]] = run[life[1]] /\ next'[life[1]] = next[life[1]]
        BY <1>0, <2>1, <3>1, <3>4 DEF ComputerTypes
      <4> QED BY <2>1, <3>1, <4>1 DEF LifeOk
    <3> QED BY <3>3, <3>4
  <2> QED BY <2>1, <2>2 DEF LivesInv
<1>3. ASSUME NEW c \in CID, InitSpool(c), ~Down(c) PROVE LivesInv'
  <2>0. PICK new : new = <<c, next[c], run[c]>>
    OBVIOUS
  <2>1. /\ new \in CID \X PID \X Run /\ DOMAIN printed' = DOMAIN printed \union {new}
        /\ printed'[new] = <<>> /\ \A l \in DOMAIN printed : printed'[l] = printed[l]
        /\ next' = [next EXCEPT ![c] = next[c] + 1] /\ next[c] \in Nat /\ UNCHANGED run
    BY <1>3, <2>0, Making
  <2>2. next'[c] = next[c] + 1
    BY <1>0, <2>1 DEF ComputerTypes
  <2>3. LifeOk(new)'
    <3>1. DOMAIN printed'[new] = {}
      BY <2>1
    <3>2. next[c] < next'[c] /\ run[c] <= run[c]
      BY <1>0, <2>1, <2>2 DEF ComputerTypes
    <3>3. new[1] = c /\ new[2] = next[c] /\ new[3] = run[c]
      BY <2>0
    <3> QED BY <2>1, <3>1, <3>2, <3>3 DEF LifeOk
  <2>4. ASSUME NEW life \in DOMAIN printed PROVE LifeOk(life)'
    <3>1. LifeOk(life) /\ life[1] \in CID /\ life[2] \in Nat
      BY Constants DEF LivesInv, LifeOk
    <3>2. next'[life[1]] = next[life[1]] \/ next'[life[1]] = next[life[1]] + 1
      BY <1>0, <2>1, <2>2, <3>1 DEF ComputerTypes
    <3>3. next[life[1]] \in Nat
      BY <1>0, <3>1 DEF ComputerTypes
    <3>4. life[2] < next[life[1]] => life[2] < next'[life[1]]
      BY <3>1, <3>2, <3>3
    <3> QED BY <2>1, <3>1, <3>4 DEF LifeOk
  <2>5. DOMAIN printed' = DOMAIN printed \union {new}
    BY <2>1
  <2> QED BY <2>3, <2>4, <2>5 DEF LivesInv
<1>4. ASSUME NEW c \in CID, SpoolLine(c) PROVE LivesInv'
  <2>1. PICK p \in alive[c] :
          LET life == <<c, p, run[c]>>
              cell == CellOf(life, Len(printed[life]) + 1)
          IN  /\ life \in DOMAIN printed
              /\ printed' = [printed EXCEPT ![life] = Append(printed[life], cell)]
              /\ UNCHANGED <<pspool, paper, computer, network, server, severed>>
    BY <1>4, Printing
  <2>2. PICK new \in DOMAIN printed :
          /\ printed' = [printed EXCEPT ![new]
                           = Append(printed[new], CellOf(new, Len(printed[new]) + 1))]
          /\ UNCHANGED <<run, next>>
    BY <2>1 DEF computer
  <2>3. ASSUME NEW life \in DOMAIN printed PROVE LifeOk(life)'
    <3>1. LifeOk(life)
      BY DEF LivesInv
    <3>2. CASE life = new
      <4>1. printed[new] \in Seq(Cell)
        BY <1>0 DEF DiskTypes
      <4>2. \A n \in DOMAIN printed[new] : printed[new][n] = CellOf(new, n)
        BY <3>1, <3>2 DEF LifeOk
      <4>3. printed'[new] = Append(printed[new], CellOf(new, Len(printed[new]) + 1))
        BY <2>2
      <4> DEFINE x == CellOf(new, Len(printed[new]) + 1)
      <4>4. \A n \in DOMAIN Append(printed[new], x) :
              Append(printed[new], x)[n] = IF n = Len(printed[new]) + 1 THEN x ELSE printed[new][n]
        BY <4>1
      <4>5. \A n \in DOMAIN Append(printed[new], x) :
              n # Len(printed[new]) + 1 => n \in DOMAIN printed[new]
        BY <4>1
      <4>6. \A n \in DOMAIN printed'[new] : printed'[new][n] = CellOf(new, n)
        BY <4>2, <4>3, <4>4, <4>5
      <4> HIDE DEF x
      <4>7. UNCHANGED <<run, next>>
        BY <2>2
      <4> QED BY <3>1, <3>2, <4>6, <4>7 DEF LifeOk, CellOf, IdOf
    <3>3. CASE life # new
      <4>1. printed'[life] = printed[life]
        BY <2>2, <3>3
      <4> QED BY <2>2, <3>1, <4>1 DEF LifeOk
    <3> QED BY <3>2, <3>3
  <2> QED BY <2>2, <2>3 DEF LivesInv
<1> QED BY <1>1, <1>2, <1>3, <1>4, Quiet
-----------------------------------------------------------------------------
(* The spool files.                                                        *)
LEMMA FileIs ==
  ASSUME DiskTypes, NEW f \in Files
  PROVE  f[1] \in CID /\ f[2] \in PID /\ f = <<f[1], f[2]>>
BY FileFacts DEF PrintID

(* The file being sent, of a process that is over.                         *)
LEMMA SentFile ==
  ASSUME Types, FilesInv, SpoolInv, NEW c \in CID, pc[c] \in Sending
  PROVE  /\ File(c) \in Files /\ File(c)[1] = c /\ File(c)[2] = job[c].pid
         /\ job[c].pid \in PID /\ job[c].pid \notin alive[c]
         /\ \E r \in Run : HasText(File(c), r) /\ Frozen(<<c, job[c].pid, r>>)
         /\ job[c].type = "END_SPOOL" => HasText(File(c), run[c])
<1>1. File(c) \in Files /\ File(c) = <<c, job[c].pid>>
  BY DEF SpoolInv, File
<1>2. job[c].pid \in PID \ alive[c]
  BY DEF FilesInv, FilesOf
<1>3. File(c)[1] = c /\ File(c)[2] = job[c].pid
  BY <1>1
<1>4. PICK r \in Run : HasText(File(c), r)
  BY <1>1 DEF SpoolInv
<1>5. Frozen(<<c, job[c].pid, r>>)
  BY <1>2, <1>3, <1>4 DEF HasText, Frozen
<1> QED BY <1>1, <1>2, <1>3, <1>4, <1>5 DEF SpoolInv

LEMMA SpoolSame ==
  ASSUME Types, SpoolInv, UNCHANGED <<printed, run, spool>>,
         \A c \in CID : alive'[c] \subseteq alive[c]
  PROVE  \A f \in Files' : \E r \in Run :
           HasText(f, r)' /\ (f[2] \in alive'[f[1]] => r = run'[f[1]])
<1> SUFFICES ASSUME NEW f \in Files
             PROVE  \E r \in Run : HasText(f, r)' /\ (f[2] \in alive'[f[1]] => r = run'[f[1]])
  BY DEF Files
<1>1. PICK r \in Run : HasText(f, r) /\ (f[2] \in alive[f[1]] => r = run[f[1]])
  BY DEF SpoolInv
<1>2. f[1] \in CID
  BY FileIs DEF Types
<1> QED BY <1>1, <1>2 DEF HasText

LEMMA SpoolTexts ==
  ASSUME Types, FilesInv, LivesInv, SpoolInv, NEW c \in CID, ComputerStep(c), [Next]_vars
  PROVE  \A f \in Files' : \E r \in Run :
           HasText(f, r)' /\ (f[2] \in alive'[f[1]] => r = run'[f[1]])
<1>0. ComputerTypes /\ DiskTypes
  BY DEF Types
<1> DEFINE Goal(f) == \E r \in Run : HasText(f, r)' /\ (f[2] \in alive'[f[1]] => r = run'[f[1]])
<1>1. CASE Boot(c)
  <2>1. /\ run' = [run EXCEPT ![c] = run[c] + 1] /\ UNCHANGED <<printed, alive>>
        /\ pc[c] = "down" /\ spool' = IF spool = NoDir THEN NoFiles ELSE spool
    BY <1>1 DEF Boot, history, Step
  <2>2. Files' = Files /\ \A f \in Files : spool'[f] = spool[f]
    BY <2>1, EmptyDir DEF Files
  <2>3. alive[c] = {}
    BY <2>1 DEF FilesInv, FilesOf, Sending
  <2>4. ASSUME NEW f \in Files PROVE Goal(f)
    <3>1. PICK r \in Run : HasText(f, r) /\ (f[2] \in alive[f[1]] => r = run[f[1]])
      BY DEF SpoolInv
    <3>2. f[1] \in CID
      BY <1>0, FileIs
    <3>3. f[1] # c => run'[f[1]] = run[f[1]]
      BY <1>0, <2>1, <3>2 DEF ComputerTypes
    <3> QED BY <2>1, <2>2, <2>3, <3>1, <3>3 DEF HasText
  <2> QED BY <2>2, <2>4
<1>2. CASE InitSpool(c) /\ ~Down(c)
  <2>1. PICK new : new = <<c, next[c], run[c]>>
    OBVIOUS
  <2>2. PICK g : g = <<c, next[c]>>
    OBVIOUS
  <2>3. /\ new \notin DOMAIN printed /\ DOMAIN printed' = DOMAIN printed \union {new}
        /\ printed'[new] = <<>> /\ \A l \in DOMAIN printed : printed'[l] = printed[l]
        /\ run[c] \in Run /\ alive' = [alive EXCEPT ![c] = @ \union {next[c]}]
        /\ spool # NoDir /\ UNCHANGED run
    BY <1>2, <2>1, Making
  <2>4. Files' = Files \union {g} /\ \A f \in Files : f # g => spool'[f] = spool[f]
    BY <1>2, <2>2, <2>3, FilesMade
  <2>5. spool' = With(spool, g, <<>>)
    BY <1>2, <2>2, <2>3 DEF InitSpool
  <2>6. spool'[g] = <<>>
    BY <2>5 DEF With
  <2>7. Goal(g)
    BY <2>1, <2>2, <2>3, <2>6 DEF HasText
  <2>8. ASSUME NEW f \in Files, f # g PROVE Goal(f)
    <3>1. PICK r \in Run : HasText(f, r) /\ (f[2] \in alive[f[1]] => r = run[f[1]])
      BY DEF SpoolInv
    <3>2. f[1] \in CID /\ f = <<f[1], f[2]>>
      BY <1>0, FileIs
    <3>3. f[2] \in alive'[f[1]] => f[2] \in alive[f[1]]
      BY <1>0, <2>2, <2>3, <2>8, <3>2 DEF ComputerTypes
    <3> QED BY <2>3, <2>4, <2>8, <3>1, <3>3 DEF HasText
  <2> QED BY <2>4, <2>7, <2>8
<1>3. CASE SpoolLine(c)
  <2>1. PICK p \in alive[c] :
          LET life == <<c, p, run[c]>>
              cell == CellOf(life, Len(printed[life]) + 1)
          IN  /\ life \in DOMAIN printed /\ <<c, p>> \in Files
              /\ spool' = [spool EXCEPT ![<<c, p>>] = Append(spool[<<c, p>>], cell)]
              /\ printed' = [printed EXCEPT ![life] = Append(printed[life], cell)]
              /\ UNCHANGED computer
    BY <1>3, Printing
  <2>2. PICK life, g : life = <<c, p, run[c]>> /\ g = <<c, p>>
    OBVIOUS
  <2>3. PICK cell : cell = CellOf(life, Len(printed[life]) + 1)
    OBVIOUS
  <2>4. /\ life \in DOMAIN printed /\ g \in Files
        /\ spool' = [spool EXCEPT ![g] = Append(spool[g], cell)]
        /\ printed' = [printed EXCEPT ![life] = Append(printed[life], cell)]
        /\ UNCHANGED <<alive, run>>
    BY <2>1, <2>2, <2>3 DEF computer
  <2>5. g \in DOMAIN spool /\ Files' = Files
    BY <1>0, <1>3, <2>4, FileFacts, FileLonger
  <2>6. /\ spool'[g] = Append(spool[g], cell) /\ \A f \in DOMAIN spool : f # g => spool'[f] = spool[f]
        /\ printed'[life] = Append(printed[life], cell) /\ DOMAIN printed' = DOMAIN printed
        /\ \A l \in DOMAIN printed : l # life => printed'[l] = printed[l]
    BY <2>4, <2>5
  <2>7. ASSUME NEW f \in Files PROVE Goal(f)
    <3>1. PICK r \in Run : HasText(f, r) /\ (f[2] \in alive[f[1]] => r = run[f[1]])
      BY DEF SpoolInv
    <3>2. f[1] \in CID /\ f = <<f[1], f[2]>> /\ f \in DOMAIN spool
      BY <1>0, FileIs, FileFacts
    <3>3. CASE f = g
      <4>1. f[1] = c /\ f[2] = p /\ r = run[c]
        BY <2>1, <2>2, <3>1, <3>3
      <4>2. spool[g] = printed[life]
        BY <2>2, <3>1, <3>3, <4>1 DEF HasText
      <4> QED BY <2>2, <2>4, <2>6, <3>1, <3>3, <4>1, <4>2 DEF HasText
    <3>4. CASE f # g
      <4>1. <<f[1], f[2], r>> # life
        BY <2>2, <3>2, <3>4
      <4> QED BY <2>4, <2>6, <3>1, <3>2, <3>4, <4>1 DEF HasText
    <3> QED BY <3>3, <3>4
  <2> QED BY <2>5, <2>7
<1>4. CASE Remove(c)
  <2>1. Files' = Files \ {File(c)} /\ \A f \in Files \ {File(c)} : spool'[f] = spool[f]
    BY <1>4, FileGone
  <2>2. UNCHANGED <<printed, run, alive>>
    BY <1>4 DEF Remove, history
  <2>3. ASSUME NEW f \in Files' PROVE Goal(f)
    <3>1. f \in Files /\ spool'[f] = spool[f]
      BY <2>1
    <3>2. PICK r \in Run : HasText(f, r) /\ (f[2] \in alive[f[1]] => r = run[f[1]])
      BY <3>1 DEF SpoolInv
    <3> QED BY <2>2, <3>1, <3>2 DEF HasText
  <2> QED BY <2>3
<1>5. CASE ~Boot(c) /\ ~(InitSpool(c) /\ ~Down(c)) /\ ~SpoolLine(c) /\ ~Remove(c)
  <2>1. UNCHANGED <<printed, run>> /\ \A d \in CID : alive'[d] \subseteq alive[d]
    BY <1>5, QuietStep
  <2>2. UNCHANGED spool
    <3>1. CASE InitSpool(c)
      BY <1>0, <1>5, <3>1 DEF InitSpool, Down, ComputerTypes
    <3> QED BY <1>5, <3>1 DEF ComputerStep, Connect, PowerOff, KillComputer, Exit, Scan,
                              SendHeader, SendFile, disk
  <2> QED BY <2>1, <2>2, SpoolSame
<1> QED BY <1>1, <1>2, <1>3, <1>4, <1>5

LEMMA SpoolStep ==
  ASSUME Types, FilesInv, LivesInv, SpoolInv, NEW c \in CID, ComputerStep(c), [Next]_vars
  PROVE  SpoolInv'
<1>0. ComputerTypes /\ DiskTypes
  BY DEF Types
<1>1. ASSUME NEW d \in CID, d # c, pc'[d] \in Sending
      PROVE  File(d)' \in Files' /\ (job'[d].type = "END_SPOOL" => HasText(File(d), run[d])')
  <2>1. pc[d] \in Sending /\ job'[d] = job[d] /\ run'[d] = run[d]
    BY <1>1, Alone
  <2>2. PICK f : f = File(d)
    OBVIOUS
  <2>3. File(d)' = f
    BY <2>1, <2>2 DEF File
  <2>4. f \in Files /\ f[1] = d /\ f[2] \notin alive[d]
    BY <2>1, <2>2, SentFile
  <2>5. f \in Files' /\ spool'[f] = spool[f]
    BY <1>1, <2>4, Elsewhere
  <2>6. CASE job[d].type = "END_SPOOL"
    <3>1. HasText(f, run[d])
      BY <2>1, <2>2, <2>6, SentFile
    <3>2. PICK life : life = <<f[1], f[2], run[d]>>
      OBVIOUS
    <3>3. Frozen(life)
      BY <2>4, <3>1, <3>2 DEF HasText, Frozen
    <3>4. life \in DOMAIN printed' /\ printed'[life] = printed[life]
      BY <3>3, FrozenStays DEF Frozen
    <3>5. HasText(f, run[d])'
      BY <2>1, <2>5, <3>1, <3>2, <3>4 DEF HasText
    <3> QED BY <2>3, <2>5, <3>5
  <2> QED BY <2>1, <2>3, <2>5, <2>6
<1>2. ASSUME pc'[c] \in Sending
      PROVE  File(c)' \in Files' /\ (job'[c].type = "END_SPOOL" => HasText(File(c), run[c])')
  <2>1. ~Down(c)
    BY <1>0, <1>2 DEF Down, ComputerTypes, Sending
  <2>2. CASE Exit(c)
    <3>1. PICK p \in alive[c] :
            /\ job' = [job EXCEPT ![c] = [pid |-> p, type |-> "END_SPOOL"]]
            /\ UNCHANGED <<spool, printed, run>>
      BY <2>2 DEF Exit, disk, history
    <3>2. PICK f : f = <<c, p>>
      OBVIOUS
    <3>3. f \in Files /\ f[1] = c /\ f[2] = p
      BY <3>2 DEF FilesInv, FilesOf
    <3>4. PICK r \in Run : HasText(f, r) /\ r = run[c]
      BY <3>1, <3>3 DEF SpoolInv
    <3>5. File(c)' = f
      BY <1>0, <3>1, <3>2 DEF File, ComputerTypes
    <3>6. f \in Files' /\ HasText(f, run[c])'
      BY <3>1, <3>3, <3>4 DEF Files, HasText
    <3> QED BY <3>5, <3>6
  <2>3. CASE Scan(c)
    <3>1. PICK f \in OwnFiles(c) :
            /\ job' = [job EXCEPT ![c] = [pid |-> f[2], type |-> "CPU_TERM"]] /\ UNCHANGED spool
      BY <2>1, <2>3 DEF Scan, disk
    <3>2. f \in Files /\ f = <<c, f[2]>>
      BY <1>0, OwnIs
    <3>3. job'[c].pid = f[2] /\ job'[c].type = "CPU_TERM"
      BY <1>0, <3>1 DEF ComputerTypes
    <3> QED BY <3>1, <3>2, <3>3 DEF File, Files
  <2>4. CASE SendHeader(c) \/ SendFile(c)
    <3>1. pc[c] \in Sending /\ UNCHANGED <<job, run, spool, printed>>
      BY <2>1, <2>4 DEF SendHeader, SendFile, Sending, Write, disk, history
    <3> QED BY <1>2, <3>1 DEF SpoolInv, File, Files, HasText
  <2>5. CASE Boot(c) \/ Connect(c) \/ PowerOff(c) \/ KillComputer(c) \/ InitSpool(c)
               \/ SpoolLine(c) \/ Remove(c)
    <3>1. pc'[c] \notin Sending
      BY <1>0, <2>1, <2>5 DEF Boot, Connect, PowerOff, KillComputer, InitSpool, SpoolLine, Remove,
                              Step, Back, Sending, ComputerTypes, computer
    <3> QED BY <1>2, <3>1
  <2> QED BY <2>2, <2>3, <2>4, <2>5 DEF ComputerStep
<1> QED BY <1>1, <1>2, SpoolTexts DEF SpoolInv

LEMMA SpoolServer ==
  ASSUME Types, SpoolInv, UNCHANGED <<computer, printed>>,
         spool' = spool \/ (spool = NoFiles /\ spool' = NoDir)
  PROVE  SpoolInv'
<1>1. CASE spool' = spool
  BY <1>1 DEF SpoolInv, computer, Files, File, HasText
<1>2. CASE spool = NoFiles /\ spool' = NoDir
  <2>1. Files = {} /\ Files' = {}
    BY <1>2, EmptyDir DEF Files
  <2> QED BY <2>1 DEF SpoolInv, computer
<1> QED BY <1>1, <1>2
-----------------------------------------------------------------------------
(* Messages on their way.                                                  *)
LEMMA WholeStays ==
  ASSUME Types, FilesInv, LivesInv, [Next]_vars, NEW h, NEW r, Whole(h, r),
         run'[h.cid] = run[h.cid]
  PROVE  Whole(h, r)' /\ printed'[Life(h, r)] = printed[Life(h, r)]
<1>1. PICK life : life = Life(h, r)
  OBVIOUS
<1>2. Frozen(life)' /\ printed'[life] = printed[life]
  BY <1>1, FrozenStays DEF Whole
<1>3. Life(h, r)' = life
  BY <1>1 DEF Life
<1> QED BY <1>1, <1>2, <1>3 DEF Whole, Life

LEMMA ReceivedStays ==
  ASSUME Types, FilesInv, LivesInv, [Next]_vars, NEW h, NEW text, Received(h, text),
         run'[h.cid] = run[h.cid], severed \subseteq severed'
  PROVE  Received(h, text)'
<1>1. PICK r \in Run :
        LET t == printed[Life(h, r)] IN
          /\ Whole(h, r) /\ Len(text) = h.size
          /\ \A j \in 1 .. h.size : text[j] \in {Junk, t[j]}
          /\ MaxText <= 1 => text = t \/ Id(h) \in severed
  BY DEF Received
<1>2. Whole(h, r)' /\ printed'[Life(h, r)] = printed[Life(h, r)]
  BY <1>1, WholeStays
<1>3. Life(h, r)' = Life(h, r) /\ Id(h)' = Id(h)
  BY DEF Life, Id
<1> QED BY <1>1, <1>2, <1>3 DEF Received

(* What a step may not do to a text that is being sent.                    *)
Keeps(c) ==
  /\ severed \subseteq severed' /\ run'[c] = run[c]
  /\ link[c] # "open" => link'[c] # "open"
  /\ link[c] = "open" /\ pc[c] = "text" /\ sentCells[c] < Len(spool[File(c)]) =>
       IF link'[c] = "open"
         THEN /\ pc'[c] = "text" /\ File(c)' = File(c) /\ spool'[File(c)] = spool[File(c)]
              /\ sentCells'[c] = sentCells[c]
         ELSE File(c) \in severed'

(* A message behind place i, when what is before place n + 1 is read.      *)
LEMMA CarriedStays ==
  ASSUME Types, FilesInv, LivesInv, [Next]_vars, NEW c \in CID, NEW h \in Header, h.cid = c,
         NEW i \in Nat, NEW n \in Nat, n <= i, Carried(c, h, i), Keeps(c),
         NEW s \in Seq(Header \union Cell), NEW q \in Seq(Header \union Cell),
         s = sock[c], q = sock'[c], Len(s) = Len(q) + n, \A j \in 1 .. Len(q) : q[j] = s[j + n]
  PROVE  Carried(c, h, i - n)'
<1>1. PICK r \in Run :
        LET t == printed[Life(h, r)] IN
          /\ Whole(h, r)
          /\ \A j \in 1 .. h.size : i + j <= Len(sock[c]) => sock[c][i + j] = t[j]
          /\ i + h.size > Len(sock[c]) =>
               IF link[c] = "open"
                 THEN /\ pc[c] = "text" /\ Id(h) = File(c) /\ t = spool[File(c)]
                      /\ i + sentCells[c] = Len(sock[c])
                 ELSE Id(h) \in severed
  BY DEF Carried
<1>2. Whole(h, r)' /\ printed'[Life(h, r)] = printed[Life(h, r)]
  BY <1>1, WholeStays DEF Keeps
<1>3. PICK t : t = printed[Life(h, r)] /\ t = printed'[Life(h, r)]
  BY <1>2
<1>4. h.size \in Nat /\ Len(t) = h.size /\ Len(s) \in Nat /\ Len(q) \in Nat
  BY <1>1, <1>3, HeaderFacts DEF Whole
<1>5. \A j \in 1 .. h.size : i - n + j <= Len(q) => q[i - n + j] = t[j]
  <2> SUFFICES ASSUME NEW j \in 1 .. h.size, i - n + j <= Len(q) PROVE q[i - n + j] = t[j]
    OBVIOUS
  <2>1. i + j <= Len(s) /\ i - n + j \in 1 .. Len(q) /\ (i - n + j) + n = i + j
    BY <1>4
  <2>2. s[i + j] = t[j]
    BY <1>1, <1>3, <2>1
  <2> QED BY <2>1, <2>2
<1>6. ASSUME i - n + h.size > Len(q)
      PROVE  IF link'[c] = "open"
               THEN /\ pc'[c] = "text" /\ Id(h) = File(c)' /\ t = spool'[File(c)']
                    /\ i - n + sentCells'[c] = Len(q)
               ELSE Id(h) \in severed'
  <2>1. i + h.size > Len(s)
    BY <1>4, <1>6
  <2>2. CASE link[c] # "open"
    BY <1>1, <2>1, <2>2 DEF Keeps
  <2>3. CASE link[c] = "open"
    <3>1. /\ pc[c] = "text" /\ Id(h) = File(c) /\ t = spool[File(c)]
          /\ i + sentCells[c] = Len(s) /\ sentCells[c] \in Nat
      BY <1>1, <1>3, <2>1, <2>3 DEF Types, ComputerTypes
    <3>2. sentCells[c] < Len(spool[File(c)])
      BY <1>4, <2>1, <3>1
    <3>3. i - n + sentCells[c] = Len(q)
      <4>1. PICK m \in Nat : m = sentCells[c]
        BY <3>1
      <4>2. i + m = Len(q) + n
        BY <3>1, <4>1
      <4>3. i - n + m = Len(q)
        BY <1>4, <4>2
      <4> QED BY <4>1, <4>3
    <3> QED BY <2>3, <3>1, <3>2, <3>3 DEF Keeps
  <2> QED BY <2>2, <2>3
<1>7. Life(h, r)' = Life(h, r) /\ Id(h)' = Id(h)
  BY DEF Life, Id
<1> QED BY <1>2, <1>3, <1>5, <1>6, <1>7 DEF Carried

(* The same when the computer sends another cell or header x.              *)
LEMMA CarriedMore ==
  ASSUME Types, FilesInv, LivesInv, [Next]_vars, NEW c \in CID, NEW h \in Header, h.cid = c,
         NEW i \in Nat, Carried(c, h, i), i <= Len(sock[c]), NEW x,
         NEW s \in Seq(Header \union Cell), NEW q \in Seq(Header \union Cell),
         s = sock[c], q = sock'[c], q = Append(s, x),
         run'[c] = run[c], link[c] = "open", link'[c] = "open",
         \/ pc[c] # "text"
         \/ /\ x = spool[File(c)][sentCells[c] + 1] /\ pc'[c] = "text" /\ File(c)' = File(c)
            /\ spool' = spool /\ sentCells'[c] = sentCells[c] + 1
  PROVE  Carried(c, h, i)'
<1>1. PICK r \in Run :
        LET t == printed[Life(h, r)] IN
          /\ Whole(h, r)
          /\ \A j \in 1 .. h.size : i + j <= Len(sock[c]) => sock[c][i + j] = t[j]
          /\ i + h.size > Len(sock[c]) =>
               IF link[c] = "open"
                 THEN /\ pc[c] = "text" /\ Id(h) = File(c) /\ t = spool[File(c)]
                      /\ i + sentCells[c] = Len(sock[c])
                 ELSE Id(h) \in severed
  BY DEF Carried
<1>2. Whole(h, r)' /\ printed'[Life(h, r)] = printed[Life(h, r)]
  BY <1>1, WholeStays
<1>3. PICK t : t = printed[Life(h, r)] /\ t = printed'[Life(h, r)]
  BY <1>2
<1>4. h.size \in Nat /\ Len(t) = h.size /\ Len(s) \in Nat
  BY <1>1, <1>3, HeaderFacts DEF Whole
<1>5. Len(q) = Len(s) + 1 /\ q[Len(s) + 1] = x /\ \A j \in 1 .. Len(s) : q[j] = s[j]
  OBVIOUS
<1>6. \A j \in 1 .. h.size : i + j <= Len(q) => q[i + j] = t[j]
  <2> SUFFICES ASSUME NEW j \in 1 .. h.size, i + j <= Len(q) PROVE q[i + j] = t[j]
    OBVIOUS
  <2>1. CASE i + j <= Len(s)
    <3>1. i + j \in 1 .. Len(s) /\ s[i + j] = t[j]
      BY <1>1, <1>3, <1>4, <2>1
    <3> QED BY <1>5, <3>1
  <2>2. CASE i + j > Len(s)
    <3>1. i + j = Len(s) + 1 /\ i + h.size > Len(s)
      BY <1>4, <1>5, <2>2
    <3>2. pc[c] = "text" /\ t = spool[File(c)] /\ i + sentCells[c] = Len(s) /\ sentCells[c] \in Nat
      BY <1>1, <1>3, <3>1 DEF Types, ComputerTypes
    <3>3. x = spool[File(c)][sentCells[c] + 1] /\ j = sentCells[c] + 1
      BY <1>4, <3>1, <3>2
    <3> QED BY <1>5, <3>1, <3>2, <3>3
  <2> QED BY <1>4, <1>5, <2>1, <2>2
<1>7. ASSUME i + h.size > Len(q)
      PROVE  /\ pc'[c] = "text" /\ Id(h) = File(c)' /\ t = spool'[File(c)']
             /\ i + sentCells'[c] = Len(q)
  <2>1. i + h.size > Len(s)
    BY <1>4, <1>5, <1>7
  <2>2. /\ pc[c] = "text" /\ Id(h) = File(c) /\ t = spool[File(c)]
        /\ i + sentCells[c] = Len(s) /\ sentCells[c] \in Nat
    BY <1>1, <1>3, <2>1 DEF Types, ComputerTypes
  <2>3. PICK m \in Nat : m = sentCells[c]
    BY <2>2
  <2>4. i + m = Len(s) /\ sentCells'[c] = m + 1
    BY <1>4, <2>1, <2>2, <2>3, <1>5, <1>7
  <2>5. i + (m + 1) = Len(q)
    <3>1. PICK l \in Nat : l = Len(s)
      BY <1>4
    <3>2. i + m = l /\ Len(q) = l + 1
      BY <1>5, <2>4, <3>1
    <3>3. i + (m + 1) = l + 1
      BY ONLY i \in Nat, m \in Nat, l \in Nat, <3>2
    <3> QED BY <3>2, <3>3
  <2> QED BY <1>4, <1>5, <1>7, <2>2, <2>4, <2>5
<1>8. Life(h, r)' = Life(h, r) /\ Id(h)' = Id(h)
  BY DEF Life, Id
<1> QED BY <1>2, <1>3, <1>6, <1>7, <1>8 DEF Carried

(* What a step of computer c does to the connection of computer d.         *)
LEMMA Keeping ==
  ASSUME Types, FilesInv, LinkInv, NEW c \in CID, ComputerStep(c), NEW d \in CID, d # c
  PROVE  Keeps(d)
<1>1. /\ pc'[d] = pc[d] /\ job'[d] = job[d] /\ sentCells'[d] = sentCells[d]
      /\ run'[d] = run[d] /\ link'[d] = link[d]
  BY Alone
<1>2. severed \subseteq severed'
  BY DEF ComputerStep, Boot, Connect, PowerOff, KillComputer, InitSpool, SpoolLine, Exit, Scan,
         SendHeader, SendFile, Remove, history
<1>3. PICK f : f = File(d)
  OBVIOUS
<1>4. File(d)' = f
  BY <1>1, <1>3 DEF File
<1>5. pc[d] = "text" => spool'[f] = spool[f]
  <2>1. pc[d] = "text" => f \in Files /\ f[1] = d
    BY <1>3 DEF FilesInv, FilesOf, File
  <2> QED BY <2>1, Elsewhere
<1> QED BY <1>1, <1>2, <1>3, <1>4, <1>5 DEF Keeps

(* Computer c sends cell or header x.                                      *)
Sends(c, x) ==
  /\ link[c] = "open" /\ link'[c] = "open" /\ UNCHANGED <<spool, run, severed, job>>
  /\ sock'[c] = Append(sock[c], x) /\ pc'[c] = "text"
  /\ \/ /\ pc[c] = "header" /\ File(c) \in Files /\ sentCells'[c] = 0
        /\ x = [cid |-> c, pid |-> job[c].pid, size |-> Len(spool[File(c)]), type |-> job[c].type]
     \/ /\ pc[c] = "text" /\ sentCells[c] < Len(spool[File(c)])
        /\ x = spool[File(c)][sentCells[c] + 1] /\ sentCells'[c] = sentCells[c] + 1

LEMMA Sending1 ==
  ASSUME Types, FilesInv, LinkInv, NEW c \in CID, ComputerStep(c)
  PROVE  \/ Keeps(c) /\ sock'[c] = sock[c] /\ ~Boot(c) /\ ~Connect(c)
         \/ Boot(c) \/ Connect(c)
         \/ \E x : Sends(c, x)
<1>0. ComputerTypes /\ NetworkTypes /\ DiskTypes
  BY DEF Types
<1>1. CASE SendHeader(c)
  <2>1. /\ pc[c] = "header" /\ sentCells' = [sentCells EXCEPT ![c] = 0]
        /\ UNCHANGED <<spool, severed>>
    BY <1>1 DEF SendHeader, disk, history
  <2>2. run' = run
    BY <1>1 DEF SendHeader, Write, Down
  <2>3. CASE UNCHANGED <<sock, link>> \/ Down(c)
    <3>1. sock'[c] = sock[c] /\ (link[c] # "open" => link'[c] # "open")
      BY <1>0, <2>3 DEF Down, NetworkTypes
    <3> QED BY <1>1, <2>1, <2>2, <3>1 DEF Keeps, Boot, Connect, Step
  <2>4. CASE ~(UNCHANGED <<sock, link>> \/ Down(c))
    <3> DEFINE h == [cid |-> c, pid |-> job[c].pid, size |-> Len(spool[File(c)]), type |-> job[c].type]
    <3>1. /\ File(c) \in OwnFiles(c) /\ link[c] = "open" /\ sock' = [sock EXCEPT ![c] = Append(@, h)]
          /\ pc' = [pc EXCEPT ![c] = "text"] /\ UNCHANGED <<job, link>>
      BY <1>1, <2>4 DEF SendHeader, Write, network
    <3>2. File(c) \in Files
      BY <1>0, <3>1, OwnIs
    <3>3. Sends(c, h)
      BY <1>0, <2>1, <2>2, <3>1, <3>2 DEF Sends, ComputerTypes, NetworkTypes
    <3> QED BY <3>3
  <2> QED BY <2>3, <2>4
<1>2. CASE SendFile(c)
  <2>1. pc[c] = "text" /\ UNCHANGED <<spool, severed>>
    BY <1>2 DEF SendFile, disk, history
  <2>2. run' = run
    BY <1>2 DEF SendFile, Write, Down
  <2>3. CASE link[c] # "open"
    <3>1. sock'[c] = sock[c] /\ link'[c] # "open"
      BY <1>0, <1>2, <2>3 DEF SendFile, Write, Down, NetworkTypes, network
    <3> QED BY <1>2, <2>1, <2>2, <2>3, <3>1 DEF Keeps, Boot, Connect, Step
  <2>4. CASE sentCells[c] = Len(spool[File(c)])
    <3>1. sock'[c] = sock[c] /\ link'[c] = link[c] /\ ~(sentCells[c] < Len(spool[File(c)]))
      BY <1>2, <1>0, <2>4 DEF SendFile, network, ComputerTypes
    <3> QED BY <1>2, <2>1, <2>2, <3>1 DEF Keeps, Boot, Connect, Step
  <2>5. CASE link[c] = "open" /\ sentCells[c] # Len(spool[File(c)])
    <3> DEFINE x == spool[File(c)][sentCells[c] + 1]
    <3>1. /\ sock' = [sock EXCEPT ![c] = Append(@, x)]
          /\ pc' = [pc EXCEPT ![c] = "text"] /\ UNCHANGED <<job, link>>
          /\ sentCells' = [sentCells EXCEPT ![c] = IF pc'[c] = "text" THEN @ + 1 ELSE 0]
      BY <1>2, <2>5 DEF SendFile, Write
    <3>2. sentCells'[c] = sentCells[c] + 1 /\ pc'[c] = "text" /\ link'[c] = "open"
      BY <1>0, <2>5, <3>1 DEF ComputerTypes
    <3>3. sentCells[c] < Len(spool[File(c)])
      <4>1. sentCells[c] \in Nat /\ Len(spool[File(c)]) \in Nat
            /\ sentCells[c] <= Len(spool[File(c)])
        BY <1>0, <2>1, FileFacts DEF ComputerTypes, FilesInv, FilesOf
      <4> QED BY <2>5, <4>1
    <3>4. Sends(c, x)
      BY <1>0, <2>1, <2>2, <2>5, <3>1, <3>2, <3>3 DEF Sends, NetworkTypes
    <3> QED BY <3>4
  <2> QED BY <2>3, <2>4, <2>5
<1>3. CASE KillComputer(c)
  <2>1. sock'[c] = sock[c] /\ run' = run /\ link'[c] # "open"
    BY <1>0, <1>3 DEF KillComputer, Down, NetworkTypes
  <2>2. severed' = IF pc[c] = "text" /\ sentCells[c] < Len(spool[File(c)])
                     THEN severed \union {File(c)} ELSE severed
    BY <1>3 DEF KillComputer
  <2>3. pc'[c] = "down" /\ pc[c] # "down"
    BY <1>0, <1>3 DEF KillComputer, Down, ComputerTypes
  <2>4. ~Boot(c)
    BY <2>3 DEF Boot, Step
  <2> QED BY <2>1, <2>2, <2>4 DEF Keeps
<1>4. CASE InitSpool(c) \/ SpoolLine(c) \/ PowerOff(c) \/ Exit(c) \/ Scan(c) \/ Remove(c)
  <2>1. pc[c] \notin {"text", "down", "connect"} /\ run' = run /\ UNCHANGED severed
    BY <1>4 DEF InitSpool, SpoolLine, PowerOff, Exit, Scan, Remove, Step, Down, history, computer
  <2>2. sock'[c] = sock[c] /\ (link[c] # "open" => link'[c] # "open")
    BY <1>0, <1>4 DEF InitSpool, SpoolLine, PowerOff, Exit, Scan, Remove, Down, network,
                      NetworkTypes
  <2> QED BY <2>1, <2>2 DEF Keeps, Boot, Connect, Step
<1> QED BY <1>1, <1>2, <1>3, <1>4 DEF ComputerStep
LEMMA SendsIs ==
  ASSUME Types, FilesInv, NEW c \in CID, NEW x, Sends(c, x)
  PROVE  /\ x \in Header \union Cell /\ (pc[c] = "header" => x \in Header /\ x.cid = c)
         /\ sock'[c] = Append(sock[c], x) /\ Len(sock'[c]) = Len(sock[c]) + 1
         /\ sock[c] \in Seq(Header \union Cell) /\ sock'[c] \in Seq(Header \union Cell)
         /\ \A i \in Heads(sock'[c]) :
              \/ i \in Heads(sock[c]) /\ sock'[c][i] = sock[c][i]
              \/ i = Len(sock[c]) + 1 /\ sock'[c][i] = x /\ pc[c] = "header"
<1>0. ComputerTypes /\ NetworkTypes /\ DiskTypes
  BY DEF Types
<1>1. x \in Header \union Cell /\ (x \in Header <=> pc[c] = "header")
      /\ (pc[c] = "header" => x.cid = c)
  <2>1. CASE pc[c] = "header"
    <3>1. File(c) \in Files /\ job[c].pid \in PID
      BY <2>1 DEF Sends, FilesInv, FilesOf, Sending
    <3>2. Len(spool[File(c)]) \in Nat
      BY <1>0, <3>1, FileFacts
    <3>3. x = [cid |-> c, pid |-> job[c].pid, size |-> Len(spool[File(c)]), type |-> job[c].type]
      BY <2>1 DEF Sends
    <3> QED BY <1>0, <2>1, <3>1, <3>2, <3>3 DEF Header, ComputerTypes
  <2>2. CASE pc[c] # "header"
    <3>1. pc[c] = "text" /\ sentCells[c] < Len(spool[File(c)]) /\ x = spool[File(c)][sentCells[c] + 1]
      BY <2>2 DEF Sends
    <3>2. spool[File(c)] \in Seq(Cell)
      BY <1>0, <3>1, FileFacts DEF FilesInv, FilesOf
    <3>3. sentCells[c] \in Nat
      BY <1>0 DEF ComputerTypes
    <3>4. x \in Cell
      BY <3>1, <3>2, <3>3
    <3> QED BY <2>2, <3>4, HeaderFacts
  <2> QED BY <2>1, <2>2
<1>2. PICK s \in Seq(Header \union Cell) : s = sock[c]
  BY <1>0 DEF NetworkTypes
<1>3. sock'[c] = Append(s, x)
  BY <1>2 DEF Sends
<1>4. /\ Append(s, x) \in Seq(Header \union Cell) /\ Len(Append(s, x)) = Len(s) + 1
      /\ \A i \in DOMAIN Append(s, x) : \/ i \in DOMAIN s /\ Append(s, x)[i] = s[i]
                                        \/ i = Len(s) + 1 /\ Append(s, x)[i] = x
  BY <1>1
<1>5. ASSUME NEW i \in Heads(Append(s, x))
      PROVE  \/ i \in Heads(s) /\ Append(s, x)[i] = s[i]
             \/ i = Len(s) + 1 /\ Append(s, x)[i] = x /\ pc[c] = "header"
  BY <1>1, <1>4 DEF Heads
<1> QED BY <1>1, <1>2, <1>3, <1>4, <1>5

(* A header that is sent announces the text of the file.                   *)
LEMMA NewCarried ==
  ASSUME Types, FilesInv, LivesInv, SpoolInv, [Next]_vars, NEW c \in CID, NEW x \in Header,
         Sends(c, x), pc[c] = "header", NEW i \in Nat, i = Len(sock'[c])
  PROVE  Carried(c, x, i)'
<1>0. /\ x = [cid |-> c, pid |-> job[c].pid, size |-> Len(spool[File(c)]), type |-> job[c].type]
      /\ link'[c] = "open" /\ UNCHANGED <<spool, run, job>> /\ pc'[c] = "text" /\ sentCells'[c] = 0
  BY DEF Sends
<1>1. pc[c] \in Sending
  BY DEF Sending
<1>2. x.cid = c /\ x.pid = job[c].pid /\ x.size = Len(spool[File(c)]) /\ x.type = job[c].type
  BY <1>0
<1>3. PICK r \in Run : /\ HasText(File(c), r) /\ Frozen(<<c, job[c].pid, r>>)
                       /\ job[c].type = "END_SPOOL" => r = run[c]
  <2>1. CASE job[c].type = "END_SPOOL"
    <3>1. HasText(File(c), run[c]) /\ File(c)[1] = c /\ File(c)[2] = job[c].pid
          /\ job[c].pid \notin alive[c]
      BY <1>1, <2>1, SentFile
    <3>2. PICK life : life = <<c, job[c].pid, run[c]>>
      OBVIOUS
    <3>3. life \in DOMAIN printed
      BY <3>1, <3>2 DEF HasText
    <3>4. life[3] \in Run /\ life[3] = run[c]
      BY <3>2, <3>3 DEF LivesInv, LifeOk
    <3>5. Frozen(<<c, job[c].pid, run[c]>>)
      BY <3>1, <3>2, <3>3 DEF Frozen
    <3> QED BY <3>1, <3>4, <3>5
  <2>2. CASE job[c].type # "END_SPOOL"
    BY <1>1, <2>2, SentFile
  <2> QED BY <2>1, <2>2
<1>4. File(c)[1] = c /\ File(c)[2] = job[c].pid
  BY DEF File
<1>5. Life(x, r) = <<c, job[c].pid, r>>
  BY <1>2 DEF Life
<1>6. spool[File(c)] = printed[Life(x, r)]
  BY <1>3, <1>4, <1>5 DEF HasText
<1>7. Whole(x, r)
  BY <1>2, <1>3, <1>5, <1>6 DEF Whole
<1>8. Whole(x, r)' /\ printed'[Life(x, r)] = printed[Life(x, r)]
  BY <1>0, <1>2, <1>7, WholeStays
<1>9. x.size \in Nat /\ \A j \in 1 .. x.size : ~(i + j <= Len(sock'[c]))
  BY HeaderFacts
<1>10. File(c)' = File(c) /\ Id(x) = File(c) /\ Id(x)' = Id(x) /\ Life(x, r)' = Life(x, r)
  BY <1>0, <1>2 DEF File, Id, Life
<1>11. i + sentCells'[c] = Len(sock'[c])
  BY <1>0
<1> QED BY <1>0, <1>6, <1>8, <1>9, <1>10, <1>11 DEF Carried

LEMMA ComputerOnly ==
  ASSUME NEW c \in CID, ComputerStep(c)
  PROVE  UNCHANGED <<comm, queue, pspool, paper, printer, starts>> /\ severed \subseteq severed'
BY DEF ComputerStep, Boot, Connect, PowerOff, KillComputer, InitSpool, SpoolLine, Exit, Scan,
       SendHeader, SendFile, Remove, disk, server, history

(* A computer that is started or connects has no message on its way.       *)
LEMMA NoneYet ==
  ASSUME Types, LinkInv, NEW c \in CID, Boot(c) \/ Connect(c)
  PROVE  /\ sock[c] = <<>> /\ sock'[c] = <<>> /\ Heads(sock[c]) = {}
         /\ \A k \in Comm : comm[k].conn # c
         /\ Boot(c) => \A k \in Comm : \A i \in DOMAIN queue[k] : queue[k][i].cid # c
<1>1. link[c] = "none"
  BY DEF Boot, Connect, Settled, LinkInv, LinkOf
<1>2. sock[c] = <<>> /\ \A k \in Comm : comm[k].conn # c
  BY <1>1 DEF LinkInv, LinkOf, Unserved
<1>3. sock'[c] = sock[c]
  BY DEF Boot, Connect, Down, network
<1>4. DOMAIN sock[c] = {}
  BY <1>2
<1> QED BY <1>2, <1>3, <1>4 DEF Heads, Boot, Settled

LEMMA MessagesComputer ==
  ASSUME Types, FilesInv, LinkInv, LivesInv, SpoolInv, SockInv, HandInv, QueueInv, [Next]_vars,
         NEW c \in CID, ComputerStep(c)
  PROVE  SockInv' /\ HandInv' /\ QueueInv'
<1>0. ComputerTypes /\ NetworkTypes /\ ServerTypes
  BY DEF Types
<1>1. UNCHANGED <<comm, queue, pspool, printer>> /\ severed \subseteq severed'
  BY ComputerOnly
<1>2. ASSUME NEW d \in CID, NEW h \in Header, h.cid = d, NEW i \in Nat, i <= Len(sock[d]),
             Carried(d, h, i), ~(d = c /\ (Boot(c) \/ Connect(c)))
      PROVE  Carried(d, h, i)'
  <2>1. PICK s \in Seq(Header \union Cell) : s = sock[d]
    BY <1>0 DEF NetworkTypes
  <2>2. CASE Keeps(d) /\ sock'[d] = sock[d]
    <3>1. 0 \in Nat /\ 0 <= i /\ i - 0 = i /\ Len(s) = Len(s) + 0 /\ \A j \in 1 .. Len(s) : s[j] = s[j + 0]
      BY <2>1
    <3>2. Carried(d, h, i - 0)'
      BY <1>2, <2>1, <2>2, <3>1, CarriedStays
    <3> QED BY <3>1, <3>2
  <2>3. ASSUME NEW x, d = c, Sends(c, x) PROVE Carried(d, h, i)'
    <3>1. /\ sock'[c] = Append(sock[c], x) /\ sock'[c] \in Seq(Header \union Cell)
      BY <2>3, SendsIs
    <3>2. PICK q \in Seq(Header \union Cell) : q = sock'[c]
      BY <3>1
    <3>3. \/ pc[c] # "text"
          \/ /\ x = spool[File(c)][sentCells[c] + 1] /\ pc'[c] = "text" /\ File(c)' = File(c)
             /\ spool' = spool /\ sentCells'[c] = sentCells[c] + 1
      BY <2>3 DEF Sends, File
    <3>4. run'[c] = run[c] /\ link[c] = "open" /\ link'[c] = "open"
      BY <2>3 DEF Sends
    <3> QED BY <1>2, <2>1, <2>3, <3>1, <3>2, <3>3, <3>4, CarriedMore
  <2>4. CASE d # c
    BY <2>2, <2>4, Keeping, Alone
  <2>5. CASE d = c
    BY <1>2, <2>2, <2>3, <2>5, Sending1
  <2> QED BY <2>4, <2>5
<1>3. SockInv'
  <2> SUFFICES ASSUME NEW d \in CID, NEW i \in Heads(sock'[d]), NEW h, h = sock'[d][i]
               PROVE  h.cid = d /\ Carried(d, h, i)'
    BY DEF SockInv
  <2>1. ASSUME i \in Heads(sock[d]), h = sock[d][i], ~(d = c /\ (Boot(c) \/ Connect(c)))
        PROVE  h.cid = d /\ Carried(d, h, i)'
    <3>1. h \in Header
      BY <2>1 DEF Heads
    <3>2. i \in Nat /\ i <= Len(sock[d])
      BY <1>0, <2>1 DEF Heads, NetworkTypes
    <3>3. h.cid = d /\ Carried(d, h, i)
      BY <2>1, <3>1 DEF SockInv
    <3> QED BY <1>2, <2>1, <3>1, <3>2, <3>3
  <2>2. CASE d = c /\ (Boot(c) \/ Connect(c))
    <3>1. sock'[d] = <<>> /\ DOMAIN sock'[d] = {}
      BY <2>2, NoneYet
    <3> QED BY <3>1 DEF Heads
  <2>3. CASE sock'[d] = sock[d] /\ ~(d = c /\ (Boot(c) \/ Connect(c)))
    BY <2>1, <2>3
  <2>4. ASSUME NEW x, d = c, Sends(c, x), ~(Boot(c) \/ Connect(c))
        PROVE  h.cid = d /\ Carried(d, h, i)'
    <3>1. \/ i \in Heads(sock[c]) /\ sock'[c][i] = sock[c][i]
          \/ i = Len(sock[c]) + 1 /\ sock'[c][i] = x /\ pc[c] = "header"
      BY <2>4, SendsIs
    <3>2. CASE i = Len(sock[c]) + 1 /\ sock'[c][i] = x /\ pc[c] = "header"
      <4>1. x \in Header /\ x.cid = c /\ i = Len(sock'[c]) /\ Len(sock'[c]) \in Nat /\ h = x
        BY <2>4, <3>2, SendsIs
      <4>2. Carried(c, x, i)'
        BY <2>4, <3>2, <4>1, NewCarried
      <4> QED BY <2>4, <3>2, <4>1, <4>2
    <3> QED BY <2>1, <2>4, <3>1, <3>2
  <2>5. \A x : Sends(c, x) => ~(Boot(c) \/ Connect(c))
    BY <1>0 DEF Sends, Boot, Connect, Step, ComputerTypes
  <2>6. CASE d # c
    BY <2>3, <2>6, Alone
  <2>7. CASE d = c
    BY <2>2, <2>3, <2>4, <2>5, <2>7, Sending1
  <2> QED BY <2>6, <2>7
<1>4. HandInv'
  <2> SUFFICES ASSUME NEW k \in Comm
               PROVE  /\ comm[k].pc \in {"text", "put"} => comm[k].msg.cid = comm[k].conn
                      /\ comm[k].pc = "text" => Carried(comm[k].conn, comm[k].msg, 0)'
                      /\ IF comm[k].pc = "put" THEN Received(comm[k].msg, comm[k].text)'
                                               ELSE comm[k].text = <<>>
    BY <1>1 DEF HandInv
  <2>1. CASE comm[k].pc \in {"text", "put"}
    <3>1. PICK d \in CID : d = comm[k].conn
      BY <1>0, <2>1, Serving
    <3>2. PICK h \in Header : h = comm[k].msg
      BY <1>0, <2>1 DEF ServerTypes
    <3>3. ~(d = c /\ (Boot(c) \/ Connect(c))) /\ h.cid = d
      BY <2>1, <3>1, <3>2, NoneYet DEF HandInv
    <3>4. comm[k].pc = "text" => Carried(d, h, 0)'
      <4>1. 0 \in Nat /\ 0 <= Len(sock[d])
        BY <1>0 DEF NetworkTypes
      <4> QED BY <1>2, <3>1, <3>2, <3>3, <4>1 DEF HandInv
    <3>5. comm[k].pc = "put" => Received(h, comm[k].text)'
      <4>1. run'[d] = run[d]
        <5>1. CASE d # c
          BY <5>1, Alone
        <5>2. CASE d = c
          <6>1. ASSUME NEW x, Sends(c, x) PROVE run'[c] = run[c]
            BY <6>1 DEF Sends
          <6> QED BY <3>3, <5>2, <6>1, Sending1 DEF Keeps
        <5> QED BY <5>1, <5>2
      <4>2. PICK text : text = comm[k].text
        OBVIOUS
      <4>3. comm[k].pc = "put" => Received(h, text)
        BY <3>2, <4>2 DEF HandInv
      <4>4. comm[k].pc = "put" => Received(h, text)'
        BY <1>1, <3>3, <4>1, <4>3, ReceivedStays
      <4> QED BY <1>1, <4>2, <4>4
    <3>6. comm'[k].conn = d /\ comm'[k].msg = h /\ comm[k].pc # "put" => comm[k].text = <<>>
      BY <1>1, <3>1, <3>2 DEF HandInv
    <3> QED BY <1>1, <2>1, <3>1, <3>2, <3>3, <3>4, <3>5 DEF HandInv
  <2>2. CASE comm[k].pc \notin {"text", "put"}
    BY <2>2 DEF HandInv
  <2> QED BY <2>1, <2>2
<1>5. QueueInv'
  <2>1. ASSUME NEW k \in Comm, NEW i \in DOMAIN queue[k]
        PROVE  Id(queue[k][i]) \in DOMAIN pspool /\ Received(queue[k][i], pspool[Id(queue[k][i])])'
    <3>1. PICK h \in Header : h = queue[k][i]
      BY <1>0 DEF ServerTypes
    <3>2. PICK text : text = pspool[Id(h)]
      OBVIOUS
    <3>3. Id(h) \in DOMAIN pspool /\ Received(h, text)
      BY <3>1, <3>2 DEF QueueInv
    <3>4. h.cid \in CID
      BY HeaderFacts
    <3>5. run'[h.cid] = run[h.cid]
      <4>1. CASE Boot(c)
        <5>1. h.cid # c
          BY <3>1, <4>1, NoneYet
        <5> QED BY <3>4, <5>1, Alone
      <4>2. CASE ~Boot(c)
        <5>1. CASE InitSpool(c) /\ ~Down(c)
          BY <5>1 DEF InitSpool
        <5>2. CASE SpoolLine(c)
          BY <5>2 DEF SpoolLine, computer
        <5> QED BY <4>2, <5>1, <5>2, QuietStep
      <4> QED BY <4>1, <4>2
    <3>6. Received(h, text)'
      BY <1>1, <3>3, <3>5, ReceivedStays
    <3>7. queue'[k][i] = h /\ pspool'[Id(h)'] = text /\ Id(h)' = Id(h)
      BY <1>1, <3>1, <3>2 DEF Id
    <3> QED BY <1>1, <3>1, <3>2, <3>3, <3>6, <3>7
  <2> QED BY <1>1, <2>1 DEF QueueInv, Id
<1> QED BY <1>3, <1>4, <1>5
-----------------------------------------------------------------------------
(* What a step of communicator k does, with its connection c and message h.*)
(* Sequence q is what stays of s when n cells are read.                    *)
Read(s, q, n) == /\ s \in Seq(Header \union Cell) /\ q \in Seq(Header \union Cell) /\ n \in Nat
                 /\ Len(s) = Len(q) + n /\ \A j \in 1 .. Len(q) : q[j] = s[j + n]

Serve(c, k) ==
  /\ c \in CID /\ c = comm[k].conn /\ comm'[k].conn \in {c, None}
  /\ \A j \in Comm : j # k => comm'[j] = comm[j] /\ comm[j].conn # c
  /\ \A d \in CID : d # c => sock'[d] = sock[d] /\ link'[d] = link[d]

HeaderRead(c, k) ==
  /\ Serve(c, k) /\ comm[k].pc = "header" /\ UNCHANGED <<disk, computer, waiting, queue, starts, history>>
  /\ \/ /\ Read(sock[c], sock'[c], 1) /\ link' = link
        /\ \/ /\ sock[c][1] \in Header /\ comm'[k].msg = sock[c][1] /\ comm'[k].pc = "text"
              /\ comm'[k].conn = c /\ comm'[k].text = comm[k].text /\ UNCHANGED printer
           \/ sock[c][1] \in Cell /\ UNCHANGED comm /\ printer' = "garbled"
     \/ /\ UNCHANGED <<sock, printer>> /\ link[c] = "closed" /\ link'[c] = "none"
        /\ comm'[k] = Free

LEMMA HeaderIs ==
  ASSUME Types, LinkInv, NEW k \in Comm, ReadHeader(k)
  PROVE  \E c \in CID : HeaderRead(c, k)
<1>0. NetworkTypes /\ ServerTypes
  BY DEF Types
<1>1. PICK c \in CID : c = comm[k].conn
  BY <1>0, Serving DEF ReadHeader
<1>2. comm[k].pc = "header" /\ UNCHANGED <<disk, computer, waiting, queue, starts, history>>
  BY DEF ReadHeader
<1>3. \A j \in Comm : j # k => comm[j].conn # c
  BY <1>1, Constants DEF LinkInv, ServedOnce
<1>4. CASE sock[c] # <<>> /\ sock' = [sock EXCEPT ![c] = Tail(@)]
  <2>1. PICK s \in Seq(Header \union Cell) : s = sock[c]
    BY <1>0 DEF NetworkTypes
  <2>2. sock'[c] = Tail(s) /\ s # <<>> /\ Head(s) = s[1] /\ s[1] \in Header \union Cell
    BY <1>0, <1>4, <2>1 DEF NetworkTypes
  <2>3. Read(s, Tail(s), 1)
    BY <2>2 DEF Read
  <2>4. UNCHANGED link
    BY <1>1, <1>4 DEF ReadHeader
  <2>5. \A d \in CID : d # c => sock'[d] = sock[d]
    BY <1>0, <1>4 DEF NetworkTypes
  <2>6. CASE s[1] \in Header
    <3>1. comm' = [comm EXCEPT ![k].msg = s[1], ![k].pc = "text"] /\ UNCHANGED printer
      BY <1>1, <1>4, <2>1, <2>2, <2>6, HeaderFacts DEF ReadHeader
    <3>2. /\ comm'[k].msg = s[1] /\ comm'[k].pc = "text" /\ comm'[k].conn = c
          /\ comm'[k].text = comm[k].text /\ \A j \in Comm : j # k => comm'[j] = comm[j]
      BY <1>0, <1>1, <3>1 DEF ServerTypes, Communicator
    <3> QED BY <1>1, <1>2, <1>3, <2>1, <2>2, <2>3, <2>4, <2>5, <2>6, <3>1, <3>2 DEF HeaderRead,
                                                                                    Serve
  <2>7. CASE s[1] \in Cell
    <3>1. UNCHANGED comm /\ printer' = "garbled"
      BY <1>1, <1>4, <2>1, <2>2, <2>7, HeaderFacts DEF ReadHeader
    <3> QED BY <1>1, <1>2, <1>3, <2>1, <2>2, <2>3, <2>4, <2>5, <2>7, <3>1 DEF HeaderRead, Serve
  <2> QED BY <2>2, <2>6, <2>7
<1>5. CASE /\ sock[c] = <<>> /\ link[c] = "closed" /\ link' = [link EXCEPT ![c] = "none"]
           /\ comm' = [comm EXCEPT ![k] = Free] /\ UNCHANGED <<sock, printer>>
  <2>1. link'[c] = "none" /\ \A d \in CID : d # c => link'[d] = link[d]
    BY <1>0, <1>5 DEF NetworkTypes
  <2>2. comm'[k] = Free /\ \A j \in Comm : j # k => comm'[j] = comm[j]
    BY <1>0, <1>5 DEF ServerTypes
  <2> QED BY <1>1, <1>2, <1>3, <1>5, <2>1, <2>2 DEF HeaderRead, Serve, Free
<1> QED BY <1>1, <1>4, <1>5 DEF ReadHeader

TextRead(c, k, h, n, text) ==
  /\ Serve(c, k) /\ comm[k].pc = "text" /\ h \in Header /\ comm[k].msg = h
  /\ UNCHANGED <<disk, computer, link, waiting, queue, printer, starts, history>>
  /\ Read(sock[c], sock'[c], n) /\ n <= h.size /\ (n = h.size \/ sock'[c] = <<>>)
  /\ h.size = 0 \/ n # 0 \/ link[c] = "closed"
  /\ text = [i \in 1 .. h.size |-> IF i <= n THEN sock[c][i] ELSE Junk]
  /\ comm'[k].conn = c /\ comm'[k].msg = h /\ comm'[k].pc = "put" /\ comm'[k].text = text

LEMMA TextIs ==
  ASSUME Types, LinkInv, NEW k \in Comm, ReadText(k)
  PROVE  \E c \in CID, h \in Header, n \in Nat : \E text : TextRead(c, k, h, n, text)
<1>0. NetworkTypes /\ ServerTypes
  BY DEF Types
<1>1. PICK c \in CID : c = comm[k].conn
  BY <1>0, Serving DEF ReadText
<1>2. PICK h \in Header : h = comm[k].msg
  BY <1>0 DEF ReadText, ServerTypes
<1>3. PICK s \in Seq(Header \union Cell) : s = sock[c]
  BY <1>0 DEF NetworkTypes
<1>4. h.size \in Nat /\ Len(s) \in Nat
  BY HeaderFacts
<1>5. PICK n \in Nat : n = IF Len(s) < h.size THEN Len(s) ELSE h.size
  BY <1>4
<1>6. PICK text : text = [i \in 1 .. h.size |-> IF i <= n THEN s[i] ELSE Junk]
  OBVIOUS
<1>7. /\ comm[k].pc = "text" /\ (h.size = 0 \/ s # <<>> \/ link[c] = "closed")
      /\ comm' = [comm EXCEPT ![k].text = text, ![k].pc = "put"]
      /\ sock' = [sock EXCEPT ![c] = SubSeq(@, n + 1, Len(@))]
      /\ UNCHANGED <<disk, computer, link, waiting, queue, printer, starts, history>>
  BY <1>1, <1>2, <1>3, <1>5, <1>6 DEF ReadText
<1>8. sock'[c] = SubSeq(s, n + 1, Len(s)) /\ \A d \in CID : d # c => sock'[d] = sock[d]
  BY <1>0, <1>3, <1>7 DEF NetworkTypes
<1>9. Read(s, SubSeq(s, n + 1, Len(s)), n) /\ (n = h.size \/ SubSeq(s, n + 1, Len(s)) = <<>>)
  <2>1. n <= Len(s) /\ n <= h.size /\ (n = h.size \/ n = Len(s))
    BY <1>4, <1>5
  <2>2. /\ SubSeq(s, n + 1, Len(s)) \in Seq(Header \union Cell)
        /\ Len(s) = Len(SubSeq(s, n + 1, Len(s))) + n
        /\ \A j \in 1 .. Len(SubSeq(s, n + 1, Len(s))) : SubSeq(s, n + 1, Len(s))[j] = s[j + n]
    BY <2>1
  <2>3. n = Len(s) => SubSeq(s, n + 1, Len(s)) = <<>>
    OBVIOUS
  <2> QED BY <2>1, <2>2, <2>3 DEF Read
<1>10. n <= h.size /\ (s # <<>> /\ h.size # 0 => n # 0)
  BY <1>4, <1>5
<1>11. /\ comm'[k].conn = c /\ comm'[k].msg = h /\ comm'[k].pc = "put" /\ comm'[k].text = text
       /\ \A j \in Comm : j # k => comm'[j] = comm[j]
  BY <1>0, <1>1, <1>2, <1>7 DEF ServerTypes, Communicator
<1>12. \A j \in Comm : j # k => comm[j].conn # c
  BY <1>1, Constants DEF LinkInv, ServedOnce
<1>13. Serve(c, k)
  BY <1>1, <1>7, <1>8, <1>11, <1>12 DEF Serve
<1>14. Read(sock[c], sock'[c], n) /\ (n = h.size \/ sock'[c] = <<>>)
  BY <1>3, <1>8, <1>9
<1>15. text = [i \in 1 .. h.size |-> IF i <= n THEN sock[c][i] ELSE Junk]
  BY <1>3, <1>6
<1>16. h.size = 0 \/ n # 0 \/ link[c] = "closed"
  BY <1>7, <1>10
<1>17. TextRead(c, k, h, n, text)
  BY <1>2, <1>7, <1>10, <1>11, <1>13, <1>14, <1>15, <1>16 DEF TextRead
<1> QED BY <1>17

MessagePut(c, k, h) ==
  /\ Serve(c, k) /\ comm[k].pc = "put" /\ h \in Header /\ comm[k].msg = h /\ comm'[k].conn = c
  /\ UNCHANGED <<spool, paper, computer, network, printer, starts, history>>
  /\ pspool' = With(pspool, Id(h), comm[k].text)
  /\ queue'[k] = Append(queue[k], h) /\ \A j \in Comm : j # k => queue'[j] = queue[j]
  /\ comm'[k].pc = "header" /\ comm'[k].text = <<>>

LEMMA PutIs ==
  ASSUME Types, LinkInv, NEW k \in Comm, Put(k)
  PROVE  \E c \in CID, h \in Header : MessagePut(c, k, h)
<1>0. NetworkTypes /\ ServerTypes
  BY DEF Types
<1>1. PICK c \in CID : c = comm[k].conn
  BY <1>0, Serving DEF Put
<1>2. PICK h \in Header : h = comm[k].msg
  BY <1>0 DEF Put, ServerTypes
<1>3. /\ comm[k].pc = "put" /\ pspool' = With(pspool, Id(h), comm[k].text)
      /\ queue' = [queue EXCEPT ![k] = Append(@, h)]
      /\ comm' = [comm EXCEPT ![k] = [@ EXCEPT !.pc = "header", !.msg = None, !.text = <<>>]]
      /\ UNCHANGED <<spool, paper, computer, network, printer, starts, history>>
  BY <1>2 DEF Put, Id
<1>4. queue'[k] = Append(queue[k], h) /\ \A j \in Comm : j # k => queue'[j] = queue[j]
  BY <1>0, <1>3 DEF ServerTypes
<1>5. comm'[k] = [comm[k] EXCEPT !.pc = "header", !.msg = None, !.text = <<>>]
      /\ \A j \in Comm : j # k => comm'[j] = comm[j]
  BY <1>0, <1>3 DEF ServerTypes
<1>6. comm'[k].pc = "header" /\ comm'[k].text = <<>> /\ comm'[k].conn = c
  BY <1>0, <1>1, <1>5 DEF ServerTypes, Communicator
<1>7. \A j \in Comm : j # k => comm[j].conn # c
  BY <1>1, Constants DEF LinkInv, ServedOnce
<1> QED BY <1>1, <1>2, <1>3, <1>4, <1>5, <1>6, <1>7 DEF MessagePut, Serve, network

LEMMA WinIs ==
  ASSUME Types, NEW k \in Comm, Win(k)
  PROVE  /\ UNCHANGED <<disk, computer, link, sock, queue, printer, starts, history>>
         /\ comm[k].pc = "idle" /\ comm'[k].pc = "header" /\ comm'[k].text = <<>>
         /\ \A j \in Comm : j # k => comm'[j] = comm[j]
BY DEF Win, Types, ServerTypes

Printed(k, h, e) ==
  /\ h \in Header /\ queue[k] # <<>> /\ h = Head(queue[k]) /\ printer \in {"up", "garbled"}
  /\ e = [cid |-> h.cid, pid |-> h.pid, type |-> h.type, text |-> pspool[Id(h)]]
  /\ paper' = Append(paper, e) /\ pspool' = Without(pspool, Id(h))
  /\ queue'[k] = Tail(queue[k]) /\ \A j \in Comm : j # k => queue'[j] = queue[j]
  /\ UNCHANGED <<spool, computer, network, comm, printer, starts, history>>

LEMMA PageIs ==
  ASSUME Types, LinkInv, Pages
  PROVE  \E k \in Comm, h \in Header : \E e : Printed(k, h, e)
<1>0. NetworkTypes /\ ServerTypes
  BY DEF Types
<1>1. PICK k \in Comm : Page(k)
  BY DEF Pages
<1>2. queue[k] # <<>> /\ queue[k] \in Seq(Header)
  BY <1>0, <1>1 DEF Page, ServerTypes
<1>3. PICK h \in Header : h = Head(queue[k])
  BY <1>2
<1>4. PICK e : e = [cid |-> h.cid, pid |-> h.pid, type |-> h.type, text |-> pspool[Id(h)]]
  OBVIOUS
<1>5. /\ paper' = Append(paper, e) /\ pspool' = Without(pspool, Id(h))
      /\ queue' = [queue EXCEPT ![k] = Tail(@)]
      /\ UNCHANGED <<spool, computer, network, comm, printer, starts, history>>
  BY <1>1, <1>3, <1>4 DEF Page, Id
<1>6. queue'[k] = Tail(queue[k]) /\ \A j \in Comm : j # k => queue'[j] = queue[j]
  BY <1>0, <1>5 DEF ServerTypes
<1>7. printer \in {"up", "garbled"}
  BY <1>2 DEF LinkInv, PrinterInv
<1> QED BY <1>2, <1>3, <1>4, <1>5, <1>6, <1>7 DEF Printed
-----------------------------------------------------------------------------
(* A step of the printer keeps what it is sent.                            *)
LEMMA ServerKeeps ==
  ASSUME Types, FilesInv, NEW d \in CID, UNCHANGED <<computer, severed>>,
         spool' = spool \/ spool = NoFiles,
         link'[d] = link[d] \/ (link[d] # "open" /\ link'[d] # "open")
  PROVE  Keeps(d)
<1>1. pc[d] = "text" => spool' = spool
  <2>1. spool = NoFiles => Files = {}
    BY EmptyDir DEF Files
  <2> QED BY <2>1 DEF FilesInv, FilesOf
<1>2. File(d)' = File(d)
  BY DEF File, computer
<1> QED BY <1>1, <1>2 DEF Keeps, computer

LEMMA Unread ==
  ASSUME Types, FilesInv, LivesInv, [Next]_vars, NEW d \in CID, NEW h \in Header, h.cid = d,
         NEW i \in Nat, Carried(d, h, i), Keeps(d), sock'[d] = sock[d]
  PROVE  Carried(d, h, i)'
<1>1. PICK s \in Seq(Header \union Cell) : s = sock[d]
  BY DEF Types, NetworkTypes
<1>2. 0 \in Nat /\ 0 <= i /\ i - 0 = i /\ Len(s) = Len(s) + 0 /\ \A j \in 1 .. Len(s) : s[j] = s[j + 0]
  BY <1>1
<1>3. Carried(d, h, i - 0)'
  BY <1>1, <1>2, CarriedStays
<1> QED BY <1>2, <1>3

(* What is in a socket after a read.                                       *)
LEMMA SockRead ==
  ASSUME Types, FilesInv, LivesInv, SockInv, [Next]_vars, NEW c \in CID, Keeps(c), NEW n,
         Read(sock[c], sock'[c], n), NEW i \in Heads(sock'[c])
  PROVE  /\ i + n \in Heads(sock[c]) /\ sock'[c][i] = sock[c][i + n]
         /\ sock'[c][i].cid = c /\ \A h : h = sock'[c][i] => Carried(c, h, i)'
<1>1. PICK s, q : s = sock[c] /\ q = sock'[c]
  OBVIOUS
<1>2. Read(s, q, n) /\ i \in Heads(q)
  BY <1>1
<1>3. /\ s \in Seq(Header \union Cell) /\ q \in Seq(Header \union Cell) /\ n \in Nat
      /\ Len(s) = Len(q) + n /\ \A j \in 1 .. Len(q) : q[j] = s[j + n]
  BY <1>2 DEF Read
<1>4. i \in 1 .. Len(q) /\ q[i] \in Header
  BY <1>2, <1>3 DEF Heads
<1>5. i \in Nat /\ i + n \in 1 .. Len(s) /\ q[i] = s[i + n]
  BY <1>3, <1>4
<1>6. i + n \in Heads(s)
  BY <1>3, <1>4, <1>5 DEF Heads
<1>7. PICK h \in Header : h = q[i] /\ h = s[i + n]
  BY <1>4, <1>5
<1>8. h.cid = c /\ Carried(c, h, i + n)
  BY <1>1, <1>6, <1>7 DEF SockInv
<1>9. i + n \in Nat /\ n <= i + n /\ (i + n) - n = i
  BY <1>3, <1>5
<1>10. Carried(c, h, (i + n) - n)'
  BY <1>1, <1>3, <1>8, <1>9, CarriedStays
<1> QED BY <1>1, <1>6, <1>7, <1>8, <1>9, <1>10

(* The other connections, and the other communicators, when k serves c.    *)
LEMMA Others ==
  ASSUME Types, FilesInv, LinkInv, LivesInv, SockInv, HandInv, [Next]_vars,
         NEW c, NEW k \in Comm, Serve(c, k), UNCHANGED <<computer, severed, spool>>
  PROVE  /\ \A d \in CID : d # c => Keeps(d)
         /\ \A d \in CID : \A i \in Heads(sock'[d]) :
              d # c => /\ i \in Heads(sock[d]) /\ sock'[d][i] = sock[d][i]
                       /\ sock'[d][i].cid = d /\ \A h : h = sock'[d][i] => Carried(d, h, i)'
         /\ \A j \in Comm : j # k =>
              /\ comm[j].pc \in {"text", "put"} => comm[j].msg.cid = comm[j].conn
              /\ comm[j].pc = "text" =>
                   \A d, h : d = comm[j].conn /\ h = comm[j].msg => Carried(d, h, 0)'
              /\ \A h, text : comm[j].pc = "put" /\ h = comm[j].msg /\ text = comm[j].text
                              => Received(h, text)'
              /\ comm[j].pc # "put" => comm[j].text = <<>>
<1>0. NetworkTypes /\ ServerTypes
  BY DEF Types
<1>1. ASSUME NEW d \in CID, d # c PROVE Keeps(d)
  BY <1>1, ServerKeeps DEF Serve
<1>2. ASSUME NEW d \in CID, NEW i \in Heads(sock'[d]), d # c
      PROVE  /\ i \in Heads(sock[d]) /\ sock'[d][i] = sock[d][i]
             /\ sock'[d][i].cid = d /\ \A h : h = sock'[d][i] => Carried(d, h, i)'
  <2>1. sock'[d] = sock[d]
    BY <1>2 DEF Serve
  <2>2. i \in Heads(sock[d])
    BY <2>1
  <2>3. PICK h \in Header : h = sock[d][i]
    BY <2>2 DEF Heads
  <2>4. i \in Nat
    BY <1>0, <2>2 DEF Heads, NetworkTypes
  <2>5. h.cid = d /\ Carried(d, h, i)
    BY <2>2, <2>3 DEF SockInv
  <2>6. Carried(d, h, i)'
    BY <1>1, <1>2, <2>1, <2>4, <2>5, Unread
  <2> QED BY <2>1, <2>2, <2>3, <2>5, <2>6
<1>3. ASSUME NEW j \in Comm, j # k
      PROVE  /\ comm[j].pc \in {"text", "put"} => comm[j].msg.cid = comm[j].conn
             /\ comm[j].pc = "text" =>
                  \A d, h : d = comm[j].conn /\ h = comm[j].msg => Carried(d, h, 0)'
             /\ \A h, text : comm[j].pc = "put" /\ h = comm[j].msg /\ text = comm[j].text
                             => Received(h, text)'
             /\ comm[j].pc # "put" => comm[j].text = <<>>
  <2>1. ASSUME comm[j].pc = "text", NEW d, NEW h, d = comm[j].conn, h = comm[j].msg
        PROVE  Carried(d, h, 0)'
    <3>1. d \in CID /\ h \in Header
      BY <1>0, <2>1, Serving DEF ServerTypes
    <3>2. d # c
      BY <1>3, <2>1 DEF Serve
    <3>3. h.cid = d /\ Carried(d, h, 0) /\ 0 \in Nat
      BY <2>1 DEF HandInv
    <3> QED BY <1>1, <3>1, <3>2, <3>3, Unread DEF Serve
  <2>2. ASSUME comm[j].pc = "put", NEW h, NEW text, h = comm[j].msg, text = comm[j].text
        PROVE  Received(h, text)'
    <3>1. Received(h, text)
      BY <2>2 DEF HandInv
    <3> QED BY <3>1, ReceivedStays DEF computer
  <2> QED BY <2>1, <2>2 DEF HandInv
<1> QED BY <1>1, <1>2, <1>3

LEMMA QueueSame ==
  ASSUME Types, FilesInv, LivesInv, QueueInv, [Next]_vars, UNCHANGED <<computer, severed>>,
         NEW k \in Comm, NEW i \in DOMAIN queue[k], NEW h, h = queue[k][i],
         NEW text, text = pspool[Id(h)]
  PROVE  Id(h) \in DOMAIN pspool /\ Received(h, text)'
<1>1. Id(h) \in DOMAIN pspool /\ Received(h, text)
  BY DEF QueueInv
<1> QED BY <1>1, ReceivedStays DEF computer

LEMMA MessagesHeader ==
  ASSUME Types, FilesInv, LinkInv, LivesInv, SockInv, HandInv, QueueInv, [Next]_vars,
         NEW c, NEW k \in Comm, HeaderRead(c, k)
  PROVE  SockInv' /\ HandInv' /\ QueueInv'
<1>0. NetworkTypes /\ ServerTypes
  BY DEF Types
<1>1. /\ Serve(c, k) /\ comm[k].pc = "header" /\ UNCHANGED <<pspool, queue>> /\ c \in CID
      /\ UNCHANGED <<computer, severed, spool>>
  BY DEF HeaderRead, Serve, history, disk
<1>2. Keeps(c)
  BY <1>1, ServerKeeps DEF HeaderRead
<1>3. SockInv'
  <2> SUFFICES ASSUME NEW d \in CID, NEW i \in Heads(sock'[d]), NEW h, h = sock'[d][i]
               PROVE  h.cid = d /\ Carried(d, h, i)'
    BY DEF SockInv
  <2>1. CASE d # c
    BY <1>1, <2>1, Others
  <2>2. CASE d = c /\ Read(sock[c], sock'[c], 1)
    BY <1>1, <1>2, <2>2, SockRead
  <2>3. CASE d = c /\ sock' = sock
    <3>1. i \in Heads(sock[d]) /\ h = sock[d][i] /\ h \in Header /\ i \in Nat
      BY <1>0, <2>3 DEF Heads, NetworkTypes
    <3>2. h.cid = d /\ Carried(d, h, i)
      BY <3>1 DEF SockInv
    <3> QED BY <1>2, <2>3, <3>1, <3>2, Unread
  <2> QED BY <2>1, <2>2, <2>3 DEF HeaderRead
<1>4. HandInv'
  <2> SUFFICES ASSUME NEW j \in Comm, NEW d, d = comm'[j].conn, NEW h, h = comm'[j].msg,
                      NEW text, text = comm'[j].text
               PROVE  /\ comm'[j].pc \in {"text", "put"} => h.cid = d
                      /\ comm'[j].pc = "text" => Carried(d, h, 0)'
                      /\ comm'[j].pc = "put" => Received(h, text)'
                      /\ comm'[j].pc # "put" => text = <<>>
    BY DEF HandInv
  <2>1. CASE j # k
    <3>1. comm'[j] = comm[j]
      BY <1>1, <2>1 DEF Serve
    <3> QED BY <1>1, <2>1, <3>1, Others
  <2>2. CASE j = k /\ comm'[k].pc = "text"
    <3>1. /\ Read(sock[c], sock'[c], 1) /\ sock[c][1] \in Header /\ h = sock[c][1]
          /\ d = c /\ text = comm[k].text
      BY <1>1, <2>2 DEF HeaderRead, Free
    <3>2. PICK s, q : s = sock[c] /\ q = sock'[c]
      OBVIOUS
    <3>3. /\ s \in Seq(Header \union Cell) /\ q \in Seq(Header \union Cell)
          /\ Len(s) = Len(q) + 1 /\ \A i \in 1 .. Len(q) : q[i] = s[i + 1]
      BY <3>1, <3>2 DEF Read
    <3>4. 1 \in Heads(s)
      BY <3>1, <3>2, <3>3 DEF Heads
    <3>5. h.cid = c /\ Carried(c, h, 1)
      BY <1>1, <3>1, <3>2, <3>4 DEF SockInv
    <3>6. 1 \in Nat /\ 1 <= 1 /\ 1 - 1 = 0
      OBVIOUS
    <3>7. Carried(c, h, 1 - 1)'
      BY <1>1, <1>2, <3>1, <3>2, <3>3, <3>5, <3>6, CarriedStays
    <3>8. text = <<>>
      BY <1>1, <3>1 DEF HandInv
    <3> QED BY <2>2, <3>1, <3>5, <3>6, <3>7, <3>8
  <2>3. CASE j = k /\ comm'[k].pc # "text"
    <3>1. comm'[k] = comm[k] \/ comm'[k] = Free
      BY <2>3 DEF HeaderRead
    <3>2. comm'[k].pc \notin {"text", "put"} /\ text = <<>>
      BY <1>1, <2>3, <3>1 DEF Free, HandInv
    <3> QED BY <2>3, <3>2
  <2> QED BY <2>1, <2>2, <2>3
<1>5. QueueInv'
  <2>1. printer' \in {"up", "garbled"} => printer \in {"up", "garbled"}
    BY <1>0, <1>1, Serving
  <2>2. ASSUME NEW j \in Comm, NEW i \in DOMAIN queue[j], NEW h, h = queue[j][i],
               NEW text, text = pspool[Id(h)]
        PROVE  Id(h) \in DOMAIN pspool /\ Received(h, text)'
    BY <1>1, <2>2, QueueSame
  <2> QED BY <1>1, <2>1, <2>2 DEF QueueInv, Id
<1> QED BY <1>3, <1>4, <1>5

(* A text is no longer than MaxText.                                       *)
LEMMA TextLength ==
  ASSUME DiskTypes, LivesInv, NEW life \in DOMAIN printed
  PROVE  /\ printed[life] \in Seq(Cell) /\ Len(printed[life]) \in Nat
         /\ Len(printed[life]) <= MaxText
<1>1. PICK t \in Seq(Cell) : t = printed[life]
  BY DEF DiskTypes
<1>2. Len(t) \in Nat /\ (Len(t) # 0 => Len(t) \in DOMAIN t)
  OBVIOUS
<1>3. CASE Len(t) # 0
  <2>1. t[Len(t)] = CellOf(life, Len(t)) /\ t[Len(t)] \in Cell
    BY <1>1, <1>2, <1>3 DEF LivesInv, LifeOk
  <2>2. t[Len(t)].n \in 1 .. MaxText
    BY <2>1 DEF Cell
  <2>3. t[Len(t)].n = Len(t)
    BY <2>1 DEF CellOf
  <2> QED BY <1>1, <1>2, <2>2, <2>3, Constants
<1> QED BY <1>1, <1>2, <1>3, Constants

LEMMA TextReceived ==
  ASSUME Types, FilesInv, LinkInv, LivesInv, HandInv, [Next]_vars, NEW k \in Comm, NEW c,
         NEW h \in Header, NEW n \in Nat, NEW text, TextRead(c, k, h, n, text)
  PROVE  Received(h, text)'
<1>1. c = comm[k].conn /\ comm[k].pc = "text" /\ h = comm[k].msg
  BY DEF TextRead, Serve
<1>2. Carried(c, h, 0) /\ h.cid = c
  BY <1>1 DEF HandInv
<1>3. PICK r \in Run :
        LET t == printed[Life(h, r)] IN
          /\ Whole(h, r)
          /\ \A j \in 1 .. h.size : 0 + j <= Len(sock[c]) => sock[c][0 + j] = t[j]
          /\ 0 + h.size > Len(sock[c]) =>
               IF link[c] = "open"
                 THEN /\ pc[c] = "text" /\ Id(h) = File(c) /\ t = spool[File(c)]
                      /\ 0 + sentCells[c] = Len(sock[c])
                 ELSE Id(h) \in severed
  BY <1>2 DEF Carried
<1>4. PICK t : t = printed[Life(h, r)]
  OBVIOUS
<1>5. h.size \in Nat /\ Len(t) = h.size /\ t \in Seq(Cell) /\ h.size <= MaxText
  BY <1>3, <1>4, TextLength, HeaderFacts DEF Whole, Frozen, Types
<1>6. PICK s, q : s = sock[c] /\ q = sock'[c]
  OBVIOUS
<1>7. /\ Read(s, q, n) /\ n <= h.size /\ (n = h.size \/ q = <<>>)
      /\ h.size = 0 \/ n # 0 \/ link[c] = "closed"
      /\ text = [i \in 1 .. h.size |-> IF i <= n THEN s[i] ELSE Junk]
      /\ UNCHANGED <<computer, severed>>
  BY <1>6 DEF TextRead, history
<1>8. Len(s) = Len(q) + n /\ Len(q) \in Nat /\ Len(s) \in Nat /\ n <= Len(s)
  BY <1>7 DEF Read
<1>9. \A j \in 1 .. h.size : j <= n => s[j] = t[j]
  BY <1>3, <1>4, <1>5, <1>6, <1>8
<1>10. Len(text) = h.size /\ \A j \in 1 .. h.size : text[j] \in {Junk, t[j]}
  <2>1. Len(text) = h.size
    BY <1>5, <1>7
  <2>2. ASSUME NEW j \in 1 .. h.size PROVE text[j] \in {Junk, t[j]}
    <3>1. text[j] = IF j <= n THEN s[j] ELSE Junk
      BY <1>7, <2>2
    <3> QED BY <1>9, <2>2, <3>1
  <2> QED BY <2>1, <2>2
<1>11. ASSUME n = h.size PROVE text = t
  <2>1. text \in Seq(Cell) /\ \A j \in 1 .. h.size : text[j] = t[j]
    BY <1>5, <1>7, <1>9, <1>11
  <2> QED BY <1>5, <1>10, <2>1
<1>12. ASSUME MaxText <= 1 PROVE text = t \/ Id(h) \in severed
  <2>1. CASE n # h.size
    <3>1. q = <<>> /\ Len(q) = 0 /\ n < h.size
      BY <1>5, <1>7, <2>1
    <3>2. n = 0 /\ h.size # 0
      BY <1>5, <1>12, <3>1, Constants
    <3>3. link[c] = "closed" /\ 0 + h.size > Len(s)
      BY <1>5, <1>7, <1>8, <3>1, <3>2
    <3> QED BY <1>3, <1>6, <3>3
  <2> QED BY <1>11, <2>1
<1>13. Received(h, text)
  BY <1>3, <1>4, <1>10, <1>12 DEF Received
<1> QED BY <1>7, <1>13, ReceivedStays DEF computer

LEMMA MessagesText ==
  ASSUME Types, FilesInv, LinkInv, LivesInv, SockInv, HandInv, QueueInv, [Next]_vars,
         NEW k \in Comm, NEW c, NEW h \in Header, NEW n \in Nat, NEW text, TextRead(c, k, h, n,
         text)
  PROVE  SockInv' /\ HandInv' /\ QueueInv'
<1>1. /\ Serve(c, k) /\ comm[k].pc = "text" /\ UNCHANGED <<pspool, queue, printer>> /\ c \in CID
      /\ UNCHANGED <<computer, severed, spool>> /\ c = comm[k].conn /\ h = comm[k].msg
      /\ Read(sock[c], sock'[c], n)
  BY DEF TextRead, Serve, history, disk
<1>2. Keeps(c)
  BY <1>1, ServerKeeps DEF TextRead
<1>3. SockInv'
  <2> SUFFICES ASSUME NEW d \in CID, NEW i \in Heads(sock'[d]), NEW x, x = sock'[d][i]
               PROVE  x.cid = d /\ Carried(d, x, i)'
    BY DEF SockInv
  <2>1. CASE d # c
    BY <1>1, <2>1, Others
  <2>2. CASE d = c
    BY <1>1, <1>2, <2>2, SockRead
  <2> QED BY <2>1, <2>2
<1>4. HandInv'
  <2> SUFFICES ASSUME NEW j \in Comm, NEW d, d = comm'[j].conn, NEW x, x = comm'[j].msg,
                      NEW y, y = comm'[j].text
               PROVE  /\ comm'[j].pc \in {"text", "put"} => x.cid = d
                      /\ comm'[j].pc = "text" => Carried(d, x, 0)'
                      /\ comm'[j].pc = "put" => Received(x, y)'
                      /\ comm'[j].pc # "put" => y = <<>>
    BY DEF HandInv
  <2>1. CASE j # k
    <3>1. comm'[j] = comm[j]
      BY <1>1, <2>1 DEF Serve
    <3> QED BY <1>1, <2>1, <3>1, Others
  <2>2. CASE j = k
    <3>1. d = c /\ x = h /\ y = text /\ comm'[k].pc = "put"
      BY <2>2 DEF TextRead
    <3>2. h.cid = c
      BY <1>1 DEF HandInv
    <3> QED BY <2>2, <3>1, <3>2, TextReceived
  <2> QED BY <2>1, <2>2
<1>5. QueueInv'
  <2>1. ASSUME NEW j \in Comm, NEW i \in DOMAIN queue[j], NEW x, x = queue[j][i],
               NEW y, y = pspool[Id(x)]
        PROVE  Id(x) \in DOMAIN pspool /\ Received(x, y)'
    BY <1>1, <2>1, QueueSame
  <2> QED BY <1>1, <2>1 DEF QueueInv, Id
<1> QED BY <1>3, <1>4, <1>5

LEMMA MessagesPut ==
  ASSUME Types, FilesInv, LinkInv, LivesInv, SockInv, HandInv, QueueInv, ApartInv, [Next]_vars,
         NEW c, NEW k \in Comm, NEW h \in Header, MessagePut(c, k, h)
  PROVE  SockInv' /\ HandInv' /\ QueueInv'
<1>0. ServerTypes
  BY DEF Types
<1>1. /\ Serve(c, k) /\ comm[k].pc = "put" /\ UNCHANGED <<printer, sock, link>> /\ c \in CID
      /\ UNCHANGED <<computer, severed, spool>> /\ c = comm[k].conn /\ h = comm[k].msg
  BY DEF MessagePut, Serve, history, network
<1>2. SockInv'
  <2> SUFFICES ASSUME NEW d \in CID, NEW i \in Heads(sock[d]), NEW x, x = sock[d][i]
               PROVE  x.cid = d /\ Carried(d, x, i)'
    BY <1>1 DEF SockInv
  <2>1. x \in Header /\ i \in Nat
    BY DEF Heads, Types, NetworkTypes
  <2>2. x.cid = d /\ Carried(d, x, i)
    BY DEF SockInv
  <2>3. Keeps(d)
    BY <1>1, ServerKeeps
  <2> QED BY <1>1, <2>1, <2>2, <2>3, Unread
<1>3. HandInv'
  <2> SUFFICES ASSUME NEW j \in Comm, NEW d, d = comm'[j].conn, NEW x, x = comm'[j].msg,
                      NEW y, y = comm'[j].text
               PROVE  /\ comm'[j].pc \in {"text", "put"} => x.cid = d
                      /\ comm'[j].pc = "text" => Carried(d, x, 0)'
                      /\ comm'[j].pc = "put" => Received(x, y)'
                      /\ comm'[j].pc # "put" => y = <<>>
    BY DEF HandInv
  <2>1. CASE j # k
    <3>1. comm'[j] = comm[j]
      BY <1>1, <2>1 DEF Serve
    <3> QED BY <1>1, <2>1, <3>1, Others
  <2>2. CASE j = k
    BY <2>2 DEF MessagePut
  <2> QED BY <2>1, <2>2
<1>4. PICK id, text : id = Id(h) /\ text = comm[k].text
  OBVIOUS
<1>5. /\ pspool' = With(pspool, id, text) /\ queue'[k] = Append(queue[k], h)
      /\ \A j \in Comm : j # k => queue'[j] = queue[j]
  BY <1>4 DEF MessagePut
<1>6. /\ DOMAIN pspool' = DOMAIN pspool \union {id} /\ pspool'[id] = text
      /\ \A f \in DOMAIN pspool : f # id => pspool'[f] = pspool[f]
  BY <1>5 DEF With
<1>7. Received(h, text)'
  <2>1. Received(h, text)
    BY <1>1, <1>4 DEF HandInv
  <2> QED BY <1>1, <2>1, ReceivedStays DEF computer
<1>8. ASSUME NEW j \in Comm, NEW i \in DOMAIN queue[j], NEW x, x = queue[j][i]
      PROVE  Id(x) \in DOMAIN pspool' /\ \A y : y = pspool'[Id(x)] => Received(x, y)'
  <2>1. Id(x) # id
    BY <1>1, <1>4, <1>8 DEF ApartInv
  <2>2. Id(x) \in DOMAIN pspool /\ \A y : y = pspool[Id(x)] => Received(x, y)'
    BY <1>1, <1>8, QueueSame
  <2> QED BY <1>6, <2>1, <2>2
<1>9. /\ DOMAIN queue'[k] = DOMAIN queue[k] \union {Len(queue[k]) + 1}
      /\ queue'[k][Len(queue[k]) + 1] = h
      /\ \A i \in DOMAIN queue[k] : queue'[k][i] = queue[k][i]
  <2>1. PICK s \in Seq(Header) : s = queue[k]
    BY <1>0 DEF ServerTypes
  <2>2. /\ DOMAIN Append(s, h) = DOMAIN s \union {Len(s) + 1} /\ Append(s, h)[Len(s) + 1] = h
        /\ \A i \in DOMAIN s : Append(s, h)[i] = s[i]
    OBVIOUS
  <2> QED BY <1>5, <2>1, <2>2
<1>10. QueueInv'
  <2>1. ASSUME NEW j \in Comm, NEW i \in DOMAIN queue'[j], NEW x, x = queue'[j][i],
               NEW y, y = pspool'[Id(x)]
        PROVE  Id(x) \in DOMAIN pspool' /\ Received(x, y)'
    <3>1. CASE j = k /\ i = Len(queue[k]) + 1
      <4>1. x = h /\ Id(x) = id /\ y = text
        BY <1>4, <1>6, <1>9, <2>1, <3>1
      <4> QED BY <1>6, <1>7, <4>1
    <3>2. CASE ~(j = k /\ i = Len(queue[k]) + 1)
      <4>1. i \in DOMAIN queue[j] /\ x = queue[j][i]
        BY <1>5, <1>9, <2>1, <3>2
      <4> QED BY <1>8, <2>1, <4>1
    <3> QED BY <3>1, <3>2
  <2>2. ASSUME printer' \in {"up", "garbled"}, NEW f \in DOMAIN pspool'
        PROVE  \E j \in Comm : \E i \in DOMAIN queue'[j] : Id(queue'[j][i]) = f
    <3>1. CASE f = id
      BY <1>4, <1>9, <3>1
    <3>2. CASE f # id
      <4>1. PICK j \in Comm : \E i \in DOMAIN queue[j] : Id(queue[j][i]) = f
        BY <1>1, <1>6, <2>2, <3>2 DEF QueueInv
      <4>2. PICK i \in DOMAIN queue[j] : Id(queue[j][i]) = f
        BY <4>1
      <4>3. i \in DOMAIN queue'[j] /\ queue'[j][i] = queue[j][i]
        BY <1>5, <1>9, <4>2
      <4> QED BY <4>2, <4>3
    <3> QED BY <3>1, <3>2
  <2> QED BY <2>1, <2>2 DEF QueueInv, Id
<1> QED BY <1>2, <1>3, <1>10

(* When nothing is read or sent.                                           *)
LEMMA Undisturbed ==
  ASSUME Types, FilesInv, LinkInv, LivesInv, SockInv, HandInv, [Next]_vars,
         UNCHANGED <<computer, severed, sock, link>>, spool' = spool \/ spool = NoFiles
  PROVE  /\ SockInv'
         /\ \A k \in Comm :
              /\ comm[k].pc = "text" =>
                   \A d, h : d = comm[k].conn /\ h = comm[k].msg => Carried(d, h, 0)'
              /\ \A h, text : comm[k].pc = "put" /\ h = comm[k].msg /\ text = comm[k].text
                              => Received(h, text)'
<1>0. NetworkTypes /\ ServerTypes
  BY DEF Types
<1>1. ASSUME NEW d \in CID, NEW h \in Header, h.cid = d, NEW i \in Nat, Carried(d, h, i)
      PROVE  Carried(d, h, i)'
  <2>1. Keeps(d)
    BY ServerKeeps
  <2> QED BY <1>1, <2>1, Unread
<1>2. SockInv'
  <2> SUFFICES ASSUME NEW d \in CID, NEW i \in Heads(sock[d]), NEW x, x = sock[d][i]
               PROVE  x.cid = d /\ Carried(d, x, i)'
    BY DEF SockInv
  <2>1. x \in Header /\ i \in Nat
    BY <1>0 DEF Heads, NetworkTypes
  <2>2. x.cid = d /\ Carried(d, x, i)
    BY DEF SockInv
  <2> QED BY <1>1, <2>1, <2>2
<1>3. ASSUME NEW k \in Comm, comm[k].pc = "text", NEW d, NEW h, d = comm[k].conn, h = comm[k].msg
      PROVE  Carried(d, h, 0)'
  <2>1. d \in CID /\ h \in Header /\ 0 \in Nat
    BY <1>0, <1>3, Serving DEF ServerTypes
  <2>2. h.cid = d /\ Carried(d, h, 0)
    BY <1>3 DEF HandInv
  <2> QED BY <1>1, <2>1, <2>2
<1>4. ASSUME NEW k \in Comm, comm[k].pc = "put", NEW h, NEW text, h = comm[k].msg,
             text = comm[k].text
      PROVE  Received(h, text)'
  <2>1. Received(h, text)
    BY <1>4 DEF HandInv
  <2> QED BY <2>1, ReceivedStays DEF computer
<1> QED BY <1>2, <1>3, <1>4

LEMMA MessagesWin ==
  ASSUME Types, FilesInv, LinkInv, LivesInv, SockInv, HandInv, QueueInv, [Next]_vars,
         NEW k \in Comm, Win(k)
  PROVE  SockInv' /\ HandInv' /\ QueueInv'
<1>1. /\ UNCHANGED <<computer, severed, spool, sock, link, queue, pspool, printer>>
      /\ comm'[k].pc = "header" /\ comm'[k].text = <<>>
      /\ \A j \in Comm : j # k => comm'[j] = comm[j]
  BY WinIs DEF disk, history
<1>2. HandInv'
  <2> SUFFICES ASSUME NEW j \in Comm, NEW d, d = comm'[j].conn, NEW x, x = comm'[j].msg,
                      NEW y, y = comm'[j].text
               PROVE  /\ comm'[j].pc \in {"text", "put"} => x.cid = d
                      /\ comm'[j].pc = "text" => Carried(d, x, 0)'
                      /\ comm'[j].pc = "put" => Received(x, y)'
                      /\ comm'[j].pc # "put" => y = <<>>
    BY DEF HandInv
  <2>1. CASE j # k
    <3>1. comm'[j] = comm[j]
      BY <1>1, <2>1
    <3>2. /\ comm[j].pc \in {"text", "put"} => x.cid = d
          /\ comm[j].pc # "put" => y = <<>>
      BY <3>1 DEF HandInv
    <3> QED BY <1>1, <3>1, <3>2, Undisturbed
  <2>2. CASE j = k
    BY <1>1, <2>2
  <2> QED BY <2>1, <2>2
<1>3. QueueInv'
  <2>1. ASSUME NEW j \in Comm, NEW i \in DOMAIN queue[j], NEW x, x = queue[j][i],
               NEW y, y = pspool[Id(x)]
        PROVE  Id(x) \in DOMAIN pspool /\ Received(x, y)'
    BY <1>1, <2>1, QueueSame
  <2> QED BY <1>1, <2>1 DEF QueueInv, Id
<1> QED BY <1>1, <1>2, <1>3, Undisturbed

(* A queue without its head.                                               *)
LEMMA QueueTail ==
  ASSUME ServerTypes, NEW k \in Comm, queue[k] # <<>>, queue'[k] = Tail(queue[k]),
         \A j \in Comm : j # k => queue'[j] = queue[j], NEW h, h = Head(queue[k])
  PROVE  /\ 1 \in DOMAIN queue[k] /\ queue[k][1] = h
         /\ \A i \in DOMAIN queue'[k] :
              i + 1 \in DOMAIN queue[k] /\ i + 1 # 1 /\ queue'[k][i] = queue[k][i + 1]
         /\ \A i \in DOMAIN queue[k] :
              i # 1 => i - 1 \in DOMAIN queue'[k] /\ queue'[k][i - 1] = queue[k][i]
<1>1. PICK s \in Seq(Header) : s = queue[k]
  BY DEF ServerTypes
<1>2. /\ 1 \in DOMAIN s /\ s[1] = Head(s)
      /\ \A i \in DOMAIN Tail(s) : i + 1 \in DOMAIN s /\ i + 1 # 1 /\ Tail(s)[i] = s[i + 1]
      /\ \A i \in DOMAIN s : i # 1 => i - 1 \in DOMAIN Tail(s) /\ Tail(s)[i - 1] = s[i]
  BY <1>1
<1> QED BY <1>1, <1>2

LEMMA MessagesPage ==
  ASSUME Types, FilesInv, LinkInv, LivesInv, SockInv, HandInv, QueueInv, ApartInv, [Next]_vars,
         NEW k \in Comm, NEW h \in Header, NEW e, Printed(k, h, e)
  PROVE  SockInv' /\ HandInv' /\ QueueInv'
<1>0. ServerTypes
  BY DEF Types
<1>1. /\ UNCHANGED <<computer, severed, spool, sock, link, comm, printer>>
      /\ queue[k] # <<>> /\ h = Head(queue[k]) /\ queue'[k] = Tail(queue[k])
      /\ \A j \in Comm : j # k => queue'[j] = queue[j]
  BY DEF Printed, history, network
<1>2. HandInv'
  BY <1>1, Undisturbed DEF HandInv
<1>3. PICK id : id = Id(h)
  OBVIOUS
<1>4. /\ DOMAIN pspool' = DOMAIN pspool \ {id}
      /\ \A f \in DOMAIN pspool : f # id => pspool'[f] = pspool[f]
  BY <1>3 DEF Printed, Without
<1>5. /\ 1 \in DOMAIN queue[k] /\ queue[k][1] = h
      /\ \A i \in DOMAIN queue'[k] :
           i + 1 \in DOMAIN queue[k] /\ i + 1 # 1 /\ queue'[k][i] = queue[k][i + 1]
      /\ \A i \in DOMAIN queue[k] :
           i # 1 => i - 1 \in DOMAIN queue'[k] /\ queue'[k][i - 1] = queue[k][i]
  BY <1>0, <1>1, QueueTail
<1>6. ASSUME NEW j \in Comm, NEW i \in DOMAIN queue[j], NEW x, x = queue[j][i], j # k \/ i # 1
      PROVE  Id(x) \in DOMAIN pspool' /\ \A y : y = pspool'[Id(x)] => Received(x, y)'
  <2>1. Id(x) # id
    BY <1>3, <1>5, <1>6 DEF ApartInv
  <2>2. Id(x) \in DOMAIN pspool /\ \A y : y = pspool[Id(x)] => Received(x, y)'
    BY <1>1, <1>6, QueueSame
  <2> QED BY <1>4, <2>1, <2>2
<1>7. QueueInv'
  <2>1. ASSUME NEW j \in Comm, NEW i \in DOMAIN queue'[j], NEW x, x = queue'[j][i],
               NEW y, y = pspool'[Id(x)]
        PROVE  Id(x) \in DOMAIN pspool' /\ Received(x, y)'
    <3>1. CASE j = k
      BY <1>5, <1>6, <2>1, <3>1
    <3>2. CASE j # k
      BY <1>1, <1>6, <2>1, <3>2
    <3> QED BY <3>1, <3>2
  <2>2. ASSUME printer \in {"up", "garbled"}, NEW f \in DOMAIN pspool'
        PROVE  \E j \in Comm : \E i \in DOMAIN queue'[j] : Id(queue'[j][i]) = f
    <3>1. f \in DOMAIN pspool /\ f # id
      BY <1>4
    <3>2. PICK j \in Comm : \E i \in DOMAIN queue[j] : Id(queue[j][i]) = f
      BY <2>2, <3>1 DEF QueueInv
    <3>3. PICK i \in DOMAIN queue[j] : Id(queue[j][i]) = f
      BY <3>2
    <3>4. CASE j # k
      BY <1>1, <3>3, <3>4
    <3>5. CASE j = k
      <4>1. i # 1
        BY <1>3, <1>5, <3>1, <3>3, <3>5
      <4>2. i - 1 \in DOMAIN queue'[k] /\ queue'[k][i - 1] = queue[k][i]
        BY <1>5, <3>3, <3>5, <4>1
      <4>3. Id(queue'[k][i - 1]) = f
        BY <3>3, <3>5, <4>2
      <4> QED BY <4>2, <4>3
    <3> QED BY <3>4, <3>5
  <2> QED BY <1>1, <2>1, <2>2 DEF QueueInv, Id
<1> QED BY <1>1, <1>2, <1>7, Undisturbed

(* A printer that starts or ends has no message.                           *)
LEMMA NoMessages ==
  ASSUME LinkInv, PrinterInit \/ Sigint \/ KillPrinter
  PROVE  /\ \A k \in Comm : comm'[k] = Free /\ queue'[k] = <<>>
         /\ Sigint \/ KillPrinter => \A c \in CID : sock'[c] = <<>>
BY DEF PrinterInit, Sigint, KillPrinter, PrinterGone, LinkInv, PrinterInv

LEMMA MessagesPrinter ==
  ASSUME Types, FilesInv, LinkInv, LivesInv, SockInv, HandInv, QueueInv, [Next]_vars,
         PrinterInit \/ Sigint \/ KillPrinter
  PROVE  SockInv' /\ HandInv' /\ QueueInv'
<1>1. \A k \in Comm : comm'[k] = Free /\ queue'[k] = <<>> /\ DOMAIN queue'[k] = {}
  BY NoMessages
<1>2. HandInv'
  BY <1>1 DEF HandInv, Free
<1>3. SockInv'
  <2>1. CASE PrinterInit
    <3>1. UNCHANGED <<computer, severed, sock, link>> /\ (spool' = spool \/ spool = NoFiles)
      BY <2>1 DEF PrinterInit, empty_dir, network, history
    <3> QED BY <3>1, Undisturbed
  <2>2. CASE Sigint \/ KillPrinter
    <3>1. \A c \in CID : sock'[c] = <<>> /\ DOMAIN sock'[c] = {}
      BY <2>2, NoMessages
    <3> QED BY <3>1 DEF SockInv, Heads
  <2> QED BY <2>1, <2>2
<1>4. printer' \in {"up", "garbled"} => DOMAIN pspool' = {}
  <2>1. CASE PrinterInit
    BY <2>1, EmptyDir DEF PrinterInit, empty_dir
  <2>2. CASE Sigint \/ KillPrinter
    BY <2>2 DEF Sigint, KillPrinter, PrinterGone
  <2> QED BY <2>1, <2>2
<1>5. QueueInv'
  BY <1>1, <1>4 DEF QueueInv
<1> QED BY <1>2, <1>3, <1>5
-----------------------------------------------------------------------------
(* What is on its way after a step was so before, or is a new header.      *)
LEMMA FlightText ==
  ASSUME Types, LinkInv, SockInv, HandInv, QueueInv, NEW h \in Header, InFlight(h)
  PROVE  \E r \in Run : Whole(h, r)
<1>1. ASSUME NEW c \in CID, NEW i \in Heads(sock[c]), sock[c][i] = h
      PROVE  \E r \in Run : Whole(h, r)
  <2>1. Carried(c, h, i)
    BY <1>1 DEF SockInv
  <2> QED BY <2>1 DEF Carried
<1>2. ASSUME NEW k \in Comm, comm[k].pc \in {"text", "put"}, comm[k].msg = h
      PROVE  \E r \in Run : Whole(h, r)
  <2>1. Carried(comm[k].conn, h, 0) \/ Received(h, comm[k].text)
    BY <1>2 DEF HandInv
  <2> QED BY <2>1 DEF Carried, Received
<1>3. ASSUME NEW k \in Comm, NEW i \in DOMAIN queue[k], queue[k][i] = h
      PROVE  \E r \in Run : Whole(h, r)
  <2>1. Received(h, pspool[Id(h)])
    BY <1>3 DEF QueueInv
  <2> QED BY <2>1 DEF Received
<1> QED BY <1>1, <1>2, <1>3 DEF InFlight

LEMMA FlightServer ==
  ASSUME Types, LinkInv, NEW h \in Header, InFlight(h)',
         \/ \E k \in Comm : Win(k) \/ ReadHeader(k) \/ ReadText(k) \/ Put(k)
         \/ Pages \/ PrinterInit \/ Sigint \/ KillPrinter
  PROVE  InFlight(h)
<1>0. NetworkTypes /\ ServerTypes
  BY DEF Types
<1>1. ASSUME NEW k \in Comm, Win(k) PROVE InFlight(h)
  <2>1. UNCHANGED <<sock, queue>> /\ comm'[k].pc = "header"
        /\ \A j \in Comm : j # k => comm'[j] = comm[j]
    BY <1>1, WinIs
  <2> QED BY <2>1 DEF InFlight
<1>2. ASSUME NEW s, NEW q, NEW n, Read(s, q, n), NEW i \in Heads(q)
      PROVE  i + n \in Heads(s) /\ q[i] = s[i + n]
  <2>1. /\ s \in Seq(Header \union Cell) /\ q \in Seq(Header \union Cell) /\ n \in Nat
        /\ Len(s) = Len(q) + n /\ \A j \in 1 .. Len(q) : q[j] = s[j + n]
    BY <1>2 DEF Read
  <2>2. i \in 1 .. Len(q) /\ q[i] \in Header
    BY <1>2, <2>1 DEF Heads
  <2>3. i + n \in 1 .. Len(s) /\ q[i] = s[i + n]
    BY <2>1, <2>2
  <2> QED BY <2>1, <2>2, <2>3 DEF Heads
<1>3. ASSUME NEW k \in Comm, ReadHeader(k) PROVE InFlight(h)
  <2>1. PICK c \in CID : HeaderRead(c, k)
    BY <1>3, HeaderIs
  <2>2. /\ \A j \in Comm : j # k => comm'[j] = comm[j]
        /\ \A d \in CID : d # c => sock'[d] = sock[d] /\ UNCHANGED queue /\ comm[k].pc = "header"
    BY <2>1 DEF HeaderRead, Serve
  <2>3. CASE /\ Read(sock[c], sock'[c], 1) /\ sock[c][1] \in Header /\ comm'[k].msg = sock[c][1]
    <3>1. 1 \in Heads(sock[c])
      BY <2>3 DEF Read, Heads
    <3> QED BY <1>2, <2>1, <2>2, <2>3, <3>1 DEF InFlight, HeaderRead
  <2>4. CASE Read(sock[c], sock'[c], 1) /\ UNCHANGED comm
    BY <1>2, <2>1, <2>2, <2>4 DEF InFlight, HeaderRead
  <2>5. CASE UNCHANGED sock /\ comm'[k] = Free
    BY <2>1, <2>2, <2>5 DEF InFlight, HeaderRead, Free
  <2> QED BY <2>1, <2>3, <2>4, <2>5 DEF HeaderRead
<1>4. ASSUME NEW k \in Comm, ReadText(k) PROVE InFlight(h)
  <2>1. PICK c \in CID, g \in Header, n \in Nat : \E text : TextRead(c, k, g, n, text)
    BY <1>4, TextIs
  <2>2. /\ \A j \in Comm : j # k => comm'[j] = comm[j]
        /\ \A d \in CID : d # c => sock'[d] = sock[d]
        /\ Read(sock[c], sock'[c], n) /\ comm'[k].msg = comm[k].msg /\ comm[k].pc = "text"
        /\ UNCHANGED queue
    BY <2>1 DEF TextRead, Serve
  <2> QED BY <1>2, <2>2 DEF InFlight
<1>5. ASSUME NEW k \in Comm, Put(k) PROVE InFlight(h)
  <2>1. PICK c \in CID, g \in Header : MessagePut(c, k, g)
    BY <1>5, PutIs
  <2>2. /\ \A j \in Comm : j # k => comm'[j] = comm[j]
        /\ \A j \in Comm : j # k => queue'[j] = queue[j]
        /\ comm[k].pc = "put" /\ comm[k].msg = g /\ queue'[k] = Append(queue[k], g)
        /\ UNCHANGED sock /\ comm'[k].pc = "header"
    BY <2>1 DEF MessagePut, Serve, network
  <2>3. \A i \in DOMAIN queue'[k] : queue'[k][i] = g \/ (i \in DOMAIN queue[k] /\ queue'[k][i] = queue[k][i])
    BY <1>0, <2>2 DEF ServerTypes
  <2> QED BY <2>2, <2>3 DEF InFlight
<1>6. CASE Pages
  <2>1. PICK k \in Comm, g \in Header : \E e : Printed(k, g, e)
    BY <1>6, PageIs
  <2>2. /\ UNCHANGED <<sock, comm>> /\ queue[k] # <<>> /\ g = Head(queue[k])
        /\ queue'[k] = Tail(queue[k]) /\ \A j \in Comm : j # k => queue'[j] = queue[j]
    BY <2>1 DEF Printed, network
  <2>3. \A i \in DOMAIN queue'[k] : i + 1 \in DOMAIN queue[k] /\ queue'[k][i] = queue[k][i + 1]
    BY <1>0, <2>2, QueueTail
  <2> QED BY <2>2, <2>3 DEF InFlight
<1>7. CASE PrinterInit \/ Sigint \/ KillPrinter
  <2>1. \A k \in Comm : comm'[k].pc = "idle" /\ DOMAIN queue'[k] = {}
    BY <1>7, NoMessages DEF Free
  <2>2. CASE PrinterInit
    BY <2>1, <2>2 DEF InFlight, PrinterInit, network
  <2>3. CASE Sigint \/ KillPrinter
    <3>1. \A c \in CID : sock'[c] = <<>> /\ DOMAIN sock'[c] = {}
      BY <2>3, NoMessages
    <3> QED BY <2>1, <3>1 DEF InFlight, Heads
  <2> QED BY <1>7, <2>2, <2>3
<1> QED BY <1>1, <1>3, <1>4, <1>5, <1>6, <1>7

LEMMA SentServer ==
  ASSUME UNCHANGED computer, Files' \subseteq Files, SentInv,
         \A h \in Header : InFlight(h)' => InFlight(h)
  PROVE  SentInv'
BY DEF SentInv, SentOf, computer

(* A header of the printer which starts a computer or connects it.         *)
LEMMA NoneFlying ==
  ASSUME Types, LinkInv, SockInv, HandInv, SentInv, NEW c \in CID, Boot(c) \/ Connect(c),
         NEW h \in Header, h.cid = c
  PROVE  ~InFlight(h)
<1>1. CASE Connect(c)
  BY <1>1 DEF SentInv, SentOf, Connect
<1>2. CASE Boot(c)
  <2>1. /\ Heads(sock[c]) = {} /\ \A k \in Comm : comm[k].conn # c
        /\ \A k \in Comm : \A i \in DOMAIN queue[k] : queue[k][i].cid # c
    BY <1>2, NoneYet
  <2>2. \A d \in CID : \A i \in Heads(sock[d]) : sock[d][i].cid = d
    BY DEF SockInv
  <2>3. \A k \in Comm : comm[k].pc \in {"text", "put"} => comm[k].msg.cid # c
    BY <2>1 DEF HandInv
  <2> QED BY <2>1, <2>2, <2>3 DEF InFlight
<1> QED BY <1>1, <1>2

LEMMA FlightComputer ==
  ASSUME Types, FilesInv, LinkInv, NEW c \in CID, ComputerStep(c), NEW h \in Header, InFlight(h)'
  PROVE  \/ InFlight(h)
         \/ Sends(c, h) /\ pc[c] = "header"
<1>1. UNCHANGED <<comm, queue>>
  BY ComputerOnly
<1>2. ASSUME NEW d \in CID, NEW i \in Heads(sock'[d]), sock'[d][i] = h
      PROVE  \/ InFlight(h)
             \/ Sends(c, h) /\ pc[c] = "header"
  <2>1. CASE sock'[d] = sock[d]
    BY <1>2, <2>1 DEF InFlight
  <2>2. CASE d = c /\ (Boot(c) \/ Connect(c))
    BY <1>2, <2>1, <2>2, NoneYet
  <2>3. ASSUME d = c, NEW x, Sends(c, x)
        PROVE  \/ InFlight(h)
               \/ Sends(c, h) /\ pc[c] = "header"
    <3>1. \/ i \in Heads(sock[c]) /\ sock'[c][i] = sock[c][i]
          \/ i = Len(sock[c]) + 1 /\ sock'[c][i] = x /\ pc[c] = "header"
      BY <1>2, <2>3, SendsIs
    <3> QED BY <1>2, <2>3, <3>1 DEF InFlight
  <2>4. CASE d # c
    BY <2>1, <2>4, Alone
  <2> QED BY <2>1, <2>2, <2>3, <2>4, Sending1
<1> QED BY <1>1, <1>2 DEF InFlight

LEMMA FilesNew ==
  ASSUME Types, FilesInv, NEW c \in CID, ComputerStep(c), NEW f \in Files', f \notin Files
  PROVE  f = <<c, next[c]>> /\ InitSpool(c) /\ ~Down(c)
<1>1. CASE Boot(c)
  BY <1>1, EmptyDir DEF Boot, Files
<1>2. CASE InitSpool(c)
  <2>1. CASE spool = NoDir
    BY <1>2, <2>1 DEF InitSpool, Files
  <2>2. CASE spool # NoDir
    <3>1. f = <<c, next[c]>> /\ alive' = [alive EXCEPT ![c] = @ \union {next[c]}]
      BY <1>2, <2>2, FilesMade DEF InitSpool
    <3>2. alive'[c] # {}
      BY <3>1 DEF Types, ComputerTypes
    <3>3. ~Down(c)
      BY <3>2 DEF Down, Types, ComputerTypes
    <3> QED BY <1>2, <3>1, <3>3
  <2> QED BY <2>1, <2>2
<1>3. CASE SpoolLine(c)
  BY <1>3, FileLonger
<1>4. CASE Remove(c)
  BY <1>4, FileGone
<1>5. CASE UNCHANGED spool
  BY <1>5 DEF Files
<1> QED BY <1>1, <1>2, <1>3, <1>4, <1>5 DEF ComputerStep, Connect, PowerOff, KillComputer, Exit,
                                            Scan,
                                            SendHeader, SendFile, disk

LEMMA SentOwn ==
  ASSUME Types, FilesInv, LinkInv, LivesInv, SpoolInv, SockInv, HandInv, QueueInv, SentInv,
         NEW c \in CID, ComputerStep(c), NEW h \in Header, h.cid = c, InFlight(h)
  PROVE  SentOf(c, h.pid, h.type)'
<1>0. ComputerTypes /\ DiskTypes
  BY DEF Types
<1>1. ~Boot(c) /\ ~Connect(c)
  BY NoneFlying
<1>2. PICK p \in PID : p = h.pid
  BY HeaderFacts
<1>3. PICK type : type = h.type /\ type \in {"END_SPOOL", "CPU_TERM"}
  BY DEF Header
<1>4. /\ pc[c] # "connect"
      /\ <<c, p>> \in Files => pc[c] = "down" \/ (pc[c] \in {"text", "remove"} /\ job[c].pid = p)
      /\ type = "CPU_TERM" => \/ pc[c] \in {"down", "scan"}
                              \/ pc[c] \in Sending /\ job[c].type = "CPU_TERM"
  BY <1>2, <1>3 DEF SentInv, SentOf
<1>5. <<c, p>> \in Files' => <<c, p>> \in Files
  <2> SUFFICES ASSUME <<c, p>> \in Files', <<c, p>> \notin Files PROVE FALSE
    OBVIOUS
  <2>1. p = next[c] /\ InitSpool(c) /\ ~Down(c) /\ pc[c] = "run"
    BY FilesNew DEF InitSpool
  <2>2. type = "END_SPOOL"
    BY <1>3, <1>4, <2>1 DEF Sending
  <2>3. PICK r \in Run : Whole(h, r)
    BY FlightText
  <2>4. r = run[c] /\ Life(h, r) \in DOMAIN printed
    BY <1>3, <2>2, <2>3 DEF Whole, Frozen
  <2>5. PICK life : life = <<c, p, run[c]>>
    OBVIOUS
  <2>6. life \in DOMAIN printed /\ life[1] = c /\ life[2] = p /\ life[3] = run[c]
    BY <1>2, <2>4, <2>5 DEF Life
  <2>7. p < next[c]
    BY <2>6 DEF LivesInv, LifeOk
  <2> QED BY <1>0, <2>1, <2>7 DEF ComputerTypes
<1> DEFINE Goal ==
      /\ pc'[c] # "connect"
      /\ <<c, p>> \in Files' => pc'[c] = "down" \/ (pc'[c] \in {"text", "remove"} /\ job'[c].pid = p)
      /\ type = "CPU_TERM" => \/ pc'[c] \in {"down", "scan"}
                              \/ pc'[c] \in Sending /\ job'[c].type = "CPU_TERM"
<1>6. CASE Down(c)
  <2>1. pc'[c] = "down"
    BY <1>0, <1>6 DEF Down, ComputerTypes
  <2> QED BY <1>2, <1>3, <2>1 DEF SentOf
<1>7. CASE pc'[c] = pc[c] /\ job'[c] = job[c]
  BY <1>2, <1>3, <1>4, <1>5, <1>7 DEF SentOf
<1>8. CASE Exit(c) \/ Scan(c) \/ PowerOff(c)
  <2>1. pc[c] \in {"run", "scan"} /\ <<c, p>> \notin Files'
    BY <1>4, <1>5, <1>8 DEF Exit, Scan, PowerOff, Step
  <2>2. CASE Exit(c)
    <3>1. pc[c] = "run" /\ pc'[c] = "header"
      BY <1>0, <2>2 DEF Exit, Step, ComputerTypes
    <3> QED BY <1>2, <1>3, <1>4, <2>1, <3>1 DEF SentOf, Sending
  <2>3. CASE Scan(c) /\ ~Down(c)
    <3>1. pc'[c] = "header" /\ job'[c].type = "CPU_TERM"
      BY <1>0, <2>3 DEF Scan, Step, ComputerTypes
    <3> QED BY <1>2, <1>3, <2>1, <3>1 DEF SentOf, Sending
  <2>4. CASE PowerOff(c) /\ ~Down(c)
    <3>1. pc'[c] = "scan"
      BY <1>0, <2>4 DEF PowerOff, Step, ComputerTypes
    <3> QED BY <1>2, <1>3, <2>1, <3>1 DEF SentOf
  <2> QED BY <1>6, <1>8, <2>2, <2>3, <2>4
<1>9. CASE SendHeader(c) /\ ~Down(c)
  <2>1. /\ pc[c] = "header" /\ job'[c] = job[c] /\ <<c, p>> \notin Files'
        /\ pc'[c] \in {"text", Back(c)}
    BY <1>0, <1>4, <1>5, <1>9 DEF SendHeader, Step, Write, ComputerTypes
  <2> QED BY <1>2, <1>3, <1>4, <2>1 DEF SentOf, Sending, Back
<1>10. CASE SendFile(c) /\ ~Down(c)
  <2>1. pc[c] = "text" /\ job'[c] = job[c] /\ pc'[c] \in {"text", "remove"}
    BY <1>0, <1>10 DEF SendFile, Step, Write, ComputerTypes
  <2> QED BY <1>2, <1>3, <1>4, <1>5, <2>1 DEF SentOf, Sending
<1>11. CASE Remove(c)
  <2>1. pc[c] = "remove" /\ job'[c] = job[c] /\ pc'[c] = Back(c) /\ Files' = Files \ {File(c)}
    BY <1>0, <1>11, FileGone DEF Remove, Step, ComputerTypes
  <2>2. <<c, p>> \notin Files'
    BY <1>4, <2>1 DEF File
  <2> QED BY <1>2, <1>3, <1>4, <2>1, <2>2 DEF SentOf, Sending, Back
<1>12. CASE InitSpool(c) /\ ~Down(c)
  BY <1>7, <1>12 DEF InitSpool
<1>13. CASE SpoolLine(c)
  BY <1>7, <1>13 DEF SpoolLine, computer
<1> QED BY <1>1, <1>6, <1>8, <1>9, <1>10, <1>11, <1>12, <1>13 DEF ComputerStep, KillComputer

LEMMA SentElse ==
  ASSUME Types, FilesInv, LinkInv, SentInv, NEW c \in CID, ComputerStep(c),
         NEW h \in Header, h.cid # c, InFlight(h)
  PROVE  SentOf(h.cid, h.pid, h.type)'
<1>1. PICK d \in CID : d = h.cid
  BY HeaderFacts
<1>2. pc'[d] = pc[d] /\ job'[d] = job[d]
  BY <1>1, Alone
<1>3. <<d, h.pid>> \in Files' => <<d, h.pid>> \in Files
  BY <1>1, FilesNew
<1>4. SentOf(d, h.pid, h.type)
  BY <1>1 DEF SentInv
<1> QED BY <1>1, <1>2, <1>3, <1>4 DEF SentOf

LEMMA SentComputer ==
  ASSUME Types, FilesInv, LinkInv, LivesInv, SpoolInv, SockInv, HandInv, QueueInv, SentInv,
         NEW c \in CID, ComputerStep(c)
  PROVE  SentInv'
<1> SUFFICES ASSUME NEW h \in Header, InFlight(h)' PROVE SentOf(h.cid, h.pid, h.type)'
  BY DEF SentInv
<1>1. CASE InFlight(h)
  BY <1>1, SentOwn, SentElse
<1>2. CASE Sends(c, h) /\ pc[c] = "header"
  <2>1. h = [cid |-> c, pid |-> job[c].pid, size |-> Len(spool[File(c)]), type |-> job[c].type]
        /\ pc'[c] = "text" /\ job'[c] = job[c]
    BY <1>2 DEF Sends
  <2> QED BY <2>1 DEF SentOf, Sending
<1> QED BY <1>1, <1>2, FlightComputer

(* A message in a socket and one elsewhere with the same ID are one.       *)
LEMMA NewApart ==
  ASSUME Types, FilesInv, SpoolInv, SentInv, NEW c \in CID, NEW x \in Header, Sends(c, x),
         pc[c] = "header", NEW h \in Header, InFlight(h)
  PROVE  Id(h) # Id(x)
<1>1. x.cid = c /\ x.pid = job[c].pid /\ File(c) \in Files
  BY DEF Sends
<1>2. ASSUME Id(h) = Id(x) PROVE FALSE
  <2>1. h.cid = c /\ h.pid = job[c].pid
    BY <1>1, <1>2 DEF Id
  <2>2. <<c, h.pid>> \in Files
    BY <1>1, <2>1 DEF File
  <2>3. SentOf(c, h.pid, h.type)
    BY <2>1 DEF SentInv
  <2> QED BY <2>2, <2>3 DEF SentOf
<1> QED BY <1>2

LEMMA ApartComputer ==
  ASSUME Types, FilesInv, LinkInv, SpoolInv, SockInv, HandInv, SentInv, ApartInv,
         NEW c \in CID, ComputerStep(c)
  PROVE  ApartInv'
<1>0. NetworkTypes /\ ServerTypes
  BY DEF Types
<1>1. UNCHANGED <<comm, queue>>
  BY ComputerOnly
<1>2. CASE \A d \in CID : Heads(sock'[d]) = Heads(sock[d]) /\ \A i \in Heads(sock[d]) : sock'[d][i] = sock[d][i]
  BY <1>0, <1>1, <1>2, Serving DEF ApartInv
<1>3. ASSUME NEW x, Sends(c, x) PROVE ApartInv'
  <2>1. \A i \in Heads(sock'[c]) :
          \/ i \in Heads(sock[c]) /\ sock'[c][i] = sock[c][i]
          \/ i = Len(sock[c]) + 1 /\ sock'[c][i] = x /\ pc[c] = "header"
    BY <1>3, SendsIs
  <2>2. \A d \in CID : d # c => sock'[d] = sock[d]
    BY Alone
  <2>3. pc[c] = "header" => x \in Header /\ x.cid = c
    BY <1>3, SendsIs
  <2>4. ASSUME pc[c] = "header", NEW i \in Heads(sock[c]) PROVE sock[c][i].pid # x.pid
    <3>1. PICK h \in Header : h = sock[c][i]
      BY DEF Heads
    <3>2. InFlight(h) /\ h.cid = c
      BY <3>1, <2>4 DEF InFlight, SockInv
    <3> QED BY <1>3, <2>3, <2>4, <3>1, <3>2, NewApart DEF Id
  <2>5. ASSUME pc[c] = "header", NEW k \in Comm, comm[k].pc \in {"text", "put"}, comm[k].conn = c
        PROVE  comm[k].msg.pid # x.pid
    <3>1. PICK h \in Header : h = comm[k].msg
      BY <1>0, <2>5 DEF ServerTypes
    <3>2. InFlight(h) /\ h.cid = c
      BY <3>1, <2>5 DEF InFlight, HandInv
    <3> QED BY <1>3, <2>3, <2>5, <3>1, <3>2, NewApart DEF Id
  <2>6. ASSUME pc[c] = "header", NEW k \in Comm, NEW i \in DOMAIN queue[k]
        PROVE  Id(queue[k][i]) # Id(x)
    <3>1. PICK h \in Header : h = queue[k][i]
      BY <1>0, <2>6 DEF ServerTypes
    <3>2. InFlight(h)
      BY <3>1, <2>6 DEF InFlight
    <3> QED BY <1>3, <2>3, <2>6, <3>1, <3>2, NewApart
  <2>7. ASSUME NEW d \in CID, NEW i \in Heads(sock'[d])
        PROVE  \/ i \in Heads(sock[d]) /\ sock'[d][i] = sock[d][i]
               \/ d = c /\ i = Len(sock[c]) + 1 /\ sock'[c][i] = x /\ pc[c] = "header"
    BY <2>1, <2>2, <2>7
  <2>8. \A d \in CID : \A i, j \in Heads(sock'[d]) : sock'[d][i].pid = sock'[d][j].pid => i = j
    BY <2>4, <2>7 DEF ApartInv
  <2>9. \A k \in Comm : comm[k].pc \in {"text", "put"} =>
          /\ \A i \in Heads(sock'[comm[k].conn]) : sock'[comm[k].conn][i].pid # comm[k].msg.pid
          /\ \A l \in Comm : \A i \in DOMAIN queue[l] : Id(queue[l][i]) # Id(comm[k].msg)
    <3> SUFFICES ASSUME NEW k \in Comm, comm[k].pc \in {"text", "put"}, NEW d \in CID,
                        d = comm[k].conn,
                        NEW i \in Heads(sock'[d])
                 PROVE  sock'[d][i].pid # comm[k].msg.pid
      BY <1>0, Serving DEF ApartInv
    <3>1. CASE i \in Heads(sock[d]) /\ sock'[d][i] = sock[d][i]
      BY <3>1 DEF ApartInv
    <3>2. CASE d = c /\ i = Len(sock[c]) + 1 /\ sock'[c][i] = x /\ pc[c] = "header"
      BY <2>5, <3>2
    <3> QED BY <2>7, <3>1, <3>2
  <2>10. \A d \in CID, k \in Comm : \A i \in Heads(sock'[d]), j \in DOMAIN queue[k] :
           Id(sock'[d][i]) # Id(queue[k][j])
    BY <2>6, <2>7 DEF ApartInv
  <2> QED BY <1>1, <2>8, <2>9, <2>10 DEF ApartInv, Id
<1>4. CASE sock'[c] = sock[c]
  BY <1>2, <1>4, Alone
<1>5. CASE Boot(c) \/ Connect(c)
  BY <1>4, <1>5, NoneYet
<1> QED BY <1>3, <1>4, <1>5, Sending1

(* What is left of a socket after a read is apart as well.                 *)
LEMMA ReadHeads ==
  ASSUME NEW s, NEW q, NEW n, Read(s, q, n)
  PROVE  /\ n \in Nat
         /\ \A i \in Heads(q) : i \in Nat /\ i # 0 /\ i + n \in Heads(s) /\ q[i] = s[i + n]
<1>1. /\ s \in Seq(Header \union Cell) /\ q \in Seq(Header \union Cell) /\ n \in Nat
      /\ Len(s) = Len(q) + n /\ \A j \in 1 .. Len(q) : q[j] = s[j + n]
  BY DEF Read
<1>2. ASSUME NEW i \in Heads(q) PROVE i \in Nat /\ i # 0 /\ i + n \in Heads(s) /\ q[i] = s[i + n]
  <2>1. i \in 1 .. Len(q) /\ q[i] \in Header
    BY <1>1 DEF Heads
  <2>2. i + n \in 1 .. Len(s) /\ q[i] = s[i + n]
    BY <1>1, <2>1
  <2> QED BY <1>1, <2>1, <2>2 DEF Heads
<1> QED BY <1>1, <1>2

LEMMA ApartRead ==
  ASSUME Types, LinkInv, SockInv, HandInv, ApartInv, NEW c, NEW k \in Comm, Serve(c, k),
         NEW n, Read(sock[c], sock'[c], n), UNCHANGED queue,
         comm'[k].pc \in {"text", "put"} =>
           \/ n = 1 /\ 1 \in Heads(sock[c]) /\ comm'[k].msg = sock[c][1] /\ comm'[k].conn = c
           \/ comm[k].pc = "text" /\ comm'[k].msg = comm[k].msg /\ comm'[k].conn = c
  PROVE  ApartInv'
<1>0. NetworkTypes /\ ServerTypes
  BY DEF Types
<1>1. /\ c \in CID /\ c = comm[k].conn
      /\ \A j \in Comm : j # k => comm'[j] = comm[j] /\ comm[j].conn # c
      /\ \A d \in CID : d # c => sock'[d] = sock[d]
  BY DEF Serve
<1>2. PICK s, q : s = sock[c] /\ q = sock'[c]
  OBVIOUS
<1>3. n \in Nat /\ \A i \in Heads(q) : i \in Nat /\ i # 0 /\ i + n \in Heads(s) /\ q[i] = s[i + n]
  BY <1>2, ReadHeads
<1>4. \A d \in CID : \A i, j \in Heads(sock'[d]) : sock'[d][i].pid = sock'[d][j].pid => i = j
  <2> SUFFICES ASSUME NEW d \in CID, NEW i \in Heads(sock'[d]), NEW j \in Heads(sock'[d]),
                      sock'[d][i].pid = sock'[d][j].pid
               PROVE  i = j
    OBVIOUS
  <2>1. CASE d # c
    BY <1>1, <2>1 DEF ApartInv
  <2>2. CASE d = c
    <3>1. i + n \in Heads(s) /\ j + n \in Heads(s) /\ s[i + n].pid = s[j + n].pid /\ i \in Nat /\ j \in Nat
      BY <1>2, <1>3, <2>2
    <3>2. i + n = j + n
      BY <1>1, <1>2, <3>1 DEF ApartInv
    <3> QED BY <1>3, <3>1, <3>2
  <2> QED BY <2>1, <2>2
<1>5. ASSUME NEW j \in Comm, comm'[j].pc \in {"text", "put"}, NEW d, d = comm'[j].conn,
             NEW p, p = comm'[j].msg.pid, NEW g, g = Id(comm'[j].msg)
      PROVE  /\ \A i \in Heads(sock'[d]) : sock'[d][i].pid # p
             /\ \A l \in Comm : \A i \in DOMAIN queue[l] : Id(queue[l][i]) # g
  <2>1. CASE j # k
    <3>1. d # c /\ comm'[j] = comm[j] /\ d \in CID
      BY <1>0, <1>1, <1>5, <2>1, Serving
    <3>2. sock'[d] = sock[d]
      BY <1>1, <3>1
    <3> QED BY <1>5, <3>1, <3>2 DEF ApartInv
  <2>2. CASE /\ j = k /\ n = 1 /\ 1 \in Heads(sock[c]) /\ comm'[k].msg = sock[c][1]
             /\ comm'[k].conn = c
    <3>1. ASSUME NEW i \in Heads(q) PROVE q[i].pid # p
      <4>1. i + 1 \in Heads(s) /\ q[i] = s[i + 1] /\ i + 1 # 1 /\ p = s[1].pid /\ 1 \in Heads(s)
        BY <1>2, <1>3, <1>5, <2>2
      <4> QED BY <1>1, <1>2, <4>1 DEF ApartInv
    <3> QED BY <1>1, <1>2, <1>5, <2>2, <3>1 DEF ApartInv
  <2>3. CASE /\ j = k /\ comm[k].pc = "text" /\ comm'[k].msg = comm[k].msg /\ comm'[k].conn = c
    <3>1. ASSUME NEW i \in Heads(q) PROVE q[i].pid # p
      <4>1. i + n \in Heads(s) /\ q[i] = s[i + n] /\ p = comm[k].msg.pid
        BY <1>3, <1>5, <2>3
      <4> QED BY <1>1, <1>2, <2>3, <4>1 DEF ApartInv
    <3> QED BY <1>1, <1>2, <1>5, <2>3, <3>1 DEF ApartInv
  <2> QED BY <1>5, <2>1, <2>2, <2>3
<1>6. ASSUME NEW d \in CID, NEW l \in Comm, NEW i \in Heads(sock'[d]), NEW j \in DOMAIN queue[l]
      PROVE  Id(sock'[d][i]) # Id(queue[l][j])
  <2>1. CASE d # c
    BY <1>1, <2>1, <1>6 DEF ApartInv
  <2>2. CASE d = c
    BY <1>1, <1>2, <1>3, <1>6, <2>2 DEF ApartInv
  <2> QED BY <2>1, <2>2
<1>7. \A j \in Comm : comm'[j].pc \in {"text", "put"} =>
        /\ \A i \in Heads(sock'[comm'[j].conn]) : sock'[comm'[j].conn][i].pid # comm'[j].msg.pid
        /\ \A l \in Comm : \A i \in DOMAIN queue[l] : Id(queue[l][i]) # Id(comm'[j].msg)
  BY <1>5
<1> QED BY <1>4, <1>6, <1>7 DEF ApartInv, Id

LEMMA ApartPut ==
  ASSUME Types, LinkInv, SockInv, HandInv, ApartInv, NEW c, NEW k \in Comm, NEW h \in Header,
         MessagePut(c, k, h)
  PROVE  ApartInv'
<1>0. NetworkTypes /\ ServerTypes
  BY DEF Types
<1>1. /\ c \in CID /\ c = comm[k].conn /\ comm[k].pc = "put" /\ comm[k].msg = h /\ UNCHANGED sock
      /\ \A j \in Comm : j # k => comm'[j] = comm[j] /\ comm[j].conn # c
      /\ \A j \in Comm : j # k => queue'[j] = queue[j]
      /\ queue'[k] = Append(queue[k], h) /\ comm'[k].pc = "header"
  BY DEF MessagePut, Serve, network
<1>2. h.cid = c
  BY <1>1 DEF HandInv
<1>3. ASSUME NEW l \in Comm, NEW i \in DOMAIN queue'[l]
      PROVE  \/ i \in DOMAIN queue[l] /\ queue'[l][i] = queue[l][i]
             \/ l = k /\ i = Len(queue[k]) + 1 /\ queue'[l][i] = h
  <2>1. CASE l # k
    BY <1>1, <1>3, <2>1
  <2>2. CASE l = k
    <3>1. PICK s \in Seq(Header) : s = queue[k]
      BY <1>0 DEF ServerTypes
    <3>2. \A m \in DOMAIN Append(s, h) :
            \/ m \in DOMAIN s /\ Append(s, h)[m] = s[m]
            \/ m = Len(s) + 1 /\ Append(s, h)[m] = h
      OBVIOUS
    <3> QED BY <1>1, <1>3, <2>2, <3>1, <3>2
  <2> QED BY <2>1, <2>2
<1>4. \A l \in Comm : \A i \in DOMAIN queue[l] : Id(queue[l][i]) # Id(h)
  BY <1>1 DEF ApartInv
<1>5. ASSUME NEW j \in Comm, comm'[j].pc \in {"text", "put"}
      PROVE  /\ j # k /\ comm'[j] = comm[j] /\ Id(comm[j].msg) # Id(h)
  <2>1. j # k /\ comm'[j] = comm[j] /\ comm[j].conn # c
    BY <1>1, <1>5
  <2>2. comm[j].msg.cid # c
    BY <1>5, <2>1 DEF HandInv
  <2> QED BY <1>2, <2>1, <2>2 DEF Id
<1>6. \A d \in CID : \A i \in Heads(sock[d]) : Id(sock[d][i]) # Id(h)
  <2> SUFFICES ASSUME NEW d \in CID, NEW i \in Heads(sock[d]), Id(sock[d][i]) = Id(h) PROVE FALSE
    OBVIOUS
  <2>1. sock[d][i].cid = c /\ sock[d][i].pid = h.pid
    BY <1>2 DEF Id
  <2>2. d = c
    BY <2>1 DEF SockInv
  <2> QED BY <1>1, <2>1, <2>2 DEF ApartInv
<1>7. \A j \in Comm : comm'[j].pc \in {"text", "put"} =>
        /\ \A i \in Heads(sock[comm'[j].conn]) : sock[comm'[j].conn][i].pid # comm'[j].msg.pid
        /\ \A l \in Comm : \A i \in DOMAIN queue'[l] : Id(queue'[l][i]) # Id(comm'[j].msg)
  <2> SUFFICES ASSUME NEW j \in Comm, comm'[j].pc \in {"text", "put"}
               PROVE  /\ \A i \in Heads(sock[comm[j].conn]) : sock[comm[j].conn][i].pid # comm[j].msg.pid
                      /\ \A l \in Comm : \A i \in DOMAIN queue'[l] : Id(queue'[l][i]) # Id(comm[j].msg)
    BY <1>5
  <2>1. comm[j].pc \in {"text", "put"} /\ Id(comm[j].msg) # Id(h)
    BY <1>5
  <2> QED BY <1>3, <2>1 DEF ApartInv
<1>8. \A l, m \in Comm : \A i \in DOMAIN queue'[l], j \in DOMAIN queue'[m] :
        Id(queue'[l][i]) = Id(queue'[m][j]) => l = m /\ i = j
  <2> SUFFICES ASSUME NEW l \in Comm, NEW m \in Comm, NEW i \in DOMAIN queue'[l],
                      NEW j \in DOMAIN queue'[m], Id(queue'[l][i]) = Id(queue'[m][j])
               PROVE  l = m /\ i = j
    OBVIOUS
  <2>1. \/ i \in DOMAIN queue[l] /\ queue'[l][i] = queue[l][i]
        \/ l = k /\ i = Len(queue[k]) + 1 /\ queue'[l][i] = h
    BY <1>3
  <2>2. \/ j \in DOMAIN queue[m] /\ queue'[m][j] = queue[m][j]
        \/ m = k /\ j = Len(queue[k]) + 1 /\ queue'[m][j] = h
    BY <1>3
  <2> QED BY <1>4, <2>1, <2>2 DEF ApartInv
<1>9. \A d \in CID, l \in Comm : \A i \in Heads(sock[d]), j \in DOMAIN queue'[l] :
        Id(sock[d][i]) # Id(queue'[l][j])
  BY <1>3, <1>6 DEF ApartInv
<1>10. \A d \in CID : \A i, j \in Heads(sock[d]) : sock[d][i].pid = sock[d][j].pid => i = j
  BY DEF ApartInv
<1> QED BY <1>1, <1>7, <1>8, <1>9, <1>10 DEF ApartInv, Id

LEMMA ApartPage ==
  ASSUME ServerTypes, ApartInv, NEW k \in Comm, NEW h \in Header, NEW e, Printed(k, h, e)
  PROVE  ApartInv'
<1>1. /\ UNCHANGED <<sock, comm>> /\ queue[k] # <<>> /\ h = Head(queue[k])
      /\ queue'[k] = Tail(queue[k]) /\ \A j \in Comm : j # k => queue'[j] = queue[j]
  BY DEF Printed, network
<1>2. \A i \in DOMAIN queue'[k] : i + 1 \in DOMAIN queue[k] /\ queue'[k][i] = queue[k][i + 1]
  BY <1>1, QueueTail
<1>3. \A i \in DOMAIN queue'[k] : i \in Nat
  BY <1>1 DEF ServerTypes
<1>4. ASSUME NEW l \in Comm, NEW i \in DOMAIN queue'[l]
      PROVE  \E j \in DOMAIN queue[l] : /\ queue'[l][i] = queue[l][j]
                                        /\ j = IF l = k THEN i + 1 ELSE i
  BY <1>1, <1>2, <1>4
<1>5. \A l, m \in Comm : \A i \in DOMAIN queue'[l], j \in DOMAIN queue'[m] :
        Id(queue'[l][i]) = Id(queue'[m][j]) => l = m /\ i = j
  <2> SUFFICES ASSUME NEW l \in Comm, NEW m \in Comm, NEW i \in DOMAIN queue'[l],
                      NEW j \in DOMAIN queue'[m], Id(queue'[l][i]) = Id(queue'[m][j])
               PROVE  l = m /\ i = j
    OBVIOUS
  <2>1. PICK a \in DOMAIN queue[l] : queue'[l][i] = queue[l][a] /\ a = IF l = k THEN i + 1 ELSE i
    BY <1>4
  <2>2. PICK b \in DOMAIN queue[m] : queue'[m][j] = queue[m][b] /\ b = IF m = k THEN j + 1 ELSE j
    BY <1>4
  <2>3. l = m /\ a = b
    BY <2>1, <2>2 DEF ApartInv
  <2> QED BY <1>3, <2>1, <2>2, <2>3
<1>6. \A j \in Comm : comm[j].pc \in {"text", "put"} =>
        \A l \in Comm : \A i \in DOMAIN queue'[l] : Id(queue'[l][i]) # Id(comm[j].msg)
  BY <1>4 DEF ApartInv
<1>7. \A d \in CID, l \in Comm : \A i \in Heads(sock[d]), j \in DOMAIN queue'[l] :
        Id(sock[d][i]) # Id(queue'[l][j])
  BY <1>4 DEF ApartInv
<1> QED BY <1>1, <1>5, <1>6, <1>7 DEF ApartInv, Id

LEMMA ApartServer ==
  ASSUME Types, LinkInv, SockInv, HandInv, ApartInv,
         \/ \E k \in Comm : Win(k) \/ ReadHeader(k) \/ ReadText(k) \/ Put(k)
         \/ Pages \/ PrinterInit \/ Sigint \/ KillPrinter
  PROVE  ApartInv'
<1>1. ASSUME NEW k \in Comm, Win(k) PROVE ApartInv'
  <2>1. UNCHANGED <<sock, queue>> /\ comm'[k].pc = "header"
        /\ \A j \in Comm : j # k => comm'[j] = comm[j]
    BY <1>1, WinIs
  <2> QED BY <2>1 DEF ApartInv, Id
<1>2. ASSUME NEW k \in Comm, ReadHeader(k) PROVE ApartInv'
  <2>1. PICK c \in CID : HeaderRead(c, k)
    BY <1>2, HeaderIs
  <2>2. Serve(c, k) /\ UNCHANGED queue /\ comm[k].pc = "header"
    BY <2>1 DEF HeaderRead
  <2>3. CASE Read(sock[c], sock'[c], 1)
    <3>1. sock[c][1] \in Header => 1 \in Heads(sock[c])
      BY <2>3 DEF Read, Heads
    <3>2. comm'[k].pc \in {"text", "put"} =>
            1 \in Heads(sock[c]) /\ comm'[k].msg = sock[c][1] /\ comm'[k].conn = c
      BY <2>1, <2>2, <3>1 DEF HeaderRead, Free
    <3> QED BY <2>2, <2>3, <3>2, ApartRead
  <2>4. CASE UNCHANGED sock /\ comm'[k] = Free
    <3>1. \A j \in Comm : j # k => comm'[j] = comm[j]
      BY <2>2 DEF Serve
    <3> QED BY <2>2, <2>4, <3>1 DEF ApartInv, Id, Free
  <2> QED BY <2>1, <2>3, <2>4 DEF HeaderRead
<1>3. ASSUME NEW k \in Comm, ReadText(k) PROVE ApartInv'
  <2>1. PICK c \in CID, g \in Header, n \in Nat : \E text : TextRead(c, k, g, n, text)
    BY <1>3, TextIs
  <2>2. /\ Serve(c, k) /\ Read(sock[c], sock'[c], n) /\ UNCHANGED queue
        /\ comm[k].pc = "text" /\ comm'[k].msg = comm[k].msg /\ comm'[k].conn = c
    BY <2>1 DEF TextRead
  <2> QED BY <2>2, ApartRead
<1>4. ASSUME NEW k \in Comm, Put(k) PROVE ApartInv'
  BY <1>4, PutIs, ApartPut
<1>5. CASE Pages
  BY <1>5, PageIs, ApartPage DEF Types
<1>6. CASE PrinterInit \/ Sigint \/ KillPrinter
  <2>1. \A k \in Comm : comm'[k].pc = "idle" /\ DOMAIN queue'[k] = {}
    BY <1>6, NoMessages DEF Free
  <2>2. CASE PrinterInit
    BY <2>1, <2>2 DEF ApartInv, PrinterInit, network
  <2>3. CASE Sigint \/ KillPrinter
    <3>1. \A c \in CID : sock'[c] = <<>> /\ DOMAIN sock'[c] = {}
      BY <2>3, NoMessages
    <3> QED BY <2>1, <3>1 DEF ApartInv, Heads
  <2> QED BY <1>6, <2>2, <2>3
<1> QED BY <1>1, <1>2, <1>3, <1>4, <1>5, <1>6
-----------------------------------------------------------------------------
(* The pages.                                                              *)
LEMMA PageStays ==
  ASSUME Types, FilesInv, LivesInv, [Next]_vars, NEW e, NEW torn \in BOOLEAN, PageOf(e, torn),
         severed \subseteq severed'
  PROVE  PageOf(e, torn)'
<1>1. PICK r \in Run :
        LET t == printed[Life(e, r)] IN
          /\ Frozen(Life(e, r)) /\ Len(e.text) <= Len(t)
          /\ \A j \in 1 .. Len(e.text) : e.text[j] \in {Junk, t[j]}
          /\ MaxText <= 1 => \/ Id(e) \in severed \/ e.text = t
                             \/ torn /\ e.text = SubSeq(t, 1, Len(e.text))
  BY DEF PageOf
<1>2. PICK life : life = Life(e, r)
  OBVIOUS
<1>3. Frozen(life)' /\ printed'[life] = printed[life]
  BY <1>1, <1>2, FrozenStays
<1>4. Life(e, r)' = life /\ Id(e)' = Id(e)
  BY <1>2 DEF Life, Id
<1> QED BY <1>1, <1>2, <1>3, <1>4 DEF PageOf

LEMMA PaperSame ==
  ASSUME Types, FilesInv, LivesInv, PaperInv, [Next]_vars, severed \subseteq severed',
         UNCHANGED paper, printer' = printer \/ printer # "killed"
  PROVE  PaperInv'
<1>1. \A i \in DOMAIN paper : Torn(i) => Torn(i)'
  BY DEF Torn
<1> SUFFICES ASSUME NEW i \in DOMAIN paper, NEW e, e = paper[i]
             PROVE  PageOf(e, FALSE)' \/ (Torn(i)' /\ PageOf(e, TRUE)')
  BY DEF PaperInv
<1>2. PageOf(e, FALSE) \/ (Torn(i) /\ PageOf(e, TRUE))
  BY DEF PaperInv
<1> QED BY <1>1, <1>2, PageStays

Sheet == [cid : CID, pid : PID, type : {"END_SPOOL", "CPU_TERM"}, text : Seq(Cell \union {Junk})]

LEMMA PaperMore ==
  ASSUME Types, FilesInv, LivesInv, PaperInv, [Next]_vars, severed \subseteq severed',
         printer # "killed", NEW e \in Sheet, paper' = Append(paper, e),
         PageOf(e, FALSE) \/ (printer' = "killed" /\ PageOf(e, TRUE))
  PROVE  PaperInv'
<1>1. PICK s \in Seq(Sheet) : s = paper
  BY DEF PaperInv, Sheet
<1>2. /\ Append(s, e) \in Seq(Sheet) /\ Len(Append(s, e)) = Len(s) + 1
      /\ \A i \in DOMAIN Append(s, e) : \/ i \in DOMAIN s /\ Append(s, e)[i] = s[i]
                                        \/ i = Len(s) + 1 /\ Append(s, e)[i] = e
  OBVIOUS
<1>3. ASSUME NEW i \in DOMAIN paper', NEW x, x = paper'[i]
      PROVE  PageOf(x, FALSE)' \/ (Torn(i)' /\ PageOf(x, TRUE)')
  <2>1. CASE i \in DOMAIN s /\ x = s[i]
    <3>1. PageOf(x, FALSE)
      BY <1>1, <2>1 DEF PaperInv, Torn
    <3> QED BY <3>1, PageStays
  <2>2. CASE i = Len(s) + 1 /\ x = e
    <3>1. Len(paper') = i
      BY <1>1, <1>2, <2>2
    <3>2. printer' = "killed" => Torn(i)'
      BY <3>1 DEF Torn
    <3> QED BY <2>2, <3>2, PageStays
  <2> QED BY <1>1, <1>2, <1>3, <2>1, <2>2
<1> QED BY <1>1, <1>2, <1>3 DEF PaperInv, Sheet

(* A page with the text of a message in a queue.                           *)
LEMMA PageReceived ==
  ASSUME Types, LivesInv, NEW h \in Header, NEW text \in Seq(Cell \union {Junk}), Received(h, text),
         NEW e, e.cid = h.cid, e.pid = h.pid, e.text = text
  PROVE  PageOf(e, FALSE)
<1>1. PICK r \in Run :
        LET t == printed[Life(h, r)] IN
          /\ Whole(h, r) /\ Len(text) = h.size
          /\ \A j \in 1 .. h.size : text[j] \in {Junk, t[j]}
          /\ MaxText <= 1 => text = t \/ Id(h) \in severed
  BY DEF Received
<1>2. Life(e, r) = Life(h, r) /\ Id(e) = Id(h)
  BY DEF Life, Id
<1>3. h.size \in Nat
  BY HeaderFacts
<1> QED BY <1>1, <1>2, <1>3 DEF PageOf, Whole

LEMMA PageTorn ==
  ASSUME Types, LivesInv, NEW h \in Header, NEW text \in Seq(Cell \union {Junk}), Received(h, text),
         NEW n \in Nat, n <= Len(text), NEW e, e.cid = h.cid, e.pid = h.pid,
         e.text = SubSeq(text, 1, n)
  PROVE  PageOf(e, TRUE)
<1>1. PICK r \in Run :
        LET t == printed[Life(h, r)] IN
          /\ Whole(h, r) /\ Len(text) = h.size
          /\ \A j \in 1 .. h.size : text[j] \in {Junk, t[j]}
          /\ MaxText <= 1 => text = t \/ Id(h) \in severed
  BY DEF Received
<1>2. Life(e, r) = Life(h, r) /\ Id(e) = Id(h)
  BY DEF Life, Id
<1>3. h.size \in Nat
  BY HeaderFacts
<1>4. /\ Len(SubSeq(text, 1, n)) = n
      /\ \A j \in 1 .. n : SubSeq(text, 1, n)[j] = text[j]
  OBVIOUS
<1>5. PICK t : t = printed[Life(h, r)]
  OBVIOUS
<1>6. Len(e.text) <= Len(t) /\ \A j \in 1 .. Len(e.text) : e.text[j] \in {Junk, t[j]}
  BY <1>1, <1>3, <1>4, <1>5 DEF Whole
<1>7. MaxText <= 1 => Id(e) \in severed \/ e.text = SubSeq(t, 1, Len(e.text))
  BY <1>1, <1>2, <1>4, <1>5
<1> QED BY <1>1, <1>2, <1>5, <1>6, <1>7 DEF PageOf, Whole

(* The text of a message in a queue.                                       *)
LEMMA QueueText ==
  ASSUME Types, LinkInv, QueueInv, NEW k \in Comm, queue[k] # <<>>, NEW h, h = Head(queue[k])
  PROVE  /\ h \in Header /\ 1 \in DOMAIN queue[k] /\ queue[k][1] = h /\ Id(h) \in DOMAIN pspool
         /\ pspool[Id(h)] \in Seq(Cell \union {Junk}) /\ Received(h, pspool[Id(h)])
         /\ printer # "killed"
<1>0. ServerTypes /\ DiskTypes
  BY DEF Types
<1>1. h \in Header /\ 1 \in DOMAIN queue[k] /\ queue[k][1] = h
  BY <1>0 DEF ServerTypes
<1>2. Id(h) \in DOMAIN pspool /\ Received(h, pspool[Id(h)])
  BY <1>1 DEF QueueInv
<1>3. printer \in {"up", "garbled"} /\ pspool # NoDir
  BY DEF LinkInv, PrinterInv
<1>4. pspool[Id(h)] \in Seq(Cell \union {Junk})
  BY <1>0, <1>2, <1>3 DEF DiskTypes
<1> QED BY <1>1, <1>2, <1>3, <1>4

LEMMA PaperStep ==
  ASSUME Types, FilesInv, LinkInv, LivesInv, QueueInv, PaperInv, [Next]_vars
  PROVE  PaperInv'
<1>0. NetworkTypes /\ ServerTypes
  BY DEF Types
<1>1. ASSUME NEW c \in CID, ComputerStep(c) PROVE PaperInv'
  BY <1>1, ComputerOnly, PaperSame
<1>2. ASSUME NEW k \in Comm, Win(k) \/ ReadHeader(k) \/ ReadText(k) \/ Put(k) PROVE PaperInv'
  <2>1. UNCHANGED <<paper, severed>>
    BY <1>2 DEF Win, ReadHeader, ReadText, Put, disk, history
  <2>2. ReadHeader(k) => printer # "killed"
    BY <1>0, Serving DEF ReadHeader
  <2>3. ~ReadHeader(k) => UNCHANGED printer
    BY <1>2 DEF Win, ReadText, Put
  <2> QED BY <2>1, <2>2, <2>3, PaperSame
<1>3. CASE Pages
  <2>1. PICK k \in Comm, h \in Header : \E e : Printed(k, h, e)
    BY <1>3, PageIs
  <2>2. PICK e : Printed(k, h, e)
    BY <2>1
  <2>3. /\ queue[k] # <<>> /\ h = Head(queue[k]) /\ paper' = Append(paper, e)
        /\ e = [cid |-> h.cid, pid |-> h.pid, type |-> h.type, text |-> pspool[Id(h)]]
        /\ UNCHANGED <<printer, severed>>
    BY <2>2 DEF Printed, history
  <2>4. PICK text \in Seq(Cell \union {Junk}) : text = pspool[Id(h)] /\ Received(h, text)
    BY <2>3, QueueText
  <2>5. e \in Sheet /\ e.cid = h.cid /\ e.pid = h.pid /\ e.text = text
    BY <2>3, <2>4 DEF Sheet, Header
  <2>6. PageOf(e, FALSE) /\ printer # "killed"
    BY <2>3, <2>4, <2>5, PageReceived, QueueText
  <2> QED BY <2>3, <2>5, <2>6, PaperMore
<1>4. CASE PrinterInit
  <2>1. paper' = <<>> /\ <<>> \in Seq(Sheet) /\ DOMAIN <<>> = {}
    BY <1>4 DEF PrinterInit
  <2> QED BY <2>1 DEF PaperInv, Sheet
<1>5. CASE Sigint
  BY <1>5, PaperSame DEF Sigint, history
<1>6. CASE KillPrinter
  <2>1. CASE UNCHANGED paper
    BY <1>6, <2>1, PaperSame DEF KillPrinter, history
  <2>2. CASE ~UNCHANGED paper
    <3>1. PICK k \in Comm, n \in 0 .. MaxText :
            /\ queue[k] # <<>>
            /\ LET m == Head(queue[k])
                   t == pspool[<<m.cid, m.pid>>]
               IN  /\ n <= Len(t)
                   /\ paper' = Append(paper, [cid |-> m.cid, pid |-> m.pid,
                                              type |-> "END_SPOOL", text |-> SubSeq(t, 1, n)])
      BY <1>6, <2>2 DEF KillPrinter
    <3>2. PICK h \in Header : h = Head(queue[k])
      BY <3>1, QueueText
    <3>3. PICK text \in Seq(Cell \union {Junk}) : text = pspool[Id(h)] /\ Received(h, text)
      BY <3>1, <3>2, QueueText
    <3>4. PICK e : e = [cid |-> h.cid, pid |-> h.pid, type |-> "END_SPOOL", text |-> SubSeq(text, 1, n)]
      OBVIOUS
    <3>5. n <= Len(text) /\ paper' = Append(paper, e)
      BY <3>1, <3>2, <3>3, <3>4 DEF Id
    <3>6. n \in Nat /\ SubSeq(text, 1, n) \in Seq(Cell \union {Junk})
      BY <3>5, Constants
    <3>7. e \in Sheet /\ e.cid = h.cid /\ e.pid = h.pid /\ e.text = SubSeq(text, 1, n)
      BY <3>4, <3>6 DEF Sheet, Header
    <3>8. PageOf(e, TRUE)
      BY <3>3, <3>5, <3>6, <3>7, PageTorn
    <3>9. printer # "killed" /\ printer' = "killed" /\ UNCHANGED severed
      BY <1>6 DEF KillPrinter, PrinterGone, history
    <3> QED BY <3>5, <3>7, <3>8, <3>9, PaperMore
  <2> QED BY <2>1, <2>2
<1>7. CASE UNCHANGED vars
  BY <1>7, PaperSame DEF vars, disk, server, history
<1> QED BY <1>1, <1>2, <1>3, <1>4, <1>5, <1>6, <1>7 DEF Next, Works, External, Serves, ComputerStep
-----------------------------------------------------------------------------
(* Pages that claim to be complete.                                        *)
LEMMA ClaimLife ==
  ASSUME Types, LivesInv, PaperInv, NEW i \in DOMAIN paper, ~Torn(i), NEW life, Claims(i, life)
  PROVE  /\ Frozen(life) /\ life[1] = paper[i].cid /\ life[2] = paper[i].pid
         /\ paper[i].text[1] = CellOf(life, 1)
<1>1. PICK e \in Sheet : e = paper[i]
  <2>1. paper \in Seq(Sheet)
    BY DEF PaperInv, Sheet
  <2> QED BY <2>1
<1>2. e.text # <<>> /\ e.text[1] # Junk /\ life = <<e.cid, e.pid, e.text[1].run>>
  BY <1>1 DEF Claims
<1>3. PICK r \in Run :
        LET t == printed[Life(e, r)] IN
          /\ Frozen(Life(e, r)) /\ Len(e.text) <= Len(t)
          /\ \A j \in 1 .. Len(e.text) : e.text[j] \in {Junk, t[j]}
  BY <1>1 DEF PaperInv, PageOf
<1>4. PICK l : l = Life(e, r)
  OBVIOUS
<1>5. PICK t : t = printed[l]
  OBVIOUS
<1>6. l \in DOMAIN printed /\ t \in Seq(Cell) /\ Frozen(l)
  BY <1>3, <1>4, <1>5 DEF Types, DiskTypes, Frozen
<1>7. Len(e.text) \in Nat /\ Len(e.text) # 0
  <2>1. PICK s \in Seq(Cell \union {Junk}) : s = e.text
    BY <1>1 DEF Sheet
  <2>2. s # <<>> => Len(s) # 0 /\ Len(s) \in Nat
    OBVIOUS
  <2> QED BY <1>2, <2>1, <2>2
<1>8. 1 \in 1 .. Len(e.text) /\ 1 \in DOMAIN t
  BY <1>3, <1>4, <1>5, <1>6, <1>7
<1>9. e.text[1] = t[1]
  BY <1>2, <1>3, <1>4, <1>5, <1>8
<1>10. t[1] = CellOf(l, 1)
  BY <1>5, <1>6, <1>8 DEF LivesInv, LifeOk
<1>11. l[3] = e.text[1].run /\ l = <<e.cid, e.pid, r>>
  BY <1>4, <1>9, <1>10 DEF CellOf, Life
<1>12. life = l
  BY <1>2, <1>11
<1> QED BY <1>1, <1>6, <1>9, <1>10, <1>11, <1>12

LEMMA ToHeader ==
  ASSUME Types, NEW c \in CID, ComputerStep(c), pc'[c] = "header"
  PROVE  Exit(c) \/ (Scan(c) /\ job'[c].type = "CPU_TERM")
<1>0. ComputerTypes
  BY DEF Types
<1>1. ~Down(c)
  BY <1>0 DEF Down, ComputerTypes
<1>2. ~Boot(c) /\ ~Connect(c) /\ ~PowerOff(c) /\ ~KillComputer(c) /\ ~InitSpool(c) /\ ~SpoolLine(c)
  BY <1>0, <1>1 DEF Boot, Connect, PowerOff, KillComputer, InitSpool, SpoolLine, Step,
                    ComputerTypes,
                    computer
<1>3. ~SendHeader(c) /\ ~SendFile(c) /\ ~Remove(c)
  BY <1>0, <1>1 DEF SendHeader, SendFile, Remove, Step, Write, Back, ComputerTypes
<1>4. Scan(c) => job'[c].type = "CPU_TERM"
  BY <1>0, <1>1 DEF Scan, ComputerTypes
<1> QED BY <1>2, <1>3, <1>4 DEF ComputerStep

LEMMA OnceComputer ==
  ASSUME Types, FilesInv, LinkInv, LivesInv, PaperInv, OnceInv, NEW c \in CID, ComputerStep(c)
  PROVE  OnceInv'
<1>0. ComputerTypes
  BY DEF Types
<1>1. UNCHANGED <<paper, printer>>
  BY ComputerOnly
<1>2. \A i, j \in DOMAIN paper : \A r \in Run : \A d \in CID : \A p \in PID :
        ~Torn(i) /\ ~Torn(j) /\ Claims(i, <<d, p, r>>) /\ Claims(j, <<d, p, r>>) => i = j
  BY DEF OnceInv
<1>3. ASSUME NEW i \in DOMAIN paper, NEW d \in CID, NEW p \in PID, NEW life,
             life = <<d, p, run'[d]>>, ~Torn(i), Claims(i, life)
      PROVE  /\ ~(pc'[d] = "header" /\ job'[d] = [pid |-> p, type |-> "END_SPOOL"])
             /\ \A h \in Header : InFlight(h)' /\ Id(h) = <<d, p>> => h.type = "CPU_TERM"
  <2>1. Frozen(life) /\ life \in DOMAIN printed /\ life[1] = d /\ life[2] = p
    BY <1>3, ClaimLife DEF Frozen
  <2>2. life[3] = run'[d] /\ life[3] \in Nat /\ life[3] <= run[d] /\ run[d] \in Nat
    <3>1. life[3] = run'[d] /\ life[3] <= run[d] /\ life[3] \in Run
      BY <1>3, <2>1 DEF LivesInv, LifeOk
    <3> QED BY <1>0, <3>1 DEF Run, ComputerTypes
  <2>3. run'[d] = run[d]
    <3>1. CASE d # c
      BY <3>1, Alone
    <3>2. CASE d = c /\ Boot(c)
      <4>1. run'[d] = run[d] + 1
        BY <1>0, <3>2 DEF Boot, ComputerTypes
      <4> QED BY <2>2, <4>1
    <3>3. CASE d = c /\ ~Boot(c)
      <4>1. CASE InitSpool(c) /\ ~Down(c)
        BY <3>3, <4>1 DEF InitSpool
      <4>2. CASE SpoolLine(c)
        BY <3>3, <4>2 DEF SpoolLine, computer
      <4> QED BY <3>3, <4>1, <4>2, QuietStep
    <3> QED BY <3>1, <3>2, <3>3
  <2>4. /\ ~(pc[d] = "header" /\ job[d] = [pid |-> p, type |-> "END_SPOOL"])
        /\ \A h \in Header : InFlight(h) /\ Id(h) = <<d, p>> => h.type = "CPU_TERM"
    BY <1>3, <2>3 DEF OnceInv
  <2>5. ASSUME pc'[d] = "header", job'[d] = [pid |-> p, type |-> "END_SPOOL"] PROVE FALSE
    <3>1. CASE d # c
      BY <2>4, <2>5, <3>1, Alone
    <3>2. CASE d = c /\ Exit(c)
      <4>1. PICK q \in alive[c] : job' = [job EXCEPT ![c] = [pid |-> q, type |-> "END_SPOOL"]]
        BY <3>2 DEF Exit
      <4>2. p = q /\ p \in alive[d]
        BY <1>0, <2>5, <3>2, <4>1 DEF ComputerTypes
      <4>3. life[3] = run[d]
        BY <2>2, <2>3
      <4> QED BY <2>1, <2>2, <4>2, <4>3 DEF Frozen
    <3>3. CASE d = c /\ ~Exit(c)
      BY <2>5, <3>3, ToHeader
    <3> QED BY <3>1, <3>2, <3>3
  <2>6. ASSUME NEW h \in Header, InFlight(h)', Id(h) = <<d, p>> PROVE h.type = "CPU_TERM"
    <3>1. CASE Sends(c, h) /\ pc[c] = "header"
      <4>1. h = [cid |-> c, pid |-> job[c].pid, size |-> Len(spool[File(c)]), type |-> job[c].type]
        BY <3>1 DEF Sends
      <4>2. c = d /\ job[c].pid = p /\ h.type = job[c].type
        BY <2>6, <4>1 DEF Id
      <4>3. job[c] = [pid |-> job[c].pid, type |-> job[c].type]
            /\ job[c].type \in {"END_SPOOL", "CPU_TERM"}
        BY <1>0 DEF ComputerTypes
      <4> QED BY <2>4, <3>1, <4>2, <4>3
    <3> QED BY <2>4, <2>6, <3>1, FlightComputer
  <2> QED BY <2>5, <2>6
<1>4. \A i \in DOMAIN paper : Torn(i)' <=> Torn(i)
  BY <1>1 DEF Torn
<1>5. \A i \in DOMAIN paper : \A life : Claims(i, life)' <=> Claims(i, life)
  BY <1>1 DEF Claims
<1>6. \A i \in DOMAIN paper : \A d \in CID : \A p \in PID :
        ~Torn(i)' /\ Claims(i, <<d, p, run[d]>>)' =>
          /\ ~(pc'[d] = "header" /\ job'[d] = [pid |-> p, type |-> "END_SPOOL"])
          /\ \A h \in Header : InFlight(h)' /\ Id(h) = <<d, p>> => h.type = "CPU_TERM"
  <2> SUFFICES ASSUME NEW i \in DOMAIN paper, NEW d \in CID, NEW p \in PID, ~Torn(i)',
                      NEW life, life = <<d, p, run'[d]>>, Claims(i, life)'
               PROVE  /\ ~(pc'[d] = "header" /\ job'[d] = [pid |-> p, type |-> "END_SPOOL"])
                      /\ \A h \in Header : InFlight(h)' /\ Id(h) = <<d, p>> => h.type = "CPU_TERM"
    BY DEF Claims
  <2>1. ~Torn(i) /\ Claims(i, life)
    BY <1>4, <1>5
  <2> QED BY <1>3, <2>1
<1>7. \A i, j \in DOMAIN paper : \A r \in Run : \A d \in CID : \A p \in PID :
        ~Torn(i)' /\ ~Torn(j)' /\ Claims(i, <<d, p, r>>)' /\ Claims(j, <<d, p, r>>)' => i = j
  <2> SUFFICES ASSUME NEW i \in DOMAIN paper, NEW j \in DOMAIN paper, NEW r \in Run, NEW d \in CID,
                      NEW p \in PID, ~Torn(i)', ~Torn(j)',
                      Claims(i, <<d, p, r>>)', Claims(j, <<d, p, r>>)'
               PROVE  i = j
    OBVIOUS
  <2>1. PICK life : life = <<d, p, r>>
    OBVIOUS
  <2>2. Claims(i, life)'
    BY <2>1 DEF Claims
  <2>3. Claims(j, life)'
    BY <2>1 DEF Claims
  <2> QED BY <1>2, <1>4, <1>5, <2>1, <2>2, <2>3
<1> QED BY <1>1, <1>6, <1>7 DEF OnceInv, Id

LEMMA OnceSame ==
  ASSUME OnceInv, UNCHANGED computer, \A h \in Header : InFlight(h)' => InFlight(h),
         \A i \in DOMAIN paper' :
           Torn(i)' \/ (i \in DOMAIN paper /\ paper'[i] = paper[i] /\ ~Torn(i))
  PROVE  OnceInv'
<1>1. ASSUME NEW i \in DOMAIN paper', ~Torn(i)'
      PROVE  i \in DOMAIN paper /\ ~Torn(i) /\ \A life : Claims(i, life)' <=> Claims(i, life)
  BY <1>1 DEF Claims
<1>2. \A i \in DOMAIN paper' : \A d \in CID : \A p \in PID :
        ~Torn(i)' /\ Claims(i, <<d, p, run[d]>>)' =>
          /\ ~(pc'[d] = "header" /\ job'[d] = [pid |-> p, type |-> "END_SPOOL"])
          /\ \A h \in Header : InFlight(h)' /\ Id(h) = <<d, p>> => h.type = "CPU_TERM"
  <2> SUFFICES ASSUME NEW i \in DOMAIN paper', NEW d \in CID, NEW p \in PID, ~Torn(i)',
                      NEW life, life = <<d, p, run'[d]>>, Claims(i, life)'
               PROVE  /\ ~(pc'[d] = "header" /\ job'[d] = [pid |-> p, type |-> "END_SPOOL"])
                      /\ \A h \in Header : InFlight(h)' /\ Id(h) = <<d, p>> => h.type = "CPU_TERM"
    BY DEF Claims
  <2>1. life = <<d, p, run[d]>> /\ pc'[d] = pc[d] /\ job'[d] = job[d]
    BY DEF computer
  <2> QED BY <1>1, <2>1 DEF OnceInv
<1>3. \A i, j \in DOMAIN paper' : \A r \in Run : \A d \in CID : \A p \in PID :
        ~Torn(i)' /\ ~Torn(j)' /\ Claims(i, <<d, p, r>>)' /\ Claims(j, <<d, p, r>>)' => i = j
  <2> SUFFICES ASSUME NEW i \in DOMAIN paper', NEW j \in DOMAIN paper', NEW r \in Run,
                      NEW d \in CID,
                      NEW p \in PID, ~Torn(i)', ~Torn(j)',
                      Claims(i, <<d, p, r>>)', Claims(j, <<d, p, r>>)'
               PROVE  i = j
    OBVIOUS
  <2>1. PICK life : life = <<d, p, r>>
    OBVIOUS
  <2>2. Claims(i, life)' /\ Claims(j, life)'
    BY <2>1 DEF Claims
  <2> QED BY <1>1, <2>1, <2>2 DEF OnceInv
<1> QED BY <1>2, <1>3 DEF OnceInv, Id

LEMMA OncePage ==
  ASSUME Types, LinkInv, LivesInv, SpoolInv, QueueInv, SentInv, ApartInv, PaperInv, OnceInv,
         NEW k \in Comm, NEW h \in Header, NEW e, Printed(k, h, e)
  PROVE  OnceInv'
<1>0. ServerTypes /\ ComputerTypes
  BY DEF Types
<1>1. /\ UNCHANGED <<computer, sock, comm, printer>> /\ queue[k] # <<>> /\ h = Head(queue[k])
      /\ queue'[k] = Tail(queue[k]) /\ \A j \in Comm : j # k => queue'[j] = queue[j]
      /\ e = [cid |-> h.cid, pid |-> h.pid, type |-> h.type, text |-> pspool[Id(h)]]
      /\ paper' = Append(paper, e)
  BY DEF Printed, network
<1>2. /\ 1 \in DOMAIN queue[k] /\ queue[k][1] = h /\ Received(h, pspool[Id(h)])
      /\ pspool[Id(h)] \in Seq(Cell \union {Junk}) /\ printer # "killed"
  BY <1>1, QueueText
<1>3. InFlight(h)
  BY <1>2 DEF InFlight
<1>4. ASSUME NEW x \in Header, InFlight(x)' PROVE InFlight(x) /\ Id(x) # Id(h)
  <2>1. \A i \in DOMAIN queue'[k] :
          i + 1 \in DOMAIN queue[k] /\ i + 1 # 1 /\ queue'[k][i] = queue[k][i + 1]
    BY <1>0, <1>1, QueueTail
  <2>2. ASSUME NEW j \in Comm, NEW i \in DOMAIN queue'[j], queue'[j][i] = x
        PROVE  InFlight(x) /\ Id(x) # Id(h)
    <3>1. CASE j = k
      BY <1>2, <2>1, <2>2, <3>1 DEF InFlight, ApartInv
    <3>2. CASE j # k
      BY <1>1, <1>2, <2>2, <3>2 DEF InFlight, ApartInv
    <3> QED BY <3>1, <3>2
  <2>3. ASSUME NEW d \in CID, NEW i \in Heads(sock[d]), sock[d][i] = x
        PROVE  InFlight(x) /\ Id(x) # Id(h)
    BY <1>2, <2>3 DEF InFlight, ApartInv
  <2>4. ASSUME NEW j \in Comm, comm[j].pc \in {"text", "put"}, comm[j].msg = x
        PROVE  InFlight(x) /\ Id(x) # Id(h)
    BY <1>2, <2>4 DEF InFlight, ApartInv
  <2> QED BY <1>1, <1>4, <2>2, <2>3, <2>4 DEF InFlight
<1>5. PICK c \in CID, p \in PID : c = h.cid /\ p = h.pid
  BY HeaderFacts
<1>6. SentOf(c, p, h.type) /\ h.type \in {"END_SPOOL", "CPU_TERM"}
  BY <1>3, <1>5 DEF SentInv, Header
<1>7. PICK s \in Seq(Sheet), new \in Nat : s = paper /\ new = Len(s) + 1
  <2>1. paper \in Seq(Sheet)
    BY DEF PaperInv, Sheet
  <2>2. Len(paper) + 1 \in Nat
    BY <2>1
  <2> QED BY <2>1, <2>2
<1>8. /\ DOMAIN paper' = DOMAIN paper \union {new} /\ new \notin DOMAIN paper /\ paper'[new] = e
      /\ \A i \in DOMAIN paper : paper'[i] = paper[i]
  BY <1>1, <1>7
<1>9. \A i \in DOMAIN paper' : ~Torn(i)' /\ (i \in DOMAIN paper => ~Torn(i))
  BY <1>1, <1>2 DEF Torn
<1>10. ASSUME NEW life, Claims(new, life)'
       PROVE  life = <<c, p, run[c]>> /\ h.type = "END_SPOOL" /\ Frozen(life)
  <2>1. PICK text \in Seq(Cell \union {Junk}) : text = pspool[Id(h)] /\ Received(h, text)
    BY <1>2
  <2>2. e.type = "END_SPOOL" /\ text # <<>> /\ text[1] # Junk /\ life = <<c, p, text[1].run>>
        /\ h.type = "END_SPOOL"
    BY <1>1, <1>5, <1>8, <1>10, <2>1 DEF Claims
  <2>3. PICK r \in Run :
          LET t == printed[Life(h, r)] IN
            /\ Whole(h, r) /\ Len(text) = h.size
            /\ \A j \in 1 .. h.size : text[j] \in {Junk, t[j]}
    BY <2>1 DEF Received
  <2>4. PICK l : l = Life(h, r)
    OBVIOUS
  <2>5. PICK t : t = printed[l]
    OBVIOUS
  <2>6. l \in DOMAIN printed /\ Frozen(l) /\ t \in Seq(Cell) /\ Len(t) = h.size /\ r = run[c]
    BY <1>5, <2>2, <2>3, <2>4, <2>5 DEF Whole, Frozen, Types, DiskTypes
  <2>7. Len(text) # 0 /\ Len(text) \in Nat
    BY <2>1, <2>2
  <2>8. 1 \in 1 .. h.size /\ 1 \in DOMAIN t
    BY <2>3, <2>6, <2>7
  <2>9. text[1] = t[1]
    BY <2>2, <2>3, <2>4, <2>5, <2>8
  <2>10. t[1] = CellOf(l, 1)
    BY <2>5, <2>6, <2>8 DEF LivesInv, LifeOk
  <2>11. text[1].run = r /\ l = <<c, p, r>>
    BY <1>5, <2>4, <2>9, <2>10 DEF CellOf, Life
  <2> QED BY <2>2, <2>6, <2>11
<1>11. \A i \in DOMAIN paper : \A life : Claims(i, life)' <=> Claims(i, life)
  BY <1>8 DEF Claims
<1>12. ASSUME NEW i \in DOMAIN paper, NEW life, Claims(i, life), Claims(new, life)' PROVE FALSE
  <2>1. life = <<c, p, run[c]>> /\ h.type = "END_SPOOL"
    BY <1>10, <1>12
  <2>2. Id(h) = <<c, p>> /\ ~Torn(i)
    BY <1>5, <1>8, <1>9 DEF Id
  <2> QED BY <1>3, <1>5, <1>12, <2>1, <2>2 DEF OnceInv
<1>13. \A i, j \in DOMAIN paper' : \A r \in Run : \A d \in CID : \A q \in PID :
         ~Torn(i)' /\ ~Torn(j)' /\ Claims(i, <<d, q, r>>)' /\ Claims(j, <<d, q, r>>)' => i = j
  <2> SUFFICES ASSUME NEW i \in DOMAIN paper', NEW j \in DOMAIN paper', NEW r \in Run,
                      NEW d \in CID, NEW q \in PID, ~Torn(i)', ~Torn(j)',
                      Claims(i, <<d, q, r>>)', Claims(j, <<d, q, r>>)'
               PROVE  i = j
    OBVIOUS
  <2>1. PICK life : life = <<d, q, r>>
    OBVIOUS
  <2>2. Claims(i, life)' /\ Claims(j, life)'
    BY <2>1 DEF Claims
  <2>3. CASE i \in DOMAIN paper /\ j \in DOMAIN paper
    <3>1. Claims(i, life) /\ Claims(j, life) /\ ~Torn(i) /\ ~Torn(j)
      BY <1>8, <1>9, <1>11, <2>2, <2>3
    <3> QED BY <2>1, <3>1, <2>3 DEF OnceInv
  <2>4. CASE i \notin DOMAIN paper \/ j \notin DOMAIN paper
    BY <1>8, <1>11, <1>12, <2>2, <2>4
  <2> QED BY <2>3, <2>4
<1>14. ASSUME NEW i \in DOMAIN paper', NEW d \in CID, NEW q \in PID,
              NEW life, life = <<d, q, run[d]>>, Claims(i, life)'
       PROVE  /\ ~(pc[d] = "header" /\ job[d] = [pid |-> q, type |-> "END_SPOOL"])
              /\ \A x \in Header : InFlight(x)' /\ Id(x) = <<d, q>> => x.type = "CPU_TERM"
  <2>1. CASE i \in DOMAIN paper
    BY <1>4, <1>9, <1>11, <1>14, <2>1 DEF OnceInv
  <2>2. CASE i = new
    <3>1. d = c /\ q = p /\ h.type = "END_SPOOL"
      BY <1>10, <1>14, <2>2
    <3>2. \A x \in Header : InFlight(x)' => Id(x) # <<d, q>>
      BY <1>4, <1>5, <3>1 DEF Id
    <3>3. ASSUME pc[d] = "header", job[d] = [pid |-> q, type |-> "END_SPOOL"] PROVE FALSE
      <4>1. <<d, q>> \in Files
        BY <3>3 DEF SpoolInv, Sending, File
      <4> QED BY <1>6, <3>1, <3>3, <4>1 DEF SentOf
    <3> QED BY <3>2, <3>3
  <2> QED BY <1>8, <2>1, <2>2
<1>15. \A i \in DOMAIN paper' : \A d \in CID : \A q \in PID :
         ~Torn(i)' /\ Claims(i, <<d, q, run[d]>>)' =>
           /\ ~(pc'[d] = "header" /\ job'[d] = [pid |-> q, type |-> "END_SPOOL"])
           /\ \A x \in Header : InFlight(x)' /\ Id(x) = <<d, q>> => x.type = "CPU_TERM"
  <2> SUFFICES ASSUME NEW i \in DOMAIN paper', NEW d \in CID, NEW q \in PID,
                      NEW life, life = <<d, q, run'[d]>>, Claims(i, life)'
               PROVE  /\ ~(pc'[d] = "header" /\ job'[d] = [pid |-> q, type |-> "END_SPOOL"])
                      /\ \A x \in Header : InFlight(x)' /\ Id(x) = <<d, q>> => x.type = "CPU_TERM"
    BY DEF Claims
  <2>1. life = <<d, q, run[d]>> /\ pc'[d] = pc[d] /\ job'[d] = job[d]
    BY <1>1 DEF computer
  <2> QED BY <1>14, <2>1
<1> QED BY <1>13, <1>15 DEF OnceInv, Id

LEMMA OnceStep ==
  ASSUME Types, FilesInv, LinkInv, LivesInv, SpoolInv, QueueInv, SentInv, ApartInv, PaperInv,
         OnceInv, [Next]_vars
  PROVE  OnceInv'
<1>0. NetworkTypes /\ ServerTypes
  BY DEF Types
<1>1. ASSUME NEW c \in CID, ComputerStep(c) PROVE OnceInv'
  BY <1>1, OnceComputer
<1>2. ASSUME NEW k \in Comm, Win(k) \/ ReadHeader(k) \/ ReadText(k) \/ Put(k) PROVE OnceInv'
  <2>1. UNCHANGED <<paper, computer>>
    BY <1>2 DEF Win, ReadHeader, ReadText, Put, disk
  <2>2. ReadHeader(k) => printer # "killed"
    BY <1>0, Serving DEF ReadHeader
  <2>3. ~ReadHeader(k) => UNCHANGED printer
    BY <1>2 DEF Win, ReadText, Put
  <2>4. \A i \in DOMAIN paper : Torn(i) => Torn(i)'
    BY <2>1, <2>2, <2>3 DEF Torn
  <2>5. \A h \in Header : InFlight(h)' => InFlight(h)
    BY <1>2, FlightServer
  <2> QED BY <2>1, <2>4, <2>5, OnceSame
<1>3. CASE Pages
  BY <1>3, PageIs, OncePage
<1>4. CASE PrinterInit \/ Sigint \/ KillPrinter
  <2>1. UNCHANGED computer
    BY <1>4 DEF PrinterInit, Sigint, KillPrinter
  <2>2. \A h \in Header : InFlight(h)' => InFlight(h)
    BY <1>4, FlightServer
  <2>3. \A i \in DOMAIN paper' :
          Torn(i)' \/ (i \in DOMAIN paper /\ paper'[i] = paper[i] /\ ~Torn(i))
    <3>1. CASE PrinterInit
      <4>1. paper' = <<>> /\ DOMAIN <<>> = {}
        BY <3>1 DEF PrinterInit
      <4> QED BY <4>1
    <3>2. CASE Sigint
      BY <3>2 DEF Sigint, Torn
    <3>3. CASE KillPrinter
      <4>1. printer = "up" /\ printer' = "killed" /\ (paper' = paper \/ \E e : paper' = Append(paper, e))
        BY <3>3 DEF KillPrinter, PrinterGone
      <4>2. PICK s \in Seq(Sheet) : s = paper
        BY DEF PaperInv, Sheet
      <4>3. \A e : \A i \in DOMAIN Append(s, e) :
              i = Len(Append(s, e)) \/ (i \in DOMAIN s /\ Append(s, e)[i] = s[i])
        OBVIOUS
      <4> QED BY <4>1, <4>2, <4>3 DEF Torn
    <3> QED BY <1>4, <3>1, <3>2, <3>3
  <2> QED BY <2>1, <2>2, <2>3, OnceSame
<1>5. CASE UNCHANGED vars
  BY <1>5 DEF vars, disk, computer, network, server, history, OnceInv, Torn, Claims, InFlight, Id
<1> QED BY <1>1, <1>2, <1>3, <1>4, <1>5 DEF Next, Works, External, Serves, ComputerStep
-----------------------------------------------------------------------------
(* The invariant on messages holds at the start, and in every step.        *)
LEMMA MessageInit == Init => MessageInv
<1> SUFFICES ASSUME Init PROVE MessageInv
  OBVIOUS
<1>1. DOMAIN printed = {} /\ DOMAIN paper = {} /\ Files = {} /\ paper \in Seq(Sheet)
  BY EmptyDir DEF Init, Files
<1>2. /\ \A c \in CID : sock[c] = <<>> /\ DOMAIN sock[c] = {} /\ pc[c] = "down"
      /\ \A k \in Comm : comm[k] = Free /\ DOMAIN queue[k] = {}
      /\ printer = "down"
  BY DEF Init
<1>3. \A c \in CID : Heads(sock[c]) = {}
  BY <1>2 DEF Heads
<1>4. LivesInv /\ SpoolInv
  BY <1>1, <1>2 DEF LivesInv, SpoolInv, Sending
<1>5. SockInv /\ HandInv /\ QueueInv /\ ApartInv /\ \A h \in Header : ~InFlight(h)
  <2>1. \A k \in Comm : comm[k].pc = "idle" /\ comm[k].text = <<>>
    BY <1>2 DEF Free
  <2>2. SockInv /\ HandInv /\ QueueInv
    BY <1>2, <1>3, <2>1 DEF SockInv, HandInv, QueueInv
  <2>3. ApartInv
    BY <1>2, <1>3, <2>1 DEF ApartInv
  <2>4. \A h \in Header : ~InFlight(h)
    BY <1>2, <1>3, <2>1 DEF InFlight
  <2> QED BY <2>2, <2>3, <2>4
<1>6. PaperInv /\ OnceInv
  BY <1>1 DEF PaperInv, OnceInv, Sheet
<1> QED BY <1>4, <1>5, <1>6 DEF MessageInv, SentInv

LEMMA MessagesSame ==
  ASSUME MessageInv, UNCHANGED vars
  PROVE  SockInv' /\ HandInv' /\ QueueInv' /\ SentInv' /\ ApartInv'
<1> USE DEF vars, disk, computer, network, server, history
<1>1. SockInv'
  <2>1. \A c, h, i : Carried(c, h, i)' <=> Carried(c, h, i)
    BY DEF Carried, Whole, Frozen, Id, Life, File
  <2> QED BY <2>1 DEF MessageInv, SockInv
<1>2. \A h, text : Received(h, text)' <=> Received(h, text)
  BY DEF Received, Whole, Frozen, Id, Life
<1>3. \A c, h : Carried(c, h, 0)' <=> Carried(c, h, 0)
  BY DEF Carried, Whole, Frozen, Id, Life, File
<1>4. HandInv' /\ QueueInv'
  BY <1>2, <1>3 DEF MessageInv, HandInv, QueueInv, Id
<1>5. SentInv' /\ ApartInv'
  BY DEF MessageInv, SentInv, SentOf, InFlight, ApartInv, Id, Files
<1> QED BY <1>1, <1>4, <1>5

LEMMA MessageStep == DeliveryInv /\ MessageInv /\ [Next]_vars => MessageInv'
<1> SUFFICES ASSUME DeliveryInv, MessageInv, [Next]_vars PROVE MessageInv'
  OBVIOUS
<1> USE DEF DeliveryInv, MessageInv
<1>1. LivesInv' /\ PaperInv' /\ OnceInv'
  BY LivesStep, PaperStep, OnceStep
<1>2. ASSUME NEW c \in CID, ComputerStep(c) PROVE MessageInv'
  <2>1. SpoolInv' /\ SockInv' /\ HandInv' /\ QueueInv'
    BY <1>2, SpoolStep, MessagesComputer
  <2>2. SentInv' /\ ApartInv'
    BY <1>2, SentComputer, ApartComputer
  <2> QED BY <1>1, <2>1, <2>2
<1>3. ASSUME UNCHANGED <<computer, printed>>, spool' = spool \/ (spool = NoFiles /\ spool' = NoDir),
             \A h \in Header : InFlight(h)' => InFlight(h)
      PROVE  SpoolInv' /\ SentInv'
  <2>1. SpoolInv'
    BY <1>3, SpoolServer
  <2>2. Files' \subseteq Files
    BY <1>3 DEF Files
  <2> QED BY <1>3, <2>1, <2>2, SentServer
<1>4. ASSUME NEW k \in Comm, Win(k) \/ ReadHeader(k) \/ ReadText(k) \/ Put(k) PROVE MessageInv'
  <2>1. SockInv' /\ HandInv' /\ QueueInv'
    <3>1. CASE Win(k)
      BY <3>1, MessagesWin
    <3>2. CASE ReadHeader(k)
      BY <3>2, HeaderIs, MessagesHeader
    <3>3. CASE ReadText(k)
      BY <3>3, TextIs, MessagesText
    <3>4. CASE Put(k)
      BY <3>4, PutIs, MessagesPut
    <3> QED BY <1>4, <3>1, <3>2, <3>3, <3>4
  <2>2. UNCHANGED <<computer, printed, spool>>
    BY <1>4 DEF Win, ReadHeader, ReadText, Put, disk, history
  <2>3. SpoolInv' /\ SentInv'
    BY <1>3, <1>4, <2>2, FlightServer
  <2>4. ApartInv'
    BY <1>4, ApartServer
  <2> QED BY <1>1, <2>1, <2>3, <2>4
<1>5. CASE Pages \/ PrinterInit \/ Sigint \/ KillPrinter
  <2>1. SockInv' /\ HandInv' /\ QueueInv'
    <3>1. CASE Pages
      BY <3>1, PageIs, MessagesPage
    <3> QED BY <1>5, <3>1, MessagesPrinter
  <2>2. /\ UNCHANGED <<computer, printed>>
        /\ spool' = spool \/ (spool = NoFiles /\ spool' = NoDir)
    BY <1>5 DEF Pages, Page, PrinterInit, empty_dir, Sigint, KillPrinter, history
  <2>3. SpoolInv' /\ SentInv'
    BY <1>3, <1>5, <2>2, FlightServer
  <2>4. ApartInv'
    BY <1>5, ApartServer
  <2> QED BY <1>1, <2>1, <2>3, <2>4
<1>6. CASE UNCHANGED vars
  <2>1. SpoolInv'
    BY <1>6, SpoolServer DEF vars, disk, history
  <2> QED BY <1>1, <1>6, <2>1, MessagesSame
<1> QED BY <1>2, <1>4, <1>5, <1>6 DEF Next, Works, External, Serves, ComputerStep

LEMMA MessagesCorrect == Spec => [](DeliveryInv /\ MessageInv)
<1>1. Init => DeliveryInv /\ MessageInv
  BY DeliveryInit, MessageInit
<1>2. DeliveryInv /\ MessageInv /\ [Next]_vars => (DeliveryInv /\ MessageInv)'
  BY DeliveryStep, MessageStep
<1> QED BY <1>1, <1>2, PTL DEF Spec

(* Of one life: each cell of a page is the cell at that place of what one  *)
(* life of the process the page names has spooled, or what malloc returned *)
(* for a cell that did not come (the short read of printer.c); never of    *)
(* another process, computer or run, and never of another page.            *)
OfOneLife ==
  \A i \in DOMAIN paper :
    LET e == paper[i] IN
      \E r \in Lives(e.cid, e.pid) :
        LET t == printed[<<e.cid, e.pid, r>>] IN
          /\ Len(e.text) <= Len(t)
          /\ \A j \in 1 .. Len(e.text) : e.text[j] \in {Junk, t[j]}

THEOREM NoMixture == Spec => []OfOneLife
<1>1. ASSUME MessageInv PROVE OfOneLife
  <2> SUFFICES ASSUME NEW i \in DOMAIN paper, NEW e, e = paper[i]
               PROVE  \E r \in Lives(e.cid, e.pid) :
                        LET t == printed[<<e.cid, e.pid, r>>] IN
                          /\ Len(e.text) <= Len(t)
                          /\ \A j \in 1 .. Len(e.text) : e.text[j] \in {Junk, t[j]}
    BY DEF OfOneLife
  <2>1. PageOf(e, FALSE) \/ PageOf(e, TRUE)
    BY <1>1 DEF MessageInv, PaperInv
  <2> QED BY <2>1 DEF PageOf, Frozen, Life, Lives
<1> QED BY <1>1, MessagesCorrect, PTL

(* PagesFaithful: when a text comes in one piece (MaxText <= 1, no short   *)
(* read), a page has all that one life of the process it names has spooled,*)
(* unless its computer was killed at sending it, or the printer at printing*)
(* it (print_end_spool and printer_end_spool).                             *)
THEOREM WholePages ==
  ASSUME MaxText <= 1
  PROVE  Spec => []PagesFaithful
<1>1. ASSUME MessageInv PROVE PagesFaithful
  <2> SUFFICES ASSUME NEW i \in DOMAIN paper, NEW e, e = paper[i]
               PROVE  \/ <<e.cid, e.pid>> \in severed
                      \/ \E r \in Lives(e.cid, e.pid) :
                           LET t == printed[<<e.cid, e.pid, r>>] IN
                             \/ e.text = t
                             \/ /\ Torn(i) /\ Len(e.text) <= Len(t)
                                /\ e.text = SubSeq(t, 1, Len(e.text))
    BY DEF PagesFaithful
  <2>1. PageOf(e, FALSE) \/ (Torn(i) /\ PageOf(e, TRUE))
    BY <1>1 DEF MessageInv, PaperInv
  <2> QED BY <2>1 DEF PageOf, Frozen, Life, Lives, Id
<1> QED BY <1>1, MessagesCorrect, PTL

(* CompleteOnce: no life of a process has two pages that claim to be       *)
(* complete (the file left by a kill is sent as CPU_TERM, print_terminate).*)
THEOREM PrintedOnce == Spec => []CompleteOnce
<1>1. ASSUME DeliveryInv, MessageInv PROVE CompleteOnce
  <2> SUFFICES ASSUME NEW i \in DOMAIN paper, NEW j \in DOMAIN paper, i # j,
                      paper[i].text = paper[j].text, paper[i].text # <<>>, ~Torn(i), ~Torn(j),
                      paper[i].type = "END_SPOOL", paper[i].text[1] # Junk,
                      paper[j].type # "CPU_TERM"
               PROVE  FALSE
    BY DEF CompleteOnce
  <2>1. paper[i] \in Sheet /\ paper[j] \in Sheet
    <3>1. paper \in Seq(Sheet)
      BY <1>1 DEF MessageInv, PaperInv, Sheet
    <3> QED BY <3>1
  <2>2. paper[j].type = "END_SPOOL"
    BY <2>1 DEF Sheet
  <2>3. PICK life : life = <<paper[i].cid, paper[i].pid, paper[i].text[1].run>>
    OBVIOUS
  <2>4. PICK other : other = <<paper[j].cid, paper[j].pid, paper[j].text[1].run>>
    OBVIOUS
  <2>5. Claims(i, life) /\ Claims(j, other)
    BY <2>2, <2>3, <2>4 DEF Claims
  <2>6. /\ Frozen(life) /\ paper[i].text[1] = CellOf(life, 1)
        /\ Frozen(other) /\ paper[j].text[1] = CellOf(other, 1)
    BY <1>1, <2>5, ClaimLife DEF DeliveryInv, MessageInv
  <2>7. life \in CID \X PID \X Run /\ other \in CID \X PID \X Run
    BY <1>1, <2>6 DEF MessageInv, LivesInv, LifeOk, Frozen
  <2>8. IdOf(life) = IdOf(other) /\ life[3] = other[3]
    BY <2>6 DEF CellOf
  <2>9. life = other
    BY <2>7, <2>8 DEF IdOf
  <2>10. PICK c \in CID, p \in PID, r \in Run : life = <<c, p, r>>
    BY <2>7
  <2> QED BY <1>1, <2>5, <2>9, <2>10 DEF MessageInv, OnceInv
<1> QED BY <1>1, MessagesCorrect, PTL
-----------------------------------------------------------------------------
(* While the printer stays up every computer that runs is connected.       *)
LEMMA StartComputer ==
  ASSUME Types, FilesInv, LinkInv, StartInv, NEW c \in CID, ComputerStep(c)
  PROVE  StartInv'
<1>0. ComputerTypes /\ NetworkTypes
  BY DEF Types
<1>1. UNCHANGED <<printer, starts>>
  BY ComputerOnly
<1>2. \A d \in CID : d # c => pc'[d] = pc[d] /\ link'[d] = link[d]
  BY Alone
<1>3. CASE starts = 0
  <2>1. /\ printer = "down" /\ DOMAIN printed = {} /\ pc[c] \in {"down", "connect"} /\ link[c] = "none"
        /\ \A d \in CID : pc[d] \in {"down", "connect"} /\ link[d] = "none"
    BY <1>3 DEF StartInv
  <2>2. Boot(c) \/ (Connect(c) /\ Down(c)) \/ (KillComputer(c) /\ Down(c))
    BY <1>0, <2>1 DEF ComputerStep, Connect, PowerOff, KillComputer, InitSpool, SpoolLine, Exit,
                      Scan,
                      SendHeader, SendFile, Remove, Step
  <2>3. pc'[c] \in {"down", "connect"} /\ link'[c] = "none"
    <3>1. CASE Boot(c)
      BY <1>0, <2>1, <3>1 DEF Boot, Step, ComputerTypes, network
    <3>2. CASE Down(c)
      BY <1>0, <2>1, <3>2 DEF Down, ComputerTypes, NetworkTypes
    <3> QED BY <2>2, <3>1, <3>2
  <2>4. printed' = printed
    BY <2>2 DEF Boot, Connect, KillComputer, history
  <2> QED BY <1>1, <1>2, <1>3, <2>1, <2>3, <2>4 DEF StartInv
<1>4. CASE printer \in {"up", "garbled"} /\ starts = 1
  <2>1. pc[c] \notin {"down", "connect"} => link[c] = "open"
    BY <1>4 DEF StartInv
  <2>2. pc'[c] \notin {"down", "connect"} => link'[c] = "open"
    <3>1. CASE Down(c)
      BY <1>0, <3>1 DEF Down, ComputerTypes
    <3>2. CASE Boot(c)
      BY <1>0, <3>2 DEF Boot, Step, ComputerTypes
    <3>3. CASE Connect(c) /\ ~Down(c)
      BY <1>0, <3>3 DEF Connect, NetworkTypes
    <3>4. CASE ~Down(c) /\ ~Boot(c) /\ ~Connect(c)
      <4>1. pc[c] \notin {"down", "connect"} /\ link'[c] = link[c]
        BY <1>0, <3>4 DEF ComputerStep, PowerOff, KillComputer, InitSpool, SpoolLine, Exit, Scan,
                          SendHeader, SendFile, Remove, Step, Write, network
      <4> QED BY <2>1, <4>1
    <3> QED BY <3>1, <3>2, <3>3, <3>4
  <2> QED BY <1>1, <1>2, <1>4, <2>2 DEF StartInv
<1>5. CASE starts # 0 /\ ~(printer \in {"up", "garbled"} /\ starts = 1)
  BY <1>1, <1>5 DEF StartInv
<1> QED BY <1>3, <1>4, <1>5

LEMMA StartStep ==
  ASSUME Types, FilesInv, LinkInv, StartInv, [Next]_vars
  PROVE  StartInv'
<1>0. ComputerTypes /\ NetworkTypes /\ ServerTypes
  BY DEF Types
<1>1. ASSUME NEW c \in CID, ComputerStep(c) PROVE StartInv'
  BY <1>1, StartComputer
<1>2. ASSUME NEW k \in Comm, ReadHeader(k) PROVE StartInv'
  <2>1. PICK c \in CID : HeaderRead(c, k)
    BY <1>2, HeaderIs
  <2>2. UNCHANGED <<computer, starts, printed>> /\ printer \in {"up", "garbled"}
    BY <1>0, <2>1, Serving DEF HeaderRead, Serve, history
  <2>3. \A d \in CID : link'[d] = link[d] \/ (link[d] = "closed" /\ link'[d] # "open")
    BY <2>1 DEF HeaderRead, Serve
  <2>4. \A d \in CID : pc[d] \notin {"down", "connect"} => link[d] # "closed"
    BY DEF LinkInv, LinkOf
  <2>5. starts # 0
    BY <2>2 DEF StartInv
  <2> QED BY <2>2, <2>3, <2>4, <2>5 DEF StartInv, computer
<1>3. CASE UNCHANGED <<computer, printed, link, printer, starts>>
  BY <1>3 DEF StartInv, computer
<1>4. ASSUME NEW k \in Comm, Win(k) \/ ReadText(k) \/ Put(k) PROVE StartInv'
  BY <1>3, <1>4 DEF Win, ReadText, Put, network, history
<1>5. CASE Pages
  BY <1>3, <1>5 DEF Pages, Page, network, history
<1>6. CASE PrinterInit
  <2>1. starts' = starts + 1 /\ starts \in Nat /\ UNCHANGED <<computer, link>>
    BY <1>0, <1>6, Constants DEF PrinterInit, ServerTypes, network
  <2>2. starts' # 0 /\ (starts' = 1 => starts = 0)
    BY <2>1
  <2> QED BY <2>1, <2>2 DEF StartInv, computer
<1>7. CASE Sigint \/ KillPrinter
  <2>1. printer' \notin {"up", "garbled"} /\ UNCHANGED starts /\ printer = "up"
    BY <1>7 DEF Sigint, KillPrinter, PrinterGone
  <2>2. starts # 0
    BY <2>1 DEF StartInv
  <2> QED BY <2>1, <2>2 DEF StartInv
<1> QED BY <1>1, <1>2, <1>3, <1>4, <1>5, <1>6, <1>7
        DEF Next, Works, External, Serves, ComputerStep, vars, network, history, server
-----------------------------------------------------------------------------
(* While the printer stays up, what has reached it or is on its way stays  *)
(* there until it is on paper.                                             *)
LEMMA LastCell ==
  ASSUME Types, LivesInv, NEW life \in DOMAIN printed, NEW t, t = printed[life], t # <<>>
  PROVE  /\ t \in Seq(Cell) /\ Len(t) \in Nat \ {0} /\ t[Len(t)] \in Cell
         /\ t[Len(t)] = CellOf(life, Len(t)) /\ life \in CID \X PID \X Run
<1>1. t \in Seq(Cell) /\ life \in CID \X PID \X Run
  BY DEF Types, DiskTypes, LivesInv, LifeOk
<1>2. Len(t) \in Nat \ {0} /\ Len(t) \in DOMAIN t /\ t[Len(t)] \in Cell
  BY <1>1
<1> QED BY <1>1, <1>2 DEF LivesInv, LifeOk

LEMMA GoneComputer ==
  ASSUME Types, FilesInv, LinkInv, NEW c \in CID, ComputerStep(c), NEW id \in PrintID, NEW t,
         Gone(id, t)
  PROVE  Gone(id, t)'
<1>1. UNCHANGED <<comm, pspool, paper>>
  BY ComputerOnly
<1>2. PICK d \in CID : d = id[1]
  BY DEF PrintID
<1>3. ASSUME NEW i \in DOMAIN sock[d], sock[d][i] = t[Len(t)]
      PROVE  \E j \in DOMAIN sock'[d] : sock'[d][j] = t[Len(t)]
  <2>1. CASE sock'[d] = sock[d]
    BY <1>3, <2>1
  <2>2. ASSUME NEW x, d = c, Sends(c, x) PROVE \E j \in DOMAIN sock'[d] : sock'[d][j] = t[Len(t)]
    <3>1. PICK s \in Seq(Header \union Cell) : s = sock[d]
      BY DEF Types, NetworkTypes
    <3>2. \A j \in DOMAIN s : j \in DOMAIN Append(s, x) /\ Append(s, x)[j] = s[j]
      BY <3>1
    <3>3. sock'[d] = Append(s, x)
      BY <2>2, <3>1 DEF Sends
    <3> QED BY <1>3, <3>1, <3>2, <3>3
  <2>3. CASE d = c /\ (Boot(c) \/ Connect(c))
    BY <2>1, <2>3, NoneYet
  <2> QED BY <2>1, <2>2, <2>3, Alone, Sending1
<1> QED BY <1>1, <1>2, <1>3 DEF Gone, OnPaper, Id

LEMMA GoneHeader ==
  ASSUME Types, LinkInv, LivesInv, NEW life \in DOMAIN printed, NEW t, t = printed[life], t # <<>>,
         NEW id, id = IdOf(life), Gone(id, t), NEW c, NEW k \in Comm, HeaderRead(c, k),
         printer' # "garbled"
  PROVE  Gone(id, t)'
<1>1. /\ Serve(c, k) /\ UNCHANGED <<pspool, paper>> /\ comm[k].pc = "header"
  BY DEF HeaderRead, disk
<1>2. OnPaper(t) => OnPaper(t)'
  BY <1>1 DEF OnPaper
<1>3. \A j \in Comm : comm[j].pc = "put" => comm'[j] = comm[j]
  BY <1>1 DEF Serve
<1>4. ASSUME NEW d \in CID, NEW i \in DOMAIN sock[d], sock[d][i] = t[Len(t)]
      PROVE  \E j \in DOMAIN sock'[d] : sock'[d][j] = t[Len(t)]
  <2>1. CASE sock'[d] = sock[d]
    BY <1>4, <2>1
  <2>2. CASE d = c /\ Read(sock[c], sock'[c], 1) /\ sock[c][1] \in Header
    <3>1. PICK s, q : s = sock[c] /\ q = sock'[c]
      OBVIOUS
    <3>2. /\ s \in Seq(Header \union Cell) /\ q \in Seq(Header \union Cell)
          /\ Len(s) = Len(q) + 1 /\ \A j \in 1 .. Len(q) : q[j] = s[j + 1]
      BY <2>2, <3>1 DEF Read
    <3>3. s[i] \notin Header /\ i \in 1 .. Len(s) /\ s[1] \in Header
      BY <1>4, <2>2, <3>1, <3>2, LastCell, HeaderFacts
    <3>4. i - 1 \in 1 .. Len(q) /\ (i - 1) + 1 = i
      BY <3>2, <3>3
    <3>5. q[i - 1] = s[i] /\ i - 1 \in DOMAIN q
      BY <3>2, <3>4
    <3> QED BY <1>4, <2>2, <3>1, <3>5
  <2> QED BY <1>1, <2>1, <2>2 DEF HeaderRead, Serve
<1>5. id[1] \in CID
  BY LastCell DEF IdOf
<1>6. CASE OnPaper(t) \/ (id \in DOMAIN pspool /\ pspool[id] = t)
  BY <1>1, <1>2, <1>6 DEF Gone
<1>7. CASE \E j \in Comm : comm[j].pc = "put" /\ Id(comm[j].msg) = id /\ comm[j].text = t
  BY <1>3, <1>7 DEF Gone, Id
<1>8. CASE \E i \in DOMAIN sock[id[1]] : sock[id[1]][i] = t[Len(t)]
  BY <1>4, <1>5, <1>8 DEF Gone
<1> QED BY <1>6, <1>7, <1>8 DEF Gone

LEMMA GoneText ==
  ASSUME Types, FilesInv, LinkInv, LivesInv, HandInv, [Next]_vars, NEW life \in DOMAIN printed,
         NEW t,
         t = printed[life], t # <<>>, NEW id, id = IdOf(life), Gone(id, t),
         NEW k \in Comm, NEW c, NEW h \in Header, NEW n \in Nat, NEW text, TextRead(c, k, h, n,
         text)
  PROVE  Gone(id, t)'
<1>1. /\ Serve(c, k) /\ UNCHANGED <<pspool, paper>> /\ comm[k].pc = "text" /\ c \in CID
      /\ comm'[k].pc = "put" /\ comm'[k].msg = h /\ comm'[k].text = text /\ n <= h.size
  BY DEF TextRead, Serve, disk
<1>2. OnPaper(t) => OnPaper(t)'
  BY <1>1 DEF OnPaper
<1>3. \A j \in Comm : comm[j].pc = "put" => comm'[j] = comm[j]
  BY <1>1 DEF Serve
<1>4. h.size \in Nat
  BY HeaderFacts
<1>5. ASSUME NEW d \in CID, NEW i \in DOMAIN sock[d], sock[d][i] = t[Len(t)]
      PROVE  \/ \E j \in DOMAIN sock'[d] : sock'[d][j] = t[Len(t)]
             \/ Id(h) = id /\ text = t
  <2>1. CASE d # c
    BY <1>1, <1>5, <2>1 DEF Serve
  <2>2. CASE d = c
    <3>1. PICK s, q : s = sock[c] /\ q = sock'[c]
      OBVIOUS
    <3>2. /\ s \in Seq(Header \union Cell) /\ q \in Seq(Header \union Cell)
          /\ Len(s) = Len(q) + n /\ \A j \in 1 .. Len(q) : q[j] = s[j + n]
          /\ text = [j \in 1 .. h.size |-> IF j <= n THEN s[j] ELSE Junk]
      BY <3>1 DEF TextRead, Read
    <3>3. i \in 1 .. Len(s) /\ s[i] = t[Len(t)]
      BY <1>5, <2>2, <3>1, <3>2
    <3>4. CASE i > n
      <4>1. i - n \in 1 .. Len(q) /\ (i - n) + n = i
        BY <3>2, <3>3, <3>4
      <4>2. q[i - n] = s[i] /\ i - n \in DOMAIN q
        BY <3>2, <4>1
      <4> QED BY <2>2, <3>1, <3>3, <4>2
    <3>5. CASE i <= n
      <4>1. i \in 1 .. h.size /\ text[i] = t[Len(t)]
        BY <1>1, <1>4, <3>2, <3>3, <3>5
      <4>2. PICK r \in Run :
              LET y == printed[Life(h, r)] IN
                /\ Whole(h, r)
                /\ \A j \in 1 .. h.size : 0 + j <= Len(sock[c]) => sock[c][0 + j] = y[j]
        <5>1. c = comm[k].conn /\ h = comm[k].msg
          BY DEF TextRead, Serve
        <5>2. Carried(c, h, 0)
          BY <1>1, <5>1 DEF HandInv
        <5> QED BY <5>2 DEF Carried
      <4>3. PICK l : l = Life(h, r)
        OBVIOUS
      <4>4. PICK y : y = printed[l]
        OBVIOUS
      <4>5. l \in DOMAIN printed /\ y \in Seq(Cell) /\ Len(y) = h.size
        BY <4>2, <4>3, <4>4 DEF Whole, Frozen, Types, DiskTypes
      <4>6. \A j \in 1 .. h.size : j <= Len(s) => s[j] = y[j]
        <5> SUFFICES ASSUME NEW j \in 1 .. h.size, j <= Len(s) PROVE s[j] = y[j]
          OBVIOUS
        <5>1. 0 + j = j
          OBVIOUS
        <5> QED BY <3>1, <4>2, <4>3, <4>4, <5>1
      <4>7. i <= Len(s) /\ i \in DOMAIN y
        BY <3>2, <3>3, <4>1, <4>5
      <4>8. y[i] = t[Len(t)] /\ y[i] = CellOf(l, i)
        BY <3>3, <4>1, <4>4, <4>5, <4>6, <4>7 DEF LivesInv, LifeOk
      <4>9. t[Len(t)] = CellOf(life, Len(t)) /\ life \in CID \X PID \X Run
        BY LastCell
      <4>10. IdOf(l) = IdOf(life) /\ l[3] = life[3] /\ i = Len(t)
        <5>1. CellOf(l, i) = CellOf(life, Len(t))
          BY <4>8, <4>9
        <5> QED BY ONLY <5>1 DEF CellOf
      <4>11. l \in CID \X PID \X Run
        BY <4>5 DEF LivesInv, LifeOk
      <4>12. l = life /\ y = t
        BY <4>4, <4>9, <4>10, <4>11 DEF IdOf
      <4>13. n = h.size
        BY <1>1, <1>4, <3>5, <4>1, <4>5, <4>10, <4>12
      <4>14. PICK z : z = h.size
        OBVIOUS
      <4>15. text = t
        <5>1. z \in Nat /\ t \in Seq(Cell) /\ Len(t) = z
          BY <1>4, <4>5, <4>12, <4>14
        <5>2. text = [j \in 1 .. z |-> s[j]]
          <6>1. text = [j \in 1 .. z |-> IF j <= z THEN s[j] ELSE Junk]
            BY <3>2, <4>13, <4>14
          <6> QED BY ONLY <5>1, <6>1
        <5>3. \A j \in 1 .. z : s[j] = t[j]
          <6>1. Len(s) >= z
            BY <1>1, <3>2, <4>13, <4>14, <5>1
          <6> QED BY <3>2, <4>6, <4>12, <4>14, <5>1, <6>1
        <5>4. t = [j \in 1 .. z |-> t[j]]
          BY ONLY <5>1
        <5> QED BY <5>2, <5>3, <5>4
      <4>16. Id(h) = id
        BY <4>3, <4>12 DEF IdOf, Id, Life
      <4> QED BY <4>15, <4>16
    <3> QED BY <3>2, <3>3, <3>4, <3>5
  <2> QED BY <2>1, <2>2
<1>6. id[1] \in CID
  BY LastCell DEF IdOf
<1>7. CASE OnPaper(t) \/ (id \in DOMAIN pspool /\ pspool[id] = t)
  BY <1>1, <1>2, <1>7 DEF Gone
<1>8. CASE \E j \in Comm : comm[j].pc = "put" /\ Id(comm[j].msg) = id /\ comm[j].text = t
  BY <1>3, <1>8 DEF Gone, Id
<1>9. CASE \E i \in DOMAIN sock[id[1]] : sock[id[1]][i] = t[Len(t)]
  BY <1>1, <1>5, <1>6, <1>9 DEF Gone, Id
<1> QED BY <1>7, <1>8, <1>9 DEF Gone

LEMMA GonePut ==
  ASSUME Types, LinkInv, QueueInv, ApartInv, NEW id, NEW t, Gone(id, t),
         NEW c, NEW k \in Comm, NEW h \in Header, MessagePut(c, k, h)
  PROVE  Gone(id, t)'
<1>1. /\ Serve(c, k) /\ UNCHANGED <<paper, sock>> /\ comm[k].pc = "put" /\ comm[k].msg = h
      /\ pspool' = With(pspool, Id(h), comm[k].text)
  BY DEF MessagePut, network
<1>2. PICK key : key = Id(h)
  OBVIOUS
<1>3. /\ DOMAIN pspool' = DOMAIN pspool \union {key} /\ pspool'[key] = comm[k].text
      /\ \A f \in DOMAIN pspool : f # key => pspool'[f] = pspool[f]
  BY <1>1, <1>2 DEF With
<1>4. key \notin DOMAIN pspool
  <2>1. printer \in {"up", "garbled"}
    BY <1>1, Serving DEF Types
  <2>2. \A j \in Comm : \A i \in DOMAIN queue[j] : Id(queue[j][i]) # key
    BY <1>1, <1>2 DEF ApartInv
  <2> QED BY <2>1, <2>2 DEF QueueInv
<1>5. CASE id \in DOMAIN pspool /\ pspool[id] = t
  BY <1>3, <1>4, <1>5 DEF Gone
<1>6. ASSUME NEW j \in Comm, comm[j].pc = "put", Id(comm[j].msg) = id, comm[j].text = t
      PROVE  Gone(id, t)'
  <2>1. CASE j # k
    <3>1. comm'[j] = comm[j]
      BY <1>1, <2>1 DEF Serve
    <3> QED BY <1>6, <3>1 DEF Gone, Id
  <2>2. CASE j = k
    BY <1>1, <1>2, <1>3, <1>6, <2>2 DEF Gone
  <2> QED BY <2>1, <2>2
<1>7. CASE OnPaper(t) \/ \E i \in DOMAIN sock[id[1]] : sock[id[1]][i] = t[Len(t)]
  BY <1>1, <1>7 DEF Gone, OnPaper
<1> QED BY <1>5, <1>6, <1>7 DEF Gone

LEMMA GonePage ==
  ASSUME PaperInv, NEW id, NEW t, Gone(id, t), NEW k \in Comm, NEW h \in Header, NEW e, Printed(k,
         h, e)
  PROVE  Gone(id, t)'
<1>1. /\ UNCHANGED <<comm, sock>> /\ paper' = Append(paper, e) /\ e.text = pspool[Id(h)]
      /\ pspool' = Without(pspool, Id(h))
  BY DEF Printed, network
<1>2. PICK s \in Seq(Sheet) : s = paper
  BY DEF PaperInv, Sheet
<1>3. /\ \A i \in DOMAIN s : i \in DOMAIN Append(s, e) /\ Append(s, e)[i] = s[i]
      /\ Len(s) + 1 \in DOMAIN Append(s, e) /\ Append(s, e)[Len(s) + 1] = e
  BY <1>2
<1>4. CASE OnPaper(t)
  BY <1>1, <1>2, <1>3, <1>4 DEF Gone, OnPaper
<1>5. CASE id \in DOMAIN pspool /\ pspool[id] = t
  <2>1. CASE id = Id(h)
    <3>1. OnPaper(t)'
      BY <1>1, <1>2, <1>3, <1>5, <2>1 DEF OnPaper
    <3> QED BY <3>1 DEF Gone
  <2>2. CASE id # Id(h)
    <3>1. id \in DOMAIN pspool' /\ pspool'[id] = t
      BY <1>1, <1>5, <2>2 DEF Without
    <3> QED BY <3>1 DEF Gone
  <2> QED BY <2>1, <2>2
<1>6. CASE \/ \E j \in Comm : comm[j].pc = "put" /\ Id(comm[j].msg) = id /\ comm[j].text = t
           \/ \E i \in DOMAIN sock[id[1]] : sock[id[1]][i] = t[Len(t)]
  BY <1>1, <1>6 DEF Gone, Id
<1> QED BY <1>4, <1>5, <1>6 DEF Gone

LEMMA GoneWin ==
  ASSUME Types, NEW id, NEW t, Gone(id, t), NEW k \in Comm, Win(k)
  PROVE  Gone(id, t)'
<1>1. UNCHANGED <<paper, pspool, sock>> /\ \A j \in Comm : comm[j].pc = "put" => comm'[j] = comm[j]
  BY WinIs DEF disk
<1> QED BY <1>1 DEF Gone, OnPaper, Id

LEMMA GoneStays ==
  ASSUME DeliveryInv, MessageInv, [Next]_vars, Stable, Stable', NEW life \in DOMAIN printed,
         NEW t, t = printed[life], t # <<>>, NEW id, id = IdOf(life), Gone(id, t)
  PROVE  Gone(id, t)'
<1>0. /\ Types /\ FilesInv /\ LinkInv /\ LivesInv /\ HandInv /\ QueueInv /\ ApartInv /\ PaperInv
      /\ printer = "up" /\ printer' = "up"
  BY DEF DeliveryInv, MessageInv, Stable
<1>1. ASSUME NEW c \in CID, ComputerStep(c) PROVE Gone(id, t)'
  <2>1. id \in PrintID
    BY <1>0, LastCell DEF IdOf, PrintID
  <2> QED BY <1>0, <1>1, <2>1, GoneComputer
<1>2. ASSUME NEW k \in Comm, Win(k) PROVE Gone(id, t)'
  BY <1>0, <1>2, GoneWin
<1>3. ASSUME NEW k \in Comm, ReadHeader(k) PROVE Gone(id, t)'
  <2>1. PICK c \in CID : HeaderRead(c, k)
    BY <1>0, <1>3, HeaderIs
  <2> QED BY <1>0, <2>1, GoneHeader
<1>4. ASSUME NEW k \in Comm, ReadText(k) PROVE Gone(id, t)'
  <2>1. PICK c \in CID, h \in Header, n \in Nat : \E text : TextRead(c, k, h, n, text)
    BY <1>0, <1>4, TextIs
  <2> QED BY <1>0, <2>1, GoneText
<1>5. ASSUME NEW k \in Comm, Put(k) PROVE Gone(id, t)'
  <2>1. PICK c \in CID, h \in Header : MessagePut(c, k, h)
    BY <1>0, <1>5, PutIs
  <2> QED BY <1>0, <2>1, GonePut
<1>6. CASE Pages
  <2>1. PICK k \in Comm, h \in Header : \E e : Printed(k, h, e)
    BY <1>0, <1>6, PageIs
  <2> QED BY <1>0, <2>1, GonePage
<1>7. ~(PrinterInit \/ Sigint \/ KillPrinter)
  BY <1>0 DEF PrinterInit, Sigint, KillPrinter, PrinterGone
<1>8. CASE UNCHANGED vars
  BY <1>8 DEF vars, disk, network, server, Gone, OnPaper, Id
<1> QED BY <1>1, <1>2, <1>3, <1>4, <1>5, <1>6, <1>7, <1>8
        DEF Next, Works, External, Serves, ComputerStep

(* The latest life of a process after a step: that of this run when there  *)
(* is one; else its output is where it was, or goes from the spool file to *)
(* where Gone says.                                                        *)
LEMMA LatestOne ==
  ASSUME LivesInv, Types, NEW life \in DOMAIN printed, Latest(life)', NEW new \in CID \X PID \X Run,
         new \in DOMAIN printed', new[3] = run[new[1]], IdOf(life) = IdOf(new)
  PROVE  life = new
<1>1. /\ life \in CID \X PID \X Run /\ life[3] <= run[life[1]]
      /\ life[1] = new[1] /\ life[2] = new[2]
  BY DEF LivesInv, LifeOk, IdOf
<1>2. new[3] \in Lives(life[1], life[2])'
  BY <1>1 DEF Lives
<1>3. new[3] <= life[3]
  BY <1>2 DEF Latest
<1>4. life[3] \in Nat /\ new[3] \in Nat
  BY <1>1, Constants DEF Run
<1>5. life[3] = new[3]
  BY <1>1, <1>3, <1>4
<1> QED BY <1>1, <1>5

LEMMA LostOld ==
  ASSUME DeliveryInv, MessageInv, LostInv, [Next]_vars, Stable, Stable',
         NEW life \in DOMAIN printed,
         Latest(life)', printed'[life] = printed[life], DOMAIN printed \subseteq DOMAIN printed',
         NEW id, id = IdOf(life),
         Kept(life) => (id \in Files' /\ spool'[id] = spool[id]) \/ Gone(id, printed[life])
  PROVE  Kept(life)' \/ \A t : t = printed'[life] => Gone(id, t)'
<1>1. PICK t : t = printed[life]
  OBVIOUS
<1>2. Latest(life)
  BY DEF Latest, Lives
<1>3. t # <<>>
  BY <1>1, <1>2 DEF Latest
<1>4. Kept(life) \/ Gone(id, t)
  BY <1>1, <1>2 DEF LostInv
<1>5. (id \in Files' /\ spool'[id] = t) \/ Gone(id, t)
  BY <1>1, <1>4 DEF Kept
<1>6. CASE Gone(id, t)
  <2>1. Gone(id, t)'
    BY <1>1, <1>3, <1>6, GoneStays
  <2> QED BY <1>1, <2>1
<1>7. CASE id \in Files' /\ spool'[id] = t
  BY <1>1, <1>7 DEF Kept, IdOf
<1> QED BY <1>5, <1>6, <1>7

LEMMA LostLine ==
  ASSUME DeliveryInv, MessageInv, LostInv, [Next]_vars, Stable, Stable', NEW c \in CID,
         SpoolLine(c),
         NEW life \in DOMAIN printed', Latest(life)'
  PROVE  Kept(life)' \/ \A t : t = printed'[life] => Gone(IdOf(life), t)'
<1>0. Types /\ FilesInv /\ LivesInv /\ SpoolInv /\ DiskTypes /\ ComputerTypes
  BY DEF DeliveryInv, MessageInv, Types
<1>1. PICK p \in alive[c] :
        LET l == <<c, p, run[c]>>
            x == CellOf(l, Len(printed[l]) + 1)
        IN  /\ l \in DOMAIN printed /\ <<c, p>> \in Files /\ p \in PID
            /\ spool' = [spool EXCEPT ![<<c, p>>] = Append(spool[<<c, p>>], x)]
            /\ printed' = [printed EXCEPT ![l] = Append(printed[l], x)]
  BY <1>0, Printing
<1>2. PICK new, f : new = <<c, p, run[c]>> /\ f = <<c, p>>
  OBVIOUS
<1>3. PICK x : x = CellOf(new, Len(printed[new]) + 1)
  OBVIOUS
<1>4. /\ new \in DOMAIN printed /\ f \in Files
      /\ spool' = [spool EXCEPT ![f] = Append(spool[f], x)]
      /\ printed' = [printed EXCEPT ![new] = Append(printed[new], x)]
  BY <1>1, <1>2, <1>3
<1>5. /\ Files' = Files /\ DOMAIN printed' = DOMAIN printed
      /\ f \in DOMAIN spool /\ Files = DOMAIN spool
  BY <1>0, <1>4, FileLonger, FileFacts
<1>6. /\ spool'[f] = Append(spool[f], x) /\ \A g \in Files : g # f => spool'[g] = spool[g]
      /\ printed'[new] = Append(printed[new], x)
      /\ \A l \in DOMAIN printed : l # new => printed'[l] = printed[l]
  BY <1>4, <1>5
<1>7. spool[f] = printed[new]
  <2>1. f[1] = c /\ f[2] = p /\ p \in alive[c]
    BY <1>2
  <2>2. HasText(f, run[c])
    BY <1>0, <1>4, <2>1 DEF SpoolInv
  <2> QED BY <1>2, <2>1, <2>2 DEF HasText
<1>8. IdOf(new) = f /\ new[1] = c /\ new[3] = run[c]
  BY <1>2 DEF IdOf
<1>9. CASE life = new
  <2>1. IdOf(life) \in Files' /\ spool'[IdOf(life)] = printed'[life]
    BY <1>4, <1>5, <1>6, <1>7, <1>8, <1>9
  <2> QED BY <2>1 DEF Kept, IdOf
<1>10. CASE life # new
  <2>1. new \in CID \X PID \X Run
    BY <1>0, <1>4 DEF LivesInv, LifeOk
  <2>2. IdOf(life) # f
    BY <1>0, <1>4, <1>5, <1>8, <1>10, <2>1, LatestOne
  <2>3. printed'[life] = printed[life] /\ life \in DOMAIN printed
    BY <1>5, <1>6, <1>10
  <2>4. Kept(life) => IdOf(life) \in Files' /\ spool'[IdOf(life)] = spool[IdOf(life)]
    BY <1>5, <1>6, <2>2 DEF Kept
  <2> QED BY <1>5, <2>3, <2>4, LostOld
<1> QED BY <1>9, <1>10

LEMMA LostMade ==
  ASSUME DeliveryInv, MessageInv, LostInv, [Next]_vars, Stable, Stable', NEW c \in CID,
         InitSpool(c),
         ~Down(c), NEW life \in DOMAIN printed', Latest(life)'
  PROVE  Kept(life)' \/ \A t : t = printed'[life] => Gone(IdOf(life), t)'
<1>0. Types /\ LivesInv
  BY DEF DeliveryInv, MessageInv
<1>1. PICK new : new = <<c, next[c], run[c]>>
  OBVIOUS
<1>2. /\ new \notin DOMAIN printed /\ new \in CID \X PID \X Run /\ spool # NoDir
      /\ DOMAIN printed' = DOMAIN printed \union {new} /\ printed'[new] = <<>>
      /\ \A l \in DOMAIN printed : printed'[l] = printed[l]
  BY <1>0, <1>1, Making
<1>3. life # new
  BY <1>2 DEF Latest
<1>4. life \in DOMAIN printed
  BY <1>2, <1>3
<1>5. IdOf(new) = <<c, next[c]>> /\ new[1] = c /\ new[3] = run[c]
  BY <1>1 DEF IdOf
<1>6. IdOf(life) # <<c, next[c]>>
  BY <1>0, <1>2, <1>3, <1>4, <1>5, LatestOne
<1>7. Kept(life) => IdOf(life) \in Files' /\ spool'[IdOf(life)] = spool[IdOf(life)]
  BY <1>0, <1>2, <1>6, FilesMade DEF Kept
<1> QED BY <1>2, <1>4, <1>7, LostOld

LEMMA LostQuiet ==
  ASSUME DeliveryInv, MessageInv, LostInv, [Next]_vars, Stable, Stable',
         \A c \in CID : ~SpoolLine(c) /\ ~(InitSpool(c) /\ ~Down(c)),
         NEW life \in DOMAIN printed', Latest(life)'
  PROVE  Kept(life)' \/ \A t : t = printed'[life] => Gone(IdOf(life), t)'
<1>0. Types /\ FilesInv
  BY DEF DeliveryInv
<1>1. printed' = printed
  <2>1. ASSUME NEW c \in CID, Boot(c) PROVE printed' = printed
    BY <2>1 DEF Boot, history
  <2> QED BY <1>0, <2>1, Quiet
<1>2. PICK id : id = IdOf(life)
  OBVIOUS
<1>3. ASSUME Kept(life)
      PROVE  (id \in Files' /\ spool'[id] = spool[id]) \/ Gone(id, printed[life])
  <2>1. id \in Files /\ spool[id] = printed[life] /\ printed[life] # <<>>
    BY <1>1, <1>2, <1>3 DEF Kept, Latest
  <2>2. ASSUME NEW c \in CID, Remove(c)
        PROVE  (id \in Files' /\ spool'[id] = spool[id]) \/ Gone(id, printed[life])
    <3>1. CASE id = File(c)
      <4>1. AllSent(c)
        BY <2>2 DEF Remove, Step, AllSent
      <4> QED BY <2>1, <3>1, <4>1 DEF LostInv
    <3>2. CASE id # File(c)
      BY <1>0, <2>1, <2>2, <3>2, FileGone
    <3> QED BY <3>1, <3>2
  <2>3. ASSUME NEW c \in CID, Boot(c) PROVE id \in Files' /\ spool'[id] = spool[id]
    BY <2>1, <2>3 DEF Boot, Files
  <2>4. ASSUME NEW c \in CID, Down(c), InitSpool(c) PROVE id \in Files' /\ spool'[id] = spool[id]
    <3>1. spool # NoDir
      BY <2>1 DEF Files
    <3>2. alive'[c] = {} /\ next[c] \in PID
      BY <1>0, <2>4 DEF Down, InitSpool, Types, ComputerTypes
    <3>3. alive' = [alive EXCEPT ![c] = @ \union {next[c]}]
      BY <2>4, <3>1 DEF InitSpool
    <3> QED BY <1>0, <3>2, <3>3 DEF Types, ComputerTypes
  <2>5. CASE UNCHANGED spool
    BY <2>1, <2>5 DEF Files
  <2>6. ~PrinterInit
    BY DEF PrinterInit, Stable
  <2>7. ASSUME NEW c \in CID, Connect(c) \/ PowerOff(c) \/ KillComputer(c) \/ Exit(c) \/ Scan(c)
                              \/ SendHeader(c) \/ SendFile(c)
        PROVE  UNCHANGED spool
    BY <2>7 DEF Connect, PowerOff, KillComputer, Exit, Scan, SendHeader, SendFile, disk
  <2>8. ASSUME NEW k \in Comm, Win(k) \/ ReadHeader(k) \/ ReadText(k) \/ Put(k) \/ Page(k)
        PROVE  UNCHANGED spool
    BY <2>8 DEF Win, ReadHeader, ReadText, Put, Page, disk
  <2>9. Sigint \/ KillPrinter \/ UNCHANGED vars => UNCHANGED spool
    BY DEF Sigint, KillPrinter, vars, disk
  <2> QED BY <2>2, <2>3, <2>4, <2>5, <2>6, <2>7, <2>8, <2>9 DEF Next, Works, External, Serves, Pages
<1>4. life \in DOMAIN printed
  BY <1>1
<1> QED BY <1>1, <1>2, <1>3, <1>4, LostOld

(* What a computer has sent whole is on its way.                           *)
LEMMA ToText ==
  ASSUME Types, NEW c \in CID, ComputerStep(c), pc'[c] \in {"text", "remove"}
  PROVE  SendHeader(c) \/ SendFile(c)
<1>0. ComputerTypes
  BY DEF Types
<1>1. ~Down(c)
  BY <1>0 DEF Down, ComputerTypes
<1>2. ~Boot(c) /\ ~Connect(c) /\ ~PowerOff(c) /\ ~KillComputer(c) /\ ~InitSpool(c) /\ ~SpoolLine(c)
  BY <1>0, <1>1 DEF Boot, Connect, PowerOff, KillComputer, InitSpool, SpoolLine, Step,
                    ComputerTypes,
                    computer
<1>3. ~Exit(c) /\ ~Scan(c) /\ ~Remove(c)
  BY <1>0, <1>1 DEF Exit, Scan, Remove, Step, Back, ComputerTypes
<1> QED BY <1>2, <1>3 DEF ComputerStep

LEMMA SentAlready ==
  ASSUME DeliveryInv, MessageInv, LostInv, [Next]_vars, Stable, Stable', NEW c \in CID, AllSent(c),
         NEW f, f = File(c), NEW t, t = spool[f], t # <<>>
  PROVE  Gone(f, t)'
<1>0. Types /\ FilesInv /\ SpoolInv
  BY DEF DeliveryInv, MessageInv
<1>1. pc[c] \in Sending
  BY DEF AllSent, Sending
<1>2. PICK r \in Run : HasText(f, r)
  BY <1>0, <1>1, SentFile
<1>3. PICK life : life = <<f[1], f[2], r>>
  OBVIOUS
<1>4. life \in DOMAIN printed /\ t = printed[life] /\ f = IdOf(life)
  BY <1>2, <1>3 DEF HasText, IdOf, File
<1>5. Gone(f, t)
  BY DEF LostInv
<1> QED BY <1>4, <1>5, GoneStays

LEMMA LostSent ==
  ASSUME DeliveryInv, MessageInv, StartInv, LostInv, [Next]_vars, Stable, Stable',
         NEW c \in CID, ComputerStep(c), AllSent(c)', NEW f, f = File(c)', NEW t, t = spool'[f],
         t # <<>>
  PROVE  Gone(f, t)'
<1>0. Types /\ FilesInv /\ LinkInv /\ SpoolInv /\ ComputerTypes /\ NetworkTypes
  BY DEF DeliveryInv, MessageInv, Types
<1>1. SendHeader(c) \/ SendFile(c)
  <2>1. pc'[c] \in {"text", "remove"}
    BY DEF AllSent
  <2> QED BY <1>0, <2>1, ToText
<1>2. UNCHANGED spool /\ pc[c] \in {"header", "text"}
  BY <1>1 DEF SendHeader, SendFile, disk
<1>3. f = File(c) /\ ~Down(c)
  <2>1. ~Down(c)
    BY <1>0 DEF Down, ComputerTypes, AllSent
  <2>2. job' = job
    BY <1>1, <2>1 DEF SendHeader, SendFile, Write
  <2> QED BY <2>1, <2>2 DEF File
<1>4. t \in Seq(Cell) /\ f \in Files /\ f[1] = c
  <2>1. pc[c] \in Sending
    BY <1>2 DEF Sending
  <2> QED BY <1>0, <1>2, <1>3, <2>1, SentFile, FileFacts DEF Types
<1>5. CASE SendHeader(c)
  <2>1. sentCells'[c] = 0 /\ pc'[c] # "remove"
    BY <1>0, <1>3, <1>5 DEF SendHeader, ComputerTypes, Step, Back, Write
  <2>2. Len(t) = 0
    BY <1>2, <2>1 DEF AllSent
  <2> QED BY <1>4, <2>2
<1>6. CASE SendFile(c) /\ sentCells[c] = Len(spool[File(c)])
  <2>1. AllSent(c)
    BY <1>6 DEF SendFile, AllSent
  <2> QED BY <1>2, <1>3, <2>1, SentAlready
<1>7. CASE SendFile(c) /\ sentCells[c] # Len(spool[File(c)])
  <2>1. link[c] = "open"
    BY <1>2 DEF StartInv, Stable
  <2>2. /\ sock' = [sock EXCEPT ![c] = Append(sock[c], t[sentCells[c] + 1])]
        /\ pc'[c] = "text"
    BY <1>0, <1>2, <1>3, <1>7, <2>1 DEF SendFile, Write, ComputerTypes
  <2>3. sentCells'[c] = sentCells[c] + 1
    BY <1>0, <1>7, <2>2 DEF SendFile, ComputerTypes
  <2>4. sentCells[c] + 1 = Len(t)
    BY <2>2, <2>3 DEF AllSent
  <2>5. PICK s \in Seq(Header \union Cell) : s = sock[c]
    BY <1>0 DEF NetworkTypes
  <2>6. PICK x : x = t[Len(t)]
    OBVIOUS
  <2>7. Len(s) + 1 \in DOMAIN Append(s, x) /\ Append(s, x)[Len(s) + 1] = x
    BY <2>5
  <2>8. sock'[c] = Append(s, x)
    BY <1>0, <2>2, <2>4, <2>5, <2>6 DEF NetworkTypes
  <2>9. \E i \in DOMAIN sock'[f[1]] : sock'[f[1]][i] = t[Len(t)]
    BY <1>4, <2>6, <2>7, <2>8
  <2> QED BY <2>9 DEF Gone
<1> QED BY <1>1, <1>5, <1>6, <1>7

LEMMA LostStep ==
  DeliveryInv /\ MessageInv /\ StartInv /\ LostInv /\ [Next]_vars => LostInv'
<1> SUFFICES ASSUME DeliveryInv, MessageInv, StartInv, LostInv, [Next]_vars, Stable'
             PROVE  /\ \A life \in DOMAIN printed' : Latest(life)' =>
                         Kept(life)' \/ \A t : t = printed'[life] => Gone(IdOf(life), t)'
                    /\ \A c \in CID : \A f, t : f = File(c)' /\ t = spool'[f] =>
                         (AllSent(c)' /\ t # <<>> => Gone(f, t)')
  BY DEF LostInv
<1>0. Types /\ FilesInv /\ LinkInv /\ ServerTypes
  BY DEF DeliveryInv, Types
<1>1. CASE ~Stable
  <2>1. PrinterInit
    <3>1. printer' = printer /\ starts' = starts => FALSE
      BY <1>1 DEF Stable
    <3>2. ~Sigint /\ ~KillPrinter
      BY DEF Sigint, KillPrinter, PrinterGone, Stable
    <3>3. ASSUME NEW c \in CID, ComputerStep(c) PROVE FALSE
      BY <3>1, <3>3, ComputerOnly
    <3>4. ASSUME NEW k \in Comm, Win(k) \/ ReadText(k) \/ Put(k) \/ Page(k) PROVE FALSE
      BY <3>1, <3>4 DEF Win, ReadText, Put, Page
    <3>5. ASSUME NEW k \in Comm, ReadHeader(k) PROVE FALSE
      BY <3>1, <3>5 DEF ReadHeader, Stable
    <3>6. ~UNCHANGED vars
      BY <3>1 DEF vars, server
    <3> QED BY <3>2, <3>3, <3>4, <3>5, <3>6
            DEF Next, Works, External, Serves, Pages, ComputerStep
  <2>2. starts = 0 /\ UNCHANGED <<computer, printed>>
    BY <1>0, <2>1, Constants DEF PrinterInit, Stable, ServerTypes, history
  <2>3. DOMAIN printed' = {} /\ \A c \in CID : pc'[c] \in {"down", "connect"}
    BY <2>2 DEF StartInv, computer
  <2> QED BY <2>3 DEF AllSent
<1>2. CASE Stable
  <2>1. ASSUME NEW life \in DOMAIN printed', Latest(life)'
        PROVE  Kept(life)' \/ \A t : t = printed'[life] => Gone(IdOf(life), t)'
    <3>1. ASSUME NEW c \in CID, SpoolLine(c)
          PROVE  Kept(life)' \/ \A t : t = printed'[life] => Gone(IdOf(life), t)'
      BY <1>2, <2>1, <3>1, LostLine
    <3>2. ASSUME NEW c \in CID, InitSpool(c), ~Down(c)
          PROVE  Kept(life)' \/ \A t : t = printed'[life] => Gone(IdOf(life), t)'
      BY <1>2, <2>1, <3>2, LostMade
    <3>3. CASE \A c \in CID : ~SpoolLine(c) /\ ~(InitSpool(c) /\ ~Down(c))
      BY <1>2, <2>1, <3>3, LostQuiet
    <3> QED BY <3>1, <3>2, <3>3
  <2>2. ASSUME NEW c \in CID, NEW f, f = File(c)', NEW t, t = spool'[f], AllSent(c)', t # <<>>
        PROVE  Gone(f, t)'
    <3>1. CASE ComputerStep(c)
      BY <1>2, <2>2, <3>1, LostSent
    <3>2. ASSUME NEW d \in CID, d # c, ComputerStep(d) PROVE Gone(f, t)'
      <4>1. /\ pc'[c] = pc[c] /\ sentCells'[c] = sentCells[c] /\ f = File(c)
        BY <1>0, <2>2, <3>2, Alone DEF File
      <4>2. f \in Files /\ f[1] = c
        BY <1>0, <2>2, <4>1 DEF FilesInv, FilesOf, AllSent, File
      <4>3. t = spool[f]
        BY <1>0, <2>2, <3>2, <4>2, Elsewhere
      <4>4. AllSent(c)
        BY <2>2, <4>1, <4>3 DEF AllSent
      <4> QED BY <1>2, <2>2, <4>1, <4>3, <4>4, SentAlready
    <3>3. CASE UNCHANGED <<computer, spool>>
      BY <1>2, <2>2, <3>3, SentAlready DEF AllSent, File, computer
    <3>4. ~PrinterInit /\ ~Sigint /\ ~KillPrinter
      BY <1>2 DEF PrinterInit, Sigint, KillPrinter, PrinterGone, Stable
    <3>5. ASSUME NEW k \in Comm, Win(k) \/ ReadHeader(k) \/ ReadText(k) \/ Put(k) \/ Page(k)
          PROVE  UNCHANGED <<computer, spool>>
      BY <3>5 DEF Win, ReadHeader, ReadText, Put, Page, disk
    <3>6. UNCHANGED vars => UNCHANGED <<computer, spool>>
      BY DEF vars, disk
    <3> QED BY <3>1, <3>2, <3>3, <3>4, <3>5, <3>6
            DEF Next, Works, External, Serves, Pages, ComputerStep
  <2> QED BY <2>1, <2>2
<1> QED BY <1>1, <1>2

LEMMA LostInit == Init => StartInv /\ LostInv
BY DEF Init, StartInv, LostInv, Stable, NoFiles

(* NothingLost: while the printer stays up no output is lost, whenever a   *)
(* computer is killed (print_end_spool removes the file only when all of it*)
(* is sent; write_msg and printer_end_spool keep it until it is on paper). *)
THEOREM NoneLost == Spec => []NothingLost
<1>1. ASSUME DeliveryInv, LostInv PROVE NothingLost
  <2> SUFFICES ASSUME Stable, NEW life \in DOMAIN printed, Latest(life),
                      NEW id, id = <<life[1], life[2]>>, NEW t, t = printed[life]
               PROVE  \/ InSpool(id, t) \/ InPrinter(id, t) \/ OnPaper(t)
                      \/ \E i \in DOMAIN sock[life[1]] : sock[life[1]][i] = t[Len(t)]
    BY DEF NothingLost
  <2>1. pspool # NoDir
    BY <1>1 DEF DeliveryInv, LinkInv, PrinterInv, Stable
  <2>2. (id \in Files /\ spool[id] = t) \/ Gone(id, t)
    BY <1>1 DEF LostInv, Kept, IdOf
  <2>3. CASE id \in Files /\ spool[id] = t
    BY <2>3 DEF Files, InSpool
  <2>4. CASE Gone(id, t)
    BY <2>1, <2>4 DEF Gone, InPrinter
  <2> QED BY <2>2, <2>3, <2>4
<1>2. DeliveryInv /\ MessageInv /\ StartInv /\ LostInv /\ [Next]_vars
      => (DeliveryInv /\ MessageInv /\ StartInv /\ LostInv)'
  <2>1. DeliveryInv => Types /\ FilesInv /\ LinkInv
    BY DEF DeliveryInv
  <2> QED BY <2>1, DeliveryStep, MessageStep, StartStep, LostStep
<1>3. Init => DeliveryInv /\ MessageInv /\ StartInv /\ LostInv
  BY DeliveryInit, MessageInit, LostInit
<1> QED BY <1>1, <1>2, <1>3, PTL DEF Spec
=============================================================================
