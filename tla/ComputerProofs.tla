---------------------------- MODULE ComputerProofs ----------------------------
(***************************************************************************)
(* Theorems about Computer, for every number of processes and lines, every *)
(* quantum, memory and set of programs: its types, mutual exclusion, where *)
(* its processes are, and what it sends to the printer.  First what the    *)
(* operators of Cpu do to the registers and the memory of a machine, for   *)
(* every size of memory and every INT_MAX.                                 *)
(***************************************************************************)
EXTENDS Computer, Induction, TLAPS

-----------------------------------------------------------------------------
(* The functions of Cpu.                                                   *)

(* One field of a machine assigned: it is a machine still.                 *)
LEMMA SetInt ==
  ASSUME NEW n \in Nat, NEW m \in Machine(n), NEW x \in Int
  PROVE  /\ [m EXCEPT !.PC = x] \in Machine(n)
         /\ [m EXCEPT !.BASE = x] \in Machine(n)
         /\ [m EXCEPT !.MAR = x] \in Machine(n)
BY DEF Machine

LEMMA SetWord ==
  ASSUME NEW n \in Nat, NEW m \in Machine(n), NEW w \in Word
  PROVE  /\ [m EXCEPT !.AC = w] \in Machine(n)
         /\ [m EXCEPT !.MBR = w] \in Machine(n)
         /\ [m EXCEPT !.IR0 = w] \in Machine(n)
         /\ [m EXCEPT !.IR1 = w] \in Machine(n)
BY DEF Machine

LEMMA SetMem ==
  ASSUME NEW n \in Nat, NEW m \in Machine(n), NEW mem \in [0 .. n - 1 -> Word]
  PROVE  [m EXCEPT !.Mem = mem] \in Machine(n)
BY DEF Machine

LEMMA Words == 0 \in Word /\ Word \subseteq Int /\ 1 \in Word /\ 2 \in Word /\ 6 \in Word
<1>1. INT_MAX \in Nat /\ PROG_IDLE \in Seq(Word)
  BY WordAssumption
<1>2. PROG_IDLE[1] \in Word /\ PROG_IDLE[3] \in Word /\ PROG_IDLE[4] \in Word
  <2>1. Len(PROG_IDLE) = 4
    BY DEF PROG_IDLE
  <2> HIDE DEF PROG_IDLE
  <2>2. 1 \in 1 .. Len(PROG_IDLE) /\ 3 \in 1 .. Len(PROG_IDLE) /\ 4 \in 1 .. Len(PROG_IDLE)
    BY <2>1
  <2> QED BY <1>1, <2>2
<1>3. PROG_IDLE[1] = 1 /\ PROG_IDLE[3] = 6 /\ PROG_IDLE[4] = 2
  BY DEF PROG_IDLE
<1> QED BY <1>1, <1>2, <1>3 DEF Word, INT_MIN

LEMMA WrappedIsWord == ASSUME NEW x \in Int PROVE Wrapped(x) \in Word
BY WordAssumption DEF Wrapped, Word, INT_MIN

LEMMA NextWordFacts ==
  ASSUME NEW n \in Nat, NEW m \in Machine(n), m.PC + m.BASE \in 0 .. n - 1
  PROVE  LET s == NextWord(m) IN
         /\ s \in Machine(n)
         /\ s.PC = m.PC + 1 /\ s.BASE = m.BASE /\ s.AC = m.AC /\ s.Mem = m.Mem
         /\ s.IR0 = m.IR0 /\ s.IR1 = m.IR1
         /\ s.MBR = m.Mem[m.PC + m.BASE] /\ s.MAR = m.PC + m.BASE
<1> DEFINE a == m.PC + m.BASE
           p == m.PC + 1
           w == m.Mem[a]
           m1 == [m EXCEPT !.MAR = a]
           m2 == [m1 EXCEPT !.PC = p]
           m3 == [m2 EXCEPT !.MBR = w]
<1>1. a \in Int /\ p \in Int /\ w \in Word
  BY DEF Machine
<1>2. NextWord(m) = m3
  <2>1. Aim(m, m.PC) = m1
    BY DEF Aim, cpu_mem_address
  <2> HIDE DEF a, p, w
  <2>2. m1.PC = m.PC
    BY DEF Machine
  <2>3. [m1 EXCEPT !.PC = @ + 1] = m2
    BY <2>2 DEF p
  <2>4. m2.Mem = m.Mem /\ m2.MAR = a
    BY <1>1 DEF Machine
  <2>5. m2.Mem[m2.MAR] = w
    BY <2>4 DEF w
  <2> QED BY <2>1, <2>3, <2>5 DEF NextWord, mem_read
<1> HIDE DEF a, p, w
<1>3. m1 \in Machine(n)
  BY <1>1, SetInt
<1>4. m2 \in Machine(n)
  BY <1>1, <1>3, SetInt
<1>5. m3 \in Machine(n)
  BY <1>1, <1>4, SetWord
<1>6. /\ m3.PC = p /\ m3.BASE = m.BASE /\ m3.AC = m.AC /\ m3.Mem = m.Mem
      /\ m3.IR0 = m.IR0 /\ m3.IR1 = m.IR1 /\ m3.MBR = w /\ m3.MAR = a
  BY <1>1 DEF Machine
<1> QED BY <1>2, <1>5, <1>6 DEF a, p, w

(* What the fetch leaves: the instruction in IR0 and IR1, PC past it.      *)
LEMMA FetchFacts ==
  ASSUME NEW n \in Nat, NEW m \in Machine(n), ~Wild(m)
  PROVE  LET s  == cpu_fetch_instruction(m)
             at == m.BASE + m.PC
         IN  /\ s \in Machine(n)
             /\ at \in 0 .. n - 1 /\ at + 1 \in 0 .. n - 1
             /\ s.PC = m.PC + 2 /\ s.BASE = m.BASE /\ s.AC = m.AC /\ s.Mem = m.Mem
             /\ s.IR0 = m.Mem[at] /\ s.IR1 = m.Mem[at + 1]
             /\ s.MAR = at + 1 /\ s.MBR = s.IR1
             /\ s.IR0 \in 2 .. 5 => s.BASE + s.IR1 \in 0 .. n - 1
<1> DEFINE at == m.PC + m.BASE
           opcode == NextWord(m)
           middle == [opcode EXCEPT !.IR0 = opcode.MBR]
           operand == NextWord(middle)
           s == [operand EXCEPT !.IR1 = operand.MBR]
<1>1. m.PC \in Int /\ m.BASE \in Int /\ DOMAIN m.Mem = 0 .. n - 1
  BY DEF Machine
<1>2. /\ at \in 0 .. n - 1 /\ at + 1 \in 0 .. n - 1
      /\ m.Mem[at] \in 2 .. 5 => m.Mem[at + 1] + m.BASE \in 0 .. n - 1
  <2>1. Addresses(m) \subseteq 0 .. n - 1
    BY <1>1 DEF Wild
  <2>2. at \in Addresses(m) /\ at + 1 \in Addresses(m)
    BY DEF Addresses, cpu_mem_address
  <2>3. at \in 0 .. n - 1 /\ at + 1 \in 0 .. n - 1
    BY <2>1, <2>2
  <2>4. m.Mem[at] \in 2 .. 5 => m.Mem[at + 1] + m.BASE \in Addresses(m)
    BY <1>1, <2>3 DEF Addresses, cpu_mem_address
  <2> QED BY <2>1, <2>3, <2>4
<1>3. /\ opcode \in Machine(n)
      /\ opcode.PC = m.PC + 1 /\ opcode.BASE = m.BASE /\ opcode.AC = m.AC
      /\ opcode.Mem = m.Mem /\ opcode.MBR = m.Mem[at]
  BY <1>2, NextWordFacts
<1> HIDE DEF opcode
<1>4. /\ middle \in Machine(n)
      /\ middle.PC = m.PC + 1 /\ middle.BASE = m.BASE /\ middle.AC = m.AC
      /\ middle.Mem = m.Mem /\ middle.IR0 = m.Mem[at]
  <2>1. opcode.MBR \in Word
    BY <1>3 DEF Machine
  <2>2. middle \in Machine(n)
    BY <1>3, <2>1, SetWord
  <2> QED BY <1>3, <2>2 DEF Machine
<1> HIDE DEF middle
<1>5. middle.PC + middle.BASE = at + 1
  BY <1>1, <1>4
<1>6. /\ operand \in Machine(n)
      /\ operand.PC = middle.PC + 1 /\ operand.BASE = m.BASE /\ operand.AC = m.AC
      /\ operand.Mem = m.Mem /\ operand.IR0 = m.Mem[at]
      /\ operand.MBR = m.Mem[at + 1] /\ operand.MAR = at + 1
  <2>1. middle.PC + middle.BASE \in 0 .. n - 1
    BY <1>2, <1>5
  <2> QED BY <1>4, <1>5, <2>1, NextWordFacts
<1> HIDE DEF operand
<1>7. /\ s \in Machine(n)
      /\ s.PC = operand.PC /\ s.BASE = m.BASE /\ s.AC = m.AC /\ s.Mem = m.Mem
      /\ s.IR0 = m.Mem[at] /\ s.IR1 = m.Mem[at + 1] /\ s.MAR = at + 1
      /\ s.MBR = m.Mem[at + 1]
  <2>1. operand.MBR \in Word
    BY <1>6 DEF Machine
  <2>2. s \in Machine(n)
    BY <1>6, <2>1, SetWord
  <2> QED BY <1>6, <2>2 DEF Machine
<1>8. cpu_fetch_instruction(m) = s
  BY DEF cpu_fetch_instruction, s, operand, middle, opcode
<1> HIDE DEF s
<1>9. operand.PC = m.PC + 2
  BY <1>1, <1>4, <1>6
<1>10. at = m.BASE + m.PC
  BY <1>1
<1>11. s.IR0 \in 2 .. 5 => s.BASE + s.IR1 \in 0 .. n - 1
  <2>1. m.Mem[at + 1] \in Int
    BY <1>2, Words DEF Machine
  <2> QED BY <1>1, <1>2, <1>7, <2>1
<1> HIDE DEF at
<1> QED BY <1>2, <1>7, <1>8, <1>9, <1>10, <1>11

(* The operand of 2 to 5 is in MBR, and nothing else has changed.          *)
LEMMA OperandFacts ==
  ASSUME NEW n \in Nat, NEW m \in Machine(n), m.BASE + m.IR1 \in 0 .. n - 1
  PROVE  LET o == Operand(m) IN
         /\ o \in Machine(n)
         /\ o.AC = m.AC /\ o.MBR = m.Mem[m.BASE + m.IR1] /\ o.IR1 = m.IR1
         /\ o.PC = m.PC /\ o.BASE = m.BASE /\ o.Mem = m.Mem
<1> DEFINE a == m.IR1 + m.BASE
           w == m.Mem[a]
           m1 == [m EXCEPT !.MAR = a]
           m2 == [m1 EXCEPT !.MBR = w]
<1>1. a \in Int /\ a = m.BASE + m.IR1 /\ a \in 0 .. n - 1
  <2>1. m.IR1 \in Int /\ m.BASE \in Int
    BY Words DEF Machine
  <2> QED BY <2>1
<1>2. w \in Word
  BY <1>1 DEF Machine
<1>3. Operand(m) = m2
  <2>1. Aim(m, m.IR1) = m1
    BY DEF Aim, cpu_mem_address
  <2> HIDE DEF a, w
  <2>2. m1.Mem = m.Mem /\ m1.MAR = a
    BY <1>1 DEF Machine
  <2>3. m1.Mem[m1.MAR] = w
    BY <2>2 DEF w
  <2> QED BY <2>1, <2>3 DEF Operand, mem_read
<1> HIDE DEF a, w
<1>4. m1 \in Machine(n)
  BY <1>1, SetInt
<1>5. m2 \in Machine(n)
  BY <1>2, <1>4, SetWord
<1>6. /\ m2.AC = m.AC /\ m2.MBR = w /\ m2.IR1 = m.IR1
      /\ m2.PC = m.PC /\ m2.BASE = m.BASE /\ m2.Mem = m.Mem
  BY <1>1 DEF Machine
<1>7. w = m.Mem[m.BASE + m.IR1]
  BY <1>1 DEF w
<1> QED BY <1>3, <1>5, <1>6, <1>7

(* What each of the instructions that compute does; those that do not leave*)
(* the machine alone.                                                      *)
LEMMA ExecuteFacts ==
  ASSUME NEW n \in Nat, NEW m \in Machine(n),
         m.IR0 \in 2 .. 5 => m.BASE + m.IR1 \in 0 .. n - 1
  PROVE  LET s == cpu_execute_instruction(m)
             w == m.Mem[m.BASE + m.IR1]
         IN  /\ s \in Machine(n) /\ s.BASE = m.BASE
             /\ s.PC = IF m.IR0 = 6 /\ m.AC > 0 THEN m.IR1 ELSE m.PC
             /\ s.AC = CASE m.IR0 = 1 -> m.IR1
                         [] m.IR0 = 2 -> w
                         [] m.IR0 = 3 -> Wrapped(m.AC + w)
                         [] m.IR0 = 4 -> Wrapped(m.AC * w)
                         [] OTHER -> m.AC
             /\ s.Mem = IF m.IR0 = 5 THEN [m.Mem EXCEPT ![m.BASE + m.IR1] = m.AC]
                        ELSE m.Mem
<1> DEFINE s == cpu_execute_instruction(m)
           o == Operand(m)
           w == m.Mem[m.BASE + m.IR1]
<1> SUFFICES /\ s \in Machine(n) /\ s.BASE = m.BASE
             /\ s.PC = IF m.IR0 = 6 /\ m.AC > 0 THEN m.IR1 ELSE m.PC
             /\ s.AC = CASE m.IR0 = 1 -> m.IR1
                         [] m.IR0 = 2 -> w
                         [] m.IR0 = 3 -> Wrapped(m.AC + w)
                         [] m.IR0 = 4 -> Wrapped(m.AC * w)
                         [] OTHER -> m.AC
             /\ s.Mem = IF m.IR0 = 5 THEN [m.Mem EXCEPT ![m.BASE + m.IR1] = m.AC]
                        ELSE m.Mem
  OBVIOUS
<1>1. /\ m.IR0 \in Int /\ m.IR1 \in Word /\ m.IR1 \in Int /\ m.AC \in Word
      /\ m.AC \in Int /\ m.BASE \in Int /\ m.PC \in Int
  BY Words DEF Machine
<1>2. CASE m.IR0 \in 2 .. 5
  <2> DEFINE a == m.BASE + m.IR1
  <2>1. a \in 0 .. n - 1
    BY <1>2
  <2>2. /\ o \in Machine(n)
        /\ o.AC = m.AC /\ o.MBR = w /\ o.IR1 = m.IR1
        /\ o.PC = m.PC /\ o.BASE = m.BASE /\ o.Mem = m.Mem
    BY <2>1, OperandFacts
  <2>3. w \in Word /\ w \in Int
    <3>1. w \in Word
      BY <2>2 DEF Machine
    <3> QED BY <3>1, Words
  <2> HIDE DEF o, w
  <2>4. CASE m.IR0 = 2
    <3>1. s = [o EXCEPT !.AC = w]
      BY <2>4, <2>2 DEF s, cpu_execute_instruction, o
    <3>2. s \in Machine(n)
      BY <3>1, <2>2, <2>3, SetWord, ZenonT(60)
    <3>3. s.AC = w /\ s.BASE = o.BASE /\ s.PC = o.PC /\ s.Mem = o.Mem
      BY <3>1, <2>2 DEF Machine
    <3> HIDE DEF s
    <3> QED BY <3>2, <3>3, <2>2, <2>4
  <2>5. CASE m.IR0 = 3
    <3> DEFINE x == Wrapped(m.AC + w)
    <3>1. s = [o EXCEPT !.AC = x]
      <4>1. s = [o EXCEPT !.AC = Wrapped(@ + o.MBR)]
        BY <2>5 DEF s, cpu_execute_instruction, o
      <4> QED BY <4>1, <2>2
    <3>2. x \in Word
      BY <1>1, <2>3, WrappedIsWord
    <3> HIDE DEF x, s
    <3>3. s \in Machine(n)
      BY <3>1, <3>2, <2>2, SetWord
    <3>4. s.AC = x /\ s.BASE = o.BASE /\ s.PC = o.PC /\ s.Mem = o.Mem
      BY <3>1, <2>2 DEF Machine
    <3> QED BY <3>3, <3>4, <2>2, <2>5 DEF x
  <2>6. CASE m.IR0 = 4
    <3> DEFINE x == Wrapped(m.AC * w)
    <3>1. s = [o EXCEPT !.AC = x]
      <4>1. s = [o EXCEPT !.AC = Wrapped(@ * o.MBR)]
        BY <2>6 DEF s, cpu_execute_instruction, o
      <4> QED BY <4>1, <2>2
    <3>2. x \in Word
      <4>1. m.AC * w \in Int
        BY <1>1, <2>3
      <4> QED BY <4>1, WrappedIsWord
    <3> HIDE DEF x, s
    <3>3. s \in Machine(n)
      BY <3>1, <3>2, <2>2, SetWord
    <3>4. s.AC = x /\ s.BASE = o.BASE /\ s.PC = o.PC /\ s.Mem = o.Mem
      BY <3>1, <2>2 DEF Machine
    <3> QED BY <3>3, <3>4, <2>2, <2>6 DEF x
  <2>7. CASE m.IR0 = 5
    <3> DEFINE b == m.IR1 + m.BASE
               m1 == [m EXCEPT !.MAR = b]
               m2 == [m1 EXCEPT !.MBR = m.AC]
               mem == [m2.Mem EXCEPT ![m2.MAR] = m2.MBR]
    <3>1. s = [m2 EXCEPT !.Mem = mem]
      <4>1. s = mem_write([Aim(m, m.IR1) EXCEPT !.MBR = m.AC])
        BY <2>7 DEF s, cpu_execute_instruction
      <4>2. Aim(m, m.IR1) = m1
        BY DEF Aim, cpu_mem_address
      <4>3. s = [m2 EXCEPT !.Mem[m2.MAR] = m2.MBR]
        BY <4>1, <4>2 DEF mem_write
      <4> QED BY <4>3
    <3>2. b = a /\ b \in Int
      BY <1>1
    <3> HIDE DEF b, a, s
    <3>3. m1 \in Machine(n)
      BY <3>2, SetInt
    <3>4. m2 \in Machine(n)
      BY <3>3, <1>1, SetWord
    <3>5. /\ m2.AC = m.AC /\ m2.MBR = m.AC /\ m2.MAR = b
          /\ m2.PC = m.PC /\ m2.BASE = m.BASE /\ m2.Mem = m.Mem
      BY <3>2 DEF Machine
    <3> HIDE DEF m2
    <3>6. mem = [m.Mem EXCEPT ![a] = m.AC]
      BY <3>5, <3>2
    <3>7. mem \in [0 .. n - 1 -> Word]
      BY <3>6, <1>1 DEF Machine
    <3> HIDE DEF mem
    <3>8. s \in Machine(n)
      BY <3>1, <3>4, <3>7, SetMem
    <3>9. s.AC = m2.AC /\ s.BASE = m2.BASE /\ s.PC = m2.PC /\ s.Mem = mem
      BY <3>1, <3>4 DEF Machine
    <3> QED BY <3>8, <3>9, <3>5, <3>6, <2>7 DEF a
  <2> QED BY <1>2, <2>4, <2>5, <2>6, <2>7
<1>3. CASE m.IR0 = 1
  <2>1. s = [m EXCEPT !.AC = m.IR1]
    BY <1>3 DEF s, cpu_execute_instruction
  <2> HIDE DEF s, w
  <2>2. s \in Machine(n)
    BY <2>1, <1>1, SetWord
  <2>3. s.AC = m.IR1 /\ s.BASE = m.BASE /\ s.PC = m.PC /\ s.Mem = m.Mem
    BY <2>1 DEF Machine
  <2> QED BY <2>2, <2>3, <1>3
<1>4. CASE m.IR0 = 6 /\ m.AC > 0
  <2>1. s = [m EXCEPT !.PC = m.IR1]
    BY <1>4 DEF s, cpu_execute_instruction
  <2> HIDE DEF s, w
  <2>2. s \in Machine(n)
    BY <2>1, <1>1, SetInt
  <2>3. s.PC = m.IR1 /\ s.BASE = m.BASE /\ s.AC = m.AC /\ s.Mem = m.Mem
    BY <2>1 DEF Machine
  <2> QED BY <2>2, <2>3, <1>4
<1>5. CASE m.IR0 \notin 1 .. 5 /\ ~(m.IR0 = 6 /\ m.AC > 0)
  <2>1. m.IR0 # 1 /\ m.IR0 # 2 /\ m.IR0 # 3 /\ m.IR0 # 4 /\ m.IR0 # 5
    BY <1>5
  <2>2. s = m
    BY <2>1, <1>5 DEF s, cpu_execute_instruction
  <2> HIDE DEF s, w
  <2> QED BY <2>1, <2>2, <1>5
<1> HIDE DEF s, w
<1> QED
  <2>1. m.IR0 \in 2 .. 5 \/ m.IR0 = 1 \/ m.IR0 \notin 1 .. 5
    BY <1>1
  <2> QED BY <2>1, <1>2, <1>3, <1>4, <1>5

(* The instructions that do not compute leave the machine alone.           *)
LEMMA ExecuteNothing ==
  ASSUME NEW m, m.IR0 \notin 1 .. 6
  PROVE  cpu_execute_instruction(m) = m
<1>1. m.IR0 # 1 /\ m.IR0 # 2 /\ m.IR0 # 3 /\ m.IR0 # 4 /\ m.IR0 # 5 /\ m.IR0 # 6
  OBVIOUS
<1> QED BY <1>1 DEF cpu_execute_instruction

LEMMA BlankIsMachine == ASSUME NEW n \in Nat PROVE Blank(n) \in Machine(n)
<1> DEFINE mem == [a \in 0 .. n - 1 |-> 0]
<1>1. mem \in [0 .. n - 1 -> Word]
  BY Words
<1> HIDE DEF mem
<1>2. Blank(n) = [PC |-> 0, AC |-> 0, BASE |-> 0, MAR |-> 0, MBR |-> 0, IR0 |-> 0,
                  IR1 |-> 0, Mem |-> mem]
  BY DEF Blank, mem
<1> QED BY <1>1, <1>2, Words DEF Machine

(* Loading writes the words from the base on and leaves the registers of   *)
(* the program that runs alone.                                            *)
LEMMA LoadWordsFacts ==
  ASSUME NEW n \in Nat, NEW m \in Machine(n), NEW words \in Seq(Word), NEW base \in Nat
  PROVE  LET s == load_words(m, words, base) IN
         /\ s \in Machine(n)
         /\ s.PC = m.PC /\ s.AC = m.AC /\ s.BASE = m.BASE /\ s.IR0 = m.IR0
         /\ s.IR1 = m.IR1
         /\ \A a \in 0 .. n - 1 :
              /\ a - base \in 0 .. Len(words) - 1 => s.Mem[a] = words[a - base + 1]
              /\ a - base \notin 0 .. Len(words) - 1 => s.Mem[a] = m.Mem[a]
<1> DEFINE mem == [a \in 0 .. n - 1 |->
                     IF a - base \in 0 .. Len(words) - 1
                       THEN words[a - base + 1] ELSE m.Mem[a]]
           top == base + Len(words)
           last == IF words = <<>> THEN m.MBR ELSE words[Len(words)]
           m1 == [m EXCEPT !.Mem = mem]
           m2 == [m1 EXCEPT !.MAR = top]
           m3 == [m2 EXCEPT !.MBR = last]
<1>1. DOMAIN m.Mem = 0 .. n - 1 /\ \A a \in 0 .. n - 1 : m.Mem[a] \in Word
  BY DEF Machine
<1>2. mem \in [0 .. n - 1 -> Word]
  BY <1>1
<1>3. top \in Int
  OBVIOUS
<1>4. last \in Word
  <2>1. m.MBR \in Word
    BY DEF Machine
  <2>2. ASSUME words # <<>> PROVE words[Len(words)] \in Word
    BY <2>2
  <2> QED BY <2>1, <2>2
<1>5. load_words(m, words, base) = m3
  <2>1. m2.MBR = m.MBR
    BY DEF Machine
  <2>2. m3 = [m2 EXCEPT !.MBR = IF words = <<>> THEN @ ELSE words[Len(words)]]
    BY <2>1
  <2> QED BY <1>1, <2>2 DEF load_words
<1> HIDE DEF mem, top, last
<1>6. m1 \in Machine(n)
  BY <1>2, SetMem
<1>7. m2 \in Machine(n)
  BY <1>6, <1>3, SetInt
<1>8. m3 \in Machine(n)
  BY <1>7, <1>4, SetWord
<1>9. /\ m3.PC = m.PC /\ m3.AC = m.AC /\ m3.BASE = m.BASE /\ m3.IR0 = m.IR0
      /\ m3.IR1 = m.IR1 /\ m3.Mem = mem
  BY DEF Machine
<1> HIDE DEF m3
<1>10. \A a \in 0 .. n - 1 :
         /\ a - base \in 0 .. Len(words) - 1 => m3.Mem[a] = words[a - base + 1]
         /\ a - base \notin 0 .. Len(words) - 1 => m3.Mem[a] = m.Mem[a]
  BY <1>9 DEF mem
<1> QED BY <1>5, <1>8, <1>9, <1>10

LEMMA DumpMemoryFacts ==
  ASSUME NEW n \in Nat \ {0}, NEW m \in Machine(n)
  PROVE  LET s == shell_print_memory(m, n) IN
         /\ s \in Machine(n)
         /\ s.PC = m.PC /\ s.AC = m.AC /\ s.BASE = m.BASE /\ s.Mem = m.Mem
<1> DEFINE w == m.Mem[n - 1]
           m1 == [m EXCEPT !.MAR = n]
           m2 == [m1 EXCEPT !.MBR = w]
<1>1. n - 1 \in 0 .. n - 1 /\ n \in Nat /\ n \in Int
  OBVIOUS
<1>2. w \in Word
  BY <1>1 DEF Machine
<1>3. shell_print_memory(m, n) = m2
  BY DEF shell_print_memory
<1> HIDE DEF w
<1>4. m1 \in Machine(n)
  BY <1>1, SetInt
<1>5. m2 \in Machine(n)
  BY <1>1, <1>2, <1>4, SetWord
<1>6. m2.PC = m.PC /\ m2.AC = m.AC /\ m2.BASE = m.BASE /\ m2.Mem = m.Mem
  BY DEF Machine
<1> QED BY <1>3, <1>5, <1>6

(* The registers as a PCB keeps them.                                      *)
Saved(pcb) ==
  /\ pcb \in [Register -> Int]
  /\ pcb.AC \in Word /\ pcb.MBR \in Word /\ pcb.IR0 \in Word /\ pcb.IR1 \in Word

LEMMA NewContextSaved == ASSUME NEW base \in Int PROVE Saved(NewContext(base))
BY Words DEF Saved, NewContext, Register

LEMMA SaveContextFacts ==
  ASSUME NEW n \in Nat, NEW m \in Machine(n), NEW pcb, Saved(pcb)
  PROVE  LET s == SaveContext(pcb, m) IN
         Saved(s) /\ s.PC = m.PC /\ s.AC = m.AC /\ s.BASE = pcb.BASE
<1> DEFINE at == m.PC
           ac == m.AC
           mbr == m.MBR
           mar == m.MAR
           ir0 == m.IR0
           ir1 == m.IR1
           s == [pcb EXCEPT !.PC = at, !.AC = ac, !.MBR = mbr, !.MAR = mar,
                            !.IR0 = ir0, !.IR1 = ir1]
<1>1. /\ at \in Int /\ ac \in Int /\ mbr \in Int /\ mar \in Int /\ ir0 \in Int
      /\ ir1 \in Int
      /\ ac \in Word /\ mbr \in Word /\ ir0 \in Word /\ ir1 \in Word
  BY Words DEF Machine
<1>2. SaveContext(pcb, m) = s
  BY DEF SaveContext
<1> HIDE DEF at, ac, mbr, mar, ir0, ir1
<1>3. s \in [Register -> Int]
  BY <1>1 DEF Saved, Register
<1>4. s.PC = at /\ s.AC = ac /\ s.MBR = mbr /\ s.IR0 = ir0 /\ s.IR1 = ir1 /\ s.BASE = pcb.BASE
  BY <1>1 DEF Saved, Register
<1> HIDE DEF s
<1>5. Saved(s)
  BY <1>1, <1>3, <1>4 DEF Saved
<1> QED BY <1>2, <1>4, <1>5 DEF at, ac

LEMMA LoadContextFacts ==
  ASSUME NEW n \in Nat, NEW m \in Machine(n), NEW pcb, Saved(pcb)
  PROVE  LET s == LoadContext(m, pcb) IN
         /\ s \in Machine(n)
         /\ s.PC = pcb.PC /\ s.AC = pcb.AC /\ s.BASE = pcb.BASE /\ s.Mem = m.Mem
<1> DEFINE at == pcb.PC
           ac == pcb.AC
           mbr == pcb.MBR
           mar == pcb.MAR
           ir0 == pcb.IR0
           ir1 == pcb.IR1
           base == pcb.BASE
           s == [m EXCEPT !.PC = at, !.AC = ac, !.MBR = mbr, !.MAR = mar,
                          !.IR0 = ir0, !.IR1 = ir1, !.BASE = base]
<1>1. /\ at \in Int /\ mar \in Int /\ base \in Int
      /\ ac \in Word /\ mbr \in Word /\ ir0 \in Word /\ ir1 \in Word
  BY DEF Saved, Register
<1>2. LoadContext(m, pcb) = s
  BY DEF LoadContext
<1> HIDE DEF at, ac, mbr, mar, ir0, ir1, base
<1>3. s \in Machine(n)
  BY <1>1 DEF Machine
<1>4. s.PC = at /\ s.AC = ac /\ s.BASE = base /\ s.Mem = m.Mem
  BY DEF Machine
<1> HIDE DEF s
<1> QED BY <1>2, <1>3, <1>4 DEF at, ac, base

-----------------------------------------------------------------------------
(* The parts of the type invariant, with what they need to be inductive: a *)
(* thread that loads has a file to load, a quantum that goes on is not     *)
(* used up, and what a PCB holds can be the contents of the registers.     *)
PcOK == /\ pc \in [Thread -> PCs(Main) \union PCs(Shell)]
        /\ \A t \in Thread : pc[t] \in PCs(t)

ControlOK ==
  /\ PcOK
  /\ MUTEX \in Nat /\ TERMINATE \in BOOLEAN
  /\ cmd \in [Thread -> 0 .. 255] /\ name \in [Thread -> File \union {NoFile}]
  /\ \A t \in Thread : pc[t] = "load" => name[t] \in File
  /\ ticks \in 0 .. TQ /\ (pc[Main] = "run" => ticks < TQ)
  /\ printer \in BOOLEAN /\ typed \in 0 .. MaxLines
  /\ status \in {"running", "off", "crashed", "sigpipe", "undefined"}

TableOK ==
  /\ PROCESS_COUNT \in 2 .. MaxPID + 1 /\ capacity \in Nat
  /\ capacity >= PROCESS_COUNT
  /\ ReadyQueue \in Seq(Pointer \ {Idle}) /\ RUNNING_PCB \in Pointer
  /\ PCB \in [Process -> [Register -> Int]]
  /\ \A p \in Process : Saved(PCB[p])
  /\ program \in [PID -> File \union {NoFile}]

OutputOK ==
  /\ spool \in [Process -> Output \union {NoFile}]
  /\ sent \in Seq([pid : Process, text : Output, type : {"END_SPOOL", "CPU_TERM"}])

TInv == ControlOK /\ TableOK /\ cpu \in Machine(M) /\ OutputOK

LEMMA TInvIsType == TInv => TypeOK
BY DEF TInv, ControlOK, PcOK, TableOK, OutputOK, TypeOK

LEMMA Constants ==
  /\ M \in Nat \ {0} /\ TQ \in Nat \ {0} /\ MaxPID \in Nat \ {0, 1} /\ MaxLines \in Nat
  /\ \A f \in File : Image[f] \in Seq(Word) /\ Base[f] \in Nat
  /\ NoFile \notin File /\ NoFile \notin Output
  /\ PID \subseteq Process /\ 1 \in Process /\ 1 \notin PID
<1>1. Len(PROG_IDLE) = 4
  BY DEF PROG_IDLE
<1> QED BY <1>1, ComputerAssumption DEF PID, Process

LEMMA Threads == /\ Main \in Thread /\ Shell \in Thread /\ Main # Shell
                 /\ \A t \in Thread : t = Main \/ t = Shell
BY DEF Thread, Main, Shell

LEMMA Pointers == /\ Idle \in Pointer /\ Idle.pid = 1
                  /\ \A r \in Pointer : r.pid \in Process
                  /\ \A r \in Pointer \ {Idle} : r.pid \in PID
                  /\ \A p \in PID, c \in Nat : [pid |-> p, cap |-> c] \in Pointer \ {Idle}
BY Constants DEF Pointer, Idle, PID

(* The next step of a thread, and the places it may go to.                 *)
LEMMA Steps ==
  ASSUME PcOK, NEW t \in Thread, NEW a, NEW b \in PCs(t), Step(t, a, b)
  PROVE  /\ PcOK'
         /\ pc[t] = a /\ pc'[t] = b /\ status = "running"
         /\ \A u \in Thread : u # t => pc'[u] = pc[u]
BY Threads DEF PcOK, Step

LEMMA Places ==
  /\ {"test", "wait", "pick", "run", "asleep", "command", "name", "load", "noload",
      "expired", "post", "join", "poweroff"} = PCs(Main)
  /\ {"prompt", "getline", "wait", "command", "name", "load", "noload", "post",
      "ended"} = PCs(Shell)
BY Threads DEF PCs

LEMMA Returns ==
  ASSUME NEW t \in Thread
  PROVE  /\ Return(t) \in PCs(t) /\ Return(t) \in {"post", "expired", "run"}
         /\ Return(t) = "run" => t = Main /\ ticks # TQ
         /\ t = Main => Return(t) # "post"
BY Threads, Places DEF Return

(* A step of thread t keeps the control part of the type invariant.        *)
LEMMA Control ==
  ASSUME ControlOK, NEW t \in Thread, NEW a, NEW b \in PCs(t), Step(t, a, b),
         MUTEX' \in Nat, TERMINATE' \in BOOLEAN,
         cmd' \in [Thread -> 0 .. 255], name' \in [Thread -> File \union {NoFile}],
         b = "load" => name'[t] \in File,
         \A u \in Thread : u # t => name'[u] = name[u],
         ticks' \in 0 .. TQ, t = Main /\ b = "run" => ticks' < TQ,
         t # Main => ticks' = ticks,
         printer' \in BOOLEAN, typed' \in 0 .. MaxLines,
         status' \in {"running", "off", "crashed", "sigpipe", "undefined"}
  PROVE  ControlOK'
<1>1. /\ PcOK' /\ pc[t] = a /\ pc'[t] = b
      /\ \A u \in Thread : u # t => pc'[u] = pc[u]
  BY Steps DEF ControlOK
<1>2. \A u \in Thread : pc'[u] = "load" => name'[u] \in File
  BY <1>1 DEF ControlOK
<1>3. pc'[Main] = "run" => ticks' < TQ
  BY <1>1, Threads DEF ControlOK
<1> QED BY <1>1, <1>2, <1>3 DEF ControlOK

-----------------------------------------------------------------------------
(* The actions one by one.                                                 *)
Flat ==
  \/ Test \/ WaitTurn \/ Pick \/ Compute \/ PrintAC \/ Sleep \/ Wake \/ ShellInstr
  \/ Expire \/ Exit \/ EndTurn \/ Undefined \/ Join \/ PowerOff
  \/ Prompt \/ GetLine \/ ShellWait \/ ShellPost \/ PrinterGone
  \/ \E t \in Thread : \/ Terminate(t) \/ Dump(t) \/ DumpSpool(t) \/ LoadPrompt(t)
                        \/ LoadName(t) \/ Load(t) \/ NoLoad(t)

LEMMA FlatNext == Next => Flat
BY Threads DEF Next, MainNext, ShellNext, MainWorks, ShellWorks, ShellCommand, Flat

(* What a step of the control part does, action by action.                 *)
LEMMA ControlStep == ASSUME TInv, Next PROVE ControlOK'
<1> USE DEF TInv
<1>0. /\ ControlOK /\ TQ \in Nat \ {0} /\ MaxLines \in Nat /\ MUTEX \in Nat
      /\ cpu \in Machine(M) /\ M \in Nat
  BY Constants DEF ControlOK
<1> USE <1>0
<1>1. ASSUME Test PROVE ControlOK'
  <2>1. Step(Main, "test", IF TERMINATE THEN "join" ELSE "wait")
    BY <1>1 DEF Test
  <2>2. (IF TERMINATE THEN "join" ELSE "wait") \in PCs(Main)
    BY Places, Threads
  <2>3. /\ MUTEX' \in Nat /\ TERMINATE' \in BOOLEAN /\ cmd' = cmd /\ name' = name
        /\ printer' = printer /\ typed' = typed
        /\ status' \in {"running", "off", "crashed", "sigpipe", "undefined"}
        /\ ticks' = ticks
    BY <1>1 DEF Test, ControlOK, calm, request, outside
  <2> QED BY <2>1, <2>2, <2>3, Threads, Control DEF ControlOK
<1>2. ASSUME WaitTurn PROVE ControlOK'
  <2>1. Step(Main, "wait", "pick")
    BY <1>2 DEF WaitTurn
  <2>2. "pick" \in PCs(Main)
    BY Places, Threads
  <2>3. /\ MUTEX' \in Nat /\ TERMINATE' \in BOOLEAN /\ cmd' = cmd /\ name' = name
        /\ printer' = printer /\ typed' = typed
        /\ status' \in {"running", "off", "crashed", "sigpipe", "undefined"}
        /\ ticks' = ticks
    BY <1>2 DEF WaitTurn, ControlOK, Wait, calm, request, outside
  <2> QED BY <2>1, <2>2, <2>3, Threads, Control DEF ControlOK
<1>3. ASSUME Pick PROVE ControlOK'
  <2>1. Step(Main, "pick", "run")
    BY <1>3 DEF Pick
  <2>2. "run" \in PCs(Main)
    BY Places, Threads
  <2>3. /\ MUTEX' \in Nat /\ TERMINATE' \in BOOLEAN /\ cmd' = cmd /\ name' = name
        /\ printer' = printer /\ typed' = typed
        /\ status' \in {"running", "off", "crashed", "sigpipe", "undefined"}
        /\ ticks' = 0
    BY <1>3 DEF Pick, ControlOK, request, outside
  <2> QED BY <2>1, <2>2, <2>3, Threads, Control DEF ControlOK
<1>4. ASSUME Compute PROVE ControlOK'
  <2>1. Step(Main, "run", AfterFetch)
    BY <1>4 DEF Compute, Fetch
  <2>2. AfterFetch \in PCs(Main)
    BY Places, Threads DEF AfterFetch
  <2>3. pc[Main] = "run" /\ ticks' = ticks + 1 /\ ticks < TQ
    BY <1>4 DEF Compute, Fetch, Step, ControlOK
  <2>4. /\ MUTEX' \in Nat /\ TERMINATE' = TERMINATE /\ cmd' = cmd /\ name' = name
        /\ printer' = printer /\ typed' = typed
        /\ status' \in {"running", "off", "crashed", "sigpipe", "undefined"}
    BY <1>4 DEF Compute, ControlOK, request, outside
  <2> QED BY <2>1, <2>2, <2>3, <2>4, Threads, Control DEF ControlOK, AfterFetch
<1>5. ASSUME PrintAC PROVE ControlOK'
  <2>1. Step(Main, "run", AfterFetch)
    BY <1>5 DEF PrintAC, Fetch
  <2>2. AfterFetch \in PCs(Main)
    BY Places, Threads DEF AfterFetch
  <2>3. pc[Main] = "run" /\ ticks' = ticks + 1 /\ ticks < TQ
    BY <1>5 DEF PrintAC, Fetch, Step, ControlOK
  <2>4. /\ MUTEX' \in Nat /\ TERMINATE' = TERMINATE /\ cmd' = cmd /\ name' = name
        /\ printer' = printer /\ typed' = typed
        /\ status' \in {"running", "off", "crashed", "sigpipe", "undefined"}
    BY <1>5 DEF PrintAC, ControlOK, request, outside
  <2> QED BY <2>1, <2>2, <2>3, <2>4, Threads, Control DEF ControlOK, AfterFetch
<1>6. ASSUME Sleep PROVE ControlOK'
  <2>1. Step(Main, "run", "asleep")
    BY <1>6 DEF Sleep, Fetch
  <2>2. "asleep" \in PCs(Main)
    BY Places, Threads
  <2>3. pc[Main] = "run" /\ ticks' = ticks + 1 /\ ticks < TQ
    BY <1>6 DEF Sleep, Fetch, Step, ControlOK
  <2>4. /\ MUTEX' \in Nat /\ TERMINATE' = TERMINATE /\ cmd' = cmd /\ name' = name
        /\ printer' = printer /\ typed' = typed
        /\ status' \in {"running", "off", "crashed", "sigpipe", "undefined"}
    BY <1>6 DEF Sleep, ControlOK, request, outside, Post
  <2> QED BY <2>1, <2>2, <2>3, <2>4, Threads, Control DEF ControlOK
<1>7. ASSUME Wake PROVE ControlOK'
  <2>1. Step(Main, "asleep", Return(Main))
    BY <1>7 DEF Wake
  <2>2. Return(Main) \in PCs(Main)
    BY Returns, Places, Threads
  <2>3. /\ MUTEX' \in Nat /\ TERMINATE' \in BOOLEAN /\ cmd' = cmd /\ name' = name
        /\ printer' = printer /\ typed' = typed
        /\ status' \in {"running", "off", "crashed", "sigpipe", "undefined"}
        /\ ticks' = ticks
    BY <1>7 DEF Wake, ControlOK, Wait, calm, request, outside
  <2> QED BY <2>1, <2>2, <2>3, Returns, Threads, Control DEF ControlOK
<1>8. ASSUME ShellInstr PROVE ControlOK'
  <2>1. Step(Main, "run", "command")
    BY <1>8 DEF ShellInstr, Fetch
  <2>2. "command" \in PCs(Main)
    BY Places, Threads
  <2>3. pc[Main] = "run" /\ ticks' = ticks + 1 /\ ticks < TQ
    BY <1>8 DEF ShellInstr, Fetch, Step, ControlOK
  <2>4. cpu'.IR1 % 256 \in 0 .. 255
    <3>1. cpu_fetch_instruction(cpu) \in Machine(M)
      BY <1>8, FetchFacts DEF ShellInstr, Fetch
    <3>2. cpu' \in Machine(M)
      <4>1. cpu_fetch_instruction(cpu).IR0 \notin 2 .. 5
        BY <1>8 DEF ShellInstr, Fetch
      <4> QED BY <1>8, <3>1, <4>1, ExecuteFacts DEF ShellInstr, Fetch
    <3>3. cpu'.IR1 \in Int
      BY <3>2, Words DEF Machine
    <3> QED BY <3>3
  <2>5. cmd' \in [Thread -> 0 .. 255]
    <3>1. cmd' = [cmd EXCEPT ![Main] = cpu'.IR1 % 256]
      BY <1>8 DEF ShellInstr
    <3> QED BY <2>4, <3>1 DEF ControlOK
  <2>6. /\ MUTEX' \in Nat /\ TERMINATE' \in BOOLEAN /\ name' = name
        /\ printer' = printer /\ typed' = typed
        /\ status' \in {"running", "off", "crashed", "sigpipe", "undefined"}
        /\ ticks' \in 0 .. TQ
    BY <1>8, <2>3 DEF ShellInstr, ControlOK, outside
  <2> QED BY <2>1, <2>2, <2>5, <2>6, Threads, Control DEF ControlOK
<1>9. ASSUME Expire PROVE ControlOK'
  <2>1. Step(Main, "expired", "post")
    BY <1>9 DEF Expire
  <2>2. "post" \in PCs(Main)
    BY Places, Threads
  <2>3. /\ MUTEX' \in Nat /\ TERMINATE' \in BOOLEAN /\ cmd' = cmd /\ name' = name
        /\ printer' = printer /\ typed' = typed
        /\ status' \in {"running", "off", "crashed", "sigpipe", "undefined"}
        /\ ticks' = ticks
    BY <1>9 DEF Expire, ControlOK, request, outside
  <2> QED BY <2>1, <2>2, <2>3, Threads, Control DEF ControlOK
<1>10. ASSUME Exit PROVE ControlOK'
  <2>1. Step(Main, "run", "post")
    BY <1>10 DEF Exit, Fetch
  <2>2. "post" \in PCs(Main)
    BY Places, Threads
  <2>3. pc[Main] = "run" /\ ticks' = ticks + 1 /\ ticks < TQ
    BY <1>10 DEF Exit, Fetch, Step, ControlOK
  <2>4. /\ MUTEX' \in Nat /\ TERMINATE' = TERMINATE /\ cmd' = cmd /\ name' = name
        /\ printer' = printer /\ typed' = typed
        /\ status' \in {"running", "off", "crashed", "sigpipe", "undefined"}
    BY <1>10 DEF Exit, ControlOK, request, outside, EndSpool
  <2> QED BY <2>1, <2>2, <2>3, <2>4, Threads, Control DEF ControlOK
<1>11. ASSUME EndTurn PROVE ControlOK'
  <2>1. Step(Main, "post", "test")
    BY <1>11 DEF EndTurn
  <2>2. "test" \in PCs(Main)
    BY Places, Threads
  <2>3. /\ MUTEX' \in Nat /\ TERMINATE' \in BOOLEAN /\ cmd' = cmd /\ name' = name
        /\ printer' = printer /\ typed' = typed
        /\ status' \in {"running", "off", "crashed", "sigpipe", "undefined"}
        /\ ticks' = ticks
    BY <1>11 DEF EndTurn, ControlOK, Post, calm, request, outside
  <2> QED BY <2>1, <2>2, <2>3, Threads, Control DEF ControlOK
<1>12. ASSUME Join PROVE ControlOK'
  <2>1. Step(Main, "join", "poweroff")
    BY <1>12 DEF Join
  <2>2. "poweroff" \in PCs(Main)
    BY Places, Threads
  <2>3. /\ MUTEX' \in Nat /\ TERMINATE' \in BOOLEAN /\ cmd' = cmd /\ name' = name
        /\ printer' = printer /\ typed' = typed
        /\ status' \in {"running", "off", "crashed", "sigpipe", "undefined"}
        /\ ticks' = ticks
    BY <1>12 DEF Join, ControlOK, calm, request, outside
  <2> QED BY <2>1, <2>2, <2>3, Threads, Control DEF ControlOK
<1>13. ASSUME PowerOff PROVE ControlOK'
  <2>1. Step(Main, "poweroff", "poweroff")
    BY <1>13 DEF PowerOff
  <2>2. "poweroff" \in PCs(Main)
    BY Places, Threads
  <2>3. /\ MUTEX' \in Nat /\ TERMINATE' \in BOOLEAN /\ cmd' = cmd /\ name' = name
        /\ printer' = printer /\ typed' = typed
        /\ status' \in {"running", "off", "crashed", "sigpipe", "undefined"}
        /\ ticks' = ticks
    BY <1>13 DEF PowerOff, ControlOK, EndSpool, request, outside
  <2> QED BY <2>1, <2>2, <2>3, Threads, Control DEF ControlOK
<1>14. ASSUME Prompt PROVE ControlOK'
  <2>1. Step(Shell, "prompt", IF TERMINATE THEN "ended" ELSE "getline")
    BY <1>14 DEF Prompt
  <2>2. (IF TERMINATE THEN "ended" ELSE "getline") \in PCs(Shell)
    BY Places, Threads
  <2>3. /\ MUTEX' \in Nat /\ TERMINATE' \in BOOLEAN /\ cmd' = cmd /\ name' = name
        /\ printer' = printer /\ typed' = typed
        /\ status' \in {"running", "off", "crashed", "sigpipe", "undefined"}
        /\ ticks' = ticks
    BY <1>14 DEF Prompt, ControlOK, calm, request, outside
  <2> QED BY <2>1, <2>2, <2>3, Threads, Control DEF ControlOK
<1>15. ASSUME ShellWait PROVE ControlOK'
  <2>1. Step(Shell, "wait", "command")
    BY <1>15 DEF ShellWait
  <2>2. "command" \in PCs(Shell)
    BY Places, Threads
  <2>3. /\ MUTEX' \in Nat /\ TERMINATE' \in BOOLEAN /\ cmd' = cmd /\ name' = name
        /\ printer' = printer /\ typed' = typed
        /\ status' \in {"running", "off", "crashed", "sigpipe", "undefined"}
        /\ ticks' = ticks
    BY <1>15 DEF ShellWait, ControlOK, Wait, calm, request, outside
  <2> QED BY <2>1, <2>2, <2>3, Threads, Control DEF ControlOK
<1>16. ASSUME ShellPost PROVE ControlOK'
  <2>1. Step(Shell, "post", "prompt")
    BY <1>16 DEF ShellPost
  <2>2. "prompt" \in PCs(Shell)
    BY Places, Threads
  <2>3. /\ MUTEX' \in Nat /\ TERMINATE' \in BOOLEAN /\ cmd' = cmd /\ name' = name
        /\ printer' = printer /\ typed' = typed
        /\ status' \in {"running", "off", "crashed", "sigpipe", "undefined"}
        /\ ticks' = ticks
    BY <1>16 DEF ShellPost, ControlOK, Post, calm, request, outside
  <2> QED BY <2>1, <2>2, <2>3, Threads, Control DEF ControlOK
<1>17. ASSUME NEW t \in Thread, Terminate(t) PROVE ControlOK'
  <2>1. Step(t, "command", Return(t))
    BY <1>17 DEF Terminate
  <2>2. Return(t) \in PCs(t)
    BY Returns, Places, Threads
  <2>3. /\ MUTEX' \in Nat /\ TERMINATE' \in BOOLEAN /\ cmd' = cmd /\ name' = name
        /\ printer' = printer /\ typed' = typed
        /\ status' \in {"running", "off", "crashed", "sigpipe", "undefined"}
        /\ ticks' = ticks
    BY <1>17 DEF Terminate, ControlOK, calm, request, outside
  <2> QED BY <2>1, <2>2, <2>3, Returns, Threads, Control DEF ControlOK
<1>18. ASSUME NEW t \in Thread, Dump(t) PROVE ControlOK'
  <2>1. Step(t, "command", Return(t))
    BY <1>18 DEF Dump
  <2>2. Return(t) \in PCs(t)
    BY Returns, Places, Threads
  <2>3. /\ MUTEX' \in Nat /\ TERMINATE' \in BOOLEAN /\ cmd' = cmd /\ name' = name
        /\ printer' = printer /\ typed' = typed
        /\ status' \in {"running", "off", "crashed", "sigpipe", "undefined"}
        /\ ticks' = ticks
    BY <1>18 DEF Dump, ControlOK, request, outside
  <2> QED BY <2>1, <2>2, <2>3, Returns, Threads, Control DEF ControlOK
<1>19. ASSUME NEW t \in Thread, DumpSpool(t) PROVE ControlOK'
  <2>1. Step(t, "command", Return(t))
    BY <1>19 DEF DumpSpool
  <2>2. Return(t) \in PCs(t)
    BY Returns, Places, Threads
  <2>3. /\ MUTEX' \in Nat /\ TERMINATE' \in BOOLEAN /\ cmd' = cmd /\ name' = name
        /\ printer' = printer /\ typed' = typed
        /\ status' \in {"running", "off", "crashed", "sigpipe", "undefined"}
        /\ ticks' = ticks
    BY <1>19 DEF DumpSpool, ControlOK, request, outside
  <2> QED BY <2>1, <2>2, <2>3, Returns, Threads, Control DEF ControlOK
<1>20. ASSUME NEW t \in Thread, LoadPrompt(t) PROVE ControlOK'
  <2>1. Step(t, "command", "name")
    BY <1>20 DEF LoadPrompt
  <2>2. "name" \in PCs(t)
    BY Places, Threads
  <2>3. /\ MUTEX' \in Nat /\ TERMINATE' \in BOOLEAN /\ cmd' = cmd /\ name' = name
        /\ printer' = printer /\ typed' = typed
        /\ status' \in {"running", "off", "crashed", "sigpipe", "undefined"}
        /\ ticks' = ticks
    BY <1>20 DEF LoadPrompt, ControlOK, Post, calm, request, outside
  <2> QED BY <2>1, <2>2, <2>3, Threads, Control DEF ControlOK
<1>21. ASSUME GetLine PROVE ControlOK'
  <2>1. PICK b \in {"prompt", "wait"} : Step(Shell, "getline", b)
    BY <1>21 DEF GetLine
  <2>2. b \in PCs(Shell) /\ b # "load"
    BY Places
  <2>3. typed' \in 0 .. MaxLines
    BY <1>21 DEF GetLine, ReadLine, ReadEOF, ControlOK
  <2>4. cmd' \in [Thread -> 0 .. 255] /\ TERMINATE' \in BOOLEAN
    <3>1. \A l \in Command : l[2] % 256 \in 0 .. 255
      BY DEF Command
    <3>2. CASE cmd' = cmd /\ TERMINATE' \in {TERMINATE, TRUE}
      BY <3>2 DEF ControlOK
    <3>3. CASE \E l \in Command : /\ cmd' = [cmd EXCEPT ![Shell] = l[2] % 256]
                                  /\ TERMINATE' = TERMINATE
      BY <3>1, <3>3, ZenonT(60) DEF ControlOK
    <3> QED BY <1>21, <3>2, <3>3 DEF GetLine
  <2> QED BY <1>21, <2>1, <2>2, <2>3, <2>4, Threads, Control DEF GetLine, ControlOK
<1>22. ASSUME NEW t \in Thread, LoadName(t) PROVE ControlOK'
  <2>1. typed' \in 0 .. MaxLines
    <3>1. ASSUME NEW l, ReadLine(l) PROVE typed' \in 0 .. MaxLines
      BY <3>1 DEF ReadLine, ControlOK
    <3>2. ASSUME ReadEOF PROVE typed' \in 0 .. MaxLines
      BY <3>2 DEF ReadEOF
    <3> QED BY <1>22, <3>1, <3>2 DEF LoadName
  <2> DEFINE Kept == /\ MUTEX' \in Nat /\ TERMINATE' = TERMINATE /\ cmd' = cmd
                     /\ ticks' = ticks /\ printer' = printer /\ status' = status
  <2>9. Kept
    BY <1>22 DEF LoadName
  <2>2. CASE \E f \in File : /\ Step(t, "name", "load")
                             /\ name' = [name EXCEPT ![t] = f]
    <3>1. PICK f \in File : /\ Step(t, "name", "load")
                            /\ name' = [name EXCEPT ![t] = f]
      BY <2>2
    <3>2. "load" \in PCs(t)
      BY Places, Threads
    <3>3. /\ name' \in [Thread -> File \union {NoFile}] /\ name'[t] \in File
          /\ \A u \in Thread : u # t => name'[u] = name[u]
      BY <3>1 DEF ControlOK
    <3> QED BY <2>1, <2>9, <3>1, <3>2, <3>3, Control DEF ControlOK
  <2>3. CASE \E b \in {"noload", Return(t)} : Step(t, "name", b) /\ UNCHANGED name
    <3>1. PICK b \in {"noload", Return(t)} : Step(t, "name", b) /\ UNCHANGED name
      BY <2>3
    <3>2. b \in PCs(t) /\ b # "load" /\ (b = "run" => ticks # TQ)
      BY Places, Threads, Returns
    <3> QED BY <2>1, <2>9, <3>1, <3>2, Control DEF ControlOK
  <2> QED BY <1>22, <2>2, <2>3 DEF LoadName
<1>23. ASSUME NEW t \in Thread, Load(t) PROVE ControlOK'
  <2>1. Step(t, "load", Return(t))
    BY <1>23 DEF Load
  <2>2. Return(t) \in PCs(t)
    BY Returns
  <2>3. /\ name' \in [Thread -> File \union {NoFile}]
        /\ \A u \in Thread : u # t => name'[u] = name[u]
    BY <1>23 DEF Load, ControlOK
  <2>4. /\ MUTEX' \in Nat /\ TERMINATE' = TERMINATE /\ cmd' = cmd /\ ticks' = ticks
        /\ printer' = printer /\ typed' = typed /\ status' = status
    BY <1>23 DEF Load, Wait, outside
  <2> QED BY <2>1, <2>2, <2>3, <2>4, Returns, Control DEF ControlOK
<1>24. ASSUME NEW t \in Thread, NoLoad(t) PROVE ControlOK'
  <2>1. PICK a \in {"noload", "load"} : Step(t, a, Return(t))
    BY <1>24 DEF NoLoad
  <2>2. Return(t) \in PCs(t)
    BY Returns
  <2>3. /\ name' \in [Thread -> File \union {NoFile}]
        /\ \A u \in Thread : u # t => name'[u] = name[u]
    BY <1>24 DEF NoLoad, ControlOK
  <2>4. /\ MUTEX' \in Nat /\ TERMINATE' = TERMINATE /\ cmd' = cmd /\ ticks' = ticks
        /\ printer' = printer /\ typed' = typed /\ status' = status
    BY <1>24 DEF NoLoad, Wait, outside
  <2> QED BY <2>1, <2>2, <2>3, <2>4, Returns, Control DEF ControlOK
<1>25. ASSUME Undefined PROVE ControlOK'
  BY <1>25 DEF Undefined, ControlOK, PcOK, request, outside
<1>26. ASSUME PrinterGone PROVE ControlOK'
  BY <1>26 DEF PrinterGone, ControlOK, PcOK, request
<1> QED BY <1>1, <1>2, <1>3, <1>4, <1>5, <1>6, <1>7, <1>8, <1>9, <1>10, <1>11, <1>12, <1>13, <1>14, <1>15, <1>16, <1>17, <1>18, <1>19, <1>20, <1>21, <1>22, <1>23, <1>24, <1>25, <1>26, FlatNext DEF Flat

(* The table, which has room for all PIDs given so far, has room for the   *)
(* next one when it is grown for it.                                       *)
LEMMA GrownFits ==
  ASSUME capacity \in Nat, NEW index \in Nat \ {0}, capacity >= index
  PROVE  Grown(index) \in Nat /\ Grown(index) > index
<1> DEFINE S == {c \in {capacity * 2^k : k \in 0 .. index} : c > index}
<1>1. S \subseteq Nat
  <2> SUFFICES ASSUME NEW k \in 0 .. index, capacity * 2^k > index
               PROVE  capacity * 2^k \in Nat
    OBVIOUS
  <2>1. 2^k \in Int
    OBVIOUS
  <2> QED BY <2>1
<1>2. capacity * 2^1 \in S
  <2>1. 2^1 = 2
    OBVIOUS
  <2>2. 1 \in 0 .. index /\ capacity * 2 > index
    OBVIOUS
  <2> QED BY <2>1, <2>2
<1> HIDE DEF S
<1>3. \E c \in S : \A d \in S : c <= d
  BY <1>1, <1>2, LeastNat
<1>4. Min(S) \in S
  BY <1>3 DEF Min
<1>5. \A c \in S : c > index
  BY DEF S
<1>6. Grown(index) = Min(S)
  BY DEF Grown, S
<1> QED BY <1>1, <1>4, <1>5, <1>6

LEMMA TableStep == ASSUME TInv, Next PROVE TableOK'
<1>0. /\ TableOK /\ ControlOK /\ cpu \in Machine(M) /\ M \in Nat
      /\ MaxPID \in Nat \ {0, 1}
  BY Constants DEF TInv
<1> USE <1>0
<1>1. ASSUME Pick PROVE TableOK'
  <2>1. /\ ReadyQueue \in Seq(Pointer \ {Idle}) /\ Idle \in Pointer
        /\ UNCHANGED <<table, PCB, program>>
    BY <1>1, Pointers DEF Pick, TableOK
  <2>2. ReadyQueue' \in Seq(Pointer \ {Idle}) /\ RUNNING_PCB' \in Pointer
    <3>1. CASE ReadyQueue = <<>>
      BY <1>1, <2>1, <3>1 DEF Pick
    <3>2. CASE ReadyQueue # <<>>
      <4>1. Head(ReadyQueue) \in Pointer \ {Idle}
            /\ Tail(ReadyQueue) \in Seq(Pointer \ {Idle})
        BY <2>1, <3>2
      <4> QED BY <1>1, <3>2, <4>1 DEF Pick
    <3> QED BY <3>1, <3>2
  <2> QED BY <2>1, <2>2 DEF TableOK, table
<1>2. ASSUME Expire PROVE TableOK'
  <2>1. /\ ReadyQueue \in Seq(Pointer \ {Idle}) /\ RUNNING_PCB \in Pointer
        /\ UNCHANGED <<table, RUNNING_PCB, program>>
        /\ PCB \in [Process -> [Register -> Int]] /\ \A p \in Process : Saved(PCB[p])
    BY <1>2 DEF Expire, TableOK
  <2>2. ReadyQueue' \in Seq(Pointer \ {Idle})
    BY <1>2, <2>1 DEF Expire
  <2> DEFINE q == RUNNING_PCB.pid
             new == SaveContext(PCB[q], cpu)
  <2>3. q \in Process
    BY <2>1, Pointers
  <2>4. Saved(new)
    BY <2>1, <2>3, SaveContextFacts
  <2>5. PCB' = [PCB EXCEPT ![q] = new]
    BY <1>2 DEF Expire
  <2> HIDE DEF new, q
  <2>6. PCB' \in [Process -> [Register -> Int]] /\ \A p \in Process : Saved(PCB'[p])
    BY <2>1, <2>3, <2>4, <2>5 DEF Saved
  <2> QED BY <2>1, <2>2, <2>6 DEF TableOK, table
<1>3. ASSUME Exit PROVE TableOK'
  <2>1. UNCHANGED <<table, ReadyQueue, RUNNING_PCB, program>>
        /\ PCB \in [Process -> [Register -> Int]] /\ \A p \in Process : Saved(PCB[p])
    BY <1>3 DEF Exit, TableOK
  <2> DEFINE q == RUNNING_PCB.pid
             new == NewContext(0)
  <2>2. Saved(new)
    BY NewContextSaved
  <2>3. PCB' = [PCB EXCEPT ![q] = new]
    BY <1>3 DEF Exit
  <2> HIDE DEF new, q
  <2>4. PCB' \in [Process -> [Register -> Int]] /\ \A p \in Process : Saved(PCB'[p])
    BY <2>1, <2>2, <2>3 DEF Saved
  <2> QED BY <2>1, <2>4 DEF TableOK, table
<1>4. ASSUME NEW t \in Thread, Load(t) PROVE TableOK'
  <2>1. name[t] \in File
    BY <1>4 DEF Load, Step, ControlOK
  <2>2. RUNNING_PCB' = RUNNING_PCB
    BY <1>4 DEF Load
  <2>3. CASE UNCHANGED <<table, ReadyQueue, PCB, program>>
    BY <2>2, <2>3 DEF TableOK, table
  <2>4. CASE PROCESS_COUNT \in PID /\ Submit(PROCESS_COUNT, name[t])
    <3> DEFINE q == PROCESS_COUNT
               new == NewContext(Base[name[t]])
    <3>1. q \in PID /\ q \in Process /\ q \in Nat \ {0} /\ capacity \in Nat /\ capacity >= q
      BY <2>4, Constants DEF TableOK, PID
    <3>2. capacity' \in Nat /\ capacity' >= q + 1
      <4>1. Grown(q) \in Nat /\ Grown(q) > q
        BY <3>1, GrownFits
      <4> QED BY <2>4, <3>1, <4>1 DEF Submit
    <3>3. PROCESS_COUNT' = q + 1 /\ q + 1 \in 2 .. MaxPID + 1
      BY <2>4, <3>1 DEF Submit, PID
    <3>4. ReadyQueue' \in Seq(Pointer \ {Idle})
      <4>1. [pid |-> q, cap |-> capacity'] \in Pointer \ {Idle}
        BY <3>1, <3>2, Pointers
      <4>2. ReadyQueue \in Seq(Pointer \ {Idle})
        BY DEF TableOK
      <4>3. ReadyQueue' = Append(ReadyQueue, [pid |-> q, cap |-> capacity'])
        BY <2>4 DEF Submit
      <4> QED BY <4>1, <4>2, <4>3
    <3>5. Saved(new)
      BY <2>1, Constants, NewContextSaved
    <3>6. PCB' \in [Process -> [Register -> Int]] /\ \A p \in Process : Saved(PCB'[p])
      <4>1. PCB' = [PCB EXCEPT ![q] = new]
        BY <2>4 DEF Submit
      <4> HIDE DEF q, new
      <4> QED BY <4>1, <3>5 DEF TableOK, Saved
    <3>7. program' \in [PID -> File \union {NoFile}]
      <4>1. program' = [program EXCEPT ![q] = name[t]]
        BY <2>4 DEF Submit
      <4> QED BY <4>1, <2>1 DEF TableOK
    <3> QED BY <2>2, <3>2, <3>3, <3>4, <3>6, <3>7 DEF TableOK
  <2> QED BY <1>4, <2>3, <2>4 DEF Load
<1>5. ASSUME UNCHANGED procs PROVE TableOK'
  BY <1>5 DEF procs, table, TableOK
<1>6. ASSUME Flat, ~Pick, ~Expire, ~Exit, ~\E t \in Thread : Load(t) PROVE UNCHANGED procs
  BY <1>6 DEF Flat, Test, WaitTurn, Compute, PrintAC, Sleep, Wake, ShellInstr,
     EndTurn, Undefined, Join, PowerOff, Prompt, GetLine, ShellWait, ShellPost, PrinterGone,
     Terminate, Dump, DumpSpool, LoadPrompt, LoadName, NoLoad, calm
<1> QED BY <1>1, <1>2, <1>3, <1>4, <1>5, <1>6, FlatNext

LEMMA FetchStep ==
  ASSUME TInv, NEW codes, NEW b, Fetch(codes, b)
  PROVE  cpu' \in Machine(M)
<1>1. M \in Nat /\ cpu \in Machine(M) /\ ~Wild(cpu)
  BY Constants DEF TInv, Fetch
<1>2. cpu' = cpu_execute_instruction(cpu_fetch_instruction(cpu))
  BY DEF Fetch
<1> QED BY <1>1, <1>2, FetchFacts, ExecuteFacts

LEMMA CpuStep == ASSUME TInv, Next PROVE cpu' \in Machine(M)
<1>0. /\ TableOK /\ ControlOK /\ cpu \in Machine(M) /\ M \in Nat \ {0}
  BY Constants DEF TInv
<1> USE <1>0
<1>1. ASSUME Pick PROVE cpu' \in Machine(M)
  <2> DEFINE q == RUNNING_PCB'.pid
  <2>1. RUNNING_PCB' \in Pointer
    BY TableStep DEF TableOK
  <2>2. q \in Process
    BY <2>1, Pointers
  <2>3. Saved(PCB[q])
    BY <2>2 DEF TableOK
  <2>4. cpu' = LoadContext(cpu, PCB[q])
    BY <1>1 DEF Pick
  <2> QED BY <2>3, <2>4, LoadContextFacts
<1>2. ASSUME Compute \/ PrintAC \/ Sleep \/ ShellInstr \/ Exit PROVE cpu' \in Machine(M)
  BY <1>2, FetchStep DEF Compute, PrintAC, Sleep, ShellInstr, Exit
<1>3. ASSUME NEW t \in Thread, Dump(t) PROVE cpu' \in Machine(M)
  BY <1>3, DumpMemoryFacts DEF Dump
<1>4. ASSUME NEW t \in Thread, Load(t) PROVE cpu' \in Machine(M)
  <2>1. name[t] \in File
    BY <1>4 DEF Load, Step, ControlOK
  <2> QED BY <1>4, <2>1, Constants, LoadWordsFacts DEF Load
<1>5. ASSUME Flat, ~Pick, ~(Compute \/ PrintAC \/ Sleep \/ ShellInstr \/ Exit),
             ~\E t \in Thread : Dump(t) \/ Load(t)
      PROVE  UNCHANGED cpu
  BY <1>5 DEF Flat, Test, WaitTurn, Wake, Expire, EndTurn, Undefined, Join, PowerOff,
     Prompt, GetLine, ShellWait, ShellPost, PrinterGone,
     Terminate, DumpSpool, LoadPrompt, LoadName, NoLoad, calm
<1> QED BY <1>1, <1>2, <1>3, <1>4, <1>5, FlatNext

-----------------------------------------------------------------------------
(* What happens to the spool files.                                        *)
What == {"AC", "registers", "memory", "table", "old"}
LineOfOutput == [what : What, words : Seq(Int)]

LEMMA ShowsLine ==
  ASSUME NEW what \in What, NEW words \in Seq(Int)
  PROVE  Shows(what, words) \in LineOfOutput
BY DEF Shows, LineOfOutput

LEMMA Lines ==
  ASSUME cpu \in Machine(M)
  PROVE  /\ Shows("AC", <<cpu.AC>>) \in LineOfOutput
         /\ \A c \in Int : Dumped(c) \in LineOfOutput
<1>1. /\ cpu.PC \in Int /\ cpu.AC \in Int /\ cpu.BASE \in Int /\ cpu.MAR \in Int
      /\ cpu.MBR \in Int /\ cpu.IR0 \in Int /\ cpu.IR1 \in Int
  BY Words DEF Machine
<1>3. <<cpu.AC>> \in Seq(Int) /\ <<>> \in Seq(Int)
  BY <1>1
<1>4. <<cpu.BASE, cpu.PC, cpu.IR0, cpu.IR1, cpu.AC, cpu.MAR, cpu.MBR>> \in Seq(Int)
  BY <1>1
<1>5. ASSUME NEW c \in Int PROVE Dumped(c) \in LineOfOutput
  <2>1. CASE c = 2
    <3>1. Dumped(c) = Shows("registers", <<cpu.BASE, cpu.PC, cpu.IR0, cpu.IR1, cpu.AC,
                                           cpu.MAR, cpu.MBR>>)
      BY <2>1 DEF Dumped
    <3> QED BY ShowsLine, <1>4, <3>1 DEF What
  <2>2. CASE c = 3
    <3>1. Dumped(c) = Shows("memory", <<>>)
      BY <2>2 DEF Dumped
    <3> QED BY ShowsLine, <1>3, <3>1 DEF What
  <2>3. CASE c # 2 /\ c # 3
    BY ShowsLine, <1>3, <2>3 DEF Dumped, What
  <2> QED BY <2>1, <2>2, <2>3
<1> QED BY ShowsLine, <1>3, <1>5 DEF What

LEMMA PrintedFacts ==
  ASSUME OutputOK, NEW p \in Process, NEW x \in LineOfOutput, spool' = Printed(p, x)
  PROVE  /\ spool' \in [Process -> Output \union {NoFile}]
         /\ spool'[p] # NoFile
         /\ \A q \in Process : q # p => spool'[q] = spool[q]
<1> DEFINE old == IF spool[p] = NoFile THEN <<>> ELSE spool[p]
           new == Append(old, x)
<1>1. spool \in [Process -> Output \union {NoFile}]
  BY DEF OutputOK
<1>2. old \in Seq(LineOfOutput)
  BY <1>1 DEF Output, LineOfOutput, What
<1>3. new \in Seq(LineOfOutput)
  BY <1>2
<1>4. spool' = [spool EXCEPT ![p] = new]
  BY DEF Printed
<1> HIDE DEF new
<1>5. new \in Output /\ new # NoFile
  BY <1>3, Constants DEF Output, LineOfOutput, What
<1> QED BY <1>1, <1>4, <1>5

(* The file goes, to the printer while there is one, or nothing happens.   *)
LEMMA EndSpoolFacts ==
  ASSUME OutputOK, NEW p \in Process, NEW type \in {"END_SPOOL", "CPU_TERM"},
         EndSpool(p, type)
  PROVE  /\ OutputOK'
         /\ \/ UNCHANGED <<spool, sent>> /\ (spool[p] = NoFile \/ status' # "running")
                                        /\ (spool[p] # NoFile => ~printer)
            \/ /\ spool[p] # NoFile /\ spool' = [spool EXCEPT ![p] = NoFile]
               /\ \/ ~printer /\ sent' = sent
                  \/ sent' = Append(sent, [pid |-> p, text |-> spool[p], type |-> type])
<1>1. CASE spool[p] = NoFile
  BY <1>1 DEF EndSpool, OutputOK, output
<1>2. CASE spool[p] # NoFile /\ ~printer /\ status' = "sigpipe" /\ UNCHANGED output
  BY <1>2 DEF OutputOK, output
<1>3. CASE spool[p] # NoFile /\ spool' = [spool EXCEPT ![p] = NoFile]
           /\ sent' = IF printer THEN Append(sent, [pid |-> p, text |-> spool[p], type |-> type])
                      ELSE sent
  <2> DEFINE m == [pid |-> p, text |-> spool[p], type |-> type]
  <2>1. m \in [pid : Process, text : Output, type : {"END_SPOOL", "CPU_TERM"}]
    BY <1>3 DEF OutputOK
  <2>2. sent' = IF printer THEN Append(sent, m) ELSE sent
    BY <1>3
  <2> HIDE DEF m
  <2>3. OutputOK'
    <3>1. spool' \in [Process -> Output \union {NoFile}]
      BY <1>3 DEF OutputOK
    <3>2. sent' \in Seq([pid : Process, text : Output, type : {"END_SPOOL", "CPU_TERM"}])
      <4>1. sent \in Seq([pid : Process, text : Output, type : {"END_SPOOL", "CPU_TERM"}])
        BY DEF OutputOK
      <4>2. CASE sent' = sent
        BY <4>1, <4>2
      <4>3. CASE sent' = Append(sent, m)
        BY <4>1, <4>3, <2>1
      <4> QED BY <2>2, <4>2, <4>3
    <3> QED BY <3>1, <3>2 DEF OutputOK
  <2> QED BY <1>3, <2>2, <2>3 DEF m
<1> QED BY <1>1, <1>2, <1>3 DEF EndSpool

LEMMA OutputStep == ASSUME TInv, Next PROVE OutputOK'
<1>0. /\ TableOK /\ ControlOK /\ cpu \in Machine(M) /\ M \in Nat \ {0} /\ OutputOK
      /\ RUNNING_PCB.pid \in Process
  BY Constants, Pointers DEF TInv, TableOK
<1> USE <1>0
<1>1. ASSUME PrintAC PROVE OutputOK'
  <2>1. spool' = Printed(RUNNING_PCB.pid, Shows("AC", <<cpu.AC>>)) /\ sent' = sent
    BY <1>1 DEF PrintAC
  <2>2. spool' \in [Process -> Output \union {NoFile}]
    BY <2>1, Lines, PrintedFacts
  <2> QED BY <2>1, <2>2 DEF OutputOK
<1>2. ASSUME Exit PROVE OutputOK'
  BY <1>2, EndSpoolFacts DEF Exit
<1>3. ASSUME PowerOff PROVE OutputOK'
  <2>1. CASE UNCHANGED output
    BY <2>1 DEF OutputOK, output
  <2>2. CASE \E p \in Process : EndSpool(p, "CPU_TERM")
    BY <2>2, EndSpoolFacts
  <2> QED BY <1>3, <2>1, <2>2 DEF PowerOff
<1>4. ASSUME NEW t \in Thread, Dump(t) PROVE OutputOK'
  <2>1. sent' = sent
    BY <1>4 DEF Dump
  <2>4. cmd[t] \in Int
    BY <1>4 DEF ControlOK
  <2>2. CASE spool' = spool
    BY <2>1, <2>2 DEF OutputOK
  <2>3. CASE spool' = Printed(RUNNING_PCB.pid, Dumped(cmd[t]))
    <3>1. spool' \in [Process -> Output \union {NoFile}]
      BY <2>3, <2>4, Lines, PrintedFacts
    <3> QED BY <2>1, <3>1 DEF OutputOK
  <2> QED BY <1>4, <2>2, <2>3, Threads DEF Dump
<1>5. ASSUME NEW t \in Thread, Load(t) PROVE OutputOK'
  <2>1. sent' = sent
    BY <1>5 DEF Load
  <2>2. CASE spool' = spool
    BY <2>1, <2>2 DEF OutputOK
  <2>3. CASE PROCESS_COUNT \in PID /\ spool' = InitSpool(PROCESS_COUNT)
    <3>1. <<>> \in Output
      BY DEF Output
    <3> QED BY <2>1, <2>3, <3>1 DEF OutputOK, InitSpool
  <2> QED BY <1>5, <2>2, <2>3 DEF Load, Submit
<1>6. ASSUME UNCHANGED output PROVE OutputOK'
  BY <1>6 DEF output, OutputOK
<1>7. ASSUME Flat, ~PrintAC, ~Exit, ~PowerOff, ~\E t \in Thread : Dump(t) \/ Load(t)
      PROVE  UNCHANGED output
  BY <1>7 DEF Flat, Test, WaitTurn, Pick, Compute, Sleep, Wake, ShellInstr, Expire,
     EndTurn, Undefined, Join, Prompt, GetLine, ShellWait, ShellPost, PrinterGone,
     Terminate, DumpSpool, LoadPrompt, LoadName, NoLoad, calm, output
<1> QED BY <1>1, <1>2, <1>3, <1>4, <1>5, <1>6, <1>7, FlatNext

-----------------------------------------------------------------------------
LEMMA TInvInit == Init => TInv
<1> SUFFICES ASSUME Init PROVE TInv
  OBVIOUS
<1>1. ControlOK
  <2>1. pc[Main] = "test" /\ pc[Shell] = "prompt" /\ PcOK
    BY Threads, Places DEF Init, PcOK
  <2>2. ticks = 0 /\ ticks \in 0 .. TQ /\ typed \in 0 .. MaxLines
    BY Constants DEF Init
  <2>3. \A t \in Thread : pc[t] # "load"
    BY <2>1, Threads
  <2>4. cmd \in [Thread -> 0 .. 255] /\ name \in [Thread -> File \union {NoFile}]
    BY DEF Init
  <2>5. MUTEX \in Nat /\ TERMINATE \in BOOLEAN /\ printer \in BOOLEAN /\ status = "running"
    BY DEF Init
  <2>6. pc[Main] # "run"
    BY <2>1
  <2> QED BY <2>1, <2>2, <2>3, <2>4, <2>5, <2>6 DEF ControlOK
<1>2. TableOK
  <2>1. \A p \in Process : PCB[p] = NewContext(0)
    BY DEF Init
  <2>2. Saved(NewContext(0))
    BY NewContextSaved
  <2>3. PCB \in [Process -> [Register -> Int]]
    BY <2>2 DEF Init, Saved
  <2> QED BY <2>1, <2>2, <2>3, Constants, Pointers DEF Init, TableOK
<1>3. cpu \in Machine(M)
  <2>1. Blank(M) \in Machine(M)
    BY Constants, BlankIsMachine
  <2> QED BY <2>1, Constants, WordAssumption, LoadWordsFacts DEF Init
<1>4. OutputOK
  <2>1. <<>> \in Seq(Int) /\ "old" \in What
    BY DEF What
  <2>2. Shows("old", <<>>) \in LineOfOutput
    BY <2>1, ShowsLine
  <2>3. <<Shows("old", <<>>)>> \in Output
    BY <2>2 DEF Output, LineOfOutput, What
  <2> QED BY <2>3 DEF Init, OutputOK
<1> QED BY <1>1, <1>2, <1>3, <1>4 DEF TInv

LEMMA TInvStep == ASSUME TInv, [Next]_vars PROVE TInv'
<1>1. CASE Next
  BY <1>1, ControlStep, TableStep, CpuStep, OutputStep DEF TInv
<1>2. CASE UNCHANGED vars
  BY <1>2 DEF vars, calm, request, procs, table, output, outside, TInv, ControlOK, PcOK,
     TableOK, OutputOK
<1> QED BY <1>1, <1>2

(* Everything keeps its type, whatever the programs do: no register, word  *)
(* of memory or PCB is ever anything but a number of its width, the ready  *)
(* queue holds PCBs only, and the process table has room for every process.*)
THEOREM TypeCorrect == Spec => []TypeOK
<1>1. Init => TInv
  BY TInvInit
<1>2. TInv /\ [Next]_vars => TInv'
  BY TInvStep
<1>3. TInv => TypeOK
  BY TInvIsType
<1> QED BY <1>1, <1>2, <1>3, PTL DEF Spec

-----------------------------------------------------------------------------
(* Mutual exclusion.  MUTEX and the threads inside share one unit.         *)
In == {"pick", "run", "command", "expired", "post"}
Unit(place) == IF place \in In THEN 1 ELSE 0
LockInv == MUTEX + Unit(pc[Main]) + Unit(pc[Shell]) = 1

NoBadBase == <<"bad_base", 0>> \notin Line

LEMMA LockMove ==
  ASSUME ControlOK, LockInv, NEW t \in Thread, NEW a, NEW b \in PCs(t), Step(t, a, b),
         MUTEX' + Unit(b) = MUTEX + Unit(a), MUTEX' \in Nat
  PROVE  LockInv'
<1>1. /\ pc[t] = a /\ pc'[t] = b
      /\ \A u \in Thread : u # t => pc'[u] = pc[u]
  BY Steps DEF ControlOK
<1>2. /\ Unit(a) \in Nat /\ Unit(b) \in Nat /\ \A u \in Thread : Unit(pc[u]) \in Nat
      /\ MUTEX \in Nat
  BY DEF Unit, ControlOK
<1>3. CASE t = Main
  BY <1>1, <1>2, <1>3, Threads DEF LockInv
<1>4. CASE t = Shell
  BY <1>1, <1>2, <1>4, Threads DEF LockInv
<1> QED BY <1>3, <1>4, Threads

LEMMA LockStep ==
  ASSUME NoBadBase, TInv, LockInv, Next
  PROVE  LockInv'
<1>0. ControlOK /\ MUTEX \in Nat /\ MUTEX' \in Nat
  BY ControlStep DEF TInv, ControlOK
<1> USE <1>0
<1>1. ASSUME Test PROVE LockInv'
  <2>1. Step(Main, "test", IF TERMINATE THEN "join" ELSE "wait") /\ MUTEX' = MUTEX
    BY <1>1 DEF Test, calm
  <2>2. (IF TERMINATE THEN "join" ELSE "wait") \in PCs(Main) /\ MUTEX' + Unit((IF TERMINATE THEN "join" ELSE "wait")) = MUTEX + Unit("test")
    BY <2>1, Places, Threads DEF Unit, In
  <2> QED BY <2>1, <2>2, Threads, LockMove
<1>2. ASSUME Join PROVE LockInv'
  <2>1. Step(Main, "join", "poweroff") /\ MUTEX' = MUTEX
    BY <1>2 DEF Join, calm
  <2>2. "poweroff" \in PCs(Main) /\ MUTEX' + Unit("poweroff") = MUTEX + Unit("join")
    BY <2>1, Places, Threads DEF Unit, In
  <2> QED BY <2>1, <2>2, Threads, LockMove
<1>3. ASSUME PowerOff PROVE LockInv'
  <2>1. Step(Main, "poweroff", "poweroff") /\ MUTEX' = MUTEX
    BY <1>3 DEF PowerOff
  <2>2. "poweroff" \in PCs(Main) /\ MUTEX' + Unit("poweroff") = MUTEX + Unit("poweroff")
    BY <2>1, Places, Threads DEF Unit, In
  <2> QED BY <2>1, <2>2, Threads, LockMove
<1>4. ASSUME Prompt PROVE LockInv'
  <2>1. Step(Shell, "prompt", IF TERMINATE THEN "ended" ELSE "getline") /\ MUTEX' = MUTEX
    BY <1>4 DEF Prompt, calm
  <2>2. (IF TERMINATE THEN "ended" ELSE "getline") \in PCs(Shell) /\ MUTEX' + Unit((IF TERMINATE THEN "ended" ELSE "getline")) = MUTEX + Unit("prompt")
    BY <2>1, Places, Threads DEF Unit, In
  <2> QED BY <2>1, <2>2, Threads, LockMove
<1>5. ASSUME Pick PROVE LockInv'
  <2>1. Step(Main, "pick", "run") /\ MUTEX' = MUTEX
    BY <1>5 DEF Pick
  <2>2. "run" \in PCs(Main) /\ MUTEX' + Unit("run") = MUTEX + Unit("pick")
    BY <2>1, Places, Threads DEF Unit, In
  <2> QED BY <2>1, <2>2, Threads, LockMove
<1>6. ASSUME Compute PROVE LockInv'
  <2>1. Step(Main, "run", AfterFetch) /\ MUTEX' = MUTEX
    BY <1>6 DEF Compute, Fetch
  <2>2. AfterFetch \in PCs(Main) /\ MUTEX' + Unit(AfterFetch) = MUTEX + Unit("run")
    BY <2>1, Places, Threads DEF Unit, In, AfterFetch
  <2> QED BY <2>1, <2>2, Threads, LockMove
<1>7. ASSUME PrintAC PROVE LockInv'
  <2>1. Step(Main, "run", AfterFetch) /\ MUTEX' = MUTEX
    BY <1>7 DEF PrintAC, Fetch
  <2>2. AfterFetch \in PCs(Main) /\ MUTEX' + Unit(AfterFetch) = MUTEX + Unit("run")
    BY <2>1, Places, Threads DEF Unit, In, AfterFetch
  <2> QED BY <2>1, <2>2, Threads, LockMove
<1>8. ASSUME ShellInstr PROVE LockInv'
  <2>1. Step(Main, "run", "command") /\ MUTEX' = MUTEX
    BY <1>8 DEF ShellInstr, Fetch
  <2>2. "command" \in PCs(Main) /\ MUTEX' + Unit("command") = MUTEX + Unit("run")
    BY <2>1, Places, Threads DEF Unit, In
  <2> QED BY <2>1, <2>2, Threads, LockMove
<1>9. ASSUME Expire PROVE LockInv'
  <2>1. Step(Main, "expired", "post") /\ MUTEX' = MUTEX
    BY <1>9 DEF Expire
  <2>2. "post" \in PCs(Main) /\ MUTEX' + Unit("post") = MUTEX + Unit("expired")
    BY <2>1, Places, Threads DEF Unit, In
  <2> QED BY <2>1, <2>2, Threads, LockMove
<1>10. ASSUME Exit PROVE LockInv'
  <2>1. Step(Main, "run", "post") /\ MUTEX' = MUTEX
    BY <1>10 DEF Exit, Fetch
  <2>2. "post" \in PCs(Main) /\ MUTEX' + Unit("post") = MUTEX + Unit("run")
    BY <2>1, Places, Threads DEF Unit, In
  <2> QED BY <2>1, <2>2, Threads, LockMove
<1>11. ASSUME NEW t \in Thread, Terminate(t) PROVE LockInv'
  <2>1. Step(t, "command", Return(t)) /\ MUTEX' = MUTEX
    BY <1>11 DEF Terminate, calm
  <2>2. Return(t) \in PCs(t) /\ MUTEX' + Unit(Return(t)) = MUTEX + Unit("command")
    BY <2>1, Returns, Places, Threads DEF Unit, In
  <2> QED BY <2>1, <2>2, Threads, LockMove
<1>12. ASSUME NEW t \in Thread, Dump(t) PROVE LockInv'
  <2>1. Step(t, "command", Return(t)) /\ MUTEX' = MUTEX
    BY <1>12 DEF Dump
  <2>2. Return(t) \in PCs(t) /\ MUTEX' + Unit(Return(t)) = MUTEX + Unit("command")
    BY <2>1, Returns, Places, Threads DEF Unit, In
  <2> QED BY <2>1, <2>2, Threads, LockMove
<1>13. ASSUME NEW t \in Thread, DumpSpool(t) PROVE LockInv'
  <2>1. Step(t, "command", Return(t)) /\ MUTEX' = MUTEX
    BY <1>13 DEF DumpSpool
  <2>2. Return(t) \in PCs(t) /\ MUTEX' + Unit(Return(t)) = MUTEX + Unit("command")
    BY <2>1, Returns, Places, Threads DEF Unit, In
  <2> QED BY <2>1, <2>2, Threads, LockMove
<1>14. ASSUME WaitTurn PROVE LockInv'
  <2>1. Step(Main, "wait", "pick") /\ MUTEX' = MUTEX - 1
    BY <1>14 DEF WaitTurn, Wait
  <2>2. "pick" \in PCs(Main) /\ MUTEX' + Unit("pick") = MUTEX + Unit("wait")
    BY <2>1, Places, Threads DEF Unit, In
  <2> QED BY <2>1, <2>2, Threads, LockMove
<1>15. ASSUME Wake PROVE LockInv'
  <2>1. Step(Main, "asleep", Return(Main)) /\ MUTEX' = MUTEX - 1
    BY <1>15 DEF Wake, Wait
  <2>2. Return(Main) \in PCs(Main) /\ MUTEX' + Unit(Return(Main)) = MUTEX + Unit("asleep")
    BY <2>1, Returns, Places, Threads DEF Unit, In
  <2> QED BY <2>1, <2>2, Threads, LockMove
<1>16. ASSUME ShellWait PROVE LockInv'
  <2>1. Step(Shell, "wait", "command") /\ MUTEX' = MUTEX - 1
    BY <1>16 DEF ShellWait, Wait
  <2>2. "command" \in PCs(Shell) /\ MUTEX' + Unit("command") = MUTEX + Unit("wait")
    BY <2>1, Places, Threads DEF Unit, In
  <2> QED BY <2>1, <2>2, Threads, LockMove
<1>17. ASSUME Sleep PROVE LockInv'
  <2>1. Step(Main, "run", "asleep") /\ MUTEX' = MUTEX + 1
    BY <1>17 DEF Sleep, Fetch, Post
  <2>2. "asleep" \in PCs(Main) /\ MUTEX' + Unit("asleep") = MUTEX + Unit("run")
    BY <2>1, Places, Threads DEF Unit, In
  <2> QED BY <2>1, <2>2, Threads, LockMove
<1>18. ASSUME EndTurn PROVE LockInv'
  <2>1. Step(Main, "post", "test") /\ MUTEX' = MUTEX + 1
    BY <1>18 DEF EndTurn, Post
  <2>2. "test" \in PCs(Main) /\ MUTEX' + Unit("test") = MUTEX + Unit("post")
    BY <2>1, Places, Threads DEF Unit, In
  <2> QED BY <2>1, <2>2, Threads, LockMove
<1>19. ASSUME ShellPost PROVE LockInv'
  <2>1. Step(Shell, "post", "prompt") /\ MUTEX' = MUTEX + 1
    BY <1>19 DEF ShellPost, Post
  <2>2. "prompt" \in PCs(Shell) /\ MUTEX' + Unit("prompt") = MUTEX + Unit("post")
    BY <2>1, Places, Threads DEF Unit, In
  <2> QED BY <2>1, <2>2, Threads, LockMove
<1>20. ASSUME NEW t \in Thread, LoadPrompt(t) PROVE LockInv'
  <2>1. Step(t, "command", "name") /\ MUTEX' = MUTEX + 1
    BY <1>20 DEF LoadPrompt, Post
  <2>2. "name" \in PCs(t) /\ MUTEX' + Unit("name") = MUTEX + Unit("command")
    BY <2>1, Places, Threads DEF Unit, In
  <2> QED BY <2>1, <2>2, Threads, LockMove
<1>21. ASSUME GetLine PROVE LockInv'
  <2>1. PICK b \in {"prompt", "wait"} : Step(Shell, "getline", b)
    BY <1>21 DEF GetLine
  <2>2. b \in PCs(Shell) /\ MUTEX' = MUTEX /\ Unit(b) = 0 /\ Unit("getline") = 0
    BY <1>21, Places DEF GetLine, Unit, In
  <2> QED BY <2>1, <2>2, Threads, LockMove
<1>22. ASSUME NEW t \in Thread, LoadName(t) PROVE LockInv'
  <2>1. ~ReadLine(<<"bad_base", 0>>)
    BY DEF ReadLine, NoBadBase
  <2>2. PICK b \in {"noload", "load"} : Step(t, "name", b)
    BY <1>22, <2>1 DEF LoadName
  <2>3. b \in PCs(t) /\ MUTEX' = MUTEX /\ Unit(b) = 0 /\ Unit("name") = 0
    BY <1>22, Places, Threads DEF LoadName, Unit, In
  <2> QED BY <2>2, <2>3, LockMove
<1>23. ASSUME NEW t \in Thread, Load(t) PROVE LockInv'
  <2>1. PICK a \in {"noload", "load"} : Step(t, a, Return(t))
    BY <1>23 DEF Load
  <2>2. MUTEX' = MUTEX - 1
    BY <1>23 DEF Load, Wait
  <2>3. Return(t) \in PCs(t) /\ Unit(Return(t)) = 1 /\ Unit(a) = 0
    BY Returns DEF Unit, In
  <2> QED BY <2>1, <2>2, <2>3, LockMove
<1>24. ASSUME NEW t \in Thread, NoLoad(t) PROVE LockInv'
  <2>1. PICK a \in {"noload", "load"} : Step(t, a, Return(t))
    BY <1>24 DEF NoLoad
  <2>2. MUTEX' = MUTEX - 1
    BY <1>24 DEF NoLoad, Wait
  <2>3. Return(t) \in PCs(t) /\ Unit(Return(t)) = 1 /\ Unit(a) = 0
    BY Returns DEF Unit, In
  <2> QED BY <2>1, <2>2, <2>3, LockMove
<1>25. ASSUME Undefined \/ PrinterGone PROVE LockInv'
  BY <1>25 DEF Undefined, PrinterGone, LockInv
<1> QED BY <1>1, <1>2, <1>3, <1>4, <1>5, <1>6, <1>7, <1>8, <1>9, <1>10, <1>11, <1>12, <1>13, <1>14, <1>15, <1>16, <1>17, <1>18, <1>19, <1>20, <1>21, <1>22, <1>23, <1>24, <1>25, FlatNext DEF Flat

LEMMA LockInit == Init => LockInv
BY Threads DEF Init, LockInv, Unit, In

(* The shell executes no command while a process is in the middle of an    *)
(* instruction, a switch or a command: MUTEX and the threads inside are one*)
(* in number as long as no base that is not a number is typed, after which *)
(* load would return without taking MUTEX again.                           *)
THEOREM MutualExclusion == ASSUME NoBadBase PROVE Spec => []Exclusion
<1>1. Init => TInv /\ LockInv
  BY TInvInit, LockInit
<1>2. TInv /\ LockInv /\ [Next]_vars => TInv' /\ LockInv'
  <2>1. ASSUME UNCHANGED vars, LockInv PROVE LockInv'
    BY <2>1 DEF vars, LockInv
  <2> QED BY <2>1, TInvStep, LockStep
<1>3. TInv /\ LockInv => Exclusion
  <2> SUFFICES ASSUME TInv, LockInv, Inside(Main), Inside(Shell) PROVE FALSE
    BY DEF Exclusion
  <2>1. MUTEX \in Nat /\ Unit(pc[Main]) = 1 /\ Unit(pc[Shell]) = 1
    BY DEF TInv, ControlOK, Inside, Unit, In
  <2> QED BY <2>1 DEF LockInv
<1> QED BY <1>1, <1>2, <1>3, PTL DEF Spec

-----------------------------------------------------------------------------
(* Where the processes are.  Of the `count' PIDs given, those in the queue *)
(* and in the CPU are different and have a file, and the other ones none.  *)
OnceAt(queue, busy, file, count) ==
  /\ \A k \in DOMAIN queue : /\ queue[k].pid \in 2 .. count - 1 /\ queue[k].pid \notin busy
                             /\ file[queue[k].pid] # NoFile
  /\ \A j, k \in DOMAIN queue : queue[j].pid = queue[k].pid => j = k
  /\ \A p \in busy : p \in 2 .. count - 1 /\ file[p] # NoFile
  /\ \A p \in 2 .. count - 1 : \/ p \in busy \/ file[p] = NoFile
                               \/ \E k \in DOMAIN queue : queue[k].pid = p

LEMMA OnceStays ==
  ASSUME NEW queue, NEW busy, NEW file, NEW count \in 2 .. MaxPID + 1, NEW file2,
         OnceAt(queue, busy, file, count),
         \A p \in PID : file2[p] = NoFile <=> file[p] = NoFile
  PROVE  OnceAt(queue, busy, file2, count)
<1>1. 2 .. count - 1 \subseteq PID
  BY Constants DEF PID
<1> QED BY <1>1 DEF OnceAt

(* The facts about Append and Tail that the next lemmas need.              *)
LEMMA AppendFacts ==
  ASSUME NEW S, NEW queue \in Seq(S), NEW r, NEW queue2, queue2 = Append(queue, r)
  PROVE  \E n \in Nat : /\ DOMAIN queue = 1 .. n /\ DOMAIN queue2 = 1 .. n + 1
                        /\ n + 1 \notin 1 .. n /\ n + 1 \in 1 .. n + 1 /\ queue2[n + 1] = r
                        /\ \A k \in 1 .. n : k \in 1 .. n + 1 /\ queue2[k] = queue[k]
                        /\ \A k \in 1 .. n + 1 : k = n + 1 \/ k \in 1 .. n
<1> WITNESS Len(queue) \in Nat
<1> QED OBVIOUS

LEMMA TailFacts ==
  ASSUME NEW S, NEW queue \in Seq(S), queue # <<>>, NEW queue2, queue2 = Tail(queue)
  PROVE  /\ 1 \in DOMAIN queue /\ Head(queue) = queue[1] /\ DOMAIN queue2 \subseteq Nat \ {0}
         /\ \A k \in DOMAIN queue2 : k + 1 \in DOMAIN queue /\ queue2[k] = queue[k + 1]
         /\ \A k \in DOMAIN queue : k = 1 \/ (k - 1 \in DOMAIN queue2 /\ queue2[k - 1] = queue[k])
<1>1. Len(queue) \in Nat \ {0} /\ DOMAIN queue = 1 .. Len(queue)
  OBVIOUS
<1>2. /\ Len(queue2) = Len(queue) - 1 /\ DOMAIN queue2 = 1 .. Len(queue2)
      /\ \A k \in 1 .. Len(queue) - 1 : queue2[k] = queue[k + 1]
  BY <1>1
<1> QED BY <1>1, <1>2

(* The process in the CPU, if any, goes to the end of the queue.           *)
LEMMA OnceBack ==
  ASSUME NEW S, NEW queue \in Seq(S), NEW file, NEW count, NEW r,
         OnceAt(queue, {r.pid}, file, count), NEW queue2, queue2 = Append(queue, r)
  PROVE  OnceAt(queue2, {}, file, count)
<1>1. PICK n \in Nat : /\ DOMAIN queue = 1 .. n /\ DOMAIN queue2 = 1 .. n + 1
                       /\ n + 1 \notin 1 .. n /\ n + 1 \in 1 .. n + 1 /\ queue2[n + 1] = r
                       /\ \A k \in 1 .. n : k \in 1 .. n + 1 /\ queue2[k] = queue[k]
                       /\ \A k \in 1 .. n + 1 : k = n + 1 \/ k \in 1 .. n
  BY AppendFacts
<1> QED BY <1>1 DEF OnceAt

(* A process gets the next PID and a file, and goes to the end of the queue*)
LEMMA OnceNew ==
  ASSUME NEW S, NEW queue \in Seq(S), NEW busy, NEW file, NEW count \in Nat \ {0, 1}, NEW r,
         OnceAt(queue, busy, file, count), r.pid = count,
         NEW queue2, queue2 = Append(queue, r), NEW file2, file2[count] # NoFile,
         \A p \in 2 .. count - 1 : file2[p] = file[p]
  PROVE  OnceAt(queue2, busy, file2, count + 1)
<1>1. PICK n \in Nat : /\ DOMAIN queue = 1 .. n /\ DOMAIN queue2 = 1 .. n + 1
                       /\ n + 1 \notin 1 .. n /\ n + 1 \in 1 .. n + 1 /\ queue2[n + 1] = r
                       /\ \A k \in 1 .. n : k \in 1 .. n + 1 /\ queue2[k] = queue[k]
                       /\ \A k \in 1 .. n + 1 : k = n + 1 \/ k \in 1 .. n
  BY AppendFacts
<1> DEFINE P == 2 .. count - 1
           Q == 2 .. count + 1 - 1
<1>2. count \notin P /\ count \in Q /\ P \subseteq Q /\ \A p \in Q : p = count \/ p \in P
  OBVIOUS
<1>3. /\ \A k \in DOMAIN queue : /\ queue[k].pid \in P /\ queue[k].pid \notin busy
                                 /\ file2[queue[k].pid] # NoFile
      /\ \A j, k \in DOMAIN queue : queue[j].pid = queue[k].pid => j = k
      /\ \A p \in busy : p \in P /\ file2[p] # NoFile
      /\ \A p \in P : \/ p \in busy \/ file2[p] = NoFile
                      \/ \E k \in DOMAIN queue : queue[k].pid = p
  BY DEF OnceAt
<1> HIDE DEF P, Q
<1>4. \A k \in DOMAIN queue2 : /\ queue2[k].pid \in Q /\ queue2[k].pid \notin busy
                               /\ file2[queue2[k].pid] # NoFile
  BY <1>1, <1>2, <1>3, ZenonT(60)
<1>5. \A j, k \in DOMAIN queue2 : queue2[j].pid = queue2[k].pid => j = k
  BY <1>1, <1>2, <1>3
<1>6. \A p \in busy : p \in Q /\ file2[p] # NoFile
  BY <1>2, <1>3
<1>7. \A p \in Q : \/ p \in busy \/ file2[p] = NoFile
                   \/ \E k \in DOMAIN queue2 : queue2[k].pid = p
  BY <1>1, <1>2, <1>3
<1> QED BY <1>4, <1>5, <1>6, <1>7 DEF OnceAt, Q

(* The head of the queue goes to the CPU.                                  *)
LEMMA OnceTaken ==
  ASSUME NEW S, NEW queue \in Seq(S), queue # <<>>, NEW file, NEW count,
         OnceAt(queue, {}, file, count), NEW queue2, queue2 = Tail(queue)
  PROVE  OnceAt(queue2, {Head(queue).pid}, file, count)
<1> DEFINE r == Head(queue)
<1>1. /\ 1 \in DOMAIN queue /\ r = queue[1] /\ DOMAIN queue2 \subseteq Nat \ {0}
      /\ \A k \in DOMAIN queue2 : k + 1 \in DOMAIN queue /\ queue2[k] = queue[k + 1]
      /\ \A k \in DOMAIN queue : k = 1 \/ (k - 1 \in DOMAIN queue2 /\ queue2[k - 1] = queue[k])
  BY TailFacts
<1> HIDE DEF r
<1>2. \A k \in DOMAIN queue2 : k + 1 # 1
  BY <1>1
<1>3. \A k \in DOMAIN queue2 : /\ queue2[k].pid \in 2 .. count - 1 /\ queue2[k].pid # r.pid
                               /\ file[queue2[k].pid] # NoFile
  BY <1>1, <1>2 DEF OnceAt
<1>4. ASSUME NEW j \in DOMAIN queue2, NEW k \in DOMAIN queue2, queue2[j].pid = queue2[k].pid
      PROVE  j = k
  <2>1. j + 1 = k + 1
    BY <1>1, <1>4 DEF OnceAt
  <2> QED BY <1>1, <2>1
<1>5. r.pid \in 2 .. count - 1 /\ file[r.pid] # NoFile
  BY <1>1 DEF OnceAt
<1>6. ASSUME NEW p \in 2 .. count - 1
      PROVE  p = r.pid \/ file[p] = NoFile \/ \E k \in DOMAIN queue2 : queue2[k].pid = p
  <2>1. CASE \E k \in DOMAIN queue : queue[k].pid = p
    BY <1>1, <2>1
  <2> QED BY <2>1 DEF OnceAt
<1> QED BY <1>3, <1>4, <1>5, <1>6 DEF OnceAt, r

(* The process in the CPU, if any, is over and its file is gone.           *)
LEMMA OnceOver ==
  ASSUME NEW queue, NEW busy, NEW file, NEW count \in 2 .. MaxPID + 1,
         OnceAt(queue, busy, file, count), NEW file2,
         \A p \in busy : file2[p] = NoFile,
         \A p \in PID : p \notin busy => file2[p] = file[p]
  PROVE  OnceAt(queue, {}, file2, count)
<1>1. 2 .. count - 1 \subseteq PID
  BY Constants DEF PID
<1> QED BY <1>1 DEF OnceAt

(* The process of the CPU.                                                 *)
OnCPU == {"run", "command", "name", "load", "noload", "asleep", "expired"}
Busy == IF pc[Main] \in OnCPU /\ RUNNING_PCB # Idle THEN {RUNNING_PCB.pid} ELSE {}

(* Until the power is switched off.                                        *)
Alive == status = "running" /\ pc[Main] # "poweroff"
PlacesOnce == OnceAt(ReadyQueue, Busy, spool, PROCESS_COUNT)
PlacesInv == Alive => PlacesOnce

LEMMA AliveBefore ==
  ASSUME TInv, PlacesInv, NEW t \in Thread, NEW a, NEW b \in PCs(t), Step(t, a, b),
         t = Main => a # "poweroff", Alive'
  PROVE  /\ PlacesOnce
         /\ t # Main => pc'[Main] = pc[Main]
         /\ t = Main => pc[Main] = a /\ pc'[Main] = b
<1>1. /\ PcOK' /\ pc[t] = a /\ pc'[t] = b /\ status = "running"
      /\ \A u \in Thread : u # t => pc'[u] = pc[u]
  BY Steps DEF TInv, ControlOK
<1>2. Alive
  BY <1>1, Threads DEF Alive
<1> QED BY <1>1, <1>2, Threads DEF PlacesInv

(* A step that moves no process from one place to another.                 *)
LEMMA PlacesStay ==
  ASSUME TInv, PlacesInv, NEW t \in Thread, NEW a, NEW b \in PCs(t), Step(t, a, b),
         t = Main => a # "poweroff" /\ (a \in OnCPU <=> b \in OnCPU), Alive',
         UNCHANGED <<ReadyQueue, RUNNING_PCB, PROCESS_COUNT>>,
         \A p \in PID : spool'[p] = NoFile <=> spool[p] = NoFile
  PROVE  PlacesOnce'
<1>1. PlacesOnce /\ Busy' = Busy
  BY AliveBefore DEF Busy
<1>2. PROCESS_COUNT \in 2 .. MaxPID + 1
  BY DEF TInv, TableOK
<1>3. OnceAt(ReadyQueue, Busy, spool', PROCESS_COUNT)
  BY <1>1, <1>2, OnceStays DEF PlacesOnce
<1> QED BY <1>1, <1>3 DEF PlacesOnce

(* The running process prints: its file is there before and after.         *)
LEMMA PrintedStays ==
  ASSUME PlacesOnce, OutputOK, pc[Main] \in OnCPU, RUNNING_PCB \in Pointer,
         NEW x \in LineOfOutput, spool' = Printed(RUNNING_PCB.pid, x)
  PROVE  \A p \in PID : spool'[p] = NoFile <=> spool[p] = NoFile
<1> DEFINE q == RUNNING_PCB.pid
<1>1. q \in Process /\ (q \in PID => RUNNING_PCB # Idle)
  BY Pointers, Constants
<1>2. q \in PID => spool[q] # NoFile
  BY <1>1 DEF PlacesOnce, OnceAt, Busy
<1>3. spool' = Printed(q, x)
  OBVIOUS
<1> HIDE DEF q
<1>4. spool'[q] # NoFile /\ \A p \in Process : p # q => spool'[p] = spool[p]
  BY <1>1, <1>3, PrintedFacts
<1> QED BY <1>2, <1>4, Constants

LEMMA PlacesStep == ASSUME TInv, PlacesInv, Next, Alive' PROVE PlacesOnce'
<1>0. /\ ControlOK /\ TableOK /\ OutputOK /\ cpu \in Machine(M)
      /\ RUNNING_PCB \in Pointer /\ RUNNING_PCB.pid \in Process
      /\ ReadyQueue \in Seq(Pointer \ {Idle}) /\ PROCESS_COUNT \in 2 .. MaxPID + 1
  BY Pointers DEF TInv, TableOK
<1>1. ASSUME Test PROVE PlacesOnce'
  <2>1. Step(Main, "test", IF TERMINATE THEN "join" ELSE "wait")
    BY <1>1 DEF Test
  <2>2. UNCHANGED <<ReadyQueue, RUNNING_PCB, PROCESS_COUNT, spool>>
    BY <1>1 DEF Test, calm, procs, table, output
  <2>3. /\ (IF TERMINATE THEN "join" ELSE "wait") \in PCs(Main)
      /\ ("test" \in OnCPU <=> (IF TERMINATE THEN "join" ELSE "wait") \in OnCPU)
    BY Places, Threads DEF OnCPU
  <2> QED BY <2>1, <2>2, <2>3, Threads, PlacesStay
<1>2. ASSUME WaitTurn PROVE PlacesOnce'
  <2>1. Step(Main, "wait", "pick")
    BY <1>2 DEF WaitTurn
  <2>2. UNCHANGED <<ReadyQueue, RUNNING_PCB, PROCESS_COUNT, spool>>
    BY <1>2 DEF WaitTurn, calm, procs, table, output
  <2>3. /\ "pick" \in PCs(Main)
      /\ ("wait" \in OnCPU <=> "pick" \in OnCPU)
    BY Places, Threads DEF OnCPU
  <2> QED BY <2>1, <2>2, <2>3, Threads, PlacesStay
<1>3. ASSUME Compute PROVE PlacesOnce'
  <2>1. Step(Main, "run", AfterFetch)
    BY <1>3 DEF Compute, Fetch
  <2>2. UNCHANGED <<ReadyQueue, RUNNING_PCB, PROCESS_COUNT, spool>>
    BY <1>3 DEF Compute, calm, procs, table, output
  <2>3. /\ AfterFetch \in PCs(Main)
      /\ ("run" \in OnCPU <=> AfterFetch \in OnCPU)
    BY Places, Threads DEF OnCPU, AfterFetch
  <2> QED BY <2>1, <2>2, <2>3, Threads, PlacesStay
<1>4. ASSUME Sleep PROVE PlacesOnce'
  <2>1. Step(Main, "run", "asleep")
    BY <1>4 DEF Sleep, Fetch
  <2>2. UNCHANGED <<ReadyQueue, RUNNING_PCB, PROCESS_COUNT, spool>>
    BY <1>4 DEF Sleep, calm, procs, table, output
  <2>3. /\ "asleep" \in PCs(Main)
      /\ ("run" \in OnCPU <=> "asleep" \in OnCPU)
    BY Places, Threads DEF OnCPU
  <2> QED BY <2>1, <2>2, <2>3, Threads, PlacesStay
<1>5. ASSUME Wake PROVE PlacesOnce'
  <2>1. Step(Main, "asleep", Return(Main))
    BY <1>5 DEF Wake
  <2>2. UNCHANGED <<ReadyQueue, RUNNING_PCB, PROCESS_COUNT, spool>>
    BY <1>5 DEF Wake, calm, procs, table, output
  <2>3. /\ Return(Main) \in PCs(Main)
      /\ ("asleep" \in OnCPU <=> Return(Main) \in OnCPU)
    BY Returns, Places, Threads DEF OnCPU
  <2> QED BY <2>1, <2>2, <2>3, Threads, PlacesStay
<1>6. ASSUME ShellInstr PROVE PlacesOnce'
  <2>1. Step(Main, "run", "command")
    BY <1>6 DEF ShellInstr, Fetch
  <2>2. UNCHANGED <<ReadyQueue, RUNNING_PCB, PROCESS_COUNT, spool>>
    BY <1>6 DEF ShellInstr, calm, procs, table, output
  <2>3. /\ "command" \in PCs(Main)
      /\ ("run" \in OnCPU <=> "command" \in OnCPU)
    BY Places, Threads DEF OnCPU
  <2> QED BY <2>1, <2>2, <2>3, Threads, PlacesStay
<1>7. ASSUME EndTurn PROVE PlacesOnce'
  <2>1. Step(Main, "post", "test")
    BY <1>7 DEF EndTurn
  <2>2. UNCHANGED <<ReadyQueue, RUNNING_PCB, PROCESS_COUNT, spool>>
    BY <1>7 DEF EndTurn, calm, procs, table, output
  <2>3. /\ "test" \in PCs(Main)
      /\ ("post" \in OnCPU <=> "test" \in OnCPU)
    BY Places, Threads DEF OnCPU
  <2> QED BY <2>1, <2>2, <2>3, Threads, PlacesStay
<1>8. ASSUME Prompt PROVE PlacesOnce'
  <2>1. Step(Shell, "prompt", IF TERMINATE THEN "ended" ELSE "getline")
    BY <1>8 DEF Prompt
  <2>2. UNCHANGED <<ReadyQueue, RUNNING_PCB, PROCESS_COUNT, spool>>
    BY <1>8 DEF Prompt, calm, procs, table, output
  <2>3. (IF TERMINATE THEN "ended" ELSE "getline") \in PCs(Shell)
    BY Places, Threads DEF OnCPU
  <2> QED BY <2>1, <2>2, <2>3, Threads, PlacesStay
<1>9. ASSUME ShellWait PROVE PlacesOnce'
  <2>1. Step(Shell, "wait", "command")
    BY <1>9 DEF ShellWait
  <2>2. UNCHANGED <<ReadyQueue, RUNNING_PCB, PROCESS_COUNT, spool>>
    BY <1>9 DEF ShellWait, calm, procs, table, output
  <2>3. "command" \in PCs(Shell)
    BY Places, Threads DEF OnCPU
  <2> QED BY <2>1, <2>2, <2>3, Threads, PlacesStay
<1>10. ASSUME ShellPost PROVE PlacesOnce'
  <2>1. Step(Shell, "post", "prompt")
    BY <1>10 DEF ShellPost
  <2>2. UNCHANGED <<ReadyQueue, RUNNING_PCB, PROCESS_COUNT, spool>>
    BY <1>10 DEF ShellPost, calm, procs, table, output
  <2>3. "prompt" \in PCs(Shell)
    BY Places, Threads DEF OnCPU
  <2> QED BY <2>1, <2>2, <2>3, Threads, PlacesStay
<1>11. ASSUME NEW t \in Thread, Terminate(t) PROVE PlacesOnce'
  <2>1. Step(t, "command", Return(t))
    BY <1>11 DEF Terminate
  <2>2. UNCHANGED <<ReadyQueue, RUNNING_PCB, PROCESS_COUNT, spool>>
    BY <1>11 DEF Terminate, calm, procs, table, output
  <2>3. /\ Return(t) \in PCs(t)
      /\ (t = Main => ("command" \in OnCPU <=> Return(t) \in OnCPU))
    BY Returns, Places, Threads DEF OnCPU
  <2> QED BY <2>1, <2>2, <2>3, Threads, PlacesStay
<1>12. ASSUME NEW t \in Thread, DumpSpool(t) PROVE PlacesOnce'
  <2>1. Step(t, "command", Return(t))
    BY <1>12 DEF DumpSpool
  <2>2. UNCHANGED <<ReadyQueue, RUNNING_PCB, PROCESS_COUNT, spool>>
    BY <1>12 DEF DumpSpool, calm, procs, table, output
  <2>3. /\ Return(t) \in PCs(t)
      /\ (t = Main => ("command" \in OnCPU <=> Return(t) \in OnCPU))
    BY Returns, Places, Threads DEF OnCPU
  <2> QED BY <2>1, <2>2, <2>3, Threads, PlacesStay
<1>13. ASSUME NEW t \in Thread, LoadPrompt(t) PROVE PlacesOnce'
  <2>1. Step(t, "command", "name")
    BY <1>13 DEF LoadPrompt
  <2>2. UNCHANGED <<ReadyQueue, RUNNING_PCB, PROCESS_COUNT, spool>>
    BY <1>13 DEF LoadPrompt, calm, procs, table, output
  <2>3. /\ "name" \in PCs(t)
      /\ (t = Main => ("command" \in OnCPU <=> "name" \in OnCPU))
    BY Places, Threads DEF OnCPU
  <2> QED BY <2>1, <2>2, <2>3, Threads, PlacesStay
<1>14. ASSUME PrintAC PROVE PlacesOnce'
  <2>1. Step(Main, "run", AfterFetch)
    BY <1>14 DEF PrintAC, Fetch
  <2>2. UNCHANGED <<ReadyQueue, RUNNING_PCB, PROCESS_COUNT>>
    BY <1>14 DEF PrintAC, procs, table
  <2>3. AfterFetch \in PCs(Main) /\ AfterFetch \in OnCPU /\ "run" \in OnCPU
    BY Places DEF OnCPU, AfterFetch
  <2>4. PlacesOnce /\ pc[Main] \in OnCPU
    BY <2>1, <2>3, Threads, AliveBefore DEF OnCPU
  <2>5. Shows("AC", <<cpu.AC>>) \in LineOfOutput
    BY <1>0, Lines
  <2>6. spool' = Printed(RUNNING_PCB.pid, Shows("AC", <<cpu.AC>>))
    BY <1>14 DEF PrintAC
  <2>7. \A p \in PID : spool'[p] = NoFile <=> spool[p] = NoFile
    BY <1>0, <2>4, <2>5, <2>6, PrintedStays
  <2> QED BY <2>1, <2>2, <2>3, <2>7, Threads, PlacesStay DEF OnCPU
<1>15. ASSUME NEW t \in Thread, Dump(t) PROVE PlacesOnce'
  <2>1. Step(t, "command", Return(t))
    BY <1>15 DEF Dump
  <2>2. UNCHANGED <<ReadyQueue, RUNNING_PCB, PROCESS_COUNT>>
    BY <1>15 DEF Dump, procs, table
  <2>3. Return(t) \in PCs(t) /\ (t = Main => Return(t) \in OnCPU) /\ "command" \in OnCPU
    BY Returns DEF OnCPU
  <2>4. PlacesOnce /\ (t = Main => pc[Main] \in OnCPU)
    BY <2>1, <2>3, AliveBefore DEF OnCPU
  <2>5. \A p \in PID : spool'[p] = NoFile <=> spool[p] = NoFile
    <3>1. CASE spool' = spool
      BY <3>1
    <3>2. CASE t = Main /\ spool' = Printed(RUNNING_PCB.pid, Dumped(cmd[t]))
      <4>1. cmd[t] \in Int
        <5>1. cmd \in [Thread -> 0 .. 255] /\ t \in Thread
          BY <1>0, <1>15 DEF ControlOK
        <5> QED BY <5>1
      <4>2. Dumped(cmd[t]) \in LineOfOutput
        BY <1>0, <4>1, Lines
      <4> QED BY <1>0, <2>4, <3>2, <4>2, PrintedStays
    <3> QED BY <1>15, <3>1, <3>2 DEF Dump
  <2> QED BY <2>1, <2>2, <2>3, <2>5, PlacesStay DEF OnCPU
<1>16. ASSUME GetLine PROVE PlacesOnce'
  <2>1. PICK b \in {"prompt", "wait"} : Step(Shell, "getline", b)
    BY <1>16 DEF GetLine
  <2>2. b \in PCs(Shell) /\ UNCHANGED <<ReadyQueue, RUNNING_PCB, PROCESS_COUNT, spool>>
    BY <1>16, Places DEF GetLine, procs, table, output
  <2> QED BY <2>1, <2>2, Threads, PlacesStay
<1>17. ASSUME NEW t \in Thread, LoadName(t) PROVE PlacesOnce'
  <2>1. PICK b \in {"noload", "load", Return(t)} : Step(t, "name", b)
    BY <1>17 DEF LoadName
  <2>2. b \in PCs(t) /\ (t = Main => b \in OnCPU) /\ "name" \in OnCPU
    BY Returns, Places, Threads DEF OnCPU
  <2>3. UNCHANGED <<ReadyQueue, RUNNING_PCB, PROCESS_COUNT, spool>>
    BY <1>17 DEF LoadName, procs, table, output
  <2> QED BY <2>1, <2>2, <2>3, PlacesStay DEF OnCPU
<1>18. ASSUME NEW t \in Thread, NoLoad(t) PROVE PlacesOnce'
  <2>1. PICK a \in {"noload", "load"} : Step(t, a, Return(t))
    BY <1>18 DEF NoLoad
  <2>2. Return(t) \in PCs(t) /\ (t = Main => Return(t) \in OnCPU) /\ a \in OnCPU
    BY Returns DEF OnCPU
  <2>3. UNCHANGED <<ReadyQueue, RUNNING_PCB, PROCESS_COUNT, spool>>
    BY <1>18 DEF NoLoad, procs, table, output
  <2> QED BY <2>1, <2>2, <2>3, PlacesStay DEF OnCPU
<1>19. ASSUME PrinterGone PROVE PlacesOnce'
  <2>1. PlacesOnce /\ UNCHANGED <<ReadyQueue, RUNNING_PCB, PROCESS_COUNT, spool, pc>>
    BY <1>19 DEF PrinterGone, procs, table, output, PlacesInv, Alive
  <2> QED BY <2>1 DEF PlacesOnce, Busy
<1>20. ASSUME Undefined \/ Join \/ PowerOff PROVE FALSE
  <2>1. ASSUME Join \/ PowerOff PROVE FALSE
    <3>1. PICK a \in {"join", "poweroff"} : Step(Main, a, "poweroff")
      BY <2>1 DEF Join, PowerOff
    <3>2. pc'[Main] = "poweroff"
      BY <1>0, <3>1, Places, Threads, Steps DEF ControlOK
    <3> QED BY <3>2 DEF Alive
  <2> QED BY <1>20, <2>1 DEF Undefined, Alive
<1>21. ASSUME Pick PROVE PlacesOnce'
  <2>1. Step(Main, "pick", "run") /\ "run" \in PCs(Main)
    BY <1>21, Places DEF Pick
  <2>2. PlacesOnce /\ pc[Main] = "pick" /\ pc'[Main] = "run"
    BY <2>1, Threads, AliveBefore
  <2>3. UNCHANGED <<PROCESS_COUNT, spool>>
    BY <1>21 DEF Pick, table, output
  <2>4. OnceAt(ReadyQueue, {}, spool, PROCESS_COUNT)
    BY <2>2 DEF PlacesOnce, Busy, OnCPU
  <2>5. CASE ReadyQueue = <<>>
    <3>1. RUNNING_PCB' = Idle /\ ReadyQueue' = ReadyQueue
      BY <1>21, <2>5 DEF Pick
    <3>2. Busy' = {}
      BY <3>1 DEF Busy
    <3> QED BY <2>3, <2>4, <3>1, <3>2 DEF PlacesOnce
  <2>6. CASE ReadyQueue # <<>>
    <3>1. RUNNING_PCB' = Head(ReadyQueue) /\ ReadyQueue' = Tail(ReadyQueue)
      BY <1>21, <2>6 DEF Pick
    <3>2. Head(ReadyQueue) # Idle
      BY <1>0, <2>6
    <3>3. Busy' = {Head(ReadyQueue).pid}
      BY <2>2, <3>1, <3>2 DEF Busy, OnCPU
    <3>4. OnceAt(ReadyQueue', Busy', spool, PROCESS_COUNT)
      BY <1>0, <2>4, <2>6, <3>1, <3>3, OnceTaken
    <3> QED BY <2>3, <3>4 DEF PlacesOnce
  <2> QED BY <2>5, <2>6
<1>22. ASSUME Expire PROVE PlacesOnce'
  <2>1. Step(Main, "expired", "post") /\ "post" \in PCs(Main)
    BY <1>22, Places DEF Expire
  <2>2. PlacesOnce /\ pc[Main] = "expired" /\ pc'[Main] = "post"
    BY <2>1, Threads, AliveBefore
  <2>3. UNCHANGED <<PROCESS_COUNT, spool>> /\ Busy' = {}
    BY <1>22, <2>2 DEF Expire, table, output, Busy, OnCPU
  <2>4. CASE RUNNING_PCB = Idle
    <3>1. ReadyQueue' = ReadyQueue /\ Busy = {}
      BY <1>22, <2>4 DEF Expire, Busy
    <3> QED BY <2>2, <2>3, <3>1 DEF PlacesOnce
  <2>5. CASE RUNNING_PCB # Idle
    <3>1. ReadyQueue' = Append(ReadyQueue, RUNNING_PCB) /\ Busy = {RUNNING_PCB.pid}
      BY <1>22, <2>2, <2>5 DEF Expire, Busy, OnCPU
    <3>2. OnceAt(ReadyQueue', {}, spool, PROCESS_COUNT)
      BY <1>0, <2>2, <3>1, OnceBack DEF PlacesOnce
    <3> QED BY <2>3, <3>2 DEF PlacesOnce
  <2> QED BY <2>4, <2>5
<1>23. ASSUME Exit PROVE PlacesOnce'
  <2> DEFINE q == RUNNING_PCB.pid
  <2>1. Step(Main, "run", "post") /\ "post" \in PCs(Main)
    BY <1>23, Places DEF Exit, Fetch
  <2>2. PlacesOnce /\ pc[Main] = "run" /\ pc'[Main] = "post"
    BY <2>1, Threads, AliveBefore
  <2>3. UNCHANGED <<PROCESS_COUNT, ReadyQueue>> /\ EndSpool(q, "END_SPOOL")
    BY <1>23 DEF Exit, table
  <2>4. Busy' = {} /\ \A p \in PID : p \in Busy <=> p = q
    BY <1>0, <2>2, Pointers, Constants DEF Busy, OnCPU
  <2> HIDE DEF q
  <2>5. spool'[q] = NoFile /\ \A p \in PID : p # q => spool'[p] = spool[p]
    <3>1. /\ status' = "running" /\ spool \in [Process -> Output \union {NoFile}]
          /\ q \in Process
      BY <1>0 DEF Alive, OutputOK, q
    <3>2. CASE UNCHANGED spool /\ spool[q] = NoFile
      BY <3>2
    <3>3. CASE spool' = [spool EXCEPT ![q] = NoFile]
      BY <3>1, <3>3, Constants
    <3> QED BY <1>0, <2>3, <3>1, <3>2, <3>3, EndSpoolFacts
  <2>6. Busy \subseteq PID
    BY <1>0, Pointers DEF Busy
  <2>7. OnceAt(ReadyQueue, {}, spool', PROCESS_COUNT)
    BY <1>0, <2>2, <2>4, <2>5, <2>6, OnceOver DEF PlacesOnce
  <2> QED BY <2>3, <2>4, <2>7 DEF PlacesOnce
<1>24. ASSUME NEW t \in Thread, Load(t) PROVE PlacesOnce'
  <2>1. Step(t, "load", Return(t)) /\ RUNNING_PCB' = RUNNING_PCB
    BY <1>24 DEF Load
  <2>2. Return(t) \in PCs(t) /\ (t = Main => Return(t) \in OnCPU) /\ "load" \in OnCPU
    BY Returns DEF OnCPU
  <2>3. CASE UNCHANGED <<table, ReadyQueue, PCB, spool, program>>
    <3>1. UNCHANGED <<ReadyQueue, RUNNING_PCB, PROCESS_COUNT, spool>>
      BY <2>1, <2>3 DEF table
    <3> QED BY <2>1, <2>2, <3>1, PlacesStay DEF OnCPU
  <2>4. CASE PROCESS_COUNT \in PID /\ Submit(PROCESS_COUNT, name[t])
    <3> DEFINE q == PROCESS_COUNT
               r == [pid |-> q, cap |-> capacity']
    <3>1. /\ q \in PID /\ PROCESS_COUNT' = q + 1 /\ ReadyQueue' = Append(ReadyQueue, r)
          /\ spool' = [spool EXCEPT ![q] = <<>>] /\ r.pid = q
      BY <2>4 DEF Submit, InitSpool
    <3>2. /\ spool \in [Process -> Output \union {NoFile}] /\ <<>> # NoFile
          /\ q \in Process /\ q \in Nat \ {0, 1} /\ 2 .. q - 1 \subseteq Process
      <4>1. <<>> \in Output
        BY DEF Output
      <4> QED BY <1>0, <2>4, <4>1, Constants DEF OutputOK, PID, Process
    <3>3. PlacesOnce /\ Busy' = Busy
      BY <2>1, <2>2, AliveBefore DEF OnCPU, Busy
    <3> HIDE DEF q, r
    <3>4. spool'[q] # NoFile /\ \A p \in 2 .. q - 1 : spool'[p] = spool[p]
      BY <3>1, <3>2
    <3>5. OnceAt(ReadyQueue, Busy, spool, q)
      BY <3>3 DEF PlacesOnce, q
    <3>6. OnceAt(ReadyQueue', Busy, spool', q + 1)
      BY <1>0, <3>1, <3>2, <3>4, <3>5, OnceNew, ZenonT(60)
    <3> QED BY <3>1, <3>3, <3>6 DEF PlacesOnce
  <2> QED BY <1>24, <2>3, <2>4 DEF Load
<1> QED BY <1>1, <1>2, <1>3, <1>4, <1>5, <1>6, <1>7, <1>8, <1>9,
       <1>10, <1>11, <1>12, <1>13, <1>14, <1>15, <1>16, <1>17, <1>18,
       <1>19, <1>20, <1>21, <1>22, <1>23, <1>24, FlatNext DEF Flat

LEMMA PlacesInit == Init => PlacesInv
<1> SUFFICES ASSUME Init PROVE PlacesInv
  OBVIOUS
<1>1. ReadyQueue = <<>> /\ Busy = {} /\ PROCESS_COUNT = 2
  BY DEF Init, Busy
<1>2. DOMAIN ReadyQueue = {} /\ 2 .. PROCESS_COUNT - 1 = {}
  BY <1>1
<1> QED BY <1>1, <1>2 DEF PlacesInv, PlacesOnce, OnceAt

(* No process is lost or runs twice: until the power is switched off each  *)
(* one submitted is in the CPU, once in the ready queue, or over.          *)
THEOREM ProcessesKept == Spec => []OnceReady
<1>1. Init => TInv /\ PlacesInv
  BY TInvInit, PlacesInit
<1>2. TInv /\ PlacesInv /\ [Next]_vars => TInv' /\ PlacesInv'
  <2>1. ASSUME UNCHANGED vars, PlacesInv PROVE PlacesInv'
    BY <2>1 DEF vars, calm, procs, table, output, PlacesInv, PlacesOnce, Busy, Alive
  <2> QED BY <2>1, TInvStep, PlacesStep DEF PlacesInv
<1>3. TInv /\ PlacesInv => OnceReady
  <2> SUFFICES ASSUME TInv, PlacesOnce, NEW p \in Submitted
               PROVE  /\ Cardinality(Ready(p)) <= 1
                      /\ Ready(p) # {} => ~InCPU(p) /\ spool[p] # NoFile
                      /\ Ready(p) = {} => InCPU(p) \/ spool[p] = NoFile
    BY DEF PlacesInv, Alive, OnceReady
  <2>1. p \in 2 .. PROCESS_COUNT - 1 /\ p # 1
    BY DEF Submitted
  <2>2. InCPU(p) <=> p \in Busy
    BY <2>1, Pointers DEF InCPU, Running, Busy, OnCPU
  <2>3. Cardinality(Ready(p)) <= 1
    <3>1. CASE Ready(p) = {}
      BY <3>1, FS_EmptySet
    <3>2. CASE Ready(p) # {}
      <4>1. PICK k \in Ready(p) : TRUE
        BY <3>2
      <4>2. Ready(p) = {k}
        BY <4>1 DEF Ready, PlacesOnce, OnceAt
      <4>3. Cardinality({k}) = 1
        BY FS_Singleton
      <4> QED BY <4>2, <4>3
    <3> QED BY <3>1, <3>2
  <2>4. Ready(p) # {} => p \notin Busy /\ spool[p] # NoFile
    BY DEF Ready, PlacesOnce, OnceAt
  <2>5. Ready(p) = {} => p \in Busy \/ spool[p] = NoFile
    BY <2>1 DEF Ready, PlacesOnce, OnceAt
  <2> QED BY <2>2, <2>3, <2>4, <2>5
<1> QED BY <1>1, <1>2, <1>3, PTL DEF Spec

-----------------------------------------------------------------------------
(* What is sent to the printer.  Of a process whose spool file is there    *)
(* nothing was sent, and of the other ones one message, or none when there *)
(* was no printer.                                                         *)
SentAt(file, messages, count) ==
  \A p \in 2 .. count - 1 :
    /\ \A j, k \in DOMAIN messages : messages[j].pid = p /\ messages[k].pid = p => j = k
    /\ file[p] # NoFile => \A k \in DOMAIN messages : messages[k].pid # p

AllSentAt(file, messages, count) ==
  \A p \in 2 .. count - 1 : file[p] # NoFile \/ \E k \in DOMAIN messages : messages[k].pid = p

Message == [pid : Process, text : Output, type : {"END_SPOOL", "CPU_TERM"}]

SentInv ==
  /\ SentAt(spool, sent, PROCESS_COUNT)
  /\ printer => AllSentAt(spool, sent, PROCESS_COUNT)
  /\ pc[Main] = "poweroff" => pc[Shell] = "ended"
  /\ pc[Main] # "poweroff" => \A k \in DOMAIN sent : sent[k].pid < PROCESS_COUNT

LEMMA SentStays ==
  ASSUME NEW file, NEW messages, NEW count \in 2 .. MaxPID + 1, NEW file2,
         \A p \in PID : file2[p] = NoFile <=> file[p] = NoFile
  PROVE  /\ SentAt(file, messages, count) => SentAt(file2, messages, count)
         /\ AllSentAt(file, messages, count) => AllSentAt(file2, messages, count)
<1>1. 2 .. count - 1 \subseteq PID
  BY Constants DEF PID
<1> QED BY <1>1 DEF SentAt, AllSentAt

LEMMA SentNew ==
  ASSUME NEW S, NEW file, NEW messages \in Seq(S), NEW count \in Nat \ {0, 1}, NEW file2,
         file2[count] # NoFile, \A p \in 2 .. count - 1 : file2[p] = file[p],
         \A k \in DOMAIN messages : messages[k].pid < count
  PROVE  /\ SentAt(file, messages, count) => SentAt(file2, messages, count + 1)
         /\ AllSentAt(file, messages, count) => AllSentAt(file2, messages, count + 1)
<1> DEFINE P == 2 .. count - 1
           Q == 2 .. count + 1 - 1
<1>1. \A p \in Q : p = count \/ p \in P
  OBVIOUS
<1>2. \A k \in DOMAIN messages : messages[k].pid # count
  OBVIOUS
<1>3. ASSUME SentAt(file, messages, count), NEW p \in Q
      PROVE  /\ \A j, k \in DOMAIN messages : messages[j].pid = p /\ messages[k].pid = p => j = k
             /\ file2[p] # NoFile => \A k \in DOMAIN messages : messages[k].pid # p
  <2> HIDE DEF Q
  <2>1. CASE p = count
    BY <1>2, <2>1
  <2>2. CASE p \in P
    BY <1>3, <2>2 DEF SentAt
  <2> QED BY <1>1, <2>1, <2>2
<1>4. ASSUME AllSentAt(file, messages, count), NEW p \in Q
      PROVE  file2[p] # NoFile \/ \E k \in DOMAIN messages : messages[k].pid = p
  <2> HIDE DEF Q
  <2>1. CASE p = count
    BY <2>1
  <2>2. CASE p \in P
    BY <1>4, <2>2 DEF AllSentAt
  <2> QED BY <1>1, <2>1, <2>2
<1> QED BY <1>3, <1>4 DEF SentAt, AllSentAt

(* A file goes, sent or lost.                                              *)
LEMMA SentGone ==
  ASSUME NEW file, NEW messages \in Seq(Message), NEW count \in 2 .. MaxPID + 1,
         SentAt(file, messages, count), NEW q, file[q] # NoFile, NEW file2, file2[q] = NoFile,
         \A p \in PID : p # q => file2[p] = file[p], NEW m, m.pid = q,
         NEW messages2, messages2 = messages \/ messages2 = Append(messages, m)
  PROVE  /\ SentAt(file2, messages2, count)
         /\ messages2 # messages /\ AllSentAt(file, messages, count) =>
              AllSentAt(file2, messages2, count)
<1>1. 2 .. count - 1 \subseteq PID
  BY Constants DEF PID
<1>2. CASE messages2 = messages
  BY <1>1, <1>2 DEF SentAt
<1>3. CASE messages2 = Append(messages, m)
  <2>1. PICK n \in Nat :
          /\ DOMAIN messages = 1 .. n /\ DOMAIN messages2 = 1 .. n + 1
          /\ n + 1 \notin 1 .. n /\ n + 1 \in 1 .. n + 1 /\ messages2[n + 1] = m
          /\ \A k \in 1 .. n : k \in 1 .. n + 1 /\ messages2[k] = messages[k]
          /\ \A k \in 1 .. n + 1 : k = n + 1 \/ k \in 1 .. n
    BY <1>3, AppendFacts
  <2>2. SentAt(file2, messages2, count)
    <3> SUFFICES ASSUME NEW p \in 2 .. count - 1
                 PROVE  /\ \A j, k \in DOMAIN messages2 :
                             messages2[j].pid = p /\ messages2[k].pid = p => j = k
                        /\ file2[p] # NoFile => \A k \in DOMAIN messages2 : messages2[k].pid # p
      BY DEF SentAt
    <3>1. CASE p = q
      BY <2>1, <3>1 DEF SentAt
    <3>2. CASE p # q
      BY <1>1, <2>1, <3>2, SMTT(30) DEF SentAt
    <3> QED BY <3>1, <3>2
  <2>3. ASSUME AllSentAt(file, messages, count), NEW p \in 2 .. count - 1
        PROVE  file2[p] # NoFile \/ \E k \in DOMAIN messages2 : messages2[k].pid = p
    <3>1. CASE p = q
      BY <2>1, <3>1
    <3>2. CASE p # q
      <4>1. file[p] # NoFile \/ \E k \in DOMAIN messages : messages[k].pid = p
        BY <2>3 DEF AllSentAt
      <4> QED BY <1>1, <2>1, <3>2, <4>1
    <3> QED BY <3>1, <3>2
  <2> QED BY <2>2, <2>3 DEF AllSentAt
<1> QED BY <1>2, <1>3

(* A step that sends nothing, removes no file and gives no PID.            *)
LEMMA SentQuiet ==
  ASSUME TInv, SentInv, UNCHANGED <<sent, PROCESS_COUNT>>, printer' => printer,
         \A p \in PID : spool'[p] = NoFile <=> spool[p] = NoFile,
         pc'[Main] = "poweroff" => pc'[Shell] = "ended",
         pc'[Main] # "poweroff" => pc[Main] # "poweroff"
  PROVE  SentInv'
<1>1. PROCESS_COUNT \in 2 .. MaxPID + 1
  BY DEF TInv, TableOK
<1>2. /\ SentAt(spool', sent, PROCESS_COUNT)
      /\ printer => AllSentAt(spool', sent, PROCESS_COUNT)
  BY <1>1, SentStays DEF SentInv
<1> QED BY <1>2 DEF SentInv

LEMMA PowerMove ==
  ASSUME TInv, SentInv, NEW t \in Thread, NEW a, NEW b \in PCs(t), Step(t, a, b),
         t = Shell => a # "ended", t = Main => a # "poweroff" /\ b # "poweroff"
  PROVE  pc[Main] # "poweroff" /\ pc'[Main] # "poweroff"
<1>1. /\ pc[t] = a /\ pc'[t] = b
      /\ \A u \in Thread : u # t => pc'[u] = pc[u]
  BY Steps DEF TInv, ControlOK
<1> QED BY <1>1, Threads DEF SentInv

LEMMA SentStep == ASSUME TInv, PlacesInv, SentInv, Next PROVE SentInv'
<1>0. /\ ControlOK /\ TableOK /\ OutputOK /\ cpu \in Machine(M)
      /\ RUNNING_PCB \in Pointer /\ RUNNING_PCB.pid \in Process
      /\ PROCESS_COUNT \in 2 .. MaxPID + 1
      /\ sent \in Seq(Message)
  BY Pointers DEF TInv, TableOK, OutputOK, Message
<1>1. ASSUME Test PROVE SentInv'
  <2>1. Step(Main, "test", IF TERMINATE THEN "join" ELSE "wait")
    BY <1>1 DEF Test
  <2>2. UNCHANGED <<sent, spool, PROCESS_COUNT, printer>>
    BY <1>1 DEF Test, calm, procs, table, output, outside
  <2>3. (IF TERMINATE THEN "join" ELSE "wait") \in PCs(Main) /\ (IF TERMINATE THEN "join" ELSE "wait") # "poweroff"
    BY Places, Threads
  <2> QED BY <2>1, <2>2, <2>3, Threads, PowerMove, SentQuiet
<1>2. ASSUME WaitTurn PROVE SentInv'
  <2>1. Step(Main, "wait", "pick")
    BY <1>2 DEF WaitTurn
  <2>2. UNCHANGED <<sent, spool, PROCESS_COUNT, printer>>
    BY <1>2 DEF WaitTurn, calm, procs, table, output, outside
  <2>3. "pick" \in PCs(Main) /\ "pick" # "poweroff"
    BY Places, Threads
  <2> QED BY <2>1, <2>2, <2>3, Threads, PowerMove, SentQuiet
<1>3. ASSUME Pick PROVE SentInv'
  <2>1. Step(Main, "pick", "run")
    BY <1>3 DEF Pick
  <2>2. UNCHANGED <<sent, spool, PROCESS_COUNT, printer>>
    BY <1>3 DEF Pick, calm, procs, table, output, outside
  <2>3. "run" \in PCs(Main) /\ "run" # "poweroff"
    BY Places, Threads
  <2> QED BY <2>1, <2>2, <2>3, Threads, PowerMove, SentQuiet
<1>4. ASSUME Compute PROVE SentInv'
  <2>1. Step(Main, "run", AfterFetch)
    BY <1>4 DEF Compute, Fetch
  <2>2. UNCHANGED <<sent, spool, PROCESS_COUNT, printer>>
    BY <1>4 DEF Compute, calm, procs, table, output, outside
  <2>3. AfterFetch \in PCs(Main) /\ AfterFetch # "poweroff"
    BY Places, Threads DEF AfterFetch
  <2> QED BY <2>1, <2>2, <2>3, Threads, PowerMove, SentQuiet
<1>5. ASSUME Sleep PROVE SentInv'
  <2>1. Step(Main, "run", "asleep")
    BY <1>5 DEF Sleep, Fetch
  <2>2. UNCHANGED <<sent, spool, PROCESS_COUNT, printer>>
    BY <1>5 DEF Sleep, calm, procs, table, output, outside
  <2>3. "asleep" \in PCs(Main) /\ "asleep" # "poweroff"
    BY Places, Threads
  <2> QED BY <2>1, <2>2, <2>3, Threads, PowerMove, SentQuiet
<1>6. ASSUME Wake PROVE SentInv'
  <2>1. Step(Main, "asleep", Return(Main))
    BY <1>6 DEF Wake
  <2>2. UNCHANGED <<sent, spool, PROCESS_COUNT, printer>>
    BY <1>6 DEF Wake, calm, procs, table, output, outside
  <2>3. Return(Main) \in PCs(Main) /\ Return(Main) # "poweroff"
    BY Returns, Places, Threads
  <2> QED BY <2>1, <2>2, <2>3, Threads, PowerMove, SentQuiet
<1>7. ASSUME ShellInstr PROVE SentInv'
  <2>1. Step(Main, "run", "command")
    BY <1>7 DEF ShellInstr, Fetch
  <2>2. UNCHANGED <<sent, spool, PROCESS_COUNT, printer>>
    BY <1>7 DEF ShellInstr, calm, procs, table, output, outside
  <2>3. "command" \in PCs(Main) /\ "command" # "poweroff"
    BY Places, Threads
  <2> QED BY <2>1, <2>2, <2>3, Threads, PowerMove, SentQuiet
<1>8. ASSUME Expire PROVE SentInv'
  <2>1. Step(Main, "expired", "post")
    BY <1>8 DEF Expire
  <2>2. UNCHANGED <<sent, spool, PROCESS_COUNT, printer>>
    BY <1>8 DEF Expire, calm, procs, table, output, outside
  <2>3. "post" \in PCs(Main) /\ "post" # "poweroff"
    BY Places, Threads
  <2> QED BY <2>1, <2>2, <2>3, Threads, PowerMove, SentQuiet
<1>9. ASSUME EndTurn PROVE SentInv'
  <2>1. Step(Main, "post", "test")
    BY <1>9 DEF EndTurn
  <2>2. UNCHANGED <<sent, spool, PROCESS_COUNT, printer>>
    BY <1>9 DEF EndTurn, calm, procs, table, output, outside
  <2>3. "test" \in PCs(Main) /\ "test" # "poweroff"
    BY Places, Threads
  <2> QED BY <2>1, <2>2, <2>3, Threads, PowerMove, SentQuiet
<1>10. ASSUME Prompt PROVE SentInv'
  <2>1. Step(Shell, "prompt", IF TERMINATE THEN "ended" ELSE "getline")
    BY <1>10 DEF Prompt
  <2>2. UNCHANGED <<sent, spool, PROCESS_COUNT, printer>>
    BY <1>10 DEF Prompt, calm, procs, table, output, outside
  <2>3. (IF TERMINATE THEN "ended" ELSE "getline") \in PCs(Shell) /\ (IF TERMINATE THEN "ended" ELSE "getline") # "poweroff"
    BY Places, Threads
  <2> QED BY <2>1, <2>2, <2>3, Threads, PowerMove, SentQuiet
<1>11. ASSUME ShellWait PROVE SentInv'
  <2>1. Step(Shell, "wait", "command")
    BY <1>11 DEF ShellWait
  <2>2. UNCHANGED <<sent, spool, PROCESS_COUNT, printer>>
    BY <1>11 DEF ShellWait, calm, procs, table, output, outside
  <2>3. "command" \in PCs(Shell) /\ "command" # "poweroff"
    BY Places, Threads
  <2> QED BY <2>1, <2>2, <2>3, Threads, PowerMove, SentQuiet
<1>12. ASSUME ShellPost PROVE SentInv'
  <2>1. Step(Shell, "post", "prompt")
    BY <1>12 DEF ShellPost
  <2>2. UNCHANGED <<sent, spool, PROCESS_COUNT, printer>>
    BY <1>12 DEF ShellPost, calm, procs, table, output, outside
  <2>3. "prompt" \in PCs(Shell) /\ "prompt" # "poweroff"
    BY Places, Threads
  <2> QED BY <2>1, <2>2, <2>3, Threads, PowerMove, SentQuiet
<1>13. ASSUME NEW t \in Thread, Terminate(t) PROVE SentInv'
  <2>1. Step(t, "command", Return(t))
    BY <1>13 DEF Terminate
  <2>2. UNCHANGED <<sent, spool, PROCESS_COUNT, printer>>
    BY <1>13 DEF Terminate, calm, procs, table, output, outside
  <2>3. Return(t) \in PCs(t) /\ Return(t) # "poweroff"
    BY Returns, Places, Threads
  <2> QED BY <2>1, <2>2, <2>3, Threads, PowerMove, SentQuiet
<1>14. ASSUME NEW t \in Thread, DumpSpool(t) PROVE SentInv'
  <2>1. Step(t, "command", Return(t))
    BY <1>14 DEF DumpSpool
  <2>2. UNCHANGED <<sent, spool, PROCESS_COUNT, printer>>
    BY <1>14 DEF DumpSpool, calm, procs, table, output, outside
  <2>3. Return(t) \in PCs(t) /\ Return(t) # "poweroff"
    BY Returns, Places, Threads
  <2> QED BY <2>1, <2>2, <2>3, Threads, PowerMove, SentQuiet
<1>15. ASSUME NEW t \in Thread, LoadPrompt(t) PROVE SentInv'
  <2>1. Step(t, "command", "name")
    BY <1>15 DEF LoadPrompt
  <2>2. UNCHANGED <<sent, spool, PROCESS_COUNT, printer>>
    BY <1>15 DEF LoadPrompt, calm, procs, table, output, outside
  <2>3. "name" \in PCs(t) /\ "name" # "poweroff"
    BY Places, Threads
  <2> QED BY <2>1, <2>2, <2>3, Threads, PowerMove, SentQuiet
<1>16. ASSUME PrintAC PROVE SentInv'
  <2>1. Step(Main, "run", AfterFetch)
    BY <1>16 DEF PrintAC, Fetch
  <2>2. UNCHANGED <<sent, PROCESS_COUNT, printer>>
    BY <1>16 DEF PrintAC, procs, table, outside
  <2>3. AfterFetch \in PCs(Main) /\ AfterFetch # "poweroff"
    BY Places DEF AfterFetch
  <2>4. pc[Main] = "run" /\ status = "running"
    BY <2>1 DEF Step
  <2>5. PlacesOnce /\ pc[Main] \in OnCPU
    BY <2>4 DEF PlacesInv, Alive, OnCPU
  <2>6. \A p \in PID : spool'[p] = NoFile <=> spool[p] = NoFile
    <3>1. Shows("AC", <<cpu.AC>>) \in LineOfOutput
      BY <1>0, Lines
    <3>2. spool' = Printed(RUNNING_PCB.pid, Shows("AC", <<cpu.AC>>))
      BY <1>16 DEF PrintAC
    <3> QED BY <1>0, <2>5, <3>1, <3>2, PrintedStays
  <2> QED BY <2>1, <2>2, <2>3, <2>6, Threads, PowerMove, SentQuiet
<1>17. ASSUME NEW t \in Thread, Dump(t) PROVE SentInv'
  <2>1. Step(t, "command", Return(t))
    BY <1>17 DEF Dump
  <2>2. UNCHANGED <<sent, PROCESS_COUNT, printer>>
    BY <1>17 DEF Dump, procs, table, outside
  <2>3. Return(t) \in PCs(t) /\ Return(t) # "poweroff"
    BY Returns
  <2>4. pc[t] = "command" /\ status = "running"
    BY <2>1 DEF Step
  <2>5. \A p \in PID : spool'[p] = NoFile <=> spool[p] = NoFile
    <3>1. CASE spool' = spool
      BY <3>1
    <3>2. CASE t = Main /\ spool' = Printed(RUNNING_PCB.pid, Dumped(cmd[t]))
      <4>1. cmd[t] \in Int
        <5>1. cmd \in [Thread -> 0 .. 255] /\ t \in Thread
          BY <1>0, <1>17 DEF ControlOK
        <5> QED BY <5>1
      <4>2. Dumped(cmd[t]) \in LineOfOutput
        BY <1>0, <4>1, Lines
      <4>3. PlacesOnce /\ pc[Main] \in OnCPU
        BY <2>4, <3>2 DEF PlacesInv, Alive, OnCPU
      <4> QED BY <1>0, <3>2, <4>2, <4>3, PrintedStays
    <3> QED BY <1>17, <3>1, <3>2 DEF Dump
  <2> QED BY <2>1, <2>2, <2>3, <2>5, Threads, PowerMove, SentQuiet
<1>18. ASSUME GetLine PROVE SentInv'
  <2>1. PICK b \in {"prompt", "wait"} : Step(Shell, "getline", b)
    BY <1>18 DEF GetLine
  <2>2. b \in PCs(Shell) /\ UNCHANGED <<sent, spool, PROCESS_COUNT, printer>>
    BY <1>18, Places DEF GetLine, procs, table, output
  <2> QED BY <2>1, <2>2, Threads, PowerMove, SentQuiet
<1>19. ASSUME NEW t \in Thread, LoadName(t) PROVE SentInv'
  <2>1. PICK b \in {"noload", "load", Return(t)} : Step(t, "name", b)
    BY <1>19 DEF LoadName
  <2>2. b \in PCs(t) /\ b # "poweroff"
    BY Returns, Places, Threads
  <2>3. UNCHANGED <<sent, spool, PROCESS_COUNT, printer>>
    BY <1>19 DEF LoadName, procs, table, output
  <2> QED BY <2>1, <2>2, <2>3, Threads, PowerMove, SentQuiet
<1>20. ASSUME NEW t \in Thread, NoLoad(t) PROVE SentInv'
  <2>1. PICK a \in {"noload", "load"} : Step(t, a, Return(t))
    BY <1>20 DEF NoLoad
  <2>2. Return(t) \in PCs(t) /\ Return(t) # "poweroff"
    BY Returns
  <2>3. UNCHANGED <<sent, spool, PROCESS_COUNT, printer>>
    BY <1>20 DEF NoLoad, procs, table, output, outside
  <2> QED BY <2>1, <2>2, <2>3, Threads, PowerMove, SentQuiet
<1>21. ASSUME PrinterGone \/ Undefined PROVE SentInv'
  <2>1. UNCHANGED <<sent, spool, PROCESS_COUNT, pc>> /\ (printer' => printer)
    BY <1>21 DEF PrinterGone, Undefined, procs, table, output, outside
  <2> QED BY <2>1, SentQuiet DEF SentInv
<1>22. ASSUME Join PROVE SentInv'
  <2>1. Step(Main, "join", "poweroff") /\ pc[Shell] = "ended" /\ "poweroff" \in PCs(Main)
    BY <1>22, Places DEF Join
  <2>2. pc'[Main] = "poweroff" /\ pc'[Shell] = "ended"
    BY <1>0, <2>1, Threads, Steps DEF ControlOK
  <2>3. UNCHANGED <<sent, spool, PROCESS_COUNT, printer>>
    BY <1>22 DEF Join, calm, procs, table, output, outside
  <2> QED BY <2>2, <2>3, SentQuiet
<1>23. ASSUME NEW p \in Process, NEW type \in {"END_SPOOL", "CPU_TERM"}, EndSpool(p, type),
              UNCHANGED <<PROCESS_COUNT, printer>>,
              pc'[Main] = "poweroff" => pc'[Shell] = "ended",
              pc'[Main] # "poweroff" => pc[Main] # "poweroff" /\ p < PROCESS_COUNT
      PROVE  SentInv'
  <2> DEFINE m == [pid |-> p, text |-> spool[p], type |-> type]
  <2>1. CASE UNCHANGED <<spool, sent>>
    BY <1>23, <2>1, SentQuiet
  <2>2. CASE /\ spool[p] # NoFile /\ spool' = [spool EXCEPT ![p] = NoFile]
             /\ (~printer /\ sent' = sent) \/ sent' = Append(sent, m)
    <3>1. m.pid = p
      OBVIOUS
    <3> HIDE DEF m
    <3>2. spool \in [Process -> Output \union {NoFile}]
      BY <1>0 DEF OutputOK
    <3>3. spool'[p] = NoFile /\ \A q \in PID : q # p => spool'[q] = spool[q]
      BY <2>2, <3>2, <1>23, Constants
    <3>4. SentAt(spool, sent, PROCESS_COUNT) /\ (printer => AllSentAt(spool, sent, PROCESS_COUNT))
      BY DEF SentInv
    <3>5. sent' = sent \/ sent' = Append(sent, m)
      BY <2>2
    <3>6. /\ SentAt(spool', sent', PROCESS_COUNT)
          /\ sent' # sent /\ AllSentAt(spool, sent, PROCESS_COUNT)
               => AllSentAt(spool', sent', PROCESS_COUNT)
      <4>1. /\ sent \in Seq(Message) /\ PROCESS_COUNT \in 2 .. MaxPID + 1
            /\ spool[p] # NoFile
        BY <1>0, <2>2
      <4>2. SentAt(spool, sent, PROCESS_COUNT)
        BY <3>4
      <4> QED BY <3>1, <3>3, <3>5, <4>1, <4>2, SentGone, Zenon
    <3>7. ASSUME printer PROVE AllSentAt(spool', sent', PROCESS_COUNT)
      <4>1. sent' = Append(sent, m)
        BY <2>2, <3>7
      <4>2. sent' # sent
        <5>1. Len(sent') = Len(sent) + 1 /\ Len(sent) \in Nat
          BY <1>0, <4>1
        <5> QED BY <5>1
      <4> QED BY <3>4, <3>6, <3>7, <4>2
    <3>8. ASSUME pc'[Main] # "poweroff", NEW k \in DOMAIN sent' PROVE sent'[k].pid < PROCESS_COUNT
      <4>1. \A j \in DOMAIN sent : sent[j].pid < PROCESS_COUNT
        BY <1>23, <3>8 DEF SentInv
      <4>2. CASE sent' = sent
        BY <3>8, <4>1, <4>2
      <4>3. CASE sent' = Append(sent, m)
        <5>1. PICK n \in Nat :
                /\ DOMAIN sent = 1 .. n /\ DOMAIN sent' = 1 .. n + 1
                /\ n + 1 \notin 1 .. n /\ n + 1 \in 1 .. n + 1 /\ sent'[n + 1] = m
                /\ \A j \in 1 .. n : j \in 1 .. n + 1 /\ sent'[j] = sent[j]
                /\ \A j \in 1 .. n + 1 : j = n + 1 \/ j \in 1 .. n
          BY <1>0, <4>3, AppendFacts
        <5>2. CASE k = n + 1
          BY <1>23, <3>1, <3>8, <5>1, <5>2
        <5>3. CASE k # n + 1
          BY <3>8, <4>1, <5>1, <5>3
        <5> QED BY <5>2, <5>3
      <4> QED BY <3>5, <4>2, <4>3
    <3> QED BY <1>23, <3>6, <3>7, <3>8 DEF SentInv
  <2> QED BY <1>0, <1>23, <2>1, <2>2, EndSpoolFacts
<1>24. ASSUME Exit PROVE SentInv'
  <2>1. Step(Main, "run", "post") /\ "post" \in PCs(Main)
    BY <1>24, Places DEF Exit, Fetch
  <2>2. /\ UNCHANGED <<PROCESS_COUNT, printer>> /\ EndSpool(RUNNING_PCB.pid, "END_SPOOL")
    BY <1>24 DEF Exit, table, outside
  <2>3. pc[Main] = "run" /\ status = "running"
    BY <2>1 DEF Step
  <2>4. pc'[Main] # "poweroff" /\ pc[Main] # "poweroff"
    BY <2>1, Threads, PowerMove
  <2>5. RUNNING_PCB.pid < PROCESS_COUNT
    <3>1. CASE RUNNING_PCB = Idle
      BY <1>0, <3>1, Pointers
    <3>2. CASE RUNNING_PCB # Idle
      <4>1. PlacesOnce /\ RUNNING_PCB.pid \in Busy
        BY <2>3, <3>2 DEF PlacesInv, Alive, OnCPU, Busy
      <4>2. RUNNING_PCB.pid \in 2 .. PROCESS_COUNT - 1
        BY <4>1 DEF PlacesOnce, OnceAt
      <4> QED BY <1>0, <4>2
    <3> QED BY <3>1, <3>2
  <2> QED BY <1>0, <1>23, <2>2, <2>4, <2>5
<1>25. ASSUME PowerOff PROVE SentInv'
  <2>1. Step(Main, "poweroff", "poweroff") /\ "poweroff" \in PCs(Main)
    BY <1>25, Places DEF PowerOff
  <2>2. UNCHANGED <<PROCESS_COUNT, printer>>
    BY <1>25 DEF PowerOff, procs, table, outside
  <2>3. pc[Main] = "poweroff" /\ pc'[Main] = "poweroff" /\ pc'[Shell] = "ended"
    <3>1. /\ pc[Main] = "poweroff" /\ pc'[Main] = "poweroff"
          /\ \A u \in Thread : u # Main => pc'[u] = pc[u]
      BY <1>0, <2>1, Threads, Steps DEF ControlOK
    <3> QED BY <3>1, Threads DEF SentInv
  <2>4. CASE UNCHANGED output
    <3>1. UNCHANGED <<sent, spool>>
      BY <2>4 DEF output
    <3> QED BY <2>2, <2>3, <3>1, SentQuiet
  <2>5. CASE \E p \in Process : EndSpool(p, "CPU_TERM")
    BY <1>23, <2>2, <2>3, <2>5
  <2> QED BY <1>25, <2>4, <2>5 DEF PowerOff
<1>26. ASSUME NEW t \in Thread, Load(t) PROVE SentInv'
  <2>1. Step(t, "load", Return(t)) /\ sent' = sent /\ printer' = printer
    BY <1>26 DEF Load, outside
  <2>2. Return(t) \in PCs(t) /\ Return(t) # "poweroff"
    BY Returns
  <2>3. pc[Main] # "poweroff" /\ pc'[Main] # "poweroff"
    BY <2>1, <2>2, Threads, PowerMove
  <2>4. CASE UNCHANGED <<table, ReadyQueue, PCB, spool, program>>
    <3>1. UNCHANGED <<sent, spool, PROCESS_COUNT, printer>>
      BY <2>1, <2>4 DEF table
    <3> QED BY <2>3, <3>1, SentQuiet
  <2>5. CASE PROCESS_COUNT \in PID /\ Submit(PROCESS_COUNT, name[t])
    <3> DEFINE q == PROCESS_COUNT
    <3>1. q \in PID /\ PROCESS_COUNT' = q + 1 /\ spool' = [spool EXCEPT ![q] = <<>>]
      BY <2>5 DEF Submit, InitSpool
    <3>2. /\ spool \in [Process -> Output \union {NoFile}] /\ <<>> # NoFile
          /\ q \in Process /\ q \in Nat \ {0, 1} /\ 2 .. q - 1 \subseteq Process
      <4>1. <<>> \in Output
        BY DEF Output
      <4> QED BY <1>0, <2>5, <4>1, Constants DEF OutputOK, PID, Process
    <3>3. /\ SentAt(spool, sent, q) /\ (printer => AllSentAt(spool, sent, q))
          /\ \A k \in DOMAIN sent : sent[k].pid < q
      BY <2>3 DEF SentInv
    <3> HIDE DEF q
    <3>4. spool'[q] # NoFile /\ \A p \in 2 .. q - 1 : spool'[p] = spool[p]
      BY <3>1, <3>2
    <3>5. SentAt(spool', sent, q + 1) /\ (printer => AllSentAt(spool', sent, q + 1))
      BY <1>0, <3>2, <3>3, <3>4, SentNew
    <3>6. \A k \in DOMAIN sent : sent[k].pid < q + 1
      <4>1. ASSUME NEW k \in DOMAIN sent PROVE sent[k].pid \in Int
        <5>1. sent[k] \in Message
          BY <1>0
        <5> QED BY <5>1 DEF Message, Process
      <4> QED BY <3>2, <3>3, <4>1
    <3> QED BY <2>1, <2>3, <3>1, <3>5, <3>6 DEF SentInv
  <2> QED BY <1>26, <2>4, <2>5 DEF Load
<1> QED BY <1>1, <1>2, <1>3, <1>4, <1>5, <1>6, <1>7, <1>8, <1>9,
       <1>10, <1>11, <1>12, <1>13, <1>14, <1>15, <1>16, <1>17, <1>18,
       <1>19, <1>20, <1>21, <1>22, <1>24, <1>25, <1>26, FlatNext DEF Flat

LEMMA SentInit == Init => SentInv
<1> SUFFICES ASSUME Init PROVE SentInv
  OBVIOUS
<1>1. sent = <<>> /\ PROCESS_COUNT = 2
  BY DEF Init
<1>2. DOMAIN sent = {} /\ 2 .. PROCESS_COUNT - 1 = {}
  BY <1>1
<1>3. pc[Main] # "poweroff"
  BY Threads DEF Init
<1> QED BY <1>1, <1>2, <1>3 DEF SentInv, SentAt, AllSentAt

(* The output of a process is sent once, at its end or when the computer is*)
(* switched off; only a printer that went away misses it.                  *)
THEOREM OutputSentOnce == Spec => []SentOnce
<1>1. Init => TInv /\ PlacesInv /\ SentInv
  BY TInvInit, PlacesInit, SentInit
<1>2. TInv /\ PlacesInv /\ SentInv /\ [Next]_vars => TInv' /\ PlacesInv' /\ SentInv'
  <2>1. ASSUME UNCHANGED vars, PlacesInv, SentInv PROVE PlacesInv' /\ SentInv'
    BY <2>1 DEF vars, calm, procs, table, output, outside, PlacesInv, PlacesOnce, Busy, Alive,
                SentInv
  <2> QED BY <2>1, TInvStep, PlacesStep, SentStep DEF PlacesInv
<1>3. SentInv => SentOnce
  <2> SUFFICES ASSUME SentInv, NEW p \in Submitted
               PROVE  LET n == Cardinality(SentFor(p)) + IF spool[p] = NoFile THEN 0 ELSE 1
                      IN  n <= 1 /\ (printer => n = 1)
    BY DEF SentOnce
  <2>1. p \in 2 .. PROCESS_COUNT - 1
    BY DEF Submitted
  <2>2. CASE SentFor(p) = {}
    <3>1. Cardinality(SentFor(p)) = 0
      BY <2>2, FS_EmptySet
    <3>2. printer => spool[p] # NoFile
      BY <2>1, <2>2 DEF SentInv, AllSentAt, SentFor
    <3> QED BY <3>1, <3>2
  <2>3. CASE SentFor(p) # {}
    <3>1. PICK k \in SentFor(p) : TRUE
      BY <2>3
    <3>2. SentFor(p) = {k} /\ spool[p] = NoFile
      BY <2>1, <3>1 DEF SentInv, SentAt, SentFor
    <3>3. Cardinality({k}) = 1
      BY FS_Singleton
    <3> QED BY <3>2, <3>3
  <2> QED BY <2>2, <2>3
<1> QED BY <1>1, <1>2, <1>3, PTL DEF Spec
===============================================================================
