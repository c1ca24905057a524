--------------------------- MODULE TransparencyProofs ---------------------------
(***************************************************************************)
(* Time sharing is transparent: Computer runs every process as Solo, the   *)
(* computer of project 1, runs its program, for every set of programs that *)
(* keep to their own words, every quantum and every interleaving.          *)
(***************************************************************************)
EXTENDS ComputerProofs

-----------------------------------------------------------------------------
(* The computer of project 1.                                              *)
Sheet == [what : {"AC", "registers", "memory", "bruh, wut?"}, words : Seq(Int)]

SoloState(f) == [PC : Int, AC : Word, out : Seq(Sheet), over : BOOLEAN,
                 Mem : [Segment(f) -> Word]]

LEMMA FileFacts ==
  ASSUME NEW f \in File
  PROVE  /\ Image[f] \in Seq(Word) /\ Base[f] \in Nat
         /\ Segment(f) \subseteq 0 .. M - 1 /\ Segment(f) \subseteq Int
         /\ \A a \in 0 .. 3 : a \notin Segment(f)
         /\ \A g \in File : f # g => Segment(f) \intersect Segment(g) = {}
<1>1. Len(PROG_IDLE) = 4
  BY DEF PROG_IDLE
<1>2. Image[f] \in Seq(Word) /\ Base[f] \in Nat
  BY Constants
<1>3. Segment(f) \subseteq 4 .. M - 1
  BY <1>1, PlacementAssumption
<1>4. \A g \in File : f # g => Segment(f) \intersect Segment(g) = {}
  BY PlacementAssumption
<1>5. M \in Nat
  BY Constants
<1> HIDE DEF Segment
<1>6. Segment(f) \subseteq 0 .. M - 1 /\ Segment(f) \subseteq Int
  BY <1>3, <1>5
<1>7. \A a \in 0 .. 3 : a \notin Segment(f)
  BY <1>3, <1>5
<1> QED BY <1>2, <1>4, <1>6, <1>7

LEMMA BootState ==
  ASSUME NEW f \in File
  PROVE  /\ Boot(f) \in SoloState(f)
         /\ Boot(f).PC = 0 /\ Boot(f).AC = 0 /\ Boot(f).out = <<>> /\ ~Boot(f).over
         /\ \A a \in Segment(f) : Boot(f).Mem[a] = Image[f][a - Base[f] + 1]
<1> DEFINE mem == [a \in Segment(f) |-> Image[f][a - Base[f] + 1]]
<1>1. Image[f] \in Seq(Word) /\ Base[f] \in Nat
  BY FileFacts
<1>2. ASSUME NEW a \in Segment(f) PROVE Image[f][a - Base[f] + 1] \in Word
  <2>1. a - Base[f] + 1 \in 1 .. Len(Image[f])
    BY <1>1 DEF Segment
  <2> QED BY <1>1, <2>1
<1>3. mem \in [Segment(f) -> Word]
  BY <1>2
<1>4. \A a \in Segment(f) : mem[a] = Image[f][a - Base[f] + 1]
  OBVIOUS
<1>5. Boot(f) = [PC |-> 0, AC |-> 0, out |-> <<>>, over |-> FALSE, Mem |-> mem]
  BY DEF Boot
<1> HIDE DEF mem
<1>6. 0 \in Word /\ 0 \in Int /\ <<>> \in Seq(Sheet)
  BY Words
<1>7. Boot(f) \in SoloState(f)
  BY <1>3, <1>5, <1>6 DEF SoloState
<1> QED BY <1>4, <1>5, <1>7

(* What one instruction does.                                              *)
LEMMA InstructFacts ==
  ASSUME NEW f \in File, NEW s \in SoloState(f), ~s.over, ~Strays(f, s)
  PROVE  LET at  == Base[f] + s.PC
             op  == s.Mem[at]
             arg == s.Mem[at + 1]
             w   == s.Mem[Base[f] + arg]
             t   == Instruct(f, s)
         IN  /\ {at, at + 1} \subseteq Segment(f) /\ op \in Int /\ arg \in Word
             /\ op \in 2 .. 5 => Base[f] + arg \in Segment(f)
             /\ t \in SoloState(f)
             /\ t.over <=> op \notin 1 .. 9
             /\ t.PC = IF op = 6 /\ s.AC > 0 THEN arg ELSE s.PC + 2
             /\ t.AC = CASE op = 1 -> arg
                         [] op = 2 -> w
                         [] op = 3 -> Wrapped(s.AC + w)
                         [] op = 4 -> Wrapped(s.AC * w)
                         [] OTHER -> s.AC
             /\ t.Mem = IF op = 5 THEN [s.Mem EXCEPT ![Base[f] + arg] = s.AC] ELSE s.Mem
             /\ t.out = CASE op = 7 -> Append(s.out, Shows("AC", <<s.AC>>))
                          [] op = 9 -> Append(s.out, Shown(f, [s EXCEPT !.PC = @ + 2], arg))
                          [] OTHER -> s.out
<1> DEFINE at  == Base[f] + s.PC
           op  == s.Mem[at]
           arg == s.Mem[at + 1]
           b   == Base[f] + arg
           w   == s.Mem[b]
           t   == Instruct(f, s)
           p   == s.PC + 2
           u   == [s EXCEPT !.PC = p]
<1>1. /\ {at, at + 1} \subseteq Segment(f)
      /\ op \in 2 .. 5 => b \in Segment(f)
  BY DEF Strays
<1>2. /\ s.PC \in Int /\ s.AC \in Word /\ s.AC \in Int /\ s.out \in Seq(Sheet)
      /\ s.over = FALSE /\ s.Mem \in [Segment(f) -> Word]
  BY Words DEF SoloState
<1>3. op \in Word /\ arg \in Word /\ op \in Int /\ arg \in Int
  BY <1>1, <1>2, Words
<1>4. op \in 2 .. 5 => w \in Word /\ w \in Int
  BY <1>1, <1>2, Words
<1>5. Base[f] \in Int /\ p \in Int
  BY <1>2, FileFacts
<1>6. t = CASE op = 1 -> [u EXCEPT !.AC = arg]
            [] op = 2 -> [u EXCEPT !.AC = w]
            [] op = 3 -> [u EXCEPT !.AC = Wrapped(@ + w)]
            [] op = 4 -> [u EXCEPT !.AC = Wrapped(@ * w)]
            [] op = 5 -> [u EXCEPT !.Mem[b] = s.AC]
            [] op = 6 -> IF s.AC > 0 THEN [u EXCEPT !.PC = arg] ELSE u
            [] op = 7 -> [u EXCEPT !.out = Append(@, Shows("AC", <<s.AC>>))]
            [] op = 8 -> u
            [] op = 9 -> [u EXCEPT !.out = Append(@, Shown(f, u, arg))]
            [] OTHER  -> [u EXCEPT !.over = TRUE]
  BY DEF Instruct
<1>7. u = [s EXCEPT !.PC = @ + 2]
  OBVIOUS
<1> HIDE DEF t
<1> HIDE DEF p
<1>8. /\ u \in SoloState(f) /\ u.PC = p /\ u.AC = s.AC /\ u.out = s.out /\ u.over = FALSE
      /\ u.Mem = s.Mem
  BY <1>2, <1>5 DEF SoloState
<1> HIDE DEF u, at, op, arg, b, w
<1> DEFINE Goal ==
             /\ t \in SoloState(f)
             /\ t.over <=> op \notin 1 .. 9
             /\ t.PC = IF op = 6 /\ s.AC > 0 THEN arg ELSE p
             /\ t.AC = CASE op = 1 -> arg
                         [] op = 2 -> w
                         [] op = 3 -> Wrapped(s.AC + w)
                         [] op = 4 -> Wrapped(s.AC * w)
                         [] OTHER -> s.AC
             /\ t.Mem = IF op = 5 THEN [s.Mem EXCEPT ![b] = s.AC] ELSE s.Mem
             /\ t.out = CASE op = 7 -> Append(s.out, Shows("AC", <<s.AC>>))
                          [] op = 9 -> Append(s.out, Shown(f, u, arg))
                          [] OTHER -> s.out
<1>9. ASSUME NEW x \in Word, op \in 1 .. 4, t = [u EXCEPT !.AC = x],
             x = CASE op = 1 -> arg
                   [] op = 2 -> w
                   [] op = 3 -> Wrapped(s.AC + w)
                   [] op = 4 -> Wrapped(s.AC * w)
                   [] OTHER -> s.AC
      PROVE Goal
  <2>1. /\ t \in SoloState(f) /\ t.PC = p /\ t.AC = x /\ t.out = s.out /\ t.over = FALSE
        /\ t.Mem = s.Mem
    BY <1>8, <1>9 DEF SoloState
  <2> QED BY <1>9, <2>1
<1>10. ASSUME op = 1 PROVE Goal
  BY <1>3, <1>6, <1>9, <1>10
<1>11. ASSUME op = 2 PROVE Goal
  BY <1>4, <1>6, <1>9, <1>11
<1>12. ASSUME op = 3 PROVE Goal
  <2>1. s.AC + w \in Int
    BY <1>2, <1>4, <1>12
  <2> DEFINE x == Wrapped(s.AC + w)
  <2>2. x \in Word
    BY <2>1, WrappedIsWord
  <2>3. t = [u EXCEPT !.AC = x]
    BY <1>6, <1>8, <1>12
  <2> QED BY <1>9, <1>12, <2>2, <2>3
<1>13. ASSUME op = 4 PROVE Goal
  <2>1. s.AC * w \in Int
    BY <1>2, <1>4, <1>13
  <2> DEFINE x == Wrapped(s.AC * w)
  <2>2. x \in Word
    BY <2>1, WrappedIsWord
  <2>3. t = [u EXCEPT !.AC = x]
    BY <1>6, <1>8, <1>13
  <2> QED BY <1>9, <1>13, <2>2, <2>3
<1>14. ASSUME op = 5 PROVE Goal
  <2> DEFINE mem == [s.Mem EXCEPT ![b] = s.AC]
  <2>1. mem \in [Segment(f) -> Word]
    BY <1>2
  <2>2. t = [u EXCEPT !.Mem = mem]
    BY <1>6, <1>8, <1>14
  <2> HIDE DEF mem
  <2>3. /\ t \in SoloState(f) /\ t.PC = p /\ t.AC = s.AC /\ t.out = s.out /\ t.over = FALSE
        /\ t.Mem = mem
    BY <1>8, <2>1, <2>2 DEF SoloState
  <2> QED BY <1>14, <2>3 DEF mem
<1>15. ASSUME op = 6 PROVE Goal
  <2>1. CASE s.AC > 0
    <3>1. t = [u EXCEPT !.PC = arg]
      BY <1>6, <1>15, <2>1
    <3>2. /\ t \in SoloState(f) /\ t.PC = arg /\ t.AC = s.AC /\ t.out = s.out
          /\ t.over = FALSE /\ t.Mem = s.Mem
      BY <1>3, <1>8, <3>1 DEF SoloState
    <3> QED BY <1>15, <2>1, <3>2
  <2>2. CASE ~(s.AC > 0)
    <3>1. t = u
      BY <1>6, <1>15, <2>2
    <3> QED BY <1>8, <1>15, <2>2, <3>1
  <2> QED BY <2>1, <2>2
<1>16. ASSUME op = 8 PROVE Goal
  <2>1. t = u
    BY <1>6, <1>16
  <2> QED BY <1>8, <1>16, <2>1
<1>17. ASSUME NEW x \in Sheet, op \in {7, 9}, t = [u EXCEPT !.out = Append(s.out, x)],
              op = 7 => x = Shows("AC", <<s.AC>>), op = 9 => x = Shown(f, u, arg)
       PROVE Goal
  <2> DEFINE o == Append(s.out, x)
  <2>1. o \in Seq(Sheet)
    BY <1>2
  <2>2. t = [u EXCEPT !.out = o]
    BY <1>17
  <2>5. /\ op = 7 => o = Append(s.out, Shows("AC", <<s.AC>>))
        /\ op = 9 => o = Append(s.out, Shown(f, u, arg))
    BY <1>17
  <2> HIDE DEF o
  <2>3. /\ t \in SoloState(f) /\ t.PC = p /\ t.AC = s.AC /\ t.out = o /\ t.over = FALSE
        /\ t.Mem = s.Mem
    BY <1>8, <2>1, <2>2 DEF SoloState
  <2> QED BY <1>17, <2>3, <2>5
<1>18. ASSUME op = 7 PROVE Goal
  <2>1. <<s.AC>> \in Seq(Int)
    BY <1>2
  <2>2. Shows("AC", <<s.AC>>) \in Sheet
    BY <2>1 DEF Shows, Sheet
  <2>3. t = [u EXCEPT !.out = Append(s.out, Shows("AC", <<s.AC>>))]
    BY <1>6, <1>8, <1>18
  <2> HIDE DEF Goal
  <2> QED BY <1>17, <1>18, <2>2, <2>3
<1>19. ASSUME op = 9 PROVE Goal
  <2> DEFINE regs == <<Base[f], u.PC, 9, arg, u.AC, Base[f] + u.PC - 1, arg>>
  <2>1. u.PC \in Int /\ u.AC \in Int
    BY <1>2, <1>5, <1>8
  <2>2. regs \in Seq(Int) /\ <<>> \in Seq(Int)
    BY <1>3, <1>5, <2>1
  <2> HIDE DEF regs
  <2>3. Shown(f, u, arg) = CASE arg = 2 -> Shows("registers", regs)
                             [] arg = 3 -> Shows("memory", <<>>)
                             [] OTHER   -> Shows("bruh, wut?", <<>>)
    BY DEF Shown, regs
  <2>4. /\ Shows("registers", regs) \in Sheet /\ Shows("memory", <<>>) \in Sheet
        /\ Shows("bruh, wut?", <<>>) \in Sheet
    BY <2>2 DEF Shows, Sheet
  <2>5. Shown(f, u, arg) \in Sheet
    BY <2>3, <2>4
  <2>6. t = [u EXCEPT !.out = Append(s.out, Shown(f, u, arg))]
    BY <1>6, <1>8, <1>19
  <2> HIDE DEF Goal
  <2> QED BY <1>17, <1>19, <2>5, <2>6
<1>20. ASSUME op \notin 1 .. 9 PROVE Goal
  <2>1. /\ op # 1 /\ op # 2 /\ op # 3 /\ op # 4 /\ op # 5 /\ op # 6 /\ op # 7 /\ op # 8
        /\ op # 9
    BY <1>20
  <2>2. t = [u EXCEPT !.over = TRUE]
    BY <1>6, <2>1
  <2>3. /\ t \in SoloState(f) /\ t.PC = p /\ t.AC = s.AC /\ t.out = s.out /\ t.over = TRUE
        /\ t.Mem = s.Mem
    BY <1>8, <2>2 DEF SoloState
  <2> QED BY <1>20, <2>1, <2>3
<1>21. Goal
  <2>1. \/ op = 1 \/ op = 2 \/ op = 3 \/ op = 4 \/ op = 5 \/ op = 6 \/ op = 7 \/ op = 8
        \/ op = 9 \/ op \notin 1 .. 9
    BY <1>3
  <2> HIDE DEF Goal
  <2> QED BY <1>10, <1>11, <1>12, <1>13, <1>14, <1>15, <1>16, <1>18, <1>19, <1>20, <2>1
<1> QED BY <1>1, <1>3, <1>7, <1>21 DEF at, op, arg, b, w, t, p
(* One instruction after another.                                          *)
Onward(f, s) == IF s.over \/ Strays(f, s) THEN s ELSE Instruct(f, s)
RunOf(f, r) == r = [k \in Nat |-> IF k = 0 THEN Boot(f) ELSE Onward(f, r[k - 1])]

LEMMA RunExists ==
  ASSUME NEW f \in File
  PROVE  \E r : RunOf(f, r)
<1> DEFINE S == SoloState(f)
           step == [s \in S |-> Onward(f, s)]
<1>1. PICK r : Iterates(Boot(f), step, r)
  BY IterationExists
<1>2. ASSUME NEW s \in S PROVE step[s] \in S /\ step[s] = Onward(f, s)
  BY InstructFacts DEF Onward
<1> HIDE DEF step, S
<1>3. /\ r = [k \in Nat |-> IF k = 0 THEN Boot(f) ELSE step[r[k - 1]]]
      /\ \A k \in Nat : r[k] = IF k = 0 THEN Boot(f) ELSE step[r[k - 1]]
  BY <1>1 DEF Iterates
<1>4. r[0] \in S
  BY <1>3, BootState DEF S
<1>5. ASSUME NEW n \in Nat, r[n] \in S PROVE r[n + 1] \in S
  <2>1. n + 1 \in Nat /\ n + 1 # 0 /\ n + 1 - 1 = n
    OBVIOUS
  <2>2. r[n + 1] = step[r[n]]
    BY <1>3, <2>1
  <2> QED BY <1>2, <1>5, <2>2
<1>6. \A n \in Nat : r[n] \in S
  BY <1>4, <1>5, IterationStays
<1>7. \A k \in Nat : r[k] = IF k = 0 THEN Boot(f) ELSE Onward(f, r[k - 1])
  <2> SUFFICES ASSUME NEW k \in Nat
               PROVE  r[k] = IF k = 0 THEN Boot(f) ELSE Onward(f, r[k - 1])
    OBVIOUS
  <2>1. CASE k = 0
    BY <1>3, <2>1
  <2>2. CASE k # 0
    <3>1. k - 1 \in Nat
      BY <2>2
    <3>2. step[r[k - 1]] = Onward(f, r[k - 1])
      BY <1>2, <1>6, <3>1
    <3> QED BY <1>3, <2>2, <3>2
  <2> QED BY <2>1, <2>2
<1>8. r = [k \in Nat |-> r[k]]
  <2>1. DOMAIN r = Nat
    BY <1>3
  <2>2. r = [k \in DOMAIN r |-> r[k]]
    BY <1>3
  <2> QED BY <2>1, <2>2
<1> QED BY <1>7, <1>8 DEF RunOf

LEMMA AloneFacts ==
  ASSUME NEW f \in File
  PROVE  /\ Alone(f, 0) = Boot(f)
         /\ \A n \in Nat : /\ Alone(f, n) \in SoloState(f)
                           /\ Alone(f, n + 1) = Onward(f, Alone(f, n))
<1> DEFINE F == CHOOSE r : r = [k \in Nat |->
                  IF k = 0 THEN Boot(f)
                  ELSE LET s == r[k - 1]
                       IN  IF s.over \/ Strays(f, s) THEN s ELSE Instruct(f, s)]
<1>1. \A n \in Nat : Alone(f, n) = F[n]
  BY DEF Alone
<1>2. \E r : r = [k \in Nat |->
                  IF k = 0 THEN Boot(f)
                  ELSE LET s == r[k - 1]
                       IN  IF s.over \/ Strays(f, s) THEN s ELSE Instruct(f, s)]
  BY RunExists DEF RunOf, Onward
<1>3. F = [k \in Nat |->
                  IF k = 0 THEN Boot(f)
                  ELSE LET s == F[k - 1]
                       IN  IF s.over \/ Strays(f, s) THEN s ELSE Instruct(f, s)]
  BY <1>2
<1> HIDE DEF F
<1>4. \A k \in Nat : F[k] = IF k = 0 THEN Boot(f) ELSE Onward(f, F[k - 1])
  BY <1>3 DEF Onward
<1>5. F[0] = Boot(f)
  BY <1>4
<1>6. \A n \in Nat : F[n + 1] = Onward(f, F[n])
  <2> SUFFICES ASSUME NEW n \in Nat PROVE F[n + 1] = Onward(f, F[n])
    OBVIOUS
  <2>1. n + 1 \in Nat /\ n + 1 # 0 /\ n + 1 - 1 = n
    OBVIOUS
  <2> QED BY <1>4, <2>1
<1>7. \A n \in Nat : F[n] \in SoloState(f)
  <2>1. F[0] \in SoloState(f)
    BY <1>5, BootState
  <2>2. \A s \in SoloState(f) : Onward(f, s) \in SoloState(f)
    BY InstructFacts DEF Onward
  <2>3. \A n \in Nat : F[n] \in SoloState(f) => F[n + 1] \in SoloState(f)
    BY <1>6, <2>2
  <2> QED BY <2>1, <2>3, IterationStays
<1>8. \A n \in Nat : Alone(f, n + 1) = F[n + 1]
  BY <1>1
<1> QED BY <1>1, <1>5, <1>6, <1>7, <1>8

(* A run that comes back to an earlier point shows all its points before.  *)
LEMMA RunCovered ==
  ASSUME NEW f \in File, HorizonReached
  PROVE  \A n \in Nat : \E m \in 0 .. Horizon - 1 : Alone(f, m) = Alone(f, n)
<1> DEFINE S == {n \in Nat : \E m \in 0 .. Horizon - 1 : Alone(f, m) = Alone(f, n)}
<1>1. Horizon \in Nat
  BY ComputerAssumption
<1>2. PICK h \in 0 .. Horizon - 1 : Alone(f, h) = Alone(f, Horizon)
  BY DEF HorizonReached
<1>3. 0 \in S
  <2>1. 0 \in 0 .. Horizon - 1
    BY <1>1, <1>2
  <2> QED BY <2>1
<1>4. ASSUME NEW n \in Nat, n \in S PROVE n + 1 \in S
  <2>1. PICK m \in 0 .. Horizon - 1 : Alone(f, m) = Alone(f, n)
    BY <1>4
  <2>2. m \in Nat /\ (m + 1 \in 0 .. Horizon - 1 \/ m + 1 = Horizon)
    BY <1>1
  <2>3. Alone(f, m + 1) = Alone(f, n + 1)
    BY <2>1, <2>2, AloneFacts
  <2>4. \E k \in 0 .. Horizon - 1 : Alone(f, k) = Alone(f, n + 1)
    BY <1>2, <2>2, <2>3
  <2> QED BY <2>4
<1> HIDE DEF S
<1>5. Nat \subseteq S
  BY <1>3, <1>4, NatSetInduction
<1> QED BY <1>5 DEF S

-----------------------------------------------------------------------------
(* What both computers show, one line more.                                *)
Shared == {"AC", "registers", "memory"}
Added(out, x) == IF x.what \in Shared THEN out \o <<x>> ELSE out

LEMMA CommonNext ==
  ASSUME NEW T, NEW out \in Seq(T), NEW x \in T, NEW longer, longer = Append(out, x)
  PROVE  Common(longer) = Added(Common(out), x)
<1> DEFINE own(k) == IF k.what \in Shared THEN <<k>> ELSE <<>>
           s == [k \in DOMAIN out |-> own(out[k])]
           t == [k \in DOMAIN longer |-> own(longer[k])]
           n == Len(out)
           m == Len(longer)
<1>1. /\ n \in Nat /\ m \in Nat /\ n = m - 1 /\ DOMAIN out = 1 .. n /\ DOMAIN longer = 1 .. m
      /\ longer[m] = x /\ \A i \in 1 .. n : longer[i] = out[i] /\ out[i] \in T
      /\ m \in 1 .. m /\ 1 .. n \subseteq 1 .. m
  OBVIOUS
<1>2. \A k \in T : own(k) \in Seq(T)
  OBVIOUS
<1>3. Common(out) = FlattenSeq(s) /\ Common(longer) = FlattenSeq(t)
  BY DEF Common, Shared
<1> HIDE DEF own
<1>4. /\ s \in Seq(Seq(T)) /\ Len(s) = n
      /\ Len(t) = m /\ t[m] = own(x) /\ \A i \in 1 .. n : s[i] = t[i]
  <2>1. \A i \in 1 .. n : s[i] \in Seq(T)
    BY <1>1, <1>2
  <2>2. s \in Seq(Seq(T)) /\ Len(s) = n
    BY <1>1, <2>1
  <2>3. Len(t) = m
    BY <1>1
  <2>4. t[m] = own(x) /\ \A i \in 1 .. n : s[i] = t[i]
    BY <1>1
  <2> QED BY <2>2, <2>3, <2>4
<1> HIDE DEF s, t, n, m
<1>5. t[m] \in Seq(T)
  BY <1>2, <1>4
<1>6. FlattenSeq(t) = FlattenSeq(s) \o t[m]
  <2>1. CASE n = 0
    <3>1. FlattenSeq(s) = s /\ s = <<>>
      <4>1. Len(s) = 0 /\ Len(s) \in Nat
        BY <1>1, <1>4, <2>1
      <4>2. FlattenSeq(s) = s
        BY <4>1, FlattenIs
      <4>3. s = <<>>
        BY <1>4, <4>1
      <4> QED BY <4>2, <4>3
    <3>2. Len(t) = 1 /\ m = 1
      BY <1>1, <1>4, <2>1
    <3>3. FlattenSeq(t) = t[m]
      BY <3>2, FlattenOne
    <3>4. PICK a \in Seq(T) : a = t[m]
      BY <1>5
    <3>5. <<>> \o a = a
      OBVIOUS
    <3> QED BY <3>1, <3>3, <3>4, <3>5
  <2>2. CASE n # 0
    BY <1>1, <1>4, <2>2, FlattenLonger
  <2> QED BY <2>1, <2>2
<1>7. FlattenSeq(s) \in Seq(T)
  BY <1>4, FlattenType
<1>8. PICK a \in Seq(T) : a = FlattenSeq(s)
  BY <1>7
<1>9. a \o <<>> = a
  OBVIOUS
<1> QED BY <1>3, <1>4, <1>6, <1>8, <1>9 DEF own, Added

(* The line is one that both show, or one that is left out.                *)
LEMMA CommonShown ==
  ASSUME NEW T, NEW out \in Seq(T), NEW x \in T, NEW longer, longer = Append(out, x)
  PROVE  /\ x.what \in Shared => Common(longer) = Common(out) \o <<x>>
         /\ x.what \notin Shared => Common(longer) = Common(out)
BY CommonNext DEF Added

-----------------------------------------------------------------------------
(* The two computers side by side: the machine with context c and memory   *)
(* mem is where the run s of f is, before its end.                         *)
Holds(f, c, mem, s) ==
  /\ c.BASE = Base[f] /\ c.PC = s.PC /\ c.AC = s.AC /\ ~s.over
  /\ \A a \in Segment(f) : mem[a] = s.Mem[a]

(* They fetch the same instruction, and the run does not stray.            *)
LEMMA FetchSame ==
  ASSUME Disciplined(Nat), NEW f \in File \ Short, NEW n \in Nat, NEW s, s = Alone(f, n),
         NEW m \in Machine(M), ~Wild(m), Holds(f, m, m.Mem, s),
         NEW x, x = cpu_fetch_instruction(m)
  PROVE  LET at == Base[f] + s.PC IN
         /\ x \in Machine(M) /\ x.BASE = Base[f] /\ x.PC = s.PC + 2 /\ x.AC = s.AC
         /\ x.Mem = m.Mem /\ x.IR0 = s.Mem[at] /\ x.IR1 = s.Mem[at + 1]
         /\ x.MAR = at + 1 /\ x.MBR = x.IR1
         /\ x.IR0 \in 2 .. 5 => x.BASE + x.IR1 \in 0 .. M - 1
         /\ x.IR0 = 9 => x.IR1 \in 0 .. 255
         /\ ~Strays(f, s)
<1> DEFINE at == Base[f] + s.PC
<1>1. M \in Nat /\ f \in File
  BY Constants
<1>2. /\ x \in Machine(M) /\ at \in 0 .. M - 1 /\ at + 1 \in 0 .. M - 1
      /\ x.PC = s.PC + 2 /\ x.BASE = Base[f] /\ x.AC = s.AC /\ x.Mem = m.Mem
      /\ x.IR0 = m.Mem[at] /\ x.IR1 = m.Mem[at + 1]
      /\ x.MAR = at + 1 /\ x.MBR = x.IR1
      /\ x.IR0 \in 2 .. 5 => x.BASE + x.IR1 \in 0 .. M - 1
  <2>1. m.BASE = Base[f] /\ m.PC = s.PC /\ m.AC = s.AC
    BY DEF Holds
  <2> QED BY <1>1, <2>1, FetchFacts
<1>3. /\ Strays(f, s) => \/ ~({at, at + 1} \subseteq 0 .. M - 1)
                         \/ /\ {at, at + 1} \subseteq Segment(f)
                            /\ Base[f] + s.Mem[at + 1] \notin 0 .. M - 1
      /\ {at, at + 1} \subseteq Segment(f) /\ s.Mem[at] = 9 => s.Mem[at + 1] \in 0 .. 255
  BY DEF Disciplined
<1>4. {at, at + 1} \subseteq Segment(f) => x.IR0 = s.Mem[at] /\ x.IR1 = s.Mem[at + 1]
  BY <1>2 DEF Holds
<1> HIDE DEF at
<1>5. ASSUME Strays(f, s) PROVE FALSE
  <2>1. /\ {at, at + 1} \subseteq Segment(f)
        /\ Base[f] + s.Mem[at + 1] \notin 0 .. M - 1
    BY <1>2, <1>3, <1>5
  <2>2. s.Mem[at] \in 2 .. 5
    BY <1>5, <2>1 DEF Strays, at
  <2> QED BY <1>2, <1>4, <2>1, <2>2
<1>6. {at, at + 1} \subseteq Segment(f)
  <2>1. ~s.over
    BY DEF Holds
  <2> QED BY <1>5, <2>1 DEF Strays, at
<1> QED BY <1>2, <1>3, <1>4, <1>5, <1>6 DEF at

(* And execute it alike.                                                   *)
Stepped(f, m, x, y, s, s2) ==
  /\ x.IR0 \in 1 .. 9 => Holds(f, y, y.Mem, s2)
  /\ x.IR0 \notin 1 .. 9 => s2.over
  /\ x.IR0 = 7 => s2.out = Append(s.out, Shows("AC", <<m.AC>>))
  /\ x.IR0 = 9 =>
       /\ y.IR0 = 9 /\ y.IR1 \in 0 .. 255 /\ y.MBR = y.IR1
       /\ y.MAR = Base[f] + y.PC - 1 /\ y.PC = s.PC + 2 /\ y.AC = s.AC
       /\ s2.out = Append(s.out, Shown(f, [s EXCEPT !.PC = @ + 2], y.IR1))
  /\ x.IR0 \notin {7, 9} => s2.out = s.out

LEMMA StepSame ==
  ASSUME Disciplined(Nat), NEW f \in File \ Short, NEW n \in Nat, NEW s, s = Alone(f, n),
         NEW m \in Machine(M), ~Wild(m), Holds(f, m, m.Mem, s),
         NEW x, x = cpu_fetch_instruction(m), NEW y, y = cpu_execute_instruction(x),
         NEW s2, s2 = Alone(f, n + 1)
  PROVE  /\ Stepped(f, m, x, y, s, s2)
         /\ \A a \in 0 .. M - 1 : a \notin Segment(f) => y.Mem[a] = m.Mem[a]
<1> DEFINE at  == Base[f] + s.PC
           op  == s.Mem[at]
           arg == s.Mem[at + 1]
           w   == s.Mem[Base[f] + arg]
<1>1. f \in File /\ M \in Nat /\ s \in SoloState(f) /\ s2 = Onward(f, s)
  BY Constants, AloneFacts
<1>2. /\ x \in Machine(M) /\ x.BASE = Base[f] /\ x.PC = s.PC + 2 /\ x.AC = s.AC
      /\ x.Mem = m.Mem /\ x.IR0 = op /\ x.IR1 = arg /\ x.MAR = at + 1 /\ x.MBR = x.IR1
      /\ x.IR0 \in 2 .. 5 => x.BASE + x.IR1 \in 0 .. M - 1
      /\ x.IR0 = 9 => x.IR1 \in 0 .. 255
      /\ ~Strays(f, s)
  BY FetchSame
<1>3. ~s.over /\ m.AC = s.AC /\ \A a \in Segment(f) : m.Mem[a] = s.Mem[a]
  BY DEF Holds
<1>4. s2 = Instruct(f, s)
  BY <1>1, <1>2, <1>3 DEF Onward
<1>5. /\ op \in Int /\ (op \in 2 .. 5 => Base[f] + arg \in Segment(f))
      /\ s2 \in SoloState(f)
      /\ s2.over <=> op \notin 1 .. 9
      /\ s2.PC = IF op = 6 /\ s.AC > 0 THEN arg ELSE s.PC + 2
      /\ s2.AC = CASE op = 1 -> arg
                   [] op = 2 -> w
                   [] op = 3 -> Wrapped(s.AC + w)
                   [] op = 4 -> Wrapped(s.AC * w)
                   [] OTHER -> s.AC
      /\ s2.Mem = IF op = 5 THEN [s.Mem EXCEPT ![Base[f] + arg] = s.AC] ELSE s.Mem
      /\ s2.out = CASE op = 7 -> Append(s.out, Shows("AC", <<s.AC>>))
                    [] op = 9 -> Append(s.out, Shown(f, [s EXCEPT !.PC = @ + 2], arg))
                    [] OTHER -> s.out
  BY <1>1, <1>2, <1>3, <1>4, InstructFacts
<1> DEFINE v == x.Mem[x.BASE + x.IR1]
<1>6. /\ y \in Machine(M) /\ y.BASE = x.BASE
      /\ y.PC = IF x.IR0 = 6 /\ x.AC > 0 THEN x.IR1 ELSE x.PC
      /\ y.AC = CASE x.IR0 = 1 -> x.IR1
                  [] x.IR0 = 2 -> v
                  [] x.IR0 = 3 -> Wrapped(x.AC + v)
                  [] x.IR0 = 4 -> Wrapped(x.AC * v)
                  [] OTHER -> x.AC
      /\ y.Mem = IF x.IR0 = 5 THEN [x.Mem EXCEPT ![x.BASE + x.IR1] = x.AC] ELSE x.Mem
  BY <1>1, <1>2, ExecuteFacts
<1>7. op \in 2 .. 5 => v = w
  BY <1>2, <1>3, <1>5
<1>8. s.Mem \in [Segment(f) -> Word] /\ s.PC \in Int
  BY <1>1 DEF SoloState
<1>9. m.Mem \in [0 .. M - 1 -> Word]
  BY DEF Machine
<1>10. Segment(f) \subseteq 0 .. M - 1
  BY <1>1, FileFacts
<1> HIDE DEF at, op, arg, w, v
<1>11. y.PC = s2.PC
  BY <1>2, <1>5, <1>6
<1>12. y.AC = s2.AC
  <2>1. CASE op \in 2 .. 5
    BY <1>2, <1>5, <1>6, <1>7, <2>1
  <2>2. CASE op \notin 2 .. 5
    BY <1>2, <1>5, <1>6, <2>2
  <2> QED BY <2>1, <2>2
<1>13. \A a \in Segment(f) : y.Mem[a] = s2.Mem[a]
  <2>1. CASE op = 5
    <3> DEFINE b == Base[f] + arg
    <3>1. y.Mem = [m.Mem EXCEPT ![b] = s.AC] /\ s2.Mem = [s.Mem EXCEPT ![b] = s.AC]
      BY <1>2, <1>5, <1>6, <2>1
    <3> HIDE DEF b
    <3> QED BY <1>3, <1>8, <1>9, <1>10, <3>1
  <2>2. CASE op # 5
    BY <1>2, <1>3, <1>5, <1>6, <2>2
  <2> QED BY <2>1, <2>2
<1>14. \A a \in 0 .. M - 1 : a \notin Segment(f) => y.Mem[a] = m.Mem[a]
  BY <1>2, <1>5, <1>6, <1>9
<1>15. ASSUME x.IR0 = 9
       PROVE  /\ y.IR0 = 9 /\ y.IR1 \in 0 .. 255 /\ y.MBR = y.IR1
              /\ y.MAR = Base[f] + y.PC - 1 /\ y.PC = s.PC + 2 /\ y.AC = s.AC
              /\ s2.out = Append(s.out, Shown(f, [s EXCEPT !.PC = @ + 2], y.IR1))
  <2>1. y = x
    BY <1>15, ExecuteNothing
  <2>2. s2.out = Append(s.out, Shown(f, [s EXCEPT !.PC = @ + 2], arg))
    BY <1>2, <1>5, <1>15
  <2>3. y.MAR = Base[f] + y.PC - 1
    <3>1. Base[f] \in Int
      BY <1>1, FileFacts
    <3> QED BY <1>2, <1>8, <2>1, <3>1 DEF at
  <2> QED BY <1>2, <1>15, <2>1, <2>2, <2>3
<1>16. /\ x.IR0 = 7 => s2.out = Append(s.out, Shows("AC", <<m.AC>>))
       /\ x.IR0 \notin {7, 9} => s2.out = s.out
  <2>1. x.IR0 = op
    BY <1>2
  <2>2. ASSUME op = 7 PROVE s2.out = Append(s.out, Shows("AC", <<m.AC>>))
    BY <1>3, <1>5, <2>2
  <2>3. ASSUME op # 7, op # 9 PROVE s2.out = s.out
    BY <1>5, <2>3
  <2> QED BY <2>1, <2>2, <2>3
<1>17. x.IR0 \in 1 .. 9 => Holds(f, y, y.Mem, s2)
  BY <1>2, <1>5, <1>6, <1>11, <1>12, <1>13 DEF Holds
<1>18. x.IR0 \notin 1 .. 9 => s2.over
  BY <1>2, <1>5
<1> QED BY <1>14, <1>15, <1>16, <1>17, <1>18 DEF Stepped

(* The idle process loads 1 and jumps to itself.                           *)
IdleWords(mem) == mem[0] = 1 /\ mem[1] = 1 /\ mem[2] = 6 /\ mem[3] = 2
IdleAt(c) == c.BASE = 0 /\ (c.PC = 0 \/ (c.PC = 2 /\ c.AC = 1))

LEMMA IdleSame ==
  ASSUME NEW m \in Machine(M), ~Wild(m), IdleWords(m.Mem), IdleAt(m),
         NEW x, x = cpu_fetch_instruction(m), NEW y, y = cpu_execute_instruction(x)
  PROVE  x.IR0 \in {1, 6} /\ IdleAt(y) /\ y.Mem = m.Mem
<1>1. M \in Nat
  BY Constants
<1>2. /\ x \in Machine(M) /\ x.PC = m.PC + 2 /\ x.BASE = m.BASE /\ x.AC = m.AC
      /\ x.Mem = m.Mem /\ x.IR0 = m.Mem[m.BASE + m.PC] /\ x.IR1 = m.Mem[m.BASE + m.PC + 1]
      /\ (x.IR0 \in 2 .. 5 => x.BASE + x.IR1 \in 0 .. M - 1)
  BY <1>1, FetchFacts
<1>3. /\ y.BASE = x.BASE
      /\ y.PC = IF x.IR0 = 6 /\ x.AC > 0 THEN x.IR1 ELSE x.PC
      /\ y.AC = CASE x.IR0 = 1 -> x.IR1
                  [] x.IR0 = 2 -> x.Mem[x.BASE + x.IR1]
                  [] x.IR0 = 3 -> Wrapped(x.AC + x.Mem[x.BASE + x.IR1])
                  [] x.IR0 = 4 -> Wrapped(x.AC * x.Mem[x.BASE + x.IR1])
                  [] OTHER -> x.AC
      /\ y.Mem = IF x.IR0 = 5 THEN [x.Mem EXCEPT ![x.BASE + x.IR1] = x.AC] ELSE x.Mem
  BY <1>1, <1>2, ExecuteFacts
<1>4. CASE m.PC = 0
  <2>1. x.IR0 = 1 /\ x.IR1 = 1 /\ x.PC = 2
    BY <1>2, <1>4 DEF IdleWords, IdleAt
  <2>2. y.PC = 2 /\ y.AC = 1 /\ y.Mem = m.Mem /\ y.BASE = 0
    BY <1>2, <1>3, <2>1 DEF IdleAt
  <2> QED BY <2>1, <2>2 DEF IdleAt
<1>5. CASE m.PC = 2 /\ m.AC = 1
  <2>1. x.IR0 = 6 /\ x.IR1 = 2 /\ x.AC = 1
    BY <1>2, <1>5 DEF IdleWords, IdleAt
  <2>2. y.PC = 2 /\ y.AC = 1 /\ y.Mem = m.Mem /\ y.BASE = 0
    BY <1>2, <1>3, <2>1 DEF IdleAt
  <2> QED BY <2>1, <2>2 DEF IdleAt
<1> QED BY <1>4, <1>5 DEF IdleAt

-----------------------------------------------------------------------------
(* The invariant.  A process that prints text is at some point of its run; *)
(* in the middle of a shell instruction, with command k, it is past it, and*)
(* owes what the command shows.                                            *)
Follow(f, c, mem, text, n) ==
  Holds(f, c, mem, Alone(f, n)) /\ Common(text) = Common(Alone(f, n).out)

Registers(c) == Shows("registers", <<c.BASE, c.PC, c.IR0, c.IR1, c.AC, c.MAR, c.MBR>>)

Owes(f, c, mem, text, k, n) ==
  /\ Holds(f, c, mem, Alone(f, n + 1))
  /\ Common(text) = Common(Alone(f, n).out)
  /\ Common(Alone(f, n + 1).out) =
       CASE k = 2 -> Common(text) \o <<Registers(c)>>
         [] k = 3 -> Common(text) \o <<Shows("memory", <<>>)>>
         [] OTHER -> Common(text)

Tracked(f, c, mem, text, k, pending) ==
  IF pending THEN \E n \in Nat : Owes(f, c, mem, text, k, n)
             ELSE \E n \in Nat : Follow(f, c, mem, text, n)

Pending(p) == InCPU(p) /\ pc[Main] = "command"

ProcessInv(p) ==
  /\ program[p] \in File \ Short
  /\ spool[p] # NoFile =>
       /\ PCB[p].BASE = Base[program[p]]
       /\ Tracked(program[p], Context(p), cpu.Mem, spool[p], cmd[Main], Pending(p))

IdleInv == /\ IdleWords(cpu.Mem) /\ IdleAt(PCB[1])
           /\ Running /\ RUNNING_PCB = Idle => IdleAt(cpu)

(* No live process is where a program is about to be loaded, and no two    *)
(* programs are loaded, or two live processes are, in one place.           *)
NamesInv ==
  /\ \A t \in Thread, p \in Submitted :
       name[t] \in File /\ program[p] = name[t] => spool[p] = NoFile
  /\ name[Main] \in File => name[Shell] # name[Main]

ApartInv ==
  \A p, q \in Submitted :
    spool[p] # NoFile /\ spool[q] # NoFile /\ program[p] = program[q] => p = q

TextOf(f, message) ==
  \E n \in Nat : /\ Common(message.text) = Common(Alone(f, n).out)
                 /\ message.type = "END_SPOOL" => Alone(f, n).over

TextsInv ==
  \A k \in DOMAIN sent : sent[k].pid \in Submitted => TextOf(program[sent[k].pid], sent[k])

FollowInv ==
  /\ IdleInv /\ NamesInv /\ ApartInv /\ TextsInv
  /\ \A p \in Submitted : ProcessInv(p)

-----------------------------------------------------------------------------
(* What a step leaves alone.                                               *)
LEMMA TrackedStays ==
  ASSUME NEW f, NEW c, NEW mem, NEW text, NEW k, NEW pending, NEW c2, NEW mem2, NEW k2,
         Tracked(f, c, mem, text, k, pending),
         c2.BASE = c.BASE, c2.PC = c.PC, c2.AC = c.AC,
         \A a \in Segment(f) : mem2[a] = mem[a],
         pending => /\ k2 = k /\ c2.IR0 = c.IR0 /\ c2.IR1 = c.IR1 /\ c2.MAR = c.MAR
                    /\ c2.MBR = c.MBR
  PROVE  Tracked(f, c2, mem2, text, k2, pending)
<1>1. \A s : Holds(f, c, mem, s) => Holds(f, c2, mem2, s)
  BY DEF Holds
<1>2. CASE pending
  <2>1. k2 = k /\ Registers(c2) = Registers(c)
    BY <1>2 DEF Registers
  <2> QED BY <1>1, <1>2, <2>1 DEF Tracked, Owes
<1>3. CASE ~pending
  BY <1>1, <1>3 DEF Tracked, Follow
<1> QED BY <1>2, <1>3

(* A command that shows nothing is paid for by itself.                     *)
LEMMA TrackedPaid ==
  ASSUME NEW f, NEW c, NEW mem, NEW text, NEW k, NEW k2, k \notin {2, 3},
         Tracked(f, c, mem, text, k, TRUE)
  PROVE  Tracked(f, c, mem, text, k2, FALSE)
<1>1. PICK n \in Nat : Owes(f, c, mem, text, k, n)
  BY DEF Tracked
<1>2. n + 1 \in Nat /\ Follow(f, c, mem, text, n + 1)
  <2>1. k # 2 /\ k # 3
    OBVIOUS
  <2> QED BY <1>1, <2>1 DEF Owes, Follow
<1> QED BY <1>2 DEF Tracked

LEMMA TrackedBase ==
  ASSUME NEW f, NEW c, NEW mem, NEW text, NEW k, NEW pending,
         Tracked(f, c, mem, text, k, pending)
  PROVE  c.BASE = Base[f]
BY DEF Tracked, Owes, Follow, Holds

(* A process that is not in the middle of a command, before or after.      *)
LEMMA OneStays ==
  ASSUME NEW p, ProcessInv(p), program'[p] = program[p], ~Pending(p), ~Pending(p)',
         spool'[p] # NoFile =>
           /\ spool'[p] = spool[p] /\ PCB'[p].BASE = PCB[p].BASE
           /\ Context(p)'.BASE = Context(p).BASE /\ Context(p)'.PC = Context(p).PC
           /\ Context(p)'.AC = Context(p).AC
           /\ \A a \in Segment(program[p]) : cpu'.Mem[a] = cpu.Mem[a]
  PROVE  ProcessInv(p)'
<1> DEFINE f == program[p]
           c == Context(p)
           c2 == Context(p)'
           mem == cpu.Mem
           mem2 == cpu'.Mem
           text == spool[p]
           text2 == spool'[p]
           k == cmd[Main]
           k2 == cmd'[Main]
           pending == Pending(p)
           pending2 == Pending(p)'
<1>1. /\ f \in File \ Short /\ program'[p] = f
      /\ text # NoFile => PCB[p].BASE = Base[f] /\ Tracked(f, c, mem, text, k, pending)
  BY DEF ProcessInv
<1>2. text2 # NoFile =>
        /\ text2 = text /\ PCB'[p].BASE = PCB[p].BASE
        /\ c2.BASE = c.BASE /\ c2.PC = c.PC /\ c2.AC = c.AC
        /\ \A a \in Segment(f) : mem2[a] = mem[a]
  OBVIOUS
<1>3. pending = FALSE /\ pending2 = FALSE
  BY DEF Pending
<1>4. ASSUME f \in File \ Short, program'[p] = f,
             text2 # NoFile => PCB'[p].BASE = Base[f] /\ Tracked(f, c2, mem2, text2, k2, pending2)
      PROVE  ProcessInv(p)'
  BY <1>4 DEF ProcessInv
<1> HIDE DEF f, c, c2, mem, mem2, text, text2, k, k2, pending, pending2
<1>5. text2 # NoFile => PCB'[p].BASE = Base[f] /\ Tracked(f, c2, mem2, text2, k2, FALSE)
  <2> SUFFICES ASSUME text2 # NoFile
               PROVE  PCB'[p].BASE = Base[f] /\ Tracked(f, c2, mem2, text2, k2, FALSE)
    OBVIOUS
  <2>1. /\ text # NoFile /\ text2 = text /\ PCB'[p].BASE = Base[f]
        /\ c2.BASE = c.BASE /\ c2.PC = c.PC /\ c2.AC = c.AC
        /\ \A a \in Segment(f) : mem2[a] = mem[a]
    BY <1>1, <1>2
  <2>2. Tracked(f, c, mem, text, k, FALSE)
    BY <1>1, <1>3, <2>1
  <2>3. Tracked(f, c2, mem2, text, k2, FALSE)
    BY ONLY <2>1, <2>2, TrackedStays
  <2> QED BY <2>1, <2>3
<1>6. text2 # NoFile => PCB'[p].BASE = Base[f] /\ Tracked(f, c2, mem2, text2, k2, pending2)
  BY <1>3, <1>5
<1> QED BY <1>1, <1>4, <1>6

(* No process comes to life and no program is about to be loaded.          *)
LEMMA RestStays ==
  ASSUME FollowInv, UNCHANGED <<program, PROCESS_COUNT>>,
         \A p \in Submitted : spool[p] = NoFile => spool'[p] = NoFile,
         \A t \in Thread : name'[t] = name[t] \/ name'[t] = NoFile
  PROVE  NamesInv' /\ ApartInv' /\ (sent' = sent => TextsInv')
<1>1. NoFile \notin File
  BY Constants
<1>2. Submitted' = Submitted
  BY DEF Submitted
<1>3. NamesInv'
  BY <1>1, <1>2, Threads DEF FollowInv, NamesInv
<1>4. ApartInv'
  BY <1>2 DEF FollowInv, ApartInv
<1>5. sent' = sent => TextsInv'
  BY <1>2 DEF FollowInv, TextsInv
<1> QED BY <1>3, <1>4, <1>5

(* A step that moves no process and computes nothing.                      *)
Still ==
  /\ UNCHANGED <<cpu, PCB, spool, program, RUNNING_PCB, PROCESS_COUNT, sent>>
  /\ Running' <=> Running
  /\ pc'[Main] = "command" => pc[Main] = "command" /\ cmd'[Main] = cmd[Main]
  /\ pc[Main] = "command" /\ pc'[Main] # "command" => cmd[Main] \notin {2, 3}

LEMMA StillStep ==
  ASSUME FollowInv, Still
  PROVE  /\ IdleInv' /\ \A p \in Submitted' : ProcessInv(p)'
         /\ NamesInv' => FollowInv'
<1>1. IdleInv'
  BY DEF FollowInv, IdleInv, Still
<1>2. Submitted' = Submitted
  BY DEF Submitted, Still
<1>3. ASSUME NEW p \in Submitted PROVE ProcessInv(p)'
  <2>1. ProcessInv(p)
    BY DEF FollowInv
  <2>2. /\ InCPU(p)' <=> InCPU(p)
        /\ Context(p)' = Context(p)
        /\ cpu' = cpu /\ spool' = spool /\ program' = program /\ PCB' = PCB
    BY DEF Still, Context, InCPU
  <2>3. CASE Pending(p) /\ Pending(p)'
    <3>1. cmd'[Main] = cmd[Main]
      BY <2>3 DEF Still, Pending
    <3>2. Pending(p)' <=> Pending(p)
      BY <2>3
    <3> QED BY <2>1, <2>2, <2>3, <3>1, <3>2 DEF ProcessInv
  <2>4. CASE Pending(p) /\ ~Pending(p)'
    <3>1. cmd[Main] \notin {2, 3}
      BY <2>2, <2>4 DEF Still, Pending
    <3>2. spool[p] # NoFile =>
            Tracked(program[p], Context(p), cpu.Mem, spool[p], cmd'[Main], FALSE)
      <4> DEFINE c == Context(p)
      <4>1. spool[p] # NoFile => Tracked(program[p], c, cpu.Mem, spool[p], cmd[Main], TRUE)
        BY <2>1, <2>4 DEF ProcessInv
      <4> HIDE DEF c
      <4>2. spool[p] # NoFile => Tracked(program[p], c, cpu.Mem, spool[p], cmd'[Main], FALSE)
        BY <3>1, <4>1, TrackedPaid
      <4> QED BY <4>2 DEF c
    <3>3. Pending(p)' = FALSE
      BY <2>4 DEF Pending
    <3> QED BY <2>1, <2>2, <3>2, <3>3 DEF ProcessInv
  <2>5. CASE ~Pending(p) /\ ~Pending(p)'
    BY <2>1, <2>2, <2>5, OneStays
  <2>6. Pending(p)' => Pending(p)
    BY <2>2 DEF Still, Pending
  <2> QED BY <2>3, <2>4, <2>5, <2>6
<1>4. NamesInv' => FollowInv'
  <2>1. ApartInv' /\ TextsInv'
    BY <1>2 DEF FollowInv, ApartInv, TextsInv, Still
  <2> QED BY <1>1, <1>2, <1>3, <2>1 DEF FollowInv
<1> QED BY <1>1, <1>2, <1>3, <1>4


LEMMA StillMove ==
  ASSUME TInv, FollowInv, NEW t \in Thread, NEW a, NEW b \in PCs(t), Step(t, a, b),
         UNCHANGED <<cpu, PCB, spool, program, RUNNING_PCB, PROCESS_COUNT, sent>>,
         t = Main => /\ a \in OnCPU <=> b \in OnCPU
                     /\ b # "command" /\ (a = "command" => cmd[Main] \notin {2, 3}),
         t = Shell => cmd'[Main] = cmd[Main],
         NamesInv' \/ \A u \in Thread : name'[u] = name[u] \/ name'[u] = NoFile
  PROVE  FollowInv'
<1>1. /\ pc[t] = a /\ pc'[t] = b /\ \A u \in Thread : u # t => pc'[u] = pc[u]
  BY Steps DEF TInv, ControlOK
<1>2. /\ t = Main => pc[Main] = a /\ pc'[Main] = b
      /\ t = Shell => pc'[Main] = pc[Main]
      /\ t = Main \/ t = Shell
  BY <1>1, Threads
<1>3. Running' <=> Running
  BY <1>2 DEF Running, OnCPU
<1>4. Still
  BY <1>2, <1>3 DEF Still
<1>5. NamesInv'
  <2>1. UNCHANGED <<program, PROCESS_COUNT>> /\ spool' = spool
    OBVIOUS
  <2> QED BY <2>1, RestStays
<1> QED BY <1>4, <1>5, StillStep

(* The steps that do no more than that.                                    *)
LEMMA StillSteps ==
  ASSUME TInv, FollowInv,
         \/ Test \/ WaitTurn \/ Wake \/ EndTurn \/ Join \/ Prompt \/ GetLine \/ ShellWait
         \/ ShellPost \/ PrinterGone
  PROVE  FollowInv'
<1> USE Threads
<1>1. ASSUME Test PROVE FollowInv'
  <2> DEFINE b == IF TERMINATE THEN "join" ELSE "wait"
  <2>1. Step(Main, "test", b) /\ UNCHANGED calm
    BY <1>1 DEF Test
  <2>2. b \in PCs(Main) /\ b \in {"join", "wait"}
    BY Places
  <2> HIDE DEF b
  <2>3. b \notin OnCPU /\ b # "command" /\ "test" \notin OnCPU
    BY <2>2 DEF OnCPU
  <2> QED BY <2>1, <2>2, <2>3, StillMove DEF calm, request, procs, table, output
<1>2. ASSUME WaitTurn PROVE FollowInv'
  <2>1. Step(Main, "wait", "pick") /\ UNCHANGED calm
    BY <1>2 DEF WaitTurn
  <2>2. "pick" \in PCs(Main) /\ "pick" \notin OnCPU /\ "wait" \notin OnCPU
    BY Places DEF OnCPU
  <2> QED BY <2>1, <2>2, StillMove DEF calm, request, procs, table, output
<1>3. ASSUME Wake PROVE FollowInv'
  <2> DEFINE b == Return(Main)
  <2>1. Step(Main, "asleep", b) /\ UNCHANGED calm
    BY <1>3 DEF Wake
  <2>2. b \in PCs(Main) /\ b \in {"expired", "run"}
    BY Returns
  <2> HIDE DEF b
  <2>3. b \in OnCPU /\ b # "command" /\ "asleep" \in OnCPU
    BY <2>2 DEF OnCPU
  <2> QED BY <2>1, <2>2, <2>3, StillMove DEF calm, request, procs, table, output
<1>4. ASSUME EndTurn PROVE FollowInv'
  <2>1. Step(Main, "post", "test") /\ UNCHANGED calm
    BY <1>4 DEF EndTurn
  <2>2. "test" \in PCs(Main) /\ "test" \notin OnCPU /\ "post" \notin OnCPU
    BY Places DEF OnCPU
  <2> QED BY <2>1, <2>2, StillMove DEF calm, request, procs, table, output
<1>5. ASSUME Join PROVE FollowInv'
  <2>1. Step(Main, "join", "poweroff") /\ UNCHANGED calm
    BY <1>5 DEF Join
  <2>2. "poweroff" \in PCs(Main) /\ "poweroff" \notin OnCPU /\ "join" \notin OnCPU
    BY Places DEF OnCPU
  <2> QED BY <2>1, <2>2, StillMove DEF calm, request, procs, table, output
<1>6. ASSUME Prompt PROVE FollowInv'
  <2> DEFINE b == IF TERMINATE THEN "ended" ELSE "getline"
  <2>1. Step(Shell, "prompt", b) /\ UNCHANGED calm
    BY <1>6 DEF Prompt
  <2>2. b \in PCs(Shell)
    BY Places
  <2> HIDE DEF b
  <2> QED BY <2>1, <2>2, StillMove DEF calm, request, procs, table, output
<1>7. ASSUME GetLine PROVE FollowInv'
  <2>1. PICK b \in {"prompt", "wait"} : Step(Shell, "getline", b)
    BY <1>7 DEF GetLine
  <2>2. UNCHANGED <<name, procs, cpu, output>>
    BY <1>7 DEF GetLine
  <2>3. cmd'[Main] = cmd[Main]
    <3>1. \/ cmd' = cmd \/ \E x : cmd' = [cmd EXCEPT ![Shell] = x]
      BY <1>7 DEF GetLine
    <3> QED BY <3>1 DEF TInv, ControlOK
  <2>4. b \in PCs(Shell)
    BY Places
  <2> QED BY <2>1, <2>2, <2>3, <2>4, StillMove DEF procs, table, output
<1>8. ASSUME ShellWait PROVE FollowInv'
  <2>1. Step(Shell, "wait", "command") /\ UNCHANGED calm
    BY <1>8 DEF ShellWait
  <2>2. "command" \in PCs(Shell)
    BY Places
  <2> QED BY <2>1, <2>2, StillMove DEF calm, request, procs, table, output
<1>9. ASSUME ShellPost PROVE FollowInv'
  <2>1. Step(Shell, "post", "prompt") /\ UNCHANGED calm
    BY <1>9 DEF ShellPost
  <2>2. "prompt" \in PCs(Shell)
    BY Places
  <2> QED BY <2>1, <2>2, StillMove DEF calm, request, procs, table, output
<1>10. ASSUME PrinterGone PROVE FollowInv'
  <2>1. UNCHANGED <<pc, request, procs, cpu, output>>
    BY <1>10 DEF PrinterGone
  <2>2. Still
    BY <2>1 DEF Still, Running, request, procs, table, output
  <2>3. NamesInv'
    BY <2>1, RestStays DEF request, procs, table, output
  <2> QED BY <2>2, <2>3, StillStep
<1> QED BY <1>1, <1>2, <1>3, <1>4, <1>5, <1>6, <1>7, <1>8, <1>9, <1>10

LEMMA StillCommand ==
  ASSUME TInv, FollowInv, NEW t \in Thread, NEW a \in OnCPU, NEW b \in PCs(t), Step(t, a, b),
         UNCHANGED <<cmd, cpu, PCB, spool, program, RUNNING_PCB, PROCESS_COUNT, sent>>,
         a = "command" => cmd[t] \notin {2, 3}, t = Main => b \in OnCPU /\ b # "command",
         NamesInv' \/ \A u \in Thread : name'[u] = name[u] \/ name'[u] = NoFile
  PROVE  FollowInv'
<1>1. /\ t = Main => /\ a \in OnCPU <=> b \in OnCPU
                     /\ b # "command" /\ (a = "command" => cmd[Main] \notin {2, 3})
      /\ t = Shell => cmd'[Main] = cmd[Main]
  OBVIOUS
<1>2. UNCHANGED <<cpu, PCB, spool, program, RUNNING_PCB, PROCESS_COUNT, sent>>
  OBVIOUS
<1> QED BY <1>1, <1>2, StillMove

LEMMA SubmittedFacts ==
  ASSUME TInv
  PROVE  Submitted \subseteq PID /\ Submitted \subseteq Process /\ 1 \notin Submitted
<1>1. PROCESS_COUNT \in 2 .. MaxPID + 1
  BY DEF TInv, TableOK
<1>2. Submitted \subseteq PID /\ 1 \notin Submitted
  BY <1>1, Constants DEF Submitted, PID
<1> QED BY <1>2, Constants

LEMMA StillCommands ==
  ASSUME TInv, FollowInv, NEW t \in Thread,
         Terminate(t) \/ DumpSpool(t) \/ LoadPrompt(t) \/ LoadName(t) \/ NoLoad(t)
  PROVE  FollowInv'
<1> DEFINE r == Return(t)
           same == UNCHANGED <<cmd, cpu, PCB, spool, program, RUNNING_PCB, PROCESS_COUNT, sent>>
<1>0. /\ r \in PCs(t) /\ (t = Main => r \in OnCPU /\ r # "command")
      /\ {"name", "load", "noload"} \subseteq PCs(t)
      /\ {"command", "name", "load", "noload"} \subseteq OnCPU
  <2>1. {"name", "load", "noload"} \subseteq PCs(t)
    BY Threads, Places
  <2> QED BY <2>1, Returns DEF OnCPU
<1> HIDE DEF r
<1>1. ASSUME Terminate(t) PROVE FollowInv'
  <2>1. Step(t, "command", r) /\ cmd[t] = 0 /\ UNCHANGED calm
    BY <1>1 DEF Terminate, r
  <2>2. same /\ name' = name
    BY <2>1 DEF calm, request, procs, table, output
  <2> QED BY <1>0, <2>1, <2>2, StillCommand
<1>2. ASSUME DumpSpool(t) PROVE FollowInv'
  <2>1. Step(t, "command", r) /\ cmd[t] = 6 /\ UNCHANGED <<request, procs, cpu, output>>
    BY <1>2 DEF DumpSpool, r
  <2>2. same /\ name' = name
    BY <2>1 DEF request, procs, table, output
  <2> QED BY <1>0, <2>1, <2>2, StillCommand
<1>3. ASSUME LoadPrompt(t) PROVE FollowInv'
  <2>1. Step(t, "command", "name") /\ cmd[t] = 1 /\ UNCHANGED calm
    BY <1>3 DEF LoadPrompt
  <2>2. same /\ name' = name
    BY <2>1 DEF calm, request, procs, table, output
  <2> QED BY <1>0, <2>1, <2>2, StillCommand
<1>4. ASSUME LoadName(t) PROVE FollowInv'
  <2>1. PICK b \in {"load", "noload", r} : Step(t, "name", b)
    BY <1>4 DEF LoadName, r
  <2>2. UNCHANGED <<cmd, procs, cpu, output>>
    BY <1>4 DEF LoadName
  <2>3. NamesInv' \/ name' = name
    <3>1. \/ name' = name
          \/ \E f \in File : Vacant(f) /\ name' = [name EXCEPT ![t] = f]
      BY <1>4 DEF LoadName
    <3>2. ASSUME NEW f \in File, Vacant(f), name' = [name EXCEPT ![t] = f] PROVE NamesInv'
      <4>1. name'[t] = f /\ \A u \in Thread : u # t => name'[u] = name[u]
        BY <3>2 DEF TInv, ControlOK
      <4>2. /\ Submitted \subseteq PID /\ Submitted' = Submitted
            /\ program' = program /\ spool' = spool
        BY <2>2, SubmittedFacts DEF Submitted, procs, table, output
      <4>3. /\ \A q \in Submitted : program[q] = f => spool[q] = NoFile
            /\ \A u \in Thread : name[u] # f
        BY <3>2, <4>2 DEF Vacant
      <4>4. /\ \A u \in Thread, q \in Submitted :
                 name[u] \in File /\ program[q] = name[u] => spool[q] = NoFile
            /\ name[Main] \in File => name[Shell] # name[Main]
        BY DEF FollowInv, NamesInv
      <4>5. ASSUME NEW u \in Thread, NEW q \in Submitted, name'[u] \in File,
                   program'[q] = name'[u]
            PROVE  spool'[q] = NoFile
        <5>1. CASE u = t
          BY <4>1, <4>2, <4>3, <4>5, <5>1
        <5>2. CASE u # t
          BY <4>1, <4>2, <4>4, <4>5, <5>2
        <5> QED BY <5>1, <5>2
      <4>6. name'[Main] \in File => name'[Shell] # name'[Main]
        BY <4>1, <4>3, <4>4, Threads
      <4> QED BY <4>2, <4>5, <4>6 DEF NamesInv
    <3> QED BY <3>1, <3>2
  <2>4. same
    BY <2>2 DEF procs, table, output
  <2>5. b \in PCs(t) /\ (t = Main => b \in OnCPU /\ b # "command")
    BY <1>0
  <2> QED BY <1>0, <2>1, <2>3, <2>4, <2>5, StillCommand
<1>5. ASSUME NoLoad(t) PROVE FollowInv'
  <2>1. PICK a \in {"load", "noload"} : Step(t, a, r)
    BY <1>5 DEF NoLoad, r
  <2>2. UNCHANGED <<cmd, procs, cpu, output>> /\ name' = [name EXCEPT ![t] = NoFile]
    BY <1>5 DEF NoLoad
  <2>3. \A u \in Thread : name'[u] = name[u] \/ name'[u] = NoFile
    BY <2>2 DEF TInv, ControlOK
  <2>4. a \in OnCPU /\ a # "command"
    BY <1>0
  <2>5. same
    BY <2>2 DEF procs, table, output
  <2> QED BY <1>0, <2>1, <2>3, <2>4, <2>5, StillCommand
<1> QED BY <1>1, <1>2, <1>3, <1>4, <1>5

-----------------------------------------------------------------------------
(* Whose turn it is.                                                       *)
LEMMA Runner ==
  ASSUME TInv, PlacesInv, status = "running", pc[Main] \in OnCPU
  PROVE  /\ \A p \in Submitted : InCPU(p) <=> RUNNING_PCB # Idle /\ p = RUNNING_PCB.pid
         /\ RUNNING_PCB # Idle => /\ RUNNING_PCB.pid \in Submitted
                                  /\ spool[RUNNING_PCB.pid] # NoFile
         /\ Submitted \subseteq PID /\ Submitted \subseteq Process /\ 1 \notin Submitted
<1>1. Running
  BY DEF Running, OnCPU
<1>2. PlacesOnce
  BY DEF PlacesInv, Alive, OnCPU
<1>3. RUNNING_PCB \in Pointer /\ PROCESS_COUNT \in 2 .. MaxPID + 1
  BY DEF TInv, TableOK
<1>4. Submitted \subseteq PID /\ Submitted \subseteq Process /\ 1 \notin Submitted
  BY <1>3, Constants DEF Submitted, PID
<1>5. RUNNING_PCB # Idle => /\ RUNNING_PCB.pid \in Submitted
                            /\ spool[RUNNING_PCB.pid] # NoFile
  BY <1>2 DEF PlacesOnce, OnceAt, Busy, Submitted
<1>6. \A p \in Submitted : InCPU(p) <=> RUNNING_PCB # Idle /\ p = RUNNING_PCB.pid
  BY <1>1, <1>4, Pointers DEF InCPU
<1> QED BY <1>4, <1>5, <1>6

(* A process that is not in the CPU, before or after.                      *)
LEMMA AwayStays ==
  ASSUME NEW p, ProcessInv(p), ~InCPU(p), ~InCPU(p)', program'[p] = program[p],
         spool'[p] # NoFile =>
           /\ spool'[p] = spool[p] /\ PCB'[p] = PCB[p]
           /\ \A a \in Segment(program[p]) : cpu'.Mem[a] = cpu.Mem[a]
  PROVE  ProcessInv(p)'
<1>1. Context(p) = PCB[p] /\ Context(p)' = PCB'[p]
  BY DEF Context
<1>2. ~Pending(p) /\ ~Pending(p)'
  BY DEF Pending
<1> QED BY <1>1, <1>2, OneStays

(* The next instruction, x before and y after it is executed, of a process *)
(* that is at point n of its run.                                          *)
Advanced(f, text, m, x, y, n) ==
  /\ Common(text) = Common(Alone(f, n).out)
  /\ Stepped(f, m, x, y, Alone(f, n), Alone(f, n + 1))

LEMMA FollowAdvances ==
  ASSUME Disciplined(Nat), NEW f \in File \ Short, NEW text, NEW n \in Nat,
         NEW m \in Machine(M), ~Wild(m), Follow(f, m, m.Mem, text, n),
         NEW x, x = cpu_fetch_instruction(m), NEW y, y = cpu_execute_instruction(x)
  PROVE  /\ Advanced(f, text, m, x, y, n)
         /\ \A a \in 0 .. M - 1 : a \notin Segment(f) => y.Mem[a] = m.Mem[a]
<1>1. PICK s : s = Alone(f, n)
  OBVIOUS
<1>2. PICK s2 : s2 = Alone(f, n + 1)
  OBVIOUS
<1>3. Holds(f, m, m.Mem, s) /\ Common(text) = Common(s.out)
  BY <1>1 DEF Follow
<1>4. /\ Stepped(f, m, x, y, s, s2)
      /\ \A a \in 0 .. M - 1 : a \notin Segment(f) => y.Mem[a] = m.Mem[a]
  BY <1>1, <1>2, <1>3, StepSame
<1> QED BY <1>1, <1>2, <1>3, <1>4 DEF Advanced

(* The idle process, and the words nobody writes.                          *)
LEMMA FetchIdle ==
  ASSUME TInv, FollowInv, NEW codes, NEW b, Fetch(codes, b), RUNNING_PCB = Idle
  PROVE  /\ cpu'.Mem = cpu.Mem /\ IdleAt(cpu') /\ codes \intersect {1, 6} # {}
<1>1. /\ pc[Main] = "run" /\ ~Wild(cpu) /\ cpu \in Machine(M)
      /\ cpu' = cpu_execute_instruction(cpu_fetch_instruction(cpu))
      /\ cpu_fetch_instruction(cpu).IR0 \in codes
  BY DEF Fetch, Step, TInv
<1>2. IdleWords(cpu.Mem) /\ IdleAt(cpu)
  BY <1>1 DEF FollowInv, IdleInv, Running
<1>3. PICK x : x = cpu_fetch_instruction(cpu)
  OBVIOUS
<1>4. x.IR0 \in {1, 6} /\ IdleAt(cpu') /\ cpu'.Mem = cpu.Mem
  BY <1>1, <1>2, <1>3, IdleSame
<1> QED BY <1>1, <1>3, <1>4

LEMMA FetchRun ==
  ASSUME Disciplined(Nat), TInv, PlacesInv, FollowInv, NEW codes, NEW b, Fetch(codes, b),
         NEW p, p = RUNNING_PCB.pid, RUNNING_PCB # Idle
  PROVE  /\ p \in Submitted /\ spool[p] # NoFile /\ InCPU(p)
         /\ program[p] \in File \ Short /\ PCB[p].BASE = Base[program[p]]
         /\ cpu_fetch_instruction(cpu).IR0 \in codes
         /\ \E n \in Nat : Advanced(program[p], spool[p], cpu, cpu_fetch_instruction(cpu), cpu', n)
         /\ \A a \in 0 .. M - 1 : a \notin Segment(program[p]) => cpu'.Mem[a] = cpu.Mem[a]
<1>1. /\ pc[Main] = "run" /\ status = "running" /\ ~Wild(cpu) /\ cpu \in Machine(M)
      /\ cpu' = cpu_execute_instruction(cpu_fetch_instruction(cpu))
      /\ cpu_fetch_instruction(cpu).IR0 \in codes
  BY DEF Fetch, Step, TInv
<1>2. p \in Submitted /\ spool[p] # NoFile /\ InCPU(p)
  BY <1>1, Runner DEF OnCPU
<1>3. ProcessInv(p) /\ Context(p) = cpu /\ Pending(p) = FALSE
  BY <1>1, <1>2 DEF FollowInv, Context, Pending
<1>4. /\ program[p] \in File \ Short /\ PCB[p].BASE = Base[program[p]]
      /\ Tracked(program[p], cpu, cpu.Mem, spool[p], cmd[Main], FALSE)
  BY <1>2, <1>3 DEF ProcessInv
<1>5. PICK n \in Nat : Follow(program[p], cpu, cpu.Mem, spool[p], n)
  BY <1>4 DEF Tracked
<1>6. PICK x : x = cpu_fetch_instruction(cpu)
  OBVIOUS
<1>7. PICK y : y = cpu'
  OBVIOUS
<1>8. /\ Advanced(program[p], spool[p], cpu, x, y, n)
      /\ \A a \in 0 .. M - 1 : a \notin Segment(program[p]) => y.Mem[a] = cpu.Mem[a]
  BY <1>1, <1>4, <1>5, <1>6, <1>7, FollowAdvances
<1> QED BY <1>1, <1>2, <1>4, <1>6, <1>7, <1>8

(* The others do not notice.                                               *)
LEMMA FetchOthers ==
  ASSUME Disciplined(Nat), TInv, PlacesInv, FollowInv, NEW codes, NEW b, Fetch(codes, b),
         UNCHANGED <<name, program, RUNNING_PCB, PROCESS_COUNT>>,
         \A q \in Process : q # RUNNING_PCB.pid => spool'[q] = spool[q] /\ PCB'[q] = PCB[q],
         RUNNING_PCB = Idle => PCB'[1] = PCB[1],
         \A q \in Submitted : spool[q] = NoFile => spool'[q] = NoFile
  PROVE  /\ IdleInv' /\ NamesInv' /\ ApartInv' /\ (sent' = sent => TextsInv')
         /\ Submitted' = Submitted
         /\ \A q \in Submitted : q # RUNNING_PCB.pid => ProcessInv(q)'
<1>1. /\ pc[Main] = "run" /\ status = "running" /\ Running /\ Submitted' = Submitted
      /\ Submitted \subseteq Process /\ 1 \notin Submitted /\ 1 \in Process
  BY Runner, Constants DEF Fetch, Step, OnCPU, Running, Submitted
<1>2. ASSUME NEW q \in Submitted, q # RUNNING_PCB.pid, spool[q] # NoFile
      PROVE  \A a \in Segment(program[q]) : cpu'.Mem[a] = cpu.Mem[a]
  <2>1. CASE RUNNING_PCB = Idle
    BY <2>1, FetchIdle
  <2>2. CASE RUNNING_PCB # Idle
    <3> DEFINE p == RUNNING_PCB.pid
    <3>1. /\ p \in Submitted /\ spool[p] # NoFile /\ program[p] \in File \ Short
          /\ \A a \in 0 .. M - 1 : a \notin Segment(program[p]) => cpu'.Mem[a] = cpu.Mem[a]
      BY <2>2, FetchRun
    <3>2. program[q] # program[p] /\ program[q] \in File
      BY <1>2, <3>1 DEF FollowInv, ApartInv, ProcessInv
    <3>3. /\ Segment(program[q]) \subseteq 0 .. M - 1
          /\ Segment(program[q]) \intersect Segment(program[p]) = {}
      BY <3>1, <3>2, FileFacts
    <3> HIDE DEF p
    <3> QED BY <3>1, <3>3
  <2> QED BY <2>1, <2>2
<1>3. ASSUME NEW q \in Submitted, q # RUNNING_PCB.pid PROVE ProcessInv(q)'
  <2>1. ProcessInv(q) /\ ~InCPU(q) /\ ~InCPU(q)' /\ program'[q] = program[q]
    BY <1>3 DEF FollowInv, InCPU
  <2>2. spool'[q] = spool[q] /\ PCB'[q] = PCB[q]
    BY <1>1, <1>3
  <2> QED BY <1>2, <1>3, <2>1, <2>2, AwayStays
<1>4. IdleWords(cpu'.Mem)
  <2>1. IdleWords(cpu.Mem)
    BY DEF FollowInv, IdleInv
  <2>2. CASE RUNNING_PCB = Idle
    BY <2>1, <2>2, FetchIdle
  <2>3. CASE RUNNING_PCB # Idle
    <3> DEFINE p == RUNNING_PCB.pid
    <3>1. /\ program[p] \in File
          /\ \A a \in 0 .. M - 1 : a \notin Segment(program[p]) => cpu'.Mem[a] = cpu.Mem[a]
      BY <2>3, FetchRun
    <3>2. \A a \in 0 .. 3 : a \notin Segment(program[p])
      BY <3>1, FileFacts
    <3>3. 0 .. 3 \subseteq 0 .. M - 1
      <4>1. Len(PROG_IDLE) = 4
        BY DEF PROG_IDLE
      <4> QED BY <4>1, ComputerAssumption
    <3> HIDE DEF p
    <3>4. \A a \in 0 .. 3 : cpu'.Mem[a] = cpu.Mem[a]
      BY <3>1, <3>2, <3>3
    <3> QED BY <2>1, <3>4 DEF IdleWords
  <2> QED BY <2>2, <2>3
<1>5. IdleInv'
  <2>1. IdleAt(PCB'[1])
    <3>1. PCB'[1] = PCB[1]
      <4>1. RUNNING_PCB # Idle => RUNNING_PCB.pid # 1
        BY <1>1, Runner DEF OnCPU
      <4> QED BY <1>1, <4>1
    <3> QED BY <3>1 DEF FollowInv, IdleInv
  <2>2. RUNNING_PCB' = Idle => IdleAt(cpu')
    BY FetchIdle
  <2> QED BY <1>4, <2>1, <2>2 DEF IdleInv
<1>6. NamesInv' /\ ApartInv' /\ (sent' = sent => TextsInv')
  BY RestStays
<1> QED BY <1>1, <1>3, <1>5, <1>6

LEMMA FollowBack ==
  ASSUME IdleInv', NamesInv', ApartInv', TextsInv', Submitted' = Submitted,
         NEW r, \A q \in Submitted : q # r => ProcessInv(q)',
         \A q \in Submitted : q = r => ProcessInv(q)'
  PROVE  FollowInv'
BY DEF FollowInv

(* The runner is at point n of its run, in the CPU.                        *)
LEMMA RunnerFollows ==
  ASSUME NEW p, InCPU(p)', pc'[Main] # "command", program'[p] = program[p],
         program[p] \in File \ Short,
         PCB'[p].BASE = Base[program[p]], NEW n \in Nat,
         Follow(program[p], cpu', cpu'.Mem, spool'[p], n)
  PROVE  ProcessInv(p)'
<1>1. Context(p)' = cpu' /\ Pending(p)' = FALSE
  BY DEF Context, Pending
<1>2. Tracked(program[p], cpu', cpu'.Mem, spool'[p], cmd'[Main], FALSE)
  BY DEF Tracked
<1> QED BY <1>1, <1>2 DEF ProcessInv

(* Where the runner is after an instruction that gives the CPU to nobody.  *)
LEMMA StillRuns ==
  ASSUME TInv, NEW codes, NEW b \in OnCPU, Fetch(codes, b), UNCHANGED RUNNING_PCB
  PROVE  /\ pc'[Main] = b /\ \A p : InCPU(p) => InCPU(p)'
         /\ AfterFetch \in OnCPU /\ AfterFetch # "command"
<1>1. b \in PCs(Main) /\ Main \in Thread
  BY Places, Threads DEF OnCPU
<1>2. Step(Main, "run", b) /\ PcOK
  BY DEF Fetch, TInv, ControlOK
<1>3. pc'[Main] = b /\ pc[Main] = "run"
  BY <1>1, <1>2, Steps
<1>4. AfterFetch \in OnCPU /\ AfterFetch # "command"
  BY DEF AfterFetch, OnCPU
<1> QED BY <1>3, <1>4 DEF InCPU, Running, OnCPU

LEMMA ComputeFollows ==
  ASSUME Disciplined(Nat), TInv, PlacesInv, FollowInv, Compute \/ Sleep
  PROVE  FollowInv'
<1>1. PICK codes \in {1 .. 6, {8}}, b \in OnCPU : b # "command" /\ Fetch(codes, b)
  <2>1. AfterFetch \in OnCPU /\ AfterFetch # "command" /\ "asleep" \in OnCPU
    BY DEF AfterFetch, OnCPU
  <2> QED BY <2>1 DEF Compute, Sleep
<1>2. UNCHANGED <<name, procs, output>>
  BY DEF Compute, Sleep, request
<1>3. /\ UNCHANGED <<name, program, RUNNING_PCB, PROCESS_COUNT, PCB, spool, sent>>
  BY <1>2 DEF procs, table, output
<1>4. /\ IdleInv' /\ NamesInv' /\ ApartInv' /\ TextsInv' /\ Submitted' = Submitted
      /\ \A q \in Submitted : q # RUNNING_PCB.pid => ProcessInv(q)'
  BY <1>1, <1>3, FetchOthers
<1>5. ASSUME NEW p \in Submitted, p = RUNNING_PCB.pid PROVE ProcessInv(p)'
  <2>1. RUNNING_PCB # Idle
    <3>1. pc[Main] = "run" /\ status = "running"
      BY <1>1 DEF Fetch, Step
    <3>2. 1 \notin Submitted
      BY <3>1, Runner DEF OnCPU
    <3> QED BY <1>5, <3>2, Pointers
  <2>2. PICK x : x = cpu_fetch_instruction(cpu)
    OBVIOUS
  <2>3. /\ InCPU(p) /\ program[p] \in File \ Short /\ PCB[p].BASE = Base[program[p]]
        /\ x.IR0 \in codes
        /\ \E n \in Nat : Advanced(program[p], spool[p], cpu, x, cpu', n)
    BY <1>1, <1>5, <2>1, <2>2, FetchRun
  <2>4. PICK n \in Nat : Advanced(program[p], spool[p], cpu, x, cpu', n)
    BY <2>3
  <2>5. x.IR0 \in 1 .. 9 /\ x.IR0 \notin {7, 9}
    BY <1>1, <2>3
  <2>6. n + 1 \in Nat /\ Follow(program[p], cpu', cpu'.Mem, spool'[p], n + 1)
    BY <1>3, <2>4, <2>5 DEF Advanced, Stepped, Follow
  <2>7. InCPU(p)' /\ pc'[Main] # "command"
    BY <1>1, <1>3, <2>3, StillRuns
  <2>8. program'[p] = program[p] /\ PCB'[p].BASE = Base[program[p]]
    BY <1>3, <2>3
  <2> QED BY <2>3, <2>6, <2>7, <2>8, RunnerFollows
<1> QED BY <1>4, <1>5, FollowBack

(* One line more in the runner's spool file.                               *)
LEMMA PrintedText ==
  ASSUME OutputOK, NEW p \in Process, spool[p] # NoFile, NEW x \in LineOfOutput,
         spool' = Printed(p, x)
  PROVE  /\ x.what \in Shared => Common(spool'[p]) = Common(spool[p]) \o <<x>>
         /\ x.what \notin Shared => Common(spool'[p]) = Common(spool[p])
<1>1. spool \in [Process -> Output \union {NoFile}]
  BY DEF OutputOK
<1>2. spool[p] \in Seq(LineOfOutput)
  BY <1>1 DEF Output, LineOfOutput, What
<1>3. spool'[p] = Append(spool[p], x)
  BY <1>1 DEF Printed
<1>4. PICK text : text = spool[p]
  OBVIOUS
<1>5. PICK longer : longer = spool'[p]
  OBVIOUS
<1>6. text \in Seq(LineOfOutput) /\ longer = Append(text, x)
  BY <1>2, <1>3, <1>4, <1>5
<1>7. /\ x.what \in Shared => Common(longer) = Common(text) \o <<x>>
      /\ x.what \notin Shared => Common(longer) = Common(text)
  BY <1>6, CommonShown
<1> QED BY <1>4, <1>5, <1>7

LEMMA PrintACFollows ==
  ASSUME Disciplined(Nat), TInv, PlacesInv, FollowInv, PrintAC
  PROVE  FollowInv'
<1> DEFINE x == Shows("AC", <<cpu.AC>>)
<1>0. PICK p : p = RUNNING_PCB.pid
  OBVIOUS
<1>1. Fetch({7}, AfterFetch) /\ AfterFetch \in OnCPU /\ AfterFetch # "command"
  BY DEF PrintAC, AfterFetch, OnCPU
<1>2. /\ UNCHANGED <<name, program, RUNNING_PCB, PROCESS_COUNT, PCB, sent>>
      /\ spool' = Printed(p, x)
  BY <1>0 DEF PrintAC, request, procs, table
<1>3. p \in Process /\ OutputOK /\ x \in LineOfOutput /\ x.what \in Shared
  <2>1. p \in Process
    BY <1>0, Pointers DEF TInv, TableOK
  <2>2. x \in LineOfOutput
    BY Lines DEF TInv
  <2> QED BY <2>1, <2>2 DEF TInv, Shows, Shared
<1>4. RUNNING_PCB # Idle
  BY <1>1, FetchIdle
<1>5. PICK y : y = cpu_fetch_instruction(cpu)
  OBVIOUS
<1>6. /\ p \in Submitted /\ spool[p] # NoFile /\ InCPU(p)
      /\ program[p] \in File \ Short /\ PCB[p].BASE = Base[program[p]]
      /\ y.IR0 = 7
      /\ \E n \in Nat : Advanced(program[p], spool[p], cpu, y, cpu', n)
  BY <1>0, <1>1, <1>4, <1>5, FetchRun
<1> HIDE DEF x
<1>7. \A q \in Process : q # p => spool'[q] = spool[q]
  BY <1>2, <1>3, PrintedFacts
<1>8. \A q \in Submitted : spool[q] = NoFile => spool'[q] = NoFile
  <2>1. Submitted \subseteq Process
    BY <1>1, Runner DEF Fetch, Step, OnCPU
  <2> QED BY <1>6, <1>7, <2>1
<1>9. /\ IdleInv' /\ NamesInv' /\ ApartInv' /\ TextsInv' /\ Submitted' = Submitted
      /\ \A q \in Submitted : q # p => ProcessInv(q)'
  BY <1>0, <1>1, <1>2, <1>4, <1>7, <1>8, FetchOthers
<1>10. ProcessInv(p)'
  <2>1. PICK n \in Nat : Advanced(program[p], spool[p], cpu, y, cpu', n)
    BY <1>6
  <2>2. PICK s : s = Alone(program[p], n)
    OBVIOUS
  <2>3. PICK s2 : s2 = Alone(program[p], n + 1)
    OBVIOUS
  <2>4. /\ Common(spool[p]) = Common(s.out) /\ s2.out = Append(s.out, x)
        /\ Holds(program[p], cpu', cpu'.Mem, s2)
    BY <1>6, <2>1, <2>2, <2>3 DEF Advanced, Stepped, x
  <2>5. Common(spool'[p]) = Common(spool[p]) \o <<x>>
    BY <1>2, <1>3, <1>6, PrintedText
  <2>6. Common(s2.out) = Common(s.out) \o <<x>>
    <3>1. s.out \in Seq(Sheet)
      BY <1>6, <2>2, AloneFacts DEF SoloState
    <3>2. x \in Sheet
      BY <1>3 DEF LineOfOutput, Sheet, Shared, x, Shows
    <3>3. PICK out : out = s.out
      OBVIOUS
    <3>4. PICK longer : longer = s2.out
      OBVIOUS
    <3>5. out \in Seq(Sheet) /\ longer = Append(out, x)
      BY <2>4, <3>1, <3>3, <3>4
    <3>6. /\ x.what \in Shared => Common(longer) = Common(out) \o <<x>>
          /\ x.what \notin Shared => Common(longer) = Common(out)
      BY <3>2, <3>5, CommonShown
    <3> QED BY <1>3, <3>3, <3>4, <3>6
  <2>7. n + 1 \in Nat /\ Follow(program[p], cpu', cpu'.Mem, spool'[p], n + 1)
    BY <2>3, <2>4, <2>5, <2>6 DEF Follow
  <2>8. InCPU(p)' /\ pc'[Main] # "command"
    BY <1>1, <1>2, <1>6, StillRuns
  <2>9. program'[p] = program[p] /\ PCB'[p].BASE = Base[program[p]]
    BY <1>2, <1>6
  <2> QED BY <1>6, <2>7, <2>8, <2>9, RunnerFollows
<1> QED BY <1>9, <1>10, FollowBack

(* A shell instruction: the command is due.                                *)
LEMMA ShellFollows ==
  ASSUME Disciplined(Nat), TInv, PlacesInv, FollowInv, ShellInstr
  PROVE  FollowInv'
<1>0. PICK p : p = RUNNING_PCB.pid
  OBVIOUS
<1>1. Fetch({9}, "command") /\ "command" \in OnCPU
  BY DEF ShellInstr, OnCPU
<1>2. /\ UNCHANGED <<name, program, RUNNING_PCB, PROCESS_COUNT, PCB, spool, sent>>
      /\ cmd' = [cmd EXCEPT ![Main] = cpu'.IR1 % 256]
  BY DEF ShellInstr, procs, table, output
<1>3. RUNNING_PCB # Idle
  BY <1>1, FetchIdle
<1>4. PICK x : x = cpu_fetch_instruction(cpu)
  OBVIOUS
<1>5. /\ p \in Submitted /\ spool[p] # NoFile /\ InCPU(p)
      /\ program[p] \in File \ Short /\ PCB[p].BASE = Base[program[p]]
      /\ x.IR0 = 9
      /\ \E n \in Nat : Advanced(program[p], spool[p], cpu, x, cpu', n)
  BY <1>0, <1>1, <1>3, <1>4, FetchRun
<1>6. /\ IdleInv' /\ NamesInv' /\ ApartInv' /\ TextsInv' /\ Submitted' = Submitted
      /\ \A q \in Submitted : q # p => ProcessInv(q)'
  BY <1>0, <1>1, <1>2, FetchOthers
<1>7. ProcessInv(p)'
  <2> DEFINE f == program[p]
             k == cmd'[Main]
  <2>0. f \in File
    BY <1>5
  <2>1. PICK n \in Nat : Advanced(f, spool[p], cpu, x, cpu', n)
    BY <1>5
  <2>2. PICK s : s = Alone(f, n)
    OBVIOUS
  <2>3. PICK s2 : s2 = Alone(f, n + 1)
    OBVIOUS
  <2>4. PICK c : c = cpu'
    OBVIOUS
  <2>5. /\ Common(spool[p]) = Common(s.out) /\ Holds(f, c, c.Mem, s2)
        /\ c.IR0 = 9 /\ c.IR1 \in 0 .. 255 /\ c.MBR = c.IR1
        /\ c.MAR = Base[f] + c.PC - 1 /\ c.PC = s.PC + 2 /\ c.AC = s.AC
        /\ s2.out = Append(s.out, Shown(f, [s EXCEPT !.PC = @ + 2], c.IR1))
    BY <1>5, <2>1, <2>2, <2>3, <2>4 DEF Advanced, Stepped
  <2>6. k = c.IR1
    <3>1. k = c.IR1 % 256
      BY <1>2, <2>4, Threads DEF TInv, ControlOK
    <3>2. \A i \in 0 .. 255 : i % 256 = i
      OBVIOUS
    <3> QED BY <2>5, <3>1, <3>2
  <2>7. PICK u : u = [s EXCEPT !.PC = @ + 2]
    OBVIOUS
  <2>8. s \in SoloState(f) /\ s2 \in SoloState(f)
    BY <2>0, <2>2, <2>3, AloneFacts
  <2>9. u.PC = c.PC /\ u.AC = c.AC /\ c.BASE = Base[f]
    BY <2>5, <2>7, <2>8 DEF SoloState, Holds
  <2>10. PICK r : r = Shown(f, u, k)
    OBVIOUS
  <2>11. s2.out = Append(s.out, r)
    BY <2>5, <2>6, <2>7, <2>10
  <2>12. /\ k = 2 => r = Registers(c)
         /\ k = 3 => r = Shows("memory", <<>>)
         /\ k # 2 /\ k # 3 => r = Shows("bruh, wut?", <<>>)
    <3>1. k = 2 => r = Shows("registers", <<Base[f], u.PC, 9, k, u.AC,
                                            Base[f] + u.PC - 1, k>>)
      BY <2>10 DEF Shown
    <3>2. k = 2 => r = Registers(c)
      BY <2>5, <2>6, <2>9, <3>1 DEF Registers
    <3>3. k = 3 => r = Shows("memory", <<>>)
      BY <2>10 DEF Shown
    <3>4. k # 2 /\ k # 3 => r = Shows("bruh, wut?", <<>>)
      BY <2>10 DEF Shown
    <3> QED BY <3>2, <3>3, <3>4
  <2>13. PICK out : out = s.out
    OBVIOUS
  <2>14. PICK longer : longer = s2.out
    OBVIOUS
  <2>15. r \in Sheet /\ out \in Seq(Sheet)
    <3>1. longer \in Seq(Sheet) /\ out \in Seq(Sheet) /\ longer = Append(out, r)
      BY <2>8, <2>11, <2>13, <2>14 DEF SoloState
    <3>2. longer[Len(out) + 1] = r /\ Len(out) + 1 \in DOMAIN longer
      BY <3>1
    <3> QED BY <3>1, <3>2
  <2>16. /\ r.what \in Shared => Common(longer) = Common(out) \o <<r>>
         /\ r.what \notin Shared => Common(longer) = Common(out)
    <3>1. longer = Append(out, r)
      BY <2>11, <2>13, <2>14
    <3> QED BY <2>15, <3>1, CommonShown
  <2>17. /\ (k = 2 \/ k = 3) => r.what \in Shared
         /\ k # 2 /\ k # 3 => r.what \notin Shared
    <3>1. /\ Registers(c).what = "registers" /\ Shows("memory", <<>>).what = "memory"
          /\ Shows("bruh, wut?", <<>>).what = "bruh, wut?"
      BY DEF Registers, Shows
    <3> QED BY <2>12, <3>1 DEF Shared
  <2>18. Common(longer) =
           CASE k = 2 -> Common(out) \o <<Registers(c)>>
             [] k = 3 -> Common(out) \o <<Shows("memory", <<>>)>>
             [] OTHER -> Common(out)
    <3>1. ASSUME k = 2 PROVE Common(longer) = Common(out) \o <<Registers(c)>>
      BY <2>12, <2>16, <2>17, <3>1
    <3>2. ASSUME k = 3 PROVE Common(longer) = Common(out) \o <<Shows("memory", <<>>)>>
      BY <2>12, <2>16, <2>17, <3>2
    <3>3. ASSUME k # 2, k # 3 PROVE Common(longer) = Common(out)
      BY <2>16, <2>17, <3>3
    <3> QED BY <3>1, <3>2, <3>3
  <2> HIDE DEF f, k
  <2>19. Owes(f, c, c.Mem, spool[p], k, n)
    BY <2>2, <2>3, <2>5, <2>13, <2>14, <2>18 DEF Owes
  <2>20. Context(p)' = c /\ Pending(p)' = TRUE
    <3>1. InCPU(p)' /\ pc'[Main] = "command"
      BY <1>1, <1>2, <1>5, StillRuns
    <3> QED BY <2>4, <3>1 DEF Context, Pending
  <2>21. Tracked(f, Context(p)', cpu'.Mem, spool'[p], cmd'[Main], Pending(p)')
    <3>1. Tracked(f, c, c.Mem, spool[p], k, TRUE)
      BY <2>19 DEF Tracked
    <3> QED BY <1>2, <2>4, <2>20, <3>1 DEF k
  <2> QED BY <1>2, <1>5, <2>21 DEF ProcessInv, f
<1> QED BY <1>6, <1>7, FollowBack

(* One message more, or none.                                              *)
LEMMA TextsAdded ==
  ASSUME TInv, TextsInv, Submitted' = Submitted, program' = program,
         NEW m, m.pid \in Submitted => TextOf(program[m.pid], m),
         sent' = sent \/ sent' = Append(sent, m)
  PROVE  TextsInv'
<1>1. CASE sent' = sent
  BY <1>1 DEF TextsInv
<1>2. CASE sent' = Append(sent, m)
  <2>1. sent \in Seq(Message)
    BY DEF TInv, OutputOK, Message
  <2>2. \A k \in DOMAIN sent' : sent'[k] = m \/ (k \in DOMAIN sent /\ sent'[k] = sent[k])
    <3>1. PICK out, longer : out = sent /\ longer = sent'
      OBVIOUS
    <3>2. out \in Seq(Message) /\ longer = Append(out, m)
      BY <1>2, <2>1, <3>1
    <3>3. \A k \in DOMAIN longer : longer[k] = m \/ (k \in DOMAIN out /\ longer[k] = out[k])
      BY <3>2, AppendFacts
    <3> QED BY <3>1, <3>3
  <2> QED BY <2>2 DEF TextsInv
<1> QED BY <1>1, <1>2

LEMMA ExitFollows ==
  ASSUME Disciplined(Nat), TInv, PlacesInv, FollowInv, Exit, status' = "running"
  PROVE  FollowInv'
<1>0. PICK p : p = RUNNING_PCB.pid
  OBVIOUS
<1> DEFINE m == [pid |-> p, text |-> spool[p], type |-> "END_SPOOL"]
<1>1. Fetch(Int \ 1 .. 9, "post")
  BY DEF Exit
<1>2. /\ UNCHANGED <<name, program, RUNNING_PCB, PROCESS_COUNT>>
      /\ PCB' = [PCB EXCEPT ![p] = NewContext(0)]
      /\ EndSpool(p, "END_SPOOL")
  BY <1>0 DEF Exit, request, table
<1>3. RUNNING_PCB # Idle
  BY <1>1, FetchIdle
<1>4. PICK x : x = cpu_fetch_instruction(cpu)
  OBVIOUS
<1>5. /\ p \in Submitted /\ spool[p] # NoFile /\ InCPU(p)
      /\ program[p] \in File \ Short
      /\ x.IR0 \in Int \ 1 .. 9
      /\ \E n \in Nat : Advanced(program[p], spool[p], cpu, x, cpu', n)
  BY <1>0, <1>1, <1>3, <1>4, FetchRun
<1>6. p \in Process /\ OutputOK /\ PCB \in [Process -> [Register -> Int]]
  BY <1>0, Pointers DEF TInv, TableOK
<1>7. /\ spool' = [spool EXCEPT ![p] = NoFile]
      /\ sent' = sent \/ sent' = Append(sent, m)
  BY <1>2, <1>5, <1>6, EndSpoolFacts
<1>8. /\ \A q \in Process : q # p => spool'[q] = spool[q] /\ PCB'[q] = PCB[q]
      /\ spool'[p] = NoFile
      /\ \A q \in Process : spool[q] = NoFile => spool'[q] = NoFile
  BY <1>2, <1>6, <1>7 DEF OutputOK
<1>9. Submitted \subseteq Process
  BY <1>1, Runner DEF Fetch, Step, OnCPU
<1>10. /\ IdleInv' /\ NamesInv' /\ ApartInv' /\ Submitted' = Submitted
       /\ \A q \in Submitted : q # p => ProcessInv(q)'
  BY <1>0, <1>1, <1>2, <1>3, <1>8, <1>9, FetchOthers
<1>11. ProcessInv(p)'
  BY <1>2, <1>5, <1>8 DEF ProcessInv
<1>12. TextsInv'
  <2>1. PICK n \in Nat : Advanced(program[p], spool[p], cpu, x, cpu', n)
    BY <1>5
  <2>2. /\ Common(spool[p]) = Common(Alone(program[p], n + 1).out)
        /\ Alone(program[p], n + 1).over /\ n + 1 \in Nat
    BY <1>5, <2>1 DEF Advanced, Stepped
  <2>3. TextOf(program[m.pid], m)
    BY <2>2 DEF TextOf
  <2>4. TextsInv
    BY DEF FollowInv
  <2> HIDE DEF m
  <2> QED BY <1>2, <1>7, <1>10, <2>3, <2>4, TextsAdded
<1> QED BY <1>10, <1>11, <1>12, FollowBack

-----------------------------------------------------------------------------
(* A process is switched in.                                               *)
LEMMA PickFollows ==
  ASSUME TInv, FollowInv, Pick
  PROVE  FollowInv'
<1> DEFINE r == RUNNING_PCB'.pid
<1>1. /\ pc[Main] = "pick" /\ pc'[Main] = "run" /\ cpu' = LoadContext(cpu, PCB[r])
      /\ UNCHANGED <<name, program, PROCESS_COUNT, PCB, spool, sent>>
  <2>1. Step(Main, "pick", "run") /\ PcOK /\ "run" \in PCs(Main)
    BY Places DEF Pick, TInv, ControlOK
  <2>2. pc[Main] = "pick" /\ pc'[Main] = "run"
    BY <2>1, Steps, Threads
  <2> QED BY <2>2 DEF Pick, request, table, output
<1>2. RUNNING_PCB' = Idle \/ RUNNING_PCB' \in Pointer
  <2>1. ReadyQueue \in Seq(Pointer \ {Idle})
    BY DEF TInv, TableOK
  <2>2. CASE ReadyQueue = <<>>
    BY <2>2 DEF Pick
  <2>3. CASE ReadyQueue # <<>>
    <3>1. Head(ReadyQueue) \in Pointer
      BY <2>1, <2>3
    <3> QED BY <2>3, <3>1 DEF Pick
  <2> QED BY <2>2, <2>3
<1>3. r \in Process /\ Saved(PCB[r]) /\ cpu \in Machine(M) /\ M \in Nat
  BY <1>2, Pointers, Constants DEF TInv, TableOK
<1>4. PICK c : c = PCB[r]
  OBVIOUS
<1>5. /\ cpu'.PC = c.PC /\ cpu'.AC = c.AC /\ cpu'.BASE = c.BASE /\ cpu'.Mem = cpu.Mem
  BY <1>1, <1>3, <1>4, LoadContextFacts
<1>6. ~Running /\ Running' /\ Submitted' = Submitted
  BY <1>1 DEF Running, Submitted
<1>7. IdleInv'
  <2>1. IdleWords(cpu'.Mem) /\ IdleAt(PCB'[1])
    BY <1>1, <1>5 DEF FollowInv, IdleInv
  <2>2. ASSUME RUNNING_PCB' = Idle PROVE IdleAt(cpu')
    <3>1. IdleAt(c)
      BY <1>4, <2>2, Pointers DEF FollowInv, IdleInv
    <3> QED BY <1>5, <3>1 DEF IdleAt
  <2> QED BY <2>1, <2>2 DEF IdleInv
<1>8. NamesInv' /\ ApartInv' /\ TextsInv'
  BY <1>1, RestStays
<1> HIDE DEF r
<1>9. ASSUME NEW q \in Submitted PROVE ProcessInv(q)'
  <2>1. ProcessInv(q) /\ ~Pending(q) /\ ~Pending(q)' /\ Context(q) = PCB[q]
    BY <1>1, <1>6, <1>9 DEF FollowInv, Pending, InCPU, Context
  <2>2. IF q = r THEN Context(q)' = cpu' ELSE Context(q)' = PCB[q]
    BY <1>1, <1>6 DEF Context, InCPU, r
  <2>3. /\ Context(q)'.PC = Context(q).PC /\ Context(q)'.AC = Context(q).AC
        /\ Context(q)'.BASE = Context(q).BASE
    BY <1>4, <1>5, <2>1, <2>2
  <2> QED BY <1>1, <1>5, <2>1, <2>3, OneStays
<1> QED BY <1>6, <1>7, <1>8, <1>9 DEF FollowInv

(* And out.                                                                *)
LEMMA ExpireFollows ==
  ASSUME TInv, PlacesInv, FollowInv, Expire
  PROVE  FollowInv'
<1> DEFINE r == RUNNING_PCB.pid
<1>1. /\ pc[Main] = "expired" /\ pc'[Main] = "post" /\ status = "running"
      /\ PCB' = [PCB EXCEPT ![r] = SaveContext(PCB[r], cpu)]
      /\ UNCHANGED <<name, program, PROCESS_COUNT, spool, sent, cpu, RUNNING_PCB>>
  <2>1. Step(Main, "expired", "post") /\ PcOK /\ "post" \in PCs(Main)
    BY Places DEF Expire, TInv, ControlOK
  <2>2. pc[Main] = "expired" /\ pc'[Main] = "post" /\ status = "running"
    BY <2>1, Steps, Threads
  <2> QED BY <2>2 DEF Expire, request, table, output
<1>3. /\ r \in Process /\ Saved(PCB[r]) /\ cpu \in Machine(M) /\ M \in Nat
      /\ 1 \in Process /\ PCB \in [Process -> [Register -> Int]]
  BY Pointers, Constants DEF TInv, TableOK
<1>4. PICK c : c = SaveContext(PCB[r], cpu)
  OBVIOUS
<1>5. /\ c.PC = cpu.PC /\ c.AC = cpu.AC /\ c.BASE = PCB[r].BASE
      /\ PCB'[r] = c /\ \A q \in Process : q # r => PCB'[q] = PCB[q]
  BY <1>1, <1>3, <1>4, SaveContextFacts
<1>6. Running /\ ~Running' /\ Submitted' = Submitted
  BY <1>1 DEF Running, Submitted
<1>7. IdleInv'
  <2>1. IdleWords(cpu.Mem) /\ IdleAt(PCB[1]) /\ (RUNNING_PCB = Idle => IdleAt(cpu))
    BY <1>6 DEF FollowInv, IdleInv
  <2>2. CASE RUNNING_PCB = Idle
    <3>1. r = 1 /\ IdleAt(cpu)
      BY <2>1, <2>2, Pointers
    <3>2. IdleAt(PCB'[1])
      BY <1>5, <2>1, <3>1 DEF IdleAt
    <3> QED BY <1>1, <1>6, <2>1, <3>2 DEF IdleInv
  <2>3. CASE RUNNING_PCB # Idle
    <3>1. 1 # r
      BY <1>1, <2>3, Runner DEF OnCPU
    <3> QED BY <1>1, <1>3, <1>5, <1>6, <2>1, <3>1 DEF IdleInv
  <2> QED BY <2>2, <2>3
<1>8. NamesInv' /\ ApartInv' /\ TextsInv'
  BY <1>1, RestStays
<1>10. Submitted \subseteq Process
  BY <1>1, Runner DEF OnCPU
<1> HIDE DEF r
<1>9. ASSUME NEW q \in Submitted PROVE ProcessInv(q)'
  <2>1. ProcessInv(q) /\ ~Pending(q) /\ ~Pending(q)' /\ Context(q)' = PCB'[q]
    BY <1>1, <1>6, <1>9 DEF FollowInv, Pending, InCPU, Context
  <2>2. CASE q = r
    <3>1. Context(q) = cpu /\ Context(q)' = c
      BY <1>5, <1>6, <2>1, <2>2 DEF Context, InCPU, r
    <3>2. PCB'[q].BASE = PCB[q].BASE
      BY <1>5, <2>2
    <3>3. spool[q] # NoFile => cpu.BASE = PCB[q].BASE
      <4>1. spool[q] # NoFile => /\ PCB[q].BASE = Base[program[q]]
                                 /\ Tracked(program[q], cpu, cpu.Mem, spool[q], cmd[Main],
                                            Pending(q))
        BY <2>1, <3>1 DEF ProcessInv
      <4> QED BY <4>1, TrackedBase
    <3>4. spool'[q] # NoFile =>
            /\ spool'[q] = spool[q] /\ PCB'[q].BASE = PCB[q].BASE
            /\ Context(q)'.BASE = Context(q).BASE /\ Context(q)'.PC = Context(q).PC
            /\ Context(q)'.AC = Context(q).AC
            /\ \A a \in Segment(program[q]) : cpu'.Mem[a] = cpu.Mem[a]
      BY <1>1, <1>5, <2>2, <3>1, <3>2, <3>3
    <3> QED BY <1>1, <2>1, <3>4, OneStays
  <2>3. CASE q # r
    <3>1. PCB'[q] = PCB[q] /\ ~InCPU(q) /\ ~InCPU(q)'
      BY <1>1, <1>5, <1>6, <1>9, <1>10, <2>3 DEF InCPU, r
    <3> QED BY <1>1, <2>1, <3>1, AwayStays
  <2> QED BY <2>2, <2>3
<1> QED BY <1>6, <1>7, <1>8, <1>9 DEF FollowInv

-----------------------------------------------------------------------------
(* Commands.  A step of a thread that leaves the main one where it is, or  *)
(* takes it from one place on the CPU to another.                          *)
LEMMA SamePlace ==
  ASSUME TInv, NEW t \in Thread, NEW a \in OnCPU, Step(t, a, Return(t)), UNCHANGED RUNNING_PCB
  PROVE  /\ status = "running" /\ pc[t] = a /\ \A p : InCPU(p)' <=> InCPU(p)
         /\ Running' <=> Running
         /\ t = Main => pc'[Main] # "command" /\ pc[Main] \in OnCPU
         /\ t # Main => pc'[Main] = pc[Main]
<1>1. PcOK /\ Return(t) \in PCs(t) /\ Return(t) \in {"post", "expired", "run"}
      /\ (t = Main => Return(t) # "post")
  BY Returns DEF TInv, ControlOK
<1> DEFINE b == Return(t)
<1> HIDE DEF b
<1>2. /\ pc[t] = a /\ pc'[t] = b /\ status = "running"
      /\ \A u \in Thread : u # t => pc'[u] = pc[u]
  BY <1>1, Steps DEF b
<1>3. t = Main => b \in OnCPU /\ b # "command"
  BY <1>1 DEF b, OnCPU
<1>4. /\ t = Main => pc'[Main] # "command" /\ pc[Main] \in OnCPU /\ pc'[Main] \in OnCPU
      /\ t # Main => pc'[Main] = pc[Main]
  BY <1>2, <1>3, Threads
<1>5. Running' <=> Running
  BY <1>4 DEF Running, OnCPU
<1> QED BY <1>2, <1>4, <1>5 DEF InCPU

(* What the command showed is paid.                                        *)
LEMMA DumpPaid ==
  ASSUME TInv, FollowInv, PlacesInv, Dump(Main), NEW p \in Submitted, InCPU(p),
         cpu'.PC = cpu.PC, cpu'.AC = cpu.AC, cpu'.BASE = cpu.BASE, cpu'.Mem = cpu.Mem
  PROVE  ProcessInv(p)'
<1> DEFINE f == program[p]
           k == cmd[Main]
           c == cpu
           x == Dumped(k)
<1>1. /\ Step(Main, "command", Return(Main))
      /\ UNCHANGED <<RUNNING_PCB, program, PCB>>
      /\ spool' = IF k \in 2 .. 5 THEN Printed(RUNNING_PCB.pid, x) ELSE spool
  BY DEF Dump, procs
<1>2. /\ status = "running" /\ pc[Main] = "command" /\ pc'[Main] # "command"
      /\ InCPU(p)' /\ "command" \in OnCPU
  BY <1>1, SamePlace, Threads DEF OnCPU
<1>3. p = RUNNING_PCB.pid /\ spool[p] # NoFile /\ p \in Process
  BY <1>2, Runner
<1>4. Context(p) = c /\ Pending(p) = TRUE
  BY <1>2 DEF Context, Pending
<1>5. ProcessInv(p)
  BY DEF FollowInv
<1>6. /\ f \in File \ Short /\ PCB[p].BASE = Base[f]
      /\ Tracked(f, c, c.Mem, spool[p], k, TRUE)
  BY <1>3, <1>4, <1>5 DEF ProcessInv
<1>7. k \in Int /\ x \in LineOfOutput /\ OutputOK
  BY Lines, Threads DEF TInv, ControlOK
<1>8. PICK n \in Nat : Owes(f, c, c.Mem, spool[p], k, n)
  BY <1>6 DEF Tracked
<1>9. PICK s2 : s2 = Alone(f, n + 1)
  OBVIOUS
<1>10. /\ Holds(f, c, c.Mem, s2)
       /\ k = 2 => Common(s2.out) = Common(spool[p]) \o <<Registers(c)>>
       /\ k = 3 => Common(s2.out) = Common(spool[p]) \o <<Shows("memory", <<>>)>>
       /\ k # 2 /\ k # 3 => Common(s2.out) = Common(spool[p])
  <2> HIDE DEF f, k, c
  <2>1. /\ Holds(f, c, c.Mem, s2)
        /\ Common(s2.out) = CASE k = 2 -> Common(spool[p]) \o <<Registers(c)>>
                              [] k = 3 -> Common(spool[p]) \o <<Shows("memory", <<>>)>>
                              [] OTHER -> Common(spool[p])
    BY <1>8, <1>9 DEF Owes
  <2>2. ASSUME k = 2 PROVE Common(s2.out) = Common(spool[p]) \o <<Registers(c)>>
    BY <2>1, <2>2
  <2>3. ASSUME k = 3 PROVE Common(s2.out) = Common(spool[p]) \o <<Shows("memory", <<>>)>>
    BY <2>1, <2>3
  <2>4. ASSUME k # 2, k # 3 PROVE Common(s2.out) = Common(spool[p])
    BY <2>1, <2>4
  <2> QED BY <2>1, <2>2, <2>3, <2>4
<1>11. /\ k = 2 => x = Registers(c)
       /\ k = 3 => x = Shows("memory", <<>>)
       /\ k # 2 /\ k # 3 => x = Shows("table", <<>>)
  BY DEF Dumped, Registers
<1>12. /\ (k = 2 \/ k = 3) => x.what \in Shared
       /\ k # 2 /\ k # 3 => x.what \notin Shared
  BY <1>11 DEF Registers, Shows, Shared
<1> HIDE DEF x, k
<1>13. Common(spool'[p]) = Common(s2.out)
  <2>1. CASE k \in 2 .. 5
    <3>1. spool' = Printed(p, x)
      BY <1>1, <1>3, <2>1
    <3>2. /\ x.what \in Shared => Common(spool'[p]) = Common(spool[p]) \o <<x>>
          /\ x.what \notin Shared => Common(spool'[p]) = Common(spool[p])
      BY <1>3, <1>7, <3>1, PrintedText
    <3> QED BY <1>10, <1>11, <1>12, <3>2
  <2>2. CASE k \notin 2 .. 5
    <3>1. k # 2 /\ k # 3 /\ spool' = spool
      BY <1>1, <2>2
    <3> QED BY <1>10, <3>1
  <2> QED BY <2>1, <2>2
<1>14. n + 1 \in Nat /\ Follow(f, cpu', cpu'.Mem, spool'[p], n + 1)
  BY <1>9, <1>10, <1>13 DEF Follow, Holds
<1> QED BY <1>1, <1>2, <1>6, <1>14, RunnerFollows

LEMMA DumpFollows ==
  ASSUME TInv, LockInv, PlacesInv, FollowInv, NEW t \in Thread, Dump(t)
  PROVE  FollowInv'
<1> USE Threads
<1>1. /\ Step(t, "command", Return(t)) /\ "command" \in OnCPU
      /\ UNCHANGED <<request, procs, sent>>
  BY DEF Dump, OnCPU
<1>2. /\ UNCHANGED <<name, cmd, RUNNING_PCB, program, PCB, PROCESS_COUNT, sent>>
  BY <1>1 DEF request, procs, table
<1>3. /\ cpu'.PC = cpu.PC /\ cpu'.AC = cpu.AC /\ cpu'.BASE = cpu.BASE /\ cpu'.Mem = cpu.Mem
  <2>1. cpu \in Machine(M) /\ M \in Nat \ {0}
    BY Constants DEF TInv
  <2>2. cpu' = shell_print_memory(cpu, M) \/ cpu' = cpu
    BY DEF Dump
  <2> QED BY <2>1, <2>2, DumpMemoryFacts
<1>4. /\ status = "running" /\ pc[t] = "command" /\ (Running' <=> Running)
      /\ \A p : InCPU(p)' <=> InCPU(p)
      /\ t = Main => pc'[Main] # "command" /\ pc[Main] \in OnCPU
      /\ t # Main => pc'[Main] = pc[Main]
  BY <1>1, <1>2, SamePlace
<1>5. Submitted \subseteq Process /\ Submitted \subseteq PID /\ Submitted' = Submitted
  BY <1>2, Constants DEF Submitted, TInv, TableOK, PID
<1>6. IdleInv'
  BY <1>2, <1>3, <1>4 DEF FollowInv, IdleInv, IdleAt
<1>7. t = Shell => pc[Main] # "command" /\ spool' = spool
  <2>1. t = Shell => pc[Shell] = "command"
    BY <1>4
  <2>2. t = Shell /\ pc[Main] = "command" => FALSE
    BY <2>1 DEF LockInv, Unit, In, TInv, ControlOK
  <2> QED BY <2>2 DEF Dump
<1>8. \A q \in Submitted :
        /\ ~InCPU(q) => spool'[q] = spool[q]
        /\ spool[q] = NoFile => spool'[q] = NoFile
  <2>1. CASE t = Shell
    BY <1>7, <2>1
  <2>2. CASE t = Main
    <3> DEFINE r == RUNNING_PCB.pid
               x == Dumped(cmd[Main])
    <3>1. spool' = spool \/ spool' = Printed(r, x)
      BY <2>2 DEF Dump
    <3>2. r \in Process /\ RUNNING_PCB \in Pointer /\ OutputOK /\ x \in LineOfOutput
      <4>1. r \in Process /\ RUNNING_PCB \in Pointer
        BY Pointers DEF TInv, TableOK
      <4>2. cmd[Main] \in Int
        BY DEF TInv, ControlOK
      <4> QED BY <4>1, <4>2, Lines DEF TInv
    <3>3. PlacesOnce /\ pc[Main] \in OnCPU
      BY <1>4, <2>2 DEF PlacesInv, Alive, OnCPU
    <3> HIDE DEF x
    <3>4. \A q \in Submitted : spool[q] = NoFile => spool'[q] = NoFile
      BY <1>5, <3>1, <3>2, <3>3, PrintedStays
    <3>5. ASSUME NEW q \in Submitted, ~InCPU(q) PROVE spool'[q] = spool[q]
      <4>1. q # r /\ q \in Process
        BY <1>4, <1>5, <2>2, <3>3, <3>5 DEF InCPU, Running, OnCPU
      <4> HIDE DEF r
      <4> QED BY <3>1, <3>2, <4>1, PrintedFacts
    <3> QED BY <3>4, <3>5
  <2> QED BY <2>1, <2>2
<1>9. NamesInv' /\ ApartInv' /\ TextsInv'
  BY <1>2, <1>8, RestStays
<1>10. ASSUME NEW q \in Submitted PROVE ProcessInv(q)'
  <2>1. ProcessInv(q)
    BY DEF FollowInv
  <2>2. CASE ~InCPU(q)
    BY <1>2, <1>3, <1>4, <1>8, <2>1, <2>2, AwayStays
  <2>3. CASE InCPU(q) /\ t = Shell
    <3>1. ~Pending(q) /\ ~Pending(q)' /\ Context(q) = cpu /\ Context(q)' = cpu'
      BY <1>4, <1>7, <2>3 DEF Pending, Context
    <3> QED BY <1>2, <1>3, <1>7, <2>1, <2>3, <3>1, OneStays
  <2>4. CASE InCPU(q) /\ t = Main
    BY <1>3, <2>4, DumpPaid
  <2> QED BY <2>2, <2>3, <2>4
<1> QED BY <1>5, <1>6, <1>9, <1>10 DEF FollowInv

(* A program is loaded: what becomes of memory and of the processor.       *)
LEMMA LoadedWords ==
  ASSUME TInv, FollowInv, NEW t \in Thread, Load(t), NEW f, f = name[t]
  PROVE  /\ f \in File
         /\ cpu'.PC = cpu.PC /\ cpu'.AC = cpu.AC /\ cpu'.BASE = cpu.BASE
         /\ \A a \in Segment(f) : cpu'.Mem[a] = Image[f][a - Base[f] + 1]
         /\ IdleWords(cpu'.Mem)
         /\ \A q \in Submitted : spool[q] # NoFile =>
              /\ program[q] # f
              /\ \A a \in Segment(program[q]) : cpu'.Mem[a] = cpu.Mem[a]
<1>1. f \in File
  BY DEF Load, Step, TInv, ControlOK
<1>2. /\ cpu \in Machine(M) /\ M \in Nat /\ Image[f] \in Seq(Word) /\ Base[f] \in Nat
      /\ cpu' = load_words(cpu, Image[f], Base[f])
  BY <1>1, Constants DEF Load, TInv
<1>3. /\ cpu'.PC = cpu.PC /\ cpu'.AC = cpu.AC /\ cpu'.BASE = cpu.BASE
      /\ \A a \in 0 .. M - 1 :
           /\ a - Base[f] \in 0 .. Len(Image[f]) - 1 => cpu'.Mem[a] = Image[f][a - Base[f] + 1]
           /\ a - Base[f] \notin 0 .. Len(Image[f]) - 1 => cpu'.Mem[a] = cpu.Mem[a]
  <2>1. PICK m, words, base, c : /\ m = cpu /\ words = Image[f] /\ base = Base[f]
                                 /\ c = load_words(m, words, base)
    OBVIOUS
  <2>2. /\ c.PC = m.PC /\ c.AC = m.AC /\ c.BASE = m.BASE
        /\ \A a \in 0 .. M - 1 :
             /\ a - base \in 0 .. Len(words) - 1 => c.Mem[a] = words[a - base + 1]
             /\ a - base \notin 0 .. Len(words) - 1 => c.Mem[a] = m.Mem[a]
    <3>1. M \in Nat /\ m \in Machine(M) /\ words \in Seq(Word) /\ base \in Nat
      BY <1>2, <2>1
    <3>2. c.PC = m.PC /\ c.AC = m.AC /\ c.BASE = m.BASE
      BY <2>1, <3>1, LoadWordsFacts
    <3>3. c = load_words(m, words, base)
      BY <2>1
    <3>4. \A a \in 0 .. M - 1 :
            /\ a - base \in 0 .. Len(words) - 1 => c.Mem[a] = words[a - base + 1]
            /\ a - base \notin 0 .. Len(words) - 1 => c.Mem[a] = m.Mem[a]
      BY ONLY <3>1, <3>3, LoadWordsFacts
    <3> QED BY <3>2, <3>4
  <2> QED BY <1>2, <2>1, <2>2
<1>4. /\ Segment(f) \subseteq 0 .. M - 1 /\ \A a \in 0 .. 3 : a \notin Segment(f)
      /\ \A g \in File : f # g => /\ Segment(g) \subseteq 0 .. M - 1
                                  /\ Segment(f) \intersect Segment(g) = {}
  BY <1>1, FileFacts
<1>5. \A a \in 0 .. M - 1 : a \in Segment(f) <=> a - Base[f] \in 0 .. Len(Image[f]) - 1
  <2>1. Len(Image[f]) \in Nat
    BY <1>2
  <2> QED BY <1>2, <2>1 DEF Segment
<1>6. \A a \in 0 .. M - 1 : /\ a \in Segment(f) => cpu'.Mem[a] = Image[f][a - Base[f] + 1]
                            /\ a \notin Segment(f) => cpu'.Mem[a] = cpu.Mem[a]
  BY <1>3, <1>5
<1>7. IdleWords(cpu'.Mem)
  <2>1. 0 .. 3 \subseteq 0 .. M - 1
    <3>1. Len(PROG_IDLE) = 4
      BY DEF PROG_IDLE
    <3> QED BY <3>1, ComputerAssumption
  <2>2. \A a \in 0 .. 3 : cpu'.Mem[a] = cpu.Mem[a]
    BY <1>4, <1>6, <2>1
  <2> QED BY <2>2 DEF FollowInv, IdleInv, IdleWords
<1>8. ASSUME NEW q \in Submitted, spool[q] # NoFile
      PROVE  /\ program[q] # f
             /\ \A a \in Segment(program[q]) : cpu'.Mem[a] = cpu.Mem[a]
  <2>1. program[q] \in File /\ program[q] # f
    BY <1>1, <1>8 DEF FollowInv, ProcessInv, NamesInv
  <2> QED BY <1>4, <1>6, <2>1
<1> QED BY <1>1, <1>3, <1>4, <1>6, <1>7, <1>8

LEMMA LoadFollows ==
  ASSUME TInv, LockInv, PlacesInv, SentInv, FollowInv, NEW t \in Thread, Load(t)
  PROVE  FollowInv'
<1>0. PICK f, p : f = name[t] /\ p = PROCESS_COUNT
  OBVIOUS
<1> USE Threads
<1>1. /\ Step(t, "load", Return(t)) /\ "load" \in OnCPU /\ MUTEX > 0
      /\ UNCHANGED <<RUNNING_PCB, sent>> /\ name' = [name EXCEPT ![t] = NoFile]
  BY DEF Load, Wait, OnCPU
<1>2. /\ status = "running" /\ pc[t] = "load" /\ (Running' <=> Running)
      /\ \A q : InCPU(q)' <=> InCPU(q)
      /\ t = Main => pc'[Main] # "command" /\ pc[Main] \in OnCPU
      /\ t # Main => pc'[Main] = pc[Main]
  BY <1>1, SamePlace
<1>3. /\ f \in File
      /\ cpu'.PC = cpu.PC /\ cpu'.AC = cpu.AC /\ cpu'.BASE = cpu.BASE
      /\ \A a \in Segment(f) : cpu'.Mem[a] = Image[f][a - Base[f] + 1]
      /\ IdleWords(cpu'.Mem)
      /\ \A q \in Submitted : spool[q] # NoFile =>
           /\ program[q] # f
           /\ \A a \in Segment(program[q]) : cpu'.Mem[a] = cpu.Mem[a]
  BY <1>0, LoadedWords
<1>4. pc[Main] # "command" /\ pc'[Main] # "command"
  <2>1. pc[Main] # "command"
    BY <1>1 DEF LockInv, Unit, In, TInv, ControlOK
  <2> QED BY <1>2, <2>1
<1>5. /\ p \in 2 .. MaxPID + 1 /\ PCB \in [Process -> [Register -> Int]]
      /\ spool \in [Process -> Output \union {NoFile}]
      /\ program \in [PID -> File \union {NoFile}]
      /\ Submitted \subseteq PID /\ Submitted \subseteq Process /\ p \notin Submitted
      /\ 1 \in Process /\ 1 # p
  <2>1. p \in 2 .. MaxPID + 1 /\ p \notin Submitted /\ 1 # p
    BY <1>0, Constants DEF TInv, TableOK, Submitted
  <2> QED BY <2>1, SubmittedFacts, Constants DEF TInv, TableOK, OutputOK
<1>6. \/ /\ UNCHANGED <<PROCESS_COUNT, PCB, spool, program>>
      \/ /\ f \notin Short /\ p \in PID /\ PROCESS_COUNT' = p + 1
         /\ PCB' = [PCB EXCEPT ![p] = NewContext(Base[f])]
         /\ spool' = [spool EXCEPT ![p] = <<>>]
         /\ program' = [program EXCEPT ![p] = f]
  BY <1>0 DEF Load, Submit, InitSpool, table
<1>7. /\ \A q \in Process : q # p => PCB'[q] = PCB[q] /\ spool'[q] = spool[q]
      /\ \A q \in PID : q # p => program'[q] = program[q]
  BY <1>5, <1>6
<1>8. IdleInv'
  <2>1. IdleAt(PCB'[1])
    BY <1>5, <1>7 DEF FollowInv, IdleInv
  <2>2. Running' /\ RUNNING_PCB' = Idle => IdleAt(cpu')
    BY <1>1, <1>2, <1>3 DEF FollowInv, IdleInv, IdleAt
  <2> QED BY <1>3, <2>1, <2>2 DEF IdleInv
<1>9. ASSUME NEW q \in Submitted PROVE ProcessInv(q)'
  <2>1. /\ ProcessInv(q) /\ ~Pending(q) /\ ~Pending(q)'
        /\ program'[q] = program[q] /\ spool'[q] = spool[q] /\ PCB'[q] = PCB[q]
    BY <1>4, <1>5, <1>7 DEF FollowInv, Pending
  <2>2. CASE ~InCPU(q)
    BY <1>2, <1>3, <2>1, <2>2, AwayStays
  <2>3. CASE InCPU(q)
    <3>1. Context(q) = cpu /\ Context(q)' = cpu'
      BY <1>2, <2>3 DEF Context
    <3> QED BY <1>3, <2>1, <3>1, OneStays
  <2> QED BY <2>2, <2>3
<1>10. CASE UNCHANGED <<PROCESS_COUNT, PCB, spool, program>>
  <2>1. NamesInv' /\ ApartInv' /\ TextsInv'
    <3>1. \A u \in Thread : name'[u] = name[u] \/ name'[u] = NoFile
      BY <1>1 DEF TInv, ControlOK
    <3> QED BY <1>1, <1>10, <3>1, RestStays
  <2>2. Submitted' = Submitted
    BY <1>10 DEF Submitted
  <2> QED BY <1>8, <1>9, <2>1, <2>2 DEF FollowInv
<1>11. ASSUME f \notin Short, p \in PID, PROCESS_COUNT' = p + 1,
              PCB' = [PCB EXCEPT ![p] = NewContext(Base[f])],
              spool' = [spool EXCEPT ![p] = <<>>],
              program' = [program EXCEPT ![p] = f]
       PROVE FollowInv'
  <2>1. /\ p \in Process /\ PCB'[p] = NewContext(Base[f]) /\ spool'[p] = <<>>
        /\ program'[p] = f /\ Submitted' = Submitted \union {p}
    <3>1. p \in Process
      BY <1>11, Constants
    <3>2. Submitted' = Submitted \union {p}
      BY <1>0, <1>5, <1>11 DEF Submitted
    <3> QED BY <1>5, <1>11, <3>1, <3>2
  <2>2. ProcessInv(p)'
    <3>1. ~InCPU(p)'
      <4>1. ~InCPU(p)
        <5>1. ASSUME InCPU(p) PROVE FALSE
          <6>1. pc[Main] \in OnCPU /\ RUNNING_PCB # Idle
            BY <1>5, <5>1, Pointers DEF InCPU, Running, OnCPU
          <6>2. p \in Submitted
            BY <1>2, <5>1, <6>1, Runner DEF InCPU
          <6> QED BY <1>5, <6>2
        <5> QED BY <5>1
      <4> QED BY <1>2, <4>1
    <3>2. Context(p)' = PCB'[p] /\ Pending(p)' = FALSE
      BY <3>1 DEF Context, Pending
    <3>3. PICK c : c = PCB'[p]
      OBVIOUS
    <3>4. c.BASE = Base[f] /\ c.PC = 0 /\ c.AC = 0
      BY <2>1, <3>3 DEF NewContext, Register
    <3>5. PICK s : s = Alone(f, 0)
      OBVIOUS
    <3>6. /\ s.PC = 0 /\ s.AC = 0 /\ s.out = <<>> /\ ~s.over
          /\ \A a \in Segment(f) : s.Mem[a] = Image[f][a - Base[f] + 1]
      BY <1>3, <3>5, AloneFacts, BootState
    <3>7. Holds(f, c, cpu'.Mem, s)
      BY <1>3, <3>4, <3>6 DEF Holds
    <3>8. Follow(f, c, cpu'.Mem, <<>>, 0)
      BY <3>5, <3>6, <3>7 DEF Follow
    <3>9. Tracked(f, c, cpu'.Mem, <<>>, cmd'[Main], FALSE)
      BY <3>8 DEF Tracked
    <3> QED BY <1>3, <1>11, <2>1, <3>2, <3>3, <3>4, <3>9 DEF ProcessInv
  <2>3. /\ name'[t] = NoFile /\ \A u \in Thread : u # t => name'[u] = name[u]
        /\ NoFile \notin File
    BY <1>1, Constants DEF TInv, ControlOK
  <2>4. NamesInv
    BY DEF FollowInv
  <2>5. NamesInv'
    <3>1. ASSUME NEW u \in Thread, NEW q \in Submitted', name'[u] \in File,
                 program'[q] = name'[u]
          PROVE  spool'[q] = NoFile
      <4>1. u # t /\ name'[u] = name[u]
        BY <2>3, <3>1
      <4>2. name[u] # f
        <5>1. name[Main] \in File => name[Shell] # name[Main]
          BY <2>4 DEF NamesInv
        <5> QED BY <1>0, <1>3, <4>1, <5>1
      <4>3. q \in Submitted
        BY <2>1, <3>1, <4>1, <4>2
      <4>4. program'[q] = program[q] /\ spool'[q] = spool[q]
        BY <1>5, <1>7, <4>3
      <4> QED BY <2>4, <3>1, <4>1, <4>3, <4>4 DEF NamesInv
    <3>2. name'[Main] \in File => name'[Shell] # name'[Main]
      BY <2>3, <2>4 DEF NamesInv
    <3> QED BY <3>1, <3>2 DEF NamesInv
  <2>6. ApartInv'
    <3>1. ASSUME NEW q \in Submitted, NEW r \in Submitted, spool'[q] # NoFile,
                 spool'[r] # NoFile, program'[q] = program'[r]
          PROVE  q = r
      BY <1>5, <1>7, <3>1 DEF FollowInv, ApartInv
    <3>2. ASSUME NEW q \in Submitted, spool'[q] # NoFile PROVE program'[q] # program'[p]
      BY <1>3, <1>5, <1>7, <2>1, <3>2
    <3> QED BY <2>1, <3>1, <3>2 DEF ApartInv
  <2>7. TextsInv'
    <3>1. pc[Main] # "poweroff"
      BY <1>2 DEF SentInv
    <3>2. \A k \in DOMAIN sent : sent[k].pid # p
      <4>1. sent \in Seq(Message)
        BY DEF TInv, OutputOK, Message
      <4>2. \A k \in DOMAIN sent : sent[k] \in Message
        BY <4>1
      <4>3. \A k \in DOMAIN sent : sent[k].pid \in Int
        BY <4>2 DEF Message, Process
      <4>4. \A k \in DOMAIN sent : sent[k].pid < p
        BY <1>0, <3>1 DEF SentInv
      <4>5. \A i \in Int : i < p => i # p
        BY <1>5
      <4> QED BY <4>3, <4>4, <4>5
    <3>3. \A k \in DOMAIN sent : sent[k].pid \in Submitted => TextOf(program[sent[k].pid], sent[k])
      BY DEF FollowInv, TextsInv
    <3>4. \A q \in Submitted : program'[q] = program[q]
      BY <1>5, <1>7
    <3> QED BY <1>1, <2>1, <3>2, <3>3, <3>4 DEF TextsInv
  <2>8. \A q \in Submitted' : ProcessInv(q)'
    BY <1>9, <2>1, <2>2
  <2> QED BY <1>8, <2>5, <2>6, <2>7, <2>8 DEF FollowInv
<1> QED BY <1>6, <1>10, <1>11

(* The power goes off: what is left is sent as it is.                      *)
LEMMA PowerOffFollows ==
  ASSUME TInv, FollowInv, PowerOff, status' = "running"
  PROVE  FollowInv'
<1>1. /\ pc[Main] = "poweroff" /\ pc'[Main] = "poweroff"
      /\ UNCHANGED <<name, program, PROCESS_COUNT, PCB, cpu, RUNNING_PCB>>
  <2>1. Step(Main, "poweroff", "poweroff") /\ PcOK /\ "poweroff" \in PCs(Main)
    BY Places DEF PowerOff, TInv, ControlOK
  <2>2. pc[Main] = "poweroff" /\ pc'[Main] = "poweroff"
    BY <2>1, Steps, Threads
  <2> QED BY <2>2 DEF PowerOff, request, procs, table
<1>2. PICK p \in Process : spool[p] # NoFile /\ EndSpool(p, "CPU_TERM")
  BY DEF PowerOff
<1> DEFINE m == [pid |-> p, text |-> spool[p], type |-> "CPU_TERM"]
<1>3. OutputOK
  BY DEF TInv
<1>4. /\ spool' = [spool EXCEPT ![p] = NoFile]
      /\ sent' = sent \/ sent' = Append(sent, m)
  BY <1>2, <1>3, EndSpoolFacts
<1>5. /\ spool'[p] = NoFile /\ \A q \in Process : q # p => spool'[q] = spool[q]
      /\ Submitted' = Submitted /\ Submitted \subseteq Process
      /\ \A q : ~InCPU(q) /\ ~InCPU(q)'
      /\ ~Running /\ ~Running'
  <2>1. Submitted' = Submitted /\ Submitted \subseteq Process
    BY <1>1, Constants DEF Submitted, PID, TInv, TableOK
  <2>2. ~Running /\ ~Running'
    BY <1>1 DEF Running
  <2> QED BY <1>3, <1>4, <2>1, <2>2 DEF InCPU, OutputOK
<1>6. IdleInv'
  BY <1>1, <1>5 DEF FollowInv, IdleInv
<1>7. NamesInv' /\ ApartInv'
  BY <1>1, <1>5, RestStays
<1>8. ASSUME NEW q \in Submitted PROVE ProcessInv(q)'
  <2>1. ProcessInv(q)
    BY DEF FollowInv
  <2>2. spool'[q] # NoFile => spool'[q] = spool[q]
    BY <1>5
  <2> QED BY <1>1, <1>5, <2>1, <2>2, AwayStays
<1>9. p \in Submitted => TextOf(program[p], m)
  <2> SUFFICES ASSUME p \in Submitted PROVE TextOf(program[p], m)
    OBVIOUS
  <2>1. ProcessInv(p) /\ Pending(p) = FALSE
    BY <1>5 DEF FollowInv, Pending
  <2>2. Tracked(program[p], Context(p), cpu.Mem, spool[p], cmd[Main], FALSE)
    BY <1>2, <2>1 DEF ProcessInv
  <2>3. \E n \in Nat : Common(spool[p]) = Common(Alone(program[p], n).out)
    BY <2>2 DEF Tracked, Follow
  <2> QED BY <2>3 DEF TextOf
<1>10. TextsInv'
  <2>1. TextsInv /\ m.pid = p
    BY DEF FollowInv
  <2> HIDE DEF m
  <2> QED BY <1>1, <1>4, <1>5, <1>9, <2>1, TextsAdded
<1> QED BY <1>5, <1>6, <1>7, <1>8, <1>10 DEF FollowInv

-----------------------------------------------------------------------------
(* The invariant holds.                                                    *)
LEMMA FollowInit == Init => FollowInv
<1> SUFFICES ASSUME Init PROVE FollowInv
  OBVIOUS
<1>1. Submitted = {} /\ ~Running /\ DOMAIN sent = {}
  BY Threads DEF Init, Submitted, Running
<1>2. name = [t \in Thread |-> NoFile] /\ NoFile \notin File
  BY Constants DEF Init
<1>3. IdleWords(cpu.Mem)
  <2>1. /\ PROG_IDLE \in Seq(Word) /\ Len(PROG_IDLE) = 4
        /\ PROG_IDLE[1] = 1 /\ PROG_IDLE[2] = 1 /\ PROG_IDLE[3] = 6 /\ PROG_IDLE[4] = 2
    BY WordAssumption DEF PROG_IDLE
  <2>2. M \in Nat /\ M >= 4 /\ Blank(M) \in Machine(M)
    BY <2>1, ComputerAssumption, BlankIsMachine
  <2>3. PICK words : words = PROG_IDLE
    OBVIOUS
  <2>4. cpu = load_words(Blank(M), words, 0)
    BY <2>3 DEF Init
  <2>5. words \in Seq(Word) /\ 0 \in Nat /\ Len(words) = 4
    BY <2>1, <2>3
  <2>6. \A a \in 0 .. M - 1 :
          a - 0 \in 0 .. Len(words) - 1 => cpu.Mem[a] = words[a - 0 + 1]
    <3>1. PICK m, c : m = Blank(M) /\ c = load_words(m, words, 0)
      OBVIOUS
    <3>2. \A a \in 0 .. M - 1 :
            a - 0 \in 0 .. Len(words) - 1 => c.Mem[a] = words[a - 0 + 1]
      <4>1. M \in Nat /\ m \in Machine(M) /\ words \in Seq(Word) /\ 0 \in Nat
        BY <2>2, <2>5, <3>1
      <4> QED BY <3>1, <4>1, LoadWordsFacts
    <3> QED BY <2>4, <3>1, <3>2
  <2>7. \A a \in 0 .. 3 : a \in 0 .. M - 1 /\ cpu.Mem[a] = words[a + 1]
    BY <2>2, <2>5, <2>6
  <2>8. /\ cpu.Mem[0] = words[1] /\ cpu.Mem[1] = words[2] /\ cpu.Mem[2] = words[3]
        /\ cpu.Mem[3] = words[4]
    BY <2>7
  <2> QED BY <2>1, <2>3, <2>8 DEF IdleWords
<1>4. IdleAt(PCB[1])
  <2>1. PCB[1] = NewContext(0)
    BY Constants DEF Init
  <2> QED BY <2>1 DEF IdleAt, NewContext, Register
<1> QED BY <1>1, <1>2, <1>3, <1>4, Threads
        DEF FollowInv, IdleInv, NamesInv, ApartInv, TextsInv

LEMMA FollowStep ==
  ASSUME Disciplined(Nat), TInv, LockInv, PlacesInv, SentInv, FollowInv, Next,
         status' = "running"
  PROVE  FollowInv'
<1>1. Flat
  BY FlatNext
<1>2. CASE \/ Test \/ WaitTurn \/ Wake \/ EndTurn \/ Join \/ Prompt \/ GetLine
           \/ ShellWait \/ ShellPost \/ PrinterGone
  BY <1>2, StillSteps
<1>3. CASE \E t \in Thread :
             Terminate(t) \/ DumpSpool(t) \/ LoadPrompt(t) \/ LoadName(t) \/ NoLoad(t)
  BY <1>3, StillCommands
<1>4. CASE Pick
  BY <1>4, PickFollows
<1>5. CASE Compute \/ Sleep
  BY <1>5, ComputeFollows
<1>6. CASE PrintAC
  BY <1>6, PrintACFollows
<1>7. CASE ShellInstr
  BY <1>7, ShellFollows
<1>8. CASE Expire
  BY <1>8, ExpireFollows
<1>9. CASE Exit
  BY <1>9, ExitFollows
<1>10. CASE PowerOff
  BY <1>10, PowerOffFollows
<1>11. CASE \E t \in Thread : Dump(t)
  BY <1>11, DumpFollows
<1>12. CASE \E t \in Thread : Load(t)
  BY <1>12, LoadFollows
<1>13. ~Undefined
  BY DEF Undefined
<1> QED BY <1>1, <1>2, <1>3, <1>4, <1>5, <1>6, <1>7, <1>8, <1>9, <1>10, <1>11, <1>12,
           <1>13 DEF Flat

(* No step follows the end of the computer.                                *)
LEMMA OverStays == Next => status = "running"
BY FlatNext DEF Flat, Test, WaitTurn, Pick, Compute, PrintAC, Sleep, Wake, ShellInstr,
   Expire, Exit, EndTurn, Undefined, Join, PowerOff, Prompt, GetLine, ShellWait,
   ShellPost, PrinterGone, Terminate, Dump, DumpSpool, LoadPrompt, LoadName, Load,
   NoLoad, Fetch, Step

RunInv == status = "running" => FollowInv
AllInv == TInv /\ LockInv /\ PlacesInv /\ SentInv /\ RunInv

LEMMA StutterStays ==
  ASSUME AllInv, UNCHANGED vars
  PROVE  AllInv'
<1>1. UNCHANGED <<MUTEX, TERMINATE, pc, cmd, name, PROCESS_COUNT, capacity, PCB, ReadyQueue,
                  RUNNING_PCB, cpu, ticks, spool, sent, printer, typed, program, status>>
  BY DEF vars, calm, request, procs, table, output, outside
<1>2. TInv'
  BY TInvStep DEF AllInv
<1>3. LockInv' /\ PlacesInv' /\ SentInv'
  BY <1>1 DEF AllInv, LockInv, PlacesInv, Alive, PlacesOnce, Busy, SentInv
<1>4. RunInv'
  <2>1. Submitted' = Submitted /\ (Running' <=> Running) /\ \A p : InCPU(p)' <=> InCPU(p)
    BY <1>1 DEF Submitted, Running, InCPU
  <2>2. ASSUME FollowInv PROVE FollowInv'
    <3>1. Still
      BY <1>1, <2>1 DEF Still
    <3>2. NamesInv'
      BY <1>1, <2>2, RestStays
    <3> QED BY <2>2, <3>1, <3>2, StillStep
  <2> QED BY <1>1, <2>2 DEF AllInv, RunInv
<1> QED BY <1>2, <1>3, <1>4 DEF AllInv

LEMMA AllStep ==
  ASSUME NoBadBase, Disciplined(Nat), AllInv, [Next]_vars
  PROVE  AllInv'
<1>1. CASE UNCHANGED vars
  BY <1>1, StutterStays
<1>2. CASE Next
  <2>1. TInv /\ LockInv /\ PlacesInv /\ SentInv /\ FollowInv
    BY <1>2, OverStays DEF AllInv, RunInv
  <2>2. TInv' /\ LockInv' /\ PlacesInv' /\ SentInv'
    BY <1>2, <2>1, TInvStep, LockStep, PlacesStep, SentStep DEF PlacesInv
  <2>3. RunInv'
    BY <1>2, <2>1, FollowStep DEF RunInv
  <2> QED BY <2>2, <2>3 DEF AllInv
<1> QED BY <1>1, <1>2

LEMMA AllInit == Init => AllInv
BY TInvInit, LockInit, PlacesInit, SentInit, FollowInit DEF AllInv, RunInv

(* Every process that has a spool file is at a point of its run, of as many*)
(* instructions as it took, and what was sent of it is the output of one.  *)
OnCourse ==
  status = "running" =>
    \A p \in Submitted :
      /\ spool[p] # NoFile =>
           \E n \in Nat :
             /\ At(p, Alone(program[p], IF Pending(p) THEN n + 1 ELSE n))
             /\ Common(spool[p]) = Common(Alone(program[p], n).out)
      /\ \A k \in SentFor(p) : TextOf(program[p], sent[k])

LEMMA FollowOnCourse == RunInv => OnCourse
<1> SUFFICES ASSUME FollowInv, NEW p \in Submitted
             PROVE  /\ spool[p] # NoFile =>
                         \E n \in Nat :
                           /\ At(p, Alone(program[p], IF Pending(p) THEN n + 1 ELSE n))
                           /\ Common(spool[p]) = Common(Alone(program[p], n).out)
                    /\ \A k \in SentFor(p) : TextOf(program[p], sent[k])
  BY DEF RunInv, OnCourse
<1> DEFINE f == program[p]
           c == Context(p)
<1>1. \A k \in SentFor(p) : TextOf(program[p], sent[k])
  BY DEF FollowInv, TextsInv, SentFor
<1>2. spool[p] # NoFile => Tracked(f, c, cpu.Mem, spool[p], cmd[Main], Pending(p))
  BY DEF FollowInv, ProcessInv
<1>3. \A run : Holds(f, c, cpu.Mem, run) => At(p, run)
  BY DEF Holds, At
<1> HIDE DEF f, c
<1>4. ASSUME spool[p] # NoFile
      PROVE  \E n \in Nat : /\ At(p, Alone(f, IF Pending(p) THEN n + 1 ELSE n))
                            /\ Common(spool[p]) = Common(Alone(f, n).out)
  <2>1. CASE Pending(p)
    <3>1. PICK n \in Nat : Owes(f, c, cpu.Mem, spool[p], cmd[Main], n)
      BY <1>2, <1>4, <2>1 DEF Tracked
    <3>2. At(p, Alone(f, n + 1)) /\ Common(spool[p]) = Common(Alone(f, n).out)
      BY <1>3, <3>1 DEF Owes
    <3> QED BY <2>1, <3>2
  <2>2. CASE ~Pending(p)
    <3>1. PICK n \in Nat : Follow(f, c, cpu.Mem, spool[p], n)
      BY <1>2, <1>4, <2>2 DEF Tracked
    <3>2. At(p, Alone(f, n)) /\ Common(spool[p]) = Common(Alone(f, n).out)
      BY <1>3, <3>1 DEF Follow
    <3> QED BY <2>2, <3>2
  <2> QED BY <2>1, <2>2
<1> QED BY <1>1, <1>4 DEF f

(* Time sharing is transparent: whatever the scheduler switches, the shell *)
(* executes and other processes do, a process has the registers, memory and*)
(* output its program has alone after some number of instructions, however *)
(* long it runs, and what EXIT has printed is all the output of that run.  *)
THEOREM TimeSharing ==
  ASSUME NoBadBase, Disciplined(Nat)
  PROVE  Spec => []OnCourse
<1>1. AllInv /\ [Next]_vars => AllInv'
  BY AllStep
<1>2. AllInv => OnCourse
  BY FollowOnCourse DEF AllInv
<1> QED BY <1>1, <1>2, AllInit, PTL DEF Spec

(* When the reference runs go round within Horizon instructions, or end,   *)
(* what is taken of them is enough.                                        *)
LEMMA DisciplinedAlways ==
  ASSUME HorizonReached, Disciplined(0 .. Horizon)
  PROVE  Disciplined(Nat)
<1> DEFINE fine(f, s) ==
      LET at == Base[f] + s.PC
      IN  /\ Strays(f, s) =>
               \/ ~({at, at + 1} \subseteq 0 .. M - 1)
               \/ /\ {at, at + 1} \subseteq Segment(f)
                  /\ Base[f] + s.Mem[at + 1] \notin 0 .. M - 1
          /\ {at, at + 1} \subseteq Segment(f) /\ s.Mem[at] = 9 =>
               s.Mem[at + 1] \in 0 .. 255
<1>1. \A f \in File \ Short, n \in 0 .. Horizon : fine(f, Alone(f, n))
  BY DEF Disciplined
<1>2. (\A f \in File \ Short, n \in Nat : fine(f, Alone(f, n))) => Disciplined(Nat)
  BY DEF Disciplined
<1> HIDE DEF fine
<1>3. ASSUME NEW f \in File \ Short, NEW n \in Nat PROVE fine(f, Alone(f, n))
  <2>1. PICK m \in 0 .. Horizon - 1 : Alone(f, m) = Alone(f, n)
    BY RunCovered
  <2>2. m \in 0 .. Horizon
    BY ComputerAssumption
  <2> QED BY <1>1, <2>1, <2>2
<1> QED BY <1>2, <1>3

LEMMA CourseCovered ==
  ASSUME HorizonReached, RunInv, OnCourse
  PROVE  Transparent
<1> SUFFICES ASSUME FollowInv, status = "running", NEW p \in Submitted
             PROVE  /\ spool[p] # NoFile => \E n \in 0 .. Horizon : AsAlone(p, n)
                    /\ \A k \in SentFor(p) :
                         \E n \in 0 .. Horizon :
                           /\ Common(sent[k].text) = Common(Runs[program[p]][n].out)
                           /\ sent[k].type = "END_SPOOL" => Runs[program[p]][n].over
  BY DEF RunInv, Transparent
<1> DEFINE f == program[p]
<1>1. f \in File
  BY DEF FollowInv, ProcessInv
<1>2. \A n \in 0 .. Horizon : Runs[f][n] = Alone(f, n)
  BY <1>1 DEF Runs
<1>3. /\ spool[p] # NoFile =>
           \E n \in Nat : /\ At(p, Alone(f, IF Pending(p) THEN n + 1 ELSE n))
                          /\ Common(spool[p]) = Common(Alone(f, n).out)
      /\ \A k \in SentFor(p) : TextOf(f, sent[k])
  BY DEF OnCourse
<1> HIDE DEF f
<1>4. \A n \in Nat : \E m \in 0 .. Horizon - 1 :
        /\ m \in 0 .. Horizon /\ m + 1 \in 0 .. Horizon
        /\ Alone(f, m) = Alone(f, n) /\ Alone(f, m + 1) = Alone(f, n + 1)
  <2> SUFFICES ASSUME NEW n \in Nat
               PROVE  \E m \in 0 .. Horizon - 1 :
                        /\ m \in 0 .. Horizon /\ m + 1 \in 0 .. Horizon
                        /\ Alone(f, m) = Alone(f, n) /\ Alone(f, m + 1) = Alone(f, n + 1)
    OBVIOUS
  <2>1. PICK m \in 0 .. Horizon - 1 : Alone(f, m) = Alone(f, n)
    BY <1>1, RunCovered
  <2>2. m \in Nat /\ m \in 0 .. Horizon /\ m + 1 \in 0 .. Horizon
    BY ComputerAssumption
  <2>3. Alone(f, m + 1) = Alone(f, n + 1)
    BY <1>1, <2>1, <2>2, AloneFacts
  <2> QED BY <2>1, <2>2, <2>3
<1>5. ASSUME spool[p] # NoFile PROVE \E n \in 0 .. Horizon : AsAlone(p, n)
  <2>1. PICK n \in Nat : /\ At(p, Alone(f, IF Pending(p) THEN n + 1 ELSE n))
                         /\ Common(spool[p]) = Common(Alone(f, n).out)
    BY <1>3, <1>5
  <2>2. PICK m \in 0 .. Horizon - 1 :
          /\ m \in 0 .. Horizon /\ m + 1 \in 0 .. Horizon
          /\ Alone(f, m) = Alone(f, n) /\ Alone(f, m + 1) = Alone(f, n + 1)
    BY <1>4
  <2>3. \A i \in 0 .. Horizon, j \in 0 .. Horizon :
          /\ j = (IF Pending(p) THEN i - 1 ELSE i)
          /\ At(p, Alone(f, i)) /\ Common(spool[p]) = Common(Alone(f, j).out)
          => AsAlone(p, i)
    <3> SUFFICES ASSUME NEW i \in 0 .. Horizon, NEW j \in 0 .. Horizon,
                        j = (IF Pending(p) THEN i - 1 ELSE i),
                        At(p, Alone(f, i)), Common(spool[p]) = Common(Alone(f, j).out)
                 PROVE  AsAlone(p, i)
      OBVIOUS
    <3>1. At(p, Runs[f][i]) /\ Common(spool[p]) = Common(Runs[f][j].out) /\ j >= 0
      BY <1>2
    <3>2. j = IF InCPU(p) /\ pc[Main] = "command" THEN i - 1 ELSE i
      BY DEF Pending
    <3> QED BY <3>1, <3>2 DEF AsAlone, f
  <2>4. CASE Pending(p)
    <3>1. m = (m + 1) - 1
      OBVIOUS
    <3>2. At(p, Alone(f, m + 1)) /\ Common(spool[p]) = Common(Alone(f, m).out)
      BY <2>1, <2>2, <2>4
    <3>3. AsAlone(p, m + 1)
      BY <2>2, <2>3, <2>4, <3>1, <3>2
    <3> QED BY <2>2, <3>3
  <2>5. CASE ~Pending(p)
    <3>1. AsAlone(p, m)
      BY <2>1, <2>2, <2>3, <2>5
    <3> QED BY <2>2, <3>1
  <2> QED BY <2>4, <2>5
<1>6. ASSUME NEW k \in SentFor(p)
      PROVE  \E n \in 0 .. Horizon :
               /\ Common(sent[k].text) = Common(Runs[f][n].out)
               /\ sent[k].type = "END_SPOOL" => Runs[f][n].over
  <2>1. PICK n \in Nat : /\ Common(sent[k].text) = Common(Alone(f, n).out)
                         /\ sent[k].type = "END_SPOOL" => Alone(f, n).over
    BY <1>3 DEF TextOf
  <2>2. PICK m \in 0 .. Horizon : Alone(f, m) = Alone(f, n)
    BY <1>4
  <2> QED BY <1>2, <2>1, <2>2
<1> QED BY <1>5, <1>6 DEF f

(* Transparent, as the runs check it, for every set of programs that come  *)
(* round or end within Horizon instructions, every quantum, and every      *)
(* number of processes and lines: the scheduler, shell and loader let no   *)
(* process see another one.                                                *)
THEOREM TransparentRuns ==
  ASSUME NoBadBase, HorizonReached, Disciplined(0 .. Horizon)
  PROVE  Spec => []Transparent
<1>1. Disciplined(Nat)
  BY DisciplinedAlways
<1>2. AllInv /\ [Next]_vars => AllInv'
  BY <1>1, AllStep
<1>3. AllInv => Transparent
  BY FollowOnCourse, CourseCovered DEF AllInv
<1> QED BY <1>2, <1>3, AllInit, PTL DEF Spec
=================================================================================
