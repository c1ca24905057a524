----------------------------- MODULE PaperProofs -----------------------------
(***************************************************************************)
(* Theorems about Printer: what becomes of the messages.  Where the print  *)
(* IDs are distinct, none is lost, printed twice or out of its order, or   *)
(* with another one's text, and the printer is the service of PrintService,*)
(* whatever the interleaving and wherever SIGINT comes.                    *)
(***************************************************************************)
EXTENDS PrinterProofs, Induction

(* The CID of a computer is its own, and a process prints once.            *)
Distinct ==
  \A c, d \in Client : \A k \in DOMAIN Script[c], l \in DOMAIN Script[d] :
    Script[c][k].id = Script[d][l].id => c = d /\ k = l

-----------------------------------------------------------------------------
(* The messages of one connection.                                         *)

(* The terms Of puts together.                                             *)
Own(c, m) == IF Carries(c, m) THEN <<m>> ELSE <<>>

(* A term is a sequence of what the message is of.                         *)
LEMMA OwnType == ASSUME NEW c, NEW T, NEW m \in T PROVE Own(c, m) \in Seq(T)
<1>1. <<m>> \in Seq(T) /\ <<>> \in Seq(T)
  OBVIOUS
<1> QED BY <1>1 DEF Own

(* Nothing has nothing of a connection ...                                 *)
LEMMA OfNone == ASSUME NEW c PROVE Of(c, <<>>) = <<>>
<1> DEFINE s == [k \in DOMAIN <<>> |-> IF Carries(c, <<>>[k]) THEN <<<<>>[k]>> ELSE <<>>]
<1>1. s = <<>>
  OBVIOUS
<1>2. Len(s) = 0
  BY <1>1
<1>3. FlattenSeq(s) = s
  BY <1>2, FlattenIs
<1> QED BY <1>1, <1>3 DEF Of

(* ... and what it has of it is of the same kind as the rest.              *)
LEMMA OfType ==
  ASSUME NEW c, NEW T, NEW s \in Seq(T)
  PROVE  Of(c, s) \in Seq(T)
<1> DEFINE f == [k \in DOMAIN s |-> IF Carries(c, s[k]) THEN <<s[k]>> ELSE <<>>]
<1>1. f \in Seq(Seq(T))
  <2>1. DOMAIN s = 1 .. Len(s) /\ Len(s) \in Nat
    OBVIOUS
  <2>2. \A k \in 1 .. Len(s) : f[k] \in Seq(T)
    BY <2>1, OwnType DEF Own
  <2> QED BY <2>1, <2>2
<1>2. FlattenSeq(f) \in Seq(T)
  <2> HIDE DEF f
  <2> QED BY <1>1, FlattenType
<1> QED BY <1>2 DEF Of

(* One message more.                                                       *)
LEMMA OfAppend ==
  ASSUME NEW c, NEW T, NEW s \in Seq(T), NEW m \in T
  PROVE  LET r == Append(s, m) IN Of(c, r) = Of(c, s) \o Own(c, m)
<1> DEFINE r == Append(s, m)
           f == [k \in DOMAIN s |-> IF Carries(c, s[k]) THEN <<s[k]>> ELSE <<>>]
           g == [k \in DOMAIN r |-> IF Carries(c, r[k]) THEN <<r[k]>> ELSE <<>>]
           n == Len(s)
<1>1. /\ DOMAIN s = 1 .. n /\ n \in Nat
      /\ DOMAIN r = 1 .. n + 1 /\ r[n + 1] = m
      /\ \A k \in 1 .. n : r[k] = s[k]
  OBVIOUS
<1>2. /\ DOMAIN f = 1 .. n /\ DOMAIN g = 1 .. n + 1
      /\ \A k \in 1 .. n : f[k] = g[k]
      /\ g[n + 1] = Own(c, m)
  BY <1>1 DEF Own
<1>3. Len(f) = n /\ Len(g) = n + 1
  BY <1>1, <1>2
<1>4. Of(c, s) = FlattenSeq(f) /\ Of(c, r) = FlattenSeq(g)
  BY DEF Of
<1> HIDE DEF f, g, n, r
<1>5. CASE n = 0
  <2>1. Len(g) = 1 /\ g[1] = Own(c, m)
    BY <1>2, <1>3, <1>5
  <2>2. FlattenSeq(g) = Own(c, m)
    BY <2>1, FlattenOne
  <2>3. s = <<>>
    BY <1>1, <1>5 DEF n
  <2>4. Of(c, s) = <<>>
    BY <2>3, OfNone
  <2>5. Own(c, m) \in Seq(T)
    BY OwnType
  <2>6. Of(c, s) \o Own(c, m) = Own(c, m)
    BY <2>4, <2>5
  <2> QED BY <1>4, <2>2, <2>6 DEF r
<1>6. CASE n # 0
  <2>1. /\ n + 1 \in Nat /\ n = (n + 1) - 1
    BY <1>1
  <2>2. FlattenSeq(g) = FlattenSeq(f) \o g[n + 1]
    BY <1>1, <1>2, <1>3, <1>6, <2>1, FlattenLonger
  <2> QED BY <1>2, <1>4, <2>2 DEF r
<1> QED BY <1>5, <1>6

-----------------------------------------------------------------------------
(* Lines of messages.  L has a line for each communicator; P[c] messages   *)
(* of connection c have left it, R[c] have joined it.                      *)

(* Message r of connection c.                                              *)
Msg(c, r) == Script[c][r]
Size(c) == Len(Script[c])

(* What is in a line is a message of some connection, between the two.     *)
Listed(L, P, R) ==
  \A i \in Comm : \A k \in 1 .. Len(L[i]) :
    \E c \in Client : \E r \in P[c] + 1 .. R[c] : L[i][k] = Msg(c, r)

(* The messages of a connection stand in one line, in order, once each.    *)
Ordered(L) ==
  \A i \in Comm : \A j \in Comm :
    \A k \in 1 .. Len(L[i]) : \A l \in 1 .. Len(L[j]) :
    \A c \in Client : \A r \in 1 .. Size(c) : \A s \in 1 .. Size(c) :
      L[i][k] = Msg(c, r) /\ L[j][l] = Msg(c, s) => i = j /\ (r < s <=> k < l)

(* Message r of c is in some line.                                         *)
InLine(L, c, r) == \E i \in Comm : \E k \in 1 .. Len(L[i]) : L[i][k] = Msg(c, r)

(* With a message in a line those before it are there; all of them, unless *)
(* some have been lost.                                                    *)
NoGap(L, P, R, all) ==
  \A c \in Client : \A r \in P[c] + 1 .. R[c] + 1 :
    (IF r = R[c] + 1 THEN all ELSE InLine(L, c, r))
      => \A s \in P[c] + 1 .. r - 1 : InLine(L, c, s)

Counts(L, P, R) ==
  /\ L \in [Comm -> Seq(PrintMsg)]
  /\ P \in [Client -> Nat] /\ R \in [Client -> Nat]
  /\ \A c \in Client : P[c] <= R[c] /\ R[c] <= Size(c)

Lined(L, P, R, all) ==
  Counts(L, P, R) /\ Listed(L, P, R) /\ Ordered(L) /\ NoGap(L, P, R, all)

(* Only one message of one connection is what it is.                       *)
LEMMA Unique ==
  ASSUME Distinct, NEW c \in Client, NEW d \in Client,
         NEW r \in 1 .. Size(c), NEW s \in 1 .. Size(d),
         Msg(c, r) = Msg(d, s)
  PROVE  c = d /\ r = s
<1>1. DOMAIN Script[c] = 1 .. Size(c) /\ DOMAIN Script[d] = 1 .. Size(d)
  BY DataAssumption DEF Size
<1>2. Script[c][r].id = Script[d][s].id
  BY DEF Msg
<1>3. r \in DOMAIN Script[c] /\ s \in DOMAIN Script[d]
  BY <1>1
<1> QED BY <1>2, <1>3 DEF Distinct

(* The script of a connection is finite.                                   *)
LEMMA LastType == \A c \in Client : Size(c) \in Nat
BY DataAssumption DEF Size

(* Two messages of a connection.                                           *)
LEMMA OrderedAt ==
  ASSUME NEW L, Ordered(L), NEW i \in Comm, NEW j \in Comm,
         NEW k \in 1 .. Len(L[i]), NEW l \in 1 .. Len(L[j]), NEW c \in Client,
         NEW r \in 1 .. Size(c), NEW s \in 1 .. Size(c),
         L[i][k] = Msg(c, r), L[j][l] = Msg(c, s)
  PROVE  i = j /\ (r < s <=> k < l)
BY DEF Ordered

(* M is L with x at the end of line i.                                     *)
Longer(L, M, i, x) ==
  /\ Len(M[i]) = Len(L[i]) + 1 /\ M[i][Len(L[i]) + 1] = x
  /\ \A k \in 1 .. Len(L[i]) : M[i][k] = L[i][k]
  /\ \A j \in Comm \ {i} : M[j] = L[j]

(* Where a place of the longer line comes from.                            *)
LEMMA LongerPlaces ==
  ASSUME NEW L, NEW M, NEW i \in Comm, NEW x, L \in [Comm -> Seq(PrintMsg)],
         Longer(L, M, i, x)
  PROVE  /\ \A j \in Comm : \A k \in 1 .. Len(L[j]) : k \in 1 .. Len(M[j]) /\ M[j][k] = L[j][k]
         /\ \A j \in Comm : \A k \in 1 .. Len(M[j]) :
              \/ k \in 1 .. Len(L[j]) /\ M[j][k] = L[j][k]
              \/ j = i /\ k = Len(L[i]) + 1 /\ M[j][k] = x
<1> DEFINE n == Len(L[i])
<1>1. /\ n \in Nat /\ Len(M[i]) = n + 1 /\ M[i][n + 1] = x
      /\ \A k \in 1 .. n : M[i][k] = L[i][k]
  BY DEF Longer
<1>2. \A j \in Comm \ {i} : M[j] = L[j]
  BY DEF Longer
<1>3. \A k \in 1 .. n : k \in 1 .. n + 1
  BY <1>1
<1>4. \A k \in 1 .. n + 1 : k \in 1 .. n \/ k = n + 1
  BY <1>1
<1>5. ASSUME NEW j \in Comm
      PROVE  /\ \A k \in 1 .. Len(L[j]) : k \in 1 .. Len(M[j]) /\ M[j][k] = L[j][k]
             /\ \A k \in 1 .. Len(M[j]) :
                  \/ k \in 1 .. Len(L[j]) /\ M[j][k] = L[j][k]
                  \/ j = i /\ k = Len(L[i]) + 1 /\ M[j][k] = x
  <2>1. CASE j = i
    <3> HIDE DEF n
    <3>1. /\ \A k \in 1 .. n : k \in 1 .. Len(M[i]) /\ M[i][k] = L[i][k]
          /\ \A k \in 1 .. Len(M[i]) :
               \/ k \in 1 .. n /\ M[i][k] = L[i][k]
               \/ k = n + 1 /\ M[i][k] = x
      BY <1>1, <1>3, <1>4
    <3> QED BY <2>1, <3>1 DEF n
  <2>2. CASE j # i
    BY <1>2, <2>2
  <2> QED BY <2>1, <2>2
<1> QED BY <1>5

(* Messages of the lines are known to their connections.                   *)
LEMMA ListedAt ==
  ASSUME Distinct, NEW L, NEW P, NEW R, Counts(L, P, R), Listed(L, P, R),
         NEW j \in Comm, NEW k \in 1 .. Len(L[j]), NEW c \in Client,
         NEW r \in 1 .. Size(c), L[j][k] = Msg(c, r)
  PROVE  r \in P[c] + 1 .. R[c]
<1>1. PICK d \in Client : \E s \in P[d] + 1 .. R[d] : L[j][k] = Msg(d, s)
  BY DEF Listed
<1>2. PICK s \in P[d] + 1 .. R[d] : L[j][k] = Msg(d, s)
  BY <1>1
<1>3. s \in 1 .. Size(d)
  <2>1. P[d] \in Nat /\ R[d] \in Nat /\ R[d] <= Size(d)
    BY DEF Counts
  <2>2. Size(d) \in Nat
    BY LastType
  <2> QED BY <2>1, <2>2
<1>4. Msg(c, r) = Msg(d, s)
  BY <1>2
<1>5. c = d /\ r = s
  BY <1>3, <1>4, Unique
<1> QED BY <1>2, <1>5

(* What the lines have of c is in line i, and before message b.            *)
Before(L, i, c, b) ==
  \A j \in Comm : \A k \in 1 .. Len(L[j]) : \A r \in 1 .. Size(c) :
    L[j][k] = Msg(c, r) => j = i /\ r < b

(* The order, when the last message joins.                                 *)
LEMMA JoinOrdered ==
  ASSUME Distinct, NEW L, L \in [Comm -> Seq(PrintMsg)], Ordered(L), NEW M,
         NEW i \in Comm, NEW c \in Client, NEW b \in 1 .. Size(c),
         Longer(L, M, i, Msg(c, b)), Before(L, i, c, b)
  PROVE  Ordered(M)
<1> DEFINE x == Msg(c, b)
<1>1. \A j \in Comm : \A k \in 1 .. Len(M[j]) :
        \/ k \in 1 .. Len(L[j]) /\ M[j][k] = L[j][k]
        \/ j = i /\ k = Len(L[i]) + 1 /\ M[j][k] = x
  <2>1. Longer(L, M, i, x)
    OBVIOUS
  <2> HIDE DEF x
  <2> QED BY <2>1, LongerPlaces
<1>2. Len(L[i]) \in Nat
  OBVIOUS
<1> SUFFICES ASSUME NEW j \in Comm, NEW h \in Comm,
                    NEW k \in 1 .. Len(M[j]), NEW l \in 1 .. Len(M[h]),
                    NEW d \in Client, NEW r \in 1 .. Size(d),
                    NEW s \in 1 .. Size(d),
                    M[j][k] = Msg(d, r), M[h][l] = Msg(d, s)
             PROVE  j = h /\ (r < s <=> k < l)
  BY DEF Ordered
<1>3. ASSUME M[j][k] = x PROVE d = c /\ r = b
  <2>1. Msg(d, r) = Msg(c, b)
    BY <1>3
  <2> QED BY <2>1, Unique
<1>4. ASSUME M[h][l] = x PROVE d = c /\ s = b
  <2>1. Msg(d, s) = Msg(c, b)
    BY <1>4
  <2> QED BY <2>1, Unique
<1>5. ASSUME k \in 1 .. Len(L[j]), M[j][k] = L[j][k], d = c
      PROVE  j = i /\ r < b /\ k < Len(L[i]) + 1
  <2>1. L[j][k] = Msg(c, r) /\ r \in 1 .. Size(c)
    BY <1>5
  <2>2. j = i /\ r < b
    BY <1>5, <2>1 DEF Before
  <2>3. k \in 1 .. Len(L[i])
    BY <1>5, <2>2
  <2> QED BY <1>2, <2>2, <2>3
<1>6. ASSUME l \in 1 .. Len(L[h]), M[h][l] = L[h][l], d = c
      PROVE  h = i /\ s < b /\ l < Len(L[i]) + 1
  <2>1. L[h][l] = Msg(c, s) /\ s \in 1 .. Size(c)
    BY <1>6
  <2>2. h = i /\ s < b
    BY <1>6, <2>1 DEF Before
  <2>3. l \in 1 .. Len(L[i])
    BY <1>6, <2>2
  <2> QED BY <1>2, <2>2, <2>3
<1> HIDE DEF x
<1>7. CASE /\ k \in 1 .. Len(L[j]) /\ M[j][k] = L[j][k]
           /\ l \in 1 .. Len(L[h]) /\ M[h][l] = L[h][l]
  <2>1. L[j][k] = Msg(d, r) /\ L[h][l] = Msg(d, s)
    BY <1>7
  <2>2. k \in 1 .. Len(L[j]) /\ l \in 1 .. Len(L[h])
    BY <1>7
  <2> QED BY ONLY Ordered(L), j \in Comm, h \in Comm, d \in Client,
                  r \in 1 .. Size(d), s \in 1 .. Size(d), <2>1, <2>2 DEF Ordered
<1>8. CASE /\ k \in 1 .. Len(L[j]) /\ M[j][k] = L[j][k]
           /\ h = i /\ l = Len(L[i]) + 1 /\ M[h][l] = x
  <2>1. d = c /\ s = b
    BY <1>4, <1>8
  <2> QED BY <1>5, <1>8, <2>1
<1>9. CASE /\ j = i /\ k = Len(L[i]) + 1 /\ M[j][k] = x
           /\ l \in 1 .. Len(L[h]) /\ M[h][l] = L[h][l]
  <2>1. d = c /\ r = b
    BY <1>3, <1>9
  <2>2. h = i /\ s < b /\ l < Len(L[i]) + 1
    BY <1>6, <1>9, <2>1
  <2>3. ~(r < s) /\ ~(k < l)
    BY <1>2, <1>9, <2>1, <2>2
  <2> QED BY <1>9, <2>2, <2>3
<1>10. CASE /\ j = i /\ k = Len(L[i]) + 1 /\ M[j][k] = x
            /\ h = i /\ l = Len(L[i]) + 1 /\ M[h][l] = x
  <2>1. r = b /\ s = b
    BY <1>3, <1>4, <1>10
  <2> QED BY <1>2, <1>10, <2>1
<1> QED BY <1>1, <1>7, <1>8, <1>9, <1>10

(* Q is R with one more for c.                                             *)
OneMore(R, Q, c) ==
  /\ Q \in [Client -> Nat] /\ Q[c] = R[c] + 1
  /\ \A d \in Client \ {c} : Q[d] = R[d]

(* The numbers, when c has one more message in the lines ...               *)
LEMMA JoinCounts ==
  ASSUME NEW L, NEW P, NEW R, Counts(L, P, R), NEW c \in Client, R[c] < Size(c),
         NEW M, M \in [Comm -> Seq(PrintMsg)], NEW Q, OneMore(R, Q, c)
  PROVE  Counts(M, P, Q)
<1>1. \A d \in Client : Size(d) \in Nat
  BY LastType
<1>2. \A d \in Client : P[d] \in Nat /\ R[d] \in Nat /\ P[d] <= R[d] /\ R[d] <= Size(d)
  BY DEF Counts
<1>3. P \in [Client -> Nat] /\ Q \in [Client -> Nat]
  BY DEF Counts, OneMore
<1>4. ASSUME NEW d \in Client PROVE P[d] <= Q[d] /\ Q[d] <= Size(d)
  <2>1. CASE d = c
    <3>1. Q[c] = R[c] + 1
      BY DEF OneMore
    <3> QED BY <1>1, <1>2, <2>1, <3>1
  <2>2. CASE d # c
    <3>1. Q[d] = R[d]
      BY <2>2 DEF OneMore
    <3> QED BY <1>2, <3>1
  <2> QED BY <2>1, <2>2
<1> QED BY <1>3, <1>4 DEF Counts

(* ... and what is in the lines, ...                                       *)
LEMMA JoinListed ==
  ASSUME NEW L, NEW P, NEW R, Counts(L, P, R), Listed(L, P, R), NEW c \in Client,
         NEW M, NEW i \in Comm, Longer(L, M, i, Msg(c, R[c] + 1)),
         NEW Q, OneMore(R, Q, c)
  PROVE  Listed(M, P, Q)
<1> SUFFICES ASSUME NEW j \in Comm, NEW k \in 1 .. Len(M[j])
             PROVE  \E d \in Client : \E r \in P[d] + 1 .. Q[d] : M[j][k] = Msg(d, r)
  BY DEF Listed
<1>1. \A d \in Client : P[d] \in Nat /\ R[d] \in Nat /\ P[d] <= R[d]
  BY DEF Counts
<1>2. \A d \in Client : Q[d] = IF d = c THEN R[d] + 1 ELSE R[d]
  BY DEF OneMore
<1>3. L \in [Comm -> Seq(PrintMsg)]
  BY DEF Counts
<1>4. \/ k \in 1 .. Len(L[j]) /\ M[j][k] = L[j][k]
      \/ M[j][k] = Msg(c, R[c] + 1)
  <2> DEFINE x == Msg(c, R[c] + 1)
  <2>1. Longer(L, M, i, x)
    OBVIOUS
  <2> HIDE DEF x
  <2>2. \/ k \in 1 .. Len(L[j]) /\ M[j][k] = L[j][k]
        \/ j = i /\ k = Len(L[i]) + 1 /\ M[j][k] = x
    BY <1>3, <2>1, LongerPlaces
  <2> QED BY <2>2 DEF x
<1>5. CASE k \in 1 .. Len(L[j]) /\ M[j][k] = L[j][k]
  <2>1. PICK d \in Client : \E r \in P[d] + 1 .. R[d] : L[j][k] = Msg(d, r)
    BY <1>5 DEF Listed
  <2>2. PICK r \in P[d] + 1 .. R[d] : L[j][k] = Msg(d, r)
    BY <2>1
  <2>3. r \in P[d] + 1 .. Q[d]
    BY <1>1, <1>2, <2>2
  <2> QED BY <1>5, <2>2, <2>3
<1>6. CASE M[j][k] = Msg(c, R[c] + 1)
  <2>1. R[c] + 1 \in P[c] + 1 .. Q[c]
    BY <1>1, <1>2
  <2> QED BY <1>6, <2>1
<1> QED BY <1>4, <1>5, <1>6

(* ... with no gap.                                                        *)
LEMMA JoinNoGap ==
  ASSUME NEW L, NEW P, NEW R, Counts(L, P, R), NoGap(L, P, R, TRUE), NEW c \in Client,
         NEW M, NEW i \in Comm, Longer(L, M, i, Msg(c, R[c] + 1)),
         NEW Q, OneMore(R, Q, c)
  PROVE  NoGap(M, P, Q, TRUE)
<1> DEFINE x == Msg(c, R[c] + 1)
<1>0. Longer(L, M, i, x)
  OBVIOUS
<1> HIDE DEF x
<1>1. \A d \in Client : P[d] \in Nat /\ R[d] \in Nat /\ P[d] <= R[d]
  BY DEF Counts
<1>2. \A d \in Client : Q[d] = IF d = c THEN R[d] + 1 ELSE R[d]
  BY DEF OneMore
<1>3. L \in [Comm -> Seq(PrintMsg)]
  BY DEF Counts
<1>4. \A j \in Comm : \A k \in 1 .. Len(L[j]) : k \in 1 .. Len(M[j]) /\ M[j][k] = L[j][k]
  BY <1>0, <1>3, LongerPlaces
<1>5. \A d \in Client : \A s : InLine(L, d, s) => InLine(M, d, s)
  BY <1>4 DEF InLine
<1>6. InLine(M, c, R[c] + 1)
  <2>1. Len(L[i]) + 1 \in 1 .. Len(M[i]) /\ M[i][Len(L[i]) + 1] = x
    BY <1>0, <1>3 DEF Longer
  <2> QED BY <2>1 DEF InLine, x
<1>7. ASSUME NEW d \in Client, NEW s \in P[d] + 1 .. R[d] PROVE InLine(L, d, s)
  <2>1. R[d] + 1 \in P[d] + 1 .. R[d] + 1 /\ (R[d] + 1) - 1 = R[d]
    BY <1>1
  <2>2. \A u \in P[d] + 1 .. (R[d] + 1) - 1 : InLine(L, d, u)
    BY <2>1 DEF NoGap
  <2> QED BY <2>1, <2>2
<1>8. ASSUME NEW d \in Client, NEW s \in P[d] + 1 .. Q[d] PROVE InLine(M, d, s)
  <2>1. CASE s \in P[d] + 1 .. R[d]
    BY <1>5, <1>7, <2>1
  <2>2. CASE d = c /\ s = R[c] + 1
    BY <1>6, <2>2
  <2> QED BY <1>1, <1>2, <1>8, <2>1, <2>2
<1> SUFFICES ASSUME NEW d \in Client, NEW r \in P[d] + 1 .. Q[d] + 1,
                    NEW s \in P[d] + 1 .. r - 1
             PROVE  InLine(M, d, s)
  BY DEF NoGap
<1>9. Q[d] \in Nat /\ P[d] \in Nat
  BY <1>1, <1>2
<1>10. s \in P[d] + 1 .. Q[d]
  BY <1>9
<1> QED BY <1>8, <1>10

(* The next message of c joins line i, which has all of c.                 *)
LEMMA Join ==
  ASSUME Distinct, NEW L, NEW P, NEW R, Lined(L, P, R, TRUE),
         NEW c \in Client, R[c] < Size(c), NEW i \in Comm,
         \A j \in Comm : \A k \in 1 .. Len(L[j]) : \A r \in 1 .. Size(c) :
           L[j][k] = Msg(c, r) => j = i,
         NEW M, M \in [Comm -> Seq(PrintMsg)], Longer(L, M, i, Msg(c, R[c] + 1)),
         NEW Q, OneMore(R, Q, c)
  PROVE  Lined(M, P, Q, TRUE)
<1>1. /\ Counts(L, P, R) /\ Listed(L, P, R) /\ Ordered(L) /\ NoGap(L, P, R, TRUE)
      /\ L \in [Comm -> Seq(PrintMsg)]
  BY DEF Lined, Counts
<1>2. R[c] + 1 \in 1 .. Size(c)
  <2>1. R[c] \in Nat /\ Size(c) \in Nat
    BY <1>1, LastType DEF Counts
  <2> QED BY <2>1
<1>3. Before(L, i, c, R[c] + 1)
  <2> SUFFICES ASSUME NEW j \in Comm, NEW k \in 1 .. Len(L[j]), NEW r \in 1 .. Size(c),
                      L[j][k] = Msg(c, r)
               PROVE  j = i /\ r < R[c] + 1
    BY DEF Before
  <2>1. r \in P[c] + 1 .. R[c]
    BY <1>1, ListedAt
  <2>2. R[c] \in Nat
    BY <1>1 DEF Counts
  <2> QED BY <2>1, <2>2
<1>4. PICK b \in 1 .. Size(c) : b = R[c] + 1
  BY <1>2
<1>5. Ordered(M)
  <2>1. Longer(L, M, i, Msg(c, b)) /\ Before(L, i, c, b)
    BY <1>3, <1>4
  <2> QED BY <1>1, <2>1, JoinOrdered
<1>6. Counts(M, P, Q)
  BY <1>1, JoinCounts
<1>7. Listed(M, P, Q)
  BY <1>1, JoinListed
<1>8. NoGap(M, P, Q, TRUE)
  BY <1>1, JoinNoGap
<1> QED BY <1>5, <1>6, <1>7, <1>8 DEF Lined

-----------------------------------------------------------------------------
(* The first message of a line leaves.                                     *)

(* M is L without the first of line i.                                     *)
Shorter(L, M, i) ==
  /\ M \in [Comm -> Seq(PrintMsg)] /\ Len(L[i]) = Len(M[i]) + 1
  /\ \A k \in 1 .. Len(M[i]) : M[i][k] = L[i][k + 1]
  /\ \A j \in Comm \ {i} : M[j] = L[j]

(* Where a place of M was in L.                                            *)
Was(i, j, k) == IF j = i THEN k + 1 ELSE k

(* Where a place of the shorter line comes from.                           *)
LEMMA ShorterPlaces ==
  ASSUME NEW L, NEW M, NEW i \in Comm, Shorter(L, M, i)
  PROVE  /\ \A j \in Comm : \A k \in 1 .. Len(M[j]) :
              Was(i, j, k) \in 1 .. Len(L[j]) /\ M[j][k] = L[j][Was(i, j, k)]
         /\ \A j \in Comm : \A k \in 1 .. Len(L[j]) :
              \/ j = i /\ k = 1
              \/ \E l \in 1 .. Len(M[j]) : M[j][l] = L[j][k]
<1>1. /\ M \in [Comm -> Seq(PrintMsg)] /\ Len(L[i]) = Len(M[i]) + 1
      /\ \A k \in 1 .. Len(M[i]) : M[i][k] = L[i][k + 1]
      /\ \A j \in Comm \ {i} : M[j] = L[j]
  BY DEF Shorter
<1>2. Len(M[i]) \in Nat
  BY <1>1
<1>3. ASSUME NEW j \in Comm, NEW k \in 1 .. Len(M[j])
      PROVE  Was(i, j, k) \in 1 .. Len(L[j]) /\ M[j][k] = L[j][Was(i, j, k)]
  <2>1. CASE j = i
    <3>1. k + 1 \in 1 .. Len(L[i])
      BY <1>1, <1>2, <2>1
    <3>2. M[i][k] = L[i][k + 1]
      BY <1>1, <2>1
    <3> QED BY <2>1, <3>1, <3>2 DEF Was
  <2>2. CASE j # i
    BY <1>1, <2>2 DEF Was
  <2> QED BY <2>1, <2>2
<1>4. ASSUME NEW j \in Comm, NEW k \in 1 .. Len(L[j]), ~(j = i /\ k = 1)
      PROVE  \E l \in 1 .. Len(M[j]) : M[j][l] = L[j][k]
  <2>1. CASE j = i
    <3>1. k - 1 \in 1 .. Len(M[i]) /\ (k - 1) + 1 = k
      BY <1>1, <1>2, <1>4, <2>1
    <3>2. M[i][k - 1] = L[i][(k - 1) + 1]
      BY <1>1, <3>1
    <3>3. M[i][k - 1] = L[i][k]
      BY <3>1, <3>2
    <3> QED BY <2>1, <3>1, <3>3
  <2>2. CASE j # i
    BY <1>1, <2>2
  <2> QED BY <2>1, <2>2
<1> QED BY <1>3, <1>4

(* The first message of a line is the next one of its connection.          *)
LEMMA NextOne ==
  ASSUME Distinct, NEW L, NEW P, NEW R, NEW all, Lined(L, P, R, all),
         NEW i \in Comm, Len(L[i]) # 0
  PROVE  \E c \in Client : P[c] < R[c] /\ L[i][1] = Msg(c, P[c] + 1)
<1>1. Counts(L, P, R) /\ Listed(L, P, R) /\ Ordered(L) /\ NoGap(L, P, R, all)
  BY DEF Lined
<1>2. 1 \in 1 .. Len(L[i])
  <2>1. L[i] \in Seq(PrintMsg)
    BY <1>1 DEF Counts
  <2> QED BY <2>1
<1>3. PICK c \in Client : \E r \in P[c] + 1 .. R[c] : L[i][1] = Msg(c, r)
  BY <1>1, <1>2 DEF Listed
<1>4. PICK r \in P[c] + 1 .. R[c] : L[i][1] = Msg(c, r)
  BY <1>3
<1>5. P[c] \in Nat /\ R[c] \in Nat /\ R[c] <= Size(c) /\ Size(c) \in Nat
  BY <1>1, LastType DEF Counts
<1>6. P[c] < R[c] /\ r \in 1 .. Size(c) /\ P[c] + 1 \in 1 .. Size(c)
      /\ r \in P[c] + 1 .. R[c] + 1 /\ r # R[c] + 1
  BY <1>5
<1>7. CASE r # P[c] + 1
  <2>1. P[c] + 1 \in P[c] + 1 .. r - 1
    BY <1>5, <1>7
  <2>2. InLine(L, c, r)
    BY <1>2, <1>4 DEF InLine
  <2>3. InLine(L, c, P[c] + 1)
    BY <1>1, <1>6, <2>1, <2>2 DEF NoGap
  <2>4. PICK j \in Comm : \E k \in 1 .. Len(L[j]) : L[j][k] = Msg(c, P[c] + 1)
    BY <2>3 DEF InLine
  <2>5. PICK k \in 1 .. Len(L[j]) : L[j][k] = Msg(c, P[c] + 1)
    BY <2>4
  <2>6. PICK s \in 1 .. Size(c) : s = P[c] + 1
    BY <1>6
  <2>7. i = j /\ (s < r <=> k < 1)
    <3>1. L[j][k] = Msg(c, s)
      BY <2>5, <2>6
    <3>2. j = i /\ (s < r <=> k < 1)
      BY <1>1, <1>2, <1>4, <1>6, <3>1, OrderedAt
    <3> QED BY <3>2
  <2>8. s < r
    BY <1>5, <2>1, <2>6
  <2>9. ~(k < 1)
    OBVIOUS
  <2> QED BY <2>7, <2>8, <2>9
<1> QED BY <1>4, <1>6, <1>7

(* The order of what is left.                                              *)
LEMMA LeaveOrdered ==
  ASSUME NEW L, Ordered(L), NEW M, NEW i \in Comm, Shorter(L, M, i)
  PROVE  Ordered(M)
<1> SUFFICES ASSUME NEW j \in Comm, NEW h \in Comm,
                    NEW k \in 1 .. Len(M[j]), NEW l \in 1 .. Len(M[h]),
                    NEW d \in Client, NEW r \in 1 .. Size(d),
                    NEW s \in 1 .. Size(d),
                    M[j][k] = Msg(d, r), M[h][l] = Msg(d, s)
             PROVE  j = h /\ (r < s <=> k < l)
  BY DEF Ordered
<1>1. /\ Was(i, j, k) \in 1 .. Len(L[j]) /\ M[j][k] = L[j][Was(i, j, k)]
      /\ Was(i, h, l) \in 1 .. Len(L[h]) /\ M[h][l] = L[h][Was(i, h, l)]
  BY ShorterPlaces
<1>2. PICK a \in 1 .. Len(L[j]) : a = Was(i, j, k)
  BY <1>1
<1>3. PICK b \in 1 .. Len(L[h]) : b = Was(i, h, l)
  BY <1>1
<1>4. L[j][a] = Msg(d, r) /\ L[h][b] = Msg(d, s)
  BY <1>1, <1>2, <1>3
<1>5. j = h /\ (r < s <=> a < b)
  BY <1>4, OrderedAt
<1>6. j = h => (a < b <=> k < l)
  BY <1>2, <1>3 DEF Was
<1> QED BY <1>5, <1>6

(* The next message of c is the first of line i, and leaves.               *)
LEMMA Leave ==
  ASSUME Distinct, NEW L, NEW P, NEW R, NEW all, Lined(L, P, R, all),
         NEW c \in Client, P[c] < R[c], NEW i \in Comm, Len(L[i]) # 0,
         L[i][1] = Msg(c, P[c] + 1), NEW M, Shorter(L, M, i),
         NEW Q, OneMore(P, Q, c)
  PROVE  Lined(M, Q, R, all)
<1>1. Counts(L, P, R) /\ Listed(L, P, R) /\ Ordered(L) /\ NoGap(L, P, R, all)
  BY DEF Lined
<1>2. \A d \in Client : P[d] \in Nat /\ R[d] \in Nat /\ P[d] <= R[d] /\ R[d] <= Size(d)
  BY <1>1 DEF Counts
<1>3. \A d \in Client : Q[d] = IF d = c THEN P[d] + 1 ELSE P[d]
  BY DEF OneMore
<1>4. \A d \in Client : Size(d) \in Nat
  BY LastType
<1>5. Counts(M, Q, R)
  <2>1. M \in [Comm -> Seq(PrintMsg)] /\ Q \in [Client -> Nat]
    BY DEF Shorter, OneMore
  <2>2. R \in [Client -> Nat] /\ \A d \in Client : R[d] <= Size(d)
    BY <1>1 DEF Counts
  <2>3. \A d \in Client : Q[d] <= R[d]
    BY <1>2, <1>3
  <2> QED BY <2>1, <2>2, <2>3 DEF Counts
<1>6. PICK b \in 1 .. Size(c) : b = P[c] + 1
  BY <1>2, <1>4
<1>7. 1 \in 1 .. Len(L[i]) /\ Len(L[i]) \in Nat
  BY <1>1 DEF Counts
<1>8. ASSUME NEW j \in Comm, NEW k \in 1 .. Len(L[j]), L[j][k] = Msg(c, b)
      PROVE  j = i /\ k = 1
  <2>1. L[i][1] = Msg(c, b)
    BY <1>6
  <2>2. i = j /\ (b < b <=> 1 < k)
    BY <1>1, <1>7, <1>8, <2>1, OrderedAt
  <2>3. ~(b < b)
    OBVIOUS
  <2>4. ~(1 < k)
    BY <2>2, <2>3
  <2> QED BY <2>2, <2>4
<1>9. \A j \in Comm : \A k \in 1 .. Len(M[j]) :
        Was(i, j, k) \in 1 .. Len(L[j]) /\ M[j][k] = L[j][Was(i, j, k)]
  BY ShorterPlaces
<1>10. \A j \in Comm : \A k \in 1 .. Len(M[j]) : ~(j = i /\ Was(i, j, k) = 1)
  BY DEF Was
<1>11. Listed(M, Q, R)
  <2> SUFFICES ASSUME NEW j \in Comm, NEW k \in 1 .. Len(M[j])
               PROVE  \E d \in Client : \E r \in Q[d] + 1 .. R[d] : M[j][k] = Msg(d, r)
    BY DEF Listed
  <2>1. PICK a \in 1 .. Len(L[j]) : a = Was(i, j, k)
    BY <1>9
  <2>2. M[j][k] = L[j][a] /\ ~(j = i /\ a = 1)
    BY <1>9, <1>10, <2>1
  <2>3. PICK d \in Client : \E r \in P[d] + 1 .. R[d] : L[j][a] = Msg(d, r)
    BY <1>1 DEF Listed
  <2>4. PICK r \in P[d] + 1 .. R[d] : L[j][a] = Msg(d, r)
    BY <2>3
  <2>5. ~(d = c /\ r = b)
    BY <1>8, <2>2, <2>4
  <2>6. r \in Q[d] + 1 .. R[d]
    BY <1>2, <1>3, <1>6, <2>5
  <2> QED BY <2>2, <2>4, <2>6
<1>12. Ordered(M)
  BY <1>1, LeaveOrdered
<1>13. \A d \in Client : \A r : InLine(M, d, r) => InLine(L, d, r)
  BY <1>9 DEF InLine
<1>14. NoGap(M, Q, R, all)
  <2> SUFFICES ASSUME NEW d \in Client, NEW r \in Q[d] + 1 .. R[d] + 1,
                      IF r = R[d] + 1 THEN all ELSE InLine(M, d, r),
                      NEW s \in Q[d] + 1 .. r - 1
               PROVE  InLine(M, d, s)
    BY DEF NoGap
  <2>1. r \in P[d] + 1 .. R[d] + 1 /\ s \in P[d] + 1 .. r - 1
    BY <1>2, <1>3
  <2>2. IF r = R[d] + 1 THEN all ELSE InLine(L, d, r)
    BY <1>13
  <2>3. InLine(L, d, s)
    BY <1>1, <2>1, <2>2 DEF NoGap
  <2>4. PICK j \in Comm : \E k \in 1 .. Len(L[j]) : L[j][k] = Msg(d, s)
    BY <2>3 DEF InLine
  <2>5. PICK k \in 1 .. Len(L[j]) : L[j][k] = Msg(d, s)
    BY <2>4
  <2>6. s \in 1 .. Size(d)
    BY <1>2, <1>4, <2>1
  <2>7. ~(j = i /\ k = 1)
    <3>1. SUFFICES ASSUME j = i, k = 1 PROVE FALSE
      OBVIOUS
    <3>2. Msg(d, s) = Msg(c, b)
      BY <1>6, <2>5, <3>1
    <3>3. d = c /\ s = b
      BY <2>6, <3>2, Unique
    <3> QED BY <1>2, <1>3, <1>6, <3>3
  <2>8. \A h \in Comm : \A m \in 1 .. Len(L[h]) :
          (h = i /\ m = 1) \/ \E l \in 1 .. Len(M[h]) : M[h][l] = L[h][m]
    BY ShorterPlaces
  <2>9. \E l \in 1 .. Len(M[j]) : M[j][l] = L[j][k]
    BY <2>7, <2>8
  <2> QED BY <2>5, <2>9 DEF InLine
<1> QED BY <1>5, <1>11, <1>12, <1>14 DEF Lined

-----------------------------------------------------------------------------
(* The last message of a line is lost.                                     *)
LEMMA Lose ==
  ASSUME Distinct, NEW L, NEW M, NEW i \in Comm, NEW x, L \in [Comm -> Seq(PrintMsg)],
         Longer(L, M, i, x), NEW P, NEW R, Lined(M, P, R, FALSE)
  PROVE  Lined(L, P, R, FALSE)
<1>1. Counts(M, P, R) /\ Listed(M, P, R) /\ Ordered(M) /\ NoGap(M, P, R, FALSE)
  BY DEF Lined
<1>2. \A j \in Comm : \A k \in 1 .. Len(L[j]) : k \in 1 .. Len(M[j]) /\ M[j][k] = L[j][k]
  <2>1. /\ \A j \in Comm : \A k \in 1 .. Len(L[j]) : k \in 1 .. Len(M[j]) /\ M[j][k] = L[j][k]
        /\ \A j \in Comm : \A k \in 1 .. Len(M[j]) :
             \/ k \in 1 .. Len(L[j]) /\ M[j][k] = L[j][k]
             \/ j = i /\ k = Len(L[i]) + 1 /\ M[j][k] = x
    BY LongerPlaces
  <2> QED BY <2>1
<1>3. \A j \in Comm : Len(L[j]) \in Nat
  OBVIOUS
<1>4. Counts(L, P, R)
  BY <1>1 DEF Counts
<1>5. Listed(L, P, R)
  BY <1>1, <1>2 DEF Listed
<1>6. Ordered(L)
  <2> SUFFICES ASSUME NEW j \in Comm, NEW h \in Comm,
                      NEW k \in 1 .. Len(L[j]), NEW l \in 1 .. Len(L[h]),
                      NEW d \in Client, NEW r \in 1 .. Size(d),
                      NEW s \in 1 .. Size(d),
                      L[j][k] = Msg(d, r), L[h][l] = Msg(d, s)
               PROVE  j = h /\ (r < s <=> k < l)
    BY DEF Ordered
  <2>1. /\ k \in 1 .. Len(M[j]) /\ M[j][k] = Msg(d, r)
        /\ l \in 1 .. Len(M[h]) /\ M[h][l] = Msg(d, s)
    BY <1>2
  <2> QED BY <1>1, <2>1, OrderedAt
<1>7. NoGap(L, P, R, FALSE)
  <2> SUFFICES ASSUME NEW d \in Client, NEW r \in P[d] + 1 .. R[d] + 1,
                      r # R[d] + 1, InLine(L, d, r),
                      NEW s \in P[d] + 1 .. r - 1
               PROVE  InLine(L, d, s)
    BY DEF NoGap
  <2>1. /\ P[d] \in Nat /\ R[d] \in Nat /\ P[d] <= R[d] /\ R[d] <= Size(d)
        /\ Size(d) \in Nat
    BY <1>1, LastType DEF Counts
  <2>2. r \in 1 .. Size(d) /\ s \in 1 .. Size(d) /\ s < r
    <3> DEFINE p == P[d]
               q == R[d]
               n == Size(d)
    <3>1. p \in Nat /\ q \in Nat /\ p <= q /\ q <= n /\ n \in Nat
      BY <2>1
    <3>2. r \in p + 1 .. q + 1 /\ r # q + 1 /\ s \in p + 1 .. r - 1
      OBVIOUS
    <3>3. r \in 1 .. n /\ s \in 1 .. n /\ s < r
      <4> HIDE DEF p, q, n
      <4> QED BY <3>1, <3>2
    <3> QED BY <3>3
  <2>3. PICK h \in Comm : \E l \in 1 .. Len(L[h]) : L[h][l] = Msg(d, r)
    BY DEF InLine
  <2>4. PICK l \in 1 .. Len(L[h]) : L[h][l] = Msg(d, r)
    BY <2>3
  <2>5. l \in 1 .. Len(M[h]) /\ M[h][l] = Msg(d, r)
    BY <1>2, <2>4
  <2>6. InLine(M, d, r)
    BY <2>5 DEF InLine
  <2>7. InLine(M, d, s)
    BY <1>1, <2>6 DEF NoGap
  <2>8. PICK j \in Comm : \E k \in 1 .. Len(M[j]) : M[j][k] = Msg(d, s)
    BY <2>7 DEF InLine
  <2>9. PICK k \in 1 .. Len(M[j]) : M[j][k] = Msg(d, s)
    BY <2>8
  <2>10. j = h /\ (s < r <=> k < l)
    BY <1>1, <2>2, <2>5, <2>9, OrderedAt
  <2>11. k < l
    BY <2>2, <2>10
  <2>12. k \in 1 .. Len(L[j])
    BY <1>3, <2>10, <2>11
  <2>13. L[j][k] = Msg(d, s)
    BY <1>2, <2>9, <2>12
  <2> QED BY <2>12, <2>13 DEF InLine
<1> QED BY <1>4, <1>5, <1>6, <1>7 DEF Lined

(* Nothing changes but that a loss is now possible.                        *)
LEMMA MayLose ==
  ASSUME NEW L, NEW P, NEW R, NEW all, Lined(L, P, R, all)
  PROVE  Lined(L, P, R, FALSE)
BY DEF Lined, NoGap

-----------------------------------------------------------------------------
(* A line: what the printer thread holds, the queue, the communicator's    *)
(* message.                                                                *)
LineOf(f, b, h) == f \o b \o h

(* One message at the end of a sequence, or off its front.                 *)
AtEnd(s, t, x) ==
  /\ Len(t) = Len(s) + 1 /\ t[Len(s) + 1] = x
  /\ \A k \in 1 .. Len(s) : t[k] = s[k]
OffFront(s, t, x) ==
  /\ Len(s) = Len(t) + 1 /\ s[1] = x
  /\ \A k \in 1 .. Len(t) : t[k] = s[k + 1]

(* A line in one piece.                                                    *)
LEMMA LineType ==
  ASSUME NEW T, NEW f \in Seq(T), NEW b \in Seq(T), NEW h \in Seq(T)
  PROVE  /\ LineOf(f, b, h) \in Seq(T)
         /\ Len(LineOf(f, b, h)) = Len(f) + Len(b) + Len(h)
BY DEF LineOf

(* A communicator that has read a message has it at the end of its line.   *)
LEMMA HandFilled ==
  ASSUME NEW T, NEW f \in Seq(T), NEW b \in Seq(T), NEW x \in T
  PROVE  AtEnd(LineOf(f, b, <<>>), LineOf(f, b, <<x>>), x)
<1> DEFINE s == f \o b
<1>1. s \in Seq(T)
  OBVIOUS
<1>2. LineOf(f, b, <<>>) = s \o <<>> /\ LineOf(f, b, <<x>>) = s \o <<x>>
  BY DEF LineOf
<1> HIDE DEF s
<1>3. s \o <<>> = s
  BY <1>1
<1>4. s \o <<x>> = Append(s, x)
  BY <1>1
<1>5. Len(Append(s, x)) = Len(s) + 1 /\ Append(s, x)[Len(s) + 1] = x
      /\ \A k \in 1 .. Len(s) : Append(s, x)[k] = s[k]
  BY <1>1
<1> QED BY <1>2, <1>3, <1>4, <1>5 DEF AtEnd

(* Enqueueing it moves nothing in the line ...                             *)
LEMMA HandPut ==
  ASSUME NEW T, NEW f \in Seq(T), NEW b \in Seq(T), NEW x \in T
  PROVE  LineOf(f, Append(b, x), <<>>) = LineOf(f, b, <<x>>)
<1>1. Append(b, x) = b \o <<x>>
  OBVIOUS
<1>2. (f \o (b \o <<x>>)) \o <<>> = (f \o b) \o <<x>>
  OBVIOUS
<1> QED BY <1>1, <1>2 DEF LineOf

(* ... nor does dequeueing.                                                *)
LEMMA HeadTaken ==
  ASSUME NEW T, NEW b \in Seq(T), NEW h \in Seq(T), b # <<>>
  PROVE  LineOf(<<Head(b)>>, Tail(b), h) = LineOf(<<>>, b, h)
<1>1. <<Head(b)>> \o Tail(b) = b
  OBVIOUS
<1>2. <<>> \o b = b
  OBVIOUS
<1> QED BY <1>1, <1>2 DEF LineOf

(* A printed message leaves the line at its front ...                      *)
LEMMA FrontGone ==
  ASSUME NEW T, NEW x \in T, NEW b \in Seq(T), NEW h \in Seq(T)
  PROVE  OffFront(LineOf(<<x>>, b, h), LineOf(<<>>, b, h), x)
<1> DEFINE s == b \o h
<1>1. s \in Seq(T)
  OBVIOUS
<1>2. (<<x>> \o b) \o h = <<x>> \o s
  OBVIOUS
<1>3. (<<>> \o b) \o h = s
  OBVIOUS
<1> HIDE DEF s
<1>4. Len(<<x>> \o s) = Len(s) + 1 /\ (<<x>> \o s)[1] = x
      /\ \A k \in 1 .. Len(s) : s[k] = (<<x>> \o s)[k + 1]
  BY <1>1
<1> QED BY <1>2, <1>3, <1>4 DEF OffFront, LineOf

(* ... as one does that the handler prints from the queue.                 *)
LEMMA HeadGone ==
  ASSUME NEW T, NEW b \in Seq(T), NEW h \in Seq(T), b # <<>>
  PROVE  OffFront(LineOf(<<>>, b, h), LineOf(<<>>, Tail(b), h), Head(b))
<1>1. Head(b) \in T /\ Tail(b) \in Seq(T)
  OBVIOUS
<1>2. OffFront(LineOf(<<Head(b)>>, Tail(b), h), LineOf(<<>>, Tail(b), h), Head(b))
  BY <1>1, FrontGone
<1> QED BY <1>2, HeadTaken

-----------------------------------------------------------------------------
(* The lines of the printer.                                               *)
AtFront(i) == IF i = pq THEN InPrinter ELSE <<>>
Line(i) == LineOf(AtFront(i), buf[i], InHand(i))
Lines == [i \in Comm |-> Line(i)]

(* How many messages of each connection are on paper, and how many the     *)
(* communicators have read.                                                *)
OnPaper == [c \in Client |-> Len(Of(c, paper))]
Taken == [c \in Client |-> Len(Script[c]) - Len(toSend[c]) - Len(sock[c])]

(* What a communicator holds is a message, until it has put it in a queue. *)
HandInv == \A i \in Comm :
  item[i] # Nil => item[i] \in PrintMsg /\ pc[i] \in Holding \union {"dead"}

InHandPC == {"unlock_full", "post_empty", "print"}
NoDir == {"mkdir", "dead_early"}
Keeping == Holding \union {"dead"}

(* The end of the process in the middle of a page.                         *)
PageCut ==
  /\ \E m \in PrintMsg : PageUnderWay(m) /\ torn' = m
  /\ status = "running" /\ status' \in {"exit1", "crashed"}

(* A step that moves no message and no connection, and prints no page.     *)
Rest ==
  /\ UNCHANGED <<buf, item, paper, spool, toSend, sock>>
  /\ \A i \in Comm :
       /\ got'[i] = got[i] \/ got'[i] = Nil
       /\ pc[i] \in Keeping => pc'[i] \in Keeping /\ got'[i] = got[i]
       /\ pc'[i] = "enqueue" <=> pc[i] = "enqueue"
  /\ \A c \in Client : link'[c] = "new" <=> link[c] = "new"
  /\ pc'[Printer] \in InHandPC <=> pc[Printer] \in InHandPC
  /\ pc[Printer] \in InHandPC => got'[Printer] = got[Printer] /\ pq' = pq
  /\ pc'[Printer] = "remove" => pc[Printer] = "remove" /\ got'[Printer] = got[Printer]
  /\ pc'[Printer] \in NoDir => pc[Printer] \in NoDir
  /\ status' = status \/ status = "running"
  /\ pc'[Manager] = "rmdir" => pc[Manager] = "rmdir"
  /\ again' = again
  /\ Cancelled' <=> Cancelled
  /\ torn' = torn \/ PageCut
  /\ \A c \in Client : link'[c] = "torn" <=> link[c] = "torn"
  /\ Broken' = Broken \/ \E c \in Client : ClientReset(c)

(* A further SIGINT catches a thread, or has it go past mainBusy.          *)
Caught(t) == SigintAgain(t) \/ AgainWaitBusy(t)

(* The steps that do, or might.                                            *)
Event ==
  \/ \E t \in Queue : Enqueue(t)
  \/ \E t \in Thread, q \in Queue : Takes(t, q) /\ Dequeue(t, q)
  \/ \E c \in Client : Accept(c) \/ ClientSend(c)
  \/ \E i \in Comm : CommRead(i) \/ WriteMsg(i) \/ CommDies(i)
  \/ PrinterMkdir \/ PrinterPrint \/ PrinterRemove
  \/ HandlerCancel \/ FinalCheckPrint \/ HandlerDestroy
  \/ \E t \in Thread : Caught(t)

(* What a caught thread leaves alone.                                      *)
LEMMA CaughtKeeps ==
  ASSUME NEW t, Caught(t)
  PROVE  /\ UNCHANGED <<buf, pc, item, got, pq, hq, link, toSend, sock, paper, torn,
                        status>>
         /\ status = "running"
         /\ UNCHANGED spool \/ (pc[t] = "write_msg"
                                /\ spool' = [spool EXCEPT ![item[t].id] = Damaged])
BY DEF Caught, SigintAgain, AgainWaitBusy, StopsWriting, SpoolName, batch, net, files

(* Every step is of one kind or the other.                                 *)
LEMMA EventOrRest ==
  ASSUME TypeOK, [Next]_vars PROVE Event \/ Rest
<1>1. PICK W, G : pc \in [Thread -> W] /\ got \in [Thread -> G]
  BY DEF TypeOK
<1>2. /\ Queue \subseteq Thread /\ Comm \subseteq Thread /\ Comm \subseteq Queue
      /\ Manager \in Thread /\ Printer \in Thread
      /\ Manager \notin Comm /\ Printer \notin Comm /\ Manager # Printer
      /\ Printer \notin Queue
  BY Threads
<1> USE DEF Step, Point, SemWait, SemPost, Move, batch, net, files, data, InHandPC,
            NoDir, Keeping, Holding, Cancelled, SelfCancelled, Broken
<1>3. CASE UNCHANGED vars
  BY <1>3 DEF vars, Rest
<1>4. ASSUME NEW t \in Queue, Produce(t) PROVE Event \/ Rest
  <2>1. CASE WaitEmpty(t)
    BY <1>1, <1>2, <2>1 DEF WaitEmpty, Rest
  <2>2. CASE Lock(t)
    BY <1>1, <1>2, <2>2 DEF Lock, Rest
  <2>3. CASE Enqueue(t)
    BY <2>3 DEF Event
  <2>4. CASE Unlock(t)
    BY <1>1, <1>2, <2>4 DEF Unlock, Rest
  <2>5. CASE PostFull(t)
    BY <1>1, <1>2, <2>5 DEF PostFull, Rest
  <2> QED BY <1>4, <2>1, <2>2, <2>3, <2>4, <2>5 DEF Produce
<1>5. ASSUME NEW t \in Thread, NEW q \in Queue, Takes(t, q), Consume(t, q)
      PROVE  Event \/ Rest
  <2>0. t \in Comm \/ t = Printer
    BY <1>5 DEF Takes, Consumers
  <2>1. CASE WaitFull(t, q)
    BY <1>1, <1>2, <2>0, <2>1 DEF WaitFull, Rest
  <2>2. CASE LockFull(t, q)
    BY <1>1, <1>2, <2>0, <2>2 DEF LockFull, Rest
  <2>3. CASE Dequeue(t, q)
    BY <1>5, <2>3 DEF Event
  <2>4. CASE UnlockFull(t, q)
    BY <1>1, <1>2, <2>0, <2>4 DEF UnlockFull, Rest
  <2>5. CASE PostEmpty(t, q)
    BY <1>1, <1>2, <2>0, <2>5 DEF PostEmpty, AfterConsume, Rest
  <2> QED BY <1>5, <2>1, <2>2, <2>3, <2>4, <2>5 DEF Consume
<1>6. ASSUME NEW i \in Comm,
             \/ CommLoop(i) \/ CommDisconnect(i) \/ CommReadError(i)
             \/ CommPostSync(i) \/ CommCorrupts(i)
      PROVE  Event \/ Rest
  <2>1. CASE CommLoop(i)
    BY <1>1, <1>2, <2>1 DEF CommLoop, Rest
  <2>2. CASE CommDisconnect(i)
    BY <1>1, <1>2, <2>2 DEF CommDisconnect, Rest
  <2>3. CASE CommReadError(i)
    <3>1. torn' = torn \/ PageCut
      BY <2>3 DEF CommReadError, CutPage, PageCut
    <3> QED BY <1>1, <1>2, <2>3, <3>1 DEF CommReadError, Rest
  <2>4. CASE CommPostSync(i)
    BY <1>1, <1>2, <2>4 DEF CommPostSync, Rest
  <2>5. CASE CommCorrupts(i)
    <3>1. torn' = torn \/ PageCut
      BY <2>5 DEF CommCorrupts, CutPage, PageCut
    <3> QED BY <1>1, <1>2, <2>5, <3>1 DEF CommCorrupts, Rest
  <2> QED BY <1>6, <2>1, <2>2, <2>3, <2>4, <2>5
<1>7. ASSUME \/ PrinterSemInit \/ PrinterTop \/ PrinterWaitSync \/ PrinterWaitBusy
             \/ PrinterRepost \/ PrinterScan \/ PrinterFinish \/ PrinterDies
             \/ \E i \in Comm : PrinterTake(i)
      PROVE  Event \/ Rest
  <2>1. CASE PrinterSemInit
    BY <1>1, <1>2, <2>1 DEF PrinterSemInit, Rest
  <2>2. CASE PrinterTop
    BY <1>1, <1>2, <2>2 DEF PrinterTop, Rest
  <2>3. CASE PrinterWaitSync \/ PrinterWaitBusy
    BY <1>1, <1>2, <2>3 DEF PrinterWaitSync, PrinterWaitBusy, Rest
  <2>4. CASE PrinterRepost
    BY <1>1, <1>2, <2>4 DEF PrinterRepost, Rest
  <2>5. CASE PrinterScan
    BY <1>1, <1>2, <2>5 DEF PrinterScan, Rest
  <2>6. CASE PrinterFinish
    BY <1>1, <1>2, <2>6 DEF PrinterFinish, Rest
  <2>7. CASE PrinterDies
    BY <1>1, <1>2, <2>7 DEF PrinterDies, Rest
  <2>8. ASSUME NEW i \in Comm, PrinterTake(i) PROVE Rest
    BY <1>1, <1>2, <2>8 DEF PrinterTake, Rest
  <2> QED BY <1>7, <2>1, <2>2, <2>3, <2>4, <2>5, <2>6, <2>7, <2>8
<1>8. CASE Sigint
  BY <1>1, <1>2, <1>8 DEF Sigint, HandlerPC, Rest
<1>9. CASE HandlerWaitBusy \/ FinalCheckNext \/ HandlerExit
  BY <1>1, <1>2, <1>9 DEF HandlerWaitBusy, FinalCheckNext, HandlerExit, Rest, RmdirExit
<1>10. ASSUME NEW t \in Thread, AgainExit(t) PROVE Rest
  BY <1>10 DEF AgainExit, RmdirExit, Rest
<1>11. ASSUME NEW c \in Client, ClientClose(c) \/ ClientReset(c) PROVE Rest
  <2>1. PICK K : link \in [Client -> K]
    BY DEF TypeOK
  <2>2. PICK v \in {"closed", "reset"} :
          link[c] = "open" /\ link' = [link EXCEPT ![c] = v]
    BY <1>11 DEF ClientClose, ClientReset
  <2>3. /\ \A d \in Client : link'[d] = "new" <=> link[d] = "new"
        /\ \A d \in Client : link'[d] = "torn" <=> link[d] = "torn"
    BY <2>1, <2>2
  <2>4. ASSUME ClientClose(c) PROVE Broken' = Broken
    <3>1. link[c] = "open" /\ link' = [link EXCEPT ![c] = "closed"]
      BY <2>4 DEF ClientClose
    <3>2. \A d \in Client : link'[d] \in {"reset", "torn"} <=> link[d] \in {"reset", "torn"}
      BY <2>1, <3>1
    <3> QED BY <3>2 DEF Broken
  <2>5. Broken' = Broken \/ \E d \in Client : ClientReset(d)
    BY <1>11, <2>4
  <2>6. UNCHANGED <<buf, item, paper, spool, toSend, sock, got, pc, pq, again, torn>>
        /\ status' = status
    BY <1>11 DEF ClientClose, ClientReset
  <2>7. Cancelled' <=> Cancelled
    BY <2>6
  <2> HIDE DEF Cancelled, SelfCancelled, Broken, Keeping, Holding, InHandPC, NoDir
  <2> QED BY <2>3, <2>5, <2>6, <2>7 DEF Rest
<1> HIDE DEF Step, Point, SemWait, SemPost, Move, batch, net, files, data, InHandPC,
             NoDir, Keeping, Holding, Cancelled, SelfCancelled, Broken
<1> QED BY <1>3, <1>4, <1>5, <1>6, <1>7, <1>8, <1>9, <1>11, <1>10, FlatNext
        DEF Flat, Event, HandlerNext, ClientNext, AgainNext, Caught

-----------------------------------------------------------------------------
(* Invariants the others need.                                             *)

(* A communicator that holds a message keeps it until it has put it in its *)
(* queue.                                                                  *)
LEMMA HandStep == IInv /\ HandInv /\ [Next]_vars => HandInv'
<1> SUFFICES ASSUME IInv, HandInv, [Next]_vars PROVE HandInv'
  OBVIOUS
<1>0. TypeOK /\ GotInv
  BY DEF IInv
<1>1. PICK W, T : pc \in [Thread -> W] /\ item \in [Thread -> T]
  BY <1>0 DEF TypeOK
<1>2. /\ Queue \subseteq Thread /\ Comm \subseteq Thread /\ Comm \subseteq Queue
      /\ Manager \in Thread /\ Printer \in Thread
      /\ Manager \notin Comm /\ Printer \notin Comm /\ Manager # Printer
  BY Threads
<1> USE DEF Step, Point, Move, batch, net, files, data
<1>3. ASSUME NEW i \in Comm, item'[i] = item[i], pc[i] \in Keeping => pc'[i] \in Keeping
      PROVE  item'[i] # Nil => item'[i] \in PrintMsg /\ pc'[i] \in Keeping
  BY <1>3 DEF HandInv, Keeping
<1>4. CASE Rest
  BY <1>3, <1>4 DEF HandInv, Keeping, Rest
<1>5. ASSUME NEW t \in Queue, Enqueue(t) PROVE HandInv'
  <2>1. ASSUME NEW i \in Comm
        PROVE  item'[i] # Nil => item'[i] \in PrintMsg /\ pc'[i] \in Keeping
    <3>1. CASE i = t
      BY <1>1, <1>2, <1>5, <3>1 DEF Enqueue
    <3>2. CASE i # t
      BY <1>1, <1>2, <1>3, <1>5, <3>2 DEF Enqueue
    <3> QED BY <3>1, <3>2
  <2> QED BY <2>1 DEF HandInv, Keeping
<1>6. ASSUME NEW t \in Thread, NEW q \in Queue, Dequeue(t, q) PROVE HandInv'
  <2>1. pc[t] \notin Keeping /\ UNCHANGED item /\ pc[t] = "dequeue"
    BY <1>6 DEF Dequeue, Keeping, Holding
  <2>2. \A i \in Comm : pc[i] \in Keeping => pc'[i] \in Keeping
    BY <1>1, <1>2, <1>6, <2>1 DEF Dequeue
  <2> QED BY <1>3, <2>1, <2>2 DEF HandInv, Keeping
<1>7. ASSUME NEW c \in Client, Accept(c) \/ ClientSend(c) PROVE HandInv'
  <2>1. \A i \in Comm : pc'[i] = pc[i] /\ item'[i] = item[i]
    BY <1>1, <1>2, <1>7 DEF Accept, ClientSend
  <2> QED BY <1>3, <2>1 DEF HandInv, Keeping
<1>8. ASSUME NEW i \in Comm, CommRead(i) PROVE HandInv'
  <2>1. got[i] \in Client /\ sock[got[i]] # <<>>
    BY <1>0, <1>8 DEF CommRead, GotInv
  <2>2. Head(sock[got[i]]) \in PrintMsg
    BY <1>0, <2>1 DEF TypeOK
  <2>3. item'[i] \in PrintMsg /\ pc'[i] = "wait_empty"
    BY <1>1, <1>2, <1>8, <2>2 DEF CommRead
  <2>4. \A j \in Comm \ {i} : pc'[j] = pc[j] /\ item'[j] = item[j]
    BY <1>1, <1>2, <1>8 DEF CommRead
  <2>5. "wait_empty" \in Keeping
    BY DEF Keeping, Holding
  <2> QED BY <1>3, <2>3, <2>4, <2>5 DEF HandInv, Keeping
<1>9. ASSUME NEW i \in Comm, WriteMsg(i) \/ CommDies(i) PROVE HandInv'
  <2>1. UNCHANGED item
    BY <1>9 DEF WriteMsg, CommDies
  <2>2. pc'[i] \in Keeping /\ \A j \in Comm \ {i} : pc'[j] = pc[j]
    BY <1>1, <1>2, <1>9 DEF WriteMsg, CommDies, Keeping, Holding
  <2> QED BY <1>3, <2>1, <2>2 DEF HandInv, Keeping
<1>10. ASSUME NEW t \in Thread, Caught(t) PROVE HandInv'
  BY <1>3, <1>10, CaughtKeeps DEF HandInv, Keeping
<1>11. CASE \/ PrinterMkdir \/ PrinterPrint \/ PrinterRemove
            \/ HandlerCancel \/ FinalCheckPrint \/ HandlerDestroy
  <2>1. UNCHANGED item
    BY <1>11 DEF PrinterMkdir, PrinterPrint, PrinterRemove, HandlerCancel,
       FinalCheckPrint, HandlerDestroy
  <2>2. \A j \in Comm : pc'[j] = pc[j]
    BY <1>1, <1>2, <1>11 DEF PrinterMkdir, PrinterPrint, PrinterRemove, HandlerCancel,
       FinalCheckPrint, HandlerDestroy
  <2> QED BY <1>3, <2>1, <2>2 DEF HandInv, Keeping
<1> QED BY <1>0, <1>4, <1>5, <1>6, <1>7, <1>8, <1>9, <1>11, <1>10, EventOrRest DEF Event

(* What is on its way to the communicators is what they have not read.     *)
NetInv ==
  \A c \in Client :
    /\ Len(toSend[c]) + Len(sock[c]) <= Size(c)
    /\ \A k \in 1 .. Len(toSend[c]) :
         toSend[c][k] = Msg(c, Size(c) - Len(toSend[c]) + k)
    /\ \A k \in 1 .. Len(sock[c]) : sock[c][k] = Msg(c, Taken[c] + k)

(* What the communicators have taken, computed from what they have not.    *)
LEMMA TakenIs ==
  ASSUME NEW c \in Client
  PROVE  /\ Taken[c] = Size(c) - Len(toSend[c]) - Len(sock[c])
         /\ Taken'[c] = Size(c) - Len(toSend'[c]) - Len(sock'[c])
BY DEF Taken, Size

(* A message is sent ...                                                   *)
LEMMA SendOne ==
  ASSUME NEW T, NEW s \in Seq(T), NEW t \in Seq(T), t # <<>>,
         NEW u, u = Append(s, Head(t)), NEW v, v = Tail(t)
  PROVE  /\ AtEnd(s, u, t[1]) /\ OffFront(t, v, t[1])
         /\ u \in Seq(T) /\ v \in Seq(T) /\ Len(u) \in Nat /\ Len(v) \in Nat
<1>1. Head(t) = t[1] /\ t[1] \in T /\ Len(t) \in Nat /\ Len(t) # 0
  OBVIOUS
<1>2. /\ Len(v) = Len(t) - 1 /\ v \in Seq(T)
      /\ \A k \in 1 .. Len(v) : v[k] = t[k + 1]
  OBVIOUS
<1>3. /\ u \in Seq(T) /\ Len(u) = Len(s) + 1 /\ u[Len(s) + 1] = Head(t)
      /\ \A k \in 1 .. Len(s) : u[k] = s[k]
  BY <1>1
<1>4. Len(t) = Len(v) + 1
  BY <1>1, <1>2
<1> QED BY <1>1, <1>2, <1>3, <1>4 DEF AtEnd, OffFront

(* Every step keeps what is in the sockets and still to be sent.           *)
LEMMA NetStep == IInv /\ NetInv /\ [Next]_vars => NetInv'
<1> SUFFICES ASSUME IInv, NetInv, [Next]_vars PROVE NetInv'
  OBVIOUS
<1>0. TypeOK /\ TypeOK' /\ GotInv
  BY TypeStep DEF IInv
<1>1. /\ toSend \in [Client -> Seq(PrintMsg)] /\ sock \in [Client -> Seq(PrintMsg)]
      /\ toSend' \in [Client -> Seq(PrintMsg)] /\ sock' \in [Client -> Seq(PrintMsg)]
  BY <1>0 DEF TypeOK
<1>2. \A c \in Client : Size(c) \in Nat
  BY LastType
<1>3. ASSUME NEW c \in Client, toSend'[c] = toSend[c], sock'[c] = sock[c]
      PROVE  /\ Len(toSend'[c]) + Len(sock'[c]) <= Size(c)
             /\ \A k \in 1 .. Len(toSend'[c]) :
                  toSend'[c][k] = Msg(c, Size(c) - Len(toSend'[c]) + k)
             /\ \A k \in 1 .. Len(sock'[c]) : sock'[c][k] = Msg(c, Taken'[c] + k)
  <2>1. Taken'[c] = Taken[c]
    BY <1>3, TakenIs
  <2>2. /\ Len(toSend[c]) + Len(sock[c]) <= Size(c)
        /\ \A k \in 1 .. Len(toSend[c]) : toSend[c][k] = Msg(c, Size(c) - Len(toSend[c]) + k)
        /\ \A k \in 1 .. Len(sock[c]) : sock[c][k] = Msg(c, Taken[c] + k)
    BY DEF NetInv
  <2> QED BY <1>3, <2>1, <2>2, Zenon
<1>4. CASE UNCHANGED <<toSend, sock>>
  BY <1>3, <1>4 DEF NetInv
<1>5. ASSUME NEW c \in Client, ClientSend(c) PROVE NetInv'
  <2>1. /\ toSend[c] # <<>>
        /\ sock'[c] = Append(sock[c], Head(toSend[c])) /\ toSend'[c] = Tail(toSend[c])
        /\ \A d \in Client \ {c} : toSend'[d] = toSend[d] /\ sock'[d] = sock[d]
    BY <1>1, <1>5 DEF ClientSend
  <2>2. PICK s \in Seq(PrintMsg) : s = sock[c]
    BY <1>1
  <2>3. PICK t \in Seq(PrintMsg) : t = toSend[c]
    BY <1>1
  <2>4. PICK u : u = Append(s, Head(t))
    OBVIOUS
  <2>5. PICK v : v = Tail(t)
    OBVIOUS
  <2>6. sock'[c] = u /\ toSend'[c] = v /\ t # <<>>
    BY <2>1, <2>2, <2>3, <2>4, <2>5
  <2>7. AtEnd(s, u, t[1]) /\ OffFront(t, v, t[1]) /\ Len(u) \in Nat /\ Len(v) \in Nat
    BY <2>4, <2>5, <2>6, SendOne
  <2>8. /\ Len(t) + Len(s) <= Size(c) /\ Len(t) \in Nat /\ Len(s) \in Nat
        /\ \A k \in 1 .. Len(t) : t[k] = Msg(c, Size(c) - Len(t) + k)
        /\ \A k \in 1 .. Len(s) : s[k] = Msg(c, Taken[c] + k)
        /\ Taken[c] = Size(c) - Len(t) - Len(s)
    <3>1. Taken[c] = Size(c) - Len(toSend[c]) - Len(sock[c])
      BY TakenIs
    <3>2. /\ Len(toSend[c]) + Len(sock[c]) <= Size(c)
          /\ \A k \in 1 .. Len(toSend[c]) :
               toSend[c][k] = Msg(c, Size(c) - Len(toSend[c]) + k)
          /\ \A k \in 1 .. Len(sock[c]) : sock[c][k] = Msg(c, Taken[c] + k)
      BY DEF NetInv
    <3>3. Len(t) \in Nat /\ Len(s) \in Nat
      OBVIOUS
    <3>4. /\ Len(t) + Len(s) <= Size(c) /\ Taken[c] = Size(c) - Len(t) - Len(s)
          /\ \A k \in 1 .. Len(t) : t[k] = Msg(c, Size(c) - Len(t) + k)
          /\ \A k \in 1 .. Len(s) : s[k] = Msg(c, Taken[c] + k)
      BY <2>2, <2>3, <3>1, <3>2, Zenon
    <3> QED BY <3>3, <3>4
  <2>9. /\ Len(u) = Len(s) + 1 /\ u[Len(s) + 1] = t[1]
        /\ \A k \in 1 .. Len(s) : u[k] = s[k]
        /\ Len(t) = Len(v) + 1
        /\ \A k \in 1 .. Len(v) : v[k] = t[k + 1]
    BY <2>7 DEF AtEnd, OffFront
  <2>10. Taken'[c] = Taken[c] /\ Taken[c] \in Nat
    <3>1. Taken'[c] = Size(c) - Len(v) - Len(u)
      BY <2>6, TakenIs
    <3> QED BY <1>2, <2>7, <2>8, <2>9, <3>1
  <2>11. Len(v) + Len(u) <= Size(c)
    BY <1>2, <2>7, <2>8, <2>9
  <2>12. ASSUME NEW k \in 1 .. Len(v) PROVE v[k] = Msg(c, Size(c) - Len(v) + k)
    <3>1. k + 1 \in 1 .. Len(t) /\ Size(c) - Len(t) + (k + 1) = Size(c) - Len(v) + k
      BY <1>2, <2>7, <2>8, <2>9
    <3>2. t[k + 1] = Msg(c, Size(c) - Len(t) + (k + 1))
      BY <2>8, <3>1
    <3> QED BY <2>9, <3>1, <3>2
  <2>13. ASSUME NEW k \in 1 .. Len(u) PROVE u[k] = Msg(c, Taken[c] + k)
    <3>1. CASE k \in 1 .. Len(s)
      BY <2>8, <2>9, <3>1
    <3>2. CASE k = Len(s) + 1
      <4>a. Size(c) \in Nat /\ Len(t) \in Nat /\ Len(s) \in Nat /\ Len(v) \in Nat
        BY <1>2, <2>7, <2>8
      <4>b. Len(t) = Len(v) + 1 /\ Taken[c] = Size(c) - Len(t) - Len(s)
        BY <2>8, <2>9
      <4>1. 1 \in 1 .. Len(t) /\ Size(c) - Len(t) + 1 = Taken[c] + k
        BY <3>2, <4>a, <4>b
      <4>2. t[1] = Msg(c, Size(c) - Len(t) + 1)
        BY <2>8, <4>1
      <4> QED BY <2>9, <3>2, <4>1, <4>2
    <3> QED BY <2>8, <2>9, <3>1, <3>2
  <2>14. /\ Len(toSend'[c]) + Len(sock'[c]) <= Size(c)
         /\ \A k \in 1 .. Len(toSend'[c]) :
              toSend'[c][k] = Msg(c, Size(c) - Len(toSend'[c]) + k)
         /\ \A k \in 1 .. Len(sock'[c]) : sock'[c][k] = Msg(c, Taken'[c] + k)
    BY <2>6, <2>10, <2>11, <2>12, <2>13
  <2> QED BY <1>3, <2>1, <2>14 DEF NetInv
<1>6. ASSUME NEW i \in Comm, CommRead(i) PROVE NetInv'
  <2>0. PICK c \in Client : c = got[i]
    BY <1>0, <1>6 DEF CommRead, Point, Step, GotInv
  <2>1. /\ sock[c] # <<>> /\ sock'[c] = Tail(sock[c]) /\ toSend'[c] = toSend[c]
        /\ \A d \in Client \ {c} : toSend'[d] = toSend[d] /\ sock'[d] = sock[d]
    BY <1>1, <1>6, <2>0 DEF CommRead
  <2>2. PICK s \in Seq(PrintMsg) : s = sock[c]
    BY <1>1
  <2>3. PICK v : v = Tail(s)
    OBVIOUS
  <2>4. sock'[c] = v /\ s # <<>>
    BY <2>1, <2>2, <2>3
  <2>5. OffFront(s, v, s[1]) /\ Len(v) \in Nat
    BY <2>3, <2>4, SendOne
  <2>6. /\ Len(toSend[c]) + Len(s) <= Size(c) /\ Len(s) \in Nat
        /\ \A k \in 1 .. Len(s) : s[k] = Msg(c, Taken[c] + k)
        /\ Taken[c] = Size(c) - Len(toSend[c]) - Len(s)
    <3>1. Taken[c] = Size(c) - Len(toSend[c]) - Len(sock[c])
      BY TakenIs
    <3>2. /\ Len(toSend[c]) + Len(sock[c]) <= Size(c)
          /\ \A k \in 1 .. Len(sock[c]) : sock[c][k] = Msg(c, Taken[c] + k)
      BY DEF NetInv
    <3>3. Len(s) \in Nat
      OBVIOUS
    <3>4. /\ Len(toSend[c]) + Len(s) <= Size(c)
          /\ Taken[c] = Size(c) - Len(toSend[c]) - Len(s)
          /\ \A k \in 1 .. Len(s) : s[k] = Msg(c, Taken[c] + k)
      BY <2>2, <3>1, <3>2, Zenon
    <3> QED BY <3>3, <3>4
  <2>7. Len(s) = Len(v) + 1 /\ \A k \in 1 .. Len(v) : v[k] = s[k + 1]
    BY <2>5 DEF OffFront
  <2>8. PICK n \in Nat : n = Len(toSend[c])
    BY <1>1
  <2>a. n + Len(s) <= Size(c) /\ Taken[c] = Size(c) - n - Len(s)
    BY <2>6, <2>8
  <2>9. Taken'[c] = Taken[c] + 1 /\ Taken[c] \in Nat
    <3>1. Taken'[c] = Size(c) - n - Len(v)
      BY <2>1, <2>4, <2>8, TakenIs
    <3> QED BY <1>2, <2>a, <2>5, <2>6, <2>7, <3>1
  <2>10. n + Len(v) <= Size(c)
    BY <1>2, <2>a, <2>5, <2>6, <2>7
  <2>11. ASSUME NEW k \in 1 .. Len(v) PROVE v[k] = Msg(c, Taken'[c] + k)
    <3>a. Len(v) \in Nat /\ Len(s) = Len(v) + 1
      BY <2>5, <2>7
    <3>1. k + 1 \in 1 .. Len(s) /\ Taken[c] + (k + 1) = Taken'[c] + k
      BY <2>9, <3>a
    <3>2. s[k + 1] = Msg(c, Taken[c] + (k + 1))
      BY <2>6, <3>1
    <3> QED BY <2>7, <3>1, <3>2
  <2>12. \A k \in 1 .. Len(toSend'[c]) : toSend'[c][k] = Msg(c, Size(c) - Len(toSend'[c]) + k)
    BY <2>1 DEF NetInv
  <2> QED BY <1>3, <2>1, <2>4, <2>8, <2>10, <2>11, <2>12 DEF NetInv
<1>7. \/ UNCHANGED <<toSend, sock>>
      \/ \E c \in Client : ClientSend(c)
      \/ \E i \in Comm : CommRead(i)
  BY <1>0, EventOrRest, CaughtKeeps DEF Rest, Event, Enqueue, Dequeue, Accept, WriteMsg,
     CommDies, PrinterMkdir, PrinterPrint, PrinterRemove, HandlerCancel, FinalCheckPrint,
     HandlerDestroy, Move, data, net
<1> QED BY <1>4, <1>5, <1>6, <1>7

-----------------------------------------------------------------------------
(* Connections.  q is the connection queue, a what the manager has         *)
(* accepted, g what each communicator serves, new the connections not yet  *)
(* accepted, R how many messages of each have been read.                   *)
Queued(q, c) == \E k \in 1 .. Len(q) : q[k] = c
Served(g, c) == \E i \in Comm : g[i] = c

(* A connection is in one place only, and nothing has been read from it    *)
(* before it is served.                                                    *)
Conns(q, a, g, new, R) ==
  /\ \A c \in Client : \A i \in Comm : \A j \in Comm : g[i] = c /\ g[j] = c => i = j
  /\ \A k \in 1 .. Len(q) : \A l \in 1 .. Len(q) : q[k] = q[l] => k = l
  /\ \A c \in Client :
       /\ Queued(q, c) => ~Served(g, c) /\ a # c
       /\ a = c => ~Served(g, c)
       /\ c \in new => ~Queued(q, c) /\ ~Served(g, c) /\ a # c
       /\ c \in new \/ a = c \/ Queued(q, c) => R[c] = 0

(* A connection is given up, or the queue with all it holds.               *)
LEMMA ConnsLess ==
  ASSUME NEW q, NEW a, NEW g, NEW new, NEW R, Conns(q, a, g, new, R),
         NEW p, p = q \/ Len(p) = 0, NEW b, b = a \/ b \notin Client,
         NEW h, \A i \in Comm : h[i] = g[i] \/ h[i] \notin Client
  PROVE  Conns(p, b, h, new, R)
<1>1. \A c \in Client : Queued(p, c) => Queued(q, c)
  BY DEF Queued
<1>2. \A c \in Client : Served(h, c) => Served(g, c)
  BY DEF Served
<1>3. \A c \in Client : b = c => a = c
  OBVIOUS
<1>4. \A c \in Client : \A i \in Comm : \A j \in Comm : h[i] = c /\ h[j] = c => i = j
  BY DEF Conns
<1>5. \A k \in 1 .. Len(p) : \A l \in 1 .. Len(p) : p[k] = p[l] => k = l
  BY DEF Conns
<1>6. ASSUME NEW c \in Client
      PROVE  /\ Queued(p, c) => ~Served(h, c) /\ b # c
             /\ b = c => ~Served(h, c)
             /\ c \in new => ~Queued(p, c) /\ ~Served(h, c) /\ b # c
             /\ c \in new \/ b = c \/ Queued(p, c) => R[c] = 0
  BY <1>1, <1>2, <1>3 DEF Conns
<1> QED BY <1>4, <1>5, <1>6 DEF Conns

(* One is accepted ...                                                     *)
LEMMA ConnsAccept ==
  ASSUME NEW q, NEW a, NEW g, NEW new, NEW R, Conns(q, a, g, new, R),
         NEW c \in Client, c \in new
  PROVE  Conns(q, c, g, new \ {c}, R)
BY DEF Conns

(* ... is put in the queue ...                                             *)
LEMMA ConnsEnqueue ==
  ASSUME NEW q, Len(q) \in Nat, NEW a \in Client, NEW g, NEW new, NEW R,
         Conns(q, a, g, new, R), NEW p, AtEnd(q, p, a), NEW b, b \notin Client
  PROVE  Conns(p, b, g, new, R)
<1>1. /\ Len(p) = Len(q) + 1 /\ p[Len(q) + 1] = a
      /\ \A k \in 1 .. Len(q) : p[k] = q[k]
  BY DEF AtEnd
<1>2. \A k \in 1 .. Len(p) : (k \in 1 .. Len(q) /\ p[k] = q[k]) \/ (k = Len(q) + 1 /\ p[k] = a)
  BY <1>1
<1>3. \A c \in Client : Queued(p, c) => Queued(q, c) \/ a = c
  BY <1>2 DEF Queued
<1>4. \A k \in 1 .. Len(q) : q[k] # a
  BY DEF Conns, Queued
<1>5. \A k \in 1 .. Len(q) : \A l \in 1 .. Len(q) : q[k] = q[l] => k = l
  BY DEF Conns
<1>6. ASSUME NEW k \in 1 .. Len(p), NEW l \in 1 .. Len(p), p[k] = p[l] PROVE k = l
  <2>1. CASE k \in 1 .. Len(q) /\ p[k] = q[k]
    BY <1>2, <1>4, <1>5, <1>6, <2>1
  <2>2. CASE k = Len(q) + 1 /\ p[k] = a
    BY <1>2, <1>4, <1>6, <2>2
  <2> QED BY <1>2, <2>1, <2>2
<1>7. \A c \in Client : \A i \in Comm : \A j \in Comm : g[i] = c /\ g[j] = c => i = j
  BY DEF Conns
<1>8. ASSUME NEW c \in Client
      PROVE  /\ Queued(p, c) => ~Served(g, c) /\ b # c
             /\ b = c => ~Served(g, c)
             /\ c \in new => ~Queued(p, c) /\ ~Served(g, c) /\ b # c
             /\ c \in new \/ b = c \/ Queued(p, c) => R[c] = 0
  BY <1>3 DEF Conns
<1> QED BY <1>6, <1>7, <1>8 DEF Conns

(* ... gets a communicator ...                                             *)
LEMMA ConnsDequeue ==
  ASSUME NEW q, NEW a, NEW g, NEW new, NEW R, Conns(q, a, g, new, R),
         NEW p, Len(p) \in Nat, NEW x \in Client, OffFront(q, p, x), NEW i \in Comm,
         NEW h, h[i] = x, \A j \in Comm \ {i} : h[j] = g[j]
  PROVE  Conns(p, a, h, new, R)
<1>1. Len(q) = Len(p) + 1 /\ q[1] = x /\ \A k \in 1 .. Len(p) : p[k] = q[k + 1]
  BY DEF OffFront
<1>2. 1 \in 1 .. Len(q) /\ \A k \in 1 .. Len(p) : k + 1 \in 1 .. Len(q) /\ k + 1 # 1
  BY <1>1
<1>3. \A k \in 1 .. Len(q) : \A l \in 1 .. Len(q) : q[k] = q[l] => k = l
  BY DEF Conns
<1>4. Queued(q, x) /\ \A c \in Client : Queued(p, c) => Queued(q, c) /\ c # x
  <2>1. Queued(q, x)
    BY <1>1, <1>2 DEF Queued
  <2>2. ASSUME NEW c \in Client, NEW k \in 1 .. Len(p), p[k] = c
        PROVE  Queued(q, c) /\ c # x
    <3>1. q[k + 1] = c /\ k + 1 \in 1 .. Len(q) /\ k + 1 # 1
      BY <1>1, <1>2, <2>2
    <3>2. c # q[1]
      BY <1>2, <1>3, <3>1
    <3> QED BY <1>1, <3>1, <3>2 DEF Queued
  <2> QED BY <2>1, <2>2 DEF Queued
<1>5. ASSUME NEW k \in 1 .. Len(p), NEW l \in 1 .. Len(p), p[k] = p[l] PROVE k = l
  <2>1. q[k + 1] = q[l + 1]
    BY <1>1, <1>5
  <2>2. k + 1 = l + 1
    BY <1>2, <1>3, <2>1
  <2> QED BY <2>2
<1>6. ~Served(g, x) /\ x # a /\ x \notin new
  BY <1>4 DEF Conns
<1>7. \A c \in Client : Served(h, c) => Served(g, c) \/ c = x
  BY DEF Served
<1>8. \A c \in Client : \A j \in Comm : \A l \in Comm : h[j] = c /\ h[l] = c => j = l
  BY <1>6 DEF Conns, Served
<1>9. ASSUME NEW c \in Client
      PROVE  /\ Queued(p, c) => ~Served(h, c) /\ a # c
             /\ a = c => ~Served(h, c)
             /\ c \in new => ~Queued(p, c) /\ ~Served(h, c) /\ a # c
             /\ c \in new \/ a = c \/ Queued(p, c) => R[c] = 0
  BY <1>4, <1>6, <1>7 DEF Conns
<1> QED BY <1>5, <1>8, <1>9 DEF Conns

(* ... and is read from.                                                   *)
LEMMA ConnsRead ==
  ASSUME NEW q, NEW a, NEW g, NEW new, NEW R, Conns(q, a, g, new, R),
         NEW i \in Comm, NEW Q, \A c \in Client : c # g[i] => Q[c] = R[c]
  PROVE  Conns(q, a, g, new, Q)
<1>1. \A c \in Client : c = g[i] => Served(g, c)
  BY DEF Served
<1> QED BY <1>1 DEF Conns

-----------------------------------------------------------------------------
(* The numbers of messages read change with a read only.                   *)
TakenOK == Taken \in [Client -> Nat]

(* The messages taken are counted by a number ...                          *)
LEMMA TakenType == TypeOK /\ NetInv => TakenOK
<1> SUFFICES ASSUME TypeOK, NetInv PROVE TakenOK
  OBVIOUS
<1>0. toSend \in [Client -> Seq(PrintMsg)] /\ sock \in [Client -> Seq(PrintMsg)]
  BY DEF TypeOK
<1>1. ASSUME NEW c \in Client PROVE Len(Script[c]) - Len(toSend[c]) - Len(sock[c]) \in Nat
  <2>1. PICK n \in Nat : n = Len(toSend[c])
    BY <1>0
  <2>2. PICK k \in Nat : k = Len(sock[c])
    BY <1>0
  <2>3. Size(c) \in Nat /\ Size(c) = Len(Script[c])
    BY LastType DEF Size
  <2>4. n + k <= Size(c)
    BY <2>1, <2>2 DEF NetInv
  <2>5. Size(c) - n - k \in Nat
    BY <2>3, <2>4
  <2> QED BY <2>1, <2>2, <2>3, <2>5
<1> QED BY <1>1 DEF TakenOK, Taken

(* ... after the step, too.                                                *)
LEMMA TakenTypeNext == TypeOK' /\ NetInv' => TakenOK'
BY TakenType, PTL

(* One message is read from a socket ...                                   *)
LEMMA ReadOne ==
  ASSUME IInv, NetInv, NEW i \in Comm, CommRead(i)
  PROVE  /\ got[i] \in Client /\ Taken[got[i]] < Size(got[i])
         /\ Taken'[got[i]] = Taken[got[i]] + 1
         /\ \A d \in Client \ {got[i]} : Taken'[d] = Taken[d]
         /\ item'[i] = Msg(got[i], Taken[got[i]] + 1)
         /\ pc[i] = "read" /\ pc' = [pc EXCEPT ![i] = "wait_empty"]
<1>0. TypeOK /\ GotInv
  BY DEF IInv
<1>1. pc[i] = "read" /\ pc' = [pc EXCEPT ![i] = "wait_empty"]
  BY DEF CommRead, Point, Step
<1>2. got[i] \in Client
  BY <1>0, <1>1 DEF GotInv
<1>3. PICK c \in Client : c = got[i]
  BY <1>2
<1>4. /\ sock[c] # <<>> /\ sock'[c] = Tail(sock[c]) /\ toSend' = toSend
      /\ \A d \in Client \ {c} : sock'[d] = sock[d]
      /\ item'[i] = Head(sock[c])
  BY <1>0, <1>3, Threads DEF CommRead, TypeOK
<1>5. PICK s \in Seq(PrintMsg) : s = sock[c]
  BY <1>0 DEF TypeOK
<1>6. PICK n \in Nat : n = Len(toSend[c])
  <2>1. toSend[c] \in Seq(PrintMsg)
    BY <1>0 DEF TypeOK
  <2> QED BY <2>1
<1>7. Len(s) \in Nat /\ Len(Tail(s)) = Len(s) - 1 /\ Head(s) = s[1] /\ 1 \in 1 .. Len(s)
  BY <1>4, <1>5
<1>8. Taken[c] = Size(c) - n - Len(s) /\ Taken'[c] = Size(c) - n - Len(Tail(s))
  <2>1. Len(sock[c]) = Len(s) /\ Len(sock'[c]) = Len(Tail(s)) /\ Len(toSend'[c]) = n
    BY <1>4, <1>5, <1>6
  <2>2. /\ Taken[c] = Size(c) - Len(toSend[c]) - Len(sock[c])
        /\ Taken'[c] = Size(c) - Len(toSend'[c]) - Len(sock'[c])
    BY TakenIs
  <2> QED BY <1>6, <2>1, <2>2
<1>9. Size(c) \in Nat
  BY LastType
<1>10. n + Len(s) <= Size(c) /\ \A k \in 1 .. Len(s) : s[k] = Msg(c, Taken[c] + k)
  <2>1. /\ Len(toSend[c]) + Len(sock[c]) <= Size(c)
        /\ \A k \in 1 .. Len(sock[c]) : sock[c][k] = Msg(c, Taken[c] + k)
    BY DEF NetInv
  <2>2. n + Len(sock[c]) <= Size(c)
    BY <1>6, <2>1
  <2> QED BY <1>5, <2>1, <2>2, Zenon
<1>11. Taken[c] < Size(c) /\ Taken'[c] = Taken[c] + 1
  BY <1>7, <1>8, <1>9, <1>10
<1>12. item'[i] = Msg(c, Taken[c] + 1)
  BY <1>4, <1>5, <1>7, <1>10
<1>13. \A d \in Client \ {c} : Taken'[d] = Taken[d]
  BY <1>4, TakenIs
<1> QED BY <1>1, <1>3, <1>11, <1>12, <1>13

(* ... which is the only way the count changes.                            *)
LEMMA TakenStep ==
  ASSUME IInv, NetInv, [Next]_vars
  PROVE  \/ Taken' = Taken
         \/ \E i \in Comm : CommRead(i) /\ OneMore(Taken, Taken', got[i])
<1>0. TypeOK /\ TypeOK' /\ NetInv'
  BY TypeStep, NetStep DEF IInv
<1>1. Taken' \in [Client -> Nat]
  BY <1>0, TakenTypeNext DEF TakenOK
<1>2. CASE UNCHANGED <<toSend, sock>>
  BY <1>2 DEF Taken
<1>3. ASSUME NEW c \in Client, ClientSend(c) PROVE Taken' = Taken
  <2>0. /\ toSend \in [Client -> Seq(PrintMsg)] /\ sock \in [Client -> Seq(PrintMsg)]
    BY <1>0 DEF TypeOK
  <2>1. /\ toSend[c] # <<>>
        /\ sock'[c] = Append(sock[c], Head(toSend[c])) /\ toSend'[c] = Tail(toSend[c])
        /\ \A d \in Client \ {c} : toSend'[d] = toSend[d] /\ sock'[d] = sock[d]
    BY <2>0, <1>3 DEF ClientSend
  <2>2. PICK s \in Seq(PrintMsg) : s = sock[c]
    BY <2>0
  <2>3. PICK t \in Seq(PrintMsg) : t = toSend[c]
    BY <2>0
  <2>4. PICK u : u = Append(s, Head(t))
    OBVIOUS
  <2>5. PICK v : v = Tail(t)
    OBVIOUS
  <2>6. sock'[c] = u /\ toSend'[c] = v /\ t # <<>>
    BY <2>1, <2>2, <2>3, <2>4, <2>5
  <2>7. AtEnd(s, u, t[1]) /\ OffFront(t, v, t[1]) /\ Len(u) \in Nat /\ Len(v) \in Nat
    BY <2>4, <2>5, <2>6, SendOne
  <2>8. Len(u) = Len(s) + 1 /\ Len(t) = Len(v) + 1 /\ Len(s) \in Nat /\ Len(t) \in Nat
    BY <2>7 DEF AtEnd, OffFront
  <2>9. Size(c) \in Nat
    BY LastType
  <2>10. Size(c) - Len(v) - Len(u) = Size(c) - Len(t) - Len(s)
    BY <2>7, <2>8, <2>9
  <2>11. Taken'[c] = Taken[c]
    <3>1. /\ Taken[c] = Size(c) - Len(toSend[c]) - Len(sock[c])
          /\ Taken'[c] = Size(c) - Len(toSend'[c]) - Len(sock'[c])
      BY TakenIs
    <3> QED BY <2>2, <2>3, <2>6, <2>10, <3>1
  <2>12. \A d \in Client \ {c} : Taken'[d] = Taken[d]
    BY <2>1, TakenIs
  <2>13. \A d \in Client : Taken'[d] = Taken[d]
    BY <2>11, <2>12
  <2>14. DOMAIN Taken = Client /\ DOMAIN Taken' = Client
    BY DEF Taken
  <2> QED BY <1>1, <2>13, <2>14 DEF Taken
<1>4. ASSUME NEW i \in Comm, CommRead(i) PROVE OneMore(Taken, Taken', got[i])
  BY <1>1, <1>4, ReadOne DEF OneMore
<1>5. \/ UNCHANGED <<toSend, sock>>
      \/ \E c \in Client : ClientSend(c)
      \/ \E i \in Comm : CommRead(i)
  BY <1>0, EventOrRest, CaughtKeeps DEF Rest, Event, Enqueue, Dequeue, Accept, WriteMsg,
     CommDies, PrinterMkdir, PrinterPrint, PrinterRemove, HandlerCancel, FinalCheckPrint,
     HandlerDestroy, Move, data, net
<1> QED BY <1>2, <1>3, <1>4, <1>5

(* A connection is accepted once, queued once and served by one            *)
(* communicator, which alone reads from it.                                *)
Serving == [i \in Comm |-> got[i]]
NewLinks == {c \in Client : link[c] = "new"}
ConnInv == Conns(buf[ConnQ], item[Manager], Serving, NewLinks, Taken)

(* Every step keeps what is known of the connections.                      *)
LEMMA ConnStep == IInv /\ NetInv /\ ConnInv /\ [Next]_vars => ConnInv'
<1> SUFFICES ASSUME IInv, NetInv, ConnInv, [Next]_vars PROVE ConnInv'
  OBVIOUS
<1>0. TypeOK /\ GotInv /\ HeldInv /\ DestroyedInv
  BY DEF IInv
<1>1. /\ item \in [Thread -> Client \union PrintMsg \union {Nil}]
      /\ got \in [Thread -> Client \union PrintMsg \union {Nil}]
      /\ buf \in [Queue -> Seq(Client \union PrintMsg)] /\ buf[ConnQ] \in Seq(Client)
  BY <1>0, Threads DEF TypeOK, Carried
<1>2. /\ Queue \subseteq Thread /\ Comm \subseteq Thread /\ Comm \subseteq Queue
      /\ Manager \in Thread /\ Printer \in Thread /\ Manager \in Queue
      /\ Manager \notin Comm /\ Printer \notin Comm /\ Manager # Printer
      /\ ConnQ = Manager
  BY Threads
<1>3. Nil \notin Client
  BY DataAssumption
<1>4. PICK q \in Seq(Client) : q = buf[ConnQ]
  BY <1>1
<1>5. Conns(q, item[Manager], Serving, NewLinks, Taken)
  BY <1>4 DEF ConnInv
<1>6. ConnInv' = Conns(buf'[ConnQ], item'[Manager], Serving', NewLinks', Taken')
  BY DEF ConnInv
<1>7. ASSUME Taken' = Taken, NewLinks' = NewLinks,
             buf'[ConnQ] = buf[ConnQ] \/ Len(buf'[ConnQ]) = 0,
             item'[Manager] = item[Manager] \/ item'[Manager] = Nil,
             \A i \in Comm : got'[i] = got[i] \/ got'[i] = Nil
      PROVE  ConnInv'
  <2>1. \A i \in Comm : Serving'[i] = Serving[i] \/ Serving'[i] \notin Client
    BY <1>3, <1>7 DEF Serving
  <2>2. item'[Manager] = item[Manager] \/ item'[Manager] \notin Client
    BY <1>3, <1>7
  <2>3. buf'[ConnQ] = q \/ Len(buf'[ConnQ]) = 0
    BY <1>4, <1>7
  <2>4. Conns(buf'[ConnQ], item'[Manager], Serving', NewLinks, Taken)
    BY <1>5, <2>1, <2>2, <2>3, ConnsLess
  <2> QED BY <1>6, <1>7, <2>4
<1>8. CASE Taken' # Taken
  <2>1. PICK i \in Comm : CommRead(i) /\ OneMore(Taken, Taken', got[i])
    BY <1>8, TakenStep
  <2>2. \A c \in Client : c # Serving[i] => Taken'[c] = Taken[c]
    BY <2>1 DEF OneMore, Serving
  <2>3. Conns(q, item[Manager], Serving, NewLinks, Taken')
    BY <1>5, <2>2, ConnsRead
  <2>4. UNCHANGED <<buf, got>> /\ item'[Manager] = item[Manager]
    BY <1>1, <1>2, <2>1 DEF CommRead, batch, files
  <2>5. Serving' = Serving /\ NewLinks' = NewLinks
    <3>1. UNCHANGED link \/ TearLink(got[i])
      BY <2>1 DEF CommRead
    <3>2. \A c \in Client : link'[c] = "new" <=> link[c] = "new"
      BY <1>0, <3>1 DEF TearLink, TypeOK
    <3> QED BY <2>4, <3>2 DEF Serving, NewLinks
  <2> QED BY <1>4, <1>6, <2>3, <2>4, <2>5
<1> USE DEF Step, Point, Move, batch, net, files, data
<1>9. CASE Taken' = Taken /\ Rest
  <2>1. NewLinks' = NewLinks
    BY <1>9 DEF Rest, NewLinks
  <2> QED BY <1>7, <1>9, <2>1 DEF Rest
<1>10. ASSUME Taken' = Taken, NEW t \in Queue, Enqueue(t) PROVE ConnInv'
  <2>1. UNCHANGED <<got, link>> /\ NewLinks' = NewLinks /\ Serving' = Serving
    BY <1>10 DEF Enqueue, NewLinks, Serving
  <2>2. CASE t # Manager \/ buf'[ConnQ] = buf[ConnQ]
    <3>1. buf'[ConnQ] = buf[ConnQ]
      BY <1>1, <1>2, <1>10, <2>2 DEF Enqueue
    <3>2. item'[Manager] = item[Manager] \/ item'[Manager] = Nil
      BY <1>1, <1>2, <1>10 DEF Enqueue
    <3> QED BY <1>7, <1>10, <2>1, <3>1, <3>2
  <2>3. CASE t = Manager /\ buf'[ConnQ] # buf[ConnQ]
    <3>1. item[Manager] \in Client
      BY <1>0, <1>2, <1>10, <2>3 DEF Enqueue, HeldInv, Holding, Carried
    <3>2. item'[Manager] = Nil
      BY <1>1, <1>2, <1>10, <2>3 DEF Enqueue
    <3>3. buf'[ConnQ] = Append(q, item[Manager])
      BY <1>1, <1>2, <1>4, <1>10, <2>3 DEF Enqueue
    <3>4. PICK x \in Client : x = item[Manager]
      BY <3>1
    <3>5. PICK p : p = Append(q, x)
      OBVIOUS
    <3>6. AtEnd(q, p, x) /\ Len(q) \in Nat
      BY <3>5 DEF AtEnd
    <3>7. Conns(q, x, Serving, NewLinks, Taken)
      BY <1>5, <3>4
    <3>8. Conns(p, Nil, Serving, NewLinks, Taken)
      BY <1>3, <3>6, <3>7, ConnsEnqueue
    <3> QED BY <1>6, <1>10, <2>1, <3>2, <3>3, <3>4, <3>5, <3>8
  <2> QED BY <2>2, <2>3
<1>11. ASSUME Taken' = Taken, NEW t \in Thread, NEW r \in Queue, Takes(t, r), Dequeue(t, r)
       PROVE  ConnInv'
  <2>1. UNCHANGED <<item, link>> /\ NewLinks' = NewLinks
    BY <1>11 DEF Dequeue, NewLinks
  <2>2. CASE t = Printer \/ buf[r] = <<>>
    <3>1. t = Printer => r # ConnQ
      BY <1>2, <1>11 DEF Takes, Consumers
    <3>2. buf'[ConnQ] = buf[ConnQ]
      BY <1>1, <1>2, <1>11, <2>2, <3>1 DEF Dequeue
    <3>3. \A i \in Comm : got'[i] = got[i]
      BY <1>1, <1>2, <1>11, <2>2 DEF Dequeue
    <3> QED BY <1>7, <1>11, <2>1, <3>2, <3>3
  <2>3. CASE t # Printer /\ buf[r] # <<>>
    <3>1. t \in Comm /\ r = ConnQ
      BY <1>11, <2>3 DEF Takes, Consumers
    <3>2. q # <<>> /\ buf'[ConnQ] = Tail(q) /\ got' = [got EXCEPT ![t] = Head(q)]
      BY <1>1, <1>2, <1>4, <1>11, <2>3, <3>1 DEF Dequeue
    <3>3. PICK x \in Client : x = Head(q)
      BY <3>2
    <3>4. PICK p : p = Tail(q)
      OBVIOUS
    <3>5. Len(p) \in Nat /\ OffFront(q, p, x)
      BY <3>2, <3>3, <3>4 DEF OffFront
    <3>6. Serving'[t] = x /\ \A j \in Comm \ {t} : Serving'[j] = Serving[j]
      BY <1>1, <1>2, <3>1, <3>2, <3>3 DEF Serving
    <3>7. Conns(p, item[Manager], Serving', NewLinks, Taken)
      BY <1>5, <3>1, <3>5, <3>6, ConnsDequeue
    <3> QED BY <1>6, <1>11, <2>1, <3>2, <3>4, <3>7
  <2> QED BY <2>2, <2>3
<1>12. ASSUME Taken' = Taken, NEW c \in Client, Accept(c) PROVE ConnInv'
  <2>1. /\ item'[Manager] = c /\ UNCHANGED <<buf, got>> /\ link[c] = "new"
        /\ link' = [link EXCEPT ![c] = "open"]
    BY <1>1, <1>2, <1>12 DEF Accept
  <2>2. c \in NewLinks /\ NewLinks' = NewLinks \ {c}
    BY <1>0, <2>1 DEF NewLinks, TypeOK
  <2>3. Serving' = Serving
    BY <2>1 DEF Serving
  <2>4. Conns(q, c, Serving, NewLinks \ {c}, Taken)
    BY <1>5, <2>2, ConnsAccept
  <2> QED BY <1>4, <1>6, <1>12, <2>1, <2>2, <2>3, <2>4
<1>13. ASSUME Taken' = Taken, NEW c \in Client, ClientSend(c) PROVE ConnInv'
  <2>1. UNCHANGED <<buf, item, got, link>> /\ NewLinks' = NewLinks
    BY <1>13 DEF ClientSend, NewLinks
  <2> QED BY <1>7, <1>13, <2>1
<1>14. ASSUME NEW i \in Comm, CommRead(i) PROVE ConnInv'
  <2>1. Taken' # Taken
    BY <1>14, TakenType, ReadOne DEF IInv, TakenOK
  <2> QED BY <1>8, <2>1
<1>15. ASSUME Taken' = Taken, NEW i \in Comm, WriteMsg(i) \/ CommDies(i) PROVE ConnInv'
  <2>1. UNCHANGED <<buf, item, got, link>> /\ NewLinks' = NewLinks
    BY <1>15 DEF WriteMsg, CommDies, NewLinks
  <2> QED BY <1>7, <1>15, <2>1
<1>16. CASE Taken' = Taken /\ (PrinterMkdir \/ PrinterPrint \/ HandlerCancel)
  <2>1. UNCHANGED <<buf, item, got, link>> /\ NewLinks' = NewLinks
    BY <1>16 DEF PrinterMkdir, PrinterPrint, HandlerCancel, NewLinks
  <2> QED BY <1>7, <1>16, <2>1
<1>17. CASE Taken' = Taken /\ PrinterRemove
  <2>1. UNCHANGED <<buf, item, link>> /\ NewLinks' = NewLinks
    BY <1>17 DEF PrinterRemove, NewLinks
  <2>2. \A i \in Comm : got'[i] = got[i]
    BY <1>1, <1>2, <1>17 DEF PrinterRemove
  <2> QED BY <1>7, <1>17, <2>1, <2>2
<1>18. CASE Taken' = Taken /\ FinalCheckPrint
  <2>1. UNCHANGED <<item, got, link>> /\ NewLinks' = NewLinks
    BY <1>18 DEF FinalCheckPrint, NewLinks
  <2>2. hq # ConnQ
    BY <1>2, <1>18 DEF FinalCheckPrint, IInv, BusyInv
  <2>3. buf'[ConnQ] = buf[ConnQ]
    BY <1>1, <1>2, <1>18, <2>2 DEF FinalCheckPrint
  <2> QED BY <1>7, <1>18, <2>1, <2>3
<1>19. CASE Taken' = Taken /\ HandlerDestroy
  <2>1. UNCHANGED <<item, got, link>> /\ NewLinks' = NewLinks /\ buf'[ConnQ] = <<>>
    BY <1>2, <1>19 DEF HandlerDestroy, NewLinks
  <2> QED BY <1>7, <1>19, <2>1
<1>20. ASSUME Taken' = Taken, NEW t \in Thread, Caught(t) PROVE ConnInv'
  <2>1. UNCHANGED <<buf, item, got, link>>
    BY <1>20, CaughtKeeps
  <2>2. NewLinks' = NewLinks
    BY <2>1 DEF NewLinks
  <2> QED BY <1>7, <1>20, <2>1, <2>2
<1> HIDE DEF Step, Point, Move, batch, net, files, data
<1> QED BY <1>0, <1>8, <1>9, <1>10, <1>11, <1>12, <1>13, <1>14, <1>15, <1>16, <1>17,
           <1>18, <1>19, <1>20, EventOrRest DEF Event

-----------------------------------------------------------------------------
(* What each step does to the lines.                                       *)
LEMMA LineIs ==
  ASSUME NEW i \in Comm
  PROVE  /\ Lines[i] = LineOf(AtFront(i), buf[i], InHand(i))
         /\ Lines'[i] = LineOf(AtFront(i)', buf'[i], InHand(i)')
BY DEF Lines, Line

(* The parts of a line are sequences of print messages ...                 *)
LEMMA PartTypes ==
  ASSUME IInv, HandInv, NEW i \in Comm
  PROVE  /\ AtFront(i) \in Seq(PrintMsg) /\ buf[i] \in Seq(PrintMsg)
         /\ InHand(i) \in Seq(PrintMsg)
<1>1. buf[i] \in Seq(PrintMsg)
  BY Threads DEF IInv, TypeOK, Carried
<1>2. <<>> \in Seq(PrintMsg) /\ \A m \in PrintMsg : <<m>> \in Seq(PrintMsg)
  OBVIOUS
<1>3. InHand(i) \in Seq(PrintMsg)
  BY <1>2 DEF InHand, HandInv
<1>4. InPrinter \in Seq(PrintMsg)
  BY <1>2 DEF InPrinter, IInv, GotInv
<1> QED BY <1>1, <1>2, <1>3, <1>4 DEF AtFront

LinesOK == Lines \in [Comm -> Seq(PrintMsg)]

(* ... and so are the lines,                                               *)
LEMMA LinesType == IInv /\ HandInv => LinesOK
<1> SUFFICES ASSUME IInv, HandInv PROVE LinesOK
  OBVIOUS
<1>1. ASSUME NEW i \in Comm PROVE Line(i) \in Seq(PrintMsg)
  BY PartTypes, LineType DEF Line
<1> QED BY <1>1 DEF LinesOK, Lines

(* before and after a step.                                                *)
LEMMA LinesTypeNext == IInv' /\ HandInv' => LinesOK'
BY LinesType, PTL

(* A step that moves no part of a line keeps them all.                     *)
LEMMA LinesSame ==
  ASSUME \A i \in Comm : AtFront(i)' = AtFront(i) /\ buf'[i] = buf[i] /\ InHand(i)' = InHand(i)
  PROVE  Lines' = Lines
<1>1. \A i \in Comm : Line(i)' = Line(i)
  BY DEF Line
<1> QED BY <1>1 DEF Lines

(* A line gets longer, and a line gets shorter.                            *)
LEMMA OneLonger ==
  ASSUME NEW L, NEW M, NEW i \in Comm, NEW x, AtEnd(L[i], M[i], x),
         \A j \in Comm \ {i} : M[j] = L[j]
  PROVE  Longer(L, M, i, x)
BY DEF Longer, AtEnd

FirstGone(L, M, i, x) == Shorter(L, M, i) /\ Len(L[i]) # 0 /\ L[i][1] = x

(* A line that loses its first message, the others being the same.         *)
LEMMA OneShorter ==
  ASSUME NEW L, NEW M, NEW i \in Comm, NEW x, OffFront(L[i], M[i], x),
         M \in [Comm -> Seq(PrintMsg)], \A j \in Comm \ {i} : M[j] = L[j]
  PROVE  FirstGone(L, M, i, x)
<1>1. Len(L[i]) = Len(M[i]) + 1 /\ L[i][1] = x /\ Len(M[i]) \in Nat
      /\ \A k \in 1 .. Len(M[i]) : M[i][k] = L[i][k + 1]
  BY DEF OffFront
<1>2. Len(L[i]) # 0
  BY <1>1
<1> QED BY <1>1, <1>2 DEF FirstGone, Shorter

(* Nothing moves.                                                          *)
LEMMA LinesStay ==
  ASSUME UNCHANGED <<buf, item>>, pc'[Printer] \in InHandPC <=> pc[Printer] \in InHandPC,
         pc[Printer] \in InHandPC => got'[Printer] = got[Printer] /\ pq' = pq
  PROVE  Lines' = Lines
<1>1. InPrinter' = InPrinter
  BY DEF InPrinter, InHandPC
<1>2. \A i \in Comm : AtFront(i)' = AtFront(i)
  <2>1. CASE pc[Printer] \in InHandPC
    BY <1>1, <2>1 DEF AtFront
  <2>2. CASE pc[Printer] \notin InHandPC
    BY <2>2 DEF AtFront, InPrinter, InHandPC
  <2> QED BY <2>1, <2>2
<1>3. \A i \in Comm : InHand(i)' = InHand(i)
  BY DEF InHand
<1> QED BY <1>2, <1>3, LinesSame

(* A message read is at the end of its line.                               *)
LEMMA ReadLines ==
  ASSUME IInv, HandInv, NetInv, NEW i \in Comm, CommRead(i)
  PROVE  Longer(Lines, Lines', i, Msg(got[i], Taken[got[i]] + 1))
<1>0. TypeOK
  BY DEF IInv
<1>1. /\ item \in [Thread -> Client \union PrintMsg \union {Nil}]
      /\ \E W : pc \in [Thread -> W]
  BY <1>0 DEF TypeOK
<1>2. i \in Thread /\ Printer \in Thread /\ Printer # i /\ Comm \subseteq Thread
  BY Threads
<1>3. PICK x : x = Msg(got[i], Taken[got[i]] + 1)
  OBVIOUS
<1>4. item'[i] = x /\ pc[i] = "read" /\ pc' = [pc EXCEPT ![i] = "wait_empty"]
  BY <1>3, ReadOne
<1>5. UNCHANGED <<buf, got, pq>> /\ item' = [item EXCEPT ![i] = Head(sock[got[i]])]
  BY DEF CommRead, batch
<1>6. item[i] = Nil
  BY <1>4 DEF HandInv, Holding
<1>7. \A j \in Comm : AtFront(j)' = AtFront(j) /\ buf'[j] = buf[j]
  BY <1>1, <1>2, <1>4, <1>5 DEF AtFront, InPrinter
<1>8. \A j \in Comm \ {i} : InHand(j)' = InHand(j)
  BY <1>1, <1>2, <1>5 DEF InHand
<1>9. \A j \in Comm \ {i} : Lines'[j] = Lines[j]
  BY <1>7, <1>8, LineIs
<1>10. x \in PrintMsg
  <2>1. got[i] \in Client /\ sock[got[i]] # <<>>
    BY <1>0, <1>4 DEF CommRead, IInv, GotInv
  <2>2. Head(sock[got[i]]) \in PrintMsg
    BY <1>0, <2>1 DEF TypeOK
  <2> QED BY <1>1, <1>2, <1>4, <1>5, <2>2
<1>11. x # Nil
  BY <1>10, DataAssumption
<1>12. InHand(i) = <<>> /\ InHand(i)' = <<x>>
  BY <1>4, <1>6, <1>11 DEF InHand
<1>13. PICK f \in Seq(PrintMsg) : f = AtFront(i)
  BY PartTypes
<1>14. PICK b \in Seq(PrintMsg) : b = buf[i]
  BY PartTypes
<1>15. Lines[i] = LineOf(f, b, <<>>) /\ Lines'[i] = LineOf(f, b, <<x>>)
  BY <1>7, <1>12, <1>13, <1>14, LineIs
<1>16. AtEnd(Lines[i], Lines'[i], x)
  BY <1>10, <1>15, HandFilled
<1> QED BY <1>3, <1>9, <1>16, OneLonger

(* A message put in a queue stays in its place; one put in a queue the     *)
(* handler is emptying may be lost.                                        *)
LEMMA EnqueueLines ==
  ASSUME IInv, HandInv, NEW t \in Queue, Enqueue(t)
  PROVE  \/ Lines' = Lines
         \/ Cancelled /\ t \in Comm /\ Longer(Lines', Lines, t, item[t])
<1>0. TypeOK /\ HeldInv
  BY DEF IInv
<1>1. /\ item \in [Thread -> Client \union PrintMsg \union {Nil}]
      /\ buf \in [Queue -> Seq(Client \union PrintMsg)]
      /\ \E W : pc \in [Thread -> W]
  BY <1>0 DEF TypeOK
<1>2. t \in Thread /\ Printer \in Thread /\ Printer # t /\ Comm \subseteq Thread
      /\ Comm \subseteq Queue /\ Queue = Comm \union {Manager} /\ Manager \notin Comm
  BY Threads
<1>3. /\ pc[t] = "enqueue" /\ pc' = [pc EXCEPT ![t] = "unlock"]
      /\ item' = [item EXCEPT ![t] = Nil] /\ UNCHANGED <<got, pq>>
      /\ \/ buf' = [buf EXCEPT ![t] = Append(@, item[t])]
         \/ Cancelled /\ UNCHANGED buf
  BY DEF Enqueue, Step, batch, Cancelled
<1>4. \A j \in Comm : AtFront(j)' = AtFront(j)
  BY <1>1, <1>2, <1>3 DEF AtFront, InPrinter
<1>5. \A j \in Comm \ {t} : InHand(j)' = InHand(j) /\ buf'[j] = buf[j]
  BY <1>1, <1>2, <1>3 DEF InHand
<1>6. CASE t \notin Comm
  BY <1>4, <1>5, <1>6, LinesSame
<1>7. CASE t \in Comm
  <2>1. PICK x \in PrintMsg : x = item[t]
    BY <1>0, <1>2, <1>3, <1>7, Threads DEF HeldInv, Holding, Carried
  <2>2. x # Nil
    BY DataAssumption
  <2>3. InHand(t) = <<x>> /\ InHand(t)' = <<>>
    BY <1>1, <1>2, <1>3, <2>1, <2>2 DEF InHand
  <2>4. PICK f \in Seq(PrintMsg) : f = AtFront(t)
    BY <1>7, PartTypes
  <2>5. PICK b \in Seq(PrintMsg) : b = buf[t]
    BY <1>7, PartTypes
  <2>6. Lines[t] = LineOf(f, b, <<x>>)
    BY <1>7, <2>3, <2>4, <2>5, LineIs
  <2>7. \A j \in Comm \ {t} : Lines'[j] = Lines[j]
    BY <1>4, <1>5, LineIs
  <2>8. CASE buf' = [buf EXCEPT ![t] = Append(@, item[t])]
    <3>1. buf'[t] = Append(b, x)
      BY <1>1, <2>1, <2>5, <2>8
    <3>2. Lines'[t] = LineOf(f, Append(b, x), <<>>)
      BY <1>4, <1>7, <2>3, <2>4, <3>1, LineIs
    <3>3. LineOf(f, Append(b, x), <<>>) = LineOf(f, b, <<x>>)
      BY HandPut
    <3>4. \A j \in Comm : Lines'[j] = Lines[j]
      BY <2>6, <2>7, <3>2, <3>3
    <3>5. Lines' = [j \in Comm |-> Lines'[j]] /\ Lines = [j \in Comm |-> Lines[j]]
      BY DEF Lines
    <3>6. Lines' = Lines
      BY <3>4, <3>5, Zenon
    <3> QED BY <3>6
  <2>9. CASE Cancelled /\ UNCHANGED buf
    <3>1. buf'[t] = b
      BY <2>5, <2>9
    <3>2. Lines'[t] = LineOf(f, b, <<>>)
      BY <1>4, <1>7, <2>3, <2>4, <3>1, LineIs
    <3>3. AtEnd(Lines'[t], Lines[t], x)
      BY <2>6, <3>2, HandFilled
    <3>4. \A j \in Comm \ {t} : Lines[j] = Lines'[j]
      BY <2>7
    <3>5. Longer(Lines', Lines, t, x)
      BY <1>7, <3>3, <3>4, OneLonger
    <3> QED BY <1>7, <2>1, <2>9, <3>5
  <2> QED BY <1>3, <2>8, <2>9
<1> QED BY <1>6, <1>7

(* A message taken out of a queue is in the printer thread's hand.         *)
LEMMA DequeueLines ==
  ASSUME IInv, HandInv, NEW t \in Thread, NEW q \in Queue, Takes(t, q), Dequeue(t, q),
         pc[Manager] # "rmdir"
  PROVE  Lines' = Lines
<1>0. TypeOK
  BY DEF IInv
<1>1. /\ buf \in [Queue -> Seq(Client \union PrintMsg)]
      /\ got \in [Thread -> Client \union PrintMsg \union {Nil}]
      /\ \E W : pc \in [Thread -> W]
  BY <1>0 DEF TypeOK
<1>2. /\ Printer \in Thread /\ Comm \subseteq Thread /\ Comm \subseteq Queue
      /\ Printer \notin Comm /\ ConnQ \notin Comm /\ pq \in Comm
  BY <1>0, Threads DEF TypeOK
<1>3. pc[t] = "dequeue" /\ pc' = [pc EXCEPT ![t] = "unlock_full"] /\ UNCHANGED <<item, pq>>
  BY DEF Dequeue, Step, batch
<1>4. buf[q] # <<>>
  BY <1>3, SomethingToTake
<1>5. got' = [got EXCEPT ![t] = Head(buf[q])] /\ buf' = [buf EXCEPT ![q] = Tail(@)]
  BY <1>4 DEF Dequeue
<1>6. \A j \in Comm : InHand(j)' = InHand(j)
  BY <1>3 DEF InHand
<1>7. CASE t # Printer
  <2>1. q = ConnQ
    BY <1>7 DEF Takes, Consumers
  <2>2. \A j \in Comm : buf'[j] = buf[j]
    BY <1>1, <1>2, <1>5, <2>1
  <2>3. InPrinter' = InPrinter
    BY <1>1, <1>2, <1>3, <1>5, <1>7 DEF InPrinter
  <2> QED BY <1>3, <1>6, <2>2, <2>3, LinesSame DEF AtFront
<1>8. CASE t = Printer
  <2>1. q = pq
    BY <1>8 DEF Takes
  <2>2. \A j \in Comm \ {q} : buf'[j] = buf[j]
    BY <1>1, <1>2, <1>5
  <2>3. InPrinter = <<>> /\ InPrinter' = <<Head(buf[q])>>
    BY <1>1, <1>2, <1>3, <1>5, <1>8 DEF InPrinter
  <2>4. /\ AtFront(q) = <<>> /\ AtFront(q)' = <<Head(buf[q])>>
        /\ \A j \in Comm \ {q} : AtFront(j)' = AtFront(j)
    BY <1>3, <2>1, <2>3 DEF AtFront
  <2>5. q \in Comm /\ buf'[q] = Tail(buf[q])
    BY <1>1, <1>2, <1>5, <2>1
  <2>6. PICK b \in Seq(PrintMsg) : b = buf[q]
    BY <2>5, PartTypes
  <2>7. PICK h \in Seq(PrintMsg) : h = InHand(q)
    BY <2>5, PartTypes
  <2>8. Lines[q] = LineOf(<<>>, b, h) /\ Lines'[q] = LineOf(<<Head(b)>>, Tail(b), h)
    BY <1>6, <2>4, <2>5, <2>6, <2>7, LineIs
  <2>9. Lines'[q] = Lines[q]
    BY <1>4, <2>6, <2>8, HeadTaken
  <2>10. \A j \in Comm \ {q} : Lines'[j] = Lines[j]
    BY <1>6, <2>2, <2>4, LineIs
  <2>11. \A j \in Comm : Lines'[j] = Lines[j]
    BY <2>9, <2>10
  <2>12. Lines' = [j \in Comm |-> Lines'[j]] /\ Lines = [j \in Comm |-> Lines[j]]
    BY DEF Lines
  <2> QED BY <2>11, <2>12, Zenon
<1> QED BY <1>7, <1>8

(* The message the printer thread prints is the first of its line.         *)
LEMMA PrintLines ==
  ASSUME IInv, HandInv, IInv', HandInv', PrinterPrint
  PROVE  pq \in Comm /\ FirstGone(Lines, Lines', pq, got[Printer])
<1>0. TypeOK
  BY DEF IInv
<1>1. pq \in Comm /\ Printer \in Thread /\ \E W : pc \in [Thread -> W]
  BY <1>0, Threads DEF TypeOK
<1>2. /\ pc[Printer] = "print" /\ pc' = [pc EXCEPT ![Printer] = "remove"]
      /\ UNCHANGED <<buf, item, got, pq>>
  BY DEF PrinterPrint, Step, batch
<1>3. InPrinter = <<got[Printer]>> /\ InPrinter' = <<>>
  BY <1>1, <1>2 DEF InPrinter
<1>4. \A j \in Comm : InHand(j)' = InHand(j) /\ buf'[j] = buf[j]
  BY <1>2 DEF InHand
<1>5. PICK x \in PrintMsg : x = got[Printer]
  BY <1>2 DEF IInv, GotInv
<1>6. PICK p \in Comm : p = pq
  BY <1>1
<1>7. /\ AtFront(p) = <<x>> /\ AtFront(p)' = <<>>
      /\ \A j \in Comm \ {p} : AtFront(j)' = AtFront(j)
  BY <1>2, <1>3, <1>5, <1>6 DEF AtFront
<1>8. PICK b \in Seq(PrintMsg) : b = buf[p]
  BY PartTypes
<1>9. PICK h \in Seq(PrintMsg) : h = InHand(p)
  BY PartTypes
<1>10. Lines[p] = LineOf(<<x>>, b, h) /\ Lines'[p] = LineOf(<<>>, b, h)
  BY <1>4, <1>7, <1>8, <1>9, LineIs
<1>11. OffFront(Lines[p], Lines'[p], x)
  BY <1>10, FrontGone
<1>12. \A j \in Comm \ {p} : Lines'[j] = Lines[j]
  BY <1>4, <1>7, LineIs
<1>13. Lines' \in [Comm -> Seq(PrintMsg)]
  BY LinesTypeNext DEF LinesOK
<1>14. FirstGone(Lines, Lines', p, x)
  <2>1. PICK L : L = Lines
    OBVIOUS
  <2>2. PICK M : M = Lines'
    OBVIOUS
  <2>3. /\ OffFront(L[p], M[p], x) /\ M \in [Comm -> Seq(PrintMsg)]
        /\ \A j \in Comm \ {p} : M[j] = L[j]
    BY <1>11, <1>12, <1>13, <2>1, <2>2
  <2>4. FirstGone(L, M, p, x)
    BY <2>3, OneShorter
  <2> QED BY <2>1, <2>2, <2>4
<1> QED BY <1>5, <1>6, <1>14

(* And so is the one the final check prints.                               *)
LEMMA FinalCheckLines ==
  ASSUME IInv, HandInv, IInv', HandInv', FinalCheckPrint
  PROVE  hq \in Comm /\ FirstGone(Lines, Lines', hq, Head(buf[hq]))
<1>0. TypeOK /\ BusyInv
  BY DEF IInv
<1>1. /\ buf \in [Queue -> Seq(Client \union PrintMsg)]
      /\ \E W : pc \in [Thread -> W]
  BY <1>0 DEF TypeOK
<1>2. /\ pc[Manager] = "final_check" /\ pc' = [pc EXCEPT ![Manager] = "final_check"]
      /\ buf[hq] # <<>> /\ buf' = [buf EXCEPT ![hq] = Tail(@)]
      /\ UNCHANGED <<item, got, pq>>
  BY DEF FinalCheckPrint, Step, batch
<1>3. hq \in Comm /\ ~InBatch
  BY <1>0, <1>2 DEF BusyInv, HandlerPC
<1>4. pc'[Printer] = pc[Printer]
  BY <1>1, <1>2, Threads
<1>5. InPrinter = <<>> /\ InPrinter' = <<>>
  BY <1>3, <1>4 DEF InPrinter, InBatch
<1>6. \A j \in Comm : InHand(j)' = InHand(j) /\ AtFront(j) = <<>> /\ AtFront(j)' = <<>>
  BY <1>2, <1>5 DEF InHand, AtFront
<1>7. PICK p \in Comm : p = hq
  BY <1>3
<1>8. buf'[p] = Tail(buf[p]) /\ \A j \in Comm \ {p} : buf'[j] = buf[j]
  BY <1>1, <1>2, <1>7, Threads
<1>9. PICK b \in Seq(PrintMsg) : b = buf[p]
  BY PartTypes
<1>10. PICK h \in Seq(PrintMsg) : h = InHand(p)
  BY PartTypes
<1>11. Lines[p] = LineOf(<<>>, b, h) /\ Lines'[p] = LineOf(<<>>, Tail(b), h)
  BY <1>6, <1>8, <1>9, <1>10, LineIs
<1>12. OffFront(Lines[p], Lines'[p], Head(b))
  BY <1>2, <1>7, <1>9, <1>11, HeadGone
<1>13. \A j \in Comm \ {p} : Lines'[j] = Lines[j]
  BY <1>6, <1>8, LineIs
<1>14. Lines' \in [Comm -> Seq(PrintMsg)]
  BY LinesTypeNext DEF LinesOK
<1>15. PICK x : x = Head(b)
  OBVIOUS
<1>16. FirstGone(Lines, Lines', p, x)
  <2>1. PICK L : L = Lines
    OBVIOUS
  <2>2. PICK M : M = Lines'
    OBVIOUS
  <2>3. /\ OffFront(L[p], M[p], x) /\ M \in [Comm -> Seq(PrintMsg)]
        /\ \A j \in Comm \ {p} : M[j] = L[j]
    BY <1>12, <1>13, <1>14, <1>15, <2>1, <2>2
  <2>4. FirstGone(L, M, p, x)
    BY <2>3, OneShorter
  <2> QED BY <2>1, <2>2, <2>4
<1> QED BY <1>7, <1>9, <1>15, <1>16

-----------------------------------------------------------------------------
(* What the paper has.                                                     *)
OnPaperOK == OnPaper \in [Client -> Nat]

(* The pages of a connection are counted by a number ...                   *)
LEMMA OnPaperType == TypeOK => OnPaperOK
<1> SUFFICES ASSUME TypeOK PROVE OnPaperOK
  OBVIOUS
<1>1. ASSUME NEW c \in Client PROVE Len(Of(c, paper)) \in Nat
  <2>1. paper \in Seq(Message)
    BY DEF TypeOK
  <2>2. Of(c, paper) \in Seq(Message)
    BY <2>1, OfType
  <2> QED BY <2>2
<1> QED BY <1>1 DEF OnPaper, OnPaperOK

(* ... after the step, too.                                                *)
LEMMA OnPaperTypeNext == TypeOK' => OnPaperOK'
BY OnPaperType, PTL

(* The messages of a script are print messages.                            *)
LEMMA MsgType ==
  ASSUME NEW c \in Client, NEW r \in 1 .. Size(c)
  PROVE  /\ Msg(c, r) \in PrintMsg /\ Msg(c, r) # Nil /\ Msg(c, r) \in Message
         /\ Msg(c, r).id \in PrintID /\ Msg(c, r).text \in Text
<1>1. Script[c] \in Seq(PrintMsg)
  BY DataAssumption
<1>2. Msg(c, r) \in PrintMsg
  BY <1>1 DEF Msg, Size
<1>3. PrintMsg \subseteq Message /\ Nil \notin PrintMsg
  BY DataAssumption DEF PrintMsg, Message
<1> QED BY <1>2, <1>3 DEF PrintMsg

(* A page is carried by the connection of its message only.                *)
LEMMA CarriedBy ==
  ASSUME Distinct, NEW c \in Client, NEW r \in 1 .. Size(c), NEW d \in Client,
         NEW x, x.id = Msg(c, r).id
  PROVE  Carries(d, x) <=> d = c
<1>1. r \in DOMAIN Script[c]
  BY DataAssumption DEF Size
<1>2. Carries(c, x)
  BY <1>1 DEF Carries, Msg
<1>3. ASSUME Carries(d, x) PROVE d = c
  <2>1. PICK k \in DOMAIN Script[d] : Script[d][k].id = Script[c][r].id
    BY <1>3 DEF Carries, Msg
  <2> QED BY <1>1, <2>1 DEF Distinct
<1> QED BY <1>2, <1>3

(* t is s with one more page, x of connection c.                           *)
OnePage(s, t, x, c) ==
  /\ AtEnd(Of(c, s), Of(c, t), x) /\ Of(c, t) = Append(Of(c, s), x)
  /\ \A d \in Client \ {c} : Of(d, t) = Of(d, s)

(* One more page.                                                          *)
LEMMA PageJoins ==
  ASSUME Distinct, NEW c \in Client, NEW r \in 1 .. Size(c),
         NEW x \in Message, x.id = Msg(c, r).id,
         NEW s \in Seq(Message), NEW t, t = Append(s, x)
  PROVE  OnePage(s, t, x, c)
<1>5. \A d \in Client : Of(d, t) = Of(d, s) \o Own(d, x)
  <2> SUFFICES ASSUME NEW d \in Client PROVE Of(d, t) = Of(d, s) \o Own(d, x)
    OBVIOUS
  <2>1. LET u == Append(s, x) IN Of(d, u) = Of(d, s) \o Own(d, x)
    BY OfAppend
  <2> QED BY <2>1
<1>6. \A d \in Client : Of(d, s) \in Seq(Message)
  BY OfType
<1>7. \A d \in Client \ {c} : Of(d, t) = Of(d, s)
  <2> SUFFICES ASSUME NEW d \in Client \ {c} PROVE Of(d, t) = Of(d, s)
    OBVIOUS
  <2>1. ~Carries(d, x)
    BY CarriedBy
  <2>2. Own(d, x) = <<>>
    BY <2>1 DEF Own
  <2>3. PICK u \in Seq(Message) : u = Of(d, s)
    BY <1>6
  <2>4. u \o <<>> = u
    OBVIOUS
  <2> QED BY <1>5, <2>2, <2>3, <2>4
<1>8. AtEnd(Of(c, s), Of(c, t), x) /\ Of(c, t) = Append(Of(c, s), x)
  <2>1. Carries(c, x)
    BY CarriedBy
  <2>2. Own(c, x) = <<x>>
    BY <2>1 DEF Own
  <2>3. PICK u \in Seq(Message) : u = Of(c, s)
    BY <1>6
  <2>4. AtEnd(u, u \o <<x>>, x) /\ u \o <<x>> = Append(u, x)
    BY DEF AtEnd
  <2> QED BY <1>5, <2>2, <2>3, <2>4
<1> QED BY <1>7, <1>8 DEF OnePage

(* It is printed.                                                          *)
LEMMA PageMore ==
  ASSUME Distinct, TypeOK, TypeOK', NEW c \in Client, NEW r \in 1 .. Size(c),
         NEW x \in Message, x.id = Msg(c, r).id, paper' = Append(paper, x)
  PROVE  /\ OneMore(OnPaper, OnPaper', c)
         /\ AtEnd(Of(c, paper), Of(c, paper'), x)
         /\ \A d \in Client \ {c} : Of(d, paper') = Of(d, paper)
<1>2. PICK s \in Seq(Message) : s = paper
  BY DEF TypeOK
<1>3. PICK t : t = Append(s, x)
  OBVIOUS
<1>4. paper' = t
  BY <1>2, <1>3
<1>5. OnePage(s, t, x, c)
  BY <1>3, PageJoins
<1>7. \A d \in Client \ {c} : Of(d, t) = Of(d, s)
  BY <1>5 DEF OnePage
<1>8. AtEnd(Of(c, s), Of(c, t), x)
  BY <1>5 DEF OnePage
<1>9. OneMore(OnPaper, OnPaper', c)
  <2>1. OnPaper' \in [Client -> Nat]
    BY OnPaperTypeNext DEF OnPaperOK
  <2>2. \A d \in Client : OnPaper[d] = Len(Of(d, s)) /\ OnPaper'[d] = Len(Of(d, t))
    BY <1>2, <1>4 DEF OnPaper
  <2>3. Len(Of(c, t)) = Len(Of(c, s)) + 1
    BY <1>8 DEF AtEnd
  <2>4. \A d \in Client \ {c} : OnPaper'[d] = OnPaper[d]
    BY <1>7, <2>2
  <2>5. OnPaper'[c] = OnPaper[c] + 1
    BY <2>2, <2>3
  <2> QED BY <2>1, <2>4, <2>5 DEF OneMore
<1> QED BY <1>2, <1>4, <1>7, <1>8, <1>9

(* A step that prints nothing keeps the pages.                             *)
LEMMA PaperSame ==
  ASSUME UNCHANGED paper
  PROVE  OnPaper' = OnPaper /\ \A c \in Client : Of(c, paper') = Of(c, paper)
BY DEF OnPaper

-----------------------------------------------------------------------------
(* The invariant about messages.                                           *)

(* The messages on their way are in the lines, each once, in order, and    *)
(* after what has been printed; the cancellation may lose the last ones.   *)
LinedInv == pc[Manager] # "rmdir" => Lined(Lines, OnPaper, Taken, ~Cancelled)

(* What a communicator serves is in its own line only.                     *)
OneServer(L, g) ==
  \A c \in Client : \A i \in Comm : g[i] = c =>
    \A j \in Comm : \A k \in 1 .. Len(L[j]) : \A r \in 1 .. Size(c) :
      L[j][k] = Msg(c, r) => j = i
ServerInv == pc[Manager] # "rmdir" => OneServer(Lines, Serving)

(* A connection that broke inside a message carries nothing more, ...      *)
LinkInv == \A c \in Client : link[c] = "torn" => sock[c] = <<>>

(* ... and that message is the last that was read of it.                   *)
Broke(c, r) == link[c] = "torn" /\ r = Taken[c]

(* The message in the hand of a communicator is the last that was read of  *)
(* the connection it serves.                                               *)
ReadInv ==
  \A i \in Comm : item[i] # Nil =>
    /\ got[i] \in Client /\ Taken[got[i]] \in 1 .. Size(got[i])
    /\ item[i] = Msg(got[i], Taken[got[i]])

(* The page of a message, which is wrong if the connection broke in it.    *)
IsPage(x, c, r) == x = Msg(c, r) \/ (x = Garbled(Msg(c, r)) /\ Broke(c, r))

(* The paper has the first messages of every connection.                   *)
PagesInv ==
  \A c \in Client :
    /\ OnPaper[c] <= Taken[c]
    /\ \A k \in 1 .. OnPaper[c] : IsPage(Of(c, paper)[k], c, k)

(* The page the process leaves unfinished is the next of its connection.   *)
NextPage(m) ==
  \E c \in Client : OnPaper[c] < Taken[c] /\ m = Msg(c, OnPaper[c] + 1)
CutInv == torn # Nil => status \in {"exit1", "crashed"} /\ NextPage(torn)

(* A message has no spool file yet, or has lost it to the cancellation.    *)
Unwritten(m) ==
  \E i \in Comm : item[i] = m /\ ~(pc[i] = "enqueue" /\ status = "running")

(* Its spool file has its text, or what was taken for it.                  *)
InFile(c, r) == \/ spool[Msg(c, r).id] = Msg(c, r).text
                \/ spool[Msg(c, r).id] = Damaged /\ Broke(c, r)

SpoolInv ==
  pc[Manager] # "rmdir" =>
    \A c \in Client : \A r \in 1 .. Size(c) :
      InLine(Lines, c, r) /\ ~Unwritten(Msg(c, r)) => InFile(c, r)

(* The spool file that is removed is that of a printed message.            *)
RemoveInv ==
  pc[Printer] = "remove" =>
    \E c \in Client : \E r \in 1 .. OnPaper[c] : got[Printer] = Msg(c, r)

(* Nothing gets as far as a queue while there is no spool directory.       *)
MkdirInv ==
  pc[Printer] \in NoDir /\ status = "running" =>
    paper = <<>> /\ \A i \in Comm : buf[i] = <<>> /\ pc[i] # "enqueue"

MessageInv == /\ HandInv /\ NetInv /\ ConnInv /\ LinedInv /\ ServerInv
              /\ LinkInv /\ ReadInv /\ PagesInv /\ CutInv
              /\ SpoolInv /\ RemoveInv /\ MkdirInv

-----------------------------------------------------------------------------
(* Where a line has what.                                                  *)
LEMMA ConcatPlaces ==
  ASSUME NEW T, NEW s \in Seq(T), NEW h \in Seq(T)
  PROVE  /\ s \o h \in Seq(T) /\ Len(s) \in Nat /\ Len(h) \in Nat
         /\ Len(s \o h) = Len(s) + Len(h)
         /\ \A k \in 1 .. Len(s) : (s \o h)[k] = s[k]
         /\ \A k \in 1 .. Len(h) : (s \o h)[Len(s) + k] = h[k]
<1>1. Len(s) \in Nat /\ Len(h) \in Nat /\ Len(s \o h) = Len(s) + Len(h)
  OBVIOUS
<1>2. s \o h \in Seq(T)
  OBVIOUS
<1>3. \A k \in 1 .. Len(s) + Len(h) :
        (s \o h)[k] = IF k <= Len(s) THEN s[k] ELSE h[k - Len(s)]
  OBVIOUS
<1>4. ASSUME NEW k \in 1 .. Len(s) PROVE (s \o h)[k] = s[k]
  BY <1>1, <1>3
<1>5. ASSUME NEW k \in 1 .. Len(h) PROVE (s \o h)[Len(s) + k] = h[k]
  <2>1. /\ Len(s) + k \in 1 .. Len(s) + Len(h) /\ ~(Len(s) + k <= Len(s))
        /\ (Len(s) + k) - Len(s) = k
    BY <1>1
  <2> QED BY <1>3, <2>1
<1> QED BY <1>1, <1>2, <1>4, <1>5

(* Where a place of a line is: at the front, in the queue or in the hand.  *)
LEMMA LinePlaces ==
  ASSUME NEW T, NEW f \in Seq(T), NEW b \in Seq(T), NEW h \in Seq(T)
  PROVE  /\ \A k \in 1 .. Len(b) : LineOf(f, b, h)[Len(f) + k] = b[k]
         /\ \A k \in 1 .. Len(h) : LineOf(f, b, h)[Len(f) + Len(b) + k] = h[k]
         /\ \A k \in 1 .. Len(f) : LineOf(f, b, h)[k] = f[k]
<1>1. /\ f \o b \in Seq(T) /\ Len(f) \in Nat /\ Len(b) \in Nat
      /\ Len(f \o b) = Len(f) + Len(b)
      /\ \A k \in 1 .. Len(f) : (f \o b)[k] = f[k]
      /\ \A k \in 1 .. Len(b) : (f \o b)[Len(f) + k] = b[k]
  BY ConcatPlaces
<1>2. PICK s \in Seq(T) : s = f \o b
  BY <1>1
<1>3. /\ \A k \in 1 .. Len(s) : (s \o h)[k] = s[k]
      /\ \A k \in 1 .. Len(h) : (s \o h)[Len(s) + k] = h[k]
  BY ConcatPlaces
<1>4. LineOf(f, b, h) = s \o h /\ Len(s) = Len(f) + Len(b)
  BY <1>1, <1>2 DEF LineOf
<1>5. \A k \in 1 .. Len(f) : k \in 1 .. Len(s) /\ s[k] = f[k]
  BY <1>1, <1>2, <1>4
<1>6. \A k \in 1 .. Len(b) : Len(f) + k \in 1 .. Len(s) /\ s[Len(f) + k] = b[k]
  BY <1>1, <1>2, <1>4
<1> QED BY <1>3, <1>4, <1>5, <1>6

(* What is in a queue or a hand is in its line.                            *)
LEMMA InListed ==
  ASSUME NEW L, NEW P, NEW R, NEW all, Lined(L, P, R, all),
         NEW i \in Comm, NEW k \in 1 .. Len(L[i])
  PROVE  \E c \in Client : \E r \in 1 .. Size(c) :
           L[i][k] = Msg(c, r) /\ P[c] < r /\ r <= R[c]
<1>1. Counts(L, P, R) /\ Listed(L, P, R)
  BY DEF Lined
<1>2. PICK c \in Client : \E r \in P[c] + 1 .. R[c] : L[i][k] = Msg(c, r)
  BY <1>1 DEF Listed
<1>3. PICK r \in P[c] + 1 .. R[c] : L[i][k] = Msg(c, r)
  BY <1>2
<1>4. P[c] \in Nat /\ R[c] \in Nat /\ R[c] <= Size(c) /\ Size(c) \in Nat
  BY <1>1, LastType DEF Counts
<1>5. r \in 1 .. Size(c) /\ P[c] < r /\ r <= R[c]
  BY <1>4
<1> QED BY <1>3, <1>5

(* A message is in one place of one line.                                  *)
LEMMA OnePlace ==
  ASSUME NEW L, NEW P, NEW R, NEW all, Lined(L, P, R, all),
         NEW i \in Comm, NEW k \in 1 .. Len(L[i]),
         NEW j \in Comm, NEW l \in 1 .. Len(L[j]), L[i][k] = L[j][l]
  PROVE  i = j /\ k = l
<1>1. PICK c \in Client : \E r \in 1 .. Size(c) :
        L[i][k] = Msg(c, r) /\ P[c] < r /\ r <= R[c]
  BY InListed
<1>2. PICK r \in 1 .. Size(c) : L[i][k] = Msg(c, r)
  BY <1>1
<1>3. L[j][l] = Msg(c, r) /\ Ordered(L)
  BY <1>2 DEF Lined
<1>4. i = j /\ (r < r <=> k < l)
  BY <1>2, <1>3, OrderedAt
<1>5. j = i /\ (r < r <=> l < k)
  BY <1>2, <1>3, OrderedAt
<1> QED BY <1>4, <1>5

(* What a communicator holds is the last of its line.                      *)
LEMMA HandPlace ==
  ASSUME IInv, HandInv, NEW j \in Comm, item[j] # Nil
  PROVE  /\ Len(Lines[j]) = Len(AtFront(j)) + Len(buf[j]) + 1
         /\ Len(Lines[j]) \in 1 .. Len(Lines[j]) /\ Lines[j][Len(Lines[j])] = item[j]
<1>1. PICK x \in PrintMsg : x = item[j]
  BY DEF HandInv
<1>2. InHand(j) = <<x>>
  BY <1>1 DEF InHand
<1>3. PICK f \in Seq(PrintMsg) : f = AtFront(j)
  BY PartTypes
<1>4. PICK b \in Seq(PrintMsg) : b = buf[j]
  BY PartTypes
<1>a. <<x>> \in Seq(PrintMsg)
  OBVIOUS
<1>5. PICK h \in Seq(PrintMsg) : h = <<x>>
  BY <1>a
<1>6. Len(h) = 1 /\ h[1] = x /\ Len(f) \in Nat /\ Len(b) \in Nat
  BY <1>5
<1>7. Lines[j] = LineOf(f, b, h)
  BY <1>2, <1>3, <1>4, <1>5, LineIs
<1>8. Len(LineOf(f, b, h)) = Len(f) + Len(b) + 1
  <2>1. Len(LineOf(f, b, h)) = Len(f) + Len(b) + Len(h)
    BY LineType
  <2> QED BY <1>6, <2>1
<1>9. LineOf(f, b, h)[Len(f) + Len(b) + 1] = x
  <2>1. \A k \in 1 .. Len(h) : LineOf(f, b, h)[Len(f) + Len(b) + k] = h[k]
    BY LinePlaces
  <2>2. 1 \in 1 .. Len(h)
    BY <1>6
  <2> QED BY <1>6, <2>1, <2>2
<1> QED BY <1>1, <1>3, <1>4, <1>6, <1>7, <1>8, <1>9

(* What is further on in a line is in nobody's hand.                       *)
LEMMA NotInHand ==
  ASSUME IInv, HandInv, NEW all, Lined(Lines, OnPaper, Taken, all), NEW i \in Comm,
         NEW k \in 1 .. Len(AtFront(i)) + Len(buf[i]), k \in 1 .. Len(Lines[i]),
         NEW j \in Comm
  PROVE  Lines[i][k] # item[j]
<1> SUFFICES ASSUME Lines[i][k] = item[j] PROVE FALSE
  OBVIOUS
<1>1. Lines[i][k] # Nil
  <2>1. PICK c \in Client : \E r \in 1 .. Size(c) :
          Lines[i][k] = Msg(c, r) /\ OnPaper[c] < r /\ r <= Taken[c]
    BY InListed
  <2> QED BY <2>1, MsgType
<1>2. /\ Len(Lines[j]) = Len(AtFront(j)) + Len(buf[j]) + 1
      /\ Len(Lines[j]) \in 1 .. Len(Lines[j]) /\ Lines[j][Len(Lines[j])] = item[j]
  BY <1>1, HandPlace
<1>3. PICK l \in 1 .. Len(Lines[j]) : l = Len(Lines[j])
  BY <1>2
<1>4. i = j /\ k = l
  <2>1. Lines[i][k] = Lines[j][l]
    BY <1>2, <1>3
  <2> QED BY <2>1, OnePlace
<1>5. Len(AtFront(i)) \in Nat /\ Len(buf[i]) \in Nat
  BY PartTypes
<1> QED BY <1>2, <1>3, <1>4, <1>5

-----------------------------------------------------------------------------
(* Printing.                                                               *)

(* The next page of c is printed.                                          *)
PagePrinted(c) ==
  /\ OnPaper[c] < Taken[c] /\ OnPaper[c] + 1 \in 1 .. Size(c)
  /\ \E x \in Message : IsPage(x, c, OnPaper[c] + 1) /\ paper' = Append(paper, x)
  /\ UNCHANGED status

(* A message that is first in its line, and in nobody's hand, has its      *)
(* spool file and is the next of its connection.                           *)
LEMMA FirstPrinted ==
  ASSUME Distinct, IInv, HandInv, LinedInv, SpoolInv, pc[Manager] # "rmdir",
         NEW i \in Comm, Len(Lines[i]) # 0, 1 \in 1 .. Len(AtFront(i)) + Len(buf[i]),
         EndSpool(Lines[i][1])
  PROVE  \E c \in Client : PagePrinted(c) /\ Lines[i][1] = Msg(c, OnPaper[c] + 1)
<1>1. PICK all : all = ~Cancelled
  OBVIOUS
<1>2. Lined(Lines, OnPaper, Taken, all)
  BY <1>1 DEF LinedInv
<1>3. PICK c \in Client : OnPaper[c] < Taken[c] /\ Lines[i][1] = Msg(c, OnPaper[c] + 1)
  BY <1>2, NextOne
<1>4. /\ OnPaper[c] \in Nat /\ Taken[c] \in Nat /\ Taken[c] <= Size(c) /\ Size(c) \in Nat
      /\ Lines \in [Comm -> Seq(PrintMsg)]
  BY <1>2, LastType DEF Lined, Counts
<1>5. OnPaper[c] + 1 \in 1 .. Size(c)
  BY <1>3, <1>4
<1>6. PICK r \in 1 .. Size(c) : r = OnPaper[c] + 1
  BY <1>5
<1>7. PICK m : m = Msg(c, r)
  OBVIOUS
<1>8. /\ m \in PrintMsg /\ m.id \in PrintID /\ m.text \in Text
  BY <1>7, MsgType
<1>9. 1 \in 1 .. Len(Lines[i])
  BY <1>4
<1>10. Lines[i][1] = m
  BY <1>3, <1>6, <1>7
<1>11. \A j \in Comm : m # item[j]
  BY <1>2, <1>9, <1>10, NotInHand
<1>12. ~Unwritten(m)
  BY <1>11 DEF Unwritten
<1>13. InLine(Lines, c, r)
  BY <1>7, <1>9, <1>10 DEF InLine
<1>14. spool[m.id] = m.text \/ (spool[m.id] = Damaged /\ Broke(c, r))
  BY <1>7, <1>12, <1>13 DEF SpoolInv, InFile
<1>15. m.text # Nil /\ Damaged # Nil
  BY <1>8, DataAssumption
<1>16. [m EXCEPT !.text = m.text] = m /\ m \in Message
       /\ [m EXCEPT !.text = Damaged] = Garbled(m) /\ Garbled(m) \in Message
  BY <1>8 DEF PrintMsg, Message, Garbled
<1>17. PICK x : x = [m EXCEPT !.text = spool[m.id]]
  OBVIOUS
<1>18. paper' = Append(paper, x) /\ UNCHANGED status
  BY <1>10, <1>14, <1>15, <1>17 DEF EndSpool, SpoolName
<1>19. x \in Message /\ IsPage(x, c, r)
  BY <1>7, <1>14, <1>16, <1>17 DEF IsPage
<1> QED BY <1>3, <1>5, <1>6, <1>18, <1>19 DEF PagePrinted

(* The printer thread's print is such a step ...                           *)
LEMMA PrinterPrinted ==
  ASSUME Distinct, IInv, MessageInv, PrinterPrint, IInv', HandInv'
  PROVE  /\ pq \in Comm /\ FirstGone(Lines, Lines', pq, got[Printer])
         /\ \E c \in Client : PagePrinted(c) /\ Lines[pq][1] = Msg(c, OnPaper[c] + 1)
<1>1. pc[Printer] = "print" /\ EndSpool(got[Printer])
  BY DEF PrinterPrint, Step
<1>2. pc[Manager] # "rmdir"
  BY <1>1 DEF IInv, BusyInv, InBatch, HandlerPC
<1>3. PICK p \in Comm : p = pq
  BY DEF IInv, TypeOK
<1>4. FirstGone(Lines, Lines', p, got[Printer])
  BY <1>3, PrintLines DEF MessageInv
<1>5. Len(Lines[p]) # 0 /\ Lines[p][1] = got[Printer]
  BY <1>4 DEF FirstGone
<1>6. AtFront(p) = <<got[Printer]>>
  BY <1>1, <1>3 DEF AtFront, InPrinter
<1>7. Len(AtFront(p)) = 1 /\ Len(buf[p]) \in Nat
  BY <1>6, PartTypes DEF MessageInv
<1>8. 1 \in 1 .. Len(AtFront(p)) + Len(buf[p])
  BY <1>7
<1>9. \E c \in Client : PagePrinted(c) /\ Lines[p][1] = Msg(c, OnPaper[c] + 1)
  BY <1>1, <1>2, <1>5, <1>8, FirstPrinted DEF MessageInv
<1> QED BY <1>3, <1>4, <1>9

(* ... and so is that of the final check.                                  *)
LEMMA FinalCheckPrinted ==
  ASSUME Distinct, IInv, MessageInv, FinalCheckPrint, IInv', HandInv'
  PROVE  /\ hq \in Comm /\ FirstGone(Lines, Lines', hq, Head(buf[hq]))
         /\ \E c \in Client : PagePrinted(c) /\ Lines[hq][1] = Msg(c, OnPaper[c] + 1)
<1>1. pc[Manager] = "final_check" /\ buf[hq] # <<>> /\ EndSpool(Head(buf[hq]))
  BY DEF FinalCheckPrint, Step
<1>2. hq \in Comm /\ FirstGone(Lines, Lines', hq, Head(buf[hq]))
  BY FinalCheckLines DEF MessageInv
<1>3. PICK p \in Comm : p = hq
  BY <1>2
<1>4. Len(Lines[p]) # 0 /\ Lines[p][1] = Head(buf[p])
  BY <1>2, <1>3 DEF FirstGone
<1>5. Len(AtFront(p)) \in Nat
  BY PartTypes DEF MessageInv
<1>6. buf[p] \in Seq(PrintMsg) /\ buf[p] # <<>>
  BY <1>1, <1>3, PartTypes DEF MessageInv
<1>7. Len(buf[p]) \in Nat /\ Len(buf[p]) # 0
  BY <1>6
<1>8. 1 \in 1 .. Len(AtFront(p)) + Len(buf[p])
  BY <1>5, <1>7
<1>9. pc[Manager] # "rmdir" /\ EndSpool(Lines[p][1])
  BY <1>1, <1>3, <1>4
<1>10. \E c \in Client : PagePrinted(c) /\ Lines[p][1] = Msg(c, OnPaper[c] + 1)
  BY <1>4, <1>8, <1>9, FirstPrinted DEF MessageInv
<1> QED BY <1>2, <1>3, <1>10

-----------------------------------------------------------------------------
(* The four things that happen to the lines.                               *)
Stays == Lines' = Lines /\ OnPaper' = OnPaper /\ Taken' = Taken
Reads(i) ==
  /\ ~Cancelled /\ got[i] \in Client /\ Taken[got[i]] < Size(got[i])
  /\ Longer(Lines, Lines', i, Msg(got[i], Taken[got[i]] + 1))
  /\ OneMore(Taken, Taken', got[i]) /\ OnPaper' = OnPaper /\ Serving' = Serving
Loses(i) ==
  /\ Cancelled /\ OnPaper' = OnPaper /\ Taken' = Taken
  /\ \E x : Longer(Lines', Lines, i, x)
Prints(i, c) ==
  /\ OnPaper[c] < Taken[c] /\ OneMore(OnPaper, OnPaper', c) /\ Taken' = Taken
  /\ FirstGone(Lines, Lines', i, Msg(c, OnPaper[c] + 1))

(* A page more of one connection, and of no other.                         *)
LEMMA PageOneMore ==
  ASSUME Distinct, TypeOK, TypeOK', NEW c \in Client, PagePrinted(c)
  PROVE  /\ OneMore(OnPaper, OnPaper', c)
         /\ \E x : /\ IsPage(x, c, OnPaper[c] + 1)
                   /\ AtEnd(Of(c, paper), Of(c, paper'), x)
         /\ \A d \in Client \ {c} : Of(d, paper') = Of(d, paper)
<1>1. PICK r \in 1 .. Size(c) : r = OnPaper[c] + 1
  BY DEF PagePrinted
<1>2. PICK x \in Message : IsPage(x, c, r) /\ paper' = Append(paper, x)
  BY <1>1 DEF PagePrinted
<1>3. Msg(c, r) \in PrintMsg
  BY MsgType
<1>4. x.id = Msg(c, r).id
  BY <1>2, <1>3 DEF IsPage, Garbled, PrintMsg
<1> QED BY <1>1, <1>2, <1>4, PageMore

(* What a step can do to the lines: nothing, Join, Leave or Lose.          *)
LEMMA LinesMove ==
  ASSUME Distinct, IInv, MessageInv, [Next]_vars, IInv', HandInv', pc'[Manager] # "rmdir"
  PROVE  Stays \/ \E i \in Comm : Reads(i) \/ Loses(i) \/ \E c \in Client : Prints(i, c)
<1>0. /\ TypeOK /\ TypeOK' /\ HandInv /\ NetInv /\ MkdirInv
      /\ pc[Manager] # "rmdir"
  BY Phases DEF IInv, MessageInv
<1>1. PICK W, G, T : pc \in [Thread -> W] /\ got \in [Thread -> G] /\ item \in [Thread -> T]
  BY <1>0 DEF TypeOK
<1>2. /\ Queue \subseteq Thread /\ Comm \subseteq Thread /\ Comm \subseteq Queue
      /\ Manager \in Thread /\ Printer \in Thread
      /\ Manager \notin Comm /\ Printer \notin Comm /\ Manager # Printer
  BY Threads
<1> USE DEF Step, Point, Move, batch, net, files, data
<1>3. ASSUME UNCHANGED <<paper, buf, item, toSend, sock>>,
             pc'[Printer] \in InHandPC <=> pc[Printer] \in InHandPC,
             pc[Printer] \in InHandPC => got'[Printer] = got[Printer] /\ pq' = pq
      PROVE  Stays
  <2>1. Lines' = Lines
    BY <1>3, LinesStay
  <2>2. OnPaper' = OnPaper
    BY <1>3, PaperSame
  <2>3. Taken' = Taken
    BY <1>3 DEF Taken
  <2> QED BY <2>1, <2>2, <2>3 DEF Stays
<1>4. CASE Rest
  BY <1>3, <1>4 DEF Rest
<1>5. ASSUME NEW t \in Queue, Enqueue(t)
      PROVE  Stays \/ \E i \in Comm : Loses(i)
  <2>1. UNCHANGED <<paper, toSend, sock>>
    BY <1>5 DEF Enqueue
  <2>2. OnPaper' = OnPaper /\ Taken' = Taken
    BY <2>1, PaperSame DEF Taken
  <2>3. \/ Lines' = Lines
        \/ Cancelled /\ t \in Comm /\ Longer(Lines', Lines, t, item[t])
    BY <1>0, <1>5, EnqueueLines
  <2> QED BY <2>2, <2>3 DEF Stays, Loses
<1>6. ASSUME NEW t \in Thread, NEW q \in Queue, Takes(t, q), Dequeue(t, q) PROVE Stays
  <2>1. UNCHANGED <<paper, toSend, sock>>
    BY <1>6 DEF Dequeue
  <2>2. OnPaper' = OnPaper /\ Taken' = Taken
    BY <2>1, PaperSame DEF Taken
  <2>3. Lines' = Lines
    BY <1>0, <1>6, DequeueLines
  <2> QED BY <2>2, <2>3 DEF Stays
<1>7. ASSUME NEW c \in Client, Accept(c) PROVE Stays
  <2>1. Lines' = Lines
    <3>1. UNCHANGED <<buf, got, pq>> /\ item' = [item EXCEPT ![Manager] = c]
          /\ pc' = [pc EXCEPT ![Manager] = "wait_empty"]
      BY <1>7 DEF Accept
    <3>2. \A j \in Comm : InHand(j)' = InHand(j) /\ buf'[j] = buf[j]
      BY <1>1, <1>2, <3>1 DEF InHand
    <3>3. InPrinter' = InPrinter
      BY <1>1, <1>2, <3>1 DEF InPrinter
    <3> QED BY <3>1, <3>2, <3>3, LinesSame DEF AtFront
  <2>2. UNCHANGED <<paper, toSend, sock>>
    BY <1>7 DEF Accept
  <2>3. OnPaper' = OnPaper /\ Taken' = Taken
    BY <2>2, PaperSame DEF Taken
  <2> QED BY <2>1, <2>3 DEF Stays
<1>8. ASSUME NEW c \in Client, ClientSend(c) PROVE Stays
  <2>1. UNCHANGED <<buf, item, pc, got, pq, paper>>
    BY <1>8 DEF ClientSend
  <2>2. Lines' = Lines
    BY <2>1, LinesStay
  <2>3. OnPaper' = OnPaper
    BY <2>1, PaperSame
  <2>4. ~\E i \in Comm : CommRead(i)
    <3> SUFFICES ASSUME NEW i \in Comm, CommRead(i) PROVE FALSE
      OBVIOUS
    <3>1. pc'[i] = "wait_empty" /\ pc[i] = "read"
      BY <1>1, <1>2 DEF CommRead
    <3> QED BY <2>1, <3>1
  <2>5. Taken' = Taken
    BY <1>0, <2>4, TakenStep
  <2> QED BY <2>2, <2>3, <2>5 DEF Stays
<1>9. ASSUME NEW i \in Comm, CommRead(i) PROVE Reads(i)
  <2>1. ~Cancelled /\ UNCHANGED <<paper, got>>
    BY <1>9 DEF CommRead
  <2>2. OnPaper' = OnPaper /\ Serving' = Serving
    BY <2>1, PaperSame DEF Serving
  <2>3. got[i] \in Client /\ Taken[got[i]] < Size(got[i]) /\ Taken'[got[i]] = Taken[got[i]] + 1
        /\ \A d \in Client \ {got[i]} : Taken'[d] = Taken[d]
    BY <1>0, <1>9, ReadOne
  <2>4. Taken' \in [Client -> Nat]
    BY <1>0, NetStep, TakenTypeNext DEF TakenOK
  <2>5. OneMore(Taken, Taken', got[i])
    BY <2>3, <2>4 DEF OneMore
  <2>6. Longer(Lines, Lines', i, Msg(got[i], Taken[got[i]] + 1))
    BY <1>0, <1>9, ReadLines
  <2> QED BY <2>1, <2>2, <2>3, <2>5, <2>6 DEF Reads
<1>10. ASSUME NEW i \in Comm, WriteMsg(i) \/ CommDies(i) PROVE Stays
  <2>1. /\ UNCHANGED <<paper, buf, item, toSend, sock, got, pq>>
        /\ pc'[Printer] = pc[Printer]
    BY <1>1, <1>2, <1>10 DEF WriteMsg, CommDies
  <2> QED BY <1>3, <2>1
<1>11. CASE PrinterMkdir
  <2>1. paper = <<>> /\ paper' = <<>>
    BY <1>0, <1>11 DEF PrinterMkdir, MkdirInv, NoDir
  <2>2. UNCHANGED <<buf, item, toSend, sock, got, pq>>
    BY <1>11 DEF PrinterMkdir
  <2>3. pc'[Printer] \notin InHandPC /\ pc[Printer] \notin InHandPC
    BY <1>1, <1>2, <1>11 DEF PrinterMkdir, InHandPC
  <2> QED BY <1>3, <2>1, <2>2, <2>3
<1>12. CASE PrinterRemove
  <2>1. UNCHANGED <<paper, buf, item, toSend, sock>>
    BY <1>12 DEF PrinterRemove
  <2>2. pc'[Printer] \notin InHandPC /\ pc[Printer] \notin InHandPC
    BY <1>1, <1>2, <1>12 DEF PrinterRemove, InHandPC
  <2> QED BY <1>3, <2>1, <2>2
<1>13. CASE HandlerCancel
  <2>1. /\ UNCHANGED <<paper, buf, item, toSend, sock, got, pq>>
        /\ pc'[Printer] = pc[Printer]
    BY <1>1, <1>2, <1>13 DEF HandlerCancel
  <2> QED BY <1>3, <2>1
<1>14. CASE HandlerDestroy
  BY <1>0, <1>1, <1>2, <1>14 DEF HandlerDestroy
<1>15. ASSUME NEW t \in Thread, Caught(t) PROVE Stays
  BY <1>3, <1>15, CaughtKeeps
<1>16. ASSUME PrinterPrint \/ FinalCheckPrint
       PROVE  \E i \in Comm : \E c \in Client : Prints(i, c)
  <2>1. PICK i \in Comm :
          /\ \E x : FirstGone(Lines, Lines', i, x)
          /\ \E c \in Client : PagePrinted(c) /\ Lines[i][1] = Msg(c, OnPaper[c] + 1)
    BY <1>16, PrinterPrinted, FinalCheckPrinted
  <2>2. PICK c \in Client : PagePrinted(c) /\ Lines[i][1] = Msg(c, OnPaper[c] + 1)
    BY <2>1
  <2>3. OneMore(OnPaper, OnPaper', c)
    BY <1>0, <2>2, PageOneMore
  <2>4. UNCHANGED <<toSend, sock>>
    BY <1>16 DEF PrinterPrint, FinalCheckPrint
  <2>5. Taken' = Taken
    BY <2>4 DEF Taken
  <2>6. FirstGone(Lines, Lines', i, Msg(c, OnPaper[c] + 1))
    BY <2>1, <2>2 DEF FirstGone
  <2> QED BY <2>2, <2>3, <2>5, <2>6 DEF Prints, PagePrinted
<1> HIDE DEF Step, Point, Move, batch, net, files, data
<1> QED BY <1>0, <1>4, <1>5, <1>6, <1>7, <1>8, <1>9, <1>10, <1>11, <1>12, <1>13, <1>14,
           <1>15, <1>16, EventOrRest DEF Event

(* Whether messages may have been lost.                                    *)
LEMMA AllOrSome ==
  ASSUME NEW L, NEW P, NEW R, NEW all \in BOOLEAN
  PROVE  /\ all => (Lined(L, P, R, all) <=> Lined(L, P, R, TRUE))
         /\ ~all => (Lined(L, P, R, all) <=> Lined(L, P, R, FALSE))
<1>1. CASE all = TRUE
  BY <1>1
<1>2. CASE all = FALSE
  BY <1>2
<1> QED BY <1>1, <1>2

(* Only one communicator has the messages of a connection.                 *)
LEMMA OneServerLess ==
  ASSUME NEW L, NEW M, NEW g, OneServer(L, g),
         \A j \in Comm : \A k \in 1 .. Len(M[j]) : \E l \in 1 .. Len(L[j]) : M[j][k] = L[j][l]
  PROVE  OneServer(M, g)
<1> SUFFICES ASSUME NEW c \in Client, NEW i \in Comm, g[i] = c,
                    NEW j \in Comm, NEW k \in 1 .. Len(M[j]), NEW r \in 1 .. Size(c),
                    M[j][k] = Msg(c, r)
             PROVE  j = i
  BY DEF OneServer
<1>1. PICK l \in 1 .. Len(L[j]) : M[j][k] = L[j][l]
  OBVIOUS
<1>2. L[j][l] = Msg(c, r)
  BY <1>1
<1> QED BY <1>2 DEF OneServer

(* Every step keeps the order of the messages in the lines.                *)
LEMMA LinedStep ==
  ASSUME Distinct, IInv, MessageInv, [Next]_vars, IInv', HandInv'
  PROVE  LinedInv'
<1> SUFFICES ASSUME pc'[Manager] # "rmdir"
             PROVE  Lined(Lines', OnPaper', Taken', ~Cancelled')
  BY DEF LinedInv
<1>1. pc[Manager] # "rmdir" /\ (Cancelled => Cancelled')
  BY Phases DEF IInv
<1>2. PICK L : L = Lines
  OBVIOUS
<1>3. PICK M : M = Lines'
  OBVIOUS
<1>4. PICK P : P = OnPaper
  OBVIOUS
<1>5. PICK Q : Q = OnPaper'
  OBVIOUS
<1>6. PICK R : R = Taken
  OBVIOUS
<1>7. PICK S : S = Taken'
  OBVIOUS
<1>8. PICK all \in BOOLEAN : all <=> ~Cancelled
  OBVIOUS
<1>9. PICK any \in BOOLEAN : any <=> ~Cancelled'
  OBVIOUS
<1>10. Lined(L, P, R, all)
  <2>1. Lined(Lines, OnPaper, Taken, ~Cancelled)
    BY <1>1 DEF LinedInv, MessageInv
  <2>2. (~Cancelled) = all
    BY <1>8 DEF Cancelled
  <2> QED BY <1>2, <1>4, <1>6, <2>1, <2>2
<1>11. M \in [Comm -> Seq(PrintMsg)]
  BY <1>3, LinesTypeNext DEF LinesOK
<1>12. ASSUME Lined(M, Q, S, all) PROVE Lined(M, Q, S, any)
  <2>1. any => all
    BY <1>1, <1>8, <1>9
  <2>2. CASE any = all
    BY <1>12, <2>2
  <2>3. CASE any = FALSE
    <3>1. Lined(M, Q, S, FALSE)
      BY <1>12, MayLose
    <3> QED BY <2>3, <3>1
  <2> QED BY <2>1, <2>2, <2>3
<1>13. Lined(M, Q, S, all)
  <2>1. CASE Stays
    BY <1>2, <1>3, <1>4, <1>5, <1>6, <1>7, <1>10, <2>1 DEF Stays
  <2>2. ASSUME NEW i \in Comm, Reads(i) PROVE Lined(M, Q, S, all)
    <3>1. PICK c \in Client : c = got[i]
      BY <2>2 DEF Reads
    <3>2. /\ R[c] < Size(c) /\ Longer(L, M, i, Msg(c, R[c] + 1)) /\ OneMore(R, S, c)
          /\ Q = P /\ all
      BY <1>2, <1>3, <1>4, <1>5, <1>6, <1>7, <1>8, <2>2, <3>1 DEF Reads
    <3>3. Lined(L, P, R, TRUE)
      BY <1>10, <3>2, AllOrSome
    <3>4. \A j \in Comm : \A k \in 1 .. Len(L[j]) : \A r \in 1 .. Size(c) :
            L[j][k] = Msg(c, r) => j = i
      <4>1. OneServer(L, Serving) /\ Serving[i] = c
        BY <1>1, <1>2, <3>1 DEF MessageInv, ServerInv, Serving
      <4> QED BY <4>1 DEF OneServer
    <3>5. Lined(M, P, S, TRUE)
      BY <1>11, <3>2, <3>3, <3>4, Join
    <3> QED BY <3>2, <3>5, AllOrSome
  <2>3. ASSUME NEW i \in Comm, Loses(i) PROVE Lined(M, Q, S, all)
    <3>1. PICK x : Longer(M, L, i, x)
      BY <1>2, <1>3, <2>3 DEF Loses
    <3>2. ~all /\ Q = P /\ S = R
      BY <1>4, <1>5, <1>6, <1>7, <1>8, <2>3 DEF Loses
    <3>3. Lined(L, P, R, FALSE)
      BY <1>10, <3>2, AllOrSome
    <3>4. Lined(M, P, R, FALSE)
      BY <1>11, <3>1, <3>3, Lose
    <3> QED BY <3>2, <3>4, AllOrSome
  <2>4. ASSUME NEW i \in Comm, NEW c \in Client, Prints(i, c) PROVE Lined(M, Q, S, all)
    <3>1. /\ P[c] < R[c] /\ OneMore(P, Q, c) /\ S = R
          /\ FirstGone(L, M, i, Msg(c, P[c] + 1))
      BY <1>2, <1>3, <1>4, <1>5, <1>6, <1>7, <2>4 DEF Prints
    <3>2. Shorter(L, M, i) /\ Len(L[i]) # 0 /\ L[i][1] = Msg(c, P[c] + 1)
      BY <3>1 DEF FirstGone
    <3>3. Lined(M, Q, R, all)
      BY <1>10, <3>1, <3>2, Leave
    <3> QED BY <3>1, <3>3
  <2> QED BY <2>1, <2>2, <2>3, <2>4, LinesMove
<1>14. Lined(M, Q, S, any)
  BY <1>12, <1>13
<1>15. any = (~Cancelled')
  BY <1>9 DEF Cancelled
<1> QED BY <1>3, <1>5, <1>7, <1>14, <1>15

(* A communicator gets a connection nothing has been read from.            *)
LEMMA ServingStep ==
  ASSUME IInv, MessageInv, [Next]_vars, pc'[Manager] # "rmdir"
  PROVE  \/ \A i \in Comm : Serving'[i] = Serving[i] \/ Serving'[i] \notin Client
         \/ /\ Lines' = Lines
            /\ \E i \in Comm : \E c \in Client :
                 /\ Taken[c] = 0 /\ Serving'[i] = c
                 /\ \A j \in Comm \ {i} : Serving'[j] = Serving[j]
<1>0. TypeOK /\ HandInv /\ ConnInv /\ pc[Manager] # "rmdir"
  BY Phases DEF IInv, MessageInv
<1>1. /\ got \in [Thread -> Client \union PrintMsg \union {Nil}]
      /\ buf[ConnQ] \in Seq(Client)
  BY <1>0, Threads DEF TypeOK, Carried
<1>2. Printer \notin Comm /\ Comm \subseteq Thread
  BY Threads
<1>3. Nil \notin Client
  BY DataAssumption
<1>4. ASSUME \A i \in Comm : got'[i] = got[i] \/ got'[i] = Nil
      PROVE  \A i \in Comm : Serving'[i] = Serving[i] \/ Serving'[i] \notin Client
  BY <1>3, <1>4 DEF Serving
<1>5. CASE Rest
  BY <1>4, <1>5 DEF Rest
<1>6. CASE \/ \E t \in Queue : Enqueue(t)
           \/ \E c \in Client : Accept(c) \/ ClientSend(c)
           \/ \E i \in Comm : CommRead(i) \/ WriteMsg(i) \/ CommDies(i)
           \/ PrinterMkdir \/ PrinterPrint \/ HandlerCancel \/ FinalCheckPrint
           \/ HandlerDestroy \/ \E t \in Thread : Caught(t)
  <2>1. UNCHANGED got
    BY <1>6, CaughtKeeps DEF Enqueue, Accept, ClientSend, CommRead, WriteMsg, CommDies,
       PrinterMkdir, PrinterPrint, HandlerCancel, FinalCheckPrint, HandlerDestroy, Move, data
  <2> QED BY <1>4, <2>1
<1>7. CASE PrinterRemove
  <2>1. \A i \in Comm : got'[i] = got[i]
    BY <1>1, <1>2, <1>7 DEF PrinterRemove
  <2> QED BY <1>4, <2>1
<1>8. ASSUME NEW t \in Thread, NEW q \in Queue, Takes(t, q), Dequeue(t, q), t = Printer
      PROVE  \A i \in Comm : got'[i] = got[i]
  BY <1>1, <1>2, <1>8 DEF Dequeue
<1>9. ASSUME NEW t \in Thread, NEW q \in Queue, Takes(t, q), Dequeue(t, q), t # Printer
      PROVE  /\ Lines' = Lines
             /\ \E i \in Comm : \E c \in Client :
                  /\ Taken[c] = 0 /\ Serving'[i] = c
                  /\ \A j \in Comm \ {i} : Serving'[j] = Serving[j]
  <2>1. t \in Comm /\ q = ConnQ
    BY <1>9 DEF Takes, Consumers
  <2>2. Lines' = Lines
    BY <1>0, <1>9, DequeueLines
  <2>3. buf[ConnQ] # <<>>
    BY <1>0, <1>9, <2>1, SomethingToTake DEF Dequeue, Step
  <2>4. got' = [got EXCEPT ![t] = Head(buf[ConnQ])]
    BY <1>9, <2>1, <2>3 DEF Dequeue
  <2>5. PICK b \in Seq(Client) : b = buf[ConnQ]
    BY <1>1
  <2>6. Head(b) \in Client /\ Head(b) = b[1] /\ 1 \in 1 .. Len(b)
    BY <2>3, <2>5
  <2>7. PICK c \in Client : c = Head(b)
    BY <2>6
  <2>8. Queued(b, c)
    BY <2>6, <2>7 DEF Queued
  <2>9. Taken[c] = 0
    BY <1>0, <2>5, <2>8 DEF ConnInv, Conns
  <2>10. Serving'[t] = c /\ \A j \in Comm \ {t} : Serving'[j] = Serving[j]
    BY <1>1, <1>2, <2>1, <2>4, <2>5, <2>7 DEF Serving
  <2> QED BY <2>1, <2>2, <2>9, <2>10
<1> QED BY <1>0, <1>4, <1>5, <1>6, <1>7, <1>8, <1>9, EventOrRest DEF Event

(* Serving changes ...                                                     *)
LEMMA ServerGone ==
  ASSUME NEW L, NEW g, OneServer(L, g),
         NEW h, \A i \in Comm : h[i] = g[i] \/ h[i] \notin Client
  PROVE  OneServer(L, h)
BY DEF OneServer

(* A communicator that has taken a connection serves it alone.             *)
LEMMA ServerNew ==
  ASSUME NEW L, NEW P, NEW R, NEW all, Lined(L, P, R, all), Distinct,
         NEW g, OneServer(L, g), NEW i \in Comm, NEW c \in Client, R[c] = 0,
         NEW h, h[i] = c, \A j \in Comm \ {i} : h[j] = g[j]
  PROVE  OneServer(L, h)
<1> SUFFICES ASSUME NEW d \in Client, NEW l \in Comm, h[l] = d,
                    NEW j \in Comm, NEW k \in 1 .. Len(L[j]), NEW r \in 1 .. Size(d),
                    L[j][k] = Msg(d, r)
             PROVE  j = l
  BY DEF OneServer
<1>1. CASE l # i
  BY <1>1 DEF OneServer
<1>2. CASE l = i
  <2>1. Counts(L, P, R) /\ Listed(L, P, R)
    BY DEF Lined
  <2>2. r \in P[d] + 1 .. R[d]
    BY <2>1, ListedAt
  <2>3. R[d] = 0 /\ P[d] \in Nat
    BY <1>2, <2>1 DEF Counts
  <2> QED BY <2>2, <2>3
<1> QED BY <1>1, <1>2

(* ... or a message joins the line of its communicator.                    *)
LEMMA ServerJoin ==
  ASSUME Distinct, NEW L, L \in [Comm -> Seq(PrintMsg)], NEW g, OneServer(L, g),
         NEW i \in Comm, NEW c \in Client, g[i] = c,
         \A j \in Comm : g[j] = c => j = i, NEW b \in 1 .. Size(c),
         NEW M, Longer(L, M, i, Msg(c, b))
  PROVE  OneServer(M, g)
<1>0. PICK x : x = Msg(c, b)
  OBVIOUS
<1>1. Longer(L, M, i, x)
  BY <1>0
<1>2. \A j \in Comm : \A k \in 1 .. Len(M[j]) :
        \/ k \in 1 .. Len(L[j]) /\ M[j][k] = L[j][k]
        \/ j = i /\ k = Len(L[i]) + 1 /\ M[j][k] = x
  <2>1. /\ \A j \in Comm : \A k \in 1 .. Len(L[j]) : k \in 1 .. Len(M[j]) /\ M[j][k] = L[j][k]
        /\ \A j \in Comm : \A k \in 1 .. Len(M[j]) :
             \/ k \in 1 .. Len(L[j]) /\ M[j][k] = L[j][k]
             \/ j = i /\ k = Len(L[i]) + 1 /\ M[j][k] = x
    BY <1>1, LongerPlaces
  <2> QED BY <2>1
<1> SUFFICES ASSUME NEW d \in Client, NEW l \in Comm, g[l] = d,
                    NEW j \in Comm, NEW k \in 1 .. Len(M[j]), NEW r \in 1 .. Size(d),
                    M[j][k] = Msg(d, r)
             PROVE  j = l
  BY DEF OneServer
<1>3. \/ k \in 1 .. Len(L[j]) /\ M[j][k] = L[j][k]
      \/ j = i /\ k = Len(L[i]) + 1 /\ M[j][k] = x
  BY <1>2
<1>4. CASE k \in 1 .. Len(L[j]) /\ M[j][k] = L[j][k]
  BY <1>4, ZenonT(60) DEF OneServer
<1>5. CASE j = i /\ M[j][k] = x
  <2>1. Msg(d, r) = Msg(c, b)
    BY <1>0, <1>5
  <2>2. d = c
    BY <2>1, Unique
  <2> QED BY <1>5, <2>2
<1> QED BY <1>3, <1>4, <1>5

(* Every step keeps that one communicator has all of a connection.         *)
LEMMA ServerStep ==
  ASSUME Distinct, IInv, MessageInv, [Next]_vars, IInv', HandInv'
  PROVE  ServerInv'
<1> SUFFICES ASSUME pc'[Manager] # "rmdir"
             PROVE  OneServer(Lines', Serving')
  BY DEF ServerInv
<1>1. pc[Manager] # "rmdir"
  BY Phases DEF IInv
<1>2. PICK L : L = Lines
  OBVIOUS
<1>3. PICK M : M = Lines'
  OBVIOUS
<1>4. PICK g : g = Serving
  OBVIOUS
<1>5. PICK h : h = Serving'
  OBVIOUS
<1>6. OneServer(L, g)
  BY <1>1, <1>2, <1>4 DEF MessageInv, ServerInv
<1>7. PICK all : all = ~Cancelled
  OBVIOUS
<1>8. Lined(L, OnPaper, Taken, all)
  BY <1>1, <1>2, <1>7 DEF MessageInv, LinedInv
<1>9. L \in [Comm -> Seq(PrintMsg)]
  BY <1>8 DEF Lined, Counts
<1>10. ASSUME OneServer(M, g), \A i \in Comm : h[i] = g[i] \/ h[i] \notin Client
       PROVE  OneServer(M, h)
  BY <1>10, ServerGone
<1>11. CASE /\ Lines' = Lines
            /\ \E i \in Comm : \E c \in Client :
                 /\ Taken[c] = 0 /\ Serving'[i] = c
                 /\ \A j \in Comm \ {i} : Serving'[j] = Serving[j]
  <2>1. PICK i \in Comm : \E c \in Client :
          Taken[c] = 0 /\ h[i] = c /\ \A j \in Comm \ {i} : h[j] = g[j]
    BY <1>4, <1>5, <1>11
  <2>2. PICK c \in Client : Taken[c] = 0 /\ h[i] = c /\ \A j \in Comm \ {i} : h[j] = g[j]
    BY <2>1
  <2>3. OneServer(L, h)
    BY <1>6, <1>8, <2>2, ServerNew
  <2> QED BY <1>2, <1>5, <1>11, <2>3
<1>12. CASE \A i \in Comm : Serving'[i] = Serving[i] \/ Serving'[i] \notin Client
  <2>0. \A i \in Comm : h[i] = g[i] \/ h[i] \notin Client
    BY <1>4, <1>5, <1>12
  <2>1. CASE Stays
    BY <1>2, <1>3, <1>5, <1>6, <1>10, <2>0, <2>1 DEF Stays
  <2>2. ASSUME NEW i \in Comm, Reads(i) PROVE OneServer(M, g)
    <3>1. PICK c \in Client : c = got[i]
      BY <2>2 DEF Reads
    <3>2. Longer(L, M, i, Msg(c, Taken[c] + 1)) /\ Taken[c] < Size(c)
      BY <1>2, <1>3, <2>2, <3>1 DEF Reads
    <3>3. Taken[c] \in Nat /\ Size(c) \in Nat
      BY <1>8, LastType DEF Lined, Counts
    <3>4. Taken[c] + 1 \in 1 .. Size(c)
      BY <3>2, <3>3
    <3>5. PICK b \in 1 .. Size(c) : b = Taken[c] + 1
      BY <3>4
    <3>6. g[i] = c /\ \A j \in Comm : g[j] = c => j = i
      BY <1>4, <3>1 DEF MessageInv, ConnInv, Conns, Serving
    <3>7. Longer(L, M, i, Msg(c, b))
      BY <3>2, <3>5
    <3> QED BY <1>6, <1>9, <3>6, <3>7, ServerJoin
  <2>3. ASSUME NEW i \in Comm, Loses(i) PROVE OneServer(M, g)
    <3>1. PICK x : Longer(M, L, i, x)
      BY <1>2, <1>3, <2>3 DEF Loses
    <3>2. M \in [Comm -> Seq(PrintMsg)]
      BY <1>3, LinesTypeNext DEF LinesOK
    <3>3. \A j \in Comm : \A k \in 1 .. Len(M[j]) : \E l \in 1 .. Len(L[j]) : M[j][k] = L[j][l]
      BY <3>1, <3>2, LongerPlaces
    <3> QED BY <1>6, <3>3, OneServerLess
  <2>4. ASSUME NEW i \in Comm, NEW c \in Client, Prints(i, c) PROVE OneServer(M, g)
    <3>1. Shorter(L, M, i)
      BY <1>2, <1>3, <2>4 DEF Prints, FirstGone
    <3>2. \A j \in Comm : \A k \in 1 .. Len(M[j]) : \E l \in 1 .. Len(L[j]) : M[j][k] = L[j][l]
      BY <3>1, ShorterPlaces
    <3> QED BY <1>6, <3>2, OneServerLess
  <2> QED BY <1>3, <1>5, <1>10, <2>0, <2>1, <2>2, <2>3, <2>4, LinesMove
<1> QED BY <1>11, <1>12, ServingStep

-----------------------------------------------------------------------------
(* The paper.                                                              *)

(* A step prints the next message of a connection, or nothing.             *)
LEMMA PaperStep ==
  ASSUME Distinct, IInv, MessageInv, [Next]_vars, IInv', HandInv'
  PROVE  UNCHANGED paper \/ \E c \in Client : PagePrinted(c)
<1>0. TypeOK /\ MkdirInv
  BY DEF IInv, MessageInv
<1> USE DEF Step, Point, Move, batch, net, files, data
<1>1. CASE Rest
  BY <1>1 DEF Rest
<1>2. ASSUME NEW t \in Queue, Enqueue(t) PROVE UNCHANGED paper
  BY <1>2 DEF Enqueue
<1>3. ASSUME NEW t \in Thread, NEW q \in Queue, Dequeue(t, q) PROVE UNCHANGED paper
  BY <1>3 DEF Dequeue
<1>4. ASSUME NEW c \in Client, Accept(c) \/ ClientSend(c) PROVE UNCHANGED paper
  BY <1>4 DEF Accept, ClientSend
<1>5. ASSUME NEW i \in Comm, CommRead(i) \/ WriteMsg(i) \/ CommDies(i) PROVE UNCHANGED paper
  BY <1>5 DEF CommRead, WriteMsg, CommDies
<1>6. CASE PrinterMkdir
  <2>1. paper = <<>>
    BY <1>0, <1>6 DEF PrinterMkdir, MkdirInv, NoDir
  <2> QED BY <1>6, <2>1 DEF PrinterMkdir
<1>7. CASE PrinterRemove \/ HandlerCancel \/ HandlerDestroy
  BY <1>7 DEF PrinterRemove, HandlerCancel, HandlerDestroy
<1>8. ASSUME NEW t \in Thread, Caught(t) PROVE UNCHANGED paper
  BY <1>8, CaughtKeeps
<1> HIDE DEF Step, Point, Move, batch, net, files, data
<1>9. CASE PrinterPrint \/ FinalCheckPrint
  BY <1>9, PrinterPrinted, FinalCheckPrinted
<1> QED BY <1>0, <1>1, <1>2, <1>3, <1>4, <1>5, <1>6, <1>7, <1>9, <1>8, EventOrRest
        DEF Event

(* What happens to the sockets, and to the connections that broke.         *)
LEMMA LinkMoves ==
  ASSUME TypeOK, [Next]_vars
  PROVE  \/ UNCHANGED sock /\ \A c \in Client : link'[c] = "torn" <=> link[c] = "torn"
         \/ \E c \in Client : ClientSend(c)
         \/ \E i \in Comm : CommRead(i)
<1>1. CASE Rest
  BY <1>1 DEF Rest
<1>2. ASSUME NEW c \in Client, Accept(c)
      PROVE  UNCHANGED sock /\ \A d \in Client : link'[d] = "torn" <=> link[d] = "torn"
  BY <1>2 DEF Accept, TypeOK
<1>3. CASE \/ \E t \in Queue : Enqueue(t)
           \/ \E t \in Thread, q \in Queue : Takes(t, q) /\ Dequeue(t, q)
           \/ \E i \in Comm : WriteMsg(i) \/ CommDies(i)
           \/ PrinterMkdir \/ PrinterPrint \/ PrinterRemove
           \/ HandlerCancel \/ FinalCheckPrint \/ HandlerDestroy
           \/ \E t \in Thread : Caught(t)
  <2>1. UNCHANGED <<sock, link>>
    BY <1>3, CaughtKeeps DEF Enqueue, Dequeue, WriteMsg, CommDies, PrinterMkdir,
       PrinterPrint, PrinterRemove, HandlerCancel, FinalCheckPrint, HandlerDestroy, Move,
       data, net
  <2> QED BY <2>1
<1> QED BY <1>1, <1>2, <1>3, EventOrRest DEF Event

(* Once a connection is torn it stays so, and nothing is read from it.     *)
LEMMA TornStays ==
  ASSUME IInv, NetInv, LinkInv, [Next]_vars, NEW c \in Client, link[c] = "torn"
  PROVE  link'[c] = "torn" /\ Taken'[c] = Taken[c] /\ sock'[c] = <<>>
<1>0. TypeOK /\ sock[c] = <<>>
  BY DEF IInv, LinkInv
<1>1. PICK K, S : link \in [Client -> K] /\ sock \in [Client -> S]
  BY <1>0 DEF TypeOK
<1>2. ASSUME NEW i \in Comm, CommRead(i)
      PROVE  got[i] # c /\ link'[c] = "torn" /\ sock'[c] = <<>>
  <2>1. sock[got[i]] # <<>> /\ sock' = [sock EXCEPT ![got[i]] = Tail(@)]
        /\ (UNCHANGED link \/ TearLink(got[i]))
    BY <1>2 DEF CommRead
  <2>2. got[i] # c
    BY <1>0, <2>1
  <2> QED BY <1>0, <1>1, <2>1, <2>2 DEF TearLink
<1>3. Taken'[c] = Taken[c]
  <2>1. ASSUME NEW i \in Comm, CommRead(i), OneMore(Taken, Taken', got[i])
        PROVE  Taken'[c] = Taken[c]
    BY <1>2, <2>1 DEF OneMore
  <2> QED BY <2>1, TakenStep
<1>4. ASSUME NEW d \in Client, ClientSend(d) PROVE link'[c] = "torn" /\ sock'[c] = <<>>
  <2>1. link[d] = "open" /\ UNCHANGED link
        /\ sock' = [sock EXCEPT ![d] = Append(@, Head(toSend[d]))]
    BY <1>4 DEF ClientSend
  <2> QED BY <1>0, <1>1, <2>1
<1>5. link'[c] = "torn" /\ sock'[c] = <<>>
  BY <1>0, <1>2, <1>4, LinkMoves
<1> QED BY <1>3, <1>5

(* What broke stays broken.                                                *)
LEMMA BrokeStays ==
  ASSUME IInv, NetInv, LinkInv, [Next]_vars, NEW c \in Client, NEW r, Broke(c, r)
  PROVE  Broke(c, r)'
BY TornStays DEF Broke

(* A connection breaks when the last of what came is read.                 *)
LEMMA LinkStep ==
  ASSUME IInv, NetInv, LinkInv, [Next]_vars PROVE LinkInv'
<1> SUFFICES ASSUME NEW c \in Client, link'[c] = "torn" PROVE sock'[c] = <<>>
  BY DEF LinkInv
<1>0. TypeOK
  BY DEF IInv
<1>1. PICK K : link \in [Client -> K]
  BY <1>0 DEF TypeOK
<1>2. sock \in [Client -> Seq(PrintMsg)]
  BY <1>0 DEF TypeOK
<1>3. CASE link[c] = "torn"
  BY <1>3, TornStays
<1>4. CASE link[c] # "torn"
  <2>1. ~\E d \in Client : ClientSend(d)
    BY <1>4 DEF ClientSend
  <2>2. PICK i \in Comm : CommRead(i)
    BY <1>0, <1>4, <2>1, LinkMoves
  <2>3. TearLink(got[i]) /\ sock' = [sock EXCEPT ![got[i]] = Tail(@)]
    BY <1>4, <2>2 DEF CommRead
  <2>4. got[i] = c /\ Len(sock[c]) = 1
    BY <1>1, <1>4, <2>3 DEF TearLink
  <2>5. PICK s \in Seq(PrintMsg) : s = sock[c]
    BY <1>2
  <2>6. Tail(s) = <<>>
    <3>1. PICK t : t = Tail(s)
      OBVIOUS
    <3>2. Len(s) = 1
      BY ONLY <2>4, <2>5
    <3>3. s # <<>>
      <4>1. Len(<<>>) = 0
        OBVIOUS
      <4> QED BY ONLY <3>2, <4>1
    <3>5. t \in Seq(PrintMsg) /\ Len(t) = 0
      BY <3>1, <3>2, <3>3
    <3>6. t = <<>>
      BY <3>5
    <3> QED BY <3>1, <3>6
  <2> QED BY <1>2, <2>3, <2>4, <2>5, <2>6
<1> QED BY <1>3, <1>4

(* A communicator reads nothing more while it has a message.               *)
LEMMA ReadStep ==
  ASSUME IInv, MessageInv, [Next]_vars PROVE ReadInv'
<1>0. TypeOK /\ HandInv /\ NetInv /\ ConnInv /\ ReadInv /\ Taken \in [Client -> Nat]
  BY TakenType DEF IInv, MessageInv, TakenOK
<1>1. PICK W, T, G : /\ pc \in [Thread -> W] /\ item \in [Thread -> T]
                     /\ got \in [Thread -> G]
  BY <1>0 DEF TypeOK
<1>2. /\ Queue \subseteq Thread /\ Comm \subseteq Thread
      /\ Manager \in Thread /\ Printer \in Thread
      /\ Manager \notin Comm /\ Printer \notin Comm
  BY Threads
<1> DEFINE Has(i) == item[i] # Nil =>
                       /\ got[i] \in Client /\ Taken[got[i]] \in 1 .. Size(got[i])
                       /\ item[i] = Msg(got[i], Taken[got[i]])
<1>3. ASSUME NEW i \in Comm, item'[i] = item[i], item[i] # Nil => got'[i] = got[i]
      PROVE  Has(i)'
  <2> SUFFICES ASSUME item[i] # Nil PROVE Has(i)'
    BY <1>3
  <2>1. PICK c \in Client : /\ c = got[i] /\ Taken[c] \in 1 .. Size(c)
                            /\ item[i] = Msg(c, Taken[c])
    BY <1>0 DEF ReadInv
  <2>2. Taken'[c] = Taken[c]
    <3>1. ASSUME NEW j \in Comm, CommRead(j), OneMore(Taken, Taken', got[j]), got[j] = c
          PROVE  FALSE
      <4>1. Serving[i] = c /\ Serving[j] = c
        BY <2>1, <3>1 DEF Serving
      <4>2. i = j
        BY <1>0, <4>1 DEF ConnInv, Conns
      <4>3. pc[i] = "read"
        BY <3>1, <4>2 DEF CommRead, Point, Step
      <4> QED BY <1>0, <4>3 DEF HandInv, Holding
    <3> QED BY <1>0, <3>1, TakenStep DEF OneMore
  <2>3. got'[i] = c /\ item'[i] = Msg(c, Taken'[c]) /\ Taken'[c] \in 1 .. Size(c)
    BY <1>3, <2>1, <2>2
  <2>4. Size(c)' = Size(c) /\ \A r : Msg(c, r)' = Msg(c, r)
    BY DEF Size, Msg
  <2> QED BY <2>3, <2>4 DEF Size, Msg
<1>4. ASSUME NEW i \in Comm, item'[i] = Nil PROVE Has(i)'
  BY <1>4
<1>5. SUFFICES ASSUME NEW i \in Comm PROVE Has(i)'
  BY DEF ReadInv, Size, Msg
<1> HIDE DEF Has
<1> USE DEF Step, Point, Move, batch, net, files, data
<1>6. CASE Rest
  BY <1>0, <1>3, <1>6 DEF Rest, HandInv, Keeping
<1>7. ASSUME NEW t \in Queue, Enqueue(t) PROVE Has(i)'
  BY <1>1, <1>2, <1>3, <1>4, <1>7 DEF Enqueue
<1>8. ASSUME NEW t \in Thread, NEW q \in Queue, Dequeue(t, q) PROVE Has(i)'
  <2>1. item' = item /\ pc[t] = "dequeue" /\ (i # t => got'[i] = got[i])
    BY <1>1, <1>2, <1>8 DEF Dequeue
  <2>2. i = t => item[i] = Nil
    BY <1>0, <2>1 DEF HandInv, Holding
  <2> QED BY <1>3, <2>1, <2>2
<1>9. ASSUME NEW c \in Client, Accept(c) \/ ClientSend(c) PROVE Has(i)'
  BY <1>1, <1>2, <1>3, <1>9 DEF Accept, ClientSend
<1>10. ASSUME NEW j \in Comm, CommRead(j) PROVE Has(i)'
  <2>1. UNCHANGED got /\ \A k \in Comm \ {j} : item'[k] = item[k]
    BY <1>1, <1>2, <1>10 DEF CommRead
  <2>2. CASE i # j
    BY <1>3, <2>1, <2>2
  <2>3. CASE i = j
    <3>1. PICK c \in Client : c = got[i]
      BY <1>0, <1>10, <2>3, ReadOne
    <3>2. /\ Taken[c] < Size(c) /\ Taken'[c] = Taken[c] + 1
          /\ item'[i] = Msg(c, Taken[c] + 1)
      BY <1>0, <1>10, <2>3, <3>1, ReadOne
    <3>3. Taken[c] \in Nat /\ Size(c) \in Nat
      BY <1>0, LastType
    <3>4. Taken'[c] \in 1 .. Size(c) /\ item'[i] = Msg(c, Taken'[c]) /\ got'[i] = c
      BY <2>1, <3>1, <3>2, <3>3
    <3> QED BY <3>4 DEF Has, Size, Msg
  <2> QED BY <2>2, <2>3
<1>11. CASE \/ \E j \in Comm : WriteMsg(j) \/ CommDies(j)
            \/ PrinterMkdir \/ PrinterPrint \/ HandlerCancel \/ FinalCheckPrint
            \/ HandlerDestroy \/ \E t \in Thread : Caught(t)
  <2>1. UNCHANGED <<item, got>>
    BY <1>11, CaughtKeeps DEF WriteMsg, CommDies, PrinterMkdir, PrinterPrint,
       HandlerCancel, FinalCheckPrint, HandlerDestroy
  <2> QED BY <1>3, <2>1
<1>12. CASE PrinterRemove
  BY <1>1, <1>2, <1>3, <1>12 DEF PrinterRemove
<1> HIDE DEF Step, Point, Move, batch, net, files, data
<1> QED BY <1>0, <1>6, <1>7, <1>8, <1>9, <1>10, <1>11, <1>12, EventOrRest DEF Event

(* The pages of a connection stay its first messages.                      *)
LEMMA PagesStep ==
  ASSUME Distinct, IInv, MessageInv, [Next]_vars, IInv', HandInv'
  PROVE  PagesInv'
<1>0. TypeOK /\ TypeOK' /\ NetInv /\ NetInv' /\ LinkInv /\ PagesInv
  BY NetStep DEF IInv, MessageInv
<1>1. OnPaper \in [Client -> Nat] /\ Taken \in [Client -> Nat] /\ Taken' \in [Client -> Nat]
  BY <1>0, OnPaperType, TakenType, TakenTypeNext DEF OnPaperOK, TakenOK
<1> SUFFICES ASSUME NEW c \in Client
             PROVE  /\ OnPaper'[c] <= Taken'[c]
                    /\ \A k \in 1 .. OnPaper'[c] : IsPage(Of(c, paper)[k], c, k)'
  BY DEF PagesInv, IsPage, Garbled, Broke, Msg
<1>2. \A x, k : IsPage(x, c, k) => \A y : y = x => IsPage(y, c, k)'
  BY <1>0, BrokeStays DEF IsPage, Garbled, Msg
<1>3. Taken[c] <= Taken'[c]
  <2>1. CASE Taken' = Taken
    BY <1>1, <2>1
  <2>2. ASSUME NEW i \in Comm, CommRead(i), OneMore(Taken, Taken', got[i])
        PROVE  Taken[c] <= Taken'[c]
    BY <1>1, <2>2 DEF OneMore
  <2> QED BY <1>0, <2>1, <2>2, TakenStep
<1>4. /\ OnPaper[c] <= Taken[c]
      /\ \A k \in 1 .. OnPaper[c] : IsPage(Of(c, paper)[k], c, k)
  BY <1>0 DEF PagesInv
<1>5. OnPaper[c] \in Nat /\ Taken[c] \in Nat /\ Taken'[c] \in Nat
  BY <1>1
<1>6. CASE OnPaper'[c] = OnPaper[c] /\ Of(c, paper') = Of(c, paper)
  <2>1. ASSUME NEW k \in 1 .. OnPaper'[c] PROVE IsPage(Of(c, paper)[k], c, k)'
    <3>1. PICK x : x = Of(c, paper)[k]
      OBVIOUS
    <3>2. Of(c, paper)'[k] = x
      BY <1>6, <3>1
    <3>3. IsPage(x, c, k)
      BY <1>4, <1>6, <3>1
    <3> QED BY <1>2, <3>2, <3>3
  <2> QED BY <1>3, <1>4, <1>5, <1>6, <2>1
<1>7. CASE UNCHANGED paper
  BY <1>6, <1>7, PaperSame
<1>8. ASSUME NEW d \in Client, PagePrinted(d), d # c
      PROVE  OnPaper'[c] = OnPaper[c] /\ Of(c, paper') = Of(c, paper)
  <2>1. Of(c, paper') = Of(c, paper) /\ OneMore(OnPaper, OnPaper', d)
    BY <1>0, <1>8, PageOneMore
  <2> QED BY <1>8, <2>1 DEF OneMore
<1>9. CASE PagePrinted(c)
  <2>1. OneMore(OnPaper, OnPaper', c)
    BY <1>0, <1>9, PageOneMore
  <2>2. PICK n \in Nat : n = OnPaper[c]
    BY <1>5
  <2>3. OnPaper'[c] = n + 1 /\ n < Taken[c]
    BY <1>9, <2>1, <2>2 DEF OneMore, PagePrinted
  <2>4. PICK s : s = Of(c, paper)
    OBVIOUS
  <2>5. PICK t : t = Of(c, paper')
    OBVIOUS
  <2>6. Len(s) = n
    BY <2>2, <2>4 DEF OnPaper
  <2>7. PICK x : IsPage(x, c, n + 1) /\ AtEnd(s, t, x)
    BY <1>0, <1>9, <2>2, <2>4, <2>5, PageOneMore
  <2>8. t[n + 1] = x /\ \A k \in 1 .. n : t[k] = s[k]
    BY <2>6, <2>7 DEF AtEnd
  <2>9. \A k \in 1 .. n : IsPage(s[k], c, k)
    BY <1>4, <2>2, <2>4
  <2>10. ASSUME NEW k \in 1 .. n + 1 PROVE IsPage(t[k], c, k)
    <3>1. CASE k \in 1 .. n
      BY <2>8, <2>9, <3>1
    <3>2. CASE k = n + 1
      BY <2>7, <2>8, <3>2
    <3> QED BY <3>1, <3>2
  <2>11. OnPaper'[c] <= Taken'[c]
    BY <1>3, <1>5, <2>3
  <2>12. ASSUME NEW k \in 1 .. OnPaper'[c] PROVE IsPage(Of(c, paper)[k], c, k)'
    <3>1. k \in 1 .. n + 1
      BY <2>3
    <3>2. PICK y : y = t[k]
      OBVIOUS
    <3>3. Of(c, paper)'[k] = y
      BY <2>5, <3>2
    <3>4. IsPage(y, c, k)
      BY <2>10, <3>1, <3>2
    <3> QED BY <1>2, <3>3, <3>4
  <2> QED BY <2>11, <2>12
<1> QED BY <1>6, <1>7, <1>8, <1>9, PaperStep

(* The page that is under way when the process ends is the next one of its *)
(* connection.                                                             *)
LEMMA UnderWay ==
  ASSUME Distinct, IInv, MessageInv, NEW m, PageUnderWay(m)
  PROVE  NextPage(m)
<1>0. TypeOK /\ BusyInv /\ HandInv /\ LinedInv
  BY DEF IInv, MessageInv
<1>1. PICK i \in Comm : pc[Manager] # "rmdir" /\ Len(Lines[i]) # 0 /\ Lines[i][1] = m
  <2>1. CASE pc[Printer] = "print" /\ m = got[Printer]
    <3>1. pc[Manager] # "rmdir"
      BY <1>0, <2>1 DEF BusyInv, InBatch, HandlerPC
    <3>2. PICK x \in PrintMsg : x = m
      BY <2>1 DEF IInv, GotInv
    <3>3. PICK p \in Comm : p = pq
      BY <1>0 DEF TypeOK
    <3>4. AtFront(p) = <<x>>
      BY <2>1, <3>2, <3>3 DEF AtFront, InPrinter
    <3>5. PICK b \in Seq(PrintMsg) : b = buf[p]
      BY <1>0, PartTypes
    <3>6. PICK h \in Seq(PrintMsg) : h = InHand(p)
      BY <1>0, PartTypes
    <3>7. Lines[p] = LineOf(<<x>>, b, h)
      BY <3>4, <3>5, <3>6, LineIs
    <3>8. OffFront(LineOf(<<x>>, b, h), LineOf(<<>>, b, h), x)
      BY FrontGone
    <3>9. Len(LineOf(<<>>, b, h)) \in Nat
      <4>1. <<>> \in Seq(PrintMsg)
        OBVIOUS
      <4>2. LineOf(<<>>, b, h) \in Seq(PrintMsg)
        BY <4>1, LineType
      <4> QED BY <4>2
    <3> QED BY <3>1, <3>2, <3>7, <3>8, <3>9 DEF OffFront
  <2>2. CASE pc[Manager] = "final_check" /\ buf[hq] # <<>> /\ m = Head(buf[hq])
    <3>1. hq \in Comm /\ ~InBatch
      BY <1>0, <2>2 DEF BusyInv, HandlerPC
    <3>2. PICK p \in Comm : p = hq
      BY <3>1
    <3>3. AtFront(p) = <<>>
      BY <3>1 DEF AtFront, InPrinter, InBatch
    <3>4. PICK b \in Seq(PrintMsg) : b = buf[p]
      BY <1>0, PartTypes
    <3>5. PICK h \in Seq(PrintMsg) : h = InHand(p)
      BY <1>0, PartTypes
    <3>6. Lines[p] = LineOf(<<>>, b, h) /\ b # <<>> /\ m = Head(b)
      BY <2>2, <3>2, <3>3, <3>4, <3>5, LineIs
    <3>7. OffFront(LineOf(<<>>, b, h), LineOf(<<>>, Tail(b), h), m)
      BY <3>6, HeadGone
    <3>8. Len(LineOf(<<>>, Tail(b), h)) \in Nat
      <4>1. <<>> \in Seq(PrintMsg) /\ Tail(b) \in Seq(PrintMsg)
        BY <3>6
      <4>2. LineOf(<<>>, Tail(b), h) \in Seq(PrintMsg)
        BY <4>1, LineType
      <4> QED BY <4>2
    <3> QED BY <2>2, <3>6, <3>7, <3>8 DEF OffFront
  <2> QED BY <2>1, <2>2 DEF PageUnderWay
<1>2. PICK all : all = ~Cancelled
  OBVIOUS
<1>3. Lined(Lines, OnPaper, Taken, all)
  BY <1>0, <1>1, <1>2 DEF LinedInv
<1>4. PICK c \in Client : OnPaper[c] < Taken[c] /\ Lines[i][1] = Msg(c, OnPaper[c] + 1)
  BY <1>1, <1>3, NextOne
<1> QED BY <1>1, <1>4 DEF NextPage

(* Only a running process does anything that is not Rest.                  *)
LEMMA EventRuns == Event => status = "running" /\ UNCHANGED torn
<1> SUFFICES ASSUME Event PROVE status = "running" /\ UNCHANGED torn
  OBVIOUS
<1> USE DEF Step, Point, Move, batch, net, files, data
<1>1. CASE \/ \E t \in Queue : Enqueue(t)
           \/ \E t \in Thread, q \in Queue : Takes(t, q) /\ Dequeue(t, q)
  BY <1>1 DEF Enqueue, Dequeue
<1>2. CASE \/ \E c \in Client : Accept(c) \/ ClientSend(c)
           \/ \E i \in Comm : CommRead(i) \/ WriteMsg(i) \/ CommDies(i)
  BY <1>2 DEF Accept, ClientSend, CommRead, WriteMsg, CommDies
<1>3. CASE \/ PrinterMkdir \/ PrinterPrint \/ PrinterRemove
           \/ HandlerCancel \/ FinalCheckPrint \/ HandlerDestroy
  BY <1>3 DEF PrinterMkdir, PrinterPrint, PrinterRemove, HandlerCancel, FinalCheckPrint,
     HandlerDestroy
<1>4. CASE \E t \in Thread : Caught(t)
  BY <1>4, CaughtKeeps
<1> HIDE DEF Step, Point, Move, batch, net, files, data
<1> QED BY <1>1, <1>2, <1>3, <1>4 DEF Event

(* When the process has ended nothing moves any more.                      *)
LEMMA CutStep ==
  ASSUME Distinct, IInv, MessageInv, [Next]_vars PROVE CutInv'
<1>0. TypeOK /\ CutInv
  BY DEF IInv, MessageInv
<1>1. ASSUME UNCHANGED <<toSend, sock, paper>>, NEW m, NextPage(m) PROVE NextPage(m)'
  <2>1. OnPaper' = OnPaper
    BY <1>1, PaperSame
  <2>2. Taken' = Taken
    BY <1>1 DEF Taken
  <2> QED BY <1>1, <2>1, <2>2 DEF NextPage, Msg
<1>2. CASE Event
  BY <1>0, <1>2, EventRuns DEF CutInv
<1>3. CASE Rest /\ torn' = torn
  <2>1. ASSUME torn # Nil PROVE CutInv'
    <3>1. status' = status /\ UNCHANGED <<toSend, sock, paper>>
      BY <1>0, <1>3, <2>1 DEF Rest, CutInv
    <3>2. NextPage(torn) /\ status \in {"exit1", "crashed"}
      BY <1>0, <2>1 DEF CutInv
    <3>3. PICK m : m = torn
      OBVIOUS
    <3>4. NextPage(m)'
      BY <1>1, <3>1, <3>2, <3>3
    <3> QED BY <1>3, <3>1, <3>2, <3>3, <3>4 DEF CutInv, NextPage
  <2> QED BY <1>3, <2>1 DEF CutInv
<1>4. CASE Rest /\ PageCut
  <2>1. PICK m \in PrintMsg : PageUnderWay(m) /\ torn' = m
    BY <1>4 DEF PageCut
  <2>2. NextPage(m)
    BY <2>1, UnderWay
  <2>3. NextPage(m)'
    BY <1>1, <1>4, <2>2 DEF Rest
  <2> QED BY <1>4, <2>1, <2>3 DEF CutInv, PageCut, NextPage
<1> QED BY <1>0, <1>2, <1>3, <1>4, EventOrRest DEF Rest

-----------------------------------------------------------------------------
(* The spool files.                                                        *)

(* The steps that leave them alone.                                        *)
SpoolFixed ==
  \/ Rest
  \/ \E t \in Queue : Enqueue(t)
  \/ \E t \in Thread, q \in Queue : Takes(t, q) /\ Dequeue(t, q)
  \/ \E c \in Client : Accept(c) \/ ClientSend(c)
  \/ \E i \in Comm : CommRead(i)
  \/ PrinterMkdir \/ PrinterPrint \/ HandlerCancel \/ HandlerDestroy

(* What a step does to the texts that are in the files.                    *)
LEMMA FixedOrNot ==
  ASSUME TypeOK, [Next]_vars
  PROVE  \/ SpoolFixed \/ PrinterRemove \/ FinalCheckPrint
         \/ \E i \in Comm : WriteMsg(i) \/ CommDies(i)
         \/ \E t \in Thread : Caught(t)
BY EventOrRest DEF Event, SpoolFixed

(* Only write_msg gives a message its file.                                *)
LEMMA StillUnwritten ==
  ASSUME IInv, HandInv, NEW m, m # Nil, Unwritten(m),
         \/ SpoolFixed \/ PrinterRemove \/ FinalCheckPrint
         \/ \E i \in Comm : CommDies(i)
         \/ \E t \in Thread : Caught(t)
  PROVE  Unwritten(m)'
<1>1. PICK W, T : pc \in [Thread -> W] /\ item \in [Thread -> T]
  BY DEF IInv, TypeOK
<1>2. /\ Queue \subseteq Thread /\ Comm \subseteq Thread
      /\ Manager \in Thread /\ Printer \in Thread
      /\ Manager \notin Comm /\ Printer \notin Comm /\ Manager # Printer
  BY Threads
<1>3. PICK i \in Comm : item[i] = m /\ ~(pc[i] = "enqueue" /\ status = "running")
  BY DEF Unwritten
<1>4. SUFFICES item'[i] = m /\ ~(pc'[i] = "enqueue" /\ status' = "running")
  BY DEF Unwritten
<1> USE DEF Step, Point, Move, batch, net, files, data
<1>5. CASE Rest
  BY <1>3, <1>5 DEF Rest
<1>6. ASSUME NEW t \in Queue, Enqueue(t) PROVE item'[i] = m /\ pc'[i] # "enqueue"
  <2>1. t # i /\ pc[i] # "enqueue"
    BY <1>3, <1>6 DEF Enqueue
  <2> QED BY <1>1, <1>2, <1>3, <1>6, <2>1 DEF Enqueue
<1>7. ASSUME NEW t \in Thread, NEW q \in Queue, Dequeue(t, q)
      PROVE  item'[i] = m /\ pc'[i] # "enqueue"
  BY <1>1, <1>2, <1>3, <1>7 DEF Dequeue
<1>8. ASSUME NEW c \in Client, Accept(c) PROVE item'[i] = m /\ pc'[i] # "enqueue"
  BY <1>1, <1>2, <1>3, <1>8 DEF Accept
<1>9. ASSUME NEW c \in Client, ClientSend(c) PROVE item'[i] = m /\ pc'[i] # "enqueue"
  BY <1>3, <1>9 DEF ClientSend
<1>10. ASSUME NEW j \in Comm, CommRead(j) PROVE item'[i] = m /\ pc'[i] # "enqueue"
  <2>1. pc[i] # "enqueue" /\ pc[i] \in Keeping
    BY <1>3, <1>10 DEF CommRead, HandInv, Keeping
  <2>2. i # j
    BY <1>10, <2>1 DEF CommRead, Keeping, Holding
  <2> QED BY <1>1, <1>2, <1>3, <1>10, <2>1, <2>2 DEF CommRead
<1>11. ASSUME NEW j \in Comm, CommDies(j) PROVE item'[i] = m /\ pc'[i] # "enqueue"
  BY <1>1, <1>2, <1>3, <1>11 DEF CommDies
<1>12. CASE PrinterMkdir \/ PrinterPrint \/ PrinterRemove
  BY <1>1, <1>2, <1>3, <1>12 DEF PrinterMkdir, PrinterPrint, PrinterRemove
<1>13. CASE HandlerCancel \/ FinalCheckPrint \/ HandlerDestroy
  BY <1>1, <1>2, <1>3, <1>13 DEF HandlerCancel, FinalCheckPrint, HandlerDestroy
<1>14. ASSUME NEW t \in Thread, Caught(t) PROVE UNCHANGED <<item, pc, status>>
  BY <1>14, CaughtKeeps
<1> HIDE DEF Step, Point, Move, batch, net, files, data
<1> QED BY <1>3, <1>5, <1>6, <1>7, <1>8, <1>9, <1>10, <1>11, <1>12, <1>13, <1>14
        DEF SpoolFixed

(* Different messages have different files.                                *)
LEMMA OtherFile ==
  ASSUME Distinct, NEW c \in Client, NEW r \in 1 .. Size(c),
         NEW d \in Client, NEW s \in 1 .. Size(d), Msg(c, r) # Msg(d, s)
  PROVE  Msg(c, r).id # Msg(d, s).id
<1>1. r \in DOMAIN Script[c] /\ s \in DOMAIN Script[d]
  BY DataAssumption DEF Size
<1> QED BY <1>1 DEF Distinct, Msg

(* What a communicator holds is a message of some connection.              *)
LEMMA HandListed ==
  ASSUME IInv, HandInv, NEW all, Lined(Lines, OnPaper, Taken, all),
         NEW i \in Comm, item[i] # Nil
  PROVE  \E d \in Client : \E s \in 1 .. Size(d) : item[i] = Msg(d, s)
<1>1. Len(Lines[i]) \in 1 .. Len(Lines[i]) /\ Lines[i][Len(Lines[i])] = item[i]
  BY HandPlace
<1>2. PICK n \in 1 .. Len(Lines[i]) : Lines[i][n] = item[i]
  BY <1>1
<1>3. \E d \in Client : \E s \in 1 .. Size(d) :
        Lines[i][n] = Msg(d, s) /\ OnPaper[d] < s /\ s <= Taken[d]
  BY InListed
<1> QED BY <1>2, <1>3

(* A longer line, a shorter one.                                           *)
LEMMA InLonger ==
  ASSUME NEW L, NEW M, NEW i \in Comm, NEW x, L \in [Comm -> Seq(PrintMsg)],
         Longer(L, M, i, x)
  PROVE  /\ \A c \in Client : \A r \in 1 .. Size(c) :
              InLine(M, c, r) => InLine(L, c, r) \/ Msg(c, r) = x
         /\ \A c \in Client : \A r \in 1 .. Size(c) : InLine(L, c, r) => InLine(M, c, r)
<1>1. /\ \A j \in Comm : \A k \in 1 .. Len(L[j]) : k \in 1 .. Len(M[j]) /\ M[j][k] = L[j][k]
      /\ \A j \in Comm : \A k \in 1 .. Len(M[j]) :
           \/ k \in 1 .. Len(L[j]) /\ M[j][k] = L[j][k]
           \/ j = i /\ k = Len(L[i]) + 1 /\ M[j][k] = x
  BY LongerPlaces
<1>2. ASSUME NEW c \in Client, NEW r \in 1 .. Size(c), InLine(M, c, r)
      PROVE  InLine(L, c, r) \/ Msg(c, r) = x
  BY <1>1, <1>2 DEF InLine
<1>3. ASSUME NEW c \in Client, NEW r \in 1 .. Size(c), InLine(L, c, r)
      PROVE  InLine(M, c, r)
  BY <1>1, <1>3 DEF InLine
<1> QED BY <1>2, <1>3

(* What is left of a line was there before.                                *)
LEMMA InShorter ==
  ASSUME NEW L, NEW M, NEW i \in Comm, L \in [Comm -> Seq(PrintMsg)],
         M \in [Comm -> Seq(PrintMsg)], Shorter(L, M, i)
  PROVE  \A c \in Client : \A r \in 1 .. Size(c) : InLine(M, c, r) => InLine(L, c, r)
<1>1. \A j \in Comm : \A k \in 1 .. Len(M[j]) : \E l \in 1 .. Len(L[j]) : M[j][k] = L[j][l]
  BY ShorterPlaces
<1>2. ASSUME NEW c \in Client, NEW r \in 1 .. Size(c), InLine(M, c, r)
      PROVE  InLine(L, c, r)
  BY <1>1, <1>2 DEF InLine
<1> QED BY <1>2

(* A message in a line was in it before, or has just been read.            *)
LEMMA WasInLine ==
  ASSUME Distinct, IInv, MessageInv, [Next]_vars, IInv', HandInv', pc'[Manager] # "rmdir",
         NEW c \in Client, NEW r \in 1 .. Size(c), InLine(Lines', c, r)
  PROVE  InLine(Lines, c, r) \/ \E i \in Comm : CommRead(i) /\ item'[i] = Msg(c, r)
<1>0. TypeOK /\ HandInv /\ NetInv /\ pc[Manager] # "rmdir"
  BY Phases DEF IInv, MessageInv
<1>1. PICK L : L = Lines
  OBVIOUS
<1>2. PICK M : M = Lines'
  OBVIOUS
<1>3. L \in [Comm -> Seq(PrintMsg)] /\ M \in [Comm -> Seq(PrintMsg)]
  BY <1>0, <1>1, <1>2, LinesType, LinesTypeNext DEF LinesOK
<1>4. InLine(M, c, r)
  BY <1>2
<1>5. CASE Stays
  BY <1>1, <1>2, <1>4, <1>5 DEF Stays
<1>6. ASSUME NEW i \in Comm, Loses(i) PROVE InLine(L, c, r)
  <2>1. PICK x : Longer(M, L, i, x)
    BY <1>1, <1>2, <1>6 DEF Loses
  <2>2. \A d \in Client : \A s \in 1 .. Size(d) : InLine(M, d, s) => InLine(L, d, s)
    BY <1>3, <2>1, InLonger
  <2> QED BY <1>4, <2>2
<1>7. ASSUME NEW i \in Comm, NEW d \in Client, Prints(i, d) PROVE InLine(L, c, r)
  <2>1. Shorter(L, M, i)
    BY <1>1, <1>2, <1>7 DEF Prints, FirstGone
  <2>2. \A e \in Client : \A s \in 1 .. Size(e) : InLine(M, e, s) => InLine(L, e, s)
    BY <1>3, <2>1, InShorter
  <2> QED BY <1>4, <2>2
<1>8. ASSUME NEW i \in Comm, Reads(i)
      PROVE  \/ InLine(L, c, r)
             \/ \E q \in Comm : CommRead(q) /\ item'[q] = Msg(c, r)
  <2>1. PICK x : x = Msg(got[i], Taken[got[i]] + 1)
    OBVIOUS
  <2>2. Longer(L, M, i, x)
    BY <1>1, <1>2, <1>8, <2>1 DEF Reads
  <2>3. \A d \in Client : \A s \in 1 .. Size(d) :
          InLine(M, d, s) => InLine(L, d, s) \/ Msg(d, s) = x
    BY <1>3, <2>2, InLonger
  <2>4. InLine(L, c, r) \/ Msg(c, r) = x
    BY <1>4, <2>3
  <2>5. CASE Msg(c, r) = x
    <3>1. Taken'[got[i]] = Taken[got[i]] + 1 /\ got[i] \in Client /\ Taken \in [Client -> Nat]
      BY <1>0, <1>8, TakenType DEF Reads, OneMore, TakenOK
    <3>2. Taken' # Taken
      BY <3>1
    <3>3. PICK q \in Comm : CommRead(q) /\ OneMore(Taken, Taken', got[q])
      BY <1>0, <3>2, TakenStep
    <3>4. got[q] = got[i]
      BY <3>1, <3>3 DEF OneMore
    <3>5. item'[q] = Msg(got[q], Taken[got[q]] + 1)
      BY <1>0, <3>3, ReadOne
    <3> QED BY <2>1, <2>5, <3>3, <3>4, <3>5
  <2> QED BY <2>4, <2>5
<1> QED BY <1>0, <1>1, <1>5, <1>6, <1>7, <1>8, LinesMove

(* The file of the message communicator i holds changes, or may.           *)
Rewrites(i) == \/ WriteMsg(i) \/ CommDies(i)
               \/ Caught(i) /\ pc[i] = "write_msg"

(* What a step does to the spool files: it removes that of a printed       *)
(* message, or that of a message some communicator holds changes.          *)
LEMMA SpoolMoves ==
  ASSUME Distinct, IInv, MessageInv, [Next]_vars, IInv', HandInv',
         pc'[Manager] # "rmdir",
         NEW c \in Client, NEW r \in 1 .. Size(c), OnPaper'[c] < r
  PROVE  \/ spool'[Msg(c, r).id] = spool[Msg(c, r).id]
         \/ \E i \in Comm : item[i] = Msg(c, r) /\ Rewrites(i)
<1>0. /\ TypeOK /\ TypeOK' /\ HandInv /\ RemoveInv
      /\ OnPaper \in [Client -> Nat] /\ OnPaper' \in [Client -> Nat]
      /\ pc[Manager] # "rmdir"
  BY OnPaperType, OnPaperTypeNext, Phases DEF IInv, MessageInv, OnPaperOK
<1>a. PICK all : all = ~Cancelled
  OBVIOUS
<1>b. Lined(Lines, OnPaper, Taken, all)
  BY <1>0, <1>a DEF MessageInv, LinedInv
<1>1. PICK D : spool \in [PrintID -> D]
  BY <1>0 DEF TypeOK
<1>2. PICK m : m = Msg(c, r)
  OBVIOUS
<1>3. m.id \in PrintID
  BY <1>2, MsgType
<1>4. CASE UNCHANGED spool
  BY <1>4
<1>5. ASSUME NEW d \in Client, NEW s \in 1 .. Size(d), NEW v, Msg(d, s) # m,
             spool' = [spool EXCEPT ![Msg(d, s).id] = v]
      PROVE  spool'[m.id] = spool[m.id]
  <2>1. Msg(d, s).id # m.id
    BY <1>2, <1>5, OtherFile
  <2> QED BY <1>1, <1>3, <1>5, <2>1
<1>6. ASSUME NEW d \in Client, NEW s \in 1 .. Size(d), s <= OnPaper'[d] PROVE Msg(d, s) # m
  <2> SUFFICES ASSUME Msg(d, s) = m PROVE FALSE
    OBVIOUS
  <2>1. d = c /\ s = r
    BY <1>2, Unique
  <2> QED BY <1>0, <1>6, <2>1
<1>7. CASE SpoolFixed
  <2> USE DEF Step, Point, Move, batch, net, files, data
  <2>1. CASE Rest
    BY <2>1 DEF Rest
  <2>2. ASSUME NEW t \in Queue, Enqueue(t) PROVE UNCHANGED spool
    BY <2>2 DEF Enqueue
  <2>3. ASSUME NEW t \in Thread, NEW q \in Queue, Dequeue(t, q) PROVE UNCHANGED spool
    BY <2>3 DEF Dequeue
  <2>4. ASSUME NEW e \in Client, Accept(e) \/ ClientSend(e) PROVE UNCHANGED spool
    BY <2>4 DEF Accept, ClientSend
  <2>5. ASSUME NEW i \in Comm, CommRead(i) PROVE UNCHANGED spool
    BY <2>5 DEF CommRead
  <2>6. CASE PrinterMkdir \/ PrinterPrint \/ HandlerCancel \/ HandlerDestroy
    BY <2>6 DEF PrinterMkdir, PrinterPrint, HandlerCancel, HandlerDestroy
  <2> HIDE DEF Step, Point, Move, batch, net, files, data
  <2> QED BY <1>4, <1>7, <2>1, <2>2, <2>3, <2>4, <2>5, <2>6 DEF SpoolFixed
<1>8. CASE PrinterRemove
  <2>1. /\ pc[Printer] = "remove" /\ UNCHANGED paper
        /\ spool' = [spool EXCEPT ![got[Printer].id] = Nil]
    BY <1>8 DEF PrinterRemove, Step, SpoolName
  <2>2. PICK d \in Client : \E s \in 1 .. OnPaper[d] : got[Printer] = Msg(d, s)
    BY <1>0, <2>1 DEF RemoveInv
  <2>3. PICK s \in 1 .. OnPaper[d] : got[Printer] = Msg(d, s)
    BY <2>2
  <2>4. OnPaper' = OnPaper
    BY <2>1, PaperSame
  <2>5. OnPaper[d] <= Taken[d] /\ Taken[d] \in Nat /\ Taken[d] <= Size(d) /\ Size(d) \in Nat
    BY <1>b, LastType DEF Lined, Counts
  <2>6. s \in 1 .. Size(d) /\ s <= OnPaper'[d]
    BY <1>0, <2>4, <2>5
  <2> QED BY <1>2, <1>5, <1>6, <2>1, <2>3, <2>6
<1>9. CASE FinalCheckPrint
  <2>1. spool' = [spool EXCEPT ![Head(buf[hq]).id] = Nil]
    BY <1>9 DEF FinalCheckPrint, SpoolName
  <2>2. /\ hq \in Comm /\ Lines[hq][1] = Head(buf[hq])
        /\ \E d \in Client : PagePrinted(d) /\ Lines[hq][1] = Msg(d, OnPaper[d] + 1)
    BY <1>9, FinalCheckPrinted DEF FirstGone
  <2>3. PICK d \in Client : PagePrinted(d) /\ Lines[hq][1] = Msg(d, OnPaper[d] + 1)
    BY <2>2
  <2>4. OneMore(OnPaper, OnPaper', d)
    BY <1>0, <2>3, PageOneMore
  <2>5. PICK s \in 1 .. Size(d) : s = OnPaper[d] + 1
    BY <2>3 DEF PagePrinted
  <2>6. s <= OnPaper'[d]
    BY <1>0, <2>4, <2>5 DEF OneMore
  <2> QED BY <1>2, <1>5, <1>6, <2>1, <2>2, <2>3, <2>5, <2>6
<1>10. ASSUME NEW i \in Comm, Rewrites(i), item[i] # m
       PROVE  spool'[m.id] = spool[m.id]
  <2>1. \/ UNCHANGED spool
        \/ pc[i] = "write_msg" /\ \E v : spool' = [spool EXCEPT ![item[i].id] = v]
    BY <1>10, CaughtKeeps
       DEF Rewrites, WriteMsg, CommDies, StopsWriting, Point, Step, SpoolName
  <2>2. ASSUME NEW v, pc[i] = "write_msg", spool' = [spool EXCEPT ![item[i].id] = v]
        PROVE  spool'[m.id] = spool[m.id]
    <3>1. item[i] # Nil
      <4>1. item[i] \in Carried(i)
        BY <2>2, Threads DEF IInv, HeldInv, Holding
      <4> QED BY <4>1, Threads, DataAssumption DEF Carried
    <3>2. \E d \in Client : \E s \in 1 .. Size(d) : item[i] = Msg(d, s)
      BY <1>0, <1>b, <3>1, HandListed
    <3>3. PICK d \in Client : \E s \in 1 .. Size(d) : item[i] = Msg(d, s)
      BY <3>2
    <3>4. PICK s \in 1 .. Size(d) : item[i] = Msg(d, s)
      BY <3>3
    <3> QED BY <1>5, <1>10, <2>2, <3>4
  <2> QED BY <2>1, <2>2
<1>11. ASSUME NEW t \in Thread, Caught(t) PROVE UNCHANGED spool \/ (t \in Comm /\ Rewrites(t))
  <2>1. pc[t] = "write_msg" => t \in Comm
    BY <1>0, Threads DEF TypeOK, PC, HandlerPC, Thread, Comm, Manager, Printer
  <2> QED BY <1>11, <2>1, CaughtKeeps DEF Rewrites
<1>12. ASSUME NEW i \in Comm, WriteMsg(i) \/ CommDies(i) PROVE Rewrites(i)
  BY <1>12 DEF Rewrites
<1> QED BY <1>2, <1>4, <1>7, <1>8, <1>9, <1>10, <1>11, <1>12, <1>0, FixedOrNot

(* Every step keeps the files of the messages in the queues.               *)
LEMMA SpoolStep ==
  ASSUME Distinct, IInv, MessageInv, [Next]_vars, IInv', HandInv', LinedInv'
  PROVE  SpoolInv'
<1> SUFFICES ASSUME pc'[Manager] # "rmdir", NEW c \in Client, NEW r \in 1 .. Size(c),
                    InLine(Lines', c, r), ~Unwritten(Msg(c, r))'
             PROVE  InFile(c, r)'
  BY DEF SpoolInv, Msg, Size, InFile, Broke
<1>0. /\ TypeOK /\ HandInv /\ NetInv /\ LinkInv /\ ReadInv /\ SpoolInv
      /\ pc[Manager] # "rmdir"
  BY Phases DEF IInv, MessageInv
<1>1. PICK m : m = Msg(c, r)
  OBVIOUS
<1>2. m # Nil /\ m.id \in PrintID
  BY <1>1, MsgType
<1>3. ~Unwritten(m)'
  BY <1>1
<1>4. PICK D, W, T : /\ spool \in [PrintID -> D] /\ pc \in [Thread -> W]
                     /\ item \in [Thread -> T]
  BY <1>0 DEF TypeOK
<1>5. OnPaper'[c] < r
  <2>1. PICK any : any = ~Cancelled'
    OBVIOUS
  <2>2. Lined(Lines', OnPaper', Taken', any)
    BY <2>1 DEF LinedInv
  <2>3. PICK M : M = Lines'
    OBVIOUS
  <2>4. PICK P : P = OnPaper'
    OBVIOUS
  <2>5. PICK R : R = Taken'
    OBVIOUS
  <2>6. Counts(M, P, R) /\ Listed(M, P, R)
    BY <2>2, <2>3, <2>4, <2>5 DEF Lined
  <2>7. PICK j \in Comm : \E k \in 1 .. Len(M[j]) : M[j][k] = Msg(c, r)
    BY <2>3 DEF InLine
  <2>8. PICK k \in 1 .. Len(M[j]) : M[j][k] = Msg(c, r)
    BY <2>7
  <2>9. r \in P[c] + 1 .. R[c]
    BY <2>6, <2>8, ListedAt
  <2>10. P[c] \in Nat
    BY <2>6 DEF Counts
  <2> QED BY <2>4, <2>9, <2>10
<1>6. InLine(Lines, c, r)
  <2>1. ASSUME NEW i \in Comm, CommRead(i), item'[i] = m PROVE FALSE
    <3>1. pc'[i] = "wait_empty"
      BY <1>4, <2>1, Threads DEF CommRead, Point, Step
    <3> QED BY <1>3, <2>1, <3>1 DEF Unwritten
  <2> QED BY <1>1, <2>1, WasInLine
<1>7. CASE \E i \in Comm : item[i] = m /\ WriteMsg(i)
  <2>1. PICK i \in Comm : item[i] = m /\ WriteMsg(i)
    BY <1>7
  <2>2. item'[i] = m
    BY <2>1 DEF WriteMsg, net
  <2>3. status' = "running"
    BY <1>3, <2>2 DEF Unwritten
  <2>4. spool' = [spool EXCEPT ![m.id] = TextRead(i)] /\ UNCHANGED <<link, toSend, sock>>
    BY <2>1, <2>3 DEF WriteMsg, SpoolName, net
  <2>5. got[i] = c /\ r = Taken[c]
    <3>1. got[i] \in Client /\ Taken[got[i]] \in 1 .. Size(got[i])
          /\ item[i] = Msg(got[i], Taken[got[i]])
      BY <1>0, <1>2, <2>1 DEF ReadInv
    <3>2. PICK d \in Client : d = got[i]
      BY <3>1
    <3>3. PICK q \in 1 .. Size(d) : q = Taken[d]
      BY <3>1, <3>2
    <3>4. Msg(c, r) = Msg(d, q)
      BY <1>1, <2>1, <3>1, <3>2, <3>3
    <3>5. c = d /\ r = q
      BY <3>4, Unique
    <3> QED BY <3>2, <3>3, <3>5
  <2>6. spool'[m.id] = m.text \/ (spool'[m.id] = Damaged /\ link[c] = "torn")
    BY <1>2, <1>4, <2>1, <2>4, <2>5 DEF TextRead
  <2>7. Taken' = Taken /\ link' = link
    BY <2>4 DEF Taken
  <2>8. Msg(c, r)' = m
    BY <1>1 DEF Msg
  <2> QED BY <2>5, <2>6, <2>7, <2>8 DEF InFile, Broke
<1>8. CASE ~\E i \in Comm : item[i] = m /\ WriteMsg(i)
  <2>1. ~Unwritten(m)
    <3> SUFFICES ASSUME Unwritten(m) PROVE FALSE
      OBVIOUS
    <3>1. CASE \/ SpoolFixed \/ PrinterRemove \/ FinalCheckPrint
               \/ \E i \in Comm : CommDies(i)
               \/ \E t \in Thread : Caught(t)
      BY <1>0, <1>2, <1>3, <3>1, StillUnwritten
    <3>2. ASSUME NEW j \in Comm, WriteMsg(j) PROVE FALSE
      <4>1. PICK i \in Comm : item[i] = m /\ ~(pc[i] = "enqueue" /\ status = "running")
        BY DEF Unwritten
      <4>2. i # j
        BY <1>8, <3>2, <4>1
      <4>3. item'[i] = m /\ pc'[i] = pc[i] /\ status = "running"
        BY <1>4, <3>2, <4>1, <4>2, Threads DEF WriteMsg, Point, Step, net
      <4> QED BY <1>3, <4>1, <4>3 DEF Unwritten
    <3> QED BY <1>0, <3>1, <3>2, FixedOrNot
  <2>2. InFile(c, r)
    BY <1>0, <1>1, <1>6, <2>1 DEF SpoolInv
  <2>3. ASSUME NEW i \in Comm, item[i] = m, CommDies(i) PROVE FALSE
    <3>1. item'[i] = m /\ pc'[i] = "dead"
      BY <1>4, <2>3, Threads DEF CommDies, Step, net
    <3> QED BY <1>3, <3>1 DEF Unwritten
  <2>4. ASSUME NEW i \in Comm, item[i] = m, Caught(i), pc[i] = "write_msg" PROVE FALSE
    <3>1. item'[i] = m /\ pc'[i] = "write_msg"
      BY <2>4, CaughtKeeps
    <3> QED BY <1>3, <3>1 DEF Unwritten
  <2>5. spool'[m.id] = spool[m.id]
    BY <1>1, <1>5, <1>8, <2>3, <2>4, SpoolMoves DEF Rewrites
  <2>6. Broke(c, r) => Broke(c, r)'
    BY <1>0, BrokeStays
  <2>7. Msg(c, r)' = m
    BY <1>1 DEF Msg
  <2> QED BY <1>1, <2>2, <2>5, <2>6, <2>7 DEF InFile
<1> QED BY <1>7, <1>8

(* The message in the printer thread's hand is printed before its file is  *)
(* removed.                                                                *)
LEMMA RemoveStep ==
  ASSUME Distinct, IInv, MessageInv, [Next]_vars, IInv', HandInv'
  PROVE  RemoveInv'
<1> SUFFICES ASSUME pc'[Printer] = "remove"
             PROVE  \E c \in Client : \E r \in 1 .. OnPaper'[c] : got'[Printer] = Msg(c, r)
  BY DEF RemoveInv, Msg
<1>0. /\ TypeOK /\ TypeOK' /\ RemoveInv
      /\ OnPaper \in [Client -> Nat] /\ OnPaper' \in [Client -> Nat]
  BY OnPaperType, OnPaperTypeNext DEF IInv, MessageInv, OnPaperOK
<1>1. PICK W, G : pc \in [Thread -> W] /\ got \in [Thread -> G]
  BY <1>0 DEF TypeOK
<1>2. /\ Queue \subseteq Thread /\ Comm \subseteq Thread
      /\ Manager \in Thread /\ Printer \in Thread
      /\ Manager \notin Comm /\ Printer \notin Comm /\ Manager # Printer
      /\ Printer \notin Queue
  BY Threads
<1>3. \A c \in Client : OnPaper[c] <= OnPaper'[c]
  <2>1. ASSUME NEW d \in Client, PagePrinted(d), NEW c \in Client
        PROVE  OnPaper[c] <= OnPaper'[c]
    <3>1. OneMore(OnPaper, OnPaper', d)
      BY <1>0, <2>1, PageOneMore
    <3> QED BY <1>0, <3>1 DEF OneMore
  <2>2. ASSUME UNCHANGED paper, NEW c \in Client PROVE OnPaper[c] <= OnPaper'[c]
    BY <1>0, <2>2, PaperSame
  <2> QED BY <2>1, <2>2, PaperStep
<1>4. CASE pc[Printer] = "remove" /\ got'[Printer] = got[Printer]
  <2>1. PICK c \in Client : \E r \in 1 .. OnPaper[c] : got[Printer] = Msg(c, r)
    BY <1>0, <1>4 DEF RemoveInv
  <2>2. PICK r \in 1 .. OnPaper[c] : got[Printer] = Msg(c, r)
    BY <2>1
  <2>3. r \in 1 .. OnPaper'[c]
    BY <1>0, <1>3
  <2> QED BY <1>4, <2>2, <2>3
<1>5. CASE PrinterPrint
  <2>1. got'[Printer] = got[Printer]
    BY <1>5 DEF PrinterPrint
  <2>2. /\ FirstGone(Lines, Lines', pq, got[Printer])
        /\ \E c \in Client : PagePrinted(c) /\ Lines[pq][1] = Msg(c, OnPaper[c] + 1)
    BY <1>5, PrinterPrinted
  <2>3. PICK c \in Client : PagePrinted(c) /\ Lines[pq][1] = Msg(c, OnPaper[c] + 1)
    BY <2>2
  <2>4. OneMore(OnPaper, OnPaper', c)
    BY <1>0, <2>3, PageOneMore
  <2>5. PICK n \in Nat : n = OnPaper[c]
    BY <1>0
  <2>6. OnPaper'[c] = n + 1 /\ n + 1 \in 1 .. n + 1
    BY <2>4, <2>5 DEF OneMore
  <2>7. got'[Printer] = Msg(c, n + 1)
    BY <2>1, <2>2, <2>3, <2>5 DEF FirstGone
  <2> QED BY <2>6, <2>7
<1> USE DEF Step, Point, Move, batch, net, files, data
<1>6. CASE Rest
  BY <1>4, <1>6 DEF Rest
<1>7. ASSUME NEW t \in Queue, Enqueue(t)
      PROVE  pc[Printer] = "remove" /\ got'[Printer] = got[Printer]
  BY <1>1, <1>2, <1>7 DEF Enqueue
<1>8. ASSUME NEW t \in Thread, NEW q \in Queue, Dequeue(t, q)
      PROVE  pc[Printer] = "remove" /\ got'[Printer] = got[Printer]
  <2>1. t # Printer
    BY <1>1, <1>2, <1>8 DEF Dequeue
  <2> QED BY <1>1, <1>2, <1>8, <2>1 DEF Dequeue
<1>9. ASSUME NEW c \in Client, Accept(c) \/ ClientSend(c)
      PROVE  pc[Printer] = "remove" /\ got'[Printer] = got[Printer]
  BY <1>1, <1>2, <1>9 DEF Accept, ClientSend
<1>10. ASSUME NEW i \in Comm, CommRead(i) \/ WriteMsg(i) \/ CommDies(i)
       PROVE  pc[Printer] = "remove" /\ got'[Printer] = got[Printer]
  BY <1>1, <1>2, <1>10 DEF CommRead, WriteMsg, CommDies
<1>11. CASE PrinterMkdir \/ PrinterRemove
  BY <1>1, <1>2, <1>11 DEF PrinterMkdir, PrinterRemove
<1>12. ASSUME HandlerCancel \/ FinalCheckPrint \/ HandlerDestroy
       PROVE  pc[Printer] = "remove" /\ got'[Printer] = got[Printer]
  BY <1>1, <1>2, <1>12 DEF HandlerCancel, FinalCheckPrint, HandlerDestroy
<1>13. ASSUME NEW t \in Thread, Caught(t)
       PROVE  pc[Printer] = "remove" /\ got'[Printer] = got[Printer]
  BY <1>13, CaughtKeeps
<1> HIDE DEF Step, Point, Move, batch, net, files, data
<1> QED BY <1>0, <1>4, <1>5, <1>6, <1>7, <1>8, <1>9, <1>10, <1>11, <1>12, <1>13,
           EventOrRest
        DEF Event

(* Without a spool directory a communicator crashes before it enqueues.    *)
LEMMA MkdirStep ==
  ASSUME Distinct, IInv, MessageInv, [Next]_vars, IInv', HandInv'
  PROVE  MkdirInv'
<1> SUFFICES ASSUME pc'[Printer] \in NoDir, status' = "running"
             PROVE  paper' = <<>> /\ \A i \in Comm : buf'[i] = <<>> /\ pc'[i] # "enqueue"
  BY DEF MkdirInv
<1>0. TypeOK /\ MkdirInv
  BY DEF IInv, MessageInv
<1>1. PICK W, B : pc \in [Thread -> W] /\ buf \in [Queue -> B]
  BY <1>0 DEF TypeOK
<1>2. /\ Queue \subseteq Thread /\ Comm \subseteq Thread /\ Comm \subseteq Queue
      /\ Manager \in Thread /\ Printer \in Thread /\ Queue = Comm \union {Manager}
      /\ Manager \notin Comm /\ Printer \notin Comm /\ Manager # Printer
      /\ Printer \notin Queue
  BY Threads
<1>3. ASSUME pc[Printer] \in NoDir, status = "running"
      PROVE  paper = <<>> /\ \A i \in Comm : buf[i] = <<>> /\ pc[i] # "enqueue"
  BY <1>0, <1>3 DEF MkdirInv
<1> USE DEF Step, Point, Move, batch, net, files, data
<1>6. CASE Rest
  <2>1. \A i \in Comm : buf'[i] = buf[i] /\ (pc'[i] = "enqueue" <=> pc[i] = "enqueue")
    BY <1>6 DEF Rest
  <2>2. pc[Printer] \in NoDir /\ status = "running" /\ paper' = paper
    BY <1>6 DEF Rest
  <2> QED BY <1>3, <2>1, <2>2
<1>7. ASSUME NEW t \in Queue, Enqueue(t)
      PROVE  paper' = <<>> /\ \A i \in Comm : buf'[i] = <<>> /\ pc'[i] # "enqueue"
  <2>1. pc[Printer] \in NoDir /\ status = "running" /\ pc[t] = "enqueue"
    BY <1>1, <1>2, <1>7 DEF Enqueue
  <2>2. t \notin Comm
    BY <1>3, <2>1
  <2> QED BY <1>1, <1>2, <1>3, <1>7, <2>1, <2>2 DEF Enqueue
<1>8. ASSUME NEW t \in Thread, NEW q \in Queue, Dequeue(t, q)
      PROVE  paper' = <<>> /\ \A i \in Comm : buf'[i] = <<>> /\ pc'[i] # "enqueue"
  <2>1. pc[Printer] \in NoDir /\ status = "running" /\ paper' = paper
    BY <1>1, <1>2, <1>8 DEF Dequeue, NoDir
  <2>2. \A i \in Comm : pc'[i] # "enqueue"
    BY <1>1, <1>2, <1>3, <1>8, <2>1 DEF Dequeue
  <2>3. CASE buf[q] = <<>>
    BY <1>3, <1>8, <2>1, <2>2, <2>3 DEF Dequeue
  <2>4. CASE buf[q] # <<>>
    <3>1. q \notin Comm
      BY <1>3, <2>1, <2>4
    <3>2. \A i \in Comm : buf'[i] = buf[i]
      BY <1>1, <1>2, <1>8, <2>4, <3>1 DEF Dequeue
    <3> QED BY <1>3, <2>1, <2>2, <3>2
  <2> QED BY <2>3, <2>4
<1>9. ASSUME NEW c \in Client, Accept(c) \/ ClientSend(c)
      PROVE  paper' = <<>> /\ \A i \in Comm : buf'[i] = <<>> /\ pc'[i] # "enqueue"
  BY <1>1, <1>2, <1>3, <1>9 DEF Accept, ClientSend
<1>10. ASSUME NEW j \in Comm, CommRead(j) \/ WriteMsg(j) \/ CommDies(j)
       PROVE  paper' = <<>> /\ \A i \in Comm : buf'[i] = <<>> /\ pc'[i] # "enqueue"
  <2>1. pc[Printer] \in NoDir /\ status = "running" /\ UNCHANGED <<buf, paper>>
    BY <1>1, <1>2, <1>10 DEF CommRead, WriteMsg, CommDies
  <2>2. ~WriteMsg(j)
    BY <2>1 DEF WriteMsg, NoSpoolDir, NoDir
  <2>3. pc'[j] # "enqueue" /\ \A i \in Comm \ {j} : pc'[i] = pc[i]
    BY <1>1, <1>2, <1>10, <2>2 DEF CommRead, CommDies
  <2> QED BY <1>3, <2>1, <2>3
<1>11. CASE PrinterMkdir \/ PrinterPrint \/ PrinterRemove
  BY <1>1, <1>2, <1>11 DEF PrinterMkdir, PrinterPrint, PrinterRemove, NoDir
<1>12. CASE HandlerCancel \/ HandlerDestroy
  BY <1>1, <1>2, <1>3, <1>12 DEF HandlerCancel, HandlerDestroy
<1>13. CASE FinalCheckPrint
  <2>1. pc[Printer] \in NoDir /\ status = "running" /\ buf[hq] # <<>>
    BY <1>1, <1>2, <1>13 DEF FinalCheckPrint
  <2>2. hq \in Comm
    BY <1>13, FinalCheckPrinted
  <2> QED BY <1>3, <2>1, <2>2
<1>14. ASSUME NEW t \in Thread, Caught(t) PROVE UNCHANGED <<pc, buf, paper, status>>
  BY <1>14, CaughtKeeps
<1> HIDE DEF Step, Point, Move, batch, net, files, data
<1> QED BY <1>0, <1>3, <1>6, <1>7, <1>8, <1>9, <1>10, <1>11, <1>12, <1>13, <1>14,
           EventOrRest DEF Event

-----------------------------------------------------------------------------
(* Nothing has been sent at the start.                                     *)
LEMMA InitMessages == Init => MessageInv
<1> SUFFICES ASSUME Init PROVE MessageInv
  OBVIOUS
<1>1. /\ \A t \in Thread : pc[t] \in {"accept", "top", "mkdir", "outer"}
      /\ pc[Manager] = "accept" /\ pc[Printer] \in {"top", "mkdir"}
      /\ \A i \in Comm : pc[i] = "outer"
  BY Threads DEF Init
<1>2. /\ \A q \in Queue : buf[q] = <<>>
      /\ \A t \in Thread : item[t] = Nil /\ got[t] = Nil
      /\ toSend = Script /\ \A c \in Client : sock[c] = <<>>
      /\ paper = <<>> /\ torn = Nil /\ \A c \in Client : link[c] = "new"
  BY DEF Init
<1>3. HandInv
  BY <1>2, Threads DEF HandInv
<1>4. \A c \in Client : Taken[c] = 0
  <2> SUFFICES ASSUME NEW c \in Client PROVE Taken[c] = 0
    OBVIOUS
  <2>1. Len(toSend[c]) = Size(c) /\ Len(sock[c]) = 0
    BY <1>2 DEF Size
  <2> QED BY <2>1, TakenIs, LastType
<1>5. NetInv
  <2> SUFFICES ASSUME NEW c \in Client
               PROVE  /\ Len(toSend[c]) + Len(sock[c]) <= Size(c)
                      /\ \A k \in 1 .. Len(toSend[c]) :
                           toSend[c][k] = Msg(c, Size(c) - Len(toSend[c]) + k)
                      /\ \A k \in 1 .. Len(sock[c]) : sock[c][k] = Msg(c, Taken[c] + k)
    BY DEF NetInv
  <2>1. Len(toSend[c]) = Size(c) /\ Len(sock[c]) = 0 /\ Size(c) \in Nat
    BY <1>2, LastType DEF Size
  <2>2. \A k \in 1 .. Size(c) : Size(c) - Size(c) + k = k
    BY <2>1
  <2>3. \A k \in 1 .. Size(c) : toSend[c][k] = Msg(c, k)
    BY <1>2 DEF Msg
  <2> QED BY <2>1, <2>2, <2>3
<1>6. ConnInv
  <2>1. buf[ConnQ] = <<>> /\ item[Manager] = Nil /\ \A i \in Comm : Serving[i] = Nil
    BY <1>2, Threads DEF Serving
  <2>2. Len(<<>>) = 0 /\ Nil \notin Client
    BY DataAssumption
  <2>3. \A c \in Client : ~Queued(<<>>, c) /\ ~Served(Serving, c)
    BY <2>1, <2>2 DEF Queued, Served
  <2> QED BY <1>4, <2>1, <2>2, <2>3 DEF ConnInv, Conns
<1>7. OnPaper = [c \in Client |-> 0] /\ \A c \in Client : Of(c, paper) = <<>>
  <2>1. \A c \in Client : Of(c, paper) = <<>>
    BY <1>2, OfNone
  <2> QED BY <2>1 DEF OnPaper
<1>8. PagesInv
  BY <1>4, <1>7 DEF PagesInv
<1>9. \A i \in Comm : Lines[i] = <<>>
  <2> SUFFICES ASSUME NEW i \in Comm PROVE Lines[i] = <<>>
    OBVIOUS
  <2>1. AtFront(i) = <<>>
    BY <1>1 DEF AtFront, InPrinter
  <2>2. InHand(i) = <<>> /\ buf[i] = <<>>
    BY <1>2, Threads DEF InHand
  <2>3. <<>> \o <<>> \o <<>> = <<>>
    OBVIOUS
  <2> QED BY <2>1, <2>2, <2>3, LineIs DEF LineOf
<1>10. \A i \in Comm : Len(Lines[i]) = 0
  BY <1>9
<1>11. LinedInv
  <2>1. TypeOK
    BY InitType
  <2>2. Taken \in [Client -> Nat]
    BY <1>5, <2>1, TakenType DEF TakenOK
  <2>3. Lines \in [Comm -> Seq(PrintMsg)]
    BY <1>3, InitInv, LinesType DEF LinesOK
  <2>4. Counts(Lines, OnPaper, Taken)
    BY <1>4, <1>7, <2>2, <2>3, LastType DEF Counts
  <2>5. Listed(Lines, OnPaper, Taken) /\ Ordered(Lines)
    BY <1>10 DEF Listed, Ordered
  <2>6. NoGap(Lines, OnPaper, Taken, ~Cancelled)
    <3> SUFFICES ASSUME NEW c \in Client, NEW r \in OnPaper[c] + 1 .. Taken[c] + 1
                 PROVE  OnPaper[c] + 1 .. r - 1 = {}
      BY DEF NoGap
    <3>1. OnPaper[c] = 0 /\ Taken[c] = 0
      BY <1>4, <1>7
    <3> QED BY <3>1
  <2> QED BY <2>4, <2>5, <2>6 DEF LinedInv, Lined
<1>12. ServerInv
  BY <1>10 DEF ServerInv, OneServer
<1>13. SpoolInv
  BY <1>10 DEF SpoolInv, InLine
<1>14. RemoveInv
  BY <1>1 DEF RemoveInv
<1>15. LinkInv /\ ReadInv /\ CutInv
  BY <1>2, Threads DEF LinkInv, ReadInv, CutInv
<1>16. MkdirInv
  <2>1. \A i \in Comm : buf[i] = <<>>
    BY <1>2, Threads
  <2> QED BY <1>1, <1>2, <2>1 DEF MkdirInv
<1> QED BY <1>3, <1>5, <1>6, <1>8, <1>11, <1>12, <1>13, <1>14, <1>16, <1>15 DEF MessageInv

(* A step keeps the invariant: its conjuncts, each from those before it.   *)
LEMMA MessageStep ==
  ASSUME Distinct, IInv, MessageInv, [Next]_vars PROVE MessageInv'
<1>1. IInv'
  BY IInvStep
<1>2. HandInv' /\ NetInv' /\ ConnInv'
  BY HandStep, NetStep, ConnStep DEF MessageInv
<1>3. LinedInv'
  BY <1>1, <1>2, LinedStep
<1>4. ServerInv' /\ PagesInv' /\ RemoveInv' /\ MkdirInv'
  BY <1>1, <1>2, ServerStep, PagesStep, RemoveStep, MkdirStep
<1>5. SpoolInv'
  BY <1>1, <1>2, <1>3, SpoolStep
<1>6. LinkInv' /\ ReadInv' /\ CutInv'
  BY LinkStep, ReadStep, CutStep DEF MessageInv
<1> QED BY <1>2, <1>3, <1>4, <1>5, <1>6 DEF MessageInv

(* Whatever threads, clients and SIGINT do, the messages are where         *)
(* MessageInv says.                                                        *)
THEOREM Messages == ASSUME Distinct PROVE Spec => []MessageInv
<1>1. IInv /\ MessageInv /\ [Next]_vars => MessageInv'
  BY MessageStep
<1> QED BY <1>1, InitMessages, Invariance, PTL DEF Spec

(* The pages before the last message that was read are good.               *)
LEMMA GoodPages ==
  ASSUME TypeOK, NetInv, PagesInv, NEW c \in Client, NEW n \in Nat, n <= OnPaper[c],
         n < Taken[c] \/ link[c] # "torn"
  PROVE  \A k \in 1 .. n : Of(c, paper)[k] = Msg(c, k)
<1>1. OnPaper[c] \in Nat /\ Taken[c] \in Nat
  BY OnPaperType, TakenType DEF OnPaperOK, TakenOK
<1>2. ASSUME NEW k \in 1 .. n PROVE Of(c, paper)[k] = Msg(c, k)
  <2>1. k \in 1 .. OnPaper[c]
    BY <1>1
  <2>2. IsPage(Of(c, paper)[k], c, k)
    BY <2>1 DEF PagesInv
  <2>3. ~Broke(c, k)
    BY <1>1 DEF Broke
  <2> QED BY <2>2, <2>3 DEF IsPage
<1> QED BY <1>2

(* What the process leaves is what it printed, and the page it left        *)
(* unfinished.                                                             *)
LEMMA TornPage ==
  ASSUME Distinct, NEW p \in Seq(Message), NEW d \in Client, NEW r \in 1 .. Size(d),
         NEW m, m = Msg(d, r), NEW q, q = Append(p, Unmarked(m))
  PROVE  OnePage(p, q, Unmarked(m), d)
<1>1. PICK y : y = Unmarked(m)
  OBVIOUS
<1>2. m \in PrintMsg
  BY MsgType
<1>3. y \in Message /\ y.id = m.id
  BY <1>1, <1>2 DEF Unmarked, PrintMsg, Message
<1>4. q = Append(p, y) /\ y.id = Msg(d, r).id
  BY <1>1, <1>3
<1>5. OnePage(p, q, y, d)
  BY <1>3, <1>4, PageJoins
<1> QED BY <1>1, <1>5

(* Whatever happens, shutdown and resets included, what is on paper of a   *)
(* connection is what it asked for, in order, with no gap and no           *)
(* duplicate; only its last page may be wrong, if the connection broke or  *)
(* the process came to its end in the middle.                              *)
THEOREM Faithful == ASSUME Distinct PROVE Spec => []PaperFaithful
<1>1. ASSUME IInv, MessageInv PROVE PaperFaithful
  <2>0. /\ TypeOK /\ NetInv /\ PagesInv /\ CutInv
    BY <1>1 DEF IInv, MessageInv
  <2> DEFINE Good(c, n) == SubSeq(Script[c], 1, n)
  <2> SUFFICES ASSUME NEW c \in Client
               PROVE  \E n \in 0 .. Len(Script[c]) :
                 \/ Of(c, Printout) = Good(c, n)
                 \/ /\ n < Len(Script[c])
                    /\ \/ /\ link[c] = "torn"
                          /\ Of(c, Printout) = Append(Good(c, n), Garbled(Script[c][n + 1]))
                       \/ /\ status \in {"exit1", "crashed"}
                          /\ Of(c, Printout) = Append(Good(c, n), Unmarked(Script[c][n + 1]))
    BY Zenon DEF PaperFaithful
  <2>1. PICK z \in Nat : z = OnPaper[c]
    BY <2>0, OnPaperType DEF OnPaperOK
  <2>2. z <= Taken[c] /\ Taken[c] \in Nat
    BY <2>0, <2>1, TakenType DEF TakenOK, PagesInv
  <2>3. Taken[c] <= Size(c) /\ Size(c) \in Nat
    <3>1. Len(toSend[c]) \in Nat /\ Len(sock[c]) \in Nat
      <4>1. toSend[c] \in Seq(PrintMsg) /\ sock[c] \in Seq(PrintMsg)
        BY <2>0 DEF TypeOK
      <4> QED BY <4>1
    <3> QED BY <3>1, <2>2, TakenIs, LastType
  <2>4. PICK s \in Seq(Message) : s = Of(c, paper)
    <3>1. paper \in Seq(Message)
      BY <2>0 DEF TypeOK
    <3> QED BY <3>1, OfType
  <2>5. Len(s) = z
    BY <2>1, <2>4 DEF OnPaper
  <2>6. PICK u \in Seq(PrintMsg) : u = Script[c]
    BY DataAssumption
  <2>7. Len(u) = Size(c) /\ z <= Len(u)
    BY <2>2, <2>3, <2>6 DEF Size
  <2>8. ASSUME NEW n \in Nat, n <= z, \A k \in 1 .. n : s[k] = Msg(c, k)
        PROVE  SubSeq(s, 1, n) = Good(c, n)
    <3>1. \A k \in 1 .. n : s[k] = u[k]
      BY <2>6, <2>8 DEF Msg
    <3>2. n <= Len(s) /\ n <= Len(u)
      BY <2>5, <2>7, <2>8
    <3>3. SubSeq(s, 1, n) = SubSeq(u, 1, n)
      BY <3>1, <3>2
    <3> QED BY <2>6, <3>3
  <2>9. SubSeq(s, 1, z) = s
    BY <2>5
  <2>10. ASSUME z < Taken[c] \/ link[c] # "torn" PROVE s = Good(c, z)
    <3>1. \A k \in 1 .. z : s[k] = Msg(c, k)
      BY <2>0, <2>1, <2>4, <2>10, GoodPages
    <3> QED BY <2>8, <2>9, <3>1
  <2> HIDE DEF Good
  <2>11. CASE /\ torn # Nil
              /\ OnPaper[c] < Taken[c] /\ torn = Msg(c, OnPaper[c] + 1)
    <3>1. PICK r \in 1 .. Size(c) : r = z + 1
      BY <2>1, <2>2, <2>3, <2>11
    <3>2. PICK m : m = torn
      OBVIOUS
    <3>3. m = Msg(c, r) /\ m = Script[c][z + 1]
      BY <2>1, <2>11, <3>1, <3>2 DEF Msg
    <3>4. paper \in Seq(Message) /\ Printout = Append(paper, Unmarked(m))
      BY <2>0, <2>11, <3>2 DEF TypeOK, Printout
    <3>5. PICK q : q = Printout
      OBVIOUS
    <3>6. PICK p \in Seq(Message) : p = paper
      BY <3>4
    <3>7. Of(c, q) = Append(Of(c, p), Unmarked(m))
      <4>1. q = Append(p, Unmarked(m)) /\ m = Msg(c, r)
        BY <3>3, <3>4, <3>5, <3>6
      <4>2. OnePage(p, q, Unmarked(m), c)
        BY <4>1, TornPage
      <4> QED BY <4>2 DEF OnePage
    <3>8. Of(c, Printout) = Append(s, Unmarked(m))
      BY <2>4, <3>5, <3>6, <3>7
    <3>9. s = Good(c, z)
      BY <2>1, <2>10, <2>11
    <3>10. z \in 0 .. Len(Script[c]) /\ z < Len(Script[c])
      BY <2>1, <2>2, <2>3, <2>11 DEF Size
    <3>11. status \in {"exit1", "crashed"}
      BY <2>0, <2>11 DEF CutInv
    <3> QED BY <3>3, <3>8, <3>9, <3>10, <3>11
  <2>12. CASE ~(torn # Nil /\ OnPaper[c] < Taken[c] /\ torn = Msg(c, OnPaper[c] + 1))
    <3>1. Of(c, Printout) = s
      <4>1. CASE torn = Nil
        BY <2>4, <4>1 DEF Printout
      <4>2. CASE torn # Nil
        <5>1. PICK d \in Client : OnPaper[d] < Taken[d] /\ torn = Msg(d, OnPaper[d] + 1)
          BY <2>0, <4>2 DEF CutInv, NextPage
        <5>2. d # c
          BY <2>12, <4>2, <5>1
        <5>3. PICK y \in Nat : y = OnPaper[d]
          BY <2>0, OnPaperType DEF OnPaperOK
        <5>4. PICK v \in Nat : v = Taken[d]
          BY <2>0, TakenType DEF TakenOK
        <5>5. v <= Size(d) /\ Size(d) \in Nat
          <6>1. Len(toSend[d]) \in Nat /\ Len(sock[d]) \in Nat
            <7>1. toSend[d] \in Seq(PrintMsg) /\ sock[d] \in Seq(PrintMsg)
              BY <2>0 DEF TypeOK
            <7> QED BY <7>1
          <6> QED BY <6>1, <5>4, TakenIs, LastType
        <5>6. PICK r \in 1 .. Size(d) : r = y + 1
          BY <5>1, <5>3, <5>4, <5>5
        <5>7. PICK m : m = torn
          OBVIOUS
        <5>8. paper \in Seq(Message) /\ Printout = Append(paper, Unmarked(m))
              /\ m = Msg(d, r)
          BY <2>0, <4>2, <5>1, <5>3, <5>6, <5>7 DEF TypeOK, Printout
        <5>9. PICK q : q = Printout
          OBVIOUS
        <5>10. PICK p \in Seq(Message) : p = paper
          BY <5>8
        <5>11. q = Append(p, Unmarked(m)) /\ m = Msg(d, r)
          BY <5>8, <5>9, <5>10
        <5>12. OnePage(p, q, Unmarked(m), d)
          BY <5>11, TornPage
        <5>13. \A e \in Client \ {d} : Of(e, q) = Of(e, p)
          BY <5>12 DEF OnePage
        <5> QED BY <2>4, <5>2, <5>9, <5>10, <5>13
      <4> QED BY <4>1, <4>2
    <3>2. CASE z < Taken[c] \/ link[c] # "torn"
      <4>1. z \in 0 .. Len(Script[c])
        BY <2>6, <2>7
      <4> QED BY <2>10, <3>1, <3>2, <4>1
    <3>3. CASE z = Taken[c] /\ link[c] = "torn"
      <4>1. CASE z = 0
        <5>1. \A k \in 1 .. z : s[k] = Msg(c, k)
          BY <4>1
        <5>2. s = Good(c, z) /\ z \in 0 .. Len(Script[c])
          BY <2>6, <2>7, <2>8, <2>9, <5>1
        <5> QED BY <3>1, <5>2
      <4>2. CASE z # 0
        <5>1. PICK n \in Nat : z = n + 1
          BY <4>2
        <5>2. \A k \in 1 .. n : s[k] = Msg(c, k)
          <6>1. n <= OnPaper[c] /\ n < Taken[c]
            BY <2>1, <3>3, <5>1
          <6> QED BY <2>0, <2>4, <6>1, GoodPages
        <5>3. SubSeq(s, 1, n) = Good(c, n)
          BY <2>8, <5>1, <5>2
        <5>4. IsPage(s[z], c, z)
          BY <2>0, <2>1, <2>4, <4>2 DEF PagesInv
        <5>5. CASE s[z] = Msg(c, z)
          <6>1. \A k \in 1 .. z : s[k] = Msg(c, k)
            BY <5>1, <5>2, <5>5
          <6>2. s = Good(c, z) /\ z \in 0 .. Len(Script[c])
            BY <2>6, <2>7, <2>8, <2>9, <6>1
          <6> QED BY <3>1, <6>2
        <5>6. CASE s[z] = Garbled(Msg(c, z))
          <6>1. PICK y : y = s[n + 1]
            OBVIOUS
          <6>2. s = Append(SubSeq(s, 1, n), y)
            BY <2>5, <5>1, <6>1
          <6>3. y = Garbled(Script[c][n + 1])
            BY <5>1, <5>6, <6>1 DEF Msg
          <6>4. n \in 0 .. Len(Script[c]) /\ n < Len(Script[c])
            BY <2>6, <2>7, <5>1
          <6>5. Of(c, Printout) = Append(Good(c, n), Garbled(Script[c][n + 1]))
            <7>1. s = Append(Good(c, n), y)
              BY <5>3, <6>2
            <7> QED BY <3>1, <6>3, <7>1
          <6>6. n < Len(Script[c]) /\ link[c] = "torn"
            BY <3>3, <6>4
          <6> QED BY <6>4, <6>5, <6>6
        <5> QED BY <5>4, <5>5, <5>6 DEF IsPage
      <4> QED BY <4>1, <4>2
    <3>4. (z < Taken[c] \/ link[c] # "torn") \/ (z = Taken[c] /\ link[c] = "torn")
      BY <2>2
    <3> QED BY <3>2, <3>3, <3>4
  <2> QED BY <2>11, <2>12
<1> QED BY <1>1, Messages, Invariance, PTL

(* Until it is printed, a message of a queue has its spool file, with its  *)
(* own text, or what was taken for it when its connection broke.           *)
THEOREM Spooled == ASSUME Distinct PROVE Spec => []SpooledUntilPrinted
<1>1. ASSUME IInv, MessageInv PROVE SpooledUntilPrinted
  <2>0. HandInv /\ SpoolInv
    BY <1>1 DEF MessageInv
  <2> SUFFICES ASSUME NEW i \in Comm, NEW k \in DOMAIN buf[i]
               PROVE  \/ spool[SpoolName(buf[i][k])] = buf[i][k].text
                      \/ /\ spool[SpoolName(buf[i][k])] = Damaged
                         /\ \E c \in Client : link[c] = "torn" /\ Carries(c, buf[i][k])
    BY DEF SpooledUntilPrinted
  <2>1. PICK b \in Seq(PrintMsg) : b = buf[i]
    BY <1>1, PartTypes DEF MessageInv
  <2>2. k \in 1 .. Len(b) /\ Len(b) \in Nat /\ Len(b) # 0
    BY <2>1
  <2>3. pc[Manager] # "rmdir"
    <3>1. b # <<>>
      BY <2>2
    <3> QED BY <1>1, <2>1, <3>1, Threads DEF IInv, DestroyedInv
  <2>4. PICK f \in Seq(PrintMsg) : f = AtFront(i)
    BY <1>1, PartTypes DEF MessageInv
  <2>5. PICK h \in Seq(PrintMsg) : h = InHand(i)
    BY <1>1, PartTypes DEF MessageInv
  <2>6. Lines[i] = LineOf(f, b, h)
    BY <2>1, <2>4, <2>5, LineIs
  <2>7. Len(LineOf(f, b, h)) = Len(f) + Len(b) + Len(h)
    BY LineType
  <2>8. \A n \in 1 .. Len(b) : LineOf(f, b, h)[Len(f) + n] = b[n]
    BY LinePlaces
  <2>9. Len(f) \in Nat /\ Len(h) \in Nat
    OBVIOUS
  <2>10. PICK l \in 1 .. Len(f) + Len(b) : l = Len(f) + k
    BY <2>2, <2>9
  <2>11. l \in 1 .. Len(Lines[i]) /\ Lines[i][l] = b[k]
    BY <2>2, <2>6, <2>7, <2>8, <2>9, <2>10
  <2>12. PICK all : all = ~Cancelled
    OBVIOUS
  <2>13. Lined(Lines, OnPaper, Taken, all)
    BY <1>1, <2>3, <2>12 DEF MessageInv, LinedInv
  <2>14. \E c \in Client : \E r \in 1 .. Size(c) :
           Lines[i][l] = Msg(c, r) /\ OnPaper[c] < r /\ r <= Taken[c]
    BY <2>11, <2>13, InListed
  <2>15. PICK c \in Client : \E r \in 1 .. Size(c) : Lines[i][l] = Msg(c, r)
    BY <2>14
  <2>16. PICK r \in 1 .. Size(c) : Lines[i][l] = Msg(c, r)
    BY <2>15
  <2>17. l \in 1 .. Len(AtFront(i)) + Len(buf[i])
    BY <2>1, <2>4, <2>10
  <2>18. \A j \in Comm : Lines[i][l] # item[j]
    BY <1>1, <2>0, <2>11, <2>13, <2>17, NotInHand
  <2>19. ~Unwritten(Msg(c, r)) /\ InLine(Lines, c, r)
    BY <2>11, <2>16, <2>18 DEF Unwritten, InLine
  <2>20. InFile(c, r)
    BY <2>0, <2>3, <2>19 DEF SpoolInv
  <2>21. buf[i][k] = Msg(c, r)
    BY <2>1, <2>11, <2>16
  <2>22. Carries(c, buf[i][k])
    BY <2>21, DataAssumption DEF Carries, Msg, Size
  <2> QED BY <2>20, <2>21, <2>22 DEF SpoolName, InFile, Broke
<1> QED BY <1>1, Messages, Invariance, PTL

-----------------------------------------------------------------------------
(* The service of PrintService.tla.                                        *)

(* PrintService and Printer mean the same by what is printed of one.       *)
LEMMA SamePages == ASSUME NEW c PROVE Service!Printed(c) = Of(c, Printout)
<1>1. \A m : Service!Carries(c, m) <=> Carries(c, m)
  BY DEF Service!Carries, Carries
<1>2. \A s : Service!FlattenSeq(s) = FlattenSeq(s)
  BY DEF Service!FlattenSeq, FlattenSeq
<1>3. PICK p : p = Printout
  OBVIOUS
<1>4. Service!Printed(c) =
        Service!FlattenSeq([k \in DOMAIN p |->
          IF Service!Carries(c, p[k]) THEN <<p[k]>> ELSE <<>>])
  BY <1>3 DEF Service!Printed
<1>5. [k \in DOMAIN p |-> IF Service!Carries(c, p[k]) THEN <<p[k]>> ELSE <<>>] =
      [k \in DOMAIN p |-> IF Carries(c, p[k]) THEN <<p[k]>> ELSE <<>>]
  BY <1>1
<1> QED BY <1>2, <1>3, <1>4, <1>5 DEF Of

(* The service is up, failing or down, ...                                 *)
LEMMA StateIs ==
  /\ status # "running" => ServiceState = "down"
  /\ status = "running" /\ (\E t \in Thread : again[t] # "no") => ServiceState = "failing"
  /\ status = "running" /\ ~(\E t \in Thread : again[t] # "no") => ServiceState = "up"
BY DEF ServiceState

(* ... after the step, too.                                                *)
LEMMA StateIsNext ==
  /\ status' # "running" => ServiceState' = "down"
  /\ status' = "running" /\ (\E t \in Thread : again'[t] # "no") => ServiceState' = "failing"
  /\ status' = "running" /\ ~(\E t \in Thread : again'[t] # "no") => ServiceState' = "up"
BY DEF ServiceState

(* The initial state of Printer is one of the service.                     *)
LEMMA ServiceInit == Init => Service!Init
<1> SUFFICES ASSUME Init PROVE Service!Init
  OBVIOUS
<1>1. /\ toSend = Script /\ paper = <<>> /\ torn = Nil /\ status = "running"
      /\ \A c \in Client : link[c] = "new"
      /\ \A t \in Thread : again[t] = "no"
  BY DEF Init
<1>2. \A c \in Client : Len(Script[c]) - Len(toSend[c]) = 0
  BY <1>1, LastType DEF Size
<1>3. Asked = [c \in Client |-> 0]
  BY <1>2 DEF Asked
<1>4. Broken = {} /\ Printout = <<>>
  BY <1>1 DEF Broken, Printout
<1>5. ServiceState = "up"
  BY <1>1, StateIs
<1> QED BY <1>3, <1>4, <1>5 DEF Service!Init

(* What a step does to what the computers see.                             *)
LEMMA ViewStep ==
  ASSUME TypeOK, [Next]_vars
  PROVE  \/ Rest
         \/ \E c \in Client : ClientSend(c)
         \/ \E t \in Thread : Caught(t)
         \/ UNCHANGED <<toSend, again>> /\ Broken' = Broken
<1>1. PICK K : link \in [Client -> K]
  BY DEF TypeOK
<1>2. ASSUME NEW c \in Client, Accept(c) PROVE UNCHANGED <<toSend, again>> /\ Broken' = Broken
  <2>1. /\ link[c] = "new" /\ link' = [link EXCEPT ![c] = "open"]
        /\ UNCHANGED <<toSend, again>>
    BY <1>2 DEF Accept
  <2>2. \A d \in Client : link'[d] \in {"reset", "torn"} <=> link[d] \in {"reset", "torn"}
    BY <1>1, <2>1
  <2> QED BY <2>1, <2>2 DEF Broken
<1>3. ASSUME NEW i \in Comm, CommRead(i)
      PROVE  UNCHANGED <<toSend, again>> /\ Broken' = Broken
  <2>1. /\ UNCHANGED link \/ TearLink(got[i])
        /\ UNCHANGED <<toSend, again>>
    BY <1>3 DEF CommRead
  <2>2. CASE UNCHANGED link
    BY <2>1, <2>2 DEF Broken
  <2>3. CASE TearLink(got[i])
    <3>1. \A d \in Client : link'[d] \in {"reset", "torn"} <=> link[d] \in {"reset", "torn"}
      BY <1>1, <2>3 DEF TearLink
    <3> QED BY <2>1, <3>1 DEF Broken
  <2> QED BY <2>1, <2>2, <2>3
<1>4. CASE \/ \E t \in Queue : Enqueue(t)
           \/ \E t \in Thread, q \in Queue : Takes(t, q) /\ Dequeue(t, q)
           \/ \E i \in Comm : WriteMsg(i) \/ CommDies(i)
           \/ PrinterMkdir \/ PrinterPrint \/ PrinterRemove
           \/ HandlerCancel \/ FinalCheckPrint \/ HandlerDestroy
  <2>1. UNCHANGED <<link, toSend, again>>
    BY <1>4 DEF Enqueue, Dequeue, WriteMsg, CommDies, PrinterMkdir,
       PrinterPrint, PrinterRemove, HandlerCancel, FinalCheckPrint, HandlerDestroy, Move,
       data, net
  <2> QED BY <2>1 DEF Broken
<1> QED BY <1>2, <1>3, <1>4, EventOrRest DEF Event

(* A further SIGINT makes the service fail.                                *)
LEMMA CaughtFails ==
  ASSUME TypeOK, NEW t \in Thread, Caught(t)
  PROVE  Service!Fail \/ UNCHANGED Service!vars
<1>1. again \in [Thread -> {"no", "wait_busy", "final_check"}]
  BY DEF TypeOK
<1>2. /\ UNCHANGED <<toSend, link, paper, torn>>
      /\ status = "running" /\ status' = "running"
  BY CaughtKeeps
<1>3. again'[t] # "no"
  BY <1>1 DEF Caught, SigintAgain, AgainWaitBusy
<1>4. ServiceState' = "failing"
  BY <1>2, <1>3, StateIsNext
<1>5. ServiceState \in {"up", "failing"}
  BY <1>2, StateIs
<1>6. Asked' = Asked /\ Printout' = Printout /\ Broken' = Broken
  BY <1>2 DEF Asked, Printout, Broken
<1> QED BY <1>4, <1>5, <1>6 DEF Service!Fail, Service!vars

(* A message is sent.                                                      *)
LEMMA SendAsks == ASSUME TypeOK, NEW c \in Client, ClientSend(c) PROVE Service!Ask(c)
<1>1. /\ status = "running" /\ toSend[c] # <<>>
      /\ toSend' = [toSend EXCEPT ![c] = Tail(@)]
      /\ UNCHANGED <<link, paper, torn, again, status>>
  BY DEF ClientSend, files
<1>2. PICK s \in Seq(PrintMsg) : s = toSend[c]
  BY DEF TypeOK
<1>3. s # <<>> /\ toSend' = [toSend EXCEPT ![c] = Tail(s)]
  BY <1>1, <1>2
<1>4. Len(Tail(s)) = Len(s) - 1 /\ Len(s) \in Nat /\ Len(s) # 0
  BY <1>3
<1>5. PICK D : toSend \in [Client -> D]
  BY DEF TypeOK
<1>6. Size(c) \in Nat
  BY LastType
<1>7. Asked[c] = Size(c) - Len(s)
  BY <1>2 DEF Asked, Size
<1>8. Asked' = [Asked EXCEPT ![c] = @ + 1]
  <2>1. Asked'[c] = Size(c) - Len(Tail(s))
    BY <1>3, <1>5 DEF Asked, Size
  <2>2. Asked'[c] = Asked[c] + 1
    BY <1>4, <1>6, <1>7, <2>1
  <2>3. \A d \in Client \ {c} : Asked'[d] = Asked[d]
    BY <1>3, <1>5 DEF Asked
  <2> QED BY <2>2, <2>3 DEF Asked
<1>9. Asked[c] < Len(Script[c])
  BY <1>4, <1>6, <1>7 DEF Size
<1>10. ServiceState # "down"
  BY <1>1, StateIs
<1>11. Printout' = Printout /\ Broken' = Broken /\ ServiceState' = ServiceState
  BY <1>1 DEF Printout, Broken, ServiceState
<1> QED BY <1>8, <1>9, <1>10, <1>11 DEF Service!Ask

(* A page may come when a message has been read that is not on paper.      *)
LEMMA PageDue ==
  ASSUME TypeOK, NetInv, PagesInv, torn = Nil, status = "running",
         NEW c \in Client, OnPaper[c] < Taken[c]
  PROVE  Service!Due(c) /\ Service!Page(c) = Msg(c, OnPaper[c] + 1)
<1>1. PICK n \in Nat : n = OnPaper[c]
  BY OnPaperType DEF OnPaperOK
<1>2. PICK y \in Nat : y = Taken[c]
  BY TakenType DEF TakenOK
<1>3. Printout = paper
  BY DEF Printout
<1>4. PICK s : s = Of(c, paper)
  OBVIOUS
<1>5. Service!Printed(c) = s /\ Len(s) = n
  BY <1>1, <1>3, <1>4, SamePages DEF OnPaper
<1>6. Size(c) \in Nat /\ y <= Size(c) /\ y <= Asked[c] /\ Asked[c] \in Int
  <2>1. Len(toSend[c]) \in Nat /\ Len(sock[c]) \in Nat
    <3>1. toSend[c] \in Seq(PrintMsg) /\ sock[c] \in Seq(PrintMsg)
      BY DEF TypeOK
    <3> QED BY <3>1
  <2>2. Asked[c] = Size(c) - Len(toSend[c])
    BY DEF Asked, Size
  <2> QED BY <1>2, <2>1, <2>2, TakenIs, LastType
<1>7. n < Asked[c]
  BY <1>1, <1>2, <1>6
<1>8. \A k \in 1 .. n : s[k] = Msg(c, k)
  BY <1>1, <1>4, GoodPages
<1>9. DOMAIN s = 1 .. n
  <2>1. paper \in Seq(Message)
    BY DEF TypeOK
  <2>2. PICK u \in Seq(Message) : u = s
    BY <1>4, <2>1, OfType
  <2> QED BY <1>5, <2>2
<1>10. \A k \in DOMAIN s : s[k].text # Damaged
  <2> SUFFICES ASSUME NEW k \in 1 .. n PROVE s[k].text # Damaged
    BY <1>9
  <2>1. k \in 1 .. Size(c)
    BY <1>1, <1>2, <1>6
  <2>2. Msg(c, k).text \in Text
    BY <2>1, MsgType
  <2> QED BY <1>8, <2>2, DataAssumption
<1>11. ServiceState # "down"
  BY StateIs
<1> QED BY <1>1, <1>5, <1>7, <1>10, <1>11 DEF Service!Due, Service!Page, Msg

(* A step of Printer is one of the service, or nothing the service sees.   *)
LEMMA ServiceStep ==
  ASSUME Distinct, IInv, MessageInv, [Next]_vars, IInv', HandInv'
  PROVE  [Service!Next]_(Service!vars)
<1>0. TypeOK /\ NetInv /\ PagesInv /\ CutInv
  BY DEF IInv, MessageInv
<1>1. ASSUME UNCHANGED <<toSend, paper, torn, again, status>>, Broken' = Broken
      PROVE  UNCHANGED Service!vars
  BY <1>1 DEF Service!vars, Asked, Printout, ServiceState
<1>2. CASE status # "running"
  <2>1. Rest
    BY <1>0, <1>2, EventOrRest, EventRuns
  <2>2. UNCHANGED <<toSend, paper, torn, again, status>> /\ Broken' = Broken
    BY <1>2, <2>1 DEF Rest, PageCut, ClientReset
  <2> QED BY <1>1, <2>2
<1>3. CASE status = "running"
  <2>1. torn = Nil /\ Printout = paper /\ ServiceState # "down"
    BY <1>0, <1>3, StateIs DEF CutInv, Printout
  <2>2. CASE \E c \in Client : ClientSend(c)
    BY <1>0, <2>2, SendAsks DEF Service!Next
  <2>3. CASE \E t \in Thread : Caught(t)
    BY <1>0, <2>3, CaughtFails DEF Service!Next
  <2>4. ASSUME UNCHANGED <<toSend, again, paper>>, Broken' = Broken, torn' = torn
        PROVE  Service!Stop \/ UNCHANGED Service!vars
    <3>1. Asked' = Asked /\ Printout' = Printout
      BY <2>4 DEF Asked, Printout
    <3>2. CASE status' = "running"
      BY <1>1, <1>3, <2>4, <3>2
    <3>3. CASE status' # "running"
      BY <2>1, <2>4, <3>1, <3>3, StateIsNext DEF Service!Stop
    <3> QED BY <3>2, <3>3
  <2>5. ASSUME NEW c \in Client, PagePrinted(c), UNCHANGED <<toSend, again>>,
               Broken' = Broken, torn' = torn
        PROVE  Service!PutOnPaper(c) \/ Service!Garble(c)
    <3>1. Service!Due(c) /\ Service!Page(c) = Msg(c, OnPaper[c] + 1)
      BY <1>0, <1>3, <2>1, <2>5, PageDue DEF PagePrinted
    <3>2. PICK x : IsPage(x, c, OnPaper[c] + 1) /\ paper' = Append(paper, x)
      BY <2>5 DEF PagePrinted
    <3>3. Asked' = Asked /\ ServiceState' = ServiceState /\ Printout' = paper'
      BY <2>1, <2>5 DEF Asked, ServiceState, Printout, PagePrinted
    <3>4. PICK y : y = Service!Page(c)
      OBVIOUS
    <3>5. CASE x = y
      BY <2>1, <2>5, <3>1, <3>2, <3>3, <3>4, <3>5 DEF Service!PutOnPaper
    <3>6. CASE x = Garbled(y) /\ link[c] = "torn"
      <4>1. c \in Broken
        BY <3>6 DEF Broken
      <4> QED BY <2>1, <2>5, <3>1, <3>2, <3>3, <3>4, <3>6, <4>1 DEF Service!Garble, Garbled
    <3> QED BY <3>1, <3>2, <3>4, <3>5, <3>6 DEF IsPage, Broke
  <2>6. ASSUME UNCHANGED <<toSend, again>>, Broken' = Broken, torn' = torn
        PROVE  Service!Next \/ UNCHANGED Service!vars
    BY <2>4, <2>5, <2>6, PaperStep DEF Service!Next
  <2>7. CASE Rest
    <3>1. UNCHANGED <<toSend, paper, again>>
      BY <2>7 DEF Rest
    <3>2. ASSUME NEW c \in Client, ClientReset(c) PROVE Service!Break(c)
      <4>1. /\ link' = [link EXCEPT ![c] = "reset"]
            /\ UNCHANGED <<toSend, paper, torn, again, status>>
        BY <3>2 DEF ClientReset, files
      <4>2. PICK K : link \in [Client -> K]
        BY <1>0 DEF TypeOK
      <4>3. link[c] = "open"
        BY <3>2 DEF ClientReset
      <4>4. \A d \in Client : link'[d] \in {"reset", "torn"} <=>
                               (link[d] \in {"reset", "torn"} \/ d = c)
        BY <4>1, <4>2
      <4>5. Broken' = Broken \union {c}
        BY <4>4 DEF Broken
      <4>6. Asked' = Asked /\ Printout' = Printout /\ ServiceState' = ServiceState
        BY <4>1 DEF Asked, Printout, ServiceState
      <4> QED BY <2>1, <4>5, <4>6 DEF Service!Break
    <3>3. CASE Broken' = Broken /\ torn' = torn
      BY <2>6, <3>1, <3>3
    <3>4. CASE Broken' = Broken /\ PageCut
      <4>1. PICK m \in PrintMsg : PageUnderWay(m) /\ torn' = m
        BY <3>4 DEF PageCut
      <4>2. PICK c \in Client : OnPaper[c] < Taken[c] /\ m = Msg(c, OnPaper[c] + 1)
        BY <4>1, UnderWay DEF NextPage
      <4>3. Service!Due(c) /\ Service!Page(c) = m
        BY <1>0, <1>3, <2>1, <4>2, PageDue
      <4>4. m # Nil
        BY DataAssumption
      <4>5. Printout' = Append(paper, Unmarked(m)) /\ Asked' = Asked
        BY <3>1, <4>1, <4>4 DEF Printout, Asked
      <4>6. ServiceState' = "down"
        BY <3>4, StateIsNext DEF PageCut
      <4>7. Service!CutPage(c)
        BY <2>1, <4>3, <4>5 DEF Service!CutPage, Unmarked
      <4> QED BY <2>1, <3>4, <4>5, <4>6, <4>7 DEF Service!Stop, Service!Next
    <3>5. CASE \E c \in Client : ClientReset(c)
      BY <3>2, <3>5 DEF Service!Next
    <3> QED BY <2>7, <3>3, <3>4, <3>5 DEF Rest
  <2>8. CASE Event /\ UNCHANGED <<toSend, again>> /\ Broken' = Broken
    BY <2>6, <2>8, EventRuns
  <2> QED BY <1>0, <2>2, <2>3, <2>7, <2>8, ViewStep, EventOrRest
<1> QED BY <1>2, <1>3

(* The printer does what PrintService.tla promises, liveness apart: each   *)
(* page is the next message of its connection, printed once, and while the *)
(* process is there; only the last page of a connection that broke, and    *)
(* the one under way when the process ends, may be wrong.                  *)
THEOREM Serves ==
  ASSUME Distinct PROVE Spec => Service!Init /\ [][Service!Next]_(Service!vars)
<1>1. IInv /\ MessageInv /\ [Next]_vars => [Service!Next]_(Service!vars)
  <2> SUFFICES ASSUME IInv, MessageInv, [Next]_vars PROVE [Service!Next]_(Service!vars)
    OBVIOUS
  <2>1. IInv' /\ HandInv'
    BY IInvStep, HandStep DEF MessageInv
  <2> QED BY <2>1, ServiceStep
<1> QED BY <1>1, Messages, Invariance, ServiceInit, PTL DEF Spec

-----------------------------------------------------------------------------
(* Exactly once: where all the messages of a connection are.               *)

(* A sequence without its last element.                                    *)
LEMMA LastOff ==
  ASSUME NEW T, NEW t \in Seq(T), NEW n \in Nat, Len(t) = n + 1
  PROVE  \E s \in Seq(T) : \E x \in T :
           /\ t = Append(s, x) /\ Len(s) = n /\ x = t[n + 1]
           /\ \A k \in 1 .. n : s[k] = t[k]
<1> DEFINE s == [k \in 1 .. n |-> t[k]]
<1>1. \A k \in 1 .. n + 1 : t[k] \in T
  OBVIOUS
<1>2. \A k \in 1 .. n : k \in 1 .. n + 1
  OBVIOUS
<1>3. s \in Seq(T) /\ Len(s) = n /\ \A k \in 1 .. n : s[k] = t[k]
  BY <1>1, <1>2
<1>4. PICK u \in Seq(T) : u = s
  BY <1>3
<1>5. PICK x \in T : x = t[n + 1]
  BY <1>1
<1>6. Len(u) = n /\ \A k \in 1 .. n : u[k] = t[k]
  BY <1>3, <1>4
<1> HIDE DEF s
<1>7. t = Append(u, x)
  BY <1>5, <1>6
<1> QED BY <1>5, <1>6, <1>7

(* Of and concatenation.                                                   *)
LEMMA ConcatIn ==
  ASSUME NEW T, NEW s \in Seq(T), NEW u \in Seq(T) PROVE s \o u \in Seq(T)
OBVIOUS

(* What a concatenation has of a connection is what its parts have of it.  *)
LEMMA OfConcat ==
  ASSUME NEW c, NEW T, NEW s \in Seq(T)
  PROVE  \A t \in Seq(T) : Of(c, s \o t) = Of(c, s) \o Of(c, t)
<1>0. ASSUME NEW p \in Seq(T), NEW y \in T PROVE Append(s \o p, y) = s \o Append(p, y)
  OBVIOUS
<1> DEFINE G == {n \in Nat : \A t \in Seq(T) : Len(t) = n =>
                               Of(c, s \o t) = Of(c, s) \o Of(c, t)}
<1>1. PICK a \in Seq(T) : a = Of(c, s)
  BY OfType
<1>2. 0 \in G
  <2> SUFFICES ASSUME NEW t \in Seq(T), Len(t) = 0 PROVE Of(c, s \o t) = a \o Of(c, t)
    BY <1>1
  <2>1. t = <<>> /\ s \o <<>> = s /\ a \o <<>> = a
    OBVIOUS
  <2> QED BY <1>1, <2>1, OfNone
<1>3. ASSUME NEW n \in Nat, n \in G PROVE n + 1 \in G
  <2> SUFFICES ASSUME NEW t \in Seq(T), Len(t) = n + 1 PROVE Of(c, s \o t) = a \o Of(c, t)
    BY <1>1
  <2>1. PICK u \in Seq(T) : \E x \in T :
          /\ t = Append(u, x) /\ Len(u) = n /\ x = t[n + 1]
          /\ \A k \in 1 .. n : u[k] = t[k]
    BY LastOff
  <2>2. PICK x \in T : t = Append(u, x) /\ Len(u) = n
    BY <2>1
  <2>3. PICK v \in Seq(T) : v = s \o u
    BY ConcatIn
  <2>4. Append(v, x) = s \o t
    <3>1. Append(s \o u, x) = s \o Append(u, x)
      BY <1>0, Zenon
    <3> QED BY <2>2, <2>3, <3>1, Zenon
  <2>5. LET r == Append(v, x) IN Of(c, r) = Of(c, v) \o Own(c, x)
    BY OfAppend
  <2>6. LET r == Append(u, x) IN Of(c, r) = Of(c, u) \o Own(c, x)
    BY OfAppend
  <2>7. PICK o \in Seq(T) : o = Own(c, x)
    BY OwnType
  <2>8. PICK b \in Seq(T) : b = Of(c, u)
    BY OfType
  <2>9. Of(c, v) = a \o b
    BY <1>1, <1>3, <2>2, <2>3, <2>8
  <2>10. Of(c, s \o t) = (a \o b) \o o
    BY <2>4, <2>5, <2>7, <2>9
  <2>11. Of(c, t) = b \o o
    BY <2>2, <2>6, <2>7, <2>8
  <2>12. (a \o b) \o o = a \o (b \o o)
    OBVIOUS
  <2> QED BY <2>10, <2>11, <2>12
<1> HIDE DEF G
<1>4. Nat \subseteq G
  BY <1>2, <1>3, NatSetInduction
<1> SUFFICES ASSUME NEW t \in Seq(T) PROVE Of(c, s \o t) = Of(c, s) \o Of(c, t)
  OBVIOUS
<1>5. Len(t) \in G
  BY <1>4
<1> QED BY <1>5 DEF G

(* u has the messages of c after number a, as far as number b.             *)
IsPart(u, c, a, b) == Len(u) = b - a /\ \A k \in 1 .. Len(u) : u[k] = Msg(c, a + k)

(* The first n of s have those, among others.                              *)
Has(s, c, a, b, n) ==
  \A r \in 1 .. Size(c) : (\E k \in 1 .. n : s[k] = Msg(c, r)) <=> a < r /\ r <= b

(* s has messages of c between a and b, in order and with no gap.          *)
Runs(s, c, a, b) ==
  /\ \A k \in 1 .. Len(s) : ~Carries(c, s[k]) \/ \E r \in 1 .. Size(c) : s[k] = Msg(c, r)
  /\ \A k \in 1 .. Len(s) : \A r \in 1 .. Size(c) :
       s[k] = Msg(c, r) =>
         /\ a < r /\ r <= b
         /\ \A t \in 1 .. Size(c) :
              a < t /\ t < r => \E l \in 1 .. Len(s) : s[l] = Msg(c, t)
  /\ \A k \in 1 .. Len(s) : \A l \in 1 .. Len(s) :
       \A r \in 1 .. Size(c) : \A t \in 1 .. Size(c) :
         s[k] = Msg(c, r) /\ s[l] = Msg(c, t) => (r < t <=> k < l)

(* The next one of c in such a sequence is the next message.               *)
LEMMA RunsNext ==
  ASSUME NEW c \in Client, NEW s \in Seq(PrintMsg), NEW a \in Nat, NEW b \in Nat,
         b <= Size(c), Runs(s, c, a, b), NEW n \in Nat, n + 1 \in 1 .. Len(s),
         NEW m \in Nat, a <= m, Has(s, c, a, m, n),
         NEW r \in 1 .. Size(c), s[n + 1] = Msg(c, r)
  PROVE  r = m + 1 /\ r <= b
<1>1. a < r /\ r <= b
  BY DEF Runs
<1>2. ASSUME r <= m PROVE FALSE
  <2>1. PICK k \in 1 .. n : s[k] = Msg(c, r)
    BY <1>1, <1>2 DEF Has
  <2>2. k \in 1 .. Len(s) /\ k < n + 1
    OBVIOUS
  <2>3. r < r <=> k < n + 1
    BY <2>1, <2>2 DEF Runs
  <2> QED BY <2>2, <2>3
<1>3. ASSUME m + 1 < r PROVE FALSE
  <2>1. PICK t \in 1 .. Size(c) : t = m + 1
    BY <1>3, LastType
  <2>2. a < t /\ t < r
    BY <1>3, <2>1
  <2>3. PICK l \in 1 .. Len(s) : s[l] = Msg(c, t)
    BY <2>2 DEF Runs
  <2>4. t < r <=> l < n + 1
    BY <2>3 DEF Runs
  <2>5. l \in 1 .. n
    BY <2>2, <2>4
  <2>6. t <= m
    BY <2>3, <2>5 DEF Has
  <2> QED BY <2>1, <2>6
<1> QED BY <1>1, <1>2, <1>3

(* What such a sequence has of c.                                          *)
LEMMA PartOf ==
  ASSUME Distinct, NEW c \in Client, NEW s \in Seq(PrintMsg), NEW a \in Nat, NEW b \in Nat,
         a <= b, b <= Size(c), Runs(s, c, a, b)
  PROVE  \E m \in a .. b : IsPart(Of(c, s), c, a, m) /\ Has(s, c, a, m, Len(s))
<1> DEFINE Good(t, n) == \E m \in a .. b : IsPart(Of(c, t), c, a, m) /\ Has(s, c, a, m, n)
           G == {n \in Nat : n <= Len(s) =>
                   \A t \in Seq(PrintMsg) :
                     Len(t) = n /\ (\A k \in 1 .. n : t[k] = s[k]) => Good(t, n)}
<1>1. 0 \in G
  <2> SUFFICES ASSUME NEW t \in Seq(PrintMsg), Len(t) = 0 PROVE Good(t, 0)
    OBVIOUS
  <2>1. t = <<>>
    OBVIOUS
  <2>2. Of(c, t) = <<>> /\ Len(<<>>) = 0
    BY <2>1, OfNone
  <2>3. IsPart(Of(c, t), c, a, a)
    BY <2>2 DEF IsPart
  <2>4. Has(s, c, a, a, 0)
    BY DEF Has
  <2> QED BY <2>3, <2>4
<1>2. ASSUME NEW n \in Nat, n \in G PROVE n + 1 \in G
  <2> SUFFICES ASSUME n + 1 <= Len(s), NEW t \in Seq(PrintMsg), Len(t) = n + 1,
                      \A k \in 1 .. n + 1 : t[k] = s[k]
               PROVE  Good(t, n + 1)
    OBVIOUS
  <2>1. PICK u \in Seq(PrintMsg) : \E x \in PrintMsg :
          /\ t = Append(u, x) /\ Len(u) = n /\ x = t[n + 1]
          /\ \A k \in 1 .. n : u[k] = t[k]
    BY LastOff
  <2>2. PICK x \in PrintMsg : /\ t = Append(u, x) /\ Len(u) = n /\ x = t[n + 1]
                              /\ \A k \in 1 .. n : u[k] = t[k]
    BY <2>1
  <2>3. n + 1 \in 1 .. Len(s) /\ x = s[n + 1] /\ \A k \in 1 .. n : u[k] = s[k]
    <3>1. n + 1 \in 1 .. Len(s) /\ n + 1 \in 1 .. n + 1 /\ \A k \in 1 .. n : k \in 1 .. n + 1
      OBVIOUS
    <3> QED BY <2>2, <3>1, SMTT(30)
  <2>4. Good(u, n)
    BY <1>2, <2>2, <2>3
  <2> HIDE DEF G
  <2>5. PICK m \in a .. b : IsPart(Of(c, u), c, a, m) /\ Has(s, c, a, m, n)
    BY <2>4
  <2>6. LET w == Append(u, x) IN Of(c, w) = Of(c, u) \o Own(c, x)
    BY OfAppend
  <2>7. Of(c, t) = Of(c, u) \o Own(c, x)
    BY <2>2, <2>6, Zenon
  <2>8. PICK v \in Seq(PrintMsg) : v = Of(c, u)
    BY OfType
  <2>9. CASE ~Carries(c, x)
    <3>1. Of(c, t) = v
      <4>1. v \o <<>> = v
        OBVIOUS
      <4> QED BY <2>7, <2>8, <2>9, <4>1 DEF Own
    <3>2. \A r \in 1 .. Size(c) : s[n + 1] # Msg(c, r)
      BY <2>3, <2>9, CarriedBy
    <3>3. Has(s, c, a, m, n + 1)
      <4> SUFFICES ASSUME NEW r \in 1 .. Size(c)
                   PROVE  (\E k \in 1 .. n + 1 : s[k] = Msg(c, r)) <=> a < r /\ r <= m
        BY DEF Has
      <4>1. (\E k \in 1 .. n : s[k] = Msg(c, r)) <=> a < r /\ r <= m
        BY <2>5 DEF Has
      <4>2. \A k \in 1 .. n + 1 : k \in 1 .. n \/ k = n + 1
        OBVIOUS
      <4>3. \A k \in 1 .. n : k \in 1 .. n + 1
        OBVIOUS
      <4> QED BY <3>2, <4>1, <4>2, <4>3
    <3> QED BY <2>5, <2>8, <3>1, <3>3
  <2>10. CASE Carries(c, x)
    <3>1. PICK r \in 1 .. Size(c) : s[n + 1] = Msg(c, r)
      BY <2>3, <2>10 DEF Runs
    <3>2. r = m + 1 /\ r <= b
      BY <2>3, <2>5, <3>1, RunsNext
    <3>3. AtEnd(v, v \o <<x>>, x)
      BY DEF AtEnd
    <3>4. Of(c, t) = v \o <<x>>
      BY <2>7, <2>8, <2>10 DEF Own
    <3>5. PICK w : w = Of(c, t)
      OBVIOUS
    <3>6. /\ Len(w) = Len(v) + 1 /\ w[Len(v) + 1] = x
          /\ \A k \in 1 .. Len(v) : w[k] = v[k]
      BY <3>3, <3>4, <3>5 DEF AtEnd
    <3>7. /\ Len(v) = m - a /\ Len(v) \in Nat
          /\ \A k \in 1 .. Len(v) : v[k] = Msg(c, a + k)
      BY <2>5, <2>8 DEF IsPart
    <3>8. a + (Len(v) + 1) = r
      BY <3>2, <3>7
    <3>9. IsPart(w, c, a, r)
      <4>1. Len(w) = r - a
        BY <3>2, <3>6, <3>7
      <4>2. ASSUME NEW k \in 1 .. Len(w) PROVE w[k] = Msg(c, a + k)
        <5>1. k \in 1 .. Len(v) \/ k = Len(v) + 1
          BY <3>6, <3>7
        <5> QED BY <2>3, <3>1, <3>6, <3>7, <3>8, <5>1
      <4> QED BY <4>1, <4>2 DEF IsPart
    <3>10. Has(s, c, a, r, n + 1)
      <4> SUFFICES ASSUME NEW q \in 1 .. Size(c)
                   PROVE  (\E k \in 1 .. n + 1 : s[k] = Msg(c, q)) <=> a < q /\ q <= r
        BY DEF Has
      <4>1. (\E k \in 1 .. n : s[k] = Msg(c, q)) <=> a < q /\ q <= m
        BY <2>5 DEF Has
      <4>2. \A k \in 1 .. n + 1 : k \in 1 .. n \/ k = n + 1
        OBVIOUS
      <4>3. \A k \in 1 .. n : k \in 1 .. n + 1
        OBVIOUS
      <4>4. s[n + 1] = Msg(c, q) <=> q = r
        BY <3>1, Unique
      <4>5. (a < q /\ q <= r) <=> (a < q /\ q <= m) \/ q = r
        BY <3>2
      <4>6. n + 1 \in 1 .. n + 1
        OBVIOUS
      <4>7. (\E k \in 1 .. n + 1 : s[k] = Msg(c, q)) <=>
              (\E k \in 1 .. n : s[k] = Msg(c, q)) \/ s[n + 1] = Msg(c, q)
        BY <4>2, <4>3, <4>6
      <4> QED BY <4>1, <4>4, <4>5, <4>7
    <3>11. r \in a .. b
      BY <3>2
    <3> QED BY <3>5, <3>9, <3>10, <3>11
  <2> QED BY <2>9, <2>10
<1> HIDE DEF G
<1>3. Nat \subseteq G
  BY <1>1, <1>2, NatSetInduction
<1>4. Len(s) \in G /\ Len(s) \in Nat
  BY <1>3
<1>5. Good(s, Len(s))
  BY <1>4 DEF G
<1> QED BY <1>5

(* A line is such a sequence.                                              *)
LEMMA LineRuns ==
  ASSUME Distinct, NEW L, NEW P, NEW R, NEW all, Lined(L, P, R, all),
         NEW i \in Comm, NEW c \in Client
  PROVE  Runs(L[i], c, P[c], R[c])
<1>0. /\ Counts(L, P, R) /\ Listed(L, P, R) /\ Ordered(L) /\ NoGap(L, P, R, all)
      /\ P[c] \in Nat /\ R[c] \in Nat
  BY DEF Lined, Counts
<1>1. ASSUME NEW k \in 1 .. Len(L[i])
      PROVE  ~Carries(c, L[i][k]) \/ \E r \in 1 .. Size(c) : L[i][k] = Msg(c, r)
  <2>1. PICK d \in Client : \E r \in 1 .. Size(d) :
          L[i][k] = Msg(d, r) /\ P[d] < r /\ r <= R[d]
    BY InListed
  <2>2. PICK r \in 1 .. Size(d) : L[i][k] = Msg(d, r)
    BY <2>1
  <2>3. Carries(c, L[i][k]) => c = d
    BY <2>2, CarriedBy
  <2> QED BY <2>2, <2>3
<1>2. ASSUME NEW k \in 1 .. Len(L[i]), NEW r \in 1 .. Size(c), L[i][k] = Msg(c, r)
      PROVE  /\ P[c] < r /\ r <= R[c]
             /\ \A t \in 1 .. Size(c) : P[c] < t /\ t < r =>
                  \E l \in 1 .. Len(L[i]) : L[i][l] = Msg(c, t)
  <2>1. r \in P[c] + 1 .. R[c]
    BY <1>0, <1>2, ListedAt
  <2>2. P[c] < r /\ r <= R[c]
    BY <1>0, <2>1
  <2>3. InLine(L, c, r)
    BY <1>2 DEF InLine
  <2>4. r \in P[c] + 1 .. R[c] + 1 /\ r # R[c] + 1
    BY <1>0, <2>2
  <2>5. \A t \in P[c] + 1 .. r - 1 : InLine(L, c, t)
    BY <1>0, <2>3, <2>4 DEF NoGap
  <2>6. ASSUME NEW t \in 1 .. Size(c), P[c] < t, t < r
        PROVE  \E l \in 1 .. Len(L[i]) : L[i][l] = Msg(c, t)
    <3>1. t \in P[c] + 1 .. r - 1
      BY <1>0, <2>6
    <3>2. PICK j \in Comm : \E l \in 1 .. Len(L[j]) : L[j][l] = Msg(c, t)
      BY <2>5, <3>1 DEF InLine
    <3>3. PICK l \in 1 .. Len(L[j]) : L[j][l] = Msg(c, t)
      BY <3>2
    <3>4. j = i
      BY <1>0, <1>2, <3>3, OrderedAt
    <3> QED BY <3>3, <3>4
  <2> QED BY <2>2, <2>6
<1>3. ASSUME NEW k \in 1 .. Len(L[i]), NEW l \in 1 .. Len(L[i]),
             NEW r \in 1 .. Size(c), NEW t \in 1 .. Size(c),
             L[i][k] = Msg(c, r), L[i][l] = Msg(c, t)
      PROVE  r < t <=> k < l
  BY <1>0, <1>3, OrderedAt
<1> QED BY <1>1, <1>2, <1>3 DEF Runs

(* A line has consecutive messages of a connection, and no other.          *)
LEMMA LineParts ==
  ASSUME Distinct, NEW L, NEW P, NEW R, NEW all, Lined(L, P, R, all),
         NEW i \in Comm, NEW c \in Client
  PROVE  \E m \in P[c] .. R[c] :
           IsPart(Of(c, L[i]), c, P[c], m) /\ Has(L[i], c, P[c], m, Len(L[i]))
<1>1. PICK s \in Seq(PrintMsg) : s = L[i]
  BY DEF Lined, Counts
<1>2. P[c] \in Nat /\ R[c] \in Nat /\ P[c] <= R[c] /\ R[c] <= Size(c)
  BY DEF Lined, Counts
<1>3. Runs(s, c, P[c], R[c])
  BY <1>1, LineRuns
<1>4. \E m \in P[c] .. R[c] : IsPart(Of(c, s), c, P[c], m) /\ Has(s, c, P[c], m, Len(s))
  BY <1>2, <1>3, PartOf
<1> QED BY <1>1, <1>4

(* When nothing is lost, what has been read of a connection and not been   *)
(* printed is all in one line.                                             *)
LEMMA OneLine ==
  ASSUME Distinct, NEW L, NEW P, NEW R, Lined(L, P, R, TRUE), NEW c \in Client
  PROVE  \E i \in Comm :
           /\ IsPart(Of(c, L[i]), c, P[c], R[c])
           /\ \A j \in Comm \ {i} : Of(c, L[j]) = <<>>
<1>0. PICK all : all = TRUE
  OBVIOUS
<1>1. Lined(L, P, R, all)
  BY <1>0
<1>2. /\ P[c] \in Nat /\ R[c] \in Nat /\ P[c] <= R[c] /\ R[c] <= Size(c)
      /\ L \in [Comm -> Seq(PrintMsg)] /\ Ordered(L) /\ NoGap(L, P, R, all)
      /\ Size(c) \in Nat
  BY <1>1, LastType DEF Lined, Counts
<1>3. ASSUME NEW j \in Comm, IsPart(Of(c, L[j]), c, P[c], P[c]) PROVE Of(c, L[j]) = <<>>
  <2>1. PICK s \in Seq(PrintMsg) : s = Of(c, L[j])
    BY <1>2, OfType
  <2>2. Len(s) = 0
    BY <1>2, <1>3, <2>1 DEF IsPart
  <2>3. s = <<>>
    BY <2>2
  <2> QED BY <2>1, <2>3
<1>4. CASE P[c] = R[c]
  <2>1. \A j \in Comm : IsPart(Of(c, L[j]), c, P[c], P[c])
    <3> SUFFICES ASSUME NEW j \in Comm PROVE IsPart(Of(c, L[j]), c, P[c], P[c])
      OBVIOUS
    <3>1. PICK m \in P[c] .. R[c] : IsPart(Of(c, L[j]), c, P[c], m)
      BY <1>1, LineParts
    <3>2. m = P[c]
      BY <1>2, <1>4
    <3> QED BY <3>1, <3>2
  <2>2. PICK i \in Comm : i = 1
    BY Threads
  <2> QED BY <1>3, <1>4, <2>1, <2>2
<1>5. CASE P[c] < R[c]
  <2>1. PICK r \in 1 .. Size(c) : r = R[c]
    BY <1>2, <1>5
  <2>2. InLine(L, c, r)
    <3>1. R[c] + 1 \in P[c] + 1 .. R[c] + 1
      BY <1>2
    <3>2. \A s \in P[c] + 1 .. R[c] + 1 - 1 : InLine(L, c, s)
      BY <1>0, <1>2, <3>1 DEF NoGap
    <3>3. r \in P[c] + 1 .. R[c] + 1 - 1
      BY <1>2, <1>5, <2>1
    <3> QED BY <3>2, <3>3
  <2>3. PICK i \in Comm : \E k \in 1 .. Len(L[i]) : L[i][k] = Msg(c, r)
    BY <2>2 DEF InLine
  <2>4. PICK k \in 1 .. Len(L[i]) : L[i][k] = Msg(c, r)
    BY <2>3
  <2>5. IsPart(Of(c, L[i]), c, P[c], R[c])
    <3>1. PICK m \in P[c] .. R[c] :
            IsPart(Of(c, L[i]), c, P[c], m) /\ Has(L[i], c, P[c], m, Len(L[i]))
      BY <1>1, LineParts
    <3>2. r <= m
      BY <2>4, <3>1 DEF Has
    <3>3. m = R[c]
      BY <1>2, <2>1, <3>2
    <3> QED BY <3>1, <3>3
  <2>6. ASSUME NEW j \in Comm \ {i} PROVE Of(c, L[j]) = <<>>
    <3>1. PICK m \in P[c] .. R[c] :
            IsPart(Of(c, L[j]), c, P[c], m) /\ Has(L[j], c, P[c], m, Len(L[j]))
      BY <1>1, LineParts
    <3>2. m = P[c]
      <4> SUFFICES ASSUME m # P[c] PROVE FALSE
        OBVIOUS
      <4>1. PICK q \in 1 .. Size(c) : q = m
        BY <1>2
      <4>2. P[c] < q /\ q <= m
        BY <1>2, <4>1
      <4>3. PICK l \in 1 .. Len(L[j]) : L[j][l] = Msg(c, q)
        BY <3>1, <4>2 DEF Has
      <4>4. i = j
        BY <1>2, <2>4, <4>3, OrderedAt
      <4> QED BY <4>4
    <3> QED BY <1>3, <3>1, <3>2
  <2> QED BY <2>5, <2>6
<1> QED BY <1>2, <1>4, <1>5

(* One part after another; all of them.                                    *)
LEMMA PartJoin ==
  ASSUME NEW c, NEW T, NEW u \in Seq(T), NEW v \in Seq(T),
         NEW a \in Nat, NEW b \in Nat, NEW d \in Nat,
         IsPart(u, c, a, b), IsPart(v, c, b, d), NEW w, w = u \o v
  PROVE  IsPart(w, c, a, d)
<1>1. /\ Len(u) = b - a /\ Len(u) \in Nat /\ Len(v) = d - b /\ Len(v) \in Nat
      /\ \A k \in 1 .. Len(u) : u[k] = Msg(c, a + k)
      /\ \A k \in 1 .. Len(v) : v[k] = Msg(c, b + k)
  BY DEF IsPart
<1>3. /\ Len(w) = Len(u) + Len(v)
      /\ \A k \in 1 .. Len(u) : w[k] = u[k]
      /\ \A k \in 1 .. Len(v) : w[Len(u) + k] = v[k]
  OBVIOUS
<1>4. Len(w) = d - a
  BY <1>1, <1>3
<1>5. ASSUME NEW k \in 1 .. Len(w) PROVE w[k] = Msg(c, a + k)
  <2>1. CASE k \in 1 .. Len(u)
    BY <1>1, <1>3, <2>1
  <2>2. CASE k \notin 1 .. Len(u)
    <3>1. PICK l \in 1 .. Len(v) : k = Len(u) + l
      <4>1. PICK p \in Nat : p = Len(u)
        BY <1>1
      <4>2. PICK q \in Nat : q = Len(v)
        BY <1>1
      <4>3. k \in 1 .. p + q /\ k \notin 1 .. p
        BY <1>3, <2>2, <4>1, <4>2
      <4>4. k - p \in 1 .. q /\ k = p + (k - p)
        BY <4>3
      <4> QED BY <4>1, <4>2, <4>4
    <3>2. b + l = a + k
      BY <1>1, <3>1
    <3> QED BY <1>1, <1>3, <3>1, <3>2
  <2> QED BY <2>1, <2>2
<1> QED BY <1>4, <1>5 DEF IsPart

(* All messages of a connection are its script.                            *)
LEMMA AllParts ==
  ASSUME NEW c \in Client, NEW u \in Seq(Message), IsPart(u, c, 0, Size(c))
  PROVE  u = Script[c]
<1>1. PICK s \in Seq(PrintMsg) : s = Script[c]
  BY DataAssumption
<1>2. Len(u) = Len(s) /\ Len(s) \in Nat
  BY <1>1 DEF IsPart, Size
<1>3. \A k \in 1 .. Len(u) : u[k] = s[k]
  BY <1>1, <1>2 DEF IsPart, Msg
<1>4. u = s
  BY <1>2, <1>3
<1> QED BY <1>1, <1>4

(* Print messages are messages.                                            *)
LEMMA MessageSeq == Seq(PrintMsg) \subseteq Seq(Message)
<1>1. PrintMsg \subseteq Message
  BY DEF PrintMsg, Message
<1> QED BY <1>1

(* A concatenation is empty when its parts are.                            *)
LEMMA EmptyParts ==
  ASSUME NEW T, NEW f \in Seq(T), NEW b \in Seq(T), NEW h \in Seq(T), (f \o b) \o h = <<>>
  PROVE  f = <<>> /\ b = <<>> /\ h = <<>>
<1>1. Len((f \o b) \o h) = 0
  OBVIOUS
<1>2. Len((f \o b) \o h) = Len(f) + Len(b) + Len(h)
  OBVIOUS
<1>3. Len(f) \in Nat /\ Len(b) \in Nat /\ Len(h) \in Nat
  OBVIOUS
<1>4. Len(f) = 0 /\ Len(b) = 0 /\ Len(h) = 0
  BY <1>1, <1>2, <1>3
<1> QED BY <1>4

(* Concatenation is associative.                                           *)
LEMMA Associative ==
  \A p, f, b \in Seq(Message) : (p \o f) \o b = p \o (f \o b)
<1> SUFFICES ASSUME NEW p \in Seq(Message), NEW f \in Seq(Message), NEW b \in Seq(Message)
             PROVE  (p \o f) \o b = p \o (f \o b)
  OBVIOUS
<1>1. Len(p) \in Nat /\ Len(f) \in Nat /\ Len(b) \in Nat
  OBVIOUS
<1> QED BY <1>1

(* The six parts of a connection: what is with the printer ...             *)
LEMMA FourParts ==
  ASSUME NEW c \in Client, NEW p \in Seq(Message), NEW f \in Seq(Message),
         NEW b \in Seq(Message), NEW h \in Seq(Message), NEW x \in Nat, NEW y \in Nat,
         IsPart(p, c, 0, x), IsPart((f \o b) \o h, c, x, y)
  PROVE  p \o f \o b \o h \in Seq(Message) /\ IsPart(p \o f \o b \o h, c, 0, y)
<1>1. f \o b \in Seq(Message) /\ (f \o b) \o h \in Seq(Message)
  BY ConcatIn
<1>2. (p \o f) \o b = p \o (f \o b)
  BY Associative, Zenon
<1>3. (p \o (f \o b)) \o h = p \o ((f \o b) \o h)
  BY <1>1, Associative, ZenonT(60)
<1>4. p \o f \o b \o h = p \o ((f \o b) \o h)
  BY <1>2, <1>3, Zenon
<1>5. PICK l \in Seq(Message) : l = (f \o b) \o h
  BY <1>1
<1>6. PICK q : q = p \o l
  OBVIOUS
<1>7. q \in Seq(Message) /\ IsPart(q, c, 0, y)
  <2>1. IsPart(l, c, x, y)
    BY <1>5, Zenon
  <2>2. 0 \in Nat
    OBVIOUS
  <2> QED BY <1>6, <2>1, <2>2, ConcatIn, PartJoin
<1>8. p \o f \o b \o h = q
  BY <1>4, <1>5, <1>6, Zenon
<1> QED BY <1>7, <1>8, Zenon

(* ... and what the network and the computer have.                         *)
LEMMA SixParts ==
  ASSUME NEW c \in Client, NEW q \in Seq(Message),
         NEW s \in Seq(Message), NEW t \in Seq(Message), NEW y \in Nat, NEW z \in Nat,
         IsPart(q, c, 0, y), IsPart(s, c, y, z), IsPart(t, c, z, Size(c)),
         NEW r, r = q \o s, NEW w, w = r \o t
  PROVE  w = Script[c]
<1>1. 0 \in Nat /\ Size(c) \in Nat
  BY LastType
<1>2. r \in Seq(Message) /\ IsPart(r, c, 0, z)
  BY <1>1, ConcatIn, PartJoin
<1>3. w \in Seq(Message) /\ IsPart(w, c, 0, Size(c))
  BY <1>1, <1>2, ConcatIn, PartJoin
<1> QED BY <1>3, AllParts

(* What the parts of a line have of a connection.                          *)
LEMMA OfLine ==
  ASSUME IInv, HandInv, NEW i \in Comm, NEW c
  PROVE  /\ Of(c, AtFront(i)) \in Seq(PrintMsg) /\ Of(c, buf[i]) \in Seq(PrintMsg)
         /\ Of(c, InHand(i)) \in Seq(PrintMsg)
         /\ Of(c, Lines[i]) = (Of(c, AtFront(i)) \o Of(c, buf[i])) \o Of(c, InHand(i))
<1>1. PICK f \in Seq(PrintMsg) : f = AtFront(i)
  BY PartTypes
<1>2. PICK b \in Seq(PrintMsg) : b = buf[i]
  BY PartTypes
<1>3. PICK h \in Seq(PrintMsg) : h = InHand(i)
  BY PartTypes
<1>4. Lines[i] = LineOf(f, b, h)
  BY <1>1, <1>2, <1>3, LineIs
<1>5. PICK g \in Seq(PrintMsg) : g = f \o b
  BY ConcatIn
<1>6. Lines[i] = g \o h
  BY <1>4, <1>5 DEF LineOf
<1>7. Of(c, g \o h) = Of(c, g) \o Of(c, h)
  BY OfConcat
<1>8. Of(c, f \o b) = Of(c, f) \o Of(c, b)
  BY OfConcat
<1>9. Of(c, Lines[i]) = (Of(c, f) \o Of(c, b)) \o Of(c, h)
  BY <1>5, <1>6, <1>7, <1>8, Zenon
<1>10. Of(c, f) \in Seq(PrintMsg) /\ Of(c, b) \in Seq(PrintMsg) /\ Of(c, h) \in Seq(PrintMsg)
  BY OfType
<1> QED BY <1>1, <1>2, <1>3, <1>9, <1>10

(* Exactly once, in order: until the handler cancels the threads, every    *)
(* message of a connection is on paper, in the printer's hand, in the one  *)
(* queue of its communicator or in its hand, in the socket or not yet      *)
(* sent, in this order.                                                    *)
THEOREM Conserved == ASSUME Distinct PROVE Spec => []Conservation
<1>1. ASSUME IInv, MessageInv PROVE Conservation
  <2>0. /\ TypeOK /\ HandInv /\ NetInv /\ PagesInv
    BY <1>1 DEF IInv, MessageInv
  <2> SUFFICES ASSUME ~Cancelled, NEW c \in Client, link[c] # "torn"
               PROVE  \E i \in Comm :
                        /\ Of(c, paper) \o Of(c, InPrinter) \o Of(c, buf[i])
                             \o Of(c, InHand(i)) \o sock[c] \o toSend[c] = Script[c]
                        /\ \A j \in Comm \ {i} : Of(c, buf[j]) = <<>> /\ Of(c, InHand(j)) = <<>>
    BY DEF Conservation
  <2>1. Lined(Lines, OnPaper, Taken, TRUE)
    <3>1. pc[Manager] # "rmdir" /\ ~Cancelled = TRUE
      BY DEF Cancelled
    <3> QED BY <1>1, <3>1 DEF MessageInv, LinedInv
  <2>2. PICK i \in Comm : /\ IsPart(Of(c, Lines[i]), c, OnPaper[c], Taken[c])
                          /\ \A j \in Comm \ {i} : Of(c, Lines[j]) = <<>>
    BY <2>1, OneLine
  <2>3. ASSUME NEW j \in Comm \ {i}
        PROVE  Of(c, AtFront(j)) = <<>> /\ Of(c, buf[j]) = <<>> /\ Of(c, InHand(j)) = <<>>
    <3>1. Of(c, Lines[j]) = <<>>
      BY <2>2
    <3> QED BY <1>1, <2>0, <3>1, OfLine, EmptyParts
  <2>4. Of(c, InPrinter) = Of(c, AtFront(i))
    <3>1. CASE i = pq
      BY <3>1 DEF AtFront
    <3>2. CASE i # pq
      <4>1. AtFront(i) = <<>> /\ AtFront(pq) = InPrinter /\ pq \in Comm \ {i}
        BY <2>0, <3>2 DEF AtFront, TypeOK
      <4> QED BY <2>3, <4>1, OfNone
    <3> QED BY <3>1, <3>2
  <2>5. PICK p \in Seq(Message) : p = Of(c, paper)
    <3>1. paper \in Seq(Message)
      BY <2>0 DEF TypeOK
    <3> QED BY <3>1, OfType
  <2>6. PICK f \in Seq(Message) : f = Of(c, InPrinter)
    BY <1>1, <2>0, <2>4, OfLine, MessageSeq
  <2>7. PICK b \in Seq(Message) : b = Of(c, buf[i])
    BY <1>1, <2>0, OfLine, MessageSeq
  <2>8. PICK h \in Seq(Message) : h = Of(c, InHand(i))
    BY <1>1, <2>0, OfLine, MessageSeq
  <2>9. PICK s \in Seq(Message) : s = sock[c]
    BY <2>0, MessageSeq DEF TypeOK
  <2>10. PICK t \in Seq(Message) : t = toSend[c]
    BY <2>0, MessageSeq DEF TypeOK
  <2>11. PICK x \in Nat : x = OnPaper[c]
    BY <2>0, OnPaperType DEF OnPaperOK
  <2>12. PICK y \in Nat : y = Taken[c]
    BY <2>0, TakenType DEF TakenOK
  <2>13. PICK z \in Nat : z = y + Len(s)
    OBVIOUS
  <2>14. y = Size(c) - Len(t) - Len(s) /\ Size(c) \in Nat
    BY <2>9, <2>10, <2>12, TakenIs, LastType
  <2>15. IsPart(p, c, 0, x)
    <3>1. Len(p) = x
      BY <2>5, <2>11 DEF OnPaper
    <3>2. \A k \in 1 .. x : p[k] = Msg(c, k)
      BY <2>0, <2>5, <2>11, GoodPages
    <3> QED BY <3>1, <3>2 DEF IsPart
  <2>16. IsPart((f \o b) \o h, c, x, y)
    <3>1. Of(c, Lines[i]) = (Of(c, AtFront(i)) \o Of(c, buf[i])) \o Of(c, InHand(i))
      BY <1>1, <2>0, OfLine
    <3> QED BY <2>2, <2>4, <2>6, <2>7, <2>8, <2>11, <2>12, <3>1, Zenon
  <2>17. IsPart(s, c, y, z)
    <3>1. \A k \in 1 .. Len(s) : s[k] = Msg(c, y + k)
      BY <2>0, <2>9, <2>12 DEF NetInv
    <3>2. Len(s) = z - y
      BY <2>13
    <3> QED BY <3>1, <3>2 DEF IsPart
  <2>18. IsPart(t, c, z, Size(c))
    <3>1. \A k \in 1 .. Len(t) : t[k] = Msg(c, Size(c) - Len(t) + k)
      BY <2>0, <2>10 DEF NetInv
    <3>2. Size(c) - Len(t) = z /\ Len(t) = Size(c) - z
      <4>1. PICK m \in Nat, n \in Nat, e \in Nat : m = Len(t) /\ n = Len(s) /\ e = Size(c)
        <5>1. Len(s) \in Nat /\ Len(t) \in Nat
          OBVIOUS
        <5> QED BY <2>14, <5>1, Zenon
      <4>2. z = y + n /\ y = e - m - n
        BY <2>13, <2>14, <4>1, Zenon
      <4>3. e - m = z /\ m = e - z
        BY <4>2
      <4> QED BY <4>1, <4>3, Zenon
    <3> QED BY <3>1, <3>2 DEF IsPart
  <2>19. p \o f \o b \o h \o s \o t = Script[c]
    <3>1. p \o f \o b \o h \in Seq(Message) /\ IsPart(p \o f \o b \o h, c, 0, y)
      BY <2>15, <2>16, FourParts, Zenon
    <3>2. PICK q \in Seq(Message) : q = p \o f \o b \o h
      BY <3>1, Zenon
    <3>3. IsPart(q, c, 0, y)
      BY <3>1, <3>2, Zenon
    <3>4. PICK r : r = q \o s
      OBVIOUS
    <3>5. PICK w : w = r \o t
      OBVIOUS
    <3>6. w = Script[c]
      BY <2>17, <2>18, <3>3, <3>4, <3>5, SixParts
    <3> QED BY <3>2, <3>4, <3>5, <3>6, Zenon
  <2> QED BY <2>3, <2>5, <2>6, <2>7, <2>8, <2>9, <2>10, <2>19
<1> QED BY <1>1, Messages, Invariance, PTL
=============================================================================
