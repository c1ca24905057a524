---------------------------- MODULE PrintService ----------------------------
(***************************************************************************)
(* What the printer of project 3 promises the computers: the messages of a *)
(* connection get on the paper in the order they were sent, each once and  *)
(* with the text it was sent with, and all of them while the service is up *)
(* and the connection holds.  A connection that breaks may leave a wrong   *)
(* text on its last page.  The service may fail, after which it promises   *)
(* no further page, and stop, after which it prints nothing; when it stops *)
(* it may leave one page unfinished.                                       *)
(***************************************************************************)
EXTENDS Integers, SequencesExt

CONSTANTS
  Client,   \* the connections
  Script,   \* Script[c]: the messages connection c carries, in order
  Damaged   \* a text that is not the one sent, or not all of it

VARIABLES
  asked,    \* how many of its messages each connection has sent
  paper,    \* printer.out
  broken,   \* the connections that have broken
  service   \* "up", "failing" or "down"

vars == <<asked, paper, broken, service>>

(* The messages of connection c on the paper.                              *)
Carries(c, m) == \E k \in DOMAIN Script[c] : Script[c][k].id = m.id
Printed(c) ==
  FlattenSeq([k \in DOMAIN paper |-> IF Carries(c, paper[k]) THEN <<paper[k]>> ELSE <<>>])

Init ==
  /\ asked = [c \in Client |-> 0]
  /\ paper = <<>>
  /\ broken = {}
  /\ service = "up"

Ask(c) ==
  /\ service # "down" /\ asked[c] < Len(Script[c])
  /\ asked' = [asked EXCEPT ![c] = @ + 1]
  /\ UNCHANGED <<paper, broken, service>>

(* A page of c may come; it shows the first message that is not on paper.  *)
Due(c) ==
  /\ service # "down" /\ Len(Printed(c)) < asked[c]
  /\ \A k \in DOMAIN Printed(c) : Printed(c)[k].text # Damaged
Page(c) == Script[c][Len(Printed(c)) + 1]

PutOnPaper(c) ==
  /\ Due(c)
  /\ paper' = Append(paper, Page(c))
  /\ UNCHANGED <<asked, broken, service>>

Garble(c) ==
  /\ Due(c) /\ c \in broken
  /\ paper' = Append(paper, [Page(c) EXCEPT !.text = Damaged])
  /\ UNCHANGED <<asked, broken, service>>

Break(c) ==
  /\ service # "down"
  /\ broken' = broken \union {c}
  /\ UNCHANGED <<asked, paper, service>>

Fail == service = "up" /\ service' = "failing" /\ UNCHANGED <<asked, paper, broken>>

(* A page that is cut has not got its mark.                                *)
CutPage(c) ==
  /\ Due(c)
  /\ paper' = Append(paper, [Page(c) EXCEPT !.text = Damaged, !.type = "END_SPOOL"])

Stop ==
  /\ service # "down" /\ service' = "down"
  /\ UNCHANGED paper \/ \E c \in Client : CutPage(c)
  /\ UNCHANGED <<asked, broken>>

Next == \/ \E c \in Client : Ask(c) \/ PutOnPaper(c) \/ Garble(c) \/ Break(c)
        \/ Fail \/ Stop

Promised(c) == service = "up" /\ c \notin broken /\ PutOnPaper(c)

Spec == Init /\ [][Next]_vars /\ \A c \in Client : WF_vars(Promised(c))
=============================================================================
