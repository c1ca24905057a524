----------------------------- MODULE MCPrinter -----------------------------
(***************************************************************************)
(* Instances of Printer for TLC: which connections there are and what they *)
(* carry.                                                                  *)
(***************************************************************************)
EXTENDS Printer, TLC

CONSTANTS c1, c2, a, b

MCClient2 == {c1, c2}
MCText == {a, b}
MCPrintID == {<<1, 2>>, <<1, 3>>, <<2, 2>>}

End(cid, pid, text) == [id |-> <<cid, pid>>, text |-> text, type |-> "END_SPOOL"]
Term(cid, pid, text) == [id |-> <<cid, pid>>, text |-> text, type |-> "CPU_TERM"]

(* Two computers; the first one ends a process and dies with another open. *)
MCScript2 == c1 :> <<End(1, 2, a), Term(1, 3, b)>> @@ c2 :> <<End(2, 2, b)>>

MCScript1 == c1 :> <<End(1, 2, a), Term(1, 3, b)>>
MCClient1 == {c1}

(* One message each.                                                       *)
MCScriptShort == c1 :> <<End(1, 2, a)>> @@ c2 :> <<Term(2, 2, b)>>

(* A computer that prints, and one that does not.                          *)
MCScriptOne == c1 :> <<Term(1, 2, a)>> @@ c2 :> <<>>

MCNoClient == {}
MCReset == {c1}
=============================================================================
