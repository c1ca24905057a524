----------------------------- MODULE MCDelivery -----------------------------
(***************************************************************************)
(* Instances of Delivery for TLC.                                          *)
(***************************************************************************)
EXTENDS Delivery

MCTwo == {1, 2}
MCOne == {1}
MCPID == {2}
MCRuns == <<2, 1>>          \* computer 1 may be started again
MCRunOnce == <<1>>
MCMortal == {1, Printer}
MCPrinter == {Printer}
MCNobody == {}
=============================================================================
