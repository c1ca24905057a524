----------------------------- MODULE MCComputer -----------------------------
(***************************************************************************)
(* Instances of Computer for TLC: programs and inputs.                     *)
(***************************************************************************)
EXTENDS Computer, TLC

Number(n) == <<"number", n>>
Program(f) == <<"file", f>>

(* In the manner of 3/code/usrprog: a program that counts down, with its   *)
(* counter in memory; one that loads a program, shows its registers, sleeps*)
(* and switches the computer off; one that never ends; one whose product   *)
(* overflows; one that reaches outside the memory; one that is cut short.  *)
count   == <<2, 10, 3, 11, 5, 10, 7, 0, 6, 0, 2, -1>>
tools   == <<9, 1, 9, 2, 8, 1, 9, 0, 0, 0>>
loops   == <<1, 1, 6, 2>>
product == <<8, 1, 1, 100, 4, 10, 7, 0, 0, 0, 3>>
wild    == <<2, 99, 0, 0>>
short   == <<1, 1>>

MCTwoFiles == {"count", "tools"}
MCTwoImages == "count" :> count @@ "tools" :> tools
MCTwoBases == "count" :> 4 @@ "tools" :> 16
MCTwoLines == {Number(0), Number(3), Number(257), Program("count"), Program("tools"),
               <<"missing", 0>>, Junk}

MCFaultFiles == {"loops", "product", "wild", "short"}
MCFaultImages == "loops" :> loops @@ "product" :> product @@ "wild" :> wild
                   @@ "short" :> short
MCFaultBases == "loops" :> 4 @@ "product" :> 8 @@ "wild" :> 19 @@ "short" :> 23
MCFaultLines == {Number(1), Number(4), Number(6), <<"bad_base", 0>>}
                  \union {Program(f) : f \in MCFaultFiles}

MCShort == {"short"}
MCNone == {}
MCThree == {3}

(* What the theorem about Transparent takes for granted.                   *)
ASSUME MCPrograms == Disciplined(0 .. Horizon) /\ HorizonReached
=============================================================================
