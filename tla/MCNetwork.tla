----------------------------- MODULE MCNetwork -----------------------------
(* Instances of ALNetwork for TLC.                                         *)
EXTENDS ALNetwork

(* Devices 1 and 2 paired with each other, both sending.                   *)
PairOfTwo  == [d \in {1, 2} |-> {1, 2} \ {d}]
UpperBoth  == [d \in {1, 2} |-> IF d = 1 THEN <<2, 2>> ELSE <<1>>]

(* Started by one launcher, within one second.                             *)
SeedsEqual == [d \in Devices |-> 0]

(* A third device in range.  It has a record for device 1, which has none  *)
(* for it; the upper layer of 1 also addresses it, in vain.                *)
PairAndBystander == [d \in {1, 2, 3} |-> CASE d = 1 -> {2} [] d = 2 -> {1} [] d = 3 -> {1}]
UpperBystander   == [d \in {1, 2, 3} |-> CASE d = 1 -> <<3, 2, 2>> [] d = 2 -> <<>> [] d = 3 -> <<>>]
=============================================================================
