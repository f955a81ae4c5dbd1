----------------------------- MODULE MCChannel -----------------------------
(* Instances of ALNetworkChannel for TLC: devices 1 and 2 paired with each *)
(* other, three frames from 1 to 2.                                        *)
EXTENDS ALNetworkChannel

PairOfTwo  == [d \in {1, 2} |-> {1, 2} \ {d}]
UpperThree == [d \in {1, 2} |-> IF d = 1 THEN <<2, 2, 2>> ELSE <<>>]
SeedsDiffer == [d \in {1, 2} |-> d]
KeyOneTwo  == <<1, 2, 1>>
=============================================================================
