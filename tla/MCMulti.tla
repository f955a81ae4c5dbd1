------------------------------ MODULE MCMulti ------------------------------
(* Instances of MultiDevice for TLC.                                       *)
EXTENDS MultiDevice

TwoStreams == {1, 2}
=============================================================================
