---------------------------- MODULE MCExperiment ----------------------------
(* Instances of Experiment for TLC: run_exp.sh starts devices 1 and 2,     *)
(* paired with each other, a second apart.                                 *)
EXTENDS Experiment

PairOfTwo   == [d \in {1, 2} |-> {1, 2} \ {d}]
SeedsDiffer == [d \in {1, 2} |-> d]
=============================================================================
