----------------------------- MODULE MCPairing -----------------------------
(* The arguments al_sim_device is started with in the model-checking runs. *)
EXTENDS Pairing

(* 0 to 3 devices from device 1, 2 or 3 on: no pair at all, one-sided and  *)
(* mutual pairs, pairs with devices that never start, and, as in           *)
(* run_exp_lookup_hash.sh, a device paired with itself among others.       *)
LaunchesOfThree == [{1, 2, 3} -> (0..3) \X (1..3)]

(* The second and third string of the rows of dev_args in al_sim_multi.c   *)
(* that are used: NUM_DEVICES is 5.                                        *)
LaunchOfMulti == {<< <<2, 30>>, <<1, 20>>, <<4, 20>>, <<3, 20>>, <<6, 20>> >>}
=============================================================================
