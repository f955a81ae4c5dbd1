----------------------------- MODULE MacAddress -----------------------------
(***************************************************************************)
(* gen_macaddr_from_int: the MAC address the programs derive from a device *)
(* id.  Byte i of the address is (id >> (i * 8)) & 0xFF with a 32-bit id,  *)
(* so the shifts by 32 and 40 of the last two bytes are undefined.  The    *)
(* builds of the Makefile give them two values: the optimised ones (-O3:   *)
(* al_sim_device, al_sim_upperlayer, al_sim) store 0 there, "zero"; the    *)
(* unoptimised ones (al_sim_upperlayer_multi, al_sim_multi) use the x86    *)
(* shift, whose count is taken modulo 32, and store bytes 0 and 1 again,   *)
(* "wrap".                                                                 *)
(***************************************************************************)
EXTENDS Naturals

Builds == {"zero", "wrap"}

(* The values of u_int32_t: those whose fourth byte is a byte.             *)
Ids == {id \in Nat : id \div 16777216 < 256}

(* (id >> (i * 8)) & 0xFF where the shift is defined.                      *)
Shifted(id, i) == CASE i = 0 -> id
                    [] i = 1 -> id \div 256
                    [] i = 2 -> id \div 65536
                    [] i = 3 -> id \div 16777216
Byte(id, i) == Shifted(id, i) % 256

MacByte(build, id, i) ==
  CASE i < 4                      -> Byte(id, i)
    [] i >= 4 /\ build = "zero"   -> 0
    [] i >= 4 /\ build = "wrap"   -> Byte(id, i - 4)

Mac(build, id) == [i \in 0..5 |-> MacByte(build, id, i)]
=============================================================================
