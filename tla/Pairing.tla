------------------------------ MODULE Pairing ------------------------------
(***************************************************************************)
(* The pairing loop of al_sim_device and the two lookups made in its       *)
(* result.  Every device is started with a number of devices to pair with  *)
(* and the id of the first one; its main() appends one record per          *)
(* iteration to dev->device_pairs, with keys both ends derive on their own *)
(* from the two ids.  Devices are separate processes, so their loops       *)
(* interleave.                                                             *)
(*                                                                         *)
(* hkdf is a symbolic function of its arguments: two calls agree only when *)
(* their key, nonce and label do.  The salt every device passes alike (the *)
(* constant paired_key) is left out of the source keys.  The lookups are   *)
(* those of METHOD_CACHE, the method al_lib.h selects, and GetPairByHash.  *)
(***************************************************************************)
EXTENDS Integers, Sequences, MacAddress

CONSTANTS
  Devices,      \* ids of the al_sim_device processes (argv[1])
  Launches,     \* the <<argv[2], argv[3]>> of each device, in each way to start them
  NumKeys,      \* NUM_TRANSMISSION_KEYS
  UpperBuild    \* the build of the program that makes the frames

ASSUME PairingAssumption ==
  /\ Devices \subseteq Ids
  /\ Launches \subseteq [Devices -> Nat \X Nat]
  /\ NumKeys \in Nat \ {0}
  /\ UpperBuild \in Builds

DeviceBuild == "zero"   \* al_sim_device is built with -O3

VARIABLES
  args,    \* args[d] = <<num_devices_to_pair, start_num>>
  pairs    \* pairs[d]: dev->device_pairs, in list order

vars == <<args, pairs>>

KeyIndexes == 0..(NumKeys - 1)

(***************************************************************************)
(* Keys.                                                                   *)
(***************************************************************************)
(* Mutant: the same key for both directions.                               *)
KeyFromIntsSorted(a, b) == IF a < b THEN <<a, "AL", b>> ELSE <<b, "AL", a>>
KeyFromInts(a, b) == <<a, "AL", b>>
SourceKey(key)    == <<"ALsrc", key>>

(* The key at offset n: its nonce is n, since nonce_counter counts the     *)
(* offsets of one record from 0.                                           *)
TransmissionKey(sourceKey, n) ==
  [tkey |-> <<"ALsrc", n, sourceKey>>, ekey |-> <<"ALenc", n, sourceKey>>]

TransmissionKeys(key) == [n \in KeyIndexes |-> TransmissionKey(SourceKey(key), n)]

(* The device structure of a process, for itself and for each device it    *)
(* pairs with.                                                             *)
NewDevice(id) == [id |-> id, mac |-> Mac(DeviceBuild, id), device_pairs |-> <<>>]
NewPair(device, key) == [device |-> device, key |-> key]

(* The paired key is the same for all pairs.  Mutant: what the commented   *)
(* line computes, the exclusive or of the two ends' keys.                  *)
PairedKeyXor(key, otherKey) == {key, otherKey}
PairedKey(key, otherKey) == "0x41"
PairedEncryptionKey(key, otherKey) == <<"ALenc", PairedKey(key, otherKey)>>

(* Device_createpairingrecord of an external device, with the key this     *)
(* device has for it and the key it has for this one.                      *)
RecordOf(external, key, incKey) ==
  LET pair == NewPair(external, key) IN
  [id   |-> pair.device.id,
   mac  |-> pair.device.mac,
   src  |-> TransmissionKeys(pair.key),
   recv |-> TransmissionKeys(incKey),
   paired_encryption_key |-> PairedEncryptionKey(pair.key, incKey)]

(* d's record of e.  Mutants: the address is the device's own; its own key *)
(* is used for the incoming one.                                           *)
RecordOwnAddress(d, e) ==
  RecordOf([NewDevice(e) EXCEPT !.mac = NewDevice(d).mac],
           KeyFromInts(d, e), KeyFromInts(e, d))
RecordOwnKey(d, e) == RecordOf(NewDevice(e), KeyFromInts(d, e), KeyFromInts(d, e))
Record(d, e) == RecordOf(NewDevice(e), KeyFromInts(d, e), KeyFromInts(e, d))

(***************************************************************************)
(* Lookups: the position of a record in pairs[d], 0 for a null pointer.    *)
(***************************************************************************)
NoRecord == 0

(* Device_getpair_by_address returns the first record that matches.        *)
GetPairByAddress(d, mac) ==
  LET found == {i \in DOMAIN pairs[d] : pairs[d][i].mac = mac} IN
  IF found = {} THEN NoRecord ELSE CHOOSE i \in found : \A j \in found : i <= j

(* Device_getpair_by_tkey searches on and returns the last one, with the   *)
(* last index at which the key was seen.                                   *)
KeyPlaces(d, tkey) ==
  {m \in (DOMAIN pairs[d]) \X KeyIndexes : pairs[d][m[1]].recv[m[2]].tkey = tkey}
NotBefore(m, k) == m[1] > k[1] \/ (m[1] = k[1] /\ m[2] >= k[2])
GetPairByTkey(d, tkey) ==
  LET found == KeyPlaces(d, tkey) IN
  IF found = {} THEN <<NoRecord, NumKeys + 1>>
  ELSE CHOOSE m \in found : \A k \in found : NotBefore(m, k)

(* The hash method, compiled without METHOD_CACHE: the transmission key is *)
(* three random bytes and three bytes of their digest under the paired     *)
(* encryption key of the record, and the last record whose key gives that  *)
(* digest is taken, with its first transmission key.  hmac is symbolic.    *)
HashTkey(record, rnd) == <<rnd, <<"hmac", rnd, record.paired_encryption_key>>>>
GetPairByHash(d, tkey) ==
  LET found == {i \in DOMAIN pairs[d] : HashTkey(pairs[d][i], tkey[1]) = tkey} IN
  IF found = {} THEN NoRecord ELSE CHOOSE i \in found : \A j \in found : i >= j
HashIndex == 0

(***************************************************************************)
(* The loop of main().                                                     *)
(***************************************************************************)
Init ==
  /\ args \in Launches
  /\ pairs = [d \in Devices |-> NewDevice(d).device_pairs]

(* for (i = 0; i < num_devices_to_pair; i++).  Mutant: <=.                 *)
MorePairsOneMore(d) == Len(pairs[d]) <= args[d][1]
MorePairs(d) == Len(pairs[d]) < args[d][1]

(* One iteration: the external device start_num + i and its record, at the *)
(* end of the list.                                                        *)
CreatePair(d) ==
  /\ MorePairs(d)
  /\ pairs' = [pairs EXCEPT ![d] = Append(@, Record(d, args[d][2] + Len(@)))]
  /\ UNCHANGED args

Next == \E d \in Devices : CreatePair(d)

Spec == Init /\ [][Next]_vars

(***************************************************************************)
(* Properties.                                                             *)
(***************************************************************************)

(* A device has at most the records it was asked for.                      *)
TypeOK ==
  /\ args \in Launches
  /\ \A d \in Devices :
       /\ Len(pairs[d]) <= args[d][1]
       /\ \A i \in DOMAIN pairs[d] : pairs[d][i].id = args[d][2] + i - 1

(* A frame that the upper layer addresses to a paired device is encrypted  *)
(* with the record of that device, not with another one and not dropped.   *)
RecordFoundByAddress ==
  \A d \in Devices : \A i \in DOMAIN pairs[d] :
    GetPairByAddress(d, Mac(UpperBuild, pairs[d][i].id)) = i

(* A packet made with any key of d's record of e is recognised by e, once  *)
(* e has a record of d: as coming from d, at the same index, and with the  *)
(* same encryption key.                                                    *)
KeysMeet ==
  \A d, e \in Devices : \A i \in DOMAIN pairs[d], j \in DOMAIN pairs[e] :
    pairs[d][i].id = e /\ pairs[e][j].id = d =>
      \A n \in KeyIndexes :
        /\ GetPairByTkey(e, pairs[d][i].src[n].tkey) = <<j, n>>
        /\ pairs[e][j].recv[n].ekey = pairs[d][i].src[n].ekey

(* Nobody but e, d itself included, recognises a packet d makes for e, and *)
(* e takes it for nobody else's.                                           *)
NoForeignMatch ==
  \A d, f \in Devices : \A i \in DOMAIN pairs[d] : \A n \in KeyIndexes :
    LET found == GetPairByTkey(f, pairs[d][i].src[n].tkey)[1] IN
    found # NoRecord => f = pairs[d][i].id /\ pairs[f][found].id = d

(* Built for the hash method, where run_exp_lookup_hash.sh measures it,    *)
(* every device with a record takes every packet for its own; and what it  *)
(* decrypts it with is the key the frame was encrypted with only if it is  *)
(* the addressee and has paired with the sender last.                      *)
HashMethodMatches ==
  \A d, f \in Devices : \A i \in DOMAIN pairs[d] : pairs[f] # <<>> =>
    LET found == GetPairByHash(f, HashTkey(pairs[d][i], "rnd"))
    IN /\ found # NoRecord
       /\ pairs[f][found].recv[HashIndex].ekey = pairs[d][i].src[HashIndex].ekey
            <=> f = pairs[d][i].id /\ pairs[f][Len(pairs[f])].id = d

(* "This grouping has 2 devices successfully paired and communicating with *)
(* each other", al_sim_multi.c says of the arguments it starts devices     *)
(* with: once the loops are over, two devices have a record of each other. *)
(* Refuted: the arguments are those of an earlier al_sim_device, a list of *)
(* ids to pair with, not a number of devices and a first id.               *)
HasRecord(d, e) == \E i \in DOMAIN pairs[d] : pairs[d][i].id = e
GroupingPaired ==
  (\A d \in Devices : ~MorePairs(d)) =>
    \E d, e \in Devices : d # e /\ HasRecord(d, e) /\ HasRecord(e, d)

-----------------------------------------------------------------------------
(* The inductive invariant: a device's list is the records of consecutive  *)
(* ids from start_num on, no more than it was asked for.                   *)
Built(d) ==
  /\ Len(pairs[d]) \in 0..args[d][1]
  /\ pairs[d] = [i \in 1..Len(pairs[d]) |-> Record(d, args[d][2] + i - 1)]

IInv == args \in Launches /\ DOMAIN pairs = Devices /\ \A d \in Devices : Built(d)
=============================================================================
