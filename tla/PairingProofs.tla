--------------------------- MODULE PairingProofs ---------------------------
(***************************************************************************)
(* Proofs about MacAddress, for every 32-bit device id, and about Pairing, *)
(* for any devices, arguments and number of keys.                          *)
(***************************************************************************)
EXTENDS Pairing, TLAPS

-----------------------------------------------------------------------------
(* Addresses.                                                              *)

(* The four defined bytes determine the id.                                *)
LEMMA BytesDetermineId ==
  ASSUME NEW x \in Ids, NEW y \in Ids, \A i \in 0..3 : Byte(x, i) = Byte(y, i)
  PROVE  x = y
<1>1. x \in Nat /\ x \div 16777216 < 256 /\ y \in Nat /\ y \div 16777216 < 256
  BY DEF Ids
<1>2. /\ x % 256 = y % 256
      /\ (x \div 256) % 256 = (y \div 256) % 256
      /\ (x \div 65536) % 256 = (y \div 65536) % 256
      /\ (x \div 16777216) % 256 = (y \div 16777216) % 256
  <2>1. Byte(x, 0) = Byte(y, 0) /\ Byte(x, 1) = Byte(y, 1)
        /\ Byte(x, 2) = Byte(y, 2) /\ Byte(x, 3) = Byte(y, 3)
    OBVIOUS
  <2> QED
    BY <2>1 DEF Byte, Shifted
<1>3. ASSUME NEW z \in Nat, z \div 16777216 < 256
      PROVE  z = (z % 256) + 256 * ((z \div 256) % 256)
                 + 65536 * ((z \div 65536) % 256)
                 + 16777216 * ((z \div 16777216) % 256)
  BY <1>3, SMTT(60)
<1> QED
  BY <1>1, <1>2, <1>3

(* Within one build, two devices never share an address.                   *)
THEOREM MacInjective ==
  ASSUME NEW build \in Builds, NEW x \in Ids, NEW y \in Ids,
         Mac(build, x) = Mac(build, y)
  PROVE  x = y
<1>1. ASSUME NEW i \in 0..3 PROVE Byte(x, i) = Byte(y, i)
  <2>1. Mac(build, x)[i] = Mac(build, y)[i]
    OBVIOUS
  <2> QED
    BY <2>1 DEF Mac, MacByte
<1> QED
  BY <1>1, BytesDetermineId

(* An optimised and an unoptimised program give a device the same address  *)
(* only when the low 16 bits of its id are zero: never for ids 1 to 65535. *)
THEOREM BuildsDisagree ==
  ASSUME NEW x \in Ids
  PROVE  Mac("zero", x) = Mac("wrap", x) <=> x % 65536 = 0
<1>1. Byte(x, 0) \in Nat /\ Byte(x, 1) \in Nat /\ x \in Nat
  BY DEF Byte, Shifted, Ids
<1>2. Mac("zero", x) = Mac("wrap", x) <=> Byte(x, 0) = 0 /\ Byte(x, 1) = 0
  <2>1. \A i \in 0..3 : MacByte("zero", x, i) = MacByte("wrap", x, i)
    BY DEF MacByte
  <2>2. /\ MacByte("zero", x, 4) = 0 /\ MacByte("wrap", x, 4) = Byte(x, 0)
        /\ MacByte("zero", x, 5) = 0 /\ MacByte("wrap", x, 5) = Byte(x, 1)
    BY DEF MacByte
  <2>3. ASSUME Mac("zero", x) = Mac("wrap", x) PROVE Byte(x, 0) = 0 /\ Byte(x, 1) = 0
    <3>1. Mac("zero", x)[4] = Mac("wrap", x)[4] /\ Mac("zero", x)[5] = Mac("wrap", x)[5]
      BY <2>3
    <3> QED
      BY <2>2, <3>1 DEF Mac
  <2>4. ASSUME Byte(x, 0) = 0, Byte(x, 1) = 0 PROVE Mac("zero", x) = Mac("wrap", x)
    <3>1. \A i \in 0..5 : MacByte("zero", x, i) = MacByte("wrap", x, i)
      BY <2>1, <2>2, <2>4
    <3> QED
      BY <3>1 DEF Mac
  <2> QED
    BY <2>3, <2>4
<1>3. Byte(x, 0) = 0 /\ Byte(x, 1) = 0 <=> x % 65536 = 0
  BY <1>1 DEF Byte, Shifted
<1> QED
  BY <1>2, <1>3

-----------------------------------------------------------------------------
(* Pairing.                                                                *)

(* The list grows by one record.                                           *)
LEMMA AppendBuilt ==
  ASSUME NEW F(_), NEW q, NEW n \in Nat, q = [i \in 1..n |-> F(i)]
  PROVE  /\ Len(q) = n
         /\ Append(q, F(n + 1)) = [i \in 1..(n + 1) |-> F(i)]
OBVIOUS

(* IInv is inductive.                                                      *)
THEOREM InvariantHolds == Spec => []IInv
<1>1. Init => IInv
  <2> SUFFICES ASSUME Init PROVE IInv
    OBVIOUS
  <2> SUFFICES ASSUME NEW d \in Devices PROVE Built(d)
    BY DEF IInv, Init
  <2>1. args[d] \in Nat \X Nat /\ pairs[d] = <<>>
    BY PairingAssumption DEF Init, NewDevice
  <2> QED
    BY <2>1 DEF Built
<1>2. IInv /\ [Next]_vars => IInv'
  <2> SUFFICES ASSUME IInv, [Next]_vars PROVE IInv'
    OBVIOUS
  <2>1. ASSUME NEW d \in Devices, CreatePair(d) PROVE IInv'
    <3>1. args' = args /\ DOMAIN pairs' = Devices
      BY <2>1 DEF CreatePair, IInv
    <3>2. ASSUME NEW e \in Devices, e # d PROVE Built(e)'
      <4>1. pairs'[e] = pairs[e]
        BY <2>1, <3>2 DEF CreatePair, IInv
      <4> QED
        BY <3>1, <4>1 DEF IInv, Built
    <3>3. Built(d)'
      <4> DEFINE n == Len(pairs[d])
                 R(i) == Record(d, args[d][2] + i - 1)
      <4>1. n \in 0..args[d][1] /\ pairs[d] = [i \in 1..n |-> R(i)] /\ args[d] \in Nat \X Nat
        BY PairingAssumption DEF IInv, Built
      <4>2. args[d][2] + n = args[d][2] + (n + 1) - 1
        BY <4>1
      <4>3. pairs'[d] = Append(pairs[d], R(n + 1)) /\ n < args[d][1]
        BY <2>1, <4>2 DEF CreatePair, MorePairs, IInv
      <4> HIDE DEF R
      <4>4. pairs'[d] = [i \in 1..(n + 1) |-> R(i)]
        BY <4>1, <4>3, AppendBuilt
      <4>5. Len(pairs'[d]) = n + 1
        BY <4>1, <4>4
      <4> QED
        BY <3>1, <4>1, <4>3, <4>4, <4>5 DEF Built, R
    <3> QED
      BY <3>1, <3>2, <3>3 DEF IInv
  <2>2. CASE UNCHANGED vars
    BY <2>2 DEF vars, IInv, Built
  <2> QED
    BY <2>1, <2>2 DEF Next
<1> QED
  BY <1>1, <1>2, PTL DEF Spec

(* The id and the address of a record.                                     *)
LEMMA RecordNames ==
  ASSUME NEW d, NEW e
  PROVE  Record(d, e).id = e /\ Record(d, e).mac = Mac(DeviceBuild, e)
BY DEF Record, RecordOf, NewPair, NewDevice

(* What the invariant says of the records of a list.                       *)
LEMMA RecordAt ==
  ASSUME IInv, NEW d \in Devices
  PROVE  /\ DOMAIN pairs[d] = 1..Len(pairs[d])
         /\ Len(pairs[d]) \in Nat
         /\ Len(pairs[d]) <= args[d][1]
         /\ args[d] \in Nat \X Nat
         /\ \A i \in DOMAIN pairs[d] : /\ pairs[d][i] = Record(d, pairs[d][i].id)
                                       /\ pairs[d][i].id = args[d][2] + i - 1
<1>1. Built(d) /\ args[d] \in Nat \X Nat
  BY PairingAssumption DEF IInv
<1>2. ASSUME NEW i \in DOMAIN pairs[d]
      PROVE  /\ pairs[d][i] = Record(d, pairs[d][i].id)
             /\ pairs[d][i].id = args[d][2] + i - 1
  <2>1. pairs[d][i] = Record(d, args[d][2] + i - 1)
    BY <1>1, <1>2 DEF Built
  <2> QED
    BY <2>1, RecordNames
<1> QED
  BY <1>1, <1>2 DEF Built

(* A device has at most the records it was asked for, from start_num on.   *)
THEOREM TypeCorrect == Spec => []TypeOK
<1>1. IInv => TypeOK
  <2> SUFFICES ASSUME IInv, NEW d \in Devices
               PROVE /\ Len(pairs[d]) <= args[d][1]
                     /\ \A i \in DOMAIN pairs[d] : pairs[d][i].id = args[d][2] + i - 1
    BY DEF TypeOK, IInv
  <2> QED
    BY RecordAt
<1> QED
  BY <1>1, InvariantHolds, PTL

-----------------------------------------------------------------------------
(* Two records of a device are of two devices.                             *)
LEMMA OneRecordPerId ==
  ASSUME IInv, NEW d \in Devices, NEW i \in DOMAIN pairs[d], NEW j \in DOMAIN pairs[d],
         pairs[d][i].id = pairs[d][j].id
  PROVE  i = j
<1>1. pairs[d][i].id = args[d][2] + i - 1 /\ pairs[d][j].id = args[d][2] + j - 1
  BY RecordAt
<1>2. i \in Nat /\ j \in Nat /\ args[d][2] \in Nat
  <2>1. DOMAIN pairs[d] = 1..Len(pairs[d]) /\ args[d] \in Nat \X Nat
    BY RecordAt
  <2> QED
    BY <2>1
<1>3. args[d][2] + i - 1 = args[d][2] + j - 1
  BY <1>1
<1>4. ASSUME NEW first \in Nat, NEW a \in Nat, NEW b \in Nat, first + a - 1 = first + b - 1
      PROVE  a = b
  BY <1>4
<1> QED
  BY <1>2, <1>3, <1>4

(* A frame for a paired device is encrypted with that device's record,     *)
(* when the program that made the frame is built like al_sim_device.       *)
THEOREM AddressFindsRecord ==
  ASSUME UpperBuild = DeviceBuild,
         \A a \in Launches : \A d \in Devices : \A n \in 0..a[d][1] : a[d][2] + n \in Ids
  PROVE  Spec => []RecordFoundByAddress
<1>1. IInv => RecordFoundByAddress
  <2> SUFFICES ASSUME IInv, NEW d \in Devices, NEW i \in DOMAIN pairs[d]
               PROVE  GetPairByAddress(d, Mac(UpperBuild, pairs[d][i].id)) = i
    BY DEF RecordFoundByAddress
  <2> DEFINE mac == Mac(UpperBuild, pairs[d][i].id)
             found == {j \in DOMAIN pairs[d] : pairs[d][j].mac = mac}
  <2>1. ASSUME NEW j \in DOMAIN pairs[d]
        PROVE  pairs[d][j].mac = Mac(DeviceBuild, pairs[d][j].id) /\ pairs[d][j].id \in Ids
    <3>1. /\ j \in 1..Len(pairs[d]) /\ Len(pairs[d]) \in Nat
          /\ Len(pairs[d]) <= args[d][1] /\ args[d] \in Nat \X Nat
          /\ pairs[d][j] = Record(d, pairs[d][j].id)
          /\ pairs[d][j].id = args[d][2] + j - 1
      BY <2>1, RecordAt
    <3>2. j - 1 \in 0..args[d][1] /\ args[d][2] + (j - 1) = args[d][2] + j - 1
      BY <3>1
    <3>3. args[d][2] + (j - 1) \in Ids
      BY <3>2 DEF IInv
    <3> QED
      BY <3>1, <3>2, <3>3, RecordNames
  <2>2. ASSUME NEW j \in found PROVE j = i
    <3>1. j \in DOMAIN pairs[d] /\ pairs[d][j].mac = mac
      OBVIOUS
    <3>2. Mac(DeviceBuild, pairs[d][j].id) = Mac(DeviceBuild, pairs[d][i].id)
      BY <2>1, <3>1
    <3>3. pairs[d][j].id = pairs[d][i].id
      BY <2>1, <3>1, <3>2, MacInjective DEF DeviceBuild, Builds
    <3> QED
      BY <3>1, <3>3, OneRecordPerId
  <2>3. i \in found
    BY <2>1
  <2>4. found = {i}
    BY <2>2, <2>3
  <2>5. i \in Nat
    BY RecordAt
  <2> HIDE DEF found
  <2>6. (CHOOSE k \in found : \A j \in found : k <= j) = i
    BY <2>4, <2>5
  <2>7. found # {}
    BY <2>3
  <2> QED
    BY <2>6, <2>7 DEF GetPairByAddress, found
<1> QED
  BY <1>1, InvariantHolds, PTL

-----------------------------------------------------------------------------
(* The transmission keys of a record name both ends and the index.         *)
LEMMA RecordKeys ==
  ASSUME NEW d, NEW e, NEW n \in KeyIndexes
  PROVE  /\ Record(d, e).src[n].tkey  = <<"ALsrc", n, <<"ALsrc", <<d, "AL", e>>>>>>
         /\ Record(d, e).recv[n].tkey = <<"ALsrc", n, <<"ALsrc", <<e, "AL", d>>>>>>
BY DEF Record, RecordOf, NewPair, NewDevice, TransmissionKeys, TransmissionKey,
       SourceKey, KeyFromInts

(* What one end encrypts under is what the other end decrypts under.       *)
LEMMA EncryptionKeysMeet ==
  ASSUME NEW d, NEW e, NEW n \in KeyIndexes
  PROVE  Record(e, d).recv[n].ekey = Record(d, e).src[n].ekey
<1>1. Record(e, d).recv = Record(d, e).src
  BY DEF Record, RecordOf, NewPair
<1> QED
  BY <1>1

(* hkdf is injective.                                                      *)
LEMMA KeysDiffer ==
  ASSUME NEW a, NEW b, NEW k, NEW x, NEW y, NEW l
  PROVE  <<"ALsrc", k, <<"ALsrc", <<a, "AL", b>>>>>> = <<"ALsrc", l, <<"ALsrc", <<x, "AL", y>>>>>>
           <=> a = x /\ b = y /\ k = l
OBVIOUS

(* The places at which f's records hold a key that d makes for e.          *)
LEMMA PlacesOfKey ==
  ASSUME IInv, NEW d \in Devices, NEW i \in DOMAIN pairs[d], NEW n \in KeyIndexes,
         NEW f \in Devices, NEW m
  PROVE  m \in KeyPlaces(f, pairs[d][i].src[n].tkey)
           <=> /\ m \in (DOMAIN pairs[f]) \X KeyIndexes
               /\ f = pairs[d][i].id /\ pairs[f][m[1]].id = d /\ m[2] = n
<1> SUFFICES ASSUME m \in (DOMAIN pairs[f]) \X KeyIndexes
             PROVE  pairs[f][m[1]].recv[m[2]].tkey = pairs[d][i].src[n].tkey
                      <=> f = pairs[d][i].id /\ pairs[f][m[1]].id = d /\ m[2] = n
  BY DEF KeyPlaces
<1> DEFINE e == pairs[d][i].id
           g == pairs[f][m[1]].id
<1>1. m[1] \in DOMAIN pairs[f] /\ m[2] \in KeyIndexes
  OBVIOUS
<1>2. pairs[d][i] = Record(d, e) /\ pairs[f][m[1]] = Record(f, g)
  BY <1>1, RecordAt
<1> HIDE DEF e, g
<1>3. /\ pairs[f][m[1]].recv[m[2]].tkey = <<"ALsrc", m[2], <<"ALsrc", <<g, "AL", f>>>>>>
      /\ pairs[d][i].src[n].tkey = <<"ALsrc", n, <<"ALsrc", <<d, "AL", e>>>>>>
  BY <1>1, <1>2, RecordKeys
<1>4. <<"ALsrc", m[2], <<"ALsrc", <<g, "AL", f>>>>>> = <<"ALsrc", n, <<"ALsrc", <<d, "AL", e>>>>>>
        <=> g = d /\ f = e /\ m[2] = n
  BY KeysDiffer
<1>5. pairs[f][m[1]].recv[m[2]].tkey = pairs[d][i].src[n].tkey
        <=> g = d /\ f = e /\ m[2] = n
  BY <1>3, <1>4, Zenon
<1> QED
  BY <1>5 DEF e, g

LEMMA PlaceNames ==
  ASSUME IInv, NEW d \in Devices, NEW i \in DOMAIN pairs[d], NEW n \in KeyIndexes,
         NEW f \in Devices, NEW m \in KeyPlaces(f, pairs[d][i].src[n].tkey)
  PROVE  f = pairs[d][i].id /\ pairs[f][m[1]].id = d
BY PlacesOfKey

(* There is at most one such place ...                                     *)
LEMMA OnePlacePerKey ==
  ASSUME IInv, NEW d \in Devices, NEW i \in DOMAIN pairs[d], NEW n \in KeyIndexes,
         NEW f \in Devices, NEW m \in KeyPlaces(f, pairs[d][i].src[n].tkey),
         NEW k \in KeyPlaces(f, pairs[d][i].src[n].tkey)
  PROVE  m = k
<1>1. /\ m \in (DOMAIN pairs[f]) \X KeyIndexes /\ k \in (DOMAIN pairs[f]) \X KeyIndexes
      /\ pairs[f][m[1]].id = d /\ pairs[f][k[1]].id = d /\ m[2] = n /\ k[2] = n
  BY PlacesOfKey
<1>2. m[1] = k[1]
  <2>1. m[1] \in DOMAIN pairs[f] /\ k[1] \in DOMAIN pairs[f]
    BY <1>1
  <2> QED
    BY <1>1, <2>1, OneRecordPerId
<1>3. m = <<m[1], m[2]>> /\ k = <<k[1], k[2]>>
  BY <1>1
<1> QED
  BY <1>1, <1>2, <1>3

(* ... and it is what the search returns.                                  *)
LEMMA SearchFinds ==
  ASSUME IInv, NEW d \in Devices, NEW i \in DOMAIN pairs[d], NEW n \in KeyIndexes,
         NEW f \in Devices, NEW m \in KeyPlaces(f, pairs[d][i].src[n].tkey)
  PROVE  GetPairByTkey(f, pairs[d][i].src[n].tkey) = m
<1> DEFINE found == KeyPlaces(f, pairs[d][i].src[n].tkey)
<1>1. m \in (DOMAIN pairs[f]) \X KeyIndexes
  BY PlacesOfKey
<1>2. m[1] \in Nat /\ m[2] \in Nat
  <2>1. m[1] \in DOMAIN pairs[f] /\ m[2] \in KeyIndexes
    BY <1>1
  <2> QED
    BY <2>1, RecordAt, PairingAssumption DEF KeyIndexes
<1>3. NotBefore(m, m)
  BY <1>2 DEF NotBefore
<1>4. \A k \in found : k = m
  BY OnePlacePerKey
<1> HIDE DEF found
<1>5. (CHOOSE j \in found : \A k \in found : NotBefore(j, k)) = m
  <2>1. m \in found
    BY DEF found
  <2> QED
    BY <1>3, <1>4, <2>1
<1> QED
  BY <1>5 DEF GetPairByTkey, found

(* A packet made with a key of d's record of e is recognised by e, as d's  *)
(* and with the same encryption key, once e has a record of d.             *)
THEOREM PairedKeysMeet == Spec => []KeysMeet
<1>1. IInv => KeysMeet
  <2> SUFFICES ASSUME IInv, NEW d \in Devices, NEW e \in Devices,
                      NEW i \in DOMAIN pairs[d], NEW j \in DOMAIN pairs[e],
                      pairs[d][i].id = e, pairs[e][j].id = d,
                      NEW n \in KeyIndexes
               PROVE  /\ GetPairByTkey(e, pairs[d][i].src[n].tkey) = <<j, n>>
                      /\ pairs[e][j].recv[n].ekey = pairs[d][i].src[n].ekey
    BY DEF KeysMeet
  <2>1. <<j, n>> \in KeyPlaces(e, pairs[d][i].src[n].tkey)
    BY PlacesOfKey
  <2>2. pairs[d][i] = Record(d, e) /\ pairs[e][j] = Record(e, d)
    BY RecordAt
  <2>3. pairs[e][j].recv[n].ekey = pairs[d][i].src[n].ekey
    <3>1. Record(e, d).recv[n].ekey = Record(d, e).src[n].ekey
      BY EncryptionKeysMeet
    <3> QED
      BY <2>2, <3>1
  <2>4. GetPairByTkey(e, pairs[d][i].src[n].tkey) = <<j, n>>
    BY <2>1, SearchFinds, Zenon
  <2> QED
    BY <2>3, <2>4
<1> QED
  BY <1>1, InvariantHolds, PTL

(* Nobody but e recognises a packet that d makes for e, d itself included. *)
THEOREM NoStrangerMatches == Spec => []NoForeignMatch
<1>1. IInv => NoForeignMatch
  <2> SUFFICES ASSUME IInv, NEW d \in Devices, NEW f \in Devices,
                      NEW i \in DOMAIN pairs[d], NEW n \in KeyIndexes,
                      GetPairByTkey(f, pairs[d][i].src[n].tkey)[1] # NoRecord
               PROVE  LET found == GetPairByTkey(f, pairs[d][i].src[n].tkey)[1]
                      IN  f = pairs[d][i].id /\ pairs[f][found].id = d
    BY Zenon DEF NoForeignMatch
  <2>1. PICK m \in KeyPlaces(f, pairs[d][i].src[n].tkey) : TRUE
    BY DEF GetPairByTkey, NoRecord
  <2>2. GetPairByTkey(f, pairs[d][i].src[n].tkey) = m
    BY SearchFinds, Zenon
  <2>3. f = pairs[d][i].id /\ pairs[f][m[1]].id = d
    BY PlaceNames
  <2> QED
    BY <2>2, <2>3
<1> QED
  BY <1>1, InvariantHolds, PTL

-----------------------------------------------------------------------------
(* All records have one paired encryption key, so a digest made with one   *)
(* of them is found in every record.                                       *)
LEMMA HashFindsLast ==
  ASSUME IInv, NEW d \in Devices, NEW i \in DOMAIN pairs[d],
         NEW f \in Devices, pairs[f] # <<>>, NEW rnd
  PROVE  /\ GetPairByHash(f, HashTkey(pairs[d][i], rnd)) = Len(pairs[f])
         /\ Len(pairs[f]) \in DOMAIN pairs[f] /\ Len(pairs[f]) # 0
<1> DEFINE tkey == HashTkey(pairs[d][i], rnd)
           n == Len(pairs[f])
           found == {j \in DOMAIN pairs[f] : HashTkey(pairs[f][j], tkey[1]) = tkey}
<1>1. ASSUME NEW g \in Devices, NEW j \in DOMAIN pairs[g]
      PROVE  pairs[g][j].paired_encryption_key = <<"ALenc", "0x41">>
  <2>1. pairs[g][j] = Record(g, pairs[g][j].id)
    BY RecordAt
  <2>2. \A e : Record(g, e).paired_encryption_key = <<"ALenc", "0x41">>
    BY DEF Record, RecordOf, PairedEncryptionKey, PairedKey
  <2> QED
    BY <2>1, <2>2
<1>2. ASSUME NEW j \in DOMAIN pairs[f] PROVE HashTkey(pairs[f][j], tkey[1]) = tkey
  BY <1>1 DEF HashTkey
<1>3. found = DOMAIN pairs[f]
  BY <1>2
<1>4. DOMAIN pairs[f] = 1..n /\ n \in Nat
  BY RecordAt
<1>5. n # 0
  <2>1. Built(f)
    BY DEF IInv
  <2> QED
    BY <2>1, <1>4 DEF Built
<1> HIDE DEF found, n
<1>6. n \in found /\ \A k \in found : n >= k
  BY <1>3, <1>4, <1>5
<1>7. (CHOOSE j \in found : \A k \in found : j >= k) = n
  <2>1. ASSUME NEW j \in found, \A k \in found : j >= k PROVE j = n
    BY <1>3, <1>4, <1>6, <2>1
  <2> QED
    BY <1>6, <2>1
<1>8. GetPairByHash(f, tkey) = n
  BY <1>6, <1>7 DEF GetPairByHash, found
<1> QED
  BY <1>4, <1>5, <1>8 DEF n

(* The encryption keys of a record name both ends, too.                    *)
LEMMA RecordEkeys ==
  ASSUME NEW d, NEW e, NEW n \in KeyIndexes
  PROVE  /\ Record(d, e).src[n].ekey  = <<"ALenc", n, <<"ALsrc", <<d, "AL", e>>>>>>
         /\ Record(d, e).recv[n].ekey = <<"ALenc", n, <<"ALsrc", <<e, "AL", d>>>>>>
BY DEF Record, RecordOf, NewPair, TransmissionKeys, TransmissionKey, SourceKey,
       KeyFromInts

LEMMA EkeysDiffer ==
  ASSUME NEW a, NEW b, NEW k, NEW x, NEW y
  PROVE  <<"ALenc", k, <<"ALsrc", <<a, "AL", b>>>>>> = <<"ALenc", k, <<"ALsrc", <<x, "AL", y>>>>>>
           <=> a = x /\ b = y
OBVIOUS

(* With the hash method every device takes every packet for its own, and   *)
(* rightly so only if it is the addressee and paired with the sender last. *)
THEOREM HashTakesAll == Spec => []HashMethodMatches
<1>1. IInv => HashMethodMatches
  <2> SUFFICES ASSUME IInv, NEW d \in Devices, NEW f \in Devices,
                      NEW i \in DOMAIN pairs[d], pairs[f] # <<>>
               PROVE  LET j == GetPairByHash(f, HashTkey(pairs[d][i], "rnd"))
                      IN /\ j # NoRecord
                         /\ pairs[f][j].recv[HashIndex].ekey = pairs[d][i].src[HashIndex].ekey
                              <=> f = pairs[d][i].id /\ pairs[f][Len(pairs[f])].id = d
    BY Zenon DEF HashMethodMatches
  <2> DEFINE n == Len(pairs[f])
             e == pairs[d][i].id
             g == pairs[f][n].id
  <2>1. GetPairByHash(f, HashTkey(pairs[d][i], "rnd")) = n /\ n \in DOMAIN pairs[f] /\ n # 0
    BY HashFindsLast
  <2>2. pairs[d][i] = Record(d, e) /\ pairs[f][n] = Record(f, g)
    BY <2>1, RecordAt
  <2>3. HashIndex \in KeyIndexes
    BY PairingAssumption DEF HashIndex, KeyIndexes
  <2> HIDE DEF n, e, g
  <2>4. /\ pairs[f][n].recv[HashIndex].ekey = <<"ALenc", HashIndex, <<"ALsrc", <<g, "AL", f>>>>>>
        /\ pairs[d][i].src[HashIndex].ekey = <<"ALenc", HashIndex, <<"ALsrc", <<d, "AL", e>>>>>>
    BY <2>2, <2>3, RecordEkeys
  <2>5. <<"ALenc", HashIndex, <<"ALsrc", <<g, "AL", f>>>>>> =
        <<"ALenc", HashIndex, <<"ALsrc", <<d, "AL", e>>>>>> <=> g = d /\ f = e
    BY EkeysDiffer
  <2>6. pairs[f][n].recv[HashIndex].ekey = pairs[d][i].src[HashIndex].ekey <=> g = d /\ f = e
    BY <2>4, <2>5, Zenon
  <2> QED
    BY <2>1, <2>6 DEF n, e, g, NoRecord
<1> QED
  BY <1>1, InvariantHolds, PTL
=============================================================================
