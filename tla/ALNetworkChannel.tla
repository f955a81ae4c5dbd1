-------------------------- MODULE ALNetworkChannel --------------------------
(***************************************************************************)
(* What ALNetwork does with one transmission key of one direction of a     *)
(* pair: the packets under that key in the sender's hands, on their way to *)
(* the proxy and on their way to the receiver are the wire of a            *)
(* CipherContext, and its history is read off that of the network.         *)
(***************************************************************************)
EXTENDS ALNetwork

CONSTANT WatchedKey   \* <<from, to, number>>
ASSUME WatchedKeyAssumption == WatchedKey \in Keys

Sender   == WatchedKey[1]
Receiver == WatchedKey[2]

(* The frames encrypted under the key so far, those the receiver has       *)
(* unwrapped, and those on their way to it.                                *)
Wrapped == {f \in Frames : under[f].tkey = WatchedKey}
Unwrapped(right) ==
  {f \in Wrapped : \E i \in DOMAIN got[Receiver] :
     got[Receiver][i] = [frame |-> f, right |-> right]}
OnItsWay == {f \in Wrapped : InTransit(f, Receiver)}

(* They are on the wire in the order they were pushed to the sender, the   *)
(* order of their numbers.                                                 *)
Lists(w, F) ==
  /\ \A i, j \in DOMAIN w : i < j => w[i][2] < w[j][2]
  /\ \A f \in F : \E i \in DOMAIN w : w[i] = f
WatchedWire ==
  CHOOSE w \in [1..Cardinality(OnItsWay) -> OnItsWay] : Lists(w, OnItsWay)

EncryptedUnder == [f \in Frames |-> IF f \in Wrapped THEN under[f].iv ELSE NoFrame]
Lost == Wrapped \ (OnItsWay \cup Unwrapped(TRUE) \cup Unwrapped(FALSE))

Channel == INSTANCE CipherContext WITH
  DefaultIv <- NoFrame,
  txIv      <- txIv[WatchedKey],
  rxIv      <- rxIv[WatchedKey],
  wire      <- WatchedWire,
  pred      <- EncryptedUnder,
  wrapped   <- Wrapped,
  intact    <- Unwrapped(TRUE),
  damaged   <- Unwrapped(FALSE),
  lost      <- Lost,
  current   <- Unwrapped(TRUE) \cup Unwrapped(FALSE),
  txStarts  <- 0,
  rxStarts  <- 0

(* The packets under one key, whatever else the broadcast carries and      *)
(* whichever it drops, are a CipherContext: what is proved of that module  *)
(* holds of every pair of al_sim_device processes.                         *)
ImplementsChannel == Channel!Spec
=============================================================================
