----------------------------- MODULE ALNetwork -----------------------------
(***************************************************************************)
(* The running system: the al_sim_device processes, each with a sending    *)
(* and a receiving thread, and the proxy that broadcasts what they publish.*)
(*                                                                         *)
(* The sending thread of device d takes the frames its upper layer pushed, *)
(* wraps each one (Device_wrappacket), publishes it and logs its key.  The *)
(* receiving thread takes every broadcast packet, discards those whose key *)
(* is in the log, unwraps the others (Device_unwrappacket), and answers    *)
(* some of those it has no pairing record for with a pseudo response.  The *)
(* two threads share the log, last_sent_index and stop, with no lock.      *)
(*                                                                         *)
(* Abstractions.  A frame is <<source device, number>>; a transmission key *)
(* is <<from, to, number>>, and <<0, seed, number>> when it is one of the  *)
(* pseudo keys drawn after srand(seed): the keys hkdf derives and the      *)
(* random pseudo keys are distinct, but devices started within one second  *)
(* draw the same pseudo keys.  What a decryption yields follows from the   *)
(* IV its frame was encrypted under, as in module CipherContext.           *)
(*                                                                         *)
(* Of the log only what no race can take away is kept: which keys have     *)
(* ever been logged.  A check may miss any of them (not stored yet, pushed *)
(* out, half overwritten, moved behind the scan, lost to the other thread) *)
(* and recognises no other key, which module LastSent proves of the single *)
(* memory accesses (OnlyLoggedRecognised, FindsOnlySeen), where it also    *)
(* says when a key is missed.  What is assumed is that a store past the    *)
(* end of the log, which LastSent finds too, harms nothing else.           *)
(***************************************************************************)
EXTENDS Naturals, Sequences, FiniteSets

CONSTANTS
  Devices,      \* device ids, positive
  PairedWith,   \* PairedWith[d]: the devices d has a pairing record for
  Upper,        \* Upper[d]: destinations of the frames pushed to d, in order
  Seed,         \* Seed[d]: time(NULL) when d was started, which seeds rand()
  NumKeys,      \* NUM_TRANSMISSION_KEYS, and NUM_PSEUDO_TKEYS
  TotalToEnd,   \* TOTAL_TO_END
  Lossy,        \* a broadcast packet may reach only some devices, or none: a full
                \* or late subscription, a publisher that exits before libzmq has
                \* sent its queue
  Interrupted,  \* the devices that may receive SIGINT
  MaxPseudo     \* bound: pseudo responses per device

ASSUME DeviceAssumption == Devices \subseteq Nat \ {0}
ASSUME PairAssumption ==
  PairedWith \in [Devices -> SUBSET Devices] /\ \A d \in Devices : d \notin PairedWith[d]
ASSUME UpperAssumption == \A d \in Devices : Upper[d] \in Seq(Devices)
ASSUME SizeAssumption ==
  /\ NumKeys \in Nat \ {0} /\ TotalToEnd \in Nat \ {0}
  /\ Seed \in [Devices -> Nat]
  /\ Lossy \in BOOLEAN /\ Interrupted \subseteq Devices
  /\ MaxPseudo \in Nat

VARIABLES
  taken,     \* per device: number of frames taken from the upper layer's queue
  sPc, sPkt, \* sending thread: its next step, its packet
  rPc, rPkt, \* receiving thread: its next step, its packet
  logged,    \* per device: keys that have been put into last_sent
  txIv,      \* per key: Iv of the sender's context, the last frame encrypted
  rxIv,      \* per key: Iv of the receiver's context, the last frame decrypted
  pub,       \* per publisher socket: packets on their way to the proxy
  sub,       \* per device: packets on their way to its subscriber socket
  stop,      \* stop
  sent,      \* total_send_packet
  recv,      \* total_recv_packet
  noPair,    \* total_no_pair
  pseudo,    \* total_pseudo_gen
  under,     \* history: the key and the IV each frame was encrypted under
  got        \* history: frames each device unwrapped, and whether they were right

sendThread == <<taken, sPc, sPkt, txIv, sent, under>>
recvThread == <<rPc, rPkt, rxIv, recv, noPair, pseudo, got>>
vars == <<sendThread, recvThread, logged, pub, sub, stop>>

Frames  == UNION {{d} \X (1..Len(Upper[d])) : d \in Devices}
NoFrame == <<0, 0>>
NoKey   == <<0, 0, 0>>
PairKeys(s, d) == {<<s, d, n>> : n \in 1..NumKeys}
PseudoKeys(d)  == {<<0, Seed[d], n>> : n \in 1..NumKeys}
Keys    == UNION {PairKeys(s, d) : s \in Devices, d \in Devices}
Packet(k, f, d) == [tkey |-> k, frame |-> f, from |-> d]   \* from: history
NoPacket == Packet(NoKey, NoFrame, 0)
Sockets == Devices \X {"send", "recv"}

(* The threads of every process are at their first step, "poll", or, in    *)
(* module Experiment, the processes have not been started, "off".          *)
InitAt(step) ==
  /\ taken = [d \in Devices |-> 0]
  /\ sPc = [d \in Devices |-> step] /\ sPkt = [d \in Devices |-> NoPacket]
  /\ rPc = [d \in Devices |-> step] /\ rPkt = [d \in Devices |-> NoPacket]
  /\ logged = [d \in Devices |-> {}]
  /\ txIv = [k \in Keys |-> NoFrame] /\ rxIv = [k \in Keys |-> NoFrame]
  /\ pub = [s \in Sockets |-> <<>>] /\ sub = [d \in Devices |-> <<>>]
  /\ stop = [d \in Devices |-> FALSE]
  /\ sent = [d \in Devices |-> 0] /\ recv = [d \in Devices |-> 0]
  /\ noPair = [d \in Devices |-> 0] /\ pseudo = [d \in Devices |-> 0]
  /\ under = [f \in Frames |-> [tkey |-> NoKey, iv |-> NoFrame]]
  /\ got = [d \in Devices |-> <<>>]

Init == InitAt("poll")

-----------------------------------------------------------------------------
(* The log of sent keys.                                                   *)

(* Device_set_lastsent, as far as it is certain: from now on the key may   *)
(* be recognised.                                                          *)
LogKey(d, k) == logged' = [logged EXCEPT ![d] = @ \cup {k}]

(* The answers Device_check_lastsent may give.  Mutant: only part of the   *)
(* key is compared.                                                        *)
CheckLastSentPart(d, k) == IF \E l \in logged[d] : l[3] = k[3] THEN BOOLEAN ELSE {FALSE}
CheckLastSent(d, k) == IF k \in logged[d] THEN BOOLEAN ELSE {FALSE}

-----------------------------------------------------------------------------
(* zmq_send on a publisher socket.  Mutant: a retry that sends again.      *)
PublishTwice(s, p) == pub' = [pub EXCEPT ![s] = @ \o <<p, p>>]
Publish(s, p) == pub' = [pub EXCEPT ![s] = Append(@, p)]

(* The count that ends the process.  Mutant: one packet later.             *)
LimitPassed(n) == n > TotalToEnd
LimitReached(n) == n = TotalToEnd

-----------------------------------------------------------------------------
(* sim_send_data_thread.                                                   *)

(* while (!stop), when a packet is dealt with ...                          *)
NextTurn(d) == IF stop[d] THEN "done" ELSE "poll"

(* ... and on every turn of the polling loop that found NO_DATA.  A frame  *)
(* on its way is not data yet, so the loop may end with frames pending.    *)
SendQuit(d) ==
  /\ sPc[d] = "poll"
  /\ stop[d]
  /\ sPc' = [sPc EXCEPT ![d] = "done"]
  /\ UNCHANGED <<taken, sPkt, txIv, sent, under, recvThread, logged, pub, sub, stop>>

(* Device_wrappacket: a frame for a device without record is dropped; any  *)
(* other is encrypted in place under a key chosen by rand().               *)
WrapPacket(d, f, dst) ==
  \/ /\ dst \notin PairedWith[d]
     /\ sPc' = [sPc EXCEPT ![d] = NextTurn(d)]
     /\ UNCHANGED <<sPkt, txIv, under>>
  \/ /\ dst \in PairedWith[d]
     /\ \E k \in PairKeys(d, dst) :
          /\ under' = [under EXCEPT ![f] = [tkey |-> k, iv |-> txIv[k]]]
          /\ txIv' = [txIv EXCEPT ![k] = f]
          /\ sPkt' = [sPkt EXCEPT ![d] = Packet(k, f, d)]
     /\ sPc' = [sPc EXCEPT ![d] = "publish"]

(* A frame from the upper layer is taken and wrapped.                      *)
SendTake(d) ==
  /\ sPc[d] = "poll"
  /\ taken[d] < Len(Upper[d])
  /\ taken' = [taken EXCEPT ![d] = @ + 1]
  /\ WrapPacket(d, <<d, taken[d] + 1>>, Upper[d][taken[d] + 1])
  /\ UNCHANGED <<sent, recvThread, logged, pub, sub, stop>>

(* zmq_send.                                                               *)
SendPublish(d) ==
  /\ sPc[d] = "publish"
  /\ Publish(<<d, "send">>, sPkt[d])
  /\ sPc' = [sPc EXCEPT ![d] = "log"]
  /\ UNCHANGED <<taken, sPkt, txIv, sent, under, recvThread, logged, sub, stop>>

(* Device_set_lastsent of the packet's key, after it has been published.   *)
SendLog(d) ==
  /\ sPc[d] = "log"
  /\ LogKey(d, sPkt[d].tkey)
  /\ sPc' = [sPc EXCEPT ![d] = "count"]
  /\ UNCHANGED <<taken, sPkt, txIv, sent, under, recvThread, pub, sub, stop>>

(* total_send_packet++, and the process is told to stop at TOTAL_TO_END.   *)
SendCount(d) ==
  /\ sPc[d] = "count"
  /\ sent' = [sent EXCEPT ![d] = @ + 1]
  /\ IF LimitReached(sent'[d])
     THEN /\ stop' = [stop EXCEPT ![d] = TRUE]
          /\ sPc' = [sPc EXCEPT ![d] = "done"]
     ELSE /\ sPc' = [sPc EXCEPT ![d] = NextTurn(d)]
          /\ UNCHANGED stop
  /\ sPkt' = [sPkt EXCEPT ![d] = NoPacket]
  /\ UNCHANGED <<taken, txIv, under, recvThread, logged, pub, sub>>

SendStep(d) == \/ SendQuit(d) \/ SendTake(d) \/ SendPublish(d)
               \/ SendLog(d) \/ SendCount(d)

-----------------------------------------------------------------------------
(* sim_recv_data_thread.                                                   *)

(* The thread takes its next turn or ends; a packet just received is off   *)
(* the subscription.  What is left there when it ends is never read.       *)
RecvTurn(d, next) ==
  /\ rPc' = [rPc EXCEPT ![d] = next]
  /\ sub' = IF rPc[d] = "poll" THEN [sub EXCEPT ![d] = Tail(@)] ELSE sub

(* Mutant: zmq_recv blocks, and stop is looked at when a packet arrives.   *)
RecvQuitBlocked(d) ==
  /\ rPc[d] = "poll"
  /\ stop[d] /\ sub[d] # <<>>
  /\ rPc' = [rPc EXCEPT ![d] = "done"]
  /\ UNCHANGED <<sendThread, rPkt, rxIv, recv, noPair, pseudo, got, logged, pub, sub, stop>>
RecvQuit(d) ==
  /\ rPc[d] = "poll"
  /\ stop[d]
  /\ rPc' = [rPc EXCEPT ![d] = "done"]
  /\ UNCHANGED <<sendThread, rPkt, rxIv, recv, noPair, pseudo, got, logged, pub, sub, stop>>

(* The packet's key is one this device logged: "Disregard packet."         *)
RecvDisregard(d) ==
  /\ rPc[d] = "poll"
  /\ sub[d] # <<>>
  /\ TRUE \in CheckLastSent(d, Head(sub[d]).tkey)
  /\ RecvTurn(d, NextTurn(d))
  /\ UNCHANGED <<sendThread, rPkt, rxIv, recv, noPair, pseudo, got, logged, pub, stop>>

(* Device_getpair_by_tkey: the key is a receive key of one of d's records. *)
(* Mutants: a record's last key is not compared; a key sent to any device  *)
(* is taken for one of its sender's record.                                *)
KnowsKeyShort(d, k)  == k[2] = d /\ k[1] \in PairedWith[d] /\ k[3] < NumKeys
KnowsKeyOfPeer(d, k) == k[1] \in PairedWith[d]
KnowsKey(d, k) == k[2] = d /\ k[1] \in PairedWith[d]

(* The IV AES_CBC_decrypt_buffer leaves in the context of key k.  Mutant:  *)
(* the one it found there.                                                 *)
IvAfterDecryptKept(k, f) == rxIv[k]
IvAfterDecrypt(k, f) == f

(* Device_unwrappacket with a record: decrypted, whatever comes out.       *)
RecvUnwrap(d) ==
  /\ rPc[d] = "poll"
  /\ sub[d] # <<>>
  /\ LET p == Head(sub[d]) IN
       /\ FALSE \in CheckLastSent(d, p.tkey)
       /\ KnowsKey(d, p.tkey)
       /\ got' = [got EXCEPT ![d] =
                    Append(@, [frame |-> p.frame,
                               right |-> rxIv[p.tkey] = under[p.frame].iv])]
       /\ rxIv' = [rxIv EXCEPT ![p.tkey] = IvAfterDecrypt(p.tkey, p.frame)]
  /\ RecvTurn(d, "work")
  /\ UNCHANGED <<sendThread, rPkt, recv, noPair, pseudo, logged, pub, stop>>

(* total_no_pair++.  Mutant: left out.                                     *)
CountNoPairNot(d) == UNCHANGED noPair
CountNoPair(d) == noPair' = [noPair EXCEPT ![d] = @ + 1]

(* NO_PAIR, and rand() % 5 decides whether to answer it.                   *)
RecvNoPair(d) ==
  /\ rPc[d] = "poll"
  /\ sub[d] # <<>>
  /\ FALSE \in CheckLastSent(d, Head(sub[d]).tkey)
  /\ ~KnowsKey(d, Head(sub[d]).tkey)
  /\ \/ /\ pseudo[d] < MaxPseudo
        /\ \E k \in PseudoKeys(d) : rPkt' = [rPkt EXCEPT ![d] = Packet(k, NoFrame, d)]
        /\ RecvTurn(d, "publish")
        /\ UNCHANGED noPair
     \/ /\ CountNoPair(d)
        /\ RecvTurn(d, "work")
        /\ UNCHANGED rPkt
  /\ UNCHANGED <<sendThread, rxIv, recv, pseudo, got, logged, pub, stop>>

(* zmq_send of the pseudo response.                                        *)
RecvPublish(d) ==
  /\ rPc[d] = "publish"
  /\ Publish(<<d, "recv">>, rPkt[d])
  /\ rPc' = [rPc EXCEPT ![d] = "log"]
  /\ UNCHANGED <<sendThread, rPkt, rxIv, recv, noPair, pseudo, got, logged, sub, stop>>

(* Device_set_lastsent of its key, then total_pseudo_gen++.                *)
RecvLog(d) ==
  /\ rPc[d] = "log"
  /\ LogKey(d, rPkt[d].tkey)
  /\ pseudo' = [pseudo EXCEPT ![d] = @ + 1]
  /\ CountNoPair(d)
  /\ rPkt' = [rPkt EXCEPT ![d] = NoPacket]
  /\ rPc' = [rPc EXCEPT ![d] = "work"]
  /\ UNCHANGED <<sendThread, rxIv, recv, got, pub, sub, stop>>

(* The simulated work, then total_recv_packet++: packets without a record  *)
(* count as received, and towards TOTAL_TO_END, like the others.           *)
RecvWork(d) ==
  /\ rPc[d] = "work"
  /\ recv' = [recv EXCEPT ![d] = @ + 1]
  /\ IF LimitReached(recv'[d])
     THEN stop' = [stop EXCEPT ![d] = TRUE] /\ RecvTurn(d, "done")
     ELSE UNCHANGED stop /\ RecvTurn(d, NextTurn(d))
  /\ UNCHANGED <<sendThread, rPkt, rxIv, noPair, pseudo, got, logged, pub>>

RecvStep(d) == \/ RecvQuit(d) \/ RecvDisregard(d) \/ RecvUnwrap(d)
               \/ RecvNoPair(d) \/ RecvPublish(d) \/ RecvLog(d) \/ RecvWork(d)

-----------------------------------------------------------------------------
(* The proxy copies the oldest packet of a publisher to every subscriber,  *)
(* its publisher's own process included; a lossy broadcast reaches any of  *)
(* them.  (zmq_proxy: per publisher first in, first out, at most once.)    *)
Subscribed(d) == rPc[d] \notin {"off", "done"}
Forward(s) ==
  /\ pub[s] # <<>>
  /\ pub' = [pub EXCEPT ![s] = Tail(@)]
  /\ \E reached \in SUBSET Devices :
       /\ Lossy \/ reached = Devices
       /\ sub' = [d \in Devices |->
                    IF d \in reached /\ Subscribed(d)
                    THEN Append(sub[d], Head(pub[s])) ELSE sub[d]]
  /\ UNCHANGED <<sendThread, recvThread, logged, stop>>

(* handle_signal.                                                          *)
HandleSignal(d) ==
  /\ d \in Interrupted
  /\ sPc[d] # "off" /\ ~stop[d]
  /\ stop' = [stop EXCEPT ![d] = TRUE]
  /\ UNCHANGED <<sendThread, recvThread, logged, pub, sub>>

Next == \/ \E d \in Devices : SendStep(d) \/ RecvStep(d) \/ HandleSignal(d)
        \/ \E s \in Sockets : Forward(s)

Spec == Init /\ [][Next]_vars

-----------------------------------------------------------------------------
(* Types, and that no counter passes the limit that ends the process.      *)
TypeOK ==
  /\ taken \in [Devices -> Nat] /\ \A d \in Devices : taken[d] <= Len(Upper[d])
  /\ sPc \in [Devices -> {"off", "poll", "publish", "log", "count", "done"}]
  /\ rPc \in [Devices -> {"off", "poll", "publish", "log", "work", "done"}]
  /\ stop \in [Devices -> BOOLEAN]
  /\ sent \in [Devices -> 0..TotalToEnd] /\ recv \in [Devices -> 0..TotalToEnd]
  /\ txIv \in [Keys -> Frames \cup {NoFrame}]
  /\ rxIv \in [Keys -> Frames \cup {NoFrame}]

(* A broadcast reaches every device, and only the one the upper layer      *)
(* addressed the frame to ever decrypts it.                                *)
OnlyAddressee ==
  \A d \in Devices : \A i \in DOMAIN got[d] :
    LET f == got[d][i].frame IN f \in Frames /\ Upper[f[1]][f[2]] = d

(* What a device unwraps from another comes in the order it was pushed     *)
(* there, each frame at most once, whatever the broadcast drops.           *)
InOrderOnce ==
  \A d \in Devices : \A i, j \in DOMAIN got[d] :
    LET f == got[d][i].frame
        g == got[d][j].frame
    IN i < j /\ f[1] = g[1] => f[2] < g[2]

(* With nothing lost, no interleaving of the threads and the proxy makes   *)
(* the two contexts of a key diverge: every frame comes out right.         *)
RightIfNothingLost ==
  ~Lossy => \A d \in Devices : \A i \in DOMAIN got[d] : got[d][i].right

(* With nothing lost, a frame that was taken for a paired device has been  *)
(* unwrapped there or is on its way, as long as that device is receiving:  *)
(* none is disregarded as an echo, answered as a stranger's, or left in a  *)
(* socket of its sender.                                                   *)
Arrived(f, d) == \E i \in DOMAIN got[d] : got[d][i].frame = f
Carries(packets, f) == \E i \in DOMAIN packets : packets[i].frame = f
InTransit(f, d) == \/ sPc[f[1]] = "publish" /\ sPkt[f[1]].frame = f
                  \/ Carries(pub[<<f[1], "send">>], f)
                  \/ Carries(sub[d], f)
NoFrameForgotten ==
  ~Lossy => \A f \in Frames :
    LET d == Upper[f[1]][f[2]] IN
    /\ f[2] <= taken[f[1]]
    /\ d \in PairedWith[f[1]] /\ f[1] \in PairedWith[d]
    => Arrived(f, d) \/ InTransit(f, d) \/ rPc[d] = "done"

(* A device that has not yet stopped has accounted for every packet it     *)
(* counted: unwrapped or without a record, its own echoes among the latter.*)
CountsAgree ==
  \A d \in Devices :
    /\ pseudo[d] <= noPair[d]
    /\ rPc[d] \in {"poll", "done"} => recv[d] = Len(got[d]) + noPair[d]

-----------------------------------------------------------------------------
(* The inductive invariant of TypeOK, OnlyAddressee, InOrderOnce and       *)
(* CountsAgree.                                                            *)

(* A packet is a pseudo response, or carries a frame under a key of its    *)
(* sender's record of the frame's destination.                             *)
WirePackets ==
  {p \in [tkey : Nat \X Nat \X Nat, frame : Frames \cup {NoFrame}, from : Devices] :
     IF p.frame = NoFrame THEN p.tkey[1] = 0
     ELSE p.tkey[1] = p.frame[1] /\ p.tkey[2] = Upper[p.frame[1]][p.frame[2]]}

Results == [frame : Frames, right : BOOLEAN]

Shapes ==
  /\ sPkt \in [Devices -> WirePackets \cup {NoPacket}]
  /\ rPkt \in [Devices -> WirePackets \cup {NoPacket}]
  /\ pub \in [Sockets -> Seq(WirePackets)] /\ sub \in [Devices -> Seq(WirePackets)]
  /\ got \in [Devices -> Seq(Results)]
  /\ noPair \in [Devices -> Nat] /\ pseudo \in [Devices -> Nat]
  /\ DOMAIN logged = Devices
  /\ \A d \in Devices :
       /\ sPc[d] = "publish" => sPkt[d].frame = <<d, taken[d]>>
       /\ rPc[d] = "publish" => rPkt[d] # NoPacket /\ rPkt[d].frame = NoFrame
       /\ \A i \in DOMAIN got[d] : Upper[got[d][i].frame[1]][got[d][i].frame[2]] = d

(* No thread goes on at the limit, and what the receiving thread has in    *)
(* hand has not been counted.                                              *)
Counting(d) ==
  /\ sPc[d] # "done" => sent[d] < TotalToEnd
  /\ rPc[d] # "done" => recv[d] < TotalToEnd
  /\ pseudo[d] <= noPair[d]
  /\ recv[d] + (IF rPc[d] = "work" THEN 1 ELSE 0) = Len(got[d]) + noPair[d]

(* Along its way, from the upper layer over the publisher's socket and the *)
(* subscription into the receiver, a stream of frames is in order.         *)
FramesIn(q) == {q[i].frame : i \in DOMAIN q} \ {NoFrame}
Before(F, G) == \A f \in F, g \in G : f[1] = g[1] => f[2] < g[2]
Sorted(q) ==
  \A i, j \in DOMAIN q :
    i < j /\ q[i].frame # NoFrame /\ q[i].frame[1] = q[j].frame[1]
    => q[i].frame[2] < q[j].frame[2]
Published(d) == IF sPc[d] = "publish" THEN taken[d] - 1 ELSE taken[d]

Ordered ==
  /\ \A d \in Devices : /\ Sorted(got[d]) /\ Sorted(sub[d])
                         /\ Before(FramesIn(got[d]), FramesIn(sub[d]))
                         /\ \A f \in FramesIn(got[d]) \cup FramesIn(sub[d]) :
                              f[2] <= Published(f[1])
  /\ \A s \in Sockets : /\ Sorted(pub[s])
                         /\ \A f \in FramesIn(pub[s]) :
                              s = <<f[1], "send">> /\ f[2] <= Published(f[1])
  /\ \A d \in Devices, s \in Sockets :
       Before(FramesIn(got[d]) \cup FramesIn(sub[d]), FramesIn(pub[s]))

IInv == TypeOK /\ Shapes /\ (\A d \in Devices : Counting(d)) /\ Ordered

-----------------------------------------------------------------------------
(* The inductive invariant of NoFrameForgotten and RightIfNothingLost.     *)

(* A device logs keys of its own packets and pseudo keys, and subscribes   *)
(* until its receiving thread ends.                                        *)
OwnKeys ==
  \A d \in Devices :
    /\ rPc[d] # "off"
    /\ sPkt[d].tkey[1] \in {0, d} /\ rPkt[d].tkey[1] = 0
    /\ \A k \in logged[d] : k[1] \in {0, d}

(* A frame has been wrapped if it was taken for a paired device, under one *)
(* of the keys of that pair, and packets carry the key of their frame.     *)
IsWrapped(f) == f[2] <= taken[f[1]] /\ Upper[f[1]][f[2]] \in PairedWith[f[1]]
PacketsIn(q) == {q[i] : i \in DOMAIN q}
CarriesItsKey(p) == p.frame # NoFrame => p.tkey = under[p.frame].tkey

Labelled ==
  /\ under \in [Frames -> [tkey : Nat \X Nat \X Nat, iv : Frames \cup {NoFrame}]]
  /\ \A f \in Frames :
       IF IsWrapped(f) THEN under[f].tkey \in PairKeys(f[1], Upper[f[1]][f[2]])
                       ELSE under[f].tkey = NoKey
  /\ \A d \in Devices : /\ sPc[d] = "publish" => CarriesItsKey(sPkt[d])
                        /\ \A p \in PacketsIn(sub[d]) : CarriesItsKey(p)
                        /\ \A f \in FramesIn(got[d]) : IsWrapped(f) /\ f[1] \in PairedWith[d]
  /\ \A s \in Sockets : \A p \in PacketsIn(pub[s]) : CarriesItsKey(p)

(* Each frame is encrypted under the one before it under its key, and the  *)
(* contexts hold the last one encrypted and the last one decrypted.        *)
WrappedUnder(k)   == {f \in Frames : under[f].tkey = k}
DecryptedUnder(k) == WrappedUnder(k) \cap FramesIn(got[k[2]])
IsLast(iv, F) ==
  IF F = {} THEN iv = NoFrame ELSE iv \in F /\ \A f \in F : f[2] <= iv[2]

Chained ==
  /\ \A f \in Frames : IsWrapped(f) =>
       IsLast(under[f].iv, {g \in WrappedUnder(under[f].tkey) : g[2] < f[2]})
  /\ \A k \in Keys : /\ IsLast(txIv[k], WrappedUnder(k))
                     /\ IsLast(rxIv[k], DecryptedUnder(k))

(* NoFrameForgotten, with the frames of a queue as a set.                  *)
InHand(f) ==
  LET d == Upper[f[1]][f[2]] IN
  \/ rPc[d] = "done"
  \/ sPc[f[1]] = "publish" /\ sPkt[f[1]].frame = f
  \/ f \in FramesIn(pub[<<f[1], "send">>]) \cup FramesIn(sub[d]) \cup FramesIn(got[d])
Kept == ~Lossy => \A f \in Frames :
  IsWrapped(f) /\ f[1] \in PairedWith[Upper[f[1]][f[2]]] => InHand(f)

(* With nothing lost, what a device has unwrapped from another is an       *)
(* initial part of what that one has wrapped for it: nothing is skipped.   *)
NoGaps ==
  ~Lossy => \A d \in Devices : \A f \in Frames, g \in FramesIn(got[d]) :
    /\ IsWrapped(f) /\ Upper[f[1]][f[2]] = d
    /\ f[1] = g[1] /\ f[2] < g[2]
    => f \in FramesIn(got[d])

ChainInv ==
  IInv /\ OwnKeys /\ Labelled /\ Chained /\ Kept /\ RightIfNothingLost /\ NoGaps

=============================================================================
