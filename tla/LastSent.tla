------------------------------ MODULE LastSent ------------------------------
(***************************************************************************)
(* The log of sent transmission keys of one device (Device.last_sent and   *)
(* last_sent_index), and the threads of al_sim_device that use it with no  *)
(* lock: the sending thread logs every packet it has published, the        *)
(* receiving thread checks every packet that arrives and logs every pseudo *)
(* response it has published.  (dev_mutex is declared and never used.)     *)
(*                                                                         *)
(* The accesses race, so the steps are the loads and stores of the source: *)
(* Device_set_lastsent loads the index, stores the first bytes of the key  *)
(* at it, then the last ones, loads the index again and stores it          *)
(* incremented, compares it with the size of the array, and stores 0 when  *)
(* they are equal.  A compiler may merge some of these (one store of the   *)
(* next index, a comparison in a register): what it then does, the steps   *)
(* below can do too.                                                       *)
(*                                                                         *)
(* Between the increment and the reset the index is one past the array,    *)
(* and a call that loads it there writes last_sent[RingSize]: in struct    *)
(* device_struct that is last_sent_index itself.                           *)
(***************************************************************************)
EXTENDS Naturals, Sequences

CONSTANTS Writers,    \* threads that call Device_set_lastsent
          Checkers,   \* threads that call Device_check_lastsent
          Keys,       \* transmission keys
          NoKey,      \* the zero key the log is filled with by Device_init
          RingSize,   \* NUM_LAST_SENT_ARRAY_SIZE
          IndexRange  \* 2^32, the values of the uint32_t index

ASSUME RingAssumption == RingSize \in Nat \ {0}
ASSUME IndexAssumption == IndexRange \in Nat /\ IndexRange > RingSize
ASSUME KeyAssumption == NoKey \notin Keys

VARIABLES
  lastSent,   \* last_sent: each slot <<first four bytes, last two bytes>>
  index,      \* last_sent_index
  pc,         \* per thread: the next step of the call it is in, or "idle"
  arg,        \* per thread: the key of the call it is in
  slot,       \* per thread: the index it has loaded or stored, or the slot it scans
  found,      \* per thread: result of its last Device_check_lastsent
  returned,   \* history: keys of the last RingSize completed calls, in order
  logged,     \* history: keys ever passed to Device_set_lastsent
  held,       \* history, per thread: slots that held its key all through the check
  seen,       \* history, per thread: its key was in the log at some time of it
  recent,     \* history, per thread: for each call that had logged its key when the
              \* check began, the calls that have begun to write after it, while
              \* fewer than RingSize have
  raced,      \* history: two threads have been in Device_set_lastsent at once
  overtaken   \* history: a call loaded the index before another had reset it

history == <<held, seen, recent, raced, overtaken>>
vars == <<lastSent, index, pc, arg, slot, found, returned, logged, history>>

Threads == Writers \cup Checkers
Slots   == 0..(RingSize - 1)
Indexes == 0..(IndexRange - 1)

Holds(s, k) == lastSent[s] = <<k, k>>
InLog(k)    == \E s \in Slots : Holds(s, k)

(* dev->last_sent_index++.  Mutant: left out.                              *)
IncrementedNot(i) == i
Incremented(i) == (i + 1) % IndexRange

(* Whether the index is to be reset.  Mutants: one call late, one early.   *)
AtEndLate(i)  == i = RingSize + 1
AtEndEarly(i) == i + 1 = RingSize
AtEnd(i) == i = RingSize

LastOf(q, n) == SubSeq(q, (IF Len(q) > n THEN Len(q) - n ELSE 0) + 1, Len(q))

(* Device_init clears the log.  Mutant: it holds what malloc returned.     *)
UnclearedLog == [s \in Slots |-> LET k == CHOOSE k \in Keys : TRUE IN <<k, k>>]
ClearedLog == [s \in Slots |-> <<NoKey, NoKey>>]

Init ==
  /\ lastSent = ClearedLog
  /\ index = 0
  /\ pc = [t \in Threads |-> "idle"]
  /\ arg = [t \in Threads |-> NoKey]
  /\ slot = [t \in Threads |-> 0]
  /\ found = [t \in Threads |-> FALSE]
  /\ returned = <<>>
  /\ logged = {}
  /\ held = [t \in Threads |-> {}]
  /\ seen = [t \in Threads |-> FALSE]
  /\ recent = [t \in Threads |-> {}]
  /\ raced = FALSE
  /\ overtaken = FALSE

-----------------------------------------------------------------------------
(* Device_set_lastsent, one action per memory access.                      *)
SetCall(t, k) ==
  /\ pc[t] = "idle"
  /\ pc' = [pc EXCEPT ![t] = "head"]
  /\ arg' = [arg EXCEPT ![t] = k]
  /\ slot' = [slot EXCEPT ![t] = index]
  /\ logged' = logged \cup {k}
  /\ UNCHANGED <<lastSent, index, found, returned>>

(* memcpy, first part.  Behind the array lies the index, which takes the   *)
(* bytes of the key for a number, and behind that nothing of the log.      *)
SetHead(t) ==
  /\ pc[t] = "head"
  /\ \/ /\ slot[t] \in Slots
        /\ lastSent' = [lastSent EXCEPT ![slot[t]] = <<arg[t], @[2]>>]
        /\ UNCHANGED index
     \/ /\ slot[t] = RingSize
        /\ index' \in Indexes
        /\ UNCHANGED lastSent
     \/ /\ slot[t] > RingSize
        /\ UNCHANGED <<lastSent, index>>
  /\ pc' = [pc EXCEPT ![t] = "tail"]
  /\ UNCHANGED <<arg, slot, found, returned, logged>>

SetTail(t) ==
  /\ pc[t] = "tail"
  /\ lastSent' = IF slot[t] \in Slots
                 THEN [lastSent EXCEPT ![slot[t]] = <<@[1], arg[t]>>] ELSE lastSent
  /\ pc' = [pc EXCEPT ![t] = "reload"]
  /\ UNCHANGED <<index, arg, slot, found, returned, logged>>

SetReload(t) ==
  /\ pc[t] = "reload"
  /\ slot' = [slot EXCEPT ![t] = index]
  /\ pc' = [pc EXCEPT ![t] = "store"]
  /\ UNCHANGED <<lastSent, index, arg, found, returned, logged>>

SetStore(t) ==
  /\ pc[t] = "store"
  /\ index' = Incremented(slot[t])
  /\ slot' = [slot EXCEPT ![t] = index']
  /\ pc' = [pc EXCEPT ![t] = "test"]
  /\ UNCHANGED <<lastSent, arg, found, returned, logged>>

SetReturns(t) ==
  /\ returned' = LastOf(Append(returned, arg[t]), RingSize)
  /\ pc' = [pc EXCEPT ![t] = "idle"]

(* What is compared is the index as loaded again, or as it was stored.     *)
SetTest(t) ==
  /\ pc[t] = "test"
  /\ \E i \in {index, slot[t]} :
       \/ AtEnd(i) /\ pc' = [pc EXCEPT ![t] = "reset"] /\ UNCHANGED returned
       \/ ~AtEnd(i) /\ SetReturns(t)
  /\ UNCHANGED <<lastSent, index, arg, slot, found, logged>>

SetReset(t) ==
  /\ pc[t] = "reset"
  /\ index' = 0
  /\ SetReturns(t)
  /\ UNCHANGED <<lastSent, arg, slot, found, logged>>

(* Device_check_lastsent: the slots in order, up to the first match.       *)
CheckCall(t, k) ==
  /\ pc[t] = "idle"
  /\ pc' = [pc EXCEPT ![t] = "scan"]
  /\ arg' = [arg EXCEPT ![t] = k]
  /\ slot' = [slot EXCEPT ![t] = 0]
  /\ UNCHANGED <<lastSent, index, found, returned, logged>>

(* memcmp of one slot with the key.  Mutant: of its first four bytes.      *)
MatchesHead(s, k) == lastSent[s][1] = k
Matches(s, k) == lastSent[s][1] = k /\ lastSent[s][2] = k

(* Where the scan ends.  Mutants: one slot early, one late.                *)
LastSlotEarly == RingSize - 2
LastSlotLate == RingSize
LastSlot == RingSize - 1

CheckSlot(t) ==
  /\ pc[t] = "scan"
  /\ \/ /\ Matches(slot[t], arg[t])
        /\ found' = [found EXCEPT ![t] = TRUE]
        /\ pc' = [pc EXCEPT ![t] = "idle"]
        /\ UNCHANGED slot
     \/ /\ ~Matches(slot[t], arg[t]) /\ slot[t] # LastSlot
        /\ slot' = [slot EXCEPT ![t] = @ + 1]
        /\ UNCHANGED <<pc, found>>
     \/ /\ ~Matches(slot[t], arg[t]) /\ slot[t] = LastSlot
        /\ found' = [found EXCEPT ![t] = FALSE]
        /\ pc' = [pc EXCEPT ![t] = "idle"]
        /\ UNCHANGED slot
  /\ UNCHANGED <<lastSent, index, arg, returned, logged>>

(* History only: what was in the log while each check has been running,    *)
(* how many calls have begun to write since its key was logged (counted    *)
(* as long as calls do not overlap), and whether the calls of two writers  *)
(* have overlapped, or one has loaded the index past the array.            *)
Setting == {"head", "tail", "reload", "store", "test", "reset"}
Writing == {t \in Threads : pc[t] \in Setting \ {"head"}}
UnderWay == IF Writing = {} THEN 0 ELSE 1
CallsSince(k) ==
  {Len(returned) - j + UnderWay : j \in {i \in 1..Len(returned) : returned[i] = k}}

Observe ==
  LET holding(t)  == {s \in Slots : Holds(s, arg[t])}'
      starts(t)   == pc[t] # "scan" /\ pc'[t] = "scan"
      someWrites  == \E u \in Threads : pc[u] = "head" /\ pc'[u] = "tail"
      loads(t)    == pc[t] # pc'[t] /\ pc'[t] \in {"head", "store"}
  IN /\ held' = [t \in Threads |->
           CASE starts(t)      -> holding(t)
             [] pc[t] = "scan" -> held[t] \cap holding(t)
             [] OTHER          -> held[t]]
     /\ seen' = [t \in Threads |->
           CASE starts(t)      -> holding(t) # {}
             [] pc[t] = "scan" -> seen[t] \/ holding(t) # {}
             [] OTHER          -> seen[t]]
     /\ recent' = [t \in Threads |->
           CASE starts(t)                    -> CallsSince(arg'[t]) \ {RingSize}
             [] pc[t] = "scan" /\ someWrites -> {n + 1 : n \in recent[t]} \ {RingSize}
             [] OTHER                        -> recent[t]]
     /\ raced' = (raced \/ \E t, u \in Threads :
                            t # u /\ pc'[t] \in Setting /\ pc'[u] \in Setting)
     /\ overtaken' = (overtaken \/ \E t, u \in Threads :
                        /\ t # u /\ loads(t)
                        /\ index = RingSize /\ pc[u] \in {"test", "reset"})

Step(t) ==
  \/ t \in Writers /\ \E k \in Keys : SetCall(t, k)
  \/ SetHead(t) \/ SetTail(t) \/ SetReload(t) \/ SetStore(t) \/ SetTest(t) \/ SetReset(t)
  \/ t \in Checkers /\ \E k \in Keys : CheckCall(t, k)
  \/ CheckSlot(t)

Next == (\E t \in Threads : Step(t)) /\ Observe

Spec == Init /\ [][Next]_vars

-----------------------------------------------------------------------------
(* The types of the log and of the threads' registers.                     *)
TypeOK ==
  /\ lastSent \in [Slots -> (Keys \cup {NoKey}) \X (Keys \cup {NoKey})]
  /\ index \in Indexes
  /\ pc \in [Threads -> {"idle", "scan"} \cup Setting]
  /\ arg \in [Threads -> Keys \cup {NoKey}]
  /\ slot \in [Threads -> Indexes]
  /\ \A t \in Threads : pc[t] = "scan" => slot[t] \in Slots
  /\ found \in [Threads -> BOOLEAN]
  /\ returned \in Seq(Keys \cup {NoKey}) /\ Len(returned) <= RingSize
  /\ logged \subseteq Keys
  /\ held \in [Threads -> SUBSET Slots]
  /\ seen \in [Threads -> BOOLEAN]
  /\ recent \in [Threads -> SUBSET (0..(RingSize - 1))]
  /\ raced \in BOOLEAN /\ overtaken \in BOOLEAN

(* Two calls may overlap in any way and the log is still written inside    *)
(* its array, and the index past it only while a call is about to reset    *)
(* it, as long as no call loads the index at such a moment.  (One that     *)
(* does writes outside the array, or takes the index further.)             *)
IndexInArray ==
  ~overtaken =>
    /\ \A t \in Threads : pc[t] \in {"head", "tail"} => slot[t] \in Slots
    /\ \/ index \in Slots
       \/ index = RingSize /\ \E t \in Threads : pc[t] \in {"test", "reset"}

(* "Log which address we sent to so we do not receive it on the broadcast":*)
(* a check misses a key that was logged for one of three reasons only.  The*)
(* check began before the call that logs it had returned, or RingSize      *)
(* calls have begun to write since that call (they may also log the key    *)
(* itself: into a slot the check has passed, or not done so by its end),   *)
(* or two calls have overlapped.                                           *)
MissHasCause ==
  \A t \in Checkers : pc[t] # "scan" /\ ~found[t] => recent[t] = {} \/ raced

(* A check that runs while the log is being written finds the key if some  *)
(* slot held it from its first to its last comparison ...                  *)
CheckFindsHeld ==
  \A t \in Checkers : pc[t] # "scan" /\ held[t] # {} => found[t]

(* ... and reports it only if it was in the log at some moment between.    *)
CheckFindsOnlySeen ==
  \A t \in Checkers : pc[t] # "scan" /\ found[t] => seen[t]

(* However the writers' stores mix in one slot, the log never recognises a *)
(* key that no call logged: no packet of another device is dropped.        *)
RecognisedWasLogged ==
  \A k \in Keys : InLog(k) => k \in logged

-----------------------------------------------------------------------------
(* The inductive invariant of those above but MissHasCause, which speaks   *)
(* of calls that do not overlap.  Of a check in progress it says that the  *)
(* slots already compared have not held the key all through; of the index  *)
(* past the array, that a thread is about to see it there.                 *)
StoresLogged ==
  /\ \A s \in Slots : /\ lastSent[s][1] \in logged \cup {NoKey}
                      /\ lastSent[s][2] \in logged \cup {NoKey}
  /\ \A t \in Threads : pc[t] \in {"head", "tail"} => arg[t] \in logged

CheckSound(t) ==
  IF pc[t] = "scan" THEN \A s \in held[t] : s >= slot[t] /\ Holds(s, arg[t])
  ELSE (held[t] # {} => found[t]) /\ (found[t] => seen[t])

ChecksSound == \A t \in Threads : CheckSound(t)

IndexSeen ==
  ~overtaken =>
    /\ index \in Slots \cup {RingSize}
    /\ \A t \in Threads : pc[t] \in {"head", "tail", "store"} => slot[t] \in Slots
    /\ index = RingSize =>
         \E t \in Threads : \/ pc[t] = "reset"
                            \/ pc[t] = "test" /\ slot[t] = RingSize

IInv == TypeOK /\ StoresLogged /\ ChecksSound /\ IndexSeen

(* The inductive invariant of MissHasCause.  Until two calls overlap, the  *)
(* one in progress works on the slot at the index, which it has left       *)
(* behind when it has incremented it (Current), and each of the last keys  *)
(* is in the slot as many places behind that; the oldest one's is that     *)
(* slot itself, once the log is full.                                      *)
InStep(S) == \E t \in Threads : pc[t] \in S
Stored    == {"reload", "store", "test", "reset"}
Current   == IF InStep({"test", "reset"}) THEN index - 1 ELSE index
Behind(i) == IF Current >= i THEN Current - i ELSE Current - i + RingSize
OneWriter ==
  /\ \A t \in Threads : pc[t] \in Setting =>
       /\ slot[t] = index
       /\ \A u \in Threads : pc[u] \in Setting => u = t
       /\ pc[t] = "tail" => lastSent[index][1] = arg[t]
       /\ pc[t] \in {"test", "reset"} => index > 0
       /\ pc[t] \in Stored => Holds(Current, arg[t])
       /\ pc[t] = "reset" => index = RingSize
  /\ index = RingSize => InStep({"test", "reset"})
LastKeysInPlace ==
  \A i \in 1..Len(returned) :
    (i = RingSize => Writing = {}) => Holds(Behind(i), returned[Len(returned) + 1 - i])

(* A check whose key was logged fewer than RingSize calls ago has held the *)
(* slot of that call all through.                                          *)
RecentHeld ==
  \A t \in Threads : pc[t] = "scan" =>
    \A n \in recent[t] : n >= UnderWay /\ Behind(n + 1 - UnderWay) \in held[t]

KeptInv == /\ IInv
           /\ ~raced => /\ ~overtaken /\ OneWriter /\ LastKeysInPlace
                        /\ RecentHeld /\ MissHasCause

(* With them, what the refinement below needs: the slots further behind    *)
(* the index than there have been calls have never been written.           *)
RestUnwritten ==
  \A i \in (Len(returned) + 1)..RingSize :
    (i = RingSize => Writing = {}) => lastSent[Behind(i)][1] = NoKey
WindowInv == /\ KeptInv /\ returned \in Seq(Keys)
             /\ \A t \in Threads : pc[t] \in Setting => arg[t] \in Keys
             /\ ~raced => RestUnwritten

-----------------------------------------------------------------------------
(* Until two calls overlap, the log implements SentWindow: a call gives up *)
(* the oldest slot at its first store into it, and its key counts as       *)
(* remembered from its second store on.                                    *)
SlotAfter(i) == IF i + 1 = RingSize THEN 0 ELSE i + 1
Oldest == IF InStep(Stored) THEN SlotAfter(Current) ELSE Current
InUse  == IF InStep({"tail"}) THEN RingSize - 1 ELSE RingSize

(* The key i places before the oldest slot, so the i-th newest one, and    *)
(* how many there are: all up to the last slot that has been written.      *)
Newest(i) == lastSent[IF Oldest >= i THEN Oldest - i ELSE Oldest - i + RingSize][1]
Known == CHOOSE n \in 0..InUse : /\ n > 0 => Newest(n) # NoKey
                                 /\ \A i \in (n + 1)..InUse : Newest(i) = NoKey
KeyWindow == [i \in 1..Known |-> Newest(Known + 1 - i)]

Window == INSTANCE SentWindow WITH window <- KeyWindow, Size <- RingSize
ImplementsWindow == Window!Init /\ [][raced' \/ Window!Next]_KeyWindow
=============================================================================
