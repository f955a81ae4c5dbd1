# Verification of the Anonymization Layer

TLA+ specifications, TLC model-checking runs and TLAPS proofs of the C code in
`src/c/src`. Paths below are relative to `src/c/src` unless they start with `src/`.

## 1. The system and its inventory

A *device* is a process (`al_sim_device`) between an *upper layer*, which pushes
layer-2 frames into it, and a *broadcast channel*, simulated by a proxy that
copies every packet to every device. A device wraps a frame: it finds the
pairing record of the destination address, encrypts the whole frame under one
of the record's ten transmission keys, and publishes the ciphertext with the
6-byte identifier of the key (`tkey`). Nothing else in the packet says who sent
it or for whom. Each device compares the `tkey` of each packet it receives with
the keys of its records; it decrypts the packet on a match, and on a mismatch
answers one packet in five with random data under a random key of its own (a
*pseudo response*).

| Component | State | Operations | Interacts with | What is hard | What makes it correct |
|---|---|---|---|---|---|
| Encryption context of a key (`al_lib.c` 537-565, 833-878; `aes.c` 491-529) | `aes_ctx.Iv` at each end | create, encrypt, decrypt | peer's context, only through packets | the IV is never sent: losses and restarts separate the two ends; encryption is in place | damage only after a loss or restart, bounded by it, and healed by the next frame |
| Log of sent keys (`al_lib.c` 310-337) | `last_sent[10]`, `last_sent_index` | set, check | both threads of the device | no lock: the accesses race, the index is one past the array between its increment and its reset; the log has ten slots | writes stay in the array, a logged key is missed for known reasons only, nothing foreign recognised |
| Device process (`al_sim_device.c`) | two threads, counters, `stop`, queues | take and wrap a frame, publish, log, receive, unwrap, answer, count, stop, SIGINT | upper layer, proxy, other devices | publish before log, own echoes, equal pseudo keys, shared counters and `stop`, limits reached in either thread | frames reach the addressee only, in order, once, right; both threads end |
| Pairing and lookup (`al_lib.c` 186-212, 340-404, 511-705; `al_sim_device.c` 374-430) | list of records | create record, look up by address, by key, by hash | peer derives the same keys on its own | two ends build keys separately; undefined shifts in the address; one paired key for all | lookups find the record; keys of the ends meet; nobody else matches |
| Broadcast proxy (`proxy.c`) | libzmq queues | forward | every device | loss, interleaving of publishers | order per publisher, at most once |
| Upper layer (`al_sim_upperlayer.c`) | a push socket | push n frames (each r times), close, destroy the context | one device | blocks at the high-water mark; its last frames against the device's end | everything pushed is taken or the device has ended |
| Upper layer for several devices (`al_sim_upperlayer_multi.c`) | ten threads | push 1000 frames each, join | the devices of the launcher | streams without a device; another build of the address function | returns only when every stream was served; addresses agree with the devices' |
| Launcher (`al_sim_multi.c`) | ten child pids | fork, exec, wait, forward SIGINT | device processes | failing `fork` and `execv`, signals, pids of 0 | every child is waited for; arguments mean what the device reads |
| Experiment scripts (`src/c/run_exp*.sh`) | pids | start, push, wait | all | waits without a timeout | the wait returns; result files add up |
| Standalone demo (`al_sim.c`) | two devices in one thread | wrap, unwrap in turn | - | nothing concurrent | - |
| Block cipher, hkdf, hashes (`aes.c`, `hkdf.c`, `sha_tp.h`) | - | - | - | third-party code | - |

## 2. Modules

| Module | Models | Notes |
|---|---|---|
| `CbcBuffer` | the CBC loops of `aes.c`, block by block, in place, on the two contexts of one key | checked by `MCCbc`, proofs in `CbcBufferProofs` |
| `CipherContext` | one transmission key, frame by frame: both contexts, packets on their way, losses, restarts of either end | also the abstract specification of the packet path; proofs in `CipherContextProofs` |
| `SentWindow` | what the log of sent keys promises: the last keys, the oldest given up first | abstract specification |
| `LastSent` | the log as the threads access it, one action per load or store of the source | proofs in `LastSentProofs` |
| `ALNetwork` | device processes with two threads each, and the proxy | instances in `MCNetwork`, proofs in `ALNetworkProofs` |
| `ALNetworkChannel` | the refinement mapping from `ALNetwork` to `CipherContext` for one key | instance in `MCChannel`, proofs in `ALNetworkChannelProofs` |
| `UpperLayer` | the streams of frames of `al_sim_upperlayer` and `al_sim_upperlayer_multi` | composed by the next two |
| `Experiment` | one iteration of `run_exp.sh`: the script, the upper layer and the network of devices | composes `UpperLayer` and `ALNetwork`; instance in `MCExperiment`, proofs in `ExperimentProofs` |
| `Launcher` | `al_sim_multi`: fork, execv, waitpid, their failures, SIGINT | proofs in `MultiDeviceProofs` |
| `MultiDevice` | `al_sim_multi` and `al_sim_upperlayer_multi` with the devices between them | extends `Launcher` and `UpperLayer`; instance in `MCMulti`, proofs in `MultiDeviceProofs` |
| `MacAddress` | `gen_macaddr_from_int` in the two kinds of build | proofs in `PairingProofs` |
| `Pairing` | the pairing loops of several devices, key derivation, the lookups | instances in `MCPairing`, proofs in `PairingProofs` |

They fit together in layers. `CbcBuffer` establishes, about blocks, the two
facts that `CipherContext` assumes of a frame: only the first block depends on
the stored IV, and every call leaves the last ciphertext block in the context.
`ALNetwork` implements `CipherContext` for every key. `Pairing` establishes
what `ALNetwork` assumes of keys and addresses: a frame finds the record of its
destination, and of all devices only the destination knows the key. `LastSent`
has the races of a device's two threads on the log, and establishes the one fact
about it that `ALNetwork` uses: a check recognises no key that was never logged.
`Experiment` puts
an upper layer, bounded queues and the script around `ALNetwork`; `MultiDevice`
keeps of a device only what the launcher and the streams see of it, and
implements `Launcher`.

### How state and actions correspond to the code

* **`CbcBuffer`**: `buf` is the buffer both functions work in, `txIv` and `rxIv`
  the `Iv` members of the two contexts, `i` the loop. `EncryptIv` is the pointer
  `Iv`, which moves from the context into the buffer at the second block;
  `NextIv` is `storeNextIv`. Blocks, the cipher and exclusive or are constants
  of which only inverse, commutativity and cancellation are assumed.
* **`CipherContext`**: `Wrap` is `DevicePair_encrypt_data`, `Unwrap`
  `DevicePair_decrypt_data`. A frame stands for its last ciphertext block, so
  "the IV is f" means that f was the last frame through the context.
  `RestartReceiver(n)` is an end and a new start of the receiver that costs it the
  oldest `n` packets on their way: those in its subscription, and those sent
  before it subscribes again; the ones behind still arrive. Two
  frames never share their last ciphertext block in the model; 128-bit
  coincidences are left out.
* **`LastSent`**: the steps are the loads and stores of the source: load of the
  index (`SetCall`), the two parts of the `memcpy` (`SetHead`, `SetTail`), second
  load of the index (`SetReload`), store of the incremented index (`SetStore`),
  comparison with the size of the array (`SetTest`, of a fresh load or of the
  value just stored), and the store of 0 (`SetReset`). A compiler that merges some
  of them gives a subset of these behaviours. Between `SetStore` and `SetReset`
  the index may be one past the array; a call that loads it then writes behind
  the array, where `last_sent_index` itself lies (`SetHead` leaves any value in
  it), and with an index beyond that nothing of the log. A check compares slot by
  slot up to the first match. Four history variables are for the properties:
  `raced` (two calls have overlapped), `overtaken` (a call has loaded the index
  between another's increment and reset), `held` and `seen` (where the key of a
  check in progress has been), `recent` (how many calls have begun since the ones
  that logged the key of the check). The refinement mapping reads the log from its
  oldest slot (`Oldest`) over the slots not being overwritten (`InUse`), up to the
  last one ever written (`Known`).
* **`ALNetwork`**: `sPc` and `rPc` are the program counters of
  `sim_send_data_thread` and `sim_recv_data_thread`; `SendTake` is the
  non-blocking receive with `Device_wrappacket`, then follow `SendPublish`,
  `SendLog` (`Device_set_lastsent`) and `SendCount`. `RecvDisregard`, `RecvUnwrap`
  and `RecvNoPair` are the three outcomes of a packet, with the whole unwrap in
  the action: nobody else touches the receiving contexts. `RecvPublish` and
  `RecvLog` are the pseudo response, `RecvWork` the simulated work and the counter.
  `Device_set_lastsent` and `Device_check_lastsent` are not atomic in the code, and
  which of its own keys a device misses depends on every load and store of
  `LastSent`. So the log is kept here as the set `logged` of keys ever passed to
  `Device_set_lastsent`, and a check of one of them may say either
  (`CheckLastSent`): every race of `LastSent` is among these answers, and what
  `ALNetwork` claims holds whichever is given. Assumed is that a store behind the
  array, which `LastSent` shows to be possible, changes nothing but the log.
  `rand()` is a nondeterministic choice; `Seed` is the second a device was
  started in, and devices with equal seeds draw the same pseudo keys.
  `HandleSignal` is the SIGINT handler. Packets from one publisher keep their
  order; the two threads of a device have separate publisher sockets, as in the
  code, so their packets may overtake each other. `PairAssumption` leaves out
  records of the device itself, which the arguments of `run_exp_lookup_hash.sh`
  make (`2 j 1` from two pairs on); `Pairing` has them, and shows that such a record
  matches only packets a device addressed to itself, which no script pushes.
* **`ALNetworkChannel`**: a frame is on its way from its encryption until the
  receiver takes the packet off its subscription; the wire of the
  `CipherContext` lists the frames of the watched key that are, in the order of
  their numbers. A packet the receiver disregards, or has no record for, or that the
  proxy drops, is lost. The abstract history is read off `under` and `got`.
* **`UpperLayer`**: `handed` and `moved` count the frames `zmq_send` has
  returned for and those that have left the program; their difference is the
  queue of the PUSH socket. `Push` is one `zmq_send`, blocked at the high-water
  mark; `CloseSocket` is `zmq_close`; `UpperExit` is the return of
  `zmq_ctx_destroy`, which waits, without limit, for the queue to empty.
  `Transfer` is libzmq's I/O thread.
* **`Experiment`**: `line` is the script's next command, `Script` the commands of
  `run_binaries`. `StartDevice` and `StartUpper` are the background and the
  foreground start, `Wait` the end of the foreground program or of a `wait`.
  The frames between `moved` and `taken` are in the device's queue. The script's
  sleeps are taken to suffice: a device is ready before the next command runs.
* **`Launcher`**: a process is named by the set of rows at which it and its
  ancestors were forked, since a child whose `execv` fails goes on in its
  parent's loop. `at` is the loop variable, `child_pids` the array, with what
  `fork` returned to the child (0) in the child's own copy. `WaitPid` is one
  call of `waitpid`, which waits for any child when the pid is 0 and returns
  at once when it is no child's.
* **`MultiDevice`**: `Bind` is the `zmq_bind` of the sending thread, whose failure
  is not looked at; `Take` is its receive; `End` the end of a device, left open
  here. `CreateThread`, `CreateFails`, `EndCreates` and `Join` are `main()` of
  `al_sim_upperlayer_multi`, `UpperTurn` and `Move` its streams.
* **`Pairing`**: `CreatePair(d)` is one iteration of the loop in `main()`;
  `Record` is `Device_createpairingrecord`, with `hkdf` as a symbolic function
  of its arguments. `GetPairByAddress` returns the first match and
  `GetPairByTkey` the last one, as the code does. `GetPairByHash` is the lookup
  compiled without `METHOD_CACHE`.

## 3. Runs

| Run | Asks | Instance |
|---|---|---|
| `cbc` | does a wrong IV cost one block only, is the header right exactly under the right IV, do the contexts meet again | blocks of two bits, three per frame, every frame, any losses |
| `cipher_context` | what damages frames, how many, is any duplicated | four encryptions, any losses and restarts |
| `last_sent` | when does the log write outside its array, when does a check miss a logged key, are concurrent checks right about what they could see; does the log implement the abstract window while calls do not overlap | two keys, two slots, an index of four values, both threads log, one checks |
| `net_bystander` | who decrypts, and is a frame ever forgotten, when all devices have equal pseudo keys | three devices, one with no mutual record, a frame for an unpaired device, pseudo responses |
| `net_both` | is every frame decrypted right or on its way, do the counters account for every packet | two devices with equal pseudo keys sending both ways, limit three, as many pseudo responses as the limit lets through |
| `net_channel` | is the packet path of a key the abstract channel, and in order | three frames, two keys, any losses, SIGINT at the receiver |
| `pairing` | do lookups and keys work for every combination of arguments; whom does the hash method match | three devices, all of 0-3 records from id 1-3 |
| `experiment` | does an iteration end, does `stop` end a process, do the result files add up, do the queues keep to their limits | two devices, two frames, limit two, queues of one frame, SIGINT at the receiver |
| `multi` | do launcher and upper layer end, is every child waited for, is every stream served | two devices, two streams, two frames, queues of one frame, failing fork, execv and pthread_create, SIGINT to the launcher |
| `pairing_frames` (violated) | do frames of `al_sim_upperlayer_multi` find their record | two builds, ids 1-3 |
| `pairing_multi` (violated) | are two of `al_sim_multi`'s devices paired with each other, as `al_sim_multi.c:78` says | its five rows of arguments that are used |
| `launcher_interrupt` (violated) | does SIGINT to the launcher reach its devices, as `al_sim_multi.c:32-36` says | three devices |

What the passing runs show beyond the obvious:

* A gap of any length in the packets under a key costs exactly the first block
  (both MAC addresses and four more bytes) of the next frame, whose delivery is
  nevertheless reported as `SUCCESS` (`OneDamagePerGap`, `OnlyHeaderAtStake`).
* Overlapping calls of `Device_set_lastsent` write inside the array unless one
  loads the index between another's increment and its reset (`IndexInArray`).
  One that does writes behind the array; the run reaches such states, where an
  index left beyond the array may stay there.
* No interleaving makes the log recognise a key that was not logged
  (`RecognisedWasLogged`). A check misses a logged key for three reasons only
  (`MissHasCause`): it began before the call that logs the key had returned;
  RingSize calls have begun to write since, the oldest key's slot being half
  overwritten or the key logged once more behind the scan among them; or two
  calls have overlapped. For a device this is when it takes its own packet for a
  stranger's.
* Devices started within the same second have the same pseudo keys and
  disregard each other's pseudo responses; no frame is ever lost to it
  (`NoFrameForgotten`).
* An iteration of the script ends (`IterationEnds`) with one exception: echoes
  and pseudo responses can make the sending device reach its limit of
  *received* packets before it has sent all (`StoppedEarly`). The receiving
  device may then wait forever for packets, and the upper layer for its frames
  to be taken. The run reaches such states.
* When both devices end at their limits, the result files add up
  (`ResultsAddUp`): the receiver has decrypted the first frames sent, in order
  and right, and lacks as many as it counted packets without a record.
* A failed `execv` makes one launcher into several, whose `waitpid` calls name
  pids of 0 and of other processes' children; each still waits for all its own
  (`AllWaitedFor`). What runs on after the first one has returned is below a
  process whose `fork` failed or that SIGINT killed (`NothingOutlives`).
* `al_sim_upperlayer_multi` returns only when every stream had a device
  (`ReturnedWasServed`). It has ten streams, `al_sim_multi` starts five devices:
  as they are, it does not return.
* Built for the hash method, every device with a record takes every packet for
  its own, because the paired key is the same for all pairs, and only the last
  record counts (`HashMethodMatches`). With the arguments of
  `run_exp_lookup_hash.sh` and two or more devices to pair with, the packets of
  the first are decrypted with the wrong record.

### Bounds, and why they are enough

* `RingSize` is 10 in the code and 2 in `last_sent`: wrap-around, eviction, a key
  logged again behind a scan and collisions of two writers all happen with two
  slots; the theorems hold for any number. `IndexRange`, 2^32 in the code, is 4
  there: the index in the array, one past it, and beyond.
* `TotalToEnd` is 10000, 2 or 3 in the runs: it is compared for equality after
  each increment, so only whether it is reached, in which thread first, and
  with packets pending matters. Both exceptional and regular ends occur with 2.
* The high-water marks are 1000, 1 in the runs, fewer than the frames of a
  stream: every push but the first can block.
* `NumDevices` is 5, 2 in `multi` and 3 in `launcher_interrupt`. Two are enough
  for a launcher inside a launcher with an inherited pid, and a failure at each
  row; the theorems about the launcher hold for any number.
* `NumKeys` is 10, 1 or 2 in the runs: keys are independent, and two show a
  packet of one key between two of another.
* `MaxPseudo` bounds the pseudo responses of one device. In `net_both` and
  `experiment` it equals `TotalToEnd` and cuts nothing off, since a device ends
  when it has processed that many packets: there pseudo responses answer pseudo
  responses until a limit is reached, as in the code. In `net_bystander`, with three
  devices, it is 1, and in `net_channel` 0; the choice not to answer is always
  there. The theorems hold for any value.
* `Frames` in `CipherContext` is four: a gap, the damaged frame, a good one and
  one more to break a second chain. The theorems cover any set.
* Ids are 1 to 3 (1 to 5 in `pairing_multi`); the theorems cover all 32-bit ids.

`CHECK_DEADLOCK FALSE` stands where the system really stops: all frames sent,
both threads ended, all records made, all children waited for.

### Fairness

Only `Experiment` and `MultiDevice` state fairness, and both the weakest that
does: `WF_vars(Progress)`, as long as some thread, process or libzmq queue can
take a step, one of them does. Fair scheduling of each is not needed, since no
step can be taken forever: counters, loops and queues are finite, and a turn of
a polling loop that finds nothing is a stuttering step. The code justifies it
because the threads poll with `ZMQ_DONTWAIT` and `usleep(1)` and hold no lock,
and blocking calls (`zmq_send`, `zmq_ctx_destroy`, `pthread_join`, `waitpid`)
are actions with the guard they wait for. Nothing is assumed of signals, of
`rand()`, of failures or, in `MultiDevice`, of the end of a device. Liveness is
checked on a lossless channel: no packet is ever repeated, so nothing of the
kind holds on a lossy one.

## 4. Proofs

All theorems are proved from the assumptions on constants stated by name in the
modules; TLC evaluates the same assumptions on each instance, and has checked
the inductive invariants on the instance of a run before they were proved.

* **`CbcBufferProofs`** (any block cipher, any number of blocks). The inductive
  invariant says what the loops have done up to block `i`: every block passed is
  `Sealed` under its link IV, every block opened is the inverse under the
  ciphertext before it. `OpensSealed` turns a pair of these into "right if and
  only if the IVs agree", from which `LossCostsOneBlock` and `HeaderTellsIv`
  follow; the later blocks' IVs are in the packet itself. `FrameHealsChain`: a
  frame that arrives leaves its last block in both contexts.
* **`CipherContextProofs`** (any frames, losses, restarts). `DamageHasCause` is
  not inductive: whether a frame will be damaged depends on what the receiver
  holds when it arrives. `Chain` says it for every packet on its way: link i goes
  from what the receiver will hold to what packet i was encrypted under, and is
  whole unless the frame before was lost or an end restarted. Chain needs
  that frames are in one place only (`EachFrameOnce`) and that the ends hold
  known frames (`Ends`). `GapsCostOneEach` counts: the frames damaged, those
  waiting behind a broken link, and one for a broken link at the sender's end
  are together never more than the losses and restarts (`GapInv`); a loss or a
  restart adds at most one, an arrival only moves a frame from one group to the
  other.
* **`LastSentProofs`** (any number of threads, any ring, any range of the index).
  In `IInv`, `StoresLogged` says that each part of a slot comes from a logged key,
  and `ChecksSound` that a check in progress has seen every slot before the one it
  is at, for `OnlyLoggedRecognised` and the two theorems about checks. `IndexSeen`
  is for `IndexKept`: an index one past the array, as long as nobody has loaded
  it there, was stored by a thread that is about to compare that very value, or
  has done so, and will reset it. `MissesHaveCauses` needs `KeptInv`: until two calls
  overlap the one in progress works on the slot at the index (`OneWriter`), each of
  the last keys is as many slots behind it, but for the oldest, which the call in
  progress overwrites (`LastKeysInPlace`), and a check whose key was logged fewer
  than RingSize calls ago has held its slot from the beginning (`RecentHeld`), so
  that `ChecksSound` makes it find it. `LogIsWindow` is the refinement of
  `SentWindow`. It needs in addition that the slots further behind the index than
  there have been calls are unwritten (`RestUnwritten`, in `WindowInv`): only so is
  the window the slots up to the last one written. The first part of the `memcpy`
  gives up the oldest key, the second adds the new one, and the stores of the
  index change what `Oldest` is read from, but not the window.
* **`ALNetworkProofs`** (any devices, pairing records, streams, sizes, with or
  without losses). `IInv`: packets in every queue carry a frame under a key of
  its pair or a pseudo key (`Shapes`), counters account for the packet in hand
  (`Counting`), and the frames of a stream are in order along their whole way,
  from the upper layer over the publisher's socket and the subscription into
  the receiver (`Ordered`). From it follow `CountersBounded`,
  `OnlyAddresseeDecrypts`, `StreamsInOrder` and `CountersAgree`. `ChainInv` adds
  that logs hold own and pseudo keys only (`OwnKeys`), that packets carry the
  key of their frame (`Labelled`), that each frame was encrypted under its
  predecessor under the same key, and both contexts hold the last frame
  encrypted and decrypted (`Chained`), that no frame has left the way to
  its receiver (`Kept`), and that no frame has been passed over (`NoGaps`). With
  nothing lost, the frame that arrives is then the next one after the receiver's
  context: `RightWithoutLoss`, `NothingForgotten`, `NothingSkipped`.
* **`ALNetworkChannelProofs`** (any devices, either kind of broadcast, any key of
  any pair). `KeyIsChannel` is the refinement of `CipherContext`. Its invariant is
  `ChainInv` of the network and that the watched wire lists the frames on their
  way (`IsWire`). A finite set of one sender's frames has one ordered list
  (`OneWire`), so a step is mapped by what it does to the set: a frame encrypted is
  younger than all (`WireAppend`), one lost leaves a list without it (`WireCut`),
  and one unwrapped was the oldest (`WireHead`), because the sender's hands, its
  publisher socket and the subscription are one queue in order (`OneQueue`, from
  `Ordered`). Moving from one to the next is a stutter (`SendMoves`,
  `ForwardMoves`). The theorems of `CipherContextProofs` then hold of the
  network; `LossCostsOneHeader` states the one on counts.
* **`ExperimentProofs`** (any sizes, high-water marks, losses and interruptions).
  `StageInv` says which process the script has started and that nothing moves
  before all are. With it, `ImplementsNetwork`: a device not yet started stands
  where one stands that waits for its first packet (`OnceStarted`), so the whole
  experiment is a behaviour of `ALNetwork` with all devices running, and what
  `ALNetworkProofs` shows holds of it. `ResultsOfExperiment` combines
  `StreamsInOrder` and `NothingSkipped` (the frames decrypted are 1, 2, ... without a
  gap, which `Consecutive` concludes), `RightWithoutLoss` and `CountersAgree`.
* **`MultiDeviceProofs`** (any number of devices and streams, any failures and
  signals). The launcher alone: every child forked is in its parent's array at
  its row, no child exists beyond the parent's loop, and the rows the loop of
  waitpid has passed are reaped (`Counted`, in `IInv`). `NothingLeftRunning` is about
  each process that runs after the launcher's return: if none of its ancestors
  failed or was killed, the first of them that has not returned, or else the
  process itself, would be a child its parent has not waited for. One below a
  launcher whose `fork` failed or that was killed may run on. `ImplementsLauncher` projects every step to a launcher's
  step or a stutter, so its theorems carry over; `MultiInv` relates the loops of
  `main()`, the streams and the devices that had their ports, for
  `QueuesBounded` and `NoReturnUnserved`.
* **`PairingProofs`** (any devices and arguments). The
  invariant `Built` says that a device's list is the function of its arguments;
  injectivity of addresses (from the uniqueness of base-256 digits of a 32-bit
  id) and of symbolic keys gives the four properties, and `HashTakesAll` that of
  the hash method. `AddressFindsRecord` assumes that both programs are built
  alike, which `pairing_frames` shows to be necessary.

Every invariant, action property and refinement that the passing runs check is
also a theorem. Model-checked only is liveness (`IterationEnds`, `StopEndsProcess`,
`LauncherReturns`, `UpperReturns`): it needs fairness and `ENABLED`, which are out
of the prover's reach. The mappings of the two refinements pick sequences by
their properties, with CHOOSE, where `SelectSeq` would do: that one is defined by
recursion, and what recursion computes for every input cannot be proved here.
No module declares a RECURSIVE operator.

## 5. Not modelled

* The cipher and its key schedule, `hkdf` and the hashes: vendored third-party
  code, replaced by inverse functions and symbolic terms. Collisions of 6-byte
  `tkey`s are therefore outside the model.
* `al_sim.c`: one thread, no losses; a special case of `CipherContext`.
* Latencies, profiling, printing, `Device_delete`: no effect on the protocol.
* `listener_thread` of `proxy.c`: never started.
* The script's loop over iterations and the names of its result files, its
  sleeps, and a start of the proxy that comes too late.
* What two devices do that have the same id and port, beyond the failing
  `zmq_bind`; the reuse of a pid by the system.

## 6. Plan

1. *(done)* `CipherContext`, `LastSent`, `ALNetwork`, the channel refinement,
   `Pairing`, `MacAddress`, `CbcBuffer`.
2. *(done)* `UpperLayer`, `Experiment`, `Launcher`, `MultiDevice`; equal pseudo
   keys; the hash method.
3. *(done)* The theorems of section 4.
4. *(done)* The refinements as theorems, and the experiment's results from the
   network's.
5. Open: the script's loop, with processes of one iteration left over in the
   next; that a `LastSent` with overlapping calls still implements some weaker
   window.
