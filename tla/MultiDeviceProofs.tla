------------------------- MODULE MultiDeviceProofs -------------------------
(***************************************************************************)
(* Proofs about Launcher, for any NUM_DEVICES and any processes that may   *)
(* be interrupted, and about MultiDevice, which composes it with the upper *)
(* layer, for any numbers of threads and frames and any sizes of the       *)
(* queues.                                                                 *)
(***************************************************************************)
EXTENDS MultiDevice, WellFoundedInduction, TLAPS

-----------------------------------------------------------------------------
(* The launcher.                                                           *)

(* A process has one parent and was forked at one row.                     *)
LEMMA OneParent ==
  ASSUME NEW p \in Processes, NEW q \in Processes, NEW i \in Rows, NEW j \in Rows,
         Above(p, i), Above(q, j), p \cup {i} = q \cup {j}
  PROVE  p = q /\ i = j
<1>1. i \in Nat /\ j \in Nat /\ p \subseteq Nat /\ q \subseteq Nat
  BY LauncherAssumption DEF Processes, Rows
<1>2. i \notin p /\ j \notin q
  BY <1>1 DEF Above
<1>3. i = j
  <2>1. i \in q \cup {j} /\ j \in p \cup {i}
    OBVIOUS
  <2>2. CASE i \in q /\ j \in p
    BY <1>1, <2>2 DEF Above
  <2> QED
    BY <2>1, <2>2
<1>4. p = (p \cup {i}) \ {i} /\ q = (q \cup {j}) \ {j}
  BY <1>2
<1> QED
  BY <1>3, <1>4

(* A child is another process than its parent.                             *)
LEMMA ChildOf ==
  ASSUME NEW p \in Processes, NEW i \in Rows, Above(p, i)
  PROVE  /\ p \cup {i} \in Processes /\ p \cup {i} # p /\ p \cup {i} # NoPid
         /\ \A j \in p \cup {i} : j <= i
<1>1. i \in Nat \ {0} /\ p \subseteq Nat
  BY LauncherAssumption DEF Processes, Rows
<1>2. i \notin p
  BY <1>1 DEF Above
<1>3. \A j \in p \cup {i} : j <= i
  BY <1>1 DEF Above
<1> QED
  BY <1>1, <1>2, <1>3 DEF Processes, NoPid

(* The children that have been forked, by their row.                       *)
LEMMA ForkedAt ==
  ASSUME NEW p \in Processes, NEW c \in Forked(p)
  PROVE  \E i \in Rows : c = p \cup {i} /\ IsForked(p, i)
BY DEF Forked, Children, IsForked, Above

(* Nothing is left to be waited for once all rows are done with.           *)
LEMMA CountedAll ==
  ASSUME IInv, NEW p \in Processes, status[p] = "returned"
  PROVE  Forked(p) \subseteq reaped
BY ForkedAt DEF IInv, Counted

-----------------------------------------------------------------------------
(* What a step does not touch stays counted.                               *)
LEMMA StaysCounted ==
  ASSUME NEW p \in Processes, Counted(p),
         status'[p] = status[p], at'[p] = at[p], child_pids'[p] = child_pids[p],
         \A i \in Rows : IsForked(p, i)' <=> IsForked(p, i),
         reaped \subseteq reaped'
  PROVE  Counted(p)'
BY DEF Counted, NoneFrom, Above

(* A step that starts no process leaves the forked children as they are.   *)
LEMMA SameForked ==
  ASSUME IInv, NEW c \in Processes, NEW s, s # "none", status[c] # "none",
         status' = [status EXCEPT ![c] = s]
  PROVE  \A p \in Processes : \A i \in Rows : IsForked(p, i)' <=> IsForked(p, i)
<1> SUFFICES ASSUME NEW p \in Processes, NEW i \in Rows
             PROVE  IsForked(p, i)' <=> IsForked(p, i)
  OBVIOUS
<1>1. p \cup {i} \in Processes
  BY DEF Processes
<1> QED
  BY <1>1 DEF IsForked, Above, IInv, LauncherTypeOK

LEMMA InitIInv == LauncherInit => IInv
<1> SUFFICES ASSUME LauncherInit PROVE IInv
  OBVIOUS
<1>1. LauncherTypeOK
  BY LauncherAssumption DEF LauncherInit, LauncherTypeOK, Launching, Ends, Processes, Root,
     Rows
<1>2. ASSUME NEW p \in Processes, NEW i \in Rows PROVE ~IsForked(p, i)
  <2>1. p \cup {i} \in Processes /\ p \cup {i} # Root
    BY DEF Processes, Root
  <2> QED
    BY <2>1 DEF LauncherInit, IsForked
<1>3. ASSUME NEW p \in Processes PROVE Counted(p)
  <2>1. status[p] \in {"none", "fork"} /\ at[p] = 1
    BY DEF LauncherInit
  <2>2. status[p] = "fork" => Above(p, at[p])
    BY DEF LauncherInit, Root, Above
  <2> QED
    BY <1>2, <2>1, <2>2 DEF Counted, NoneFrom
<1> QED
  BY <1>1, <1>3 DEF IInv, LauncherInit

(* One step of the fork loop.                                              *)
LEMMA ForkKeeps ==
  ASSUME IInv, NEW p \in Processes, Fork(p)
  PROVE  IInv'
<1> DEFINE i == at[p]
           c == p \cup {i}
<1>1. /\ i \in Rows /\ Above(p, i) /\ NoneFrom(p, i) /\ status[p] = "fork"
  BY DEF Fork, IInv, Counted
<1>2. c \in Processes /\ c # p /\ c # NoPid /\ \A j \in c : j <= i
  BY <1>1, ChildOf
<1>3. status[c] = "none"
  BY <1>1, LauncherAssumption DEF NoneFrom, IsForked, Rows
<1>4. /\ status' = [status EXCEPT ![c] = "exec"]
      /\ at' = [at EXCEPT ![p] = i + 1, ![c] = i]
      /\ child_pids' = [child_pids EXCEPT ![p][i] = c,
                                          ![c] = [child_pids[p] EXCEPT ![i] = NoPid]]
      /\ reaped' = reaped /\ signalled' = signalled
  BY DEF Fork
<1> HIDE DEF i, c
<1>5. LauncherTypeOK'
  <2>1. i + 1 \in 1..(NumDevices + 1) /\ i \in 1..(NumDevices + 1)
    BY <1>1, LauncherAssumption DEF Rows
  <2>2. status' \in [Processes -> Launching \cup Ends \cup {"none", "device"}]
    BY <1>4 DEF IInv, LauncherTypeOK, Launching
  <2>3. at' \in [Processes -> 1..(NumDevices + 1)]
    BY <1>4, <2>1 DEF IInv, LauncherTypeOK
  <2>4. child_pids' \in [Processes -> [Rows -> Processes \cup {NoPid}]]
    <3>1. [child_pids[p] EXCEPT ![i] = NoPid] \in [Rows -> Processes \cup {NoPid}]
      BY DEF IInv, LauncherTypeOK
    <3>2. [child_pids[p] EXCEPT ![i] = c] \in [Rows -> Processes \cup {NoPid}]
      BY <1>2 DEF IInv, LauncherTypeOK
    <3> QED
      BY <1>4, <3>1, <3>2 DEF IInv, LauncherTypeOK
  <2> QED
    BY <1>4, <2>2, <2>3, <2>4 DEF IInv, LauncherTypeOK
<1>6. \A d \in reaped' : status'[d] \in Ends
  BY <1>3, <1>4 DEF IInv, LauncherTypeOK, Ends
<1>7. ASSUME NEW q \in Processes, NEW k \in Rows
      PROVE  IsForked(q, k)' <=> IsForked(q, k) \/ (q = p /\ k = i)
  <2>1. q \cup {k} \in Processes
    BY DEF Processes
  <2>2. Above(q, k) /\ q \cup {k} = c => q = p /\ k = i
    BY <1>1, OneParent DEF c
  <2>3. status'[q \cup {k}] # "none" <=> status[q \cup {k}] # "none" \/ q \cup {k} = c
    BY <1>2, <1>4, <2>1 DEF IInv, LauncherTypeOK
  <2>4. Above(p, i) /\ p \cup {i} = c
    BY <1>1 DEF c
  <2> QED
    BY <2>2, <2>3, <2>4 DEF IsForked, Above
<1>8. ASSUME NEW q \in Processes PROVE Counted(q)'
  <2>1. CASE q # p /\ q # c
    <3>1. status'[q] = status[q] /\ at'[q] = at[q] /\ child_pids'[q] = child_pids[q]
      BY <1>4, <2>1 DEF IInv, LauncherTypeOK
    <3>2. \A k \in Rows : IsForked(q, k)' <=> IsForked(q, k)
      BY <1>7, <2>1
    <3> QED
      BY <1>4, <3>1, <3>2, StaysCounted DEF IInv
  <2>2. CASE q = p
    <3>1. status'[p] = "fork" /\ at'[p] = i + 1
      BY <1>1, <1>2, <1>4 DEF IInv, LauncherTypeOK
    <3>2. /\ child_pids'[p][i] = c
          /\ \A k \in Rows : k # i => child_pids'[p][k] = child_pids[p][k]
      BY <1>1, <1>2, <1>4 DEF IInv, LauncherTypeOK
    <3>3. Above(p, i + 1) /\ \A k \in Rows : k >= i + 1 => ~IsForked(p, k)'
      <4>1. p \subseteq Nat /\ i \in Nat
        BY <1>1, LauncherAssumption DEF Processes, Rows
      <4>2. Above(p, i + 1)
        BY <1>1, <4>1 DEF Above
      <4>3. \A k \in Rows : k >= i + 1 => k >= i /\ k # i
        BY <4>1 DEF Rows
      <4> QED
        BY <1>1, <1>7, <4>2, <4>3 DEF NoneFrom
    <3>4. \A k \in Rows : IsForked(p, k)' => child_pids'[p][k] = p \cup {k}
      BY <1>7, <3>2 DEF IInv, Counted, c
    <3> QED
      BY <2>2, <3>1, <3>3, <3>4 DEF Counted, NoneFrom, Above
  <2>3. CASE q = c
    <3>1. /\ status'[q] = "exec" /\ at'[q] = i
          /\ i \in Rows /\ \A j \in q : j <= i
      BY <1>1, <1>2, <1>4, <2>3 DEF IInv, LauncherTypeOK
    <3>2. \A k \in Rows : ~IsForked(q, k)
      BY <1>2, <1>3, <2>3, LauncherAssumption DEF IInv, Counted, NoneFrom, Rows
    <3>3. \A k \in Rows : ~IsForked(q, k)'
      BY <1>2, <1>7, <2>3, <3>2
    <3> QED
      BY <3>1, <3>3 DEF Counted, NoneFrom
  <2> QED
    BY <2>1, <2>2, <2>3
<1> QED
  BY <1>5, <1>6, <1>8 DEF IInv

(* A step that changes only the status of a process, its loop index and    *)
(* what has been reaped keeps the invariant if the process stays counted.  *)
LEMMA OneChanges ==
  ASSUME IInv, NEW p \in Processes, NEW s \in Launching \cup Ends \cup {"device"},
         NEW n \in 1..(NumDevices + 1), status[p] # "none",
         status' = [status EXCEPT ![p] = s], at' = [at EXCEPT ![p] = n],
         UNCHANGED child_pids, reaped \subseteq reaped',
         reaped' \subseteq Processes, signalled' \subseteq Interrupted,
         \A c \in reaped' : status[c] \in Ends, status[p] \notin Ends,
         Counted(p)'
  PROVE  IInv'
<1>1. LauncherTypeOK'
  BY DEF IInv, LauncherTypeOK
<1>2. \A c \in reaped' : status'[c] \in Ends
  BY DEF IInv, LauncherTypeOK
<1>3. ASSUME NEW q \in Processes, q # p PROVE Counted(q)'
  <2>1. status'[q] = status[q] /\ at'[q] = at[q] /\ child_pids'[q] = child_pids[q]
    BY <1>3 DEF IInv, LauncherTypeOK
  <2>2. s # "none"
    BY DEF Launching, Ends
  <2>3. \A k \in Rows : IsForked(q, k)' <=> IsForked(q, k)
    BY <2>2, SameForked
  <2> QED
    BY <2>1, <2>3, StaysCounted DEF IInv
<1> QED
  BY <1>1, <1>2, <1>3 DEF IInv

(* What every step but fork leaves of the children of the process.         *)
LEMMA CountedOnChange ==
  ASSUME IInv, NEW p \in Processes, NEW s \in Launching \cup Ends \cup {"device"},
         status[p] # "none", status' = [status EXCEPT ![p] = s], UNCHANGED child_pids
  PROVE  /\ status'[p] = s
         /\ \A i \in Rows : IsForked(p, i)' <=> IsForked(p, i)
         /\ \A i \in Rows : IsForked(p, i)' => child_pids'[p][i] = p \cup {i}
<1>1. s # "none" /\ status'[p] = s
  BY DEF Launching, Ends, IInv, LauncherTypeOK
<1>2. \A i \in Rows : IsForked(p, i)' <=> IsForked(p, i)
  BY <1>1, SameForked
<1> QED
  BY <1>1, <1>2 DEF IInv, Counted

LEMMA ExecKeeps ==
  ASSUME IInv, NEW p \in Processes, Exec(p)
  PROVE  IInv'
<1>1. /\ status[p] = "exec" /\ status' = [status EXCEPT ![p] = "device"]
      /\ UNCHANGED <<at, child_pids, reaped, signalled>>
  BY DEF Exec
<1>2. /\ status'[p] = "device"
      /\ \A i \in Rows : IsForked(p, i)' <=> IsForked(p, i)
      /\ \A i \in Rows : IsForked(p, i)' => child_pids'[p][i] = p \cup {i}
  BY <1>1, CountedOnChange
<1>3. NoneFrom(p, 1)
  BY <1>1 DEF IInv, Counted
<1>4. Counted(p)'
  BY <1>2, <1>3 DEF Counted, NoneFrom
<1>5. at[p] \in 1..(NumDevices + 1) /\ at' = [at EXCEPT ![p] = at[p]]
  BY <1>1 DEF IInv, LauncherTypeOK
<1> QED
  BY <1>1, <1>4, <1>5, OneChanges DEF IInv, LauncherTypeOK, Ends

LEMMA ExecFailsKeeps ==
  ASSUME IInv, NEW p \in Processes, ExecFails(p)
  PROVE  IInv'
<1>1. /\ status[p] = "exec" /\ status' = [status EXCEPT ![p] = "fork"]
      /\ at' = [at EXCEPT ![p] = at[p] + 1]
      /\ UNCHANGED <<child_pids, reaped, signalled>>
  BY DEF ExecFails
<1>2. /\ status'[p] = "fork"
      /\ \A i \in Rows : IsForked(p, i)' <=> IsForked(p, i)
      /\ \A i \in Rows : IsForked(p, i)' => child_pids'[p][i] = p \cup {i}
  BY <1>1, CountedOnChange DEF Launching
<1>3. \A i \in Rows : ~IsForked(p, i)
  BY <1>1, LauncherAssumption DEF IInv, Counted, NoneFrom, Rows
<1>4. p \subseteq 1..NumDevices /\ \A j \in p : j <= at[p]
  BY <1>1 DEF IInv, Counted, Processes, Rows
<1>5. at[p] \in 1..NumDevices
  BY <1>1 DEF IInv, Counted, Rows
<1>6. at'[p] = at[p] + 1 /\ \A j \in p : j < at[p] + 1
  BY <1>1, <1>4, <1>5, LauncherAssumption DEF IInv, LauncherTypeOK
<1>7. Counted(p)'
  BY <1>2, <1>3, <1>6 DEF Counted, NoneFrom, Above
<1>8. at[p] + 1 \in 1..(NumDevices + 1)
  BY <1>5, LauncherAssumption
<1> QED
  BY <1>1, <1>7, <1>8, OneChanges DEF IInv, LauncherTypeOK, Launching, Ends

(* fork fails, or SIGINT arrives: the process is over, and is not asked    *)
(* for its children.                                                       *)
LEMMA FaultKeeps ==
  ASSUME IInv, NEW p \in Processes, ForkFails(p) \/ Interrupt(p)
  PROVE  IInv'
<1>1. PICK s \in {"failed", "killed"} :
        /\ status[p] \in Launching /\ status' = [status EXCEPT ![p] = s]
        /\ UNCHANGED <<at, child_pids, reaped>> /\ signalled' \subseteq Interrupted
  BY DEF ForkFails, Interrupt, Launching, IInv, LauncherTypeOK
<1>2. /\ status'[p] = s
      /\ \A i \in Rows : IsForked(p, i)' => child_pids'[p][i] = p \cup {i}
  BY <1>1, CountedOnChange DEF Launching, Ends
<1>3. Counted(p)'
  BY <1>2 DEF Counted
<1>4. at[p] \in 1..(NumDevices + 1) /\ at' = [at EXCEPT ![p] = at[p]]
  BY <1>1 DEF IInv, LauncherTypeOK
<1> QED
  BY <1>1, <1>3, <1>4, OneChanges DEF IInv, LauncherTypeOK, Launching, Ends

LEMMA EndForksKeeps ==
  ASSUME IInv, NEW p \in Processes, EndForks(p)
  PROVE  IInv'
<1>1. /\ status[p] = "fork" /\ status' = [status EXCEPT ![p] = "wait"]
      /\ at' = [at EXCEPT ![p] = 1]
      /\ UNCHANGED <<child_pids, reaped, signalled>>
  BY DEF EndForks
<1>2. /\ status'[p] = "wait"
      /\ \A i \in Rows : IsForked(p, i)' => child_pids'[p][i] = p \cup {i}
  BY <1>1, CountedOnChange DEF Launching
<1>3. at'[p] = 1 /\ \A i \in Rows : ~(i < 1)
  BY <1>1, LauncherAssumption DEF IInv, LauncherTypeOK, Rows
<1>4. Counted(p)'
  BY <1>2, <1>3 DEF Counted
<1>5. 1 \in 1..(NumDevices + 1)
  BY LauncherAssumption
<1> QED
  BY <1>1, <1>4, <1>5, OneChanges DEF IInv, LauncherTypeOK, Launching, Ends

(* What waitpid waits for has been forked; if it has ended and the row's   *)
(* own child has not been reported, it is that child.                      *)
LEMMA WaitPidReports ==
  ASSUME IInv, NEW p \in Processes, WaitPid(p)
  PROVE  /\ reaped \subseteq reaped' /\ reaped' \subseteq Processes
         /\ \A c \in reaped' : status[c] \in Ends
         /\ IsForked(p, at[p]) => p \cup {at[p]} \in reaped'
<1> DEFINE i == at[p]
           own == p \cup {i}
<1>1. ASSUME NEW c \in WaitsFor(p), ~Running(c) PROVE c \in Processes /\ status[c] \in Ends
  BY <1>1 DEF WaitsFor, Forked, Children, Running, IInv, LauncherTypeOK, Launching, Ends
<1>2. /\ reaped \subseteq reaped' /\ reaped' \subseteq Processes
      /\ \A c \in reaped' : status[c] \in Ends
  BY <1>1 DEF WaitPid, IInv, LauncherTypeOK
<1>3. ASSUME IsForked(p, i), own \notin reaped PROVE own \in reaped'
  <2>1. i \in Rows /\ Above(p, i)
    BY <1>3 DEF WaitPid, IsForked
  <2>2. child_pids[p][i] = own
    BY <1>3, <2>1 DEF IInv, Counted
  <2>3. own \in Processes /\ own # NoPid
    BY <2>1, ChildOf
  <2>4. own \in Forked(p)
    BY <1>3, <2>1, <2>3 DEF Forked, Children, IsForked, Above
  <2>5. WaitsFor(p) = {own}
    BY <1>3, <2>2, <2>3, <2>4 DEF WaitsFor
  <2> QED
    BY <2>5 DEF WaitPid, WaitOver
<1> QED
  BY <1>2, <1>3

LEMMA WaitPidKeeps ==
  ASSUME IInv, NEW p \in Processes, WaitPid(p)
  PROVE  IInv'
<1>1. /\ status[p] = "wait" /\ at[p] \in Rows
      /\ at' = [at EXCEPT ![p] = at[p] + 1]
      /\ UNCHANGED <<status, child_pids, signalled>>
  BY DEF WaitPid
<1>2. status' = [status EXCEPT ![p] = "wait"]
  BY <1>1 DEF IInv, LauncherTypeOK
<1>3. /\ status'[p] = "wait"
      /\ \A i \in Rows : IsForked(p, i)' <=> IsForked(p, i)
      /\ \A i \in Rows : IsForked(p, i)' => child_pids'[p][i] = p \cup {i}
  BY <1>1, <1>2, CountedOnChange DEF Launching
<1>4. /\ reaped \subseteq reaped' /\ reaped' \subseteq Processes
      /\ \A c \in reaped' : status[c] \in Ends
      /\ IsForked(p, at[p]) => p \cup {at[p]} \in reaped'
  BY WaitPidReports
<1>5. at'[p] = at[p] + 1
  BY <1>1 DEF IInv, LauncherTypeOK
<1>6. ASSUME NEW i \in Rows, IsForked(p, i), i < at[p] + 1 PROVE p \cup {i} \in reaped'
  <2>1. CASE i = at[p]
    BY <1>4, <1>6, <2>1
  <2>2. CASE i # at[p]
    <3>1. i < at[p]
      BY <1>1, <1>6, <2>2, LauncherAssumption DEF Rows
    <3> QED
      BY <1>1, <1>4, <1>6, <3>1 DEF IInv, Counted
  <2> QED
    BY <2>1, <2>2
<1>7. Counted(p)'
  BY <1>3, <1>5, <1>6 DEF Counted
<1>8. at[p] + 1 \in 1..(NumDevices + 1)
  BY <1>1, LauncherAssumption DEF Rows
<1> QED
  BY <1>1, <1>2, <1>4, <1>7, <1>8, OneChanges DEF IInv, LauncherTypeOK, Launching, Ends

LEMMA ReturnKeeps ==
  ASSUME IInv, NEW p \in Processes, Return(p) \/ DeviceEnds(p)
  PROVE  IInv'
<1>1. /\ status[p] \in {"wait", "device"} /\ status' = [status EXCEPT ![p] = "returned"]
      /\ status[p] = "wait" => at[p] = NumDevices + 1
      /\ UNCHANGED <<at, child_pids, reaped, signalled>>
  BY DEF Return, DeviceEnds
<1>2. /\ status'[p] = "returned"
      /\ \A i \in Rows : IsForked(p, i)' <=> IsForked(p, i)
      /\ \A i \in Rows : IsForked(p, i)' => child_pids'[p][i] = p \cup {i}
  BY <1>1, CountedOnChange DEF Ends
<1>3. ASSUME NEW i \in Rows, IsForked(p, i) PROVE p \cup {i} \in reaped
  <2>1. i >= 1 /\ i < NumDevices + 1
    BY LauncherAssumption DEF Rows
  <2>2. status[p] # "device"
    BY <1>3, <2>1 DEF IInv, Counted, NoneFrom
  <2> QED
    BY <1>1, <1>3, <2>1, <2>2 DEF IInv, Counted
<1>4. Counted(p)'
  BY <1>1, <1>2, <1>3 DEF Counted
<1>5. at[p] \in 1..(NumDevices + 1) /\ at' = [at EXCEPT ![p] = at[p]]
  BY <1>1 DEF IInv, LauncherTypeOK
<1> QED
  BY <1>1, <1>4, <1>5, OneChanges DEF IInv, LauncherTypeOK, Ends

-----------------------------------------------------------------------------
(* IInv is inductive.                                                      *)
THEOREM InvariantHolds == LauncherSpec => []IInv
<1>1. IInv /\ [LauncherNext]_launcherVars => IInv'
  <2> SUFFICES ASSUME IInv, [LauncherNext]_launcherVars PROVE IInv'
    OBVIOUS
  <2>1. CASE UNCHANGED launcherVars
    BY <2>1 DEF launcherVars, IInv, LauncherTypeOK, Counted, NoneFrom, IsForked, Above
  <2>2. ASSUME NEW p \in Processes, LauncherStep(p) PROVE IInv'
    BY <2>2, ForkKeeps, ExecKeeps, EndForksKeeps, WaitPidKeeps, ReturnKeeps
       DEF LauncherStep
  <2>3. ASSUME NEW p \in Processes, LauncherFault(p) \/ DeviceEnds(p) PROVE IInv'
    BY <2>3, FaultKeeps, ExecFailsKeeps, ReturnKeeps DEF LauncherFault
  <2> QED
    BY <2>1, <2>2, <2>3 DEF LauncherNext
<1> QED
  BY <1>1, InitIInv, PTL DEF LauncherSpec

(* Types: no loop index leaves its loop, no pid is one that fork did not   *)
(* return.                                                                 *)
THEOREM TypeCorrect == LauncherSpec => []LauncherTypeOK
<1>1. IInv => LauncherTypeOK
  BY DEF IInv
<1> QED
  BY <1>1, InvariantHolds, PTL

(* Whichever forks and execs fail, and in whatever order the children end: *)
(* a launcher that returns has waited for every child it had.              *)
THEOREM EveryChildWaitedFor == LauncherSpec => []AllWaitedFor
<1>1. IInv => AllWaitedFor
  <2> SUFFICES ASSUME IInv PROVE AllWaitedFor
    OBVIOUS
  <2>1. \A c \in reaped : ~Running(c)
    BY DEF IInv, Running, Ends, Launching
  <2> QED
    BY <2>1, CountedAll DEF AllWaitedFor
<1> QED
  BY <1>1, InvariantHolds, PTL

-----------------------------------------------------------------------------
LEMMA LeastElement ==
  ASSUME NEW T, T \subseteq Nat, T # {}
  PROVE  \E m \in T : \A k \in T : m <= k
<1> DEFINE Less == OpToRel(<, Nat)
<1>1. IsWellFoundedOn(Less, Nat)
  BY NatLessThanWellFounded
<1>2. \A x, y \in Nat : <<x, y>> \in Less <=> x < y
  BY DEF OpToRel
<1> HIDE DEF Less
<1>3. \E x \in T : \A y \in T : ~ (<<y, x>> \in Less)
  BY <1>1, WFMin
<1>4. PICK x \in T : \A y \in T : ~ (<<y, x>> \in Less)
  BY <1>3
<1>5. ASSUME NEW y \in T PROVE x <= y
  <2>1. ~(y < x)
    BY <1>2, <1>4
  <2> QED
    BY <2>1
<1> QED
  BY <1>5

(* The ancestors of q are the processes UpTo(q, i), for i from 0 (the      *)
(* launcher) to NumDevices (q itself).                                     *)
UpTo(q, i) == {j \in q : j <= i}

LEMMA NextAncestor ==
  ASSUME NEW q \in Processes, NEW i \in Nat \ {0}, i <= NumDevices
  PROVE  /\ UpTo(q, i - 1) \in Processes
         /\ \/ UpTo(q, i) = UpTo(q, i - 1)
            \/ /\ i \in Rows /\ Above(UpTo(q, i - 1), i)
               /\ UpTo(q, i) = UpTo(q, i - 1) \cup {i}
<1>1. q \subseteq Nat /\ i \in Rows
  BY LauncherAssumption DEF Processes, Rows
<1>2. \A j \in q : j <= i <=> j <= i - 1 \/ j = i
  BY <1>1
<1>3. \A j \in UpTo(q, i - 1) : j < i
  BY <1>1 DEF UpTo
<1>4. CASE i \in q
  BY <1>1, <1>2, <1>3, <1>4 DEF UpTo, Above, Processes
<1>5. CASE i \notin q
  BY <1>1, <1>2, <1>5 DEF UpTo, Processes
<1> QED
  BY <1>4, <1>5

(* The child of a process that has returned, or was never forked, has      *)
(* itself returned, unless it failed or was killed, or was never forked.   *)
Gone(p) == status[p] \in {"none", "returned"}

LEMMA ChildGone ==
  ASSUME IInv, NEW p \in Processes, NEW i \in Rows, Above(p, i), Gone(p),
         status[p \cup {i}] \notin {"failed", "killed"}
  PROVE  Gone(p \cup {i})
<1>1. CASE status[p] = "none"
  BY <1>1 DEF IInv, Counted, NoneFrom, IsForked, Gone, Rows
<1>2. CASE status[p] = "returned"
  BY <1>2 DEF IInv, Counted, IsForked, Gone, Ends
<1> QED
  BY <1>1, <1>2 DEF Gone

(* NothingOutlives: what al_sim_multi started, directly or through a       *)
(* failed exec, runs on when it returns only below a process whose fork    *)
(* failed or that SIGINT killed.  Without such an ancestor the first one   *)
(* that has not returned would be a child its parent has not waited for.   *)
THEOREM NothingLeftRunning == LauncherSpec => []NothingOutlives
<1>1. IInv => NothingOutlives
  <2> SUFFICES ASSUME IInv, status[Root] = "returned",
                      NEW q \in Processes,
                      \A p \in Ancestors(q) : status[p] \notin {"failed", "killed"}
               PROVE  ~Running(q)
    BY DEF NothingOutlives
  <2>0. \A i \in 0..NumDevices : UpTo(q, i) \in Ancestors(q)
    <3>1. q \subseteq Nat
      BY LauncherAssumption DEF Processes, Rows
    <3>2. ASSUME NEW i \in 0..NumDevices PROVE UpTo(q, i) \in Ancestors(q)
      <4>1. UpTo(q, i) \in Processes /\ UpTo(q, i) \subseteq q
        BY DEF UpTo, Processes
      <4>2. ASSUME NEW k \in q \ UpTo(q, i), NEW j \in UpTo(q, i) PROVE j < k
        BY <3>1, <4>2 DEF UpTo
      <4> QED
        BY <4>1, <4>2 DEF Ancestors, Above
    <3> QED
      BY <3>2
  <2> DEFINE T == {i \in 0..NumDevices : ~Gone(UpTo(q, i))}
  <2>1. ASSUME NEW m \in T, \A k \in T : m <= k PROVE FALSE
    <3>1. UpTo(q, 0) = Root /\ Gone(Root)
      <4>1. \A j \in q : ~(j <= 0)
        BY LauncherAssumption DEF Processes, Rows
      <4>2. UpTo(q, 0) = Root
        BY <4>1, Zenon DEF UpTo, Root
      <4> QED
        BY <4>2 DEF Gone
    <3>2. m \in Nat \ {0} /\ m <= NumDevices /\ m - 1 \in 0..NumDevices
      BY <3>1, LauncherAssumption
    <3>3. Gone(UpTo(q, m - 1))
      BY <2>1, <3>2
    <3>4. /\ m \in Rows /\ Above(UpTo(q, m - 1), m)
          /\ UpTo(q, m) = UpTo(q, m - 1) \cup {m}
      BY <3>2, <3>3, NextAncestor
    <3>5. UpTo(q, m) \in Processes /\ UpTo(q, m - 1) \in Processes
      BY DEF UpTo, Processes
    <3>6. UpTo(q, m) \in Ancestors(q)
      BY <2>0
    <3> QED
      BY <3>3, <3>4, <3>5, <3>6, ChildGone
  <2>2. T = {}
    <3>1. T \subseteq Nat
      BY LauncherAssumption
    <3> HIDE DEF T
    <3> QED
      BY <2>1, <3>1, LeastElement
  <2>3. UpTo(q, NumDevices) = q /\ NumDevices \in 0..NumDevices
    <3>1. \A j \in q : j <= NumDevices
      BY LauncherAssumption DEF Processes, Rows
    <3>2. UpTo(q, NumDevices) = q
      BY <3>1 DEF UpTo
    <3> QED
      BY <3>2, LauncherAssumption
  <2>4. Gone(q)
    BY <2>2, <2>3
  <2> QED
    BY <2>4 DEF Gone, Running, Launching
<1> QED
  BY <1>1, InvariantHolds, PTL

-----------------------------------------------------------------------------
(* The launcher in the composition.                                        *)

(* Whatever the streams and the devices do, al_sim_multi is the program of *)
(* module Launcher: what is proved of that holds here.                     *)
THEOREM ImplementsLauncher == Spec => LauncherSpec
<1>1. Init => LauncherInit
  BY DEF Init
<1>2. [Next]_vars => [LauncherNext]_launcherVars
  <2> SUFFICES ASSUME [Next]_vars PROVE [LauncherNext]_launcherVars
    OBVIOUS
  <2>1. CASE UNCHANGED vars
    BY <2>1 DEF vars
  <2>2. CASE Launch \/ LaunchFault \/ \E c \in Processes : End(c)
    BY <2>2 DEF Launch, LaunchFault, End, LauncherNext
  <2>3. CASE CreateThread \/ EndCreates \/ Join \/ UpperTurn \/ CreateFails
    BY <2>3 DEF CreateThread, EndCreates, Join, UpperTurn, CreateFails
  <2>4. CASE \/ \E c \in Processes : Bind(c)
             \/ \E s \in Streams : Take(s) \/ Move(s)
    BY <2>4 DEF Bind, Take, Move
  <2> QED
    BY <2>1, <2>2, <2>3, <2>4 DEF Next, Progress
<1> QED
  BY <1>1, <1>2, PTL DEF Spec, LauncherSpec

(* So every child of al_sim_multi is waited for, and nothing outlives it   *)
(* but below a process that failed or was killed.                          *)
THEOREM LauncherKeepsWatch == Spec => [](AllWaitedFor /\ NothingOutlives)
BY ImplementsLauncher, EveryChildWaitedFor, NothingLeftRunning, PTL

-----------------------------------------------------------------------------
(* MultiInv without the launcher's part of it.                             *)
Streaming ==
  /\ UpperTypeOK
  /\ socket \in [Processes -> {"none", "bound", "refused"}]
  /\ inQueue \in [Streams -> 0..RecvHwm]
  /\ created \in 0..NumThreads /\ joined \in 0..created
  /\ main \in {"create", "join", "returned", "failed"}
  /\ MainInv
  /\ \A s \in Streams : StreamInv(s)

LEMMA Sizes ==
  /\ ToPush \in Nat /\ SendHwm \in Nat \ {0} /\ RecvHwm \in Nat \ {0}
  /\ NumThreads \in Nat \ {0} /\ Streams = 1..NumThreads
BY UpperLayerAssumption, ThreadsAssumption DEF ToPush, Copies

LEMMA InitStreaming == Init => Streaming
BY Sizes DEF Init, UpperInit, Streaming, UpperTypeOK, MainInv, StreamInv

(* A socket once bound stays bound, so a stream that had a device keeps it.*)
LEMMA DeviceKept ==
  ASSUME NEW s \in Streams, HadDevice(s),
         \A c \in Processes : socket[c] = "bound" => socket'[c] = "bound"
  PROVE  HadDevice(s)'
BY DEF HadDevice, RowOf

LEMMA BindKeeps ==
  ASSUME Streaming, NEW c \in Processes, Bind(c)
  PROVE  Streaming'
<1>1. /\ socket' \in [Processes -> {"none", "bound", "refused"}]
      /\ \A d \in Processes : socket[d] = "bound" => socket'[d] = "bound"
  BY DEF Streaming, Bind
<1>2. UNCHANGED <<uPc, handed, moved, inQueue, created, joined, main>>
  BY DEF Bind, upperVars, mainVars
<1>3. \A s \in Streams : StreamInv(s)'
  BY <1>1, <1>2, DeviceKept DEF Streaming, StreamInv
<1> QED
  BY <1>1, <1>2, <1>3 DEF Streaming, UpperTypeOK, MainInv

(* A frame taken, and the frames that go with a device.                    *)
LEMMA QueueKeeps ==
  ASSUME Streaming, inQueue' \in [Streams -> 0..RecvHwm],
         UNCHANGED <<uPc, handed, moved, socket, created, joined, main>>
  PROVE  Streaming'
<1>1. \A s \in Streams : StreamInv(s)'
  BY DeviceKept DEF Streaming, StreamInv
<1> QED
  BY <1>1 DEF Streaming, UpperTypeOK, MainInv

LEMMA TakeKeeps ==
  ASSUME Streaming, NEW s \in Streams, Take(s)
  PROVE  Streaming'
<1>1. inQueue' \in [Streams -> 0..RecvHwm]
  BY Sizes DEF Streaming, Take
<1> QED
  BY <1>1, QueueKeeps DEF Take, upperVars, mainVars

LEMMA EndKeeps ==
  ASSUME Streaming, NEW c \in Processes, End(c)
  PROVE  Streaming'
<1>1. inQueue' \in [Streams -> 0..RecvHwm]
  BY Sizes DEF Streaming, End
<1> QED
  BY <1>1, QueueKeeps DEF End, upperVars, mainVars

(* A frame is moved to the device that serves its stream.                  *)
LEMMA MoveKeeps ==
  ASSUME Streaming, NEW s \in Streams, Move(s)
  PROVE  Streaming'
<1>1. /\ moved[s] < handed[s] /\ inQueue[s] < RecvHwm
      /\ moved' = [moved EXCEPT ![s] = @ + 1]
      /\ inQueue' = [inQueue EXCEPT ![s] = @ + 1]
      /\ uPc[s] \in {"send", "close"}
      /\ UNCHANGED <<uPc, handed, socket, created, joined, main>>
  BY DEF Move, Transfer, Room, mainVars
<1>2. HadDevice(s)'
  <2>1. PICK c \in Processes : Serves(c, s)
    BY DEF Move, Served
  <2> QED
    BY <1>1, <2>1 DEF Serves, HadDevice, RowOf
<1>3. \A t \in Streams : StreamInv(t)'
  <2> SUFFICES ASSUME NEW t \in Streams PROVE StreamInv(t)'
    OBVIOUS
  <2>1. CASE t = s
    BY <1>1, <1>2, <2>1 DEF Streaming, StreamInv, UpperTypeOK
  <2>2. CASE t # s
    BY <1>1, <2>2, DeviceKept DEF Streaming, StreamInv, UpperTypeOK
  <2> QED
    BY <2>1, <2>2
<1>4. UpperTypeOK'
  <2>1. ASSUME NEW t \in Streams
        PROVE  /\ moved'[t] \in 0..ToPush
               /\ moved'[t] <= handed[t] /\ handed[t] - moved'[t] <= SendHwm
    <3>1. /\ handed[t] \in 0..ToPush /\ moved[t] \in 0..ToPush
          /\ moved[t] <= handed[t] /\ handed[t] - moved[t] <= SendHwm
          /\ moved'[t] = IF t = s THEN moved[t] + 1 ELSE moved[t]
      BY <1>1 DEF Streaming, UpperTypeOK
    <3> QED
      BY <1>1, <3>1, Sizes
  <2> QED
    BY <1>1, <2>1 DEF Streaming, UpperTypeOK
<1>5. inQueue' \in [Streams -> 0..RecvHwm]
  BY <1>1, Sizes DEF Streaming
<1> QED
  BY <1>1, <1>3, <1>4, <1>5 DEF Streaming, MainInv

-----------------------------------------------------------------------------
(* A stream's own steps.                                                   *)
LEMMA PushKeeps ==
  ASSUME Streaming, NEW s \in Streams, Push(s), UNCHANGED <<deviceVars, mainVars>>
  PROVE  Streaming'
<1>1. /\ uPc[s] = "send" /\ handed[s] < ToPush /\ handed[s] - moved[s] < SendHwm
      /\ handed' = [handed EXCEPT ![s] = @ + 1]
      /\ UNCHANGED <<uPc, moved, socket, inQueue, created, joined, main>>
  BY DEF Push, MoreToPush, CanPush, deviceVars, mainVars
<1>2. UpperTypeOK'
  <2>1. ASSUME NEW t \in Streams
        PROVE  /\ handed'[t] \in 0..ToPush
               /\ moved[t] <= handed'[t] /\ handed'[t] - moved[t] <= SendHwm
    <3>1. /\ handed[t] \in 0..ToPush /\ moved[t] \in 0..ToPush
          /\ moved[t] <= handed[t] /\ handed[t] - moved[t] <= SendHwm
          /\ handed'[t] = IF t = s THEN handed[t] + 1 ELSE handed[t]
      BY <1>1 DEF Streaming, UpperTypeOK
    <3> QED
      BY <1>1, <3>1, Sizes
  <2> QED
    BY <1>1, <2>1 DEF Streaming, UpperTypeOK
<1>3. \A t \in Streams : StreamInv(t)'
  BY <1>1, DeviceKept DEF Streaming, StreamInv, UpperTypeOK
<1> QED
  BY <1>1, <1>2, <1>3 DEF Streaming, MainInv

(* zmq_close and the return of zmq_ctx_destroy.                            *)
LEMMA ClosingKeeps ==
  ASSUME Streaming, NEW s \in Streams, CloseSocket(s) \/ UpperExit(s),
         UNCHANGED <<deviceVars, mainVars>>
  PROVE  Streaming'
<1>1. /\ UNCHANGED <<handed, moved, socket, inQueue, created, joined, main>>
      /\ \/ /\ uPc[s] = "send" /\ handed[s] = ToPush
            /\ uPc' = [uPc EXCEPT ![s] = "close"]
         \/ /\ uPc[s] = "close" /\ handed[s] = moved[s]
            /\ uPc' = [uPc EXCEPT ![s] = "done"]
  <2>1. handed[s] \in 0..ToPush /\ ToPush \in Nat
    BY Sizes DEF Streaming, UpperTypeOK
  <2>2. ~MoreToPush(s) => handed[s] = ToPush
    BY <2>1 DEF MoreToPush
  <2> QED
    BY <2>2 DEF CloseSocket, UpperExit, Lingered, deviceVars, mainVars
<1>2. \A t \in Streams : StreamInv(t)'
  <2> SUFFICES ASSUME NEW t \in Streams PROVE StreamInv(t)'
    OBVIOUS
  <2>1. HadDevice(t) => HadDevice(t)'
    BY <1>1, DeviceKept
  <2>2. CASE t = s
    BY <1>1, <2>1, <2>2 DEF Streaming, StreamInv, UpperTypeOK
  <2>3. CASE t # s
    BY <1>1, <2>1, <2>3 DEF Streaming, StreamInv, UpperTypeOK
  <2> QED
    BY <2>2, <2>3
<1> QED
  BY <1>1, <1>2 DEF Streaming, UpperTypeOK, MainInv

LEMMA UpperTurnKeeps ==
  ASSUME Streaming, UpperTurn
  PROVE  Streaming'
<1>1. UNCHANGED <<deviceVars, mainVars>>
  BY DEF UpperTurn
<1> QED
  BY <1>1, PushKeeps, ClosingKeeps DEF UpperTurn, UpperStep

-----------------------------------------------------------------------------
(* main() of al_sim_upperlayer_multi.                                      *)
LEMMA CreateKeeps ==
  ASSUME Streaming, CreateThread
  PROVE  Streaming'
<1>1. /\ main = "create" /\ created < NumThreads /\ created' = created + 1
      /\ uPc[created + 1] = "new"
      /\ uPc' = [uPc EXCEPT ![created + 1] = "send"]
      /\ UNCHANGED <<handed, moved, socket, inQueue, joined, main>>
  BY DEF CreateThread, UpperStart, deviceVars
<1>2. created' \in 0..NumThreads /\ joined' \in 0..created'
  BY <1>1, Sizes DEF Streaming
<1>3. \A t \in Streams : StreamInv(t)'
  <2> SUFFICES ASSUME NEW t \in Streams PROVE StreamInv(t)'
    OBVIOUS
  <2>1. HadDevice(t) => HadDevice(t)'
    BY <1>1, DeviceKept
  <2> QED
    BY <1>1, <2>1 DEF Streaming, StreamInv, UpperTypeOK
<1> QED
  BY <1>1, <1>2, <1>3 DEF Streaming, UpperTypeOK, MainInv

LEMMA MainKeeps ==
  ASSUME Streaming, CreateFails \/ EndCreates \/ Join
  PROVE  Streaming'
<1>1. UNCHANGED <<uPc, handed, moved, socket, inQueue, created>>
  BY DEF CreateFails, EndCreates, Join, upperVars, deviceVars
<1>2. \/ main = "create" /\ main' = "failed" /\ joined' = joined
      \/ main = "create" /\ created = NumThreads /\ main' = "join" /\ joined' = joined
      \/ /\ main = "join" /\ joined < NumThreads /\ uPc[joined + 1] = "done"
         /\ joined' = joined + 1
         /\ main' = IF joined' = NumThreads THEN "returned" ELSE main
  BY DEF CreateFails, EndCreates, Join
<1>3. joined' \in 0..created /\ MainInv'
  BY <1>1, <1>2, Sizes DEF Streaming, MainInv
<1>4. \A t \in Streams : StreamInv(t)'
  <2> SUFFICES ASSUME NEW t \in Streams PROVE StreamInv(t)'
    OBVIOUS
  <2>1. HadDevice(t) => HadDevice(t)'
    BY <1>1, DeviceKept
  <2>2. t <= joined' => uPc[t] = "done"
    BY <1>2, Sizes DEF Streaming, StreamInv
  <2> QED
    BY <1>1, <2>1, <2>2 DEF Streaming, StreamInv
<1> QED
  BY <1>1, <1>2, <1>3, <1>4 DEF Streaming, UpperTypeOK

-----------------------------------------------------------------------------
THEOREM StreamsHold == Spec => []MultiInv
<1>1. Streaming /\ [Next]_vars => Streaming'
  <2> SUFFICES ASSUME Streaming, [Next]_vars PROVE Streaming'
    OBVIOUS
  <2>1. CASE UNCHANGED <<upperVars, deviceVars, mainVars>>
    BY <2>1, QueueKeeps DEF upperVars, deviceVars, mainVars, Streaming
  <2>2. CASE UNCHANGED vars \/ Launch \/ LaunchFault
    BY <2>1, <2>2 DEF vars, Launch, LaunchFault
  <2>3. CASE CreateThread \/ EndCreates \/ Join \/ UpperTurn \/ CreateFails
    BY <2>3, CreateKeeps, MainKeeps, UpperTurnKeeps
  <2>4. CASE \/ \E c \in Processes : Bind(c) \/ End(c)
             \/ \E s \in Streams : Take(s) \/ Move(s)
    BY <2>4, BindKeeps, EndKeeps, TakeKeeps, MoveKeeps
  <2> QED
    BY <2>2, <2>3, <2>4 DEF Next, Progress
<1>2. Streaming /\ LauncherTypeOK => MultiInv
  BY DEF Streaming, MultiInv, TypeOK
<1> QED
  BY <1>1, <1>2, InitStreaming, ImplementsLauncher, TypeCorrect, PTL DEF Spec

(* Types, and that no queue between a stream and its device passes its     *)
(* high-water mark.                                                        *)
THEOREM QueuesBounded == Spec => []TypeOK
<1>1. MultiInv => TypeOK
  BY DEF MultiInv
<1> QED
  BY <1>1, StreamsHold, PTL

(* al_sim_upperlayer_multi returns only if every stream had a device and   *)
(* all frames were moved to it, for any number of threads and frames.      *)
THEOREM NoReturnUnserved == Spec => []ReturnedWasServed
<1>1. MultiInv => ReturnedWasServed
  <2> SUFFICES ASSUME MultiInv, main = "returned", NEW s \in Streams
               PROVE  moved[s] = ToPush /\ (ToPush > 0 => HadDevice(s))
    BY DEF ReturnedWasServed
  <2>1. StreamInv(s) /\ s <= joined
    BY Sizes DEF MultiInv, MainInv
  <2> QED
    BY <2>1 DEF StreamInv
<1> QED
  BY <1>1, StreamsHold, PTL
=============================================================================
