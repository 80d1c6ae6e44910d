----------------------------- MODULE RetryRecord -----------------------------
(* What RetryCacheStore promises the upload path: one durable snapshot that   *)
(* each mutation replaces as a whole, and that a restart recovers.  It stands *)
(* beside the fact it is there for, the transfers whose end nobody has proved *)
(* (open), and states that none of them is ever forgotten.  The guards are    *)
(* those of the store's own checks and of the gates of                        *)
(* PrinterOperationCoordinator around its calls.                              *)
EXTENDS RetrySnapshot

VARIABLES
    snap,  \* the durable snapshot
    uid,   \* the last dispatch id that was allocated
    open   \* transfers <<device, name>> that may be half done on the device

vars == <<snap, uid, open>>

Init == snap = EmptySnapshot /\ uid = 0 /\ open = {}

-----------------------------------------------------------------------------
(* Helpers *)

\* The records that t no longer holds leave prepared media behind, which the
\* snapshot marks for deletion before anything else may be written.
Lineages(s) == {x.lin : x \in {s.cand, s.infl} \ {None}}

Swap(t) == snap' = [t EXCEPT !.clean = Lineages(snap) \ Lineages(t) # {}]

\* No recovery is outstanding: neither recoveryRequired of the session nor the
\* read-only restriction of an unverified upload holds.
Quiet(s) == s.cand # None => ~s.cand.recov /\ ~FinalizationOnly(s.cand)

Closed(d) == {x \in open : x[1] # d}

Transfer(d) == <<d.dev, d.name>>

-----------------------------------------------------------------------------
(* A new upload, a retry of the candidate, and the barrier before the wire *)

\* Mutant: a new upload does not wait for the recovery of an earlier one.
PrepareOverRecovery(op, dev) ==
    /\ CanPersistPrepared(snap, op) /\ uid < MaxUid
    /\ uid' = uid + 1
    /\ snap' = PersistPrepared(snap, op, uid + 1, dev)
    /\ UNCHANGED open

Prepare(op, dev) ==
    /\ CanPersistPrepared(snap, op) /\ Quiet(snap) /\ uid < MaxUid
    /\ uid' = uid + 1
    /\ snap' = PersistPrepared(snap, op, uid + 1, dev)
    /\ UNCHANGED open

\* A retry keeps the name of its candidate unless that name is spent; media
\* whose transfer began goes back to the same device only.
\* Mutant: an unproven retry may still be pending when another begins.
RetryOverRecovery(op, dev) ==
    /\ snap.cand # None /\ uid < MaxUid
    /\ snap.cand.out # "NotStarted" => dev = snap.cand.dev
    /\ uid' = uid + 1
    /\ \E name \in {snap.cand.name, uid + 1} :
         /\ CanBeginRetry(snap, op, name)
         /\ snap' = BeginRetry(snap, op, uid + 1, name, dev)
    /\ UNCHANGED open

Retry(op, dev) ==
    /\ snap.cand # None /\ Quiet(snap) /\ uid < MaxUid
    /\ snap.cand.out # "NotStarted" => dev = snap.cand.dev
    /\ uid' = uid + 1
    /\ \E name \in {snap.cand.name, uid + 1} :
         /\ CanBeginRetry(snap, op, name)
         /\ snap' = BeginRetry(snap, op, uid + 1, name, dev)
    /\ UNCHANGED open

Arm ==
    /\ CanArmDispatch(snap)
    /\ snap' = ArmDispatch(snap)
    /\ UNCHANGED <<uid, open>>

\* The worker sends the media.  From here on only a proof closes the transfer.
Transmit ==
    /\ snap.infl # None /\ snap.infl.phase = "DispatchArmed"
    /\ open' = open \cup {Transfer(snap.infl)}
    /\ UNCHANGED <<snap, uid>>

-----------------------------------------------------------------------------
(* The end of a dispatch *)

RecordTheOutcome(out) ==
    /\ CanRecordOutcome(snap) /\ out # "NotStarted"
    /\ Swap(RecordOutcome(snap, out))
    /\ UNCHANGED <<uid, open>>

\* The worker proved that nothing was sent.
RetireNotStarted ==
    /\ snap.infl # None /\ snap.infl.phase = "DispatchArmed"
    /\ Transfer(snap.infl) \notin open
    /\ Swap(RetireProven(snap))
    /\ UNCHANGED <<uid, open>>

\* The file list, or the answer of a device without one, proved the upload.
RetireVerified ==
    /\ snap.infl # None /\ snap.infl.phase # "Preparing"
    /\ snap.infl.phase # "ReconnectPending"
    /\ Swap(RetireAcknowledged(snap))
    /\ open' = open \ {Transfer(snap.infl)}
    /\ UNCHANGED uid

StartLocalCommit ==
    /\ CanBeginLocalCommit(snap)
    /\ Swap(BeginLocalCommit(snap))
    /\ open' = open \ {Transfer(snap'.infl)}
    /\ UNCHANGED uid

DeferTheLocalCommit ==
    /\ CanDeferLocalCommit(snap)
    /\ Swap(DeferLocalCommit(snap))
    /\ UNCHANGED <<uid, open>>

-----------------------------------------------------------------------------
(* The end of a candidate, and the proofs that move it *)

\* The media is found on the device, or the user discards the retry: then
\* nobody waits for the transfers of that device any more.
DropCandidate ==
    /\ CanClearCandidate(snap)
    /\ Swap(ClearCandidate(snap))
    /\ open' = Closed(snap.cand.dev)
    /\ UNCHANGED uid

\* The removal and return of the device ended whatever session it had open.
Reconnected ==
    /\ CanResolveReconnect(snap)
    /\ snap' = ResolveReconnect(snap)
    /\ open' = Closed(snap.cand.dev)
    /\ UNCHANGED uid

\* The file list does not hold the media that was sent.
NotFinalized ==
    /\ CanResolveFinalization(snap)
    /\ snap' = ResolveFinalization(snap)
    /\ UNCHANGED <<uid, open>>

Remap(op) ==
    /\ CanClearCandidate(snap) /\ snap.cand.op # op
    /\ snap' = RemapCandidate(snap, op)
    /\ UNCHANGED <<uid, open>>

FenceReconnected ==
    /\ snap.infl # None /\ snap.infl.phase \in FencePhases
    /\ Swap(ResolveFenceReconnect(snap))
    /\ open' = Closed(snap.infl.dev)
    /\ UNCHANGED uid

-----------------------------------------------------------------------------
(* Media without a record is deleted, and a restart recovers the records *)

Cleanup ==
    /\ snap.clean
    /\ snap' = [snap EXCEPT !.clean = FALSE]
    /\ UNCHANGED <<uid, open>>

\* lost: a downgraded runtime deleted the shadow of an armed dispatch.
Restart ==
    \E lost \in BOOLEAN :
        /\ ~snap.clean /\ Swap(Recovered(snap, lost))
        /\ UNCHANGED <<uid, open>>

Next ==
    \/ \E op \in Ops, dev \in Devices : Prepare(op, dev) \/ Retry(op, dev)
    \/ Arm \/ Transmit
    \/ \E out \in Outcomes : RecordTheOutcome(out)
    \/ RetireNotStarted \/ RetireVerified
    \/ StartLocalCommit \/ DeferTheLocalCommit
    \/ DropCandidate \/ Reconnected \/ NotFinalized \/ FenceReconnected
    \/ \E op \in Ops : Remap(op)
    \/ Cleanup \/ Restart

Spec == Init /\ [][Next]_vars

-----------------------------------------------------------------------------
(* Properties *)

\* The snapshot, the ids and the open transfers have their types.
TypeOK ==
    /\ snap \in Snapshot
    /\ uid \in 0 .. MaxUid
    /\ open \subseteq Devices \X Uids

\* A transfer that may be half done is on disk: as the dispatch in flight, or
\* as a candidate that blocks its device until it is power-cycled or verified.
OpenIsRecorded ==
    \A x \in open :
        \/ /\ snap.infl # None /\ Transfer(snap.infl) = x
           /\ snap.infl.phase \in {"DispatchArmed", "ShadowMissingFence"}
        \/ /\ snap.cand # None /\ Transfer(snap.cand) = x
           /\ snap.cand.recov

\* While a dispatch is in flight no earlier outcome waits for a power cycle or
\* for a look at the file list: its end alone decides what is open.
QuietInFlight == snap.infl # None => Quiet(snap)

\* No upload is prepared, and no second one is sent, over an open transfer.
OneOpenTransfer ==
    /\ snap.infl # None /\ snap.infl.phase = "Preparing" => open = {}
    /\ \A x, y \in open : x = y

=============================================================================
