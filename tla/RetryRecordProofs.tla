-------------------------- MODULE RetryRecordProofs --------------------------
(* Proofs about RetryRecord, for every set of operations and devices, every  *)
(* number of dispatches and any number of restarts: a transfer that may be   *)
(* half done is always on disk, and it is always the only one.               *)
EXTENDS RetryRecord, TLAPS

-----------------------------------------------------------------------------
(* What the mutations of a snapshot return *)

\* A candidate made from a dispatch has its type and names the same transfer.
LEMMA CandidateOfType ==
    ASSUME NEW d \in Dispatch, NEW out \in Outcomes,
           NEW recov \in BOOLEAN, NEW fresh \in BOOLEAN
    PROVE  /\ CandidateOf(d, out, recov, fresh) \in Candidate
           /\ CandidateOf(d, out, recov, fresh) # None
           /\ Transfer(CandidateOf(d, out, recov, fresh)) = Transfer(d)
  <1>1. CandidateOf(d, out, recov, fresh) \in Candidate
    BY DEF CandidateOf, Candidate, Dispatch
  <1>2. CandidateOf(d, out, recov, fresh) # None
    BY <1>1, NoneAssumption
  <1>3. QED
    BY <1>1, <1>2 DEF CandidateOf, Transfer

\* A snapshot is built from its three parts.
LEMMA SnapshotParts ==
    ASSUME NEW s \in Snapshot,
           NEW c \in Candidate \cup {None}, NEW d \in Dispatch \cup {None},
           NEW b \in BOOLEAN
    PROVE  /\ [s EXCEPT !.cand = c, !.infl = d] \in Snapshot
           /\ [s EXCEPT !.cand = c] \in Snapshot
           /\ [s EXCEPT !.infl = d] \in Snapshot
           /\ [s EXCEPT !.clean = b] \in Snapshot
           /\ [s EXCEPT !.infl = d, !.clean = b] \in Snapshot
           /\ s.cand # None => s.cand \in Candidate
           /\ s.infl # None => s.infl \in Dispatch
           /\ s.clean \in BOOLEAN
  BY DEF Snapshot

\* A dispatch that is prepared, for a new upload or for a retry, is a snapshot.
LEMMA PreparedType ==
    ASSUME NEW s \in Snapshot, NEW op \in Ops, NEW dev \in Devices,
           NEW u \in Uids, NEW name \in Uids
    PROVE  /\ PersistPrepared(s, op, u, dev) \in Snapshot
           /\ PersistPrepared(s, op, u, dev).cand = s.cand
           /\ PersistPrepared(s, op, u, dev).infl # None
           /\ PersistPrepared(s, op, u, dev).infl.phase = "Preparing"
           /\ s.cand # None =>
                /\ BeginRetry(s, op, u, name, dev) \in Snapshot
                /\ BeginRetry(s, op, u, name, dev).cand = s.cand
                /\ BeginRetry(s, op, u, name, dev).infl # None
                /\ BeginRetry(s, op, u, name, dev).infl.phase = "Preparing"
  <1> DEFINE fresh == [op |-> op, disp |-> u, lin |-> u, name |-> u,
                       dev |-> dev, phase |-> "Preparing", shared |-> FALSE]
             again == [op |-> op, disp |-> u, lin |-> s.cand.lin,
                       name |-> name, dev |-> dev, phase |-> "Preparing",
                       shared |-> TRUE]
  <1>1. fresh \in Dispatch /\ fresh # None
    <2>1. fresh \in Dispatch
      BY DEF Dispatch, Phases
    <2>2. QED
      BY <2>1, NoneAssumption
  <1>2. PersistPrepared(s, op, u, dev) = [s EXCEPT !.infl = fresh]
    BY DEF PersistPrepared
  <1>3. /\ [s EXCEPT !.infl = fresh] \in Snapshot
        /\ [s EXCEPT !.infl = fresh].cand = s.cand
        /\ [s EXCEPT !.infl = fresh].infl = fresh
    BY <1>1 DEF Snapshot
  <1>4. ASSUME s.cand # None
        PROVE  /\ BeginRetry(s, op, u, name, dev) \in Snapshot
               /\ BeginRetry(s, op, u, name, dev).cand = s.cand
               /\ BeginRetry(s, op, u, name, dev).infl # None
               /\ BeginRetry(s, op, u, name, dev).infl.phase = "Preparing"
    <2>1. s.cand.lin \in Uids
      BY <1>4, SnapshotParts DEF Candidate
    <2>2. again \in Dispatch
      BY <2>1 DEF Dispatch, Phases
    <2>3. again # None
      BY <2>2, NoneAssumption
    <2>4. BeginRetry(s, op, u, name, dev) = [s EXCEPT !.infl = again]
      BY DEF BeginRetry
    <2>5. /\ [s EXCEPT !.infl = again] \in Snapshot
          /\ [s EXCEPT !.infl = again].cand = s.cand
          /\ [s EXCEPT !.infl = again].infl = again
      BY <2>2 DEF Snapshot
    <2>6. QED
      BY <2>3, <2>4, <2>5
  <1>5. QED
    BY <1>1, <1>2, <1>3, <1>4

\* A dispatch that moves to another phase keeps its identity and type.
LEMMA PhaseType ==
    ASSUME NEW s \in Snapshot, s.infl # None, NEW p \in Phases
    PROVE  LET t == [s EXCEPT !.infl.phase = p]
           IN  /\ t \in Snapshot
               /\ t.cand = s.cand /\ t.infl # None
               /\ Transfer(t.infl) = Transfer(s.infl) /\ t.infl.phase = p
  <1> DEFINE d == [s.infl EXCEPT !.phase = p]
             t == [s EXCEPT !.infl.phase = p]
  <1>1. s.infl \in Dispatch
    BY SnapshotParts
  <1>2. d \in Dispatch /\ Transfer(d) = Transfer(s.infl) /\ d.phase = p
    BY <1>1 DEF Dispatch, Transfer
  <1>3. d # None
    BY <1>2, NoneAssumption
  <1>4. t \in Snapshot /\ t.cand = s.cand /\ t.infl = d
    BY <1>2 DEF Snapshot
  <1>5. QED
    BY <1>2, <1>3, <1>4

-----------------------------------------------------------------------------
(* Every mutation returns a snapshot *)

\* The swap of one snapshot for another keeps both records of the new one.
LEMMA SwapType ==
    ASSUME NEW t \in Snapshot, Swap(t)
    PROVE  snap' \in Snapshot /\ snap'.cand = t.cand /\ snap'.infl = t.infl
  <1> DEFINE b == Lineages(snap) \ Lineages(t) # {}
  <1>1. snap' = [t EXCEPT !.clean = b] /\ b \in BOOLEAN
    BY DEF Swap
  <1>2. QED
    BY <1>1 DEF Snapshot

\* An outcome leaves a candidate that demands a recovery.
LEMMA RecordOutcomeType ==
    ASSUME NEW s \in Snapshot, s.infl # None, NEW out \in Outcomes
    PROVE  LET t == RecordOutcome(s, out)
           IN  /\ t \in Snapshot /\ t.infl = None
               /\ t.cand # None /\ t.cand.recov
               /\ Transfer(t.cand) = Transfer(s.infl)
  <1> DEFINE fresh == out = "PartialOrUnknown"
             c == CandidateOf(s.infl, out, TRUE, fresh)
  <1>1. s.infl \in Dispatch /\ fresh \in BOOLEAN
    BY SnapshotParts
  <1>2. c \in Candidate /\ c # None /\ Transfer(c) = Transfer(s.infl)
    <2> HIDE DEF fresh
    <2>1. QED
      BY <1>1, CandidateOfType
  <1>3. c.recov
    BY DEF CandidateOf
  <1>4. RecordOutcome(s, out) = [s EXCEPT !.cand = c, !.infl = None]
    BY DEF RecordOutcome
  <1> HIDE DEF c
  <1>5. QED
    BY <1>2, <1>3, <1>4 DEF Snapshot

\* A commit that is deferred leaves a candidate that demands nothing.
LEMMA DeferLocalCommitType ==
    ASSUME NEW s \in Snapshot, s.infl # None
    PROVE  DeferLocalCommit(s) \in Snapshot /\ DeferLocalCommit(s).infl = None
  <1> DEFINE c == CandidateOf(s.infl, "NotStarted", FALSE, FALSE)
  <1>1. s.infl \in Dispatch /\ "NotStarted" \in Outcomes
    BY SnapshotParts DEF Outcomes
  <1>2. c \in Candidate /\ c # None /\ Transfer(c) = Transfer(s.infl)
    BY <1>1, CandidateOfType
  <1>3. DeferLocalCommit(s) = [s EXCEPT !.cand = c, !.infl = None]
    BY DEF DeferLocalCommit
  <1> HIDE DEF c
  <1>4. QED
    BY <1>2, <1>3 DEF Snapshot

\* The commit of a verified candidate turns it into the dispatch in flight.
LEMMA CommitOfCandidateType ==
    ASSUME NEW s \in Snapshot, s.infl = None, s.cand # None
    PROVE  /\ BeginLocalCommit(s) \in Snapshot
           /\ BeginLocalCommit(s).cand = None
           /\ BeginLocalCommit(s).infl # None
           /\ BeginLocalCommit(s).infl.phase = "LocalCommitPending"
           /\ Transfer(BeginLocalCommit(s).infl) = Transfer(s.cand)
  <1> DEFINE d == [op |-> s.cand.op, disp |-> s.cand.disp,
                   lin |-> s.cand.lin, name |-> s.cand.name,
                   dev |-> s.cand.dev, phase |-> "LocalCommitPending",
                   shared |-> FALSE]
  <1>1. s.cand \in Candidate
    BY SnapshotParts
  <1>2. d \in Dispatch
    BY <1>1 DEF Candidate, Dispatch, Phases
  <1>3. d # None
    BY <1>2, NoneAssumption
  <1>4. BeginLocalCommit(s) = [s EXCEPT !.cand = None, !.infl = d]
    BY DEF BeginLocalCommit
  <1>5. LET t == [s EXCEPT !.cand = None, !.infl = d]
        IN  t \in Snapshot /\ t.cand = None /\ t.infl = d
    BY <1>2 DEF Snapshot
  <1>6. QED
    BY <1>3, <1>4, <1>5 DEF Transfer

\* A candidate that inherits the name of a fenced dispatch stays a candidate.
LEMMA HardenedType ==
    ASSUME NEW c \in Candidate, NEW d \in Dispatch
    PROVE  HardenedCandidate(c, d) \in Candidate
  <1>1. "PartialOrUnknown" \in Outcomes
    BY DEF Outcomes
  <1>2. d.name \in Uids /\ c.out \in Outcomes
    BY DEF Candidate, Dispatch
  <1>3. QED
    BY <1>1, <1>2 DEF HardenedCandidate, Candidate

\* The reconnect that resolves a fence leaves a candidate and no dispatch.
LEMMA FenceReconnectType ==
    ASSUME NEW s \in Snapshot, s.infl # None
    PROVE  /\ ResolveFenceReconnect(s) \in Snapshot
           /\ ResolveFenceReconnect(s).infl = None
  <1> DEFINE c == IF s.cand = None
                  THEN CandidateOf(s.infl, "PartialOrUnknown", FALSE, TRUE)
                  ELSE HardenedCandidate(s.cand, s.infl)
  <1>1. s.infl \in Dispatch /\ (s.cand # None => s.cand \in Candidate)
    BY SnapshotParts
  <1>2. CandidateOf(s.infl, "PartialOrUnknown", FALSE, TRUE) \in Candidate
    BY <1>1, CandidateOfType DEF Outcomes
  <1>3. c \in Candidate
    BY <1>1, <1>2, HardenedType
  <1>4. ResolveFenceReconnect(s) = [s EXCEPT !.cand = c, !.infl = None]
    BY <1>3 DEF ResolveFenceReconnect, Snapshot
  <1>5. [s EXCEPT !.cand = c, !.infl = None] \in Snapshot
    BY <1>3 DEF Snapshot
  <1>6. [s EXCEPT !.cand = c, !.infl = None].infl = None
    BY DEF Snapshot
  <1>7. QED
    BY <1>4, <1>5, <1>6

-----------------------------------------------------------------------------
(* The inductive invariant.  QuietInFlight is what makes the others           *)
(* inductive: while a dispatch is in flight the candidate beside it accounts  *)
(* for no open transfer, so the dispatch alone does.                          *)

IInv == TypeOK /\ OpenIsRecorded /\ QuietInFlight /\ OneOpenTransfer

\* Once nothing is open, only the types and the gate are left to show.
LEMMA NothingOpen ==
    ASSUME open' = {} PROVE OpenIsRecorded' /\ OneOpenTransfer'
  BY DEF OpenIsRecorded, OneOpenTransfer

\* While a dispatch is in flight it is the only transfer that may be open.
LEMMA InFlightAlone ==
    ASSUME IInv, snap.infl # None
    PROVE  /\ open \subseteq {Transfer(snap.infl)}
           /\ snap.infl.phase \notin {"DispatchArmed", "ShadowMissingFence"}
                => open = {}
  BY DEF IInv, OpenIsRecorded, QuietInFlight, Quiet

\* Where no record is in flight only the candidate's transfer may be open, and
\* only while it waits for its proof.
LEMMA CandidateAlone ==
    ASSUME IInv, snap.infl = None
    PROVE  /\ snap.cand = None => open = {}
           /\ snap.cand # None => open \subseteq {Transfer(snap.cand)}
           /\ Quiet(snap) => open = {}
  BY DEF IInv, OpenIsRecorded, Quiet

\* The empty store has no open transfer.
LEMMA InitInv == ASSUME Init PROVE IInv
  <1>1. uid \in 0 .. MaxUid
    BY ConstantsAssumption DEF Init
  <1>2. QED
    BY <1>1 DEF Init, IInv, TypeOK, OpenIsRecorded, QuietInFlight,
                OneOpenTransfer, EmptySnapshot, Snapshot

\* A new dispatch is prepared only when nothing is open.
LEMMA PrepareInv ==
    ASSUME IInv, NEW op \in Ops, NEW dev \in Devices,
           Prepare(op, dev) \/ Retry(op, dev)
    PROVE  IInv'
  <1>1. uid + 1 \in Uids /\ uid + 1 \in 0 .. MaxUid
    BY ConstantsAssumption DEF IInv, TypeOK, Prepare, Retry, Uids
  <1>2. snap.infl = None /\ Quiet(snap) /\ open' = open /\ uid' = uid + 1
    BY DEF Prepare, Retry, CanPersistPrepared, CanBeginRetry
  <1>3. open' = {}
    BY <1>2, CandidateAlone
  <1>4. /\ snap' \in Snapshot /\ snap'.cand = snap.cand
        /\ snap'.infl # None /\ snap'.infl.phase = "Preparing"
    <2>1. snap \in Snapshot
      BY DEF IInv, TypeOK
    <2>2. CASE Prepare(op, dev)
      BY <1>1, <2>1, <2>2, PreparedType DEF Prepare
    <2>3. CASE Retry(op, dev)
      <3>1. PICK name \in {snap.cand.name, uid + 1} :
                snap' = BeginRetry(snap, op, uid + 1, name, dev)
        BY <2>3 DEF Retry
      <3>2. snap.cand # None
        BY <2>3 DEF Retry
      <3>3. name \in Uids
        BY <1>1, <2>1, <3>1, <3>2, SnapshotParts DEF Candidate
      <3>4. QED
        BY <1>1, <2>1, <3>1, <3>2, <3>3, PreparedType
    <2>4. QED
      BY <2>2, <2>3
  <1>5. TypeOK' /\ QuietInFlight'
    BY <1>1, <1>2, <1>3, <1>4 DEF TypeOK, QuietInFlight, Quiet
  <1>6. QED
    BY <1>3, <1>5, NothingOpen DEF IInv

\* The barrier before the wire moves the dispatch to another phase.
LEMMA ArmInv == ASSUME IInv, Arm PROVE IInv'
  <1>1. snap \in Snapshot /\ snap.infl # None /\ "DispatchArmed" \in Phases
    BY DEF IInv, TypeOK, Arm, CanArmDispatch, Phases
  <1>2. snap' = [snap EXCEPT !.infl.phase = "DispatchArmed"] /\ UNCHANGED <<uid, open>>
    BY DEF Arm, ArmDispatch
  <1>3. /\ snap' \in Snapshot /\ snap'.cand = snap.cand /\ snap'.infl # None
    BY <1>1, <1>2, PhaseType
  <1>4. open' = {}
    BY <1>1, <1>2, InFlightAlone DEF Arm, CanArmDispatch
  <1>5. TypeOK' /\ QuietInFlight'
    BY <1>1, <1>2, <1>3 DEF IInv, TypeOK, QuietInFlight, Quiet
  <1>6. QED
    BY <1>4, <1>5, NothingOpen DEF IInv

\* The transfer that opens is the one the armed dispatch names.
LEMMA TransmitInv == ASSUME IInv, Transmit PROVE IInv'
  <1>1. /\ snap.infl # None /\ snap.infl.phase = "DispatchArmed"
        /\ snap \in Snapshot /\ UNCHANGED <<snap, uid>>
    BY DEF Transmit, IInv, TypeOK
  <1>2. open' = {Transfer(snap.infl)}
    BY <1>1, InFlightAlone DEF Transmit
  <1>3. Transfer(snap.infl) \in Devices \X Uids
    BY <1>1, SnapshotParts DEF Dispatch, Transfer
  <1>4. TypeOK' /\ QuietInFlight'
    BY <1>1, <1>2, <1>3 DEF IInv, TypeOK, QuietInFlight, Quiet
  <1>5. OpenIsRecorded' /\ OneOpenTransfer'
    BY <1>1, <1>2 DEF OpenIsRecorded, OneOpenTransfer, Transfer
  <1>6. QED
    BY <1>4, <1>5 DEF IInv

\* Without a dispatch and without an open transfer the types are all there is.
LEMMA Settled ==
    ASSUME TypeOK', open' = {}, snap'.infl = None PROVE IInv'
  BY NothingOpen DEF IInv, QuietInFlight

\* The recorded outcome is the candidate that waits for a proof.
LEMMA RecordedInv ==
    ASSUME IInv, snap.infl # None, NEW out \in Outcomes,
           Swap(RecordOutcome(snap, out)), UNCHANGED <<uid, open>>
    PROVE  IInv'
  <1> DEFINE t == RecordOutcome(snap, out)
  <1>1. snap \in Snapshot
    BY DEF IInv, TypeOK
  <1>2. /\ t \in Snapshot /\ t.infl = None
        /\ t.cand # None /\ t.cand.recov
        /\ Transfer(t.cand) = Transfer(snap.infl)
    BY <1>1, RecordOutcomeType
  <1>3. snap' \in Snapshot /\ snap'.cand = t.cand /\ snap'.infl = None
    BY <1>1, <1>2, SwapType
  <1>4. open' \subseteq {Transfer(snap'.cand)}
    BY <1>1, <1>2, <1>3, InFlightAlone
  <1>5. TypeOK' /\ QuietInFlight'
    BY <1>1, <1>3 DEF IInv, TypeOK, QuietInFlight
  <1>6. OpenIsRecorded'
    BY <1>2, <1>3, <1>4 DEF OpenIsRecorded
  <1>7. OneOpenTransfer'
    BY <1>3, <1>4 DEF OneOpenTransfer
  <1>8. QED
    BY <1>5, <1>6, <1>7 DEF IInv

\* The outcome of a dispatch is recorded as a candidate.
LEMMA RecordTheOutcomeInv ==
    ASSUME IInv, NEW out \in Outcomes, RecordTheOutcome(out) PROVE IInv'
  BY RecordedInv DEF RecordTheOutcome, CanRecordOutcome

\* A dispatch of which nothing was sent leaves nothing open, and so does one
\* that was verified.
LEMMA RetireInv ==
    ASSUME IInv, RetireNotStarted \/ RetireVerified PROVE IInv'
  <1> DEFINE kept == [snap EXCEPT !.infl = None]
             both == [snap EXCEPT !.cand = None, !.infl = None]
  <1>1. snap \in Snapshot /\ snap.infl # None /\ uid' = uid
    BY DEF IInv, TypeOK, RetireNotStarted, RetireVerified
  <1>2. open' = {}
    <2>1. open \subseteq {Transfer(snap.infl)}
      BY <1>1, InFlightAlone
    <2>2. QED
      BY <2>1 DEF RetireNotStarted, RetireVerified
  <1>3. kept \in Snapshot /\ kept.infl = None /\ both \in Snapshot /\ both.infl = None
    BY <1>1 DEF Snapshot
  <1>4. snap' \in Snapshot /\ snap'.infl = None
    <2>1. CASE RetireNotStarted
      BY <1>3, <2>1, SwapType DEF RetireNotStarted, RetireProven
    <2>2. CASE RetireVerified
      <3>1. RetireAcknowledged(snap) \in {kept, both}
        BY <1>1 DEF RetireAcknowledged, Snapshot
      <3>2. RetireAcknowledged(snap) \in Snapshot /\ RetireAcknowledged(snap).infl = None
        BY <1>3, <3>1
      <3>3. QED
        BY <2>2, <3>2, SwapType DEF RetireVerified
    <2>3. QED
      BY <2>1, <2>2
  <1>5. TypeOK'
    BY <1>1, <1>2, <1>4 DEF IInv, TypeOK
  <1>6. QED
    BY <1>2, <1>4, <1>5, Settled

\* A verified upload is closed, whether it was in flight or a candidate.
LEMMA StartLocalCommitInv == ASSUME IInv, StartLocalCommit PROVE IInv'
  <1> DEFINE t == BeginLocalCommit(snap)
  <1>1. /\ snap \in Snapshot /\ uid' = uid /\ CanBeginLocalCommit(snap)
        /\ open' = open \ {Transfer(snap'.infl)} /\ Swap(t)
    BY DEF IInv, TypeOK, StartLocalCommit
  <1>2. /\ t \in Snapshot /\ t.infl # None
        /\ t.cand # None => t.cand = snap.cand /\ Quiet(snap)
        /\ open \subseteq {Transfer(t.infl)}
    <2>1. CASE snap.infl # None
      <3>1. t = [snap EXCEPT !.infl.phase = "LocalCommitPending"]
        BY <2>1 DEF BeginLocalCommit
      <3>2. /\ t \in Snapshot /\ t.cand = snap.cand /\ t.infl # None
            /\ Transfer(t.infl) = Transfer(snap.infl)
        BY <1>1, <2>1, <3>1, PhaseType DEF Phases
      <3>3. Quiet(snap)
        BY <2>1 DEF IInv, QuietInFlight
      <3>4. QED
        BY <2>1, <3>2, <3>3, InFlightAlone
    <2>2. CASE snap.infl = None
      <3>1. snap.cand # None
        BY <1>1, <2>2 DEF CanBeginLocalCommit
      <3>2. QED
        BY <1>1, <2>2, <3>1, CommitOfCandidateType, CandidateAlone
    <2>3. QED
      BY <2>1, <2>2
  <1>3. snap' \in Snapshot /\ snap'.cand = t.cand /\ snap'.infl = t.infl
    BY <1>1, <1>2, SwapType
  <1>4. open' = {}
    BY <1>1, <1>2, <1>3
  <1>5. TypeOK' /\ QuietInFlight'
    BY <1>1, <1>2, <1>3, <1>4 DEF IInv, TypeOK, QuietInFlight, Quiet
  <1>6. QED
    BY <1>4, <1>5, NothingOpen DEF IInv

\* The commit that has to wait leaves a candidate that was closed before.
LEMMA DeferTheLocalCommitInv == ASSUME IInv, DeferTheLocalCommit PROVE IInv'
  <1>1. /\ snap \in Snapshot /\ snap.infl # None /\ UNCHANGED <<uid, open>>
        /\ snap.infl.phase = "LocalCommitPending"
        /\ Swap(DeferLocalCommit(snap))
    BY DEF IInv, TypeOK, DeferTheLocalCommit, CanDeferLocalCommit
  <1>2. snap' \in Snapshot /\ snap'.infl = None
    BY <1>1, DeferLocalCommitType, SwapType
  <1>3. open' = {}
    BY <1>1, InFlightAlone
  <1>4. TypeOK'
    BY <1>1, <1>2, <1>3 DEF IInv, TypeOK
  <1>5. QED
    BY <1>2, <1>3, <1>4, Settled

\* A candidate leaves, or the device came back: nothing of it is open.
LEMMA DropCandidateInv == ASSUME IInv, DropCandidate PROVE IInv'
  <1> DEFINE t == [snap EXCEPT !.cand = None]
  <1>1. /\ snap \in Snapshot /\ snap.infl = None /\ snap.cand # None
        /\ Swap(t) /\ uid' = uid /\ open' = Closed(snap.cand.dev)
    BY DEF IInv, TypeOK, DropCandidate, CanClearCandidate, ClearCandidate
  <1>2. t \in Snapshot /\ t.infl = None
    BY <1>1 DEF Snapshot
  <1>3. snap' \in Snapshot /\ snap'.infl = None
    BY <1>1, <1>2, SwapType
  <1>4. open' = {}
    BY <1>1, CandidateAlone DEF Closed, Transfer
  <1>5. TypeOK'
    BY <1>1, <1>3, <1>4 DEF IInv, TypeOK
  <1>6. QED
    BY <1>3, <1>4, <1>5, Settled

\* The reconnect closes the transfer of the candidate, which stays.
LEMMA ReconnectedInv == ASSUME IInv, Reconnected PROVE IInv'
  <1> DEFINE c == [snap.cand EXCEPT !.recov = FALSE]
  <1>1. /\ snap \in Snapshot /\ snap.infl = None /\ snap.cand # None
        /\ snap' = [snap EXCEPT !.cand.recov = FALSE]
        /\ uid' = uid /\ open' = Closed(snap.cand.dev)
    BY DEF IInv, TypeOK, Reconnected, CanResolveReconnect, CanClearCandidate,
           ResolveReconnect
  <1>2. c \in Candidate
    BY <1>1, SnapshotParts DEF Candidate
  <1>3. snap' \in Snapshot /\ snap'.infl = None
    BY <1>1, <1>2 DEF Snapshot
  <1>4. open' = {}
    BY <1>1, CandidateAlone DEF Closed, Transfer
  <1>5. TypeOK'
    BY <1>1, <1>3, <1>4 DEF IInv, TypeOK
  <1>6. QED
    BY <1>3, <1>4, <1>5, Settled

\* A candidate that changes its verdict or its operation names the transfer
\* it named before, and still demands its recovery.
LEMMA SameTransfer ==
    ASSUME IInv, TypeOK', open' = open, snap.infl = None, snap'.infl = None,
           snap.cand # None, snap'.cand # None,
           Transfer(snap'.cand) = Transfer(snap.cand),
           snap'.cand.recov = snap.cand.recov
    PROVE  IInv'
  <1>1. OpenIsRecorded'
    BY DEF IInv, OpenIsRecorded
  <1>2. OneOpenTransfer'
    BY DEF IInv, OneOpenTransfer
  <1>3. QED
    BY <1>1, <1>2 DEF IInv, QuietInFlight

\* Media missing from the list leave the candidate waiting for a reconnect.
LEMMA NotFinalizedInv == ASSUME IInv, NotFinalized PROVE IInv'
  <1> DEFINE c == [snap.cand EXCEPT !.out = "PartialOrUnknown", !.fresh = TRUE]
  <1>1. /\ snap \in Snapshot /\ snap.infl = None /\ snap.cand # None
        /\ snap' = ResolveFinalization(snap) /\ UNCHANGED <<uid, open>>
    BY DEF IInv, TypeOK, NotFinalized, CanResolveFinalization, CanClearCandidate
  <1>2. /\ c \in Candidate /\ Transfer(c) = Transfer(snap.cand)
        /\ c.recov = snap.cand.recov
    BY <1>1, SnapshotParts DEF Candidate, Outcomes, Transfer
  <1>3. c # None
    BY <1>2, NoneAssumption
  <1>4. snap' \in Snapshot /\ snap'.infl = None /\ snap'.cand = c
    BY <1>1, <1>2 DEF Snapshot, ResolveFinalization
  <1>5. TypeOK'
    BY <1>1, <1>4 DEF IInv, TypeOK
  <1>6. QED
    BY <1>1, <1>2, <1>3, <1>4, <1>5, SameTransfer

\* A candidate under another operation still names its transfer.
LEMMA RemapInv ==
    ASSUME IInv, NEW op \in Ops, Remap(op) PROVE IInv'
  <1> DEFINE c == [snap.cand EXCEPT !.op = op]
  <1>1. /\ snap \in Snapshot /\ snap.infl = None /\ snap.cand # None
        /\ snap' = [snap EXCEPT !.cand.op = op] /\ UNCHANGED <<uid, open>>
    BY DEF IInv, TypeOK, Remap, RemapCandidate, CanClearCandidate
  <1>2. /\ c \in Candidate /\ Transfer(c) = Transfer(snap.cand)
        /\ c.recov = snap.cand.recov
    BY <1>1, SnapshotParts DEF Candidate, Transfer
  <1>3. c # None
    BY <1>2, NoneAssumption
  <1>4. snap' \in Snapshot /\ snap'.infl = None /\ snap'.cand = c
    BY <1>1, <1>2 DEF Snapshot
  <1>5. TypeOK'
    BY <1>1, <1>4 DEF IInv, TypeOK
  <1>6. QED
    BY <1>1, <1>2, <1>3, <1>4, <1>5, SameTransfer

\* The reconnect that resolves a fence closes the fenced transfer.
LEMMA FenceReconnectedInv == ASSUME IInv, FenceReconnected PROVE IInv'
  <1>1. /\ snap \in Snapshot /\ snap.infl # None /\ uid' = uid
        /\ Swap(ResolveFenceReconnect(snap)) /\ open' = Closed(snap.infl.dev)
    BY DEF IInv, TypeOK, FenceReconnected
  <1>2. snap' \in Snapshot /\ snap'.infl = None
    BY <1>1, FenceReconnectType, SwapType
  <1>3. open' = {}
    BY <1>1, InFlightAlone DEF Closed, Transfer
  <1>4. TypeOK'
    BY <1>1, <1>2, <1>3 DEF IInv, TypeOK
  <1>5. QED
    BY <1>2, <1>3, <1>4, Settled

\* Deleting media without a record touches no record.
LEMMA CleanupInv == ASSUME IInv, Cleanup PROVE IInv'
  <1>1. /\ snap \in Snapshot /\ UNCHANGED <<uid, open>>
        /\ snap' = [snap EXCEPT !.clean = FALSE]
    BY DEF IInv, TypeOK, Cleanup
  <1>2. snap' \in Snapshot /\ snap'.cand = snap.cand /\ snap'.infl = snap.infl
    BY <1>1 DEF Snapshot
  <1>3. TypeOK' /\ QuietInFlight'
    BY <1>1, <1>2 DEF IInv, TypeOK, QuietInFlight, Quiet
  <1>4. OpenIsRecorded' /\ OneOpenTransfer'
    BY <1>1, <1>2 DEF IInv, OpenIsRecorded, OneOpenTransfer
  <1>5. QED
    BY <1>3, <1>4 DEF IInv

\* A restart drops what was never sent, turns an armed dispatch into the
\* candidate that waits for its proof, or fences it, and keeps the rest.
LEMMA RestartInv == ASSUME IInv, Restart PROVE IInv'
  <1>1. PICK lost \in BOOLEAN : Swap(Recovered(snap, lost))
    BY DEF Restart
  <1>2. snap \in Snapshot /\ UNCHANGED <<uid, open>>
    BY DEF IInv, TypeOK, Restart
  <1> DEFINE t == Recovered(snap, lost)
             p == snap.infl.phase
  <1>3. snap.infl # None => p \in Phases
    BY <1>2, SnapshotParts DEF Dispatch
  <1>4. ASSUME t \in Snapshot, t.infl = None, open = {} PROVE IInv'
    <2>1. snap' \in Snapshot /\ snap'.infl = None
      BY <1>1, <1>4, SwapType
    <2>2. TypeOK'
      BY <1>2, <2>1 DEF IInv, TypeOK
    <2>3. QED
      BY <1>2, <1>4, <2>1, <2>2, Settled
  <1>5. CASE snap.infl = None
    <2>1. t = [snap EXCEPT !.clean = FALSE]
      BY <1>5 DEF Recovered
    <2>2. t \in Snapshot /\ t.cand = snap.cand /\ t.infl = None
      BY <1>2, <1>5, <2>1 DEF Snapshot
    <2>3. snap' \in Snapshot /\ snap'.cand = snap.cand /\ snap'.infl = None
      BY <1>1, <2>2, SwapType
    <2>4. TypeOK' /\ QuietInFlight'
      BY <1>2, <2>3 DEF IInv, TypeOK, QuietInFlight
    <2>5. OpenIsRecorded' /\ OneOpenTransfer'
      BY <1>2, <1>5, <2>3 DEF IInv, OpenIsRecorded, OneOpenTransfer
    <2>6. QED
      BY <2>4, <2>5 DEF IInv
  <1>6. CASE snap.infl # None /\ p = "Preparing"
    <2>1. t = [snap EXCEPT !.infl = None, !.clean = FALSE]
      BY <1>6 DEF Recovered
    <2>2. t \in Snapshot /\ t.infl = None
      BY <1>2, <2>1 DEF Snapshot
    <2>3. QED
      BY <1>4, <1>6, <2>2, InFlightAlone
  <1>7. CASE snap.infl # None /\ p = "DispatchArmed" /\ ~lost
    <2>1. t = RecordOutcome(snap, "PartialOrUnknown")
      BY <1>7 DEF Recovered
    <2>2. "PartialOrUnknown" \in Outcomes
      BY DEF Outcomes
    <2>3. QED
      BY <1>1, <1>2, <1>7, <2>1, <2>2, RecordedInv
  <1>8. CASE /\ snap.infl # None
             /\ p = "ShadowMissingFence" \/ (p = "DispatchArmed" /\ lost)
    <2>1. /\ t \in Snapshot /\ t.cand = snap.cand /\ t.infl # None
          /\ Transfer(t.infl) = Transfer(snap.infl)
          /\ t.infl.phase = "ShadowMissingFence"
      <3>1. CASE p = "ShadowMissingFence"
        <4>1. t = snap
          BY <1>8, <3>1 DEF Recovered
        <4>2. QED
          BY <1>2, <1>8, <3>1, <4>1
      <3>2. CASE p = "DispatchArmed" /\ lost
        <4>1. t = [snap EXCEPT !.infl.phase = "ShadowMissingFence"]
          BY <1>8, <3>2 DEF Recovered
        <4>2. "ShadowMissingFence" \in Phases
          BY DEF Phases, FencePhases
        <4> HIDE DEF t
        <4>3. QED
          BY <1>2, <1>8, <4>1, <4>2, PhaseType
      <3>3. QED
        BY <1>8, <3>1, <3>2
    <2>2. /\ snap' \in Snapshot /\ snap'.cand = snap.cand
          /\ snap'.infl = t.infl
      BY <1>1, <2>1, SwapType
    <2>3. open' \subseteq {Transfer(snap'.infl)}
      BY <1>2, <1>8, <2>1, <2>2, InFlightAlone
    <2>4. TypeOK' /\ QuietInFlight'
      BY <1>2, <1>8, <2>2 DEF IInv, TypeOK, QuietInFlight, Quiet
    <2>5. OpenIsRecorded' /\ OneOpenTransfer'
      BY <2>1, <2>2, <2>3 DEF OpenIsRecorded, OneOpenTransfer
    <2>6. QED
      BY <2>4, <2>5 DEF IInv
  <1>9. CASE snap.infl # None /\ p = "LocalCommitPending"
    <2>1. t = DeferLocalCommit(snap)
      BY <1>9 DEF Recovered
    <2>2. t \in Snapshot /\ t.infl = None
      BY <1>2, <1>9, <2>1, DeferLocalCommitType
    <2>3. QED
      BY <1>4, <1>9, <2>2, InFlightAlone
  <1>10. CASE snap.infl # None /\ p = "ReconnectPending"
    <2>1. t = ResolveFenceReconnect(snap)
      BY <1>10 DEF Recovered
    <2>2. t \in Snapshot /\ t.infl = None
      BY <1>2, <1>10, <2>1, FenceReconnectType
    <2>3. QED
      BY <1>4, <1>10, <2>2, InFlightAlone
  <1>11. QED
    BY <1>3, <1>5, <1>6, <1>7, <1>8, <1>9, <1>10 DEF Phases, FencePhases

-----------------------------------------------------------------------------
(* The theorems *)

\* Every step of the record keeps the invariant.
LEMMA StepInv == ASSUME IInv, [Next]_vars PROVE IInv'
  <1>1. CASE UNCHANGED vars
    BY <1>1 DEF vars, IInv, TypeOK, OpenIsRecorded, QuietInFlight, Quiet,
                OneOpenTransfer, Transfer
  <1>2. CASE Next
    <2>1. CASE \E op \in Ops, dev \in Devices : Prepare(op, dev) \/ Retry(op, dev)
      BY <2>1, PrepareInv
    <2>2. CASE Arm \/ Transmit
      BY <2>2, ArmInv, TransmitInv
    <2>3. CASE \E out \in Outcomes : RecordTheOutcome(out)
      BY <2>3, RecordTheOutcomeInv
    <2>4. CASE RetireNotStarted \/ RetireVerified
      BY <2>4, RetireInv
    <2>5. CASE StartLocalCommit \/ DeferTheLocalCommit
      BY <2>5, StartLocalCommitInv, DeferTheLocalCommitInv
    <2>6. CASE DropCandidate \/ Reconnected \/ NotFinalized \/ FenceReconnected
      BY <2>6, DropCandidateInv, ReconnectedInv, NotFinalizedInv,
         FenceReconnectedInv
    <2>7. CASE \E op \in Ops : Remap(op)
      BY <2>7, RemapInv
    <2>8. CASE Cleanup \/ Restart
      BY <2>8, CleanupInv, RestartInv
    <2>9. QED
      BY <1>2, <2>1, <2>2, <2>3, <2>4, <2>5, <2>6, <2>7, <2>8 DEF Next
  <1>3. QED
    BY <1>1, <1>2

\* The inductive invariant holds in every reachable state.
THEOREM InductiveInvariant == Spec => []IInv
  <1>1. Init => IInv
    BY InitInv
  <1>2. IInv /\ [Next]_vars => IInv'
    BY StepInv
  <1>3. QED
    BY <1>1, <1>2, PTL DEF Spec

\* The snapshot always has the shape load() accepts, for any number of
\* operations, devices and dispatches.
THEOREM TypeCorrect == Spec => []TypeOK
  <1>1. IInv => TypeOK
    BY DEF IInv
  <1>2. QED
    BY <1>1, InductiveInvariant, PTL

\* No sequence of uploads, retries, outcomes, reconnects and restarts leaves a
\* transfer that may be half done without its record on disk.
THEOREM OpenTransferIsRecorded == Spec => []OpenIsRecorded
  <1>1. IInv => OpenIsRecorded
    BY DEF IInv
  <1>2. QED
    BY <1>1, InductiveInvariant, PTL

\* Nothing is in flight while an earlier outcome waits for its proof.
THEOREM InFlightIsQuiet == Spec => []QuietInFlight
  <1>1. IInv => QuietInFlight
    BY DEF IInv
  <1>2. QED
    BY <1>1, InductiveInvariant, PTL

\* At most one transfer is ever open, and none while an upload is prepared.
THEOREM AtMostOneOpenTransfer == Spec => []OneOpenTransfer
  <1>1. IInv => OneOpenTransfer
    BY DEF IInv
  <1>2. QED
    BY <1>1, InductiveInvariant, PTL

=============================================================================
