--------------------------- MODULE RetrySnapshot ---------------------------
(* The durable retry state of the upload path, as RetryCacheStore keeps it:   *)
(* one retry candidate (an upload that may be retried by hand) and one        *)
(* in-flight dispatch (an upload that is, or was, on the wire), plus a list   *)
(* of local files still to delete.  This module has no variables: it defines  *)
(* the records and what each mutation of RetryCacheStore makes of a snapshot. *)
(* RetryRecord is the state machine over these operators, RetryStore the      *)
(* crash-safe protocol that implements it on disk, and UploadRetry the        *)
(* coordinator that calls it.                                                 *)
EXTENDS Naturals

CONSTANTS
    Ops,      \* operation ids: UUIDs chosen by the clients of the runtime
    Devices,  \* identities (serial numbers) of physical devices
    MaxUid,   \* how many dispatch ids the instance may allocate
    None      \* the absent record, operation or device

ASSUME ConstantsAssumption ==
    /\ MaxUid \in Nat
    /\ None \notin Ops /\ None \notin Devices

\* Dispatch ids, lineage ids and generated remote names are fresh UUIDs; each
\* is drawn from one counter, so that a name is known by the dispatch it was
\* generated for.
Uids == 1 .. MaxUid

Outcomes == {"NotStarted", "PartialOrUnknown", "FinalizationUnknown"}

FencePhases == {"ShadowMissingFence", "ReconnectPending"}

Phases == {"Preparing", "DispatchArmed", "LocalCommitPending"} \cup FencePhases

Candidate ==
    [op : Ops, disp : Uids, lin : Uids, name : Uids, dev : Devices,
     out : Outcomes, recov : BOOLEAN, fresh : BOOLEAN]

Dispatch ==
    [op : Ops, disp : Uids, lin : Uids, name : Uids, dev : Devices,
     phase : Phases, shared : BOOLEAN]

Snapshot ==
    [cand : Candidate \cup {None}, infl : Dispatch \cup {None}, clean : BOOLEAN]

\* The absent record is none of the records.
ASSUME NoneAssumption == None \notin Candidate \cup Dispatch

EmptySnapshot == [cand |-> None, infl |-> None, clean |-> FALSE]

FinalizationOnly(c) == c.out = "FinalizationUnknown"

\* The candidate that a dispatch leaves behind when its outcome is recorded.
CandidateOf(d, out, recov, fresh) ==
    [op |-> d.op, disp |-> d.disp, lin |-> d.lin, name |-> d.name,
     dev |-> d.dev, out |-> out, recov |-> recov, fresh |-> fresh]

-----------------------------------------------------------------------------
(* What the mutations write.  Their preconditions are the guards CanX.        *)

\* The id of the operation may not be that of the candidate: the transition
\* store tells the two records apart by it.
CanPersistPrepared(s, op) ==
    /\ s.infl = None /\ ~s.clean
    /\ s.cand # None => op # s.cand.op

PersistPrepared(s, op, uid, dev) ==
    [s EXCEPT !.infl = [op |-> op, disp |-> uid, lin |-> uid, name |-> uid,
                        dev |-> dev, phase |-> "Preparing", shared |-> FALSE]]

CanBeginRetry(s, op, name) ==
    /\ s.cand # None /\ s.infl = None /\ ~s.clean
    /\ op # s.cand.op
    /\ s.cand.fresh => name # s.cand.name

BeginRetry(s, op, uid, name, dev) ==
    [s EXCEPT !.infl = [op |-> op, disp |-> uid, lin |-> s.cand.lin,
                        name |-> name, dev |-> dev, phase |-> "Preparing",
                        shared |-> TRUE]]

CanArmDispatch(s) == s.infl # None /\ s.infl.phase = "Preparing"

\* Mutant: the dispatch goes to the wire without being armed on disk.
ArmDispatchForgotten(s) == s

ArmDispatch(s) == [s EXCEPT !.infl.phase = "DispatchArmed"]

\* PartialOrUnknown demands a reconnect and a new name; FinalizationUnknown
\* demands a read-only look at the file list.  An older candidate is dropped.
CanRecordOutcome(s) == s.infl # None /\ s.infl.phase = "DispatchArmed"

\* Mutants: the demand for a reconnect, or for a new name, is not recorded.
RecordOutcomeWithoutRecovery(s, out) ==
    [s EXCEPT !.cand = CandidateOf(s.infl, out, FALSE, out = "PartialOrUnknown"),
              !.infl = None]
RecordOutcomeWithOldName(s, out) ==
    [s EXCEPT !.cand = CandidateOf(s.infl, out, TRUE, FALSE), !.infl = None]

RecordOutcome(s, out) ==
    [s EXCEPT !.cand = CandidateOf(s.infl, out, TRUE, out = "PartialOrUnknown"),
              !.infl = None]

\* A verified upload whose local catalogue entry is still to be written: the
\* dispatch itself, or the candidate that only awaited verification.
CanBeginLocalCommit(s) ==
    \/ s.infl # None /\ s.infl.phase \in {"DispatchArmed", "ShadowMissingFence"}
    \/ s.infl = None /\ s.cand # None /\ FinalizationOnly(s.cand) /\ ~s.clean

BeginLocalCommit(s) ==
    IF s.infl # None
    THEN [s EXCEPT !.infl.phase = "LocalCommitPending"]
    ELSE [s EXCEPT !.cand = None,
                   !.infl = [op |-> s.cand.op, disp |-> s.cand.disp,
                             lin |-> s.cand.lin, name |-> s.cand.name,
                             dev |-> s.cand.dev, phase |-> "LocalCommitPending",
                             shared |-> FALSE]]

CanDeferLocalCommit(s) == s.infl # None /\ s.infl.phase = "LocalCommitPending"

\* Mutant: the commit that failed keeps the record of the dispatch as it is.
DeferLocalCommitAsItIs(s) == [s EXCEPT !.cand = s.infl, !.infl = None]

DeferLocalCommit(s) ==
    [s EXCEPT !.cand = CandidateOf(s.infl, "NotStarted", FALSE, FALSE),
              !.infl = None]

\* A retirement without a proof of success keeps the candidate; a proven
\* success of a retry retires the candidate it retried as well.
\* Mutant: a retry that did not start takes its candidate with it.
RetireProvenWithCandidate(s) == [s EXCEPT !.cand = None, !.infl = None]

RetireProven(s) == [s EXCEPT !.infl = None]

RetireAcknowledged(s) ==
    [s EXCEPT !.cand = IF s.infl.shared THEN None ELSE @, !.infl = None]

CanClearCandidate(s) == s.cand # None /\ s.infl = None /\ ~s.clean

ClearCandidate(s) == [s EXCEPT !.cand = None]

\* candidateTransitionTarget: the three proofs that move a candidate.
CanResolveReconnect(s) ==
    /\ CanClearCandidate(s)
    /\ s.cand.out = "PartialOrUnknown" /\ s.cand.recov

ResolveReconnect(s) == [s EXCEPT !.cand.recov = FALSE]

CanResolveFinalization(s) == CanClearCandidate(s) /\ FinalizationOnly(s.cand)

ResolveFinalization(s) ==
    [s EXCEPT !.cand.out = "PartialOrUnknown", !.cand.fresh = TRUE]

RemapCandidate(s, op) == [s EXCEPT !.cand.op = op]

\* A fence is resolved by a proof of success or by a physical reconnect.  The
\* reconnect turns a fenced dispatch without candidate into a candidate; a
\* candidate of the same device inherits the fenced name and must avoid it.
HardenedCandidate(c, d) ==
    IF c.dev # d.dev THEN c
    ELSE [c EXCEPT !.out = IF @ = "FinalizationUnknown"
                           THEN "PartialOrUnknown" ELSE @,
                   !.name = d.name, !.recov = FALSE, !.fresh = TRUE]

ResolveFenceReconnect(s) ==
    [s EXCEPT !.cand = IF @ = None
                       THEN CandidateOf(s.infl, "PartialOrUnknown", FALSE, TRUE)
                       ELSE HardenedCandidate(@, s.infl),
              !.infl = None]

-----------------------------------------------------------------------------
(* What a restart makes of a snapshot: load() and adoptLoadedRetryCacheSnapshot.
   A dispatch that was only being prepared was never on the wire; an armed one
   may have been, and becomes a PartialOrUnknown candidate unless its shadow is
   gone, which only a downgraded runtime removes. *)

Recovered(s, shadowLost) ==
    IF s.infl = None THEN [s EXCEPT !.clean = FALSE]
    ELSE CASE s.infl.phase = "Preparing" ->
                  [s EXCEPT !.infl = None, !.clean = FALSE]
           [] s.infl.phase = "DispatchArmed" /\ ~shadowLost ->
                  RecordOutcome(s, "PartialOrUnknown")
           [] s.infl.phase = "DispatchArmed" /\ shadowLost ->
                  [s EXCEPT !.infl.phase = "ShadowMissingFence"]
           [] s.infl.phase = "LocalCommitPending" -> DeferLocalCommit(s)
           [] s.infl.phase = "ShadowMissingFence" -> s
           [] s.infl.phase = "ReconnectPending" -> ResolveFenceReconnect(s)

=============================================================================
