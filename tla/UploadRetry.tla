---------------------------- MODULE UploadRetry ----------------------------
(* The upload path of the headless runtime: PrinterOperationCoordinator (the *)
(* operations of the clients and the durable retry state), the part of       *)
(* PrinterSessionController that fences a USB generation, the worker thread  *)
(* PrinterClassSession that talks to the device, and the device itself,      *)
(* through unplug and replug, store failures, lost acknowledgements and      *)
(* crashes of the runtime.                                                   *)
(*                                                                           *)
(* The process is one record, rt.  Handlers call each other synchronously    *)
(* (Qt::DirectConnection), so a handler is an operator from a process state  *)
(* to the set of process states it may leave, and a call is a union.         *)
(* Requests to the worker and its answers are queued: jobs and evts.         *)
EXTENDS RetrySnapshot, Sequences

CONSTANTS
    CatalogDevices, \* devices that list their files (a Turris firmware may not)
    AllowShadowLoss,\* a downgraded runtime may delete the retry shadow
    MaxFaults,      \* bound: durable writes or local commits that fail
    MaxCrashes,     \* bound: crashes of the runtime
    MaxPlugs,       \* bound: replugs and ConnectDevice calls
    MaxForgets      \* bound: files that vanish from the device

ASSUME BoundsAssumption ==
    /\ CatalogDevices \subseteq Devices /\ AllowShadowLoss \in BOOLEAN
    /\ {MaxFaults, MaxCrashes, MaxPlugs, MaxForgets} \subseteq Nat

VARIABLES
    rt,        \* the runtime process and its durable snapshot
    plugged,   \* the device on the USB port, or None
    removed,   \* the endpoint went away since the last discovery snapshot
    remote,    \* the files of each device: absent, exact, or other content
    taint,     \* devices whose firmware holds an unfinished transfer session
    tries,     \* what is known of the transfers of a name to a device
    stored,    \* history: names a device held exactly
    discarded, \* history: devices whose unresolved candidate a user cancelled
    used       \* how much of each environment bound is used

vars == <<rt, plugged, removed, remote, taint, tries, stored, discarded, used>>
world == <<plugged, removed, remote, taint, tries, stored, discarded>>

FileStates == {"absent", "exact", "other"}
Terminal == {"Succeeded", "Failed", "Cancelled", "RetryAvailable"}
OpStates == Terminal \cup
    {"Converting", "Preflight", "Uploading", "Refreshing", "Recovering"}

-----------------------------------------------------------------------------
(* Process state *)

NewOp(gen, dev, uid) ==
    [st |-> "Converting", retry |-> FALSE, pre |-> FALSE, cancel |-> FALSE,
     chg |-> FALSE, finp |-> FALSE, recov |-> FALSE, fresh |-> FALSE,
     term |-> "", mode |-> "", gen |-> gen, dev |-> dev, lin |-> 0,
     disp |-> uid, name |-> uid, sent |-> FALSE]

RejectedOp(gen) == [NewOp(gen, None, 0) EXCEPT !.st = "Failed"]

NoFiles == [n \in Uids |-> "absent"]

Event(kind, op, gen, out, files) ==
    [kind |-> kind, op |-> op, gen |-> gen, out |-> out, files |-> files]

Job(kind, op, gen, name) == [kind |-> kind, op |-> op, gen |-> gen, name |-> name]

Send(r, job) == [r EXCEPT !.jobs = Append(@, job)]
Report(r, event) == [r EXCEPT !.evts = Append(@, event)]

Fenced(s) == s.infl # None /\ s.infl.phase \in FencePhases

\* retryCacheStartupSessionGateActive, RestrictedRecoveryActive, MutationGate.
StartupGate(r) == r.load # "yes" \/ r.fail
Restricted(r) ==
    \/ r.snap.cand # None /\ FinalizationOnly(r.snap.cand)
    \/ Fenced(r.snap)
MutationGate(r) == StartupGate(r) \/ Restricted(r)

Visible(s) == IF s.infl # None THEN s.infl.op
              ELSE IF s.cand # None THEN s.cand.op ELSE None

HasOp(r, o) == o # None /\ r.ops[o] # None

\* supportsMediaCatalog of the connected device.
HasCatalog(r) == r.conn \in CatalogDevices

ResultIsCurrent(r, g) == g = r.gen /\ r.conn # None

\* Mutant: the answers to an operation whose device changed are dropped.
ResultIsExpectedOnlyIfCurrent(r, e) ==
    /\ e.op # None /\ r.act = e.op /\ HasOp(r, e.op)
    /\ r.ops[e.op].gen = e.gen /\ ResultIsCurrent(r, e.gen)

ResultIsExpected(r, e) ==
    /\ e.op # None /\ r.act = e.op /\ HasOp(r, e.op)
    /\ r.ops[e.op].gen = e.gen
    /\ ResultIsCurrent(r, e.gen) \/ r.ops[e.op].chg

-----------------------------------------------------------------------------
(* Ending an operation, and the operations shown for the retry records *)

Finish(r, o, st, mode) ==
    IF ~HasOp(r, o) \/ r.ops[o].st \in Terminal THEN r
    ELSE [r EXCEPT !.ops[o] = [@ EXCEPT !.st = st, !.mode = mode,
                                        !.cancel = FALSE],
                   !.act = IF @ = o THEN None ELSE @]

Pause(r, o) ==
    IF ~HasOp(r, o) THEN r
    ELSE [r EXCEPT !.ops[o] = [@ EXCEPT !.st = "Recovering", !.mode = ""],
                   !.act = IF @ = o THEN None ELSE @]

RestoredCandidate(c, gen) ==
    LET fin == FinalizationOnly(c) IN
    [NewOp(gen, c.dev, c.disp) EXCEPT
        !.st = IF fin THEN "Recovering" ELSE "RetryAvailable",
        !.mode = IF fin THEN "" ELSE "PreparedMedia",
        !.term = c.out, !.finp = fin, !.recov = c.recov, !.fresh = c.fresh,
        !.lin = c.lin, !.name = c.name]

RestoredDispatch(d, gen) ==
    [NewOp(gen, d.dev, d.disp) EXCEPT
        !.st = "Recovering", !.term = "PartialOrUnknown", !.finp = TRUE,
        !.recov = TRUE, !.fresh = TRUE, !.lin = d.lin, !.name = d.name]

Restored(s, gen) == IF s.infl # None THEN RestoredDispatch(s.infl, gen)
                    ELSE RestoredCandidate(s.cand, gen)

Sync(r) ==
    LET v == Visible(r.snap)
        stale(o) == /\ r.ops[o] # None /\ o \notin {v, r.act}
                    /\ r.ops[o].lin # 0
                    /\ r.ops[o].st = "RetryAvailable" \/ r.ops[o].finp
        q == [r EXCEPT !.ops = [o \in Ops |-> IF stale(o) THEN None ELSE r.ops[o]]]
        c == r.snap.cand
        d == r.snap.infl
        dispatched == d # None /\ d.phase \in {"Preparing", "DispatchArmed"}
        retained == /\ c # None /\ r.act = v
                    /\ r.ops[v].lin = c.lin /\ r.ops[v].disp = c.disp
    IN IF v = None THEN q
       ELSE IF HasOp(r, v) /\ dispatched
            THEN [q EXCEPT !.ops[v] = [@ EXCEPT !.lin = d.lin, !.disp = d.disp]]
       ELSE IF HasOp(r, v) /\ retained
            THEN [q EXCEPT !.ops[v] = [@ EXCEPT !.recov = c.recov,
                                       !.fresh = c.fresh,
                                       !.finp = FinalizationOnly(c)]]
       ELSE [q EXCEPT !.ops[v] = Restored(r.snap, r.gen)]

-----------------------------------------------------------------------------
(* Mutations of RetryCacheStore, as the coordinator sees them: the snapshot  *)
(* becomes s on disk and in memory, or the write fails, the disk holds the   *)
(* old or the new snapshot, and the store blocks every later mutation.       *)

Fails(r) == [r EXCEPT !.fail = TRUE, !.faults = @ + 1]

Write(r, s) ==
    IF r.fail THEN {[ok |-> FALSE, r |-> r]}
    ELSE {[ok |-> TRUE, r |-> [r EXCEPT !.snap = s, !.disk = s]]} \cup
         IF r.faults = MaxFaults THEN {}
         ELSE {[ok |-> FALSE, r |-> [Fails(r) EXCEPT !.disk = d]] :
                 d \in {r.disk, s}}

\* A retirement can also be durable while the deletion of its files fails:
\* the caller then adopts a snapshot with the cleanup still pending.
WriteRetiring(r, s) ==
    LET pending == [s EXCEPT !.clean = TRUE] IN
    Write(r, s) \cup
    IF r.fail \/ r.faults = MaxFaults THEN {}
    ELSE {[ok |-> FALSE,
           r |-> [Fails(r) EXCEPT !.snap = pending, !.disk = pending]]}

\* What the caller does after a write: Ok or Bad.
After(writes, Ok(_), Bad(_)) ==
    UNION {IF w.ok THEN Ok(w.r) ELSE Bad(w.r) : w \in writes}
Mutate(r, s, Ok(_), Bad(_)) == After(Write(r, s), Ok, Bad)
MutateRetiring(r, s, Ok(_), Bad(_)) == After(WriteRetiring(r, s), Ok, Bad)

RetiredIntoCleanup(s) == s.clean /\ s.infl = None

-----------------------------------------------------------------------------
(* PrinterSessionController *)

\* Mutant: the recovery is not required of the next generation.
RequireRecoveryOfNoOne(r) == [r EXCEPT !.sact = FALSE]

RequireRecovery(r) ==
    LET g == IF r.rec THEN r.gen ELSE r.gen + 1 IN
    [r EXCEPT !.rec = TRUE, !.rrem = IF r.rec THEN @ ELSE r.conn = None,
              !.slost = TRUE, !.lrem = FALSE, !.sact = FALSE,
              !.gen = g, !.gate = [gen |-> g, open |-> FALSE],
              !.wk = "Cleared"]

StartSession(r) ==
    Send([r EXCEPT !.slost = FALSE, !.lrem = FALSE],
         Job("start", None, r.gen, 0))

Resume(r) ==
    IF MutationGate(r) \/ r.rec \/ (r.slost /\ ~r.lrem) \/ r.conn = None THEN r
    ELSE StartSession([r EXCEPT !.gate = [gen |-> r.gen, open |-> TRUE]])

Promote(r) ==
    IF MutationGate(r) \/ r.rec \/ r.conn = None THEN r
    ELSE [r EXCEPT !.slost = FALSE, !.lrem = FALSE, !.sact = TRUE]

CancelForeground(r) ==
    IF ~HasOp(r, r.act) THEN r
    ELSE IF r.ops[r.act].st = "Converting"
         THEN Finish(r, r.act, "Cancelled", "")
         ELSE [r EXCEPT !.ops[r.act].chg = TRUE]

-----------------------------------------------------------------------------
(* startRetryCacheReadOnlyReconciliationIfReady: look at the file list of a  *)
(* new generation, without opening a session for mutations.                  *)

Reconcile(r) ==
    LET o == Visible(r.snap)
        c == r.snap.cand
        q == [r EXCEPT !.ops[o] = [@ EXCEPT !.pre = FALSE, !.chg = FALSE,
                                            !.gen = r.gen]]
        mismatch(m) ==
            LET s == Sync(m)
                u == [s EXCEPT !.ops[o] = [@ EXCEPT
                        !.term = "PartialOrUnknown", !.recov = TRUE,
                        !.fresh = TRUE, !.finp = FALSE]]
            IN {RequireRecovery(
                  [Finish(u, o, "RetryAvailable", "PreparedMedia") EXCEPT
                     !.ops[o] = [@ EXCEPT !.st = "RetryAvailable",
                                          !.mode = "PreparedMedia"]])}
        idle == \/ StartupGate(r) \/ ~Restricted(r) \/ r.conn = None
                \/ r.snap.infl # None /\ r.snap.infl.phase # "ShadowMissingFence"
                \/ ~HasOp(r, o) \/ r.act \notin {None, o}
        asked == r.ops[o].pre /\ r.ops[o].gen = r.gen /\ ~r.ops[o].chg
    IN IF idle \/ asked THEN {r}
       ELSE IF r.ops[o].dev = r.conn
            THEN {Send([q EXCEPT !.sact = FALSE, !.act = o,
                                 !.gate = [gen |-> r.gen, open |-> TRUE],
                                 !.ops[o] = [@ EXCEPT !.pre = TRUE,
                                                      !.st = "Recovering"]],
                       Job("refresh", o, r.gen, 0))}
       ELSE IF c # None /\ c.op = o /\ FinalizationOnly(c)
            THEN Mutate(q, ResolveFinalization(r.snap), mismatch,
                        LAMBDA b : {Finish(b, o, "Failed", "")})
       ELSE {q}

-----------------------------------------------------------------------------
(* completeRetryRecoveryAfterRemoval: the same device came back after an     *)
(* observed removal.  Pairs of a process state and the verdict.              *)

CompleteRetryRecovery(r, dev) ==
    LET o == Visible(r.snap)
        c == r.snap.cand
        refuse(b) == {<<b, FALSE>>}
        retired(m) ==
            LET s == Sync(m)
            IN IF o = Visible(m.snap) THEN {<<s, TRUE>>}
               ELSE {<<Sync(Finish(s, o, "Failed", "")), TRUE>>}
    IN IF ~HasOp(r, o) THEN {<<r, TRUE>>}
       ELSE IF r.ops[o].dev # dev THEN {<<r, FALSE>>}
       ELSE IF Fenced(r.snap)
            THEN Mutate(r, ResolveFenceReconnect(r.snap), retired, refuse)
       ELSE IF c # None /\ c.recov /\ ~FinalizationOnly(c)
            THEN Mutate(r, ResolveReconnect(r.snap),
                        LAMBDA m : {<<Sync(m), TRUE>>}, refuse)
       ELSE {<<r, TRUE>>}

CompletePrinterRecovery(r, dev) ==
    IF ~r.rec THEN {<<r, TRUE>>}
    ELSE IF ~r.rrem THEN {<<r, FALSE>>}
    ELSE {IF p[2] THEN <<[p[1] EXCEPT !.rec = FALSE, !.rrem = FALSE,
                                      !.slost = FALSE, !.lrem = FALSE], TRUE>>
          ELSE p : p \in CompleteRetryRecovery(r, dev)}

\* What handlePrinterSnapshot and connectDevice do with the one endpoint.
SelectEndpoint(r, dev) ==
    LET allowed == IF StartupGate(r) \/ (r.slost /\ ~r.lrem) THEN {<<r, FALSE>>}
                   ELSE CompletePrinterRecovery(r, dev)
        open(q, ok) == [q EXCEPT !.gate = [gen |-> q.gen, open |-> ok],
                                 !.wk = "Idle"]
        next(q, ok) ==
            CASE ok /\ ~Restricted(q) -> StartSession(open(q, ok))
              [] ok /\ Restricted(q) -> [open(q, ok) EXCEPT !.slost = FALSE]
              [] ~ok /\ StartupGate(q) /\ ~q.slost -> open(q, ok)
              [] OTHER -> [open(q, ok) EXCEPT !.slost = TRUE]
    IN UNION {Reconcile(next(p[1], p[2])) : p \in allowed}

HandleSnapshot(r, dev, gone) ==
    LET seen == dev = None \/ (gone /\ r.conn # None)
        q == CancelForeground([r EXCEPT !.rrem = @ \/ (r.rec /\ seen),
                                        !.lrem = @ \/ (r.slost /\ seen),
                                        !.sact = FALSE])
        n == [q EXCEPT !.gen = @ + 1, !.conn = dev]
    IN IF dev # None THEN SelectEndpoint(n, dev)
       ELSE {[n EXCEPT !.gate = [gen |-> n.gen, open |-> FALSE],
                       !.wk = "Cleared"]}

ConnectEndpoint(r) ==
    LET q == CancelForeground([r EXCEPT !.sact = FALSE])
    IN SelectEndpoint([q EXCEPT !.gen = @ + 1], r.conn)

-----------------------------------------------------------------------------
(* handlePreparedUploadFailure *)

PreparedUploadFailure(r, o, outcome) ==
    LET op == r.ops[o]
        fin == "FinalizationUnknown" \in {outcome, op.term} \/ op.finp
        retryable == fin \/ outcome = "PartialOrUnknown"
        out == IF fin THEN "FinalizationUnknown" ELSE "PartialOrUnknown"
        current == r.snap.infl # None /\ r.snap.infl.op = o
        recorded(m) ==
            LET s == Sync(m)
                u == [s EXCEPT !.ops[o] = [@ EXCEPT !.term = out,
                                           !.fresh = ~fin, !.finp = fin]]
            IN IF fin THEN Reconcile(Pause(u, o))
               ELSE {RequireRecovery(
                       Finish(u, o, "RetryAvailable", "PreparedMedia"))}
        unsaved(b) == {Finish(b, o, "Failed", "")}
        retired(m) == {Finish(Sync(m), o, IF outcome = "Cancelled"
                                          THEN "Cancelled" ELSE "Failed", "")}
        finalizing == /\ r.snap.cand # None /\ r.snap.cand.op = o
                      /\ FinalizationOnly(r.snap.cand)
    IN IF ~HasOp(r, o) \/ op.st \in Terminal THEN {r}
       ELSE IF current /\ r.snap.infl.phase = "DispatchArmed"
            THEN IF retryable
                 THEN Mutate(r, RecordOutcome(r.snap, out), recorded, unsaved)
                 ELSE MutateRetiring(r, RetireProven(r.snap), retired, unsaved)
       ELSE IF current /\ Fenced(r.snap) THEN {RequireRecovery(Pause(r, o))}
       ELSE IF finalizing THEN {Pause(r, o)}
       ELSE {Finish(r, o, IF outcome = "Cancelled" \/ op.cancel
                          THEN "Cancelled" ELSE "Failed", "")}

-----------------------------------------------------------------------------
(* dispatchPreparedUploadWithRetryBarrier: nothing goes to USB before the    *)
(* dispatch is durable.                                                      *)

RetriesCandidate(r, op) ==
    /\ op.retry /\ r.snap.cand # None /\ r.snap.infl = None
    /\ op.lin = r.snap.cand.lin

DispatchIsCurrent(r, o) ==
    LET op == r.ops[o] IN
    /\ r.act = o /\ ~op.cancel /\ ~op.chg
    /\ r.conn # None /\ op.gen = r.gen /\ op.dev = r.conn
    /\ op.retry => RetriesCandidate(r, op)  \* else the prepared file is gone

SendUpload(r, o) ==
    LET op == r.ops[o]
        unsaved(b) == {Finish(b, o, "Failed", "")}
    IN {Send([r EXCEPT !.ops[o].sent = TRUE],
             Job("upload", o, r.gen, op.name))}
       \cup  \* operationChanged is synchronous: a cancel may slip in here
       MutateRetiring(r, RetireProven(r.snap),
                      LAMBDA m : {Finish(Sync(m), o, "Cancelled", "")}, unsaved)

DispatchUpload(r, o) ==
    LET op == r.ops[o]
        unsaved(b) == {Finish(b, o, "Failed", "")}
        retries == RetriesCandidate(r, op)
        legal == IF retries THEN CanBeginRetry(r.snap, o, op.name)
                 ELSE CanPersistPrepared(r.snap, o)
        target == IF retries THEN BeginRetry(r.snap, o, op.disp, op.name, op.dev)
                  ELSE PersistPrepared(r.snap, o, op.disp, op.dev)
        arm(m) == LET s == Sync([m EXCEPT !.ops[o].lin = target.infl.lin])
                  IN Mutate(s, ArmDispatch(s.snap),
                            LAMBDA a : SendUpload(
                                [a EXCEPT !.ops[o].st = "Uploading"], o),
                            unsaved)
    IN IF ~HasOp(r, o) \/ op.sent \/ MutationGate(r) THEN {r}
       ELSE IF ~DispatchIsCurrent(r, o)
            THEN PreparedUploadFailure(r, o, IF op.cancel THEN "Cancelled"
                                             ELSE "NotStarted")
       ELSE IF ~legal THEN unsaved(r)
       ELSE Mutate(r, target, arm, unsaved) \cup
            IF r.faults = MaxFaults THEN {}  \* the artifact was not copied
            ELSE unsaved([r EXCEPT !.faults = @ + 1])

-----------------------------------------------------------------------------
(* The end of a verified upload: the local catalogue entry and the           *)
(* retirement of the durable record.                                         *)

FinishVerified(r, o, restricted) ==
    LET q == [r EXCEPT !.ops[o].finp = FALSE]
    IN Finish(IF restricted /\ ~RetiredIntoCleanup(q.snap) THEN Promote(q) ELSE q,
              o, "Succeeded", "")

\* A retirement that failed still ends the operation well if it is durable
\* and only the cleanup of its files is pending.
Retire(r, s, o, restricted) ==
    LET done(m) == {FinishVerified(Sync(m), o, restricted)}
        bad(b) == IF RetiredIntoCleanup(b.snap)
                  THEN {FinishVerified(Sync(b), o, restricted)}
                  ELSE {Finish(b, o, "Failed", "")}
    IN MutateRetiring(r, s, done, bad)

CommitLocally(r, o, restricted) ==
    LET failed(b) == {Finish(b, o, "Failed", "")}
        deferred(m) ==
            LET s == Sync(m)
                u == [s EXCEPT !.ops[o] = [@ EXCEPT !.term = "NotStarted",
                        !.recov = FALSE, !.fresh = FALSE, !.finp = FALSE]]
                f == Finish(u, o, "RetryAvailable", "PreparedMedia")
            IN {IF restricted THEN Promote(f) ELSE f}
        commit(m) ==
            Retire(m, RetireAcknowledged(m.snap), o, restricted) \cup
            IF m.faults = MaxFaults THEN {}
            ELSE Mutate([m EXCEPT !.faults = @ + 1], DeferLocalCommit(m.snap),
                        deferred, failed)
    IN IF ~CanBeginLocalCommit(r.snap) THEN failed([r EXCEPT !.fail = TRUE])
       ELSE Mutate(r, BeginLocalCommit(r.snap), commit, failed)

\* Whether the media needs an entry in the local catalogue depends on its
\* source and thumbnail.
VerifiedUpload(r, o, restricted) ==
    CommitLocally(r, o, restricted) \cup
    Retire(r, IF r.snap.infl = None THEN ClearCandidate(r.snap)
              ELSE RetireAcknowledged(r.snap), o, restricted)

-----------------------------------------------------------------------------
(* handleMediaListReady, one operator per question the file list answers *)

ReconcileWithFileList(r, o, exact) ==
    LET resolved(m) ==
            LET s == Sync(m)
                u == [s EXCEPT !.ops[o] = [@ EXCEPT
                        !.term = "PartialOrUnknown", !.recov = TRUE,
                        !.fresh = TRUE, !.finp = FALSE]]
            IN {RequireRecovery(
                  Finish(u, o, "RetryAvailable", "PreparedMedia"))}
    IN CASE exact -> VerifiedUpload(r, o, TRUE)
         [] ~exact /\ Fenced(r.snap) -> {RequireRecovery(Pause(r, o))}
         [] ~exact /\ ~Fenced(r.snap) ->
               Mutate(r, ResolveFinalization(r.snap), resolved,
                      LAMBDA b : {Finish(b, o, "Failed", "")})

\* The media is on the device already: consume the candidate, send nothing.
ConsumeCandidate(r, o) ==
    LET bad(b) == {Finish(b, o, IF RetiredIntoCleanup(b.snap) /\ b.snap.cand = None
                                THEN "Succeeded" ELSE "RetryAvailable",
                          IF RetiredIntoCleanup(b.snap) /\ b.snap.cand = None
                          THEN "" ELSE "PreparedMedia")}
        uncommitted == Finish([r EXCEPT !.ops[o].term = "NotStarted",
                                        !.faults = @ + 1], o, "Failed", "")
    IN (IF ~CanClearCandidate(r.snap) THEN bad(r)
        ELSE MutateRetiring(r, ClearCandidate(r.snap),
                LAMBDA m : {Finish(Sync(m), o, "Succeeded", "")}, bad))
       \cup IF r.faults = MaxFaults THEN {} ELSE {uncommitted}

\* Another copy of the same source, known to the catalogue, will do as well.
ReuseCopy(r, o, files) ==
    UNION {ConsumeCandidate([r EXCEPT !.ops[o].name = n], o) :
             n \in {m \in Uids \ {r.ops[o].name} : files[m] = "exact"}}

\* The transfer is repeated under a name that is free.
Resend(r, o, n) ==
    DispatchUpload([r EXCEPT !.ops[o] = [@ EXCEPT !.name = n, !.term = "",
                                                  !.st = "Preflight"]], o)

RetryPreflight(r, o, files) ==
    LET op == r.ops[o]
        q == [r EXCEPT !.ops[o].pre = FALSE]
    IN CASE op.cancel -> PreparedUploadFailure(q, o, "Cancelled")
         [] ~op.cancel /\ op.fresh -> Resend(q, o, op.disp)
         [] OTHER ->
               (CASE files[op.name] = "exact" -> ConsumeCandidate(q, o)
                  [] files[op.name] = "other" -> Resend(q, o, op.disp)
                  [] files[op.name] = "absent" -> Resend(q, o, op.name))
               \cup ReuseCopy(q, o, files)

\* Mutant: the name is on the device, whatever its content.
VerifiedByName(op, files) == op.name # 0 /\ files[op.name] # "absent"

\* The name, size and origin of the list entry are those of the upload.
Verified(op, files) == op.name # 0 /\ files[op.name] = "exact"

HandleMediaListReady(r, e) ==
    LET o == e.op
        op == r.ops[o]
        reconciling == \/ /\ r.snap.cand # None /\ r.snap.cand.op = o
                          /\ FinalizationOnly(r.snap.cand)
                       \/ Fenced(r.snap) /\ r.snap.infl.op = o
        exact == Verified(op, e.files)
    IN CASE ~ResultIsExpected(r, e) -> {r}
         [] ResultIsExpected(r, e) /\ ~ResultIsCurrent(r, e.gen) ->
               PreparedUploadFailure(r, o, IF op.pre THEN "NotStarted"
                                           ELSE "PartialOrUnknown")
         [] OTHER ->
               CASE reconciling -> ReconcileWithFileList(r, o, exact)
                 [] ~reconciling /\ op.pre -> RetryPreflight(r, o, e.files)
                 [] ~reconciling /\ ~op.pre /\ op.st # "Refreshing" -> {r}
                 [] ~reconciling /\ ~op.pre /\ op.st = "Refreshing" /\ exact ->
                       VerifiedUpload(r, o, FALSE)
                 [] OTHER -> PreparedUploadFailure(r, o, "PartialOrUnknown")

HandleMediaListFailed(r, e) ==
    IF ~ResultIsExpected(r, e) THEN {r}
    ELSE PreparedUploadFailure(r, e.op, IF r.ops[e.op].pre THEN "NotStarted"
                                        ELSE "PartialOrUnknown")

-----------------------------------------------------------------------------
(* handleUploadFinished *)

\* What was acknowledged must be what the disk names as armed.  Without a file list
\* that is all the proof there is, otherwise the list has to show it.
UploadSucceeded(r, o) ==
    LET op == r.ops[o]
        d == r.snap.infl
        matches == /\ d # None /\ d.op = o /\ d.phase = "DispatchArmed"
                   /\ d.name = op.name
    IN CASE ~matches -> {Finish([r EXCEPT !.fail = TRUE], o, "Failed", "")}
         [] matches /\ op.chg -> PreparedUploadFailure(r, o, "PartialOrUnknown")
         [] matches /\ ~op.chg /\ ~HasCatalog(r) ->
               Retire(r, RetireAcknowledged(r.snap), o, FALSE)
         [] OTHER -> {Send([r EXCEPT !.ops[o].st = "Refreshing"],
                           Job("refresh", o, r.gen, 0))}

UploadFailed(r, e) ==
    LET o == e.op
        op == r.ops[o]
        unverifiable == e.out = "FinalizationUnknown" /\ ~HasCatalog(r)
        told == IF unverifiable THEN "PartialOrUnknown" ELSE e.out
        q == [r EXCEPT !.ops[o] = [op EXCEPT
                !.term = IF unverifiable \/ op.term = "" THEN told ELSE op.term,
                !.finp = IF e.out = "FinalizationUnknown"
                         THEN ~unverifiable ELSE op.finp]]
    IN PreparedUploadFailure(q, o, told)

HandleUploadFinished(r, e) ==
    CASE ~ResultIsExpected(r, e) -> {r}
      [] ResultIsExpected(r, e) /\ e.out # "Succeeded" -> UploadFailed(r, e)
      [] OTHER -> UploadSucceeded(r, e.op)

-----------------------------------------------------------------------------
(* The session events of the worker *)

HandleSessionStarted(r, e) ==
    CASE ~ResultIsCurrent(r, e.gen) -> {r}
      [] ResultIsCurrent(r, e.gen) /\ Restricted(r) ->
            Reconcile([r EXCEPT !.sact = FALSE])
      [] OTHER ->
            IF r.rec \/ StartupGate(r) THEN {[r EXCEPT !.sact = FALSE]}
            ELSE {[r EXCEPT !.slost = FALSE, !.lrem = FALSE, !.sact = TRUE]}

HandleSessionLost(r, e) ==
    LET o == r.act IN
    CASE ~ResultIsCurrent(r, e.gen) -> {r}
      [] ResultIsCurrent(r, e.gen) /\ HasOp(r, o) /\ r.ops[o].finp ->
            PreparedUploadFailure(
                RequireRecovery([r EXCEPT !.ops[o] = [@ EXCEPT
                    !.finp = FALSE, !.recov = TRUE, !.fresh = TRUE]]),
                o, "PartialOrUnknown")
      [] OTHER -> {CancelForeground(
                     [r EXCEPT !.lrem = @ /\ r.slost, !.slost = TRUE,
                               !.sact = FALSE])}

Handle(r, e) ==
    CASE e.kind = "started" -> HandleSessionStarted(r, e)
      [] e.kind = "lost"    -> HandleSessionLost(r, e)
      [] e.kind = "list"    -> HandleMediaListReady(r, e)
      [] e.kind = "nolist"  -> HandleMediaListFailed(r, e)
      [] e.kind = "upload"  -> HandleUploadFinished(r, e)

-----------------------------------------------------------------------------
(* Start of the process: loadRetryCache, then the first discovery snapshot.  *)
(* A candidate is adopted only after its files are hashed in the background. *)

Process(disk, uid, faults) ==
    [ops |-> [o \in Ops |-> None], act |-> None, snap |-> EmptySnapshot,
     disk |-> disk, load |-> "validating", fail |-> FALSE, gen |-> 0,
     conn |-> None, sact |-> FALSE, slost |-> FALSE, lrem |-> FALSE,
     rec |-> FALSE, rrem |-> FALSE, gate |-> [gen |-> 0, open |-> FALSE],
     wk |-> "Cleared", jobs |-> <<>>, evts |-> <<>>, uid |-> uid,
     faults |-> faults]

Adopt(r, s) ==
    LET o == Visible(s)
        clash == /\ HasOp(r, o)
                 /\ r.ops[o].lin # (IF s.infl # None THEN s.infl.lin ELSE s.cand.lin)
        adopted(m) ==
            LET q == Sync([m EXCEPT !.load = "yes"])
                c == q.snap.cand
            IN Reconcile(CASE Restricted(q) -> q
                           [] ~Restricted(q) /\ c # None /\ c.recov ->
                                 RequireRecovery(q)
                           [] OTHER -> Resume(q))
        refused(b) == {b}
    IN CASE ~clash -> Mutate(r, s, adopted, refused)
         [] clash /\ s.infl # None -> {[r EXCEPT !.fail = TRUE]}
         [] clash /\ s.infl = None ->
               UNION {Mutate(r, RemapCandidate(s, n), adopted, refused) :
                        n \in {m \in Ops : r.ops[m] = None}}

NeedsValidation(disk, s) ==
    s.cand # None /\ s.infl = None /\ ~Fenced(disk)

Boot(disk, uid, faults) ==
    LET r == Process(disk, uid, faults)
        lost == IF /\ AllowShadowLoss /\ disk.infl # None
                   /\ disk.infl.phase = "DispatchArmed"
                THEN BOOLEAN ELSE {FALSE}
        loaded == {Recovered(disk, b) : b \in lost}
        adopted == UNION {IF NeedsValidation(disk, s) THEN {r} ELSE Adopt(r, s) :
                            s \in loaded}
    IN UNION {HandleSnapshot(q, plugged, FALSE) : q \in adopted}

Init ==
    /\ plugged \in Devices \cup {None}
    /\ removed = FALSE
    /\ remote = [d \in Devices |-> NoFiles]
    /\ taint = {} /\ stored = {} /\ discarded = {}
    /\ tries = [d \in Devices |-> [n \in Uids |-> "never"]]
    /\ used = [crashes |-> 0, plugs |-> 0, forgets |-> 0]
    /\ rt \in Boot(EmptySnapshot, 0, 0)

-----------------------------------------------------------------------------
(* Clients *)

MayStart(r) == /\ ~MutationGate(r) /\ r.act = None /\ ~r.rec /\ ~r.slost
               /\ r.sact /\ r.conn # None /\ r.uid < MaxUid

Queued(r, o) ==
    [r EXCEPT !.uid = @ + 1, !.act = o, !.ops[o] = NewOp(r.gen, r.conn, r.uid + 1)]

QueueUpload(o) ==
    /\ rt.ops[o] = None /\ MayStart(rt)
    /\ rt' = Queued(rt, o)
    /\ UNCHANGED <<world, used>>

\* A request the gates refuse leaves a failed operation under its id.
RejectOperation(o) ==
    /\ rt.ops[o] = None /\ ~MayStart(rt)
    /\ rt' = [rt EXCEPT !.ops[o] = RejectedOp(rt.gen)]
    /\ UNCHANGED <<world, used>>

RetrySourceMatches(r, src) ==
    LET op == r.ops[src]
        c == r.snap.cand
    IN /\ c # None /\ r.snap.infl = None /\ c.op = src /\ HasOp(r, src)
       /\ op.st = "RetryAvailable" /\ op.mode = "PreparedMedia"
       /\ ~op.finp /\ ~op.recov
       /\ op.lin = c.lin /\ op.disp = c.disp /\ op.dev = c.dev

\* The retry is the operation of its candidate with a dispatch of its own.
RetryOf(r, op) ==
    LET uid == r.uid + 1
        fresh == r.snap.cand.fresh
    IN [op EXCEPT !.st = "Preflight", !.retry = TRUE, !.mode = "",
                  !.gen = r.gen, !.dev = r.conn, !.cancel = FALSE,
                  !.chg = FALSE, !.pre = HasCatalog(r), !.sent = FALSE,
                  !.disp = uid, !.fresh = fresh,
                  !.name = IF fresh /\ ~HasCatalog(r) THEN uid ELSE @]

RetryOperation(src, o) ==
    LET op == rt.ops[src]
        q == [rt EXCEPT !.ops[o] = RetryOf(rt, op), !.act = o, !.uid = @ + 1]
    IN /\ rt.ops[o] = None /\ MayStart(rt) /\ RetrySourceMatches(rt, src)
       /\ (op.fresh \/ op.term = "PartialOrUnknown") => op.dev = rt.conn
       /\ rt' \in IF HasCatalog(rt) THEN {Send(q, Job("refresh", o, rt.gen, 0))}
                  ELSE DispatchUpload(q, o)
       /\ UNCHANGED <<world, used>>

\* Cancelling an available retry discards its durable candidate.
DiscardRetry(o) ==
    LET bad(b) == IF RetiredIntoCleanup(b.snap) /\ b.snap.cand = None
                  THEN {[b EXCEPT !.ops[o] = [@ EXCEPT !.st = "Cancelled",
                                                       !.mode = ""]]}
                  ELSE {b}
        c == rt.snap.cand
    IN /\ HasOp(rt, o) /\ rt.ops[o].st = "RetryAvailable" /\ rt.act # o
       /\ CanClearCandidate(rt.snap) /\ c.op = o
       /\ rt' \in MutateRetiring(rt, ClearCandidate(rt.snap),
                                 LAMBDA m : {Sync(m)}, bad)
       /\ discarded' = IF c.out # "NotStarted" /\ rt'.disk.cand = None
                       THEN discarded \cup {c.dev} ELSE discarded
       /\ UNCHANGED <<plugged, removed, remote, taint, tries, stored, used>>

CancelOperation(o) ==
    /\ HasOp(rt, o) /\ rt.act = o /\ ~rt.ops[o].cancel
    /\ rt' = IF rt.ops[o].st = "Converting" THEN Finish(rt, o, "Cancelled", "")
             ELSE [rt EXCEPT !.ops[o].cancel = TRUE]
    /\ UNCHANGED <<world, used>>

\* Conversion of the source in the preparation thread.
PreparationEnds(o) ==
    /\ rt.act = o /\ HasOp(rt, o) /\ rt.ops[o].st = "Converting"
    /\ \/ rt' \in DispatchUpload([rt EXCEPT !.ops[o].st = "Preflight"], o)
       \/ rt' = Finish(rt, o, "Failed", "")
    /\ UNCHANGED <<world, used>>

ArtifactValidated ==
    /\ rt.load = "validating" /\ ~rt.fail
    /\ \/ rt' \in Adopt(rt, Recovered(rt.disk, FALSE))
       \/ /\ rt.faults < MaxFaults
          /\ rt' = Fails(rt)
    /\ UNCHANGED <<world, used>>

-----------------------------------------------------------------------------
(* The worker thread.  A configuration request is applied at once here: the *)
(* requests queued before it carry an older generation and are refused.     *)

Reachable == plugged = rt.conn /\ ~removed

GateOpen(r, g) == r.gate = [gen |-> g, open |-> TRUE]

MarkLost(r, g) ==
    IF ~GateOpen(r, g) \/ r.wk = "Lost" THEN r
    ELSE Report([r EXCEPT !.wk = "Lost"], Event("lost", None, g, "", NoFiles))

Refused(r, j) == ~GateOpen(r, j.gen) \/ r.wk = "Cleared"

Withdrawn(j) == \/ Refused(rt, j)
                \/ HasOp(rt, j.op) /\ rt.ops[j.op].cancel

\* ensurePrinterSession: one attempt per generation.
Ensured(r, g) ==
    IF r.wk # "Idle" THEN {r}
    ELSE {MarkLost(r, g)} \cup
         IF ~Reachable THEN {}
         ELSE {Report([r EXCEPT !.wk = "Active"],
                      Event("started", None, g, "", NoFiles))}

NextJob(kind) == rt.jobs # <<>> /\ Head(rt.jobs).kind = kind
Dequeued == [rt EXCEPT !.jobs = Tail(@)]

StartDisplaySession ==
    LET j == Head(rt.jobs) IN
    /\ NextJob("start")
    /\ rt' \in IF Refused(rt, j) THEN {Dequeued} ELSE Ensured(Dequeued, j.gen)
    /\ UNCHANGED <<world, used>>

RefreshMediaList ==
    LET j == Head(rt.jobs)
        failed(r) == Report(r, Event("nolist", j.op, j.gen, "", NoFiles))
        session == IF Refused(rt, j) THEN {} ELSE Ensured(Dequeued, j.gen)
    IN /\ NextJob("refresh")
       /\ UNCHANGED <<plugged, removed, remote, taint, stored, discarded, used>>
       /\ \/ /\ Withdrawn(j)
             /\ rt' = failed(Dequeued)
             /\ UNCHANGED tries
          \/ \E r \in session :
               /\ rt' \in {failed(MarkLost(r, j.gen))} \cup
                          IF r.wk = "Active" THEN {failed(r)} ELSE {}
               /\ UNCHANGED tries
          \/ \E r \in session :
               /\ r.wk = "Active" /\ Reachable
               /\ rt' = Report(r, Event("list", j.op, j.gen, "", remote[plugged]))
               /\ tries' = [tries EXCEPT ![plugged] = [n \in Uids |->
                    IF remote[plugged][n] = "exact" THEN "done" ELSE @[n]]]

\* What the device may hold after a transfer whose end was not acknowledged.
Transfer(out) ==
    LET j == Head(rt.jobs) IN
    \E f \in IF out = "Succeeded" THEN {"exact", "other"} ELSE FileStates :
        /\ remote' = [remote EXCEPT ![rt.conn][j.name] = f]
        /\ stored' = IF f = "exact" THEN stored \cup {<<rt.conn, j.name>>}
                     ELSE stored
        /\ taint' = IF Reachable /\ out # "Succeeded" /\ f # "exact"
                    THEN taint \cup {rt.conn} ELSE taint
        /\ tries' = [tries EXCEPT ![rt.conn][j.name] =
                        IF out = "Succeeded" THEN "done" ELSE "open"]

UploadPreparedMedia ==
    LET j == Head(rt.jobs)
        result(r, out) == Report(r, Event("upload", j.op, j.gen, out, NoFiles))
        session == IF Refused(rt, j) THEN {} ELSE Ensured(Dequeued, j.gen)
    IN /\ NextJob("upload")
       /\ UNCHANGED <<plugged, removed, discarded, used>>
       /\ \/ /\ Withdrawn(j)
             /\ rt' = result(Dequeued, "Cancelled")
             /\ UNCHANGED <<remote, taint, tries, stored>>
          \/ \E r \in session :
               /\ rt' = result(MarkLost(r, j.gen), "NotStarted")
               /\ UNCHANGED <<remote, taint, tries, stored>>
          \/ \E r \in session :
               /\ r.wk = "Active"
               /\ \E out \in {"PartialOrUnknown", "FinalizationUnknown"} :
                    rt' = result(MarkLost(r, j.gen), out) /\ Transfer(out)
          \/ \E r \in session :
               /\ r.wk = "Active" /\ Reachable
               /\ rt' = result(r, "Succeeded") /\ Transfer("Succeeded")

\* The keepalive timer of an active session finds the device gone or mute.
KeepaliveFails ==
    /\ rt.wk = "Active" /\ GateOpen(rt, rt.gate.gen)
    /\ rt' = MarkLost(rt, rt.gate.gen)
    /\ UNCHANGED <<world, used>>

Worker == StartDisplaySession \/ RefreshMediaList \/ UploadPreparedMedia

Deliver ==
    /\ rt.evts # <<>>
    /\ rt' \in Handle([rt EXCEPT !.evts = Tail(@)], Head(rt.evts))
    /\ UNCHANGED <<world, used>>

-----------------------------------------------------------------------------
(* The device, the cable and the power of the host *)

Unplug ==
    /\ plugged # None
    /\ plugged' = None /\ removed' = TRUE
    /\ taint' = taint \ {plugged} /\ discarded' = discarded \ {plugged}
    /\ UNCHANGED <<rt, remote, tries, stored, used>>

Plug(d) ==
    /\ plugged = None /\ used.plugs < MaxPlugs
    /\ plugged' = d /\ used' = [used EXCEPT !.plugs = @ + 1]
    /\ UNCHANGED <<rt, removed, remote, taint, tries, stored, discarded>>

\* The monitor drains its events: endpointRemoved and the new snapshot.
DiscoveryReports ==
    /\ removed \/ plugged # rt.conn
    /\ rt' \in HandleSnapshot(rt, plugged, removed)
    /\ removed' = FALSE
    /\ UNCHANGED <<plugged, remote, taint, tries, stored, discarded, used>>

ConnectDevice ==
    /\ rt.conn # None /\ used.plugs < MaxPlugs
    /\ rt' \in ConnectEndpoint(rt)
    /\ used' = [used EXCEPT !.plugs = @ + 1]
    /\ UNCHANGED world

DeviceForgets(d, n) ==
    /\ remote[d][n] # "absent" /\ used.forgets < MaxForgets
    /\ remote' = [remote EXCEPT ![d][n] = "absent"]
    /\ used' = [used EXCEPT !.forgets = @ + 1]
    /\ UNCHANGED <<rt, plugged, removed, taint, tries, stored, discarded>>

Crash ==
    /\ used.crashes < MaxCrashes
    /\ rt' \in Boot(rt.disk, rt.uid, rt.faults)
    /\ removed' = FALSE
    /\ used' = [used EXCEPT !.crashes = @ + 1]
    /\ UNCHANGED <<plugged, remote, taint, tries, stored, discarded>>

Next ==
    \/ \E o \in Ops : \/ QueueUpload(o) \/ RejectOperation(o)
                      \/ DiscardRetry(o) \/ CancelOperation(o)
                      \/ PreparationEnds(o)
    \/ \E src, o \in Ops : RetryOperation(src, o)
    \/ ArtifactValidated \/ Worker \/ KeepaliveFails \/ Deliver
    \/ Unplug \/ (\E d \in Devices : Plug(d)) \/ DiscoveryReports
    \/ ConnectDevice \/ (\E d \in Devices, n \in Uids : DeviceForgets(d, n))
    \/ Crash

\* The threads of the runtime keep running; clients, cables and crashes do
\* what they like.  Each conjunct is weak fairness of its action: the state
\* formula is the negation of what enables it, which TLC evaluates far faster
\* than ENABLED.
Fairness ==
    /\ []<>(rt.jobs = <<>>) \/ []<><<Worker>>_vars
    /\ []<>(rt.evts = <<>>) \/ []<><<Deliver>>_vars
    /\ []<>(~removed /\ plugged = rt.conn) \/ []<><<DiscoveryReports>>_vars
    /\ []<>(rt.load = "yes" \/ rt.fail) \/ []<><<ArtifactValidated>>_vars
    /\ \/ []<>(\A o \in Ops : rt.act = o => rt.ops[o].st # "Converting")
       \/ []<><<\E o \in Ops : PreparationEnds(o)>>_vars

Spec == Init /\ [][Next]_vars /\ Fairness

-----------------------------------------------------------------------------
(* Properties *)

OpRecord ==
    [st : OpStates, retry : BOOLEAN, pre : BOOLEAN, cancel : BOOLEAN,
     chg : BOOLEAN, finp : BOOLEAN, recov : BOOLEAN, fresh : BOOLEAN,
     term : Outcomes \cup {"", "Succeeded", "Cancelled"},
     mode : {"", "PreparedMedia"}, gen : Nat, dev : Devices \cup {None},
     lin : {0} \cup Uids, disp : {0} \cup Uids, name : {0} \cup Uids,
     sent : BOOLEAN]

\* The absent operation is none of the operations.
ASSUME NoOperationAssumption == None \notin OpRecord

\* The type of the state: a snapshot on disk and one in memory, operations,
\* the two queues and the facts about the devices.
TypeOK ==
    /\ rt.ops \in [Ops -> OpRecord \cup {None}]
    /\ rt.act \in Ops \cup {None} /\ rt.conn \in Devices \cup {None}
    /\ rt.snap \in Snapshot /\ rt.disk \in Snapshot
    /\ rt.load \in {"validating", "yes"} /\ rt.wk \in
         {"Idle", "Active", "Lost", "Cleared"}
    /\ \A b \in {rt.fail, rt.sact, rt.slost, rt.lrem, rt.rec, rt.rrem,
                 rt.gate.open, removed} : b \in BOOLEAN
    /\ rt.uid \in {0} \cup Uids /\ rt.faults \in 0 .. MaxFaults
    /\ remote \in [Devices -> [Uids -> FileStates]]
    /\ tries \in [Devices -> [Uids -> {"never", "open", "done"}]]
    /\ taint \subseteq Devices /\ discarded \subseteq Devices
    /\ stored \subseteq Devices \X Uids

UploadJobs == {rt.jobs[i] : i \in {k \in DOMAIN rt.jobs : rt.jobs[k].kind = "upload"}}

\* The upload jobs the worker would carry out if it took them now.
RunnableUploads ==
    {j \in UploadJobs : GateOpen(rt, j.gen) /\ rt.wk \in {"Idle", "Active"}}

\* A transfer is ordered only for the active operation, and only while the
\* disk names its dispatch as armed: a crash at any later moment finds it.
ArmedBeforeTransfer ==
    \A j \in UploadJobs :
        /\ rt.act = j.op /\ rt.disk.infl # None
        /\ rt.disk.infl.op = j.op /\ rt.disk.infl.name = j.name
        /\ rt.disk.infl.phase = "DispatchArmed"

\* After a transfer that may be half done nothing is sent to that device
\* before it was power-cycled, through restarts, replugs and store failures,
\* unless the user discarded the record of that transfer.
NoTransferIntoTaintedSession ==
    RunnableUploads # {} => rt.conn \notin taint \ discarded

\* A name whose transfer has an unknown end is not used for another transfer
\* to that device, unless a file list has shown it to be complete.
NoBlindResend == \A j \in RunnableUploads : tries[rt.conn][j.name] # "open"

\* The half-done transfer of a device is on disk, in a form that the next
\* start turns into a demand for a reconnect or into a read-only look.
TaintIsDurable ==
    \A d \in taint \ discarded :
        \/ /\ rt.disk.infl # None /\ rt.disk.infl.dev = d
           /\ rt.disk.infl.phase # "Preparing"
        \/ /\ rt.disk.cand # None /\ rt.disk.cand.dev = d
           /\ rt.disk.cand.recov \/ FinalizationOnly(rt.disk.cand)

\* While an outcome must be verified by a read-only look, no upload is queued
\* at a worker that would carry it out.
RestrictedIsReadOnly ==
    \/ Fenced(rt.snap)
    \/ rt.snap.cand # None /\ FinalizationOnly(rt.snap.cand)
    => RunnableUploads = {}

\* One operation is worked on at a time: another one that is not over can
\* only be the one that waits for the verification of its outcome.
OneForeground ==
    \A o \in Ops : /\ rt.ops[o] # None /\ o # rt.act
                   /\ rt.ops[o].st \notin Terminal
                   => o = Visible(rt.snap) /\ Restricted(rt)

\* A retry that clients are offered is the durable candidate.  The exceptions,
\* which offer a retry that is refused, are a retry that found the file on the
\* device after its candidate had been discarded, or while the store failed, and
\* the source of one whose candidate was consumed but not its files.
RetryOfferedIsDurable ==
    \A o \in Ops : rt.ops[o] # None /\ rt.ops[o].st = "RetryAvailable" =>
        \/ rt.snap.cand # None /\ rt.snap.cand.op = o
        \/ rt.ops[o].retry /\ (rt.fail \/ rt.snap.cand = None)
        \/ rt.fail /\ rt.snap.clean /\ rt.snap.cand = None

\* The operation of candidate c, when a replug resolved its fence while a look
\* at the file list was still open: the answer to that look ends it.
LookedTooLate(r, c) ==
    /\ AllowShadowLoss /\ c.out = "PartialOrUnknown" /\ c.fresh /\ ~c.recov
    /\ \/ r.ops[c.op].st \in {"Failed", "Cancelled"}
       \/ r.ops[c.op].st = "Recovering" /\ r.ops[c.op].chg /\ r.act = c.op

\* A durable candidate is offered to the clients, or it is being verified, or it
\* was resolved during a look and its operation ended as the look did.
CandidateIsOffered ==
    LET c == rt.snap.cand IN
    c # None /\ rt.snap.infl = None /\ ~StartupGate(rt) =>
        /\ rt.ops[c.op] # None
        /\ \/ rt.ops[c.op].st = IF FinalizationOnly(c) THEN "Recovering"
                                ELSE "RetryAvailable"
           \/ LookedTooLate(rt, c)

\* What is kept of an interrupted transfer is on disk, is offered as it is there,
\* and nothing else is offered (finishOperation, retireProvenCandidate, the
\* adoption of a past run's records), whatever write fails.
RetryIsDurable ==
    TypeOK /\ TaintIsDurable /\ RetryOfferedIsDurable /\ CandidateIsOffered

\* What a worker would transfer is the transfer that the disk names as armed, of
\* the one operation in the foreground, and never in a session that may only
\* look (the gates of queueUploadOperation and the dispatch barrier).
TransferIsAdmitted == ArmedBeforeTransfer /\ RestrictedIsReadOnly /\ OneForeground

\* An upload reported as done was at some moment on that device, complete.
SucceededIsStored ==
    \A o \in Ops :
        /\ rt.ops[o] # None /\ rt.ops[o].st = "Succeeded"
        /\ rt.ops[o].dev \in CatalogDevices
        => <<rt.ops[o].dev, rt.ops[o].name>> \in stored

\* The record of a media that is not on the device is not lost: a candidate
\* leaves the disk when a file list proved a copy, when a newer outcome or the
\* commit of a verified upload takes its place, or when the user discards it.
CandidateIsNotLost ==
    [][rt.disk.cand # None /\ rt'.disk.cand = None /\ rt'.disk.infl = None =>
         \/ \E o \in Ops : DiscardRetry(o)
         \/ ~HasCatalog(rt) \/ \E n \in Uids : <<rt.conn, n>> \in stored]_vars

\* Every foreground operation ends.
ForegroundEnds == (rt.act # None) ~> (rt.act = None)

=============================================================================
