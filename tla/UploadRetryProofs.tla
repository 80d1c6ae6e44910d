------------------------ MODULE UploadRetryProofs --------------------------
(* Proofs about UploadRetry, for any operations, devices, ids, faults,        *)
(* crashes and replugs: what a worker would transfer is what the disk names   *)
(* as armed, of the one operation in the foreground, and what may be retried  *)
(* is on disk and is offered.                                                 *)
EXTENDS UploadRetry, SequenceTheorems, TLAPS

-----------------------------------------------------------------------------
(* Types                                                                      *)

Results == Outcomes \cup {"", "Succeeded", "Cancelled"}

Jobs ==
    [kind : {"start", "refresh", "upload"}, op : Ops \cup {None}, gen : Nat, name : {0} \cup Uids]

Events ==
    [kind : {"started", "lost", "list", "nolist", "upload"}, op : Ops \cup {None}, gen : Nat,
     out : Results, files : [Uids -> FileStates]]

Processes ==
    [ops : [Ops -> OpRecord \cup {None}], act : Ops \cup {None}, snap : Snapshot, disk : Snapshot,
     load : {"validating", "yes"}, fail : BOOLEAN, gen : Nat, conn : Devices \cup {None},
     sact : BOOLEAN, slost : BOOLEAN, lrem : BOOLEAN, rec : BOOLEAN, rrem : BOOLEAN,
     gate : [gen : Nat, open : BOOLEAN], wk : {"Idle", "Active", "Lost", "Cleared"},
     jobs : Seq(Jobs), evts : Seq(Events), uid : {0} \cup Uids, faults : 0 .. MaxFaults]

-----------------------------------------------------------------------------
(* The inductive invariant, of a process r.  First what it knows: the         *)
(* operations, the one in the foreground, and the two copies of the snapshot. *)

\* Operation o waits for the verification of its record, which is d.
Awaited(s, o) ==
    \/ Fenced(s) /\ s.infl.op = o
    \/ s.infl = None /\ s.cand # None /\ FinalizationOnly(s.cand) /\ s.cand.op = o

IsOf(op, d) == op.lin = d.lin /\ op.disp = d.disp /\ op.name = d.name /\ op.dev = d.dev

Waits(s, o, op) == Awaited(s, o) /\ IsOf(op, IF s.infl # None THEN s.infl ELSE s.cand)

\* A replug resolved its fence while a look at the file list was open.
Resolved(r, o, op) ==
    /\ AllowShadowLoss /\ op.chg /\ ~op.finp /\ op.gen # r.gen
    /\ r.snap.infl = None /\ r.snap.cand # None /\ r.snap.cand.op = o
    /\ ~FinalizationOnly(r.snap.cand)

\* Nothing of it is on disk or on its way.
Starting(r, op) ==
    /\ op.st \in {"Converting", "Preflight"} /\ ~op.sent /\ ~op.finp
    /\ op.st = "Converting" => ~op.retry /\ ~op.pre
    /\ ~op.retry => op.name = op.disp /\ ~op.pre
    /\ op.retry => op.lin # 0
    /\ r.snap.infl = None

\* Its dispatch is armed.
Sending(r, op) ==
    /\ op.st \in {"Uploading", "Refreshing"} /\ ~op.pre /\ ~op.finp
    /\ r.snap.infl # None /\ r.disk.infl = r.snap.infl
    /\ r.snap.infl.op = r.act /\ r.snap.infl.phase = "DispatchArmed" /\ IsOf(op, r.snap.infl)

Foreground(r) ==
    r.act # None =>
        LET op == r.ops[r.act]
        IN /\ op # None /\ op.disp \in Uids /\ op.name \in Uids
           /\ op.st = "Recovering" \/ Starting(r, op) \/ Sending(r, op)
           /\ op.st # "Recovering" /\ r.snap.cand # None =>
                 r.snap.cand.op # r.act /\ ~FinalizationOnly(r.snap.cand)

\* What is not over, and not in the foreground, waits.
Waiting(r) ==
    \A o \in Ops :
        r.ops[o] # None =>
            /\ r.ops[o].st \in Terminal \cup {"Recovering"} \/ o = r.act
            /\ r.ops[o].st = "Recovering" =>
                  Waits(r.snap, o, r.ops[o]) \/ (o = r.act /\ Resolved(r, o, r.ops[o]))

\* The records of different operations, and the list of files to delete.
Apart(s) ==
    /\ s.cand # None /\ s.infl # None => s.cand.op # s.infl.op
    /\ s.clean => s.infl = None

\* As long as no write failed nothing is half done between two events.
Records(r) ==
    /\ Apart(r.snap) /\ Apart(r.disk)
    /\ Fenced(r.snap) \/ Fenced(r.disk) => AllowShadowLoss
    /\ r.snap.clean => r.fail
    /\ ~r.fail /\ r.load = "yes" => r.disk = r.snap
    /\ ~r.fail /\ r.snap.infl # None =>
          \/ r.snap.infl.phase = "ShadowMissingFence"
          \/ r.snap.infl.phase = "DispatchArmed" /\ r.snap.infl.op = r.act

\* A record that stands still is shown to the clients.
Shown(r) ==
    ~StartupGate(r) =>
        /\ r.snap.cand # None /\ r.snap.infl = None =>
              LET op == r.ops[r.snap.cand.op]
              IN /\ op # None
                 /\ \/ op.st = IF FinalizationOnly(r.snap.cand) THEN "Recovering"
                               ELSE "RetryAvailable"
                    \/ LookedTooLate(r, r.snap.cand)
        /\ Fenced(r.snap) =>
              LET op == r.ops[r.snap.infl.op] IN op # None /\ op.st = "Recovering"

\* The retries that are offered.
Known(op) == op.lin # 0 /\ op.name \in Uids

Offers(r) ==
    \A o \in Ops : r.ops[o] # None /\ r.ops[o].st = "RetryAvailable" =>
        /\ Known(r.ops[o])
        /\ \/ r.snap.cand # None /\ r.snap.cand.op = o
           \/ r.ops[o].retry /\ (r.fail \/ r.snap.cand = None)
           \/ r.fail /\ r.snap.clean /\ r.snap.cand = None

\* Before the records are loaded nothing is accepted.
Loading(r) ==
    r.load # "yes" =>
        /\ r.snap = EmptySnapshot /\ r.act = None /\ ~r.rec
        /\ \A o \in Ops : r.ops[o] # None => r.ops[o].st = "Failed" /\ r.ops[o].lin = 0

Surface(r) ==
    /\ Foreground(r) /\ Waiting(r) /\ Records(r) /\ Shown(r) /\ Offers(r) /\ Loading(r)

-----------------------------------------------------------------------------
(* The invariant: what is asked of the worker, and what it answers            *)

Asks(j, o, g) == j.kind \in {"refresh", "upload"} /\ j.op = o /\ j.gen = g
Tells(e, o, g) == e.kind \in {"list", "nolist", "upload"} /\ e.op = o /\ e.gen = g
Says(e, kind, g) == e.kind = kind /\ e.gen = g

Free(r, o, g) ==
    /\ \A i \in DOMAIN r.jobs : ~Asks(r.jobs[i], o, g)
    /\ \A i \in DOMAIN r.evts : ~Tells(r.evts[i], o, g)

\* One question at most is open.
Sole(r, o, g) ==
    /\ \A i, k \in DOMAIN r.jobs : Asks(r.jobs[i], o, g) /\ Asks(r.jobs[k], o, g) => i = k
    /\ \A i, k \in DOMAIN r.evts : Tells(r.evts[i], o, g) /\ Tells(r.evts[k], o, g) => i = k
    /\ \A i \in DOMAIN r.jobs, k \in DOMAIN r.evts :
          ~(Asks(r.jobs[i], o, g) /\ Tells(r.evts[k], o, g))

\* The session of the generation is not to be reported as started any more.
Spent(r) == r.wk # "Idle" /\ \A i \in DOMAIN r.evts : ~Says(r.evts[i], "started", r.gen)

Queues(r) ==
    /\ \A i \in DOMAIN r.jobs : r.jobs[i].gen <= r.gen /\ (r.jobs[i].kind # "start" => r.jobs[i].op \in Ops)
    /\ \A i \in DOMAIN r.evts :
          /\ r.evts[i].gen <= r.gen
          /\ r.evts[i].kind \notin {"started", "lost"} => r.evts[i].op \in Ops

Sessions(r) ==
    /\ r.conn = None => r.wk = "Cleared"
    /\ r.wk = "Idle" => \A i \in DOMAIN r.evts : ~Says(r.evts[i], "started", r.gen)
    /\ r.wk \in {"Idle", "Active"} => \A i \in DOMAIN r.evts : ~Says(r.evts[i], "lost", r.gen)
    /\ \A i, k \in DOMAIN r.evts :
          Says(r.evts[i], "lost", r.gen) /\ Says(r.evts[k], "started", r.gen) => k < i

\* What belongs to no operation in the foreground is not of this generation, or
\* the session is lost and a reconnect demanded.
Strays(r) ==
    \A o \in Ops : o # r.act => Free(r, o, r.gen) \/ (r.rec /\ Spent(r))

Question(r) ==
    r.act # None =>
        LET op == r.ops[r.act]
        IN /\ op.gen <= r.gen
           /\ Sole(r, r.act, op.gen)
           /\ op.gen # r.gen => Free(r, r.act, r.gen)
           /\ op.st = "Converting" => Free(r, r.act, op.gen)

Transfers(r) ==
    \A i \in DOMAIN r.jobs :
        r.jobs[i].kind = "upload" =>
            LET op == r.ops[r.act]
            IN /\ r.jobs[i].op = r.act /\ op.st = "Uploading"
               /\ r.jobs[i].gen = op.gen /\ r.jobs[i].name = op.name

Traffic(r) ==
    /\ Queues(r) /\ Sessions(r) /\ Strays(r) /\ Question(r) /\ Transfers(r)

\* Of the operation that looks at a list, and may have to look again.
Calm(r) ==
    r.act # None =>
        LET op == r.ops[r.act]
        IN op.st = "Recovering" /\ (op.chg \/ ~op.pre) => Free(r, r.act, r.gen) \/ Spent(r)

Good(r) ==
    /\ r \in Processes /\ Surface(r) /\ Traffic(r) /\ Calm(r) /\ r.gate.gen = r.gen

UploadInvariant == Good(rt)

-----------------------------------------------------------------------------
(* What the proof says of the states in between                               *)

Modes == {"", "PreparedMedia"}

Dropped == {"Failed", "Cancelled"}
Ended == {"Succeeded", "Failed", "Cancelled"}

Over(r, p) == r.ops[p] = None \/ r.ops[p].st \in Terminal

\* The operation shown for candidate c.
Stands(op, c) ==
    /\ op # None
    /\ IF FinalizationOnly(c) THEN op.st = "Recovering" /\ IsOf(op, c)
                              ELSE op.st = "RetryAvailable" /\ Known(op)

\* Nothing is offered but the candidate.
Neat(r, p) ==
    IF r.snap.cand # None /\ r.snap.cand.op = p
    THEN Stands(r.ops[p], r.snap.cand) \/ (r.fail /\ r.ops[p] # None /\ r.ops[p].st \in Ended)
    ELSE r.ops[p] = None \/ r.ops[p].st \in Ended

NoUploads(r) == \A i \in DOMAIN r.jobs : r.jobs[i].kind # "upload"

\* The traffic of a process with nothing in the foreground.
Rest(r) ==
    /\ Queues(r) /\ Sessions(r) /\ NoUploads(r) /\ r.gate.gen = r.gen
    /\ \A o \in Ops : Free(r, o, r.gen) \/ (r.rec /\ Spent(r))

\* The two disk states between which a handler moves.
Durable(r) ==
    /\ Apart(r.snap) /\ Apart(r.disk)
    /\ Fenced(r.snap) \/ Fenced(r.disk) => AllowShadowLoss
    /\ r.snap.clean => r.fail
    /\ ~r.fail => r.disk = r.snap

\* Operation o is in the foreground and answered, or waits: it can be ended.
Held(r, o) ==
    /\ r \in Processes /\ o \in Ops /\ r.act \in {None, o} /\ r.load = "yes"
    /\ r.ops[o] # None /\ r.ops[o].st \notin Terminal
    /\ \A p \in Ops \ {o} : Over(r, p)
    /\ Offers(r) /\ Rest(r) /\ Durable(r)

Talk(q, r) ==
    /\ q.jobs = r.jobs /\ q.evts = r.evts /\ q.gen = r.gen /\ q.conn = r.conn
    /\ q.gate = r.gate /\ q.wk = r.wk /\ q.rec = r.rec
Store(q, r) == q.snap = r.snap /\ q.disk = r.disk /\ q.load = r.load /\ q.fail = r.fail

-----------------------------------------------------------------------------
(* Lemmas about the records and their mutations                               *)

USE ConstantsAssumption, NoneAssumption, NoOperationAssumption

\* The parts of a snapshot.
LEMMA SnapshotParts ==
    ASSUME NEW s \in Snapshot
    PROVE  /\ s = [cand |-> s.cand, infl |-> s.infl, clean |-> s.clean]
           /\ s.cand # None => s.cand \in Candidate
           /\ s.infl # None => s.infl \in Dispatch
           /\ s.clean \in BOOLEAN
BY DEF Snapshot

\* The parts of a process.
LEMMA ProcessParts ==
    ASSUME NEW r \in Processes
    PROVE  /\ r.act \in Ops \cup {None} /\ r.snap \in Snapshot /\ r.disk \in Snapshot
           /\ r.gen \in Nat /\ r.jobs \in Seq(Jobs) /\ r.evts \in Seq(Events)
           /\ r.fail \in BOOLEAN /\ r.conn \in Devices \cup {None}
           /\ \A o \in Ops : HasOp(r, o) => r.ops[o] \in OpRecord
           /\ \A o \in Ops : HasOp(r, o) <=> r.ops[o] # None
           /\ ~HasOp(r, None)
BY DEF Processes, HasOp

\* What the mutations make of a snapshot is a snapshot.
LEMMA RetirementsStay ==
    ASSUME NEW s \in Snapshot
    PROVE  /\ RetireProven(s) \in Snapshot /\ ClearCandidate(s) \in Snapshot
           /\ [s EXCEPT !.clean = TRUE] \in Snapshot
           /\ s.infl # None => RetireAcknowledged(s) \in Snapshot
BY SnapshotParts DEF RetireProven, ClearCandidate, RetireAcknowledged, Snapshot

LEMMA OutcomesStay ==
    ASSUME NEW s \in Snapshot, s.infl # None
    PROVE  /\ DeferLocalCommit(s) \in Snapshot /\ ArmDispatch(s) \in Snapshot
           /\ \A out \in Outcomes : RecordOutcome(s, out) \in Snapshot
<1>1. s.infl \in Dispatch
    BY SnapshotParts
<1>2. \A out \in Outcomes, a, b \in BOOLEAN : CandidateOf(s.infl, out, a, b) \in Candidate
    BY <1>1 DEF CandidateOf, Candidate, Dispatch
<1>3. [s.infl EXCEPT !.phase = "DispatchArmed"] \in Dispatch
    BY <1>1 DEF Dispatch, Phases
<1>4. ArmDispatch(s) = [s EXCEPT !.infl = [s.infl EXCEPT !.phase = "DispatchArmed"]]
    BY SnapshotParts DEF ArmDispatch
<1>5. \A out \in Outcomes : (out = "PartialOrUnknown") \in BOOLEAN
    OBVIOUS
<1>6. \A out \in Outcomes : RecordOutcome(s, out) \in Snapshot
    BY <1>2, <1>5, SnapshotParts DEF RecordOutcome, Snapshot
<1>7. DeferLocalCommit(s) \in Snapshot
    BY <1>2, SnapshotParts DEF DeferLocalCommit, Snapshot, Outcomes
<1>8. ArmDispatch(s) \in Snapshot
    BY <1>3, <1>4, SnapshotParts DEF Snapshot
<1> QED BY <1>6, <1>7, <1>8

LEMMA ProofsStay ==
    ASSUME NEW s \in Snapshot, s.cand # None
    PROVE  /\ ResolveReconnect(s) \in Snapshot /\ ResolveFinalization(s) \in Snapshot
           /\ \A o \in Ops : RemapCandidate(s, o) \in Snapshot
<1>1. s.cand \in Candidate
    BY SnapshotParts
<1>2. /\ [s.cand EXCEPT !.recov = FALSE] \in Candidate
      /\ [s.cand EXCEPT !.out = "PartialOrUnknown", !.fresh = TRUE] \in Candidate
      /\ \A o \in Ops : [s.cand EXCEPT !.op = o] \in Candidate
    BY <1>1 DEF Candidate, Outcomes
<1>3. /\ ResolveReconnect(s) = [s EXCEPT !.cand = [s.cand EXCEPT !.recov = FALSE]]
      /\ ResolveFinalization(s) =
            [s EXCEPT !.cand = [s.cand EXCEPT !.out = "PartialOrUnknown", !.fresh = TRUE]]
      /\ \A o \in Ops : RemapCandidate(s, o) = [s EXCEPT !.cand = [s.cand EXCEPT !.op = o]]
    BY SnapshotParts DEF ResolveReconnect, ResolveFinalization, RemapCandidate
<1>4. \A c \in Candidate : [s EXCEPT !.cand = c] \in Snapshot
    BY SnapshotParts DEF Snapshot
<1> QED BY <1>2, <1>3, <1>4, ZenonT(90)

LEMMA FenceStays ==
    ASSUME NEW s \in Snapshot, s.infl # None
    PROVE  ResolveFenceReconnect(s) \in Snapshot
<1>1. s.infl \in Dispatch /\ (s.cand # None => s.cand \in Candidate)
    BY SnapshotParts
<1>2. CandidateOf(s.infl, "PartialOrUnknown", FALSE, TRUE) \in Candidate
    BY <1>1 DEF CandidateOf, Candidate, Dispatch, Outcomes
<1>3. s.cand # None => HardenedCandidate(s.cand, s.infl) \in Candidate
    BY <1>1 DEF HardenedCandidate, Candidate, Dispatch, Outcomes
<1> QED BY <1>2, <1>3, SnapshotParts DEF ResolveFenceReconnect, Snapshot

LEMMA CommitStays ==
    ASSUME NEW s \in Snapshot, CanBeginLocalCommit(s)
    PROVE  BeginLocalCommit(s) \in Snapshot
<1>1. /\ s.infl # None => s.infl \in Dispatch /\ [s.infl EXCEPT !.phase = "LocalCommitPending"] \in Dispatch
      /\ s.cand # None => s.cand \in Candidate
    BY SnapshotParts DEF Dispatch, Phases
<1>2. s.infl # None => BeginLocalCommit(s) = [s EXCEPT !.infl = [s.infl EXCEPT !.phase = "LocalCommitPending"]]
    BY SnapshotParts DEF BeginLocalCommit
<1>3. CASE s.infl # None
    BY <1>1, <1>2, <1>3, SnapshotParts DEF Snapshot
<1>4. CASE s.infl = None
    <2>1. s.cand \in Candidate
        BY <1>1, <1>4 DEF CanBeginLocalCommit
    <2>2. [op |-> s.cand.op, disp |-> s.cand.disp, lin |-> s.cand.lin, name |-> s.cand.name,
           dev |-> s.cand.dev, phase |-> "LocalCommitPending", shared |-> FALSE] \in Dispatch
        BY <2>1 DEF Candidate, Dispatch, Phases
    <2> QED BY <1>4, <2>2, SnapshotParts DEF BeginLocalCommit, Snapshot
<1> QED BY <1>3, <1>4

LEMMA DispatchesStay ==
    ASSUME NEW s \in Snapshot, NEW o \in Ops, NEW uid \in Uids, NEW name \in Uids,
           NEW dev \in Devices
    PROVE  /\ PersistPrepared(s, o, uid, dev) \in Snapshot
           /\ s.cand # None => BeginRetry(s, o, uid, name, dev) \in Snapshot
<1>1. s.cand # None => s.cand \in Candidate /\ s.cand.lin \in Uids
    BY SnapshotParts DEF Candidate
<1>2. \A lin \in Uids, n \in Uids, b \in BOOLEAN :
         [op |-> o, disp |-> uid, lin |-> lin, name |-> n, dev |-> dev,
          phase |-> "Preparing", shared |-> b] \in Dispatch
    BY DEF Dispatch, Phases
<1> QED BY <1>1, <1>2, SnapshotParts DEF PersistPrepared, BeginRetry, Snapshot

LEMMA RecoveredStays ==
    ASSUME NEW s \in Snapshot, NEW b \in BOOLEAN
    PROVE  Recovered(s, b) \in Snapshot
<1>1. CASE s.infl = None
    BY <1>1, SnapshotParts DEF Recovered, Snapshot
<1>2. CASE s.infl # None
    <2>1. s.infl \in Dispatch /\ s.infl.phase \in Phases
        BY <1>2, SnapshotParts DEF Dispatch
    <2>2. [s.infl EXCEPT !.phase = "ShadowMissingFence"] \in Dispatch
        BY <2>1 DEF Dispatch, Phases, FencePhases
    <2>3. [s EXCEPT !.infl.phase = "ShadowMissingFence"] =
             [s EXCEPT !.infl = [s.infl EXCEPT !.phase = "ShadowMissingFence"]]
        BY SnapshotParts
    <2>4. [s EXCEPT !.infl.phase = "ShadowMissingFence"] \in Snapshot
        BY <2>2, <2>3, SnapshotParts DEF Snapshot
    <2>5. [s EXCEPT !.infl = None, !.clean = FALSE] \in Snapshot
        BY SnapshotParts DEF Snapshot
    <2> QED BY <1>2, <2>1, <2>4, <2>5, OutcomesStay, FenceStays
            DEF Recovered, Phases, FencePhases, Outcomes
<1> QED BY <1>1, <1>2

-----------------------------------------------------------------------------
(* Lemmas about the operators that end, pause and show operations             *)

\* An operation is ended.
LEMMA FinishIs ==
    ASSUME NEW r \in Processes, NEW o \in Ops, r.ops[o] # None, r.ops[o].st \notin Terminal,
           NEW st \in OpStates, NEW mode \in Modes
    PROVE  LET q == Finish(r, o, st, mode)
           IN /\ q \in Processes /\ Talk(q, r) /\ Store(q, r)
              /\ q.ops[o] \in OpRecord /\ q.ops[o].st = st
              /\ IsOf(q.ops[o], r.ops[o]) /\ q.ops[o].retry = r.ops[o].retry
              /\ \A p \in Ops \ {o} : q.ops[p] = r.ops[p]
              /\ q.act = IF r.act = o THEN None ELSE r.act
<1> DEFINE op == [r.ops[o] EXCEPT !.st = st, !.mode = mode, !.cancel = FALSE]
           q == [r EXCEPT !.ops[o] = op, !.act = IF @ = o THEN None ELSE @]
<1>1. HasOp(r, o) /\ r.ops[o] \in OpRecord
    BY ProcessParts
<1>2. Finish(r, o, st, mode) = q
    BY <1>1 DEF Finish
<1>3. op \in OpRecord /\ op.st = st /\ IsOf(op, r.ops[o]) /\ op.retry = r.ops[o].retry
    BY <1>1, ZenonT(90) DEF OpRecord, IsOf, Modes
<1>4. r.ops \in [Ops -> OpRecord \cup {None}] /\ r.act \in Ops \cup {None}
    BY DEF Processes
<1> HIDE DEF op
<1>5. [r.ops EXCEPT ![o] = op] \in [Ops -> OpRecord \cup {None}]
    BY <1>3, <1>4
<1>6. q \in Processes
    BY <1>4, <1>5 DEF Processes
<1>7. Talk(q, r) /\ Store(q, r) /\ q.ops = [r.ops EXCEPT ![o] = op]
      /\ q.act = IF r.act = o THEN None ELSE r.act
    BY DEF Processes, Talk, Store
<1>8. q.ops[o] = op /\ \A p \in Ops \ {o} : q.ops[p] = r.ops[p]
    BY <1>4, <1>7
<1> QED BY <1>2, <1>3, <1>6, <1>7, <1>8 DEF op

EndsAs(q, r, o, st) ==
    /\ q \in Processes /\ Talk(q, r) /\ Store(q, r)
    /\ q.ops[o] \in OpRecord /\ q.ops[o].st = st
    /\ IsOf(q.ops[o], r.ops[o]) /\ q.ops[o].retry = r.ops[o].retry
    /\ \A p \in Ops \ {o} : q.ops[p] = r.ops[p]
    /\ q.act = IF r.act = o THEN None ELSE r.act

LEMMA FinishEnds ==
    ASSUME NEW r \in Processes, NEW o \in Ops, r.ops[o] # None, r.ops[o].st \notin Terminal,
           NEW st \in OpStates, NEW mode \in Modes
    PROVE  EndsAs(Finish(r, o, st, mode), r, o, st)
BY FinishIs DEF EndsAs

\* An operation is paused.
LEMMA PauseIs ==
    ASSUME NEW r \in Processes, NEW o \in Ops, r.ops[o] # None
    PROVE  LET q == Pause(r, o)
           IN /\ q \in Processes /\ Talk(q, r) /\ Store(q, r)
              /\ q.ops[o] \in OpRecord /\ q.ops[o].st = "Recovering"
              /\ IsOf(q.ops[o], r.ops[o]) /\ q.ops[o].gen = r.ops[o].gen
              /\ \A p \in Ops \ {o} : q.ops[p] = r.ops[p]
              /\ q.act = IF r.act = o THEN None ELSE r.act
<1> DEFINE op == [r.ops[o] EXCEPT !.st = "Recovering", !.mode = ""]
           q == [r EXCEPT !.ops[o] = op, !.act = IF @ = o THEN None ELSE @]
<1>1. HasOp(r, o) /\ r.ops[o] \in OpRecord
    BY ProcessParts
<1>2. Pause(r, o) = q
    BY <1>1 DEF Pause
<1>3. op \in OpRecord /\ op.st = "Recovering" /\ IsOf(op, r.ops[o]) /\ op.gen = r.ops[o].gen
    BY <1>1 DEF OpRecord, IsOf, OpStates
<1>4. r.ops \in [Ops -> OpRecord \cup {None}] /\ r.act \in Ops \cup {None}
    BY DEF Processes
<1> HIDE DEF op
<1>5. [r.ops EXCEPT ![o] = op] \in [Ops -> OpRecord \cup {None}]
    BY <1>3, <1>4
<1>6. q \in Processes
    BY <1>4, <1>5 DEF Processes
<1>7. Talk(q, r) /\ Store(q, r) /\ q.ops = [r.ops EXCEPT ![o] = op]
      /\ q.act = IF r.act = o THEN None ELSE r.act
    BY DEF Processes, Talk, Store
<1>8. q.ops[o] = op /\ \A p \in Ops \ {o} : q.ops[p] = r.ops[p]
    BY <1>4, <1>7
<1> QED BY <1>2, <1>3, <1>6, <1>7, <1>8

\* The operation that is shown for a record.
LEMMA RestoredIs ==
    ASSUME NEW g \in Nat
    PROVE  /\ \A c \in Candidate :
                 LET op == RestoredCandidate(c, g)
                 IN op \in OpRecord /\ Stands(op, c) /\ IsOf(op, c) /\ op.st # "Converting"
           /\ \A d \in Dispatch :
                 LET op == RestoredDispatch(d, g)
                 IN op \in OpRecord /\ op.st = "Recovering" /\ IsOf(op, d)
<1>1. ASSUME NEW c \in Candidate
      PROVE  LET op == RestoredCandidate(c, g)
             IN op \in OpRecord /\ Stands(op, c) /\ IsOf(op, c) /\ op.st # "Converting"
    <2>1. /\ c.dev \in Devices /\ c.disp \in Uids /\ c.lin \in Uids /\ c.name \in Uids
          /\ c.out \in Outcomes /\ c.recov \in BOOLEAN /\ c.fresh \in BOOLEAN
          /\ c.lin # 0
        BY DEF Candidate, Uids
    <2>2. FinalizationOnly(c) \in BOOLEAN
        BY DEF FinalizationOnly
    <2> DEFINE n == NewOp(g, c.dev, c.disp)
               op == [n EXCEPT
                        !.st = IF FinalizationOnly(c) THEN "Recovering" ELSE "RetryAvailable",
                        !.mode = IF FinalizationOnly(c) THEN "" ELSE "PreparedMedia",
                        !.term = c.out, !.finp = FinalizationOnly(c), !.recov = c.recov,
                        !.fresh = c.fresh, !.lin = c.lin, !.name = c.name]
    <2>3. n \in OpRecord /\ n.disp = c.disp /\ n.dev = c.dev
        BY <2>1 DEF NewOp, OpRecord, OpStates
    <2>4. RestoredCandidate(c, g) = op
        BY DEF RestoredCandidate
    <2> HIDE DEF n
    <2>5. op \in OpRecord
        BY <2>1, <2>2, <2>3, ZenonT(90) DEF OpRecord, OpStates, Terminal
    <2>6. /\ op.st = IF FinalizationOnly(c) THEN "Recovering" ELSE "RetryAvailable"
          /\ IsOf(op, c) /\ Known(op)
        BY <2>1, <2>3 DEF OpRecord, IsOf, Known
    <2> HIDE DEF op
    <2>7. op # None /\ op.st # "Converting"
        BY <2>5, <2>6
    <2> QED BY <2>4, <2>5, <2>6, <2>7 DEF Stands
<1>2. ASSUME NEW d \in Dispatch
      PROVE  LET op == RestoredDispatch(d, g)
             IN op \in OpRecord /\ op.st = "Recovering" /\ IsOf(op, d)
    <2>1. d.dev \in Devices /\ d.disp \in Uids /\ d.lin \in Uids /\ d.name \in Uids
        BY DEF Dispatch
    <2> DEFINE n == NewOp(g, d.dev, d.disp)
               op == [n EXCEPT
                        !.st = "Recovering", !.term = "PartialOrUnknown", !.finp = TRUE,
                        !.recov = TRUE, !.fresh = TRUE, !.lin = d.lin, !.name = d.name]
    <2>2. n \in OpRecord /\ n.disp = d.disp /\ n.dev = d.dev
        BY <2>1 DEF NewOp, OpRecord, OpStates
    <2>3. RestoredDispatch(d, g) = op
        BY DEF RestoredDispatch
    <2> HIDE DEF n
    <2>4. op \in OpRecord
        BY <2>1, <2>2 DEF OpRecord, OpStates, Outcomes
    <2>5. op.st = "Recovering" /\ IsOf(op, d)
        BY <2>2 DEF OpRecord, IsOf
    <2> HIDE DEF op
    <2> QED BY <2>3, <2>4, <2>5
<1> QED BY <1>1, <1>2

\* Operations that are kept when the records are shown anew.
Kept(m) ==
    [o \in Ops |->
        IF /\ m.ops[o] # None /\ o \notin {Visible(m.snap), m.act} /\ m.ops[o].lin # 0
           /\ m.ops[o].st = "RetryAvailable" \/ m.ops[o].finp
        THEN None ELSE m.ops[o]]

LEMMA KeptIs ==
    ASSUME NEW m \in Processes
    PROVE  /\ Kept(m) \in [Ops -> OpRecord \cup {None}]
           /\ \A p \in Ops : Kept(m)[p] \in {None, m.ops[p]}
           /\ \A p \in Ops : p \in {Visible(m.snap), m.act} => Kept(m)[p] = m.ops[p]
           /\ \A p \in Ops : p \notin {Visible(m.snap), m.act} /\ m.ops[p] # None
                            /\ m.ops[p].st = "RetryAvailable" /\ m.ops[p].lin # 0
                            => Kept(m)[p] = None
BY DEF Kept, Processes

\* Only the operation that is shown for the records changes beyond that.
LEMMA SyncShows ==
    ASSUME NEW m \in Processes, NEW v \in Ops, v = Visible(m.snap), NEW op \in OpRecord
    PROVE  LET s == [m EXCEPT !.ops = [Kept(m) EXCEPT ![v] = op]]
           IN /\ s \in Processes /\ Talk(s, m) /\ Store(s, m) /\ s.act = m.act
              /\ s.ops[v] = op
              /\ \A p \in Ops \ {v} :
                    /\ s.ops[p] \in {None, m.ops[p]}
                    /\ p = m.act => s.ops[p] = m.ops[p]
                    /\ p # m.act /\ m.ops[p] # None /\ m.ops[p].st = "RetryAvailable"
                       /\ m.ops[p].lin # 0 => s.ops[p] = None
<1> DEFINE ops == [Kept(m) EXCEPT ![v] = op]
           s == [m EXCEPT !.ops = ops]
<1>1. /\ ops \in [Ops -> OpRecord \cup {None}] /\ ops[v] = op
      /\ \A p \in Ops \ {v} : ops[p] = Kept(m)[p]
    BY KeptIs
<1> HIDE DEF ops
<1>2. s \in Processes /\ Talk(s, m) /\ Store(s, m) /\ s.act = m.act /\ s.ops = ops
    BY <1>1 DEF Processes, Talk, Store
<1> HIDE DEF s
<1>3. /\ s \in Processes /\ Talk(s, m) /\ Store(s, m) /\ s.act = m.act
      /\ s.ops[v] = op
      /\ \A p \in Ops \ {v} :
            /\ s.ops[p] \in {None, m.ops[p]}
            /\ p = m.act => s.ops[p] = m.ops[p]
            /\ p # m.act /\ m.ops[p] # None /\ m.ops[p].st = "RetryAvailable"
               /\ m.ops[p].lin # 0 => s.ops[p] = None
    BY <1>1, <1>2, KeptIs
<1> QED BY <1>3 DEF s, ops

\* What is shown when no dispatch is recorded.
LEMMA SyncIs ==
    ASSUME NEW m \in Processes, m.snap.infl = None
    PROVE  LET s == Sync(m)
               c == m.snap.cand
           IN /\ s \in Processes /\ Talk(s, m) /\ Store(s, m) /\ s.act = m.act
              /\ \A p \in Ops : ~(c # None /\ p = c.op) =>
                    /\ s.ops[p] \in {None, m.ops[p]}
                    /\ p = m.act => s.ops[p] = m.ops[p]
                    /\ p # m.act /\ m.ops[p] # None /\ m.ops[p].st = "RetryAvailable"
                       /\ m.ops[p].lin # 0 => s.ops[p] = None
              /\ c # None =>
                    /\ s.ops[c.op] \in OpRecord
                    /\ IF /\ m.ops[c.op] # None /\ m.act = c.op
                          /\ m.ops[c.op].lin = c.lin /\ m.ops[c.op].disp = c.disp
                       THEN s.ops[c.op] = [m.ops[c.op] EXCEPT !.recov = c.recov, !.fresh = c.fresh,
                                                              !.finp = FinalizationOnly(c)]
                       ELSE s.ops[c.op] = RestoredCandidate(c, m.gen)
<1> DEFINE s == Sync(m)
           c == m.snap.cand
           v == Visible(m.snap)
           q == [m EXCEPT !.ops = Kept(m)]
<1>1. CASE c = None
    <2>1. v = None
        BY <1>1 DEF Visible
    <2>2. s = q
        BY <2>1 DEF Sync, Kept
    <2>3. s \in Processes /\ Talk(s, m) /\ Store(s, m) /\ s.act = m.act /\ s.ops = Kept(m)
        BY <2>2, KeptIs, SMTT(60) DEF Processes, Talk, Store
    <2> QED BY <1>1, <2>1, <2>3, KeptIs
<1>2. CASE c # None
    <2>1. c \in Candidate /\ v = c.op /\ v \in Ops /\ v # None
        BY <1>2, ProcessParts, SnapshotParts DEF Visible, Candidate
    <2> DEFINE kept == /\ m.ops[v] # None /\ m.act = v
                       /\ m.ops[v].lin = c.lin /\ m.ops[v].disp = c.disp
               changed == [m.ops[v] EXCEPT !.recov = c.recov, !.fresh = c.fresh,
                                           !.finp = FinalizationOnly(c)]
               op == IF kept THEN changed ELSE RestoredCandidate(c, m.gen)
    <2>2. kept => changed \in OpRecord
        <3> HAVE kept
        <3>1. m.ops[v] \in OpRecord /\ FinalizationOnly(c) \in BOOLEAN
            BY <2>1, ProcessParts DEF FinalizationOnly
        <3> QED BY <2>1, <3>1, ZenonT(90) DEF OpRecord, Candidate
    <2>3. op \in OpRecord
        BY <2>1, <2>2, RestoredIs, ProcessParts
    <2>4. s = [m EXCEPT !.ops = [Kept(m) EXCEPT ![v] = op]]
        <3>0. /\ HasOp(m, v) <=> m.ops[v] # None
              /\ [q EXCEPT !.ops[v] = op] = [m EXCEPT !.ops = [Kept(m) EXCEPT ![v] = op]]
            BY <2>1, ProcessParts, ZenonT(90) DEF Processes
        <3>1. CASE kept
            <4>1. s = [q EXCEPT !.ops[v] = [@ EXCEPT !.recov = c.recov, !.fresh = c.fresh,
                                                    !.finp = FinalizationOnly(c)]]
                BY <2>1, <3>0, <3>1 DEF Sync, Kept
            <4>2. q.ops[v] = m.ops[v]
                BY <2>1, KeptIs DEF Processes
            <4> QED BY <3>0, <3>1, <4>1, <4>2
        <3>2. CASE ~kept
            <4>1. s = [q EXCEPT !.ops[v] = Restored(m.snap, m.gen)]
                BY <2>1, <3>0, <3>2 DEF Sync, Kept
            <4> QED BY <3>0, <3>2, <4>1 DEF Restored
        <3> QED BY <3>1, <3>2
    <2> HIDE DEF op, v, s
    <2>5. /\ s \in Processes /\ Talk(s, m) /\ Store(s, m) /\ s.act = m.act
          /\ s.ops[v] = op
          /\ \A p \in Ops \ {v} :
                 /\ s.ops[p] \in {None, m.ops[p]}
                 /\ p = m.act => s.ops[p] = m.ops[p]
                 /\ p # m.act /\ m.ops[p] # None /\ m.ops[p].st = "RetryAvailable"
                    /\ m.ops[p].lin # 0 => s.ops[p] = None
        <3>1. v = Visible(m.snap)
            BY DEF v
        <3> QED BY <2>1, <2>3, <2>4, <3>1, SyncShows
    <2> QED BY <1>2, <2>1, <2>3, <2>5 DEF op, s
<1> QED BY <1>1, <1>2

\* What is shown when the dispatch of the foreground operation is recorded.
LEMMA SyncDispatched ==
    ASSUME NEW m \in Processes, NEW o \in Ops, m.snap.infl # None, m.snap.infl.op = o,
           m.snap.infl.phase \in {"Preparing", "DispatchArmed"}, m.ops[o] # None
    PROVE  LET s == Sync(m)
           IN /\ s \in Processes /\ Talk(s, m) /\ Store(s, m) /\ s.act = m.act
              /\ s.ops[o] = [m.ops[o] EXCEPT !.lin = m.snap.infl.lin, !.disp = m.snap.infl.disp]
              /\ s.ops[o] \in OpRecord
              /\ \A p \in Ops \ {o} :
                    /\ s.ops[p] \in {None, m.ops[p]}
                    /\ p # m.act /\ m.ops[p] # None /\ m.ops[p].st = "RetryAvailable"
                       /\ m.ops[p].lin # 0 => s.ops[p] = None
<1> DEFINE s == Sync(m)
           d == m.snap.infl
           op == [m.ops[o] EXCEPT !.lin = d.lin, !.disp = d.disp]
           q == [m EXCEPT !.ops = Kept(m)]
<1>1. Visible(m.snap) = o /\ o # None
    BY DEF Visible
<1>2. HasOp(m, o) /\ m.ops[o] \in OpRecord /\ d \in Dispatch
    BY ProcessParts, SnapshotParts
<1>3. op \in OpRecord
    BY <1>2 DEF OpRecord, Dispatch
<1>4. s = [q EXCEPT !.ops[o] = [@ EXCEPT !.lin = d.lin, !.disp = d.disp]]
    BY <1>1, <1>2 DEF Sync, Kept
<1>5. q.ops[o] = m.ops[o] /\ q.ops = Kept(m)
    BY <1>1, KeptIs DEF Processes
<1>6. s = [m EXCEPT !.ops = [Kept(m) EXCEPT ![o] = op]]
    BY <1>4, <1>5 DEF Processes
<1> HIDE DEF op, s
<1>7. LET t == [m EXCEPT !.ops = [Kept(m) EXCEPT ![o] = op]]
      IN /\ t \in Processes /\ Talk(t, m) /\ Store(t, m) /\ t.act = m.act
         /\ t.ops[o] = op
         /\ \A p \in Ops \ {o} :
               /\ t.ops[p] \in {None, m.ops[p]}
               /\ p # m.act /\ m.ops[p] # None /\ m.ops[p].st = "RetryAvailable"
                  /\ m.ops[p].lin # 0 => t.ops[p] = None
    BY <1>1, <1>3, SyncShows
<1> QED BY <1>3, <1>6, <1>7 DEF op, s

\* What is shown for a fence when nothing is in the foreground.
LEMMA SyncFence ==
    ASSUME NEW m \in Processes, m.act = None, Fenced(m.snap)
    PROVE  LET s == Sync(m)
               v == m.snap.infl.op
           IN /\ s \in Processes /\ Talk(s, m) /\ Store(s, m) /\ s.act = m.act
              /\ s.ops[v] = RestoredDispatch(m.snap.infl, m.gen)
              /\ s.ops[v] \in OpRecord
              /\ \A p \in Ops \ {v} :
                    /\ s.ops[p] \in {None, m.ops[p]}
                    /\ m.ops[p] # None /\ m.ops[p].st = "RetryAvailable" /\ m.ops[p].lin # 0
                       => s.ops[p] = None
<1> DEFINE s == Sync(m)
           d == m.snap.infl
           v == d.op
           op == RestoredDispatch(d, m.gen)
           q == [m EXCEPT !.ops = Kept(m)]
<1>1. d # None /\ d \in Dispatch /\ d.phase \in FencePhases /\ v \in Ops /\ v # None
    BY ProcessParts, SnapshotParts DEF Fenced, Dispatch
<1>2. Visible(m.snap) = v
    BY <1>1 DEF Visible
<1>3. op \in OpRecord
    BY <1>1, ProcessParts, RestoredIs
<1>4. s = [q EXCEPT !.ops[v] = op]
    BY <1>1, <1>2 DEF Sync, Kept, Restored, FencePhases
<1>5. s = [m EXCEPT !.ops = [Kept(m) EXCEPT ![v] = op]]
    BY <1>4 DEF Processes
<1> HIDE DEF op, s, v
<1>7. LET t == [m EXCEPT !.ops = [Kept(m) EXCEPT ![v] = op]]
      IN /\ t \in Processes /\ Talk(t, m) /\ Store(t, m) /\ t.act = m.act
         /\ t.ops[v] = op
         /\ \A p \in Ops \ {v} :
               /\ t.ops[p] \in {None, m.ops[p]}
               /\ p # m.act /\ m.ops[p] # None /\ m.ops[p].st = "RetryAvailable"
                  /\ m.ops[p].lin # 0 => t.ops[p] = None
    BY <1>1, <1>2, <1>3, SyncShows
<1>8. \A p \in Ops : p # m.act
    OBVIOUS
<1> QED BY <1>3, <1>5, <1>7, <1>8 DEF op, s, v

-----------------------------------------------------------------------------
(* Lemmas about durable writes                                                *)

LEMMA FaultsCounted ==
    ASSUME NEW r \in Processes, r.faults # MaxFaults
    PROVE  r.faults + 1 \in 0 .. MaxFaults
<1>1. MaxFaults \in Nat
    BY BoundsAssumption
<1>2. r.faults \in 0 .. MaxFaults
    BY DEF Processes
<1> QED BY <1>1, <1>2

\* A write is durable, or it fails and nothing is known to the process of it.
Wrote(w, r, s) ==
    /\ w.r \in Processes /\ Talk(w.r, r) /\ w.r.ops = r.ops /\ w.r.act = r.act
    /\ w.r.load = r.load
    /\ w.ok => ~r.fail /\ ~w.r.fail /\ w.r.snap = s /\ w.r.disk = s
    /\ ~w.ok => w.r.fail /\ w.r.snap = r.snap /\ w.r.disk \in {r.disk, s}
    /\ w.ok \in BOOLEAN

LEMMA WriteIs ==
    ASSUME NEW r \in Processes, NEW s \in Snapshot, NEW w \in Write(r, s)
    PROVE  Wrote(w, r, s)
<1> USE DEF Wrote
<1>1. CASE r.fail
    <2>1. w = [ok |-> FALSE, r |-> r]
        BY <1>1 DEF Write
    <2> QED BY <1>1, <2>1 DEF Talk
<1>2. CASE ~r.fail /\ w = [ok |-> TRUE, r |-> [r EXCEPT !.snap = s, !.disk = s]]
    BY <1>2 DEF Talk, Processes
<1>3. ASSUME ~r.fail, r.faults # MaxFaults, NEW d \in {r.disk, s},
             w = [ok |-> FALSE, r |-> [Fails(r) EXCEPT !.disk = d]]
      PROVE  /\ w.r \in Processes /\ Talk(w.r, r) /\ w.r.ops = r.ops /\ w.r.act = r.act
             /\ w.r.load = r.load /\ w.r.fail /\ w.r.snap = r.snap /\ w.r.disk = d /\ ~w.ok
    <2>1. r.faults + 1 \in 0 .. MaxFaults
        BY <1>3, FaultsCounted
    <2>2. d \in Snapshot
        BY ProcessParts
    <2>3. ~w.ok /\ w.r = [r EXCEPT !.fail = TRUE, !.faults = r.faults + 1, !.disk = d]
        BY <1>3 DEF Fails, Processes
    <2>4. w.r \in Processes
        BY <2>1, <2>2, <2>3, ZenonT(90) DEF Processes
    <2>5. /\ Talk(w.r, r) /\ w.r.ops = r.ops /\ w.r.act = r.act
          /\ w.r.load = r.load /\ w.r.fail /\ w.r.snap = r.snap /\ w.r.disk = d
        BY <2>3 DEF Talk, Processes
    <2> QED BY <2>3, <2>4, <2>5
<1>4. \/ r.fail
      \/ ~r.fail /\ w = [ok |-> TRUE, r |-> [r EXCEPT !.snap = s, !.disk = s]]
      \/ /\ ~r.fail /\ r.faults # MaxFaults
         /\ \E d \in {r.disk, s} : w = [ok |-> FALSE, r |-> [Fails(r) EXCEPT !.disk = d]]
    BY DEF Write
<1>5. CASE ~r.fail /\ r.faults # MaxFaults
           /\ \E d \in {r.disk, s} : w = [ok |-> FALSE, r |-> [Fails(r) EXCEPT !.disk = d]]
    <2>1. PICK d \in {r.disk, s} : w = [ok |-> FALSE, r |-> [Fails(r) EXCEPT !.disk = d]]
        BY <1>5
    <2>2. /\ w.r \in Processes /\ Talk(w.r, r) /\ w.r.ops = r.ops /\ w.r.act = r.act
          /\ w.r.load = r.load /\ w.r.fail /\ w.r.snap = r.snap /\ w.r.disk = d /\ ~w.ok
        BY <1>3, <1>5, <2>1
    <2> QED BY <2>1, <2>2
<1> QED BY <1>1, <1>2, <1>4, <1>5

\* A retirement may also be durable while the files remain.
Retired(w, r, s) ==
    /\ w.r \in Processes /\ Talk(w.r, r) /\ w.r.ops = r.ops /\ w.r.act = r.act
    /\ w.r.load = r.load
    /\ w.ok => ~r.fail /\ ~w.r.fail /\ w.r.snap = s /\ w.r.disk = s
    /\ ~w.ok => /\ w.r.fail
                /\ \/ w.r.snap = r.snap /\ w.r.disk \in {r.disk, s}
                   \/ /\ ~r.fail /\ w.r.snap = [s EXCEPT !.clean = TRUE]
                      /\ w.r.disk = [s EXCEPT !.clean = TRUE]
    /\ w.ok \in BOOLEAN

LEMMA WriteRetiringIs ==
    ASSUME NEW r \in Processes, NEW s \in Snapshot, NEW w \in WriteRetiring(r, s)
    PROVE  Retired(w, r, s)
<1> USE DEF Retired
<1>1. CASE w \in Write(r, s)
    BY <1>1, WriteIs DEF Wrote
<1>2. CASE w \notin Write(r, s)
    <2> DEFINE pending == [s EXCEPT !.clean = TRUE]
    <2>1. /\ ~r.fail /\ r.faults # MaxFaults
          /\ w = [ok |-> FALSE, r |-> [Fails(r) EXCEPT !.snap = pending, !.disk = pending]]
        BY <1>2 DEF WriteRetiring
    <2>2. pending \in Snapshot
        BY RetirementsStay
    <2>3. r.faults + 1 \in 0 .. MaxFaults
        BY <2>1, FaultsCounted
    <2> HIDE DEF pending
    <2>4. /\ w.r \in Processes /\ Talk(w.r, r) /\ w.r.ops = r.ops /\ w.r.act = r.act
          /\ w.r.load = r.load /\ w.r.fail /\ w.r.snap = pending /\ w.r.disk = pending /\ ~w.ok
        BY <2>1, <2>2, <2>3 DEF Fails, Talk, Processes
    <2> QED BY <2>1, <2>4 DEF pending
<1> QED BY <1>1, <1>2

-----------------------------------------------------------------------------
(* Lemmas about the traffic with the worker                                   *)

LEMMA RestTalk ==
    ASSUME NEW r, NEW q, Rest(r), Talk(q, r)
    PROVE  Rest(q)
<1>1. /\ q.jobs = r.jobs /\ q.evts = r.evts /\ q.gen = r.gen /\ q.conn = r.conn
      /\ q.gate = r.gate /\ q.wk = r.wk /\ q.rec = r.rec
    BY DEF Talk
<1>2. Queues(q) /\ Sessions(q) /\ NoUploads(q) /\ q.gate.gen = q.gen
    BY <1>1 DEF Rest, Queues, Sessions, NoUploads
<1>3. \A o \in Ops : Free(q, o, q.gen) \/ (q.rec /\ Spent(q))
    BY <1>1 DEF Rest, Free, Spent
<1> QED BY <1>2, <1>3 DEF Rest

\* With nothing in the foreground the traffic is that of a process at rest.
LEMMA RestTraffic ==
    ASSUME NEW r, r.act = None
    PROVE  /\ Rest(r) => Traffic(r) /\ Calm(r) /\ r.gate.gen = r.gen
           /\ Traffic(r) /\ r.gate.gen = r.gen => Rest(r)
<1>1. ASSUME Rest(r) PROVE Traffic(r) /\ Calm(r) /\ r.gate.gen = r.gen
    BY <1>1 DEF Rest, Traffic, Strays, Question, Transfers, Calm, NoUploads
<1>2. ASSUME Traffic(r), r.gate.gen = r.gen PROVE Rest(r)
    <2>1. NoUploads(r)
        BY <1>2 DEF Traffic, Transfers, Queues, NoUploads
    <2> QED BY <1>2, <2>1 DEF Rest, Traffic, Strays
<1> QED BY <1>1, <1>2

\* So it is once the operation in the foreground has its answer.
LEMMA AnsweredRest ==
    ASSUME NEW r, Good(r), r.act # None, Free(r, r.act, r.ops[r.act].gen)
    PROVE  Rest(r) /\ Free(r, r.act, r.gen)
<1>1. Free(r, r.act, r.gen)
    BY DEF Good, Traffic, Question
<1>2. NoUploads(r)
    BY DEF Good, Traffic, Transfers, Free, Asks, NoUploads
<1> QED BY <1>1, <1>2 DEF Good, Traffic, Strays, Rest

\* A look at the file list transfers nothing.
LEMMA RecoveringRest ==
    ASSUME NEW r, Good(r), r.act # None, r.ops[r.act].st = "Recovering",
           Free(r, r.act, r.gen) \/ (r.rec /\ Spent(r))
    PROVE  Rest(r)
<1>1. NoUploads(r)
    BY DEF Good, Traffic, Transfers, NoUploads
<1> QED BY <1>1 DEF Good, Traffic, Strays, Rest

-----------------------------------------------------------------------------
(* Lemmas about the operations that stand still                               *)

\* An operation that waits is the one that is shown.
LEMMA OneWaits ==
    ASSUME NEW r, Good(r), r.act # None
    PROVE  \A p \in Ops \ {r.act} : Over(r, p)
<1> SUFFICES ASSUME NEW p \in Ops \ {r.act}, ~Over(r, p)
             PROVE  FALSE
    OBVIOUS
<1> DEFINE o == r.act
<1>1. o \in Ops /\ Foreground(r) /\ Waiting(r) /\ r.ops[o] # None
    BY ProcessParts DEF Good, Surface, Foreground
<1>2. Awaited(r.snap, p)
    BY DEF Good, Surface, Waiting, Over, Waits
<1>3. CASE r.ops[o].st = "Recovering"
    BY <1>1, <1>2, <1>3 DEF Waiting, Waits, Resolved, Awaited, Fenced
<1>4. CASE Starting(r, r.ops[o])
    <2>1. r.ops[o].st # "Recovering"
        BY <1>4 DEF Starting
    <2> QED BY <1>1, <1>2, <1>4, <2>1 DEF Starting, Foreground, Awaited, Fenced
<1>5. CASE Sending(r, r.ops[o])
    BY <1>2, <1>5 DEF Sending, Awaited, Fenced, FencePhases
<1> QED BY <1>1, <1>3, <1>4, <1>5 DEF Foreground

\* The operation in the foreground, answered, can be ended.
LEMMA AnsweredHeld ==
    ASSUME NEW r, Good(r), r.act # None, Rest(r)
    PROVE  Held(r, r.act)
<1> DEFINE o == r.act
<1>1. /\ r \in Processes /\ o \in Ops /\ r.ops[o] # None /\ r.load = "yes"
    BY ProcessParts DEF Good, Surface, Foreground, Loading
<1>2. r.ops[o].st \notin Terminal
    BY DEF Good, Surface, Foreground, Starting, Sending, Terminal
<1>3. \A p \in Ops \ {o} : Over(r, p)
    BY OneWaits
<1>4. Offers(r) /\ Durable(r)
    BY <1>1 DEF Good, Surface, Records, Durable
<1> QED BY <1>1, <1>2, <1>3, <1>4 DEF Held

\* What is at rest, tidy on disk and neat is good.
LEMMA NeatGood ==
    ASSUME NEW q \in Processes, q.act = None, q.load = "yes", Rest(q), Durable(q),
           q.snap.infl = None, \A p \in Ops : Neat(q, p)
    PROVE  Good(q)
<1>1. Foreground(q) /\ Loading(q) /\ Records(q)
    BY DEF Foreground, Loading, Records, Durable
<1>2. Waiting(q)
    BY DEF Waiting, Neat, Stands, Waits, Awaited, Ended, Terminal
<1>3. Offers(q)
    BY DEF Offers, Neat, Stands, Ended
<1>4. Shown(q)
    <2> SUFFICES ASSUME ~q.fail
                 PROVE  /\ q.snap.cand # None => Stands(q.ops[q.snap.cand.op], q.snap.cand)
                        /\ ~Fenced(q.snap)
        BY DEF Shown, StartupGate, Stands
    <2>2. q.snap.cand # None => q.snap.cand.op \in Ops
        BY ProcessParts, SnapshotParts DEF Candidate
    <2> QED BY <2>2 DEF Neat, Fenced
<1> QED BY <1>1, <1>2, <1>3, <1>4, RestTraffic DEF Good, Surface

\* A store that failed: the operation ends, the others stay as they are.
LEMMA FailedGood ==
    ASSUME NEW r, NEW o, Held(r, o), NEW b \in Processes, Talk(b, r), b.ops = r.ops,
           b.act = r.act, b.load = "yes", b.fail, Durable(b),
           \/ b.snap = r.snap
           \/ ~r.fail /\ b.snap.clean /\ b.snap.infl = None /\ b.snap.cand \in {r.snap.cand, None},
           NEW st \in Terminal, NEW mode \in Modes,
           st = "RetryAvailable" => r.ops[o].retry /\ Known(r.ops[o])
    PROVE  Good(Finish(b, o, st, mode))
<1> DEFINE q == Finish(b, o, st, mode)
<1>1. /\ o \in Ops /\ b.ops[o] # None /\ b.ops[o].st \notin Terminal /\ st \in OpStates
      /\ b.act \in {None, o}
    BY DEF Held, OpStates
<1>0. /\ q \in Processes /\ Talk(q, b) /\ Store(q, b) /\ q.act = None
      /\ q.ops[o] \in OpRecord /\ q.ops[o].st = st
      /\ IsOf(q.ops[o], b.ops[o]) /\ q.ops[o].retry = b.ops[o].retry
      /\ \A p \in Ops \ {o} : q.ops[p] = b.ops[p]
    BY <1>1, FinishIs
<1> HIDE DEF q
<1>2. /\ q \in Processes /\ Talk(q, b) /\ Store(q, b)
      /\ q.ops[o] # None /\ q.ops[o].st = st /\ q.ops[o].retry = r.ops[o].retry
      /\ Known(r.ops[o]) => Known(q.ops[o])
      /\ \A p \in Ops \ {o} : q.ops[p] = r.ops[p]
      /\ q.act = None
    BY <1>0 DEF IsOf, Known
<1>3. Rest(q)
    <2>1. Rest(b)
        BY RestTalk DEF Held
    <2> QED BY <1>2, <2>1, RestTalk
<1>4. /\ q.fail /\ q.load = "yes" /\ q.snap = b.snap /\ q.disk = b.disk
    BY <1>2 DEF Store
<1>5. Foreground(q) /\ Loading(q) /\ Shown(q)
    BY <1>2, <1>4 DEF Foreground, Loading, Shown, StartupGate
<1>6. Records(q)
    BY <1>4 DEF Records, Durable
<1>7. Waiting(q)
    BY <1>2 DEF Waiting, Held, Over, Terminal
<1>8. Offers(q)
    <2> SUFFICES ASSUME NEW p \in Ops, q.ops[p] # None, q.ops[p].st = "RetryAvailable"
                 PROVE  /\ Known(q.ops[p])
                        /\ \/ q.snap.cand # None /\ q.snap.cand.op = p
                           \/ q.ops[p].retry /\ (q.fail \/ q.snap.cand = None)
                           \/ q.fail /\ q.snap.clean /\ q.snap.cand = None
        BY DEF Offers
    <2>1. CASE p = o
        BY <1>2, <1>4, <2>1
    <2>2. CASE p # o
        <3>1. /\ Known(q.ops[p])
              /\ \/ r.snap.cand # None /\ r.snap.cand.op = p
                 \/ q.ops[p].retry /\ (r.fail \/ r.snap.cand = None)
                 \/ r.fail /\ r.snap.clean /\ r.snap.cand = None
            BY <1>2, <2>2 DEF Held, Offers
        <3> QED BY <1>4, <3>1
    <2> QED BY <2>1, <2>2
<1> QED BY <1>2, <1>3, <1>5, <1>6, <1>7, <1>8, RestTraffic DEF Good, Surface, q

\* What was started but never armed, or resolved by a replug: it ends.
LEMMA EndedGood ==
    ASSUME NEW r, Good(r), r.act # None, r.snap.infl = None,
           r.ops[r.act].st = "Recovering" => Resolved(r, r.act, r.ops[r.act]),
           NEW q \in Processes, Store(q, r), Rest(q), q.act = None, q.ops[r.act] # None,
           \/ q.ops[r.act].st \in Dropped
           \/ /\ r.snap.cand = None /\ q.ops[r.act].st = "RetryAvailable"
              /\ q.ops[r.act].retry /\ Known(q.ops[r.act]),
           \A p \in Ops \ {r.act} : q.ops[p] = r.ops[p]
    PROVE  Good(q)
<1> DEFINE o == r.act
<1>1. /\ r \in Processes /\ o \in Ops /\ r.load = "yes" /\ r.snap.infl = None
    BY ProcessParts DEF Good, Surface, Loading
<1>2. q.snap = r.snap /\ q.disk = r.disk /\ q.load = r.load /\ q.fail = r.fail
    BY DEF Store
<1>3. Foreground(q) /\ Loading(q)
    BY <1>1, <1>2 DEF Foreground, Loading
<1>4. Records(q)
    BY <1>1, <1>2 DEF Good, Surface, Records
<1>5. Waiting(q)
    <2> SUFFICES ASSUME NEW p \in Ops, q.ops[p] # None
                 PROVE  /\ q.ops[p].st \in Terminal \cup {"Recovering"}
                        /\ q.ops[p].st = "Recovering" => Waits(q.snap, p, q.ops[p])
        BY DEF Waiting
    <2>1. CASE p = o
        BY <2>1 DEF Dropped, Terminal
    <2>2. CASE p # o
        BY <1>2, <2>2 DEF Good, Surface, Waiting
    <2> QED BY <2>1, <2>2
<1>6. Offers(q)
    BY <1>2 DEF Good, Surface, Offers, Dropped
<1>7. Shown(q)
    <2> SUFFICES ASSUME ~StartupGate(r), r.snap.cand # None
                 PROVE  LET op == q.ops[r.snap.cand.op]
                        IN /\ op # None
                           /\ \/ op.st = IF FinalizationOnly(r.snap.cand) THEN "Recovering"
                                         ELSE "RetryAvailable"
                              \/ LookedTooLate(q, r.snap.cand)
        BY <1>1, <1>2 DEF Shown, StartupGate, Fenced
    <2> DEFINE c == r.snap.cand
    <2>1. /\ c.op \in Ops /\ r.ops[c.op] # None
          /\ \/ r.ops[c.op].st = IF FinalizationOnly(c) THEN "Recovering" ELSE "RetryAvailable"
             \/ LookedTooLate(r, c)
        BY <1>1, ProcessParts, SnapshotParts DEF Good, Surface, Shown, Candidate
    <2>2. CASE c.op = o
        <3>1. Resolved(r, o, r.ops[o]) /\ r.ops[o].st = "Recovering"
            BY <2>2 DEF Good, Surface, Foreground
        <3>2. LookedTooLate(r, c)
            BY <2>1, <2>2, <3>1 DEF Resolved
        <3>3. q.ops[o].st \in {"Failed", "Cancelled"}
            BY DEF Dropped
        <3> QED BY <2>2, <3>2, <3>3 DEF LookedTooLate
    <2>3. CASE c.op # o
        BY <2>1, <2>3 DEF LookedTooLate
    <2> QED BY <2>2, <2>3
<1> QED BY <1>3, <1>4, <1>5, <1>6, <1>7, RestTraffic DEF Good, Surface

\* What waits for the verification of its record is paused.
LEMMA PausedGood ==
    ASSUME NEW r, NEW o, Held(r, o), Waits(r.snap, o, r.ops[o]),
           ~r.fail /\ r.snap.infl # None => r.snap.infl.phase = "ShadowMissingFence",
           NEW q \in Processes, Store(q, r), Rest(q), q.act = None, q.ops[o] # None,
           q.ops[o].st = "Recovering", IsOf(q.ops[o], r.ops[o]),
           \A p \in Ops \ {o} : q.ops[p] = r.ops[p]
    PROVE  Good(q)
<1>1. q.snap = r.snap /\ q.disk = r.disk /\ q.load = r.load /\ q.fail = r.fail /\ r.load = "yes"
    BY DEF Store, Held
<1>2. Foreground(q) /\ Loading(q)
    BY <1>1 DEF Foreground, Loading
<1>3. Records(q)
    BY <1>1 DEF Held, Durable, Records
<1>4. Waiting(q)
    <2>1. Waits(q.snap, o, q.ops[o])
        BY <1>1 DEF Waits, IsOf
    <2> QED BY <2>1 DEF Waiting, Held, Over, Terminal
<1>5. Offers(q)
    BY <1>1 DEF Offers, Held
<1>6. Shown(q)
    BY <1>1 DEF Shown, Waits, Awaited, Fenced
<1> QED BY <1>2, <1>3, <1>4, <1>5, <1>6, RestTraffic DEF Good, Surface

-----------------------------------------------------------------------------
(* Lemmas about the demand for a reconnect                                    *)

LEMMA RecoveryIs ==
    ASSUME NEW r \in Processes
    PROVE  LET q == RequireRecovery(r)
           IN /\ q \in Processes /\ Store(q, r) /\ q.ops = r.ops /\ q.act = r.act
              /\ q.jobs = r.jobs /\ q.evts = r.evts /\ q.conn = r.conn /\ q.wk = "Cleared"
              /\ q.rec /\ q.gate.gen = q.gen /\ q.gen = IF r.rec THEN r.gen ELSE r.gen + 1
              /\ q.gen \in Nat /\ q.gen >= r.gen
<1> DEFINE g == IF r.rec THEN r.gen ELSE r.gen + 1
           gone == IF r.rec THEN r.rrem ELSE r.conn = None
           q == [r EXCEPT !.rec = TRUE, !.rrem = gone,
                          !.slost = TRUE, !.lrem = FALSE, !.sact = FALSE,
                          !.gen = g, !.gate = [gen |-> g, open |-> FALSE],
                          !.wk = "Cleared"]
<1>1. g \in Nat /\ g >= r.gen
    BY DEF Processes
<1>0. gone \in BOOLEAN
    BY DEF Processes
<1>2. RequireRecovery(r) = q
    BY DEF RequireRecovery, Processes
<1> HIDE DEF g, gone
<1>3. /\ q \in Processes /\ q.ops = r.ops /\ q.act = r.act /\ q.snap = r.snap /\ q.disk = r.disk
      /\ q.load = r.load /\ q.fail = r.fail
      /\ q.jobs = r.jobs /\ q.evts = r.evts /\ q.conn = r.conn /\ q.wk = "Cleared"
      /\ q.rec /\ q.gate.gen = g /\ q.gen = g
    BY <1>0, <1>1, ZenonT(90) DEF Processes
<1> QED BY <1>1, <1>2, <1>3 DEF g, Store

\* Where the generation changes nothing that was asked is of it.
LEMMA NothingNewer ==
    ASSUME NEW r \in Processes, Queues(r), NEW g \in Nat, g > r.gen
    PROVE  /\ \A i \in DOMAIN r.jobs : r.jobs[i].gen # g /\ r.jobs[i].gen <= g
           /\ \A i \in DOMAIN r.evts : r.evts[i].gen # g /\ r.evts[i].gen <= g
           /\ \A o : Free(r, o, g)
           /\ \A i \in DOMAIN r.evts : \A kind : ~Says(r.evts[i], kind, g)
<1>1. \A i \in DOMAIN r.jobs : r.jobs[i].gen \in Nat
    <2>1. r.jobs \in Seq(Jobs)
        BY ProcessParts
    <2>2. \A i \in DOMAIN r.jobs : r.jobs[i] \in Jobs
        BY <2>1
    <2> QED BY <2>2 DEF Jobs
<1>2. \A i \in DOMAIN r.evts : r.evts[i].gen \in Nat
    <2>1. r.evts \in Seq(Events)
        BY ProcessParts
    <2>2. \A i \in DOMAIN r.evts : r.evts[i] \in Events
        BY <2>1
    <2> QED BY <2>2 DEF Events
<1>3. r.gen \in Nat
    BY ProcessParts
<1>4. \A i \in DOMAIN r.jobs : r.jobs[i].gen # g /\ r.jobs[i].gen <= g
    BY <1>1, <1>3 DEF Queues
<1>5. \A i \in DOMAIN r.evts : r.evts[i].gen # g /\ r.evts[i].gen <= g
    BY <1>2, <1>3 DEF Queues
<1> QED BY <1>4, <1>5 DEF Free, Asks, Tells, Says

\* The worker is told to stop: nothing of its generation is waited for.
LEMMA RecoveryRest ==
    ASSUME NEW r \in Processes, Queues(r), Sessions(r), NoUploads(r),
           r.rec => \A o \in Ops : Free(r, o, r.gen) \/ Spent(r)
    PROVE  Rest(RequireRecovery(r))
<1> DEFINE q == RequireRecovery(r)
<1>1. /\ q \in Processes /\ q.jobs = r.jobs /\ q.evts = r.evts /\ q.conn = r.conn
      /\ q.wk = "Cleared" /\ q.rec /\ q.gate.gen = q.gen /\ q.gen \in Nat
      /\ q.gen = IF r.rec THEN r.gen ELSE r.gen + 1
    BY RecoveryIs
<1> HIDE DEF q
<1>2. NoUploads(q)
    BY <1>1 DEF NoUploads
<1>3. CASE r.rec
    <2>1. Queues(q) /\ Sessions(q)
        BY <1>1, <1>3 DEF Queues, Sessions
    <2>2. \A o \in Ops : Free(q, o, q.gen) \/ Spent(q)
        BY <1>1, <1>3 DEF Free, Spent
    <2> QED BY <1>1, <1>2, <2>1, <2>2 DEF Rest, q
<1>4. CASE ~r.rec
    <2>1. q.gen = r.gen + 1 /\ r.gen \in Nat
        BY <1>1, <1>4, ProcessParts
    <2>2. q.gen > r.gen
        BY <2>1
    <2>3. /\ \A i \in DOMAIN r.jobs : r.jobs[i].gen # q.gen /\ r.jobs[i].gen <= q.gen
          /\ \A i \in DOMAIN r.evts : r.evts[i].gen # q.gen /\ r.evts[i].gen <= q.gen
          /\ \A o : Free(r, o, q.gen)
          /\ \A i \in DOMAIN r.evts : \A kind : ~Says(r.evts[i], kind, q.gen)
        BY <1>1, <2>2, NothingNewer
    <2>4. Queues(q) /\ Sessions(q)
        BY <1>1, <2>3 DEF Queues, Sessions
    <2>5. \A o \in Ops : Free(q, o, q.gen)
        BY <1>1, <2>3 DEF Free
    <2> QED BY <1>1, <1>2, <2>4, <2>5 DEF Rest, q
<1> QED BY <1>3, <1>4

LEMMA RecoveryGood ==
    ASSUME NEW r, Good(r), r.act = None, r.load = "yes"
    PROVE  Good(RequireRecovery(r))
<1> DEFINE q == RequireRecovery(r)
<1>1. /\ q \in Processes /\ Store(q, r) /\ q.ops = r.ops /\ q.act = r.act
    BY RecoveryIs DEF Good
<1>2. Rest(r)
    BY RestTraffic DEF Good
<1>3. Rest(q)
    BY <1>2, RecoveryRest DEF Rest, Good
<1> HIDE DEF q
<1>4. q.snap = r.snap /\ q.disk = r.disk /\ q.load = r.load /\ q.fail = r.fail
    BY <1>1 DEF Store
<1>5. Foreground(q) /\ Waiting(q) /\ Loading(q)
    BY <1>1, <1>4 DEF Good, Surface, Foreground, Waiting, Loading
<1>6. Records(q) /\ Offers(q)
    BY <1>1, <1>4 DEF Good, Surface, Records, Offers
<1>7. Shown(q)
    BY <1>1, <1>4 DEF Good, Surface, Shown, StartupGate, LookedTooLate
<1> QED BY <1>1, <1>3, <1>5, <1>6, <1>7, RestTraffic DEF Good, Surface, q

-----------------------------------------------------------------------------
(* Lemmas about the queues                                                    *)

LEMMA AppendIs ==
    ASSUME NEW S, NEW s \in Seq(S), NEW e \in S
    PROVE  /\ Append(s, e) \in Seq(S) /\ Len(s) \in Nat
           /\ DOMAIN s = 1 .. Len(s) /\ DOMAIN Append(s, e) = 1 .. Len(s) + 1
           /\ \A i \in DOMAIN s : Append(s, e)[i] = s[i]
           /\ Append(s, e)[Len(s) + 1] = e
BY AppendProperties

LEMMA TailIs ==
    ASSUME NEW S, NEW s \in Seq(S), s # <<>>
    PROVE  /\ Tail(s) \in Seq(S) /\ Head(s) \in S /\ Head(s) = s[1]
           /\ Len(s) \in Nat /\ Len(s) > 0
           /\ DOMAIN s = 1 .. Len(s) /\ DOMAIN Tail(s) = 1 .. Len(s) - 1
           /\ \A i \in DOMAIN Tail(s) : i + 1 \in DOMAIN s /\ Tail(s)[i] = s[i + 1]
BY HeadTailProperties

LEMMA QueuedIs ==
    ASSUME NEW r \in Processes
    PROVE  /\ \A i \in DOMAIN r.jobs : r.jobs[i] \in Jobs /\ r.jobs[i].gen \in Nat
           /\ \A i \in DOMAIN r.evts : r.evts[i] \in Events /\ r.evts[i].gen \in Nat
<1>1. r.jobs \in Seq(Jobs) /\ r.evts \in Seq(Events)
    BY ProcessParts
<1>2. \A i \in DOMAIN r.jobs : r.jobs[i] \in Jobs
    BY <1>1
<1>3. \A i \in DOMAIN r.evts : r.evts[i] \in Events
    BY <1>1
<1> QED BY <1>2, <1>3 DEF Jobs, Events

\* The one question of the operation that is now in the foreground.
LEMMA AskedTraffic ==
    ASSUME NEW r \in Processes, Rest(r), NEW o \in Ops, Free(r, o, r.gen),
           NEW j \in Jobs, Asks(j, o, r.gen),
           NEW x \in Processes, x.jobs = Append(r.jobs, j), x.evts = r.evts, x.gen = r.gen,
           x.conn = r.conn, x.wk = r.wk, x.rec = r.rec, x.act = o,
           x.ops[o].gen = r.gen, x.ops[o].st # "Converting",
           j.kind = "upload" => x.ops[o].st = "Uploading" /\ j.name = x.ops[o].name,
           x.ops[o].st = "Recovering" => x.ops[o].pre /\ ~x.ops[o].chg
    PROVE  Traffic(x) /\ Calm(x)
<1> DEFINE n == Len(r.jobs) + 1
<1>1. r.jobs \in Seq(Jobs) /\ r.gen \in Nat
    BY ProcessParts
<1>2. /\ n \in Nat /\ DOMAIN r.jobs = 1 .. n - 1 /\ DOMAIN x.jobs = 1 .. n
      /\ \A i \in DOMAIN r.jobs : x.jobs[i] = r.jobs[i]
      /\ x.jobs[n] = j
    BY <1>1, AppendIs
<1> HIDE DEF n
<1>3. \A i \in DOMAIN x.jobs : (i \in DOMAIN r.jobs /\ i # n) \/ i = n
    BY <1>2
<1>4. Queues(x)
    BY <1>1, <1>2, <1>3 DEF Rest, Queues, Asks
<1>5. Sessions(x)
    BY DEF Rest, Sessions
<1>6. \A p \in Ops : p # o /\ Free(r, p, r.gen) => Free(x, p, x.gen)
    BY <1>2, <1>3 DEF Free, Asks
<1>7. Strays(x)
    BY <1>6 DEF Rest, Strays, Spent
<1>8. Sole(x, o, x.gen)
    BY <1>2, <1>3 DEF Free, Sole
<1>9. Question(x)
    BY <1>1, <1>8 DEF Question
<1>10. Transfers(x)
    BY <1>2, <1>3 DEF Rest, NoUploads, Transfers, Asks
<1>11. Calm(x)
    BY DEF Calm
<1> QED BY <1>4, <1>5, <1>7, <1>9, <1>10, <1>11 DEF Traffic

-----------------------------------------------------------------------------
(* Lemmas about the operations after their records changed                    *)

LEMMA SetIs ==
    ASSUME NEW r \in Processes, NEW o \in Ops, NEW op \in OpRecord
    PROVE  LET q == [r EXCEPT !.ops[o] = op]
           IN /\ q \in Processes /\ Talk(q, r) /\ Store(q, r) /\ q.act = r.act
              /\ q.ops[o] = op /\ \A p \in Ops \ {o} : q.ops[p] = r.ops[p]
<1> DEFINE q == [r EXCEPT !.ops[o] = op]
           ops == [r.ops EXCEPT ![o] = op]
<1>1. r.ops \in [Ops -> OpRecord \cup {None}]
    BY DEF Processes
<1>2. ops \in [Ops -> OpRecord \cup {None}] /\ ops[o] = op /\ \A p \in Ops \ {o} : ops[p] = r.ops[p]
    BY <1>1
<1> HIDE DEF ops
<1>3. q = [r EXCEPT !.ops = ops]
    BY DEF ops, Processes
<1>4. q \in Processes /\ Talk(q, r) /\ Store(q, r) /\ q.act = r.act /\ q.ops = ops
    BY <1>2, <1>3 DEF Processes, Talk, Store
<1> QED BY <1>2, <1>4

LEMMA SendIs ==
    ASSUME NEW r \in Processes, NEW j \in Jobs
    PROVE  LET q == Send(r, j)
           IN /\ q \in Processes /\ Store(q, r) /\ q.ops = r.ops /\ q.act = r.act
              /\ q.jobs = Append(r.jobs, j) /\ q.evts = r.evts /\ q.gen = r.gen
              /\ q.conn = r.conn /\ q.wk = r.wk /\ q.rec = r.rec /\ q.gate = r.gate
<1> DEFINE jobs == Append(r.jobs, j)
<1>1. jobs \in Seq(Jobs)
    BY ProcessParts, AppendIs
<1>2. Send(r, j) = [r EXCEPT !.jobs = jobs]
    BY DEF Send, Processes
<1> HIDE DEF jobs
<1> QED BY <1>1, <1>2, ZenonT(90) DEF Processes, Store, jobs

\* Another answer or flag of operation o leaves it where it is.
LEMMA HeldStays ==
    ASSUME NEW r, NEW o, Held(r, o), NEW q \in Processes, Talk(q, r), Store(q, r), q.act = r.act,
           q.ops[o] # None, q.ops[o].st \notin Terminal,
           \A p \in Ops \ {o} : q.ops[p] = r.ops[p]
    PROVE  Held(q, o)
<1>1. q.snap = r.snap /\ q.disk = r.disk /\ q.load = r.load /\ q.fail = r.fail
    BY DEF Store
<1>2. Rest(q)
    BY RestTalk DEF Held
<1>3. Offers(q) /\ Durable(q)
    BY <1>1 DEF Held, Offers, Durable, Terminal
<1> QED BY <1>1, <1>2, <1>3 DEF Held, Over

\* What is shown once nothing is recorded as in flight.
LEMMA SyncNeat ==
    ASSUME NEW m \in Processes, NEW o \in Ops, m.act \in {None, o}, m.snap.infl = None,
           \A p \in Ops \ {o} : Over(m, p),
           \A p \in Ops : m.ops[p] # None /\ m.ops[p].st = "RetryAvailable" => Known(m.ops[p])
    PROVE  LET s == Sync(m)
               c == m.snap.cand
           IN /\ s \in Processes /\ Talk(s, m) /\ Store(s, m) /\ s.act = m.act
              /\ \A p \in Ops \ {o} : Neat(s, p)
              /\ ~(c # None /\ c.op = o) =>
                    s.ops[o] \in {None, m.ops[o]} /\ (m.act = o => s.ops[o] = m.ops[o])
              /\ c # None /\ c.op = o =>
                    IF m.act = o /\ m.ops[o] # None /\ m.ops[o].lin = c.lin /\ m.ops[o].disp = c.disp
                    THEN s.ops[o] = [m.ops[o] EXCEPT !.recov = c.recov, !.fresh = c.fresh,
                                                     !.finp = FinalizationOnly(c)]
                    ELSE s.ops[o] = RestoredCandidate(c, m.gen) /\ Stands(s.ops[o], c)
<1> DEFINE s == Sync(m)
           c == m.snap.cand
<1>1. /\ s \in Processes /\ Talk(s, m) /\ Store(s, m) /\ s.act = m.act
      /\ \A p \in Ops : ~(c # None /\ p = c.op) =>
            /\ s.ops[p] \in {None, m.ops[p]}
            /\ p = m.act => s.ops[p] = m.ops[p]
            /\ p # m.act /\ m.ops[p] # None /\ m.ops[p].st = "RetryAvailable"
               /\ m.ops[p].lin # 0 => s.ops[p] = None
      /\ c # None =>
            /\ s.ops[c.op] \in OpRecord
            /\ IF /\ m.ops[c.op] # None /\ m.act = c.op
                  /\ m.ops[c.op].lin = c.lin /\ m.ops[c.op].disp = c.disp
               THEN s.ops[c.op] = [m.ops[c.op] EXCEPT !.recov = c.recov, !.fresh = c.fresh,
                                                      !.finp = FinalizationOnly(c)]
               ELSE s.ops[c.op] = RestoredCandidate(c, m.gen)
    BY SyncIs
<1>2. s.snap = m.snap /\ m.gen \in Nat /\ (c # None => c \in Candidate /\ c.op \in Ops)
    BY <1>1, ProcessParts, SnapshotParts DEF Store, Candidate
<1>3. c # None => Stands(RestoredCandidate(c, m.gen), c)
    BY <1>2, RestoredIs
<1> HIDE DEF s
<1>4. \A p \in Ops \ {o} : Neat(s, p)
    <2> SUFFICES ASSUME NEW p \in Ops \ {o} PROVE Neat(s, p)
        OBVIOUS
    <2>1. CASE c # None /\ c.op = p
        BY <1>1, <1>2, <1>3, <2>1 DEF Neat
    <2>2. CASE ~(c # None /\ c.op = p)
        BY <1>1, <1>2, <2>2 DEF Neat, Over, Terminal, Ended, Known
    <2> QED BY <2>1, <2>2
<1> QED BY <1>1, <1>3, <1>4, ZenonT(90) DEF s

\* What was shown and is ended is good.
LEMMA SettledGood ==
    ASSUME NEW s \in Processes, NEW o \in Ops, s.load = "yes", Durable(s), s.snap.infl = None,
           \A p \in Ops \ {o} : Neat(s, p),
           NEW q \in Processes, Store(q, s), Rest(q), q.act = None,
           \A p \in Ops \ {o} : q.ops[p] = s.ops[p], Neat(q, o)
    PROVE  Good(q)
<1>1. q.snap = s.snap /\ q.disk = s.disk /\ q.load = s.load /\ q.fail = s.fail
    BY DEF Store
<1>2. \A p \in Ops \ {o} : Neat(q, p)
    BY <1>1 DEF Neat
<1>3. Durable(q)
    BY <1>1 DEF Durable
<1> QED BY <1>1, <1>2, <1>3, NeatGood

\* The operation that a record shows waits for its verification.
LEMMA VisibleWaits ==
    ASSUME NEW r, Good(r), ~StartupGate(r), NEW o \in Ops, Awaited(r.snap, o),
           r.act \in {None, o}
    PROVE  /\ r.ops[o] # None /\ r.ops[o] \in OpRecord /\ r.ops[o].st = "Recovering"
           /\ Waits(r.snap, o, r.ops[o]) /\ \A p \in Ops \ {o} : Over(r, p)
<1>1. r \in Processes /\ Shown(r) /\ Waiting(r) /\ Foreground(r) /\ Records(r)
    BY DEF Good, Surface
<1>2. r.ops[o] # None /\ r.ops[o].st = "Recovering"
    <2>1. CASE Fenced(r.snap) /\ r.snap.infl.op = o
        BY <1>1, <2>1 DEF Shown
    <2>2. CASE r.snap.infl = None /\ r.snap.cand # None /\ FinalizationOnly(r.snap.cand)
               /\ r.snap.cand.op = o
        BY <1>1, <2>2 DEF Shown, LookedTooLate, FinalizationOnly
    <2> QED BY <2>1, <2>2 DEF Awaited
<1>3. Waits(r.snap, o, r.ops[o])
    BY <1>1, <1>2 DEF Waiting, Resolved, Awaited, Fenced
<1>4. \A p \in Ops \ {o} : Over(r, p)
    BY <1>1 DEF Waiting, Over, Waits, Awaited, Fenced
<1>5. r.ops[o] \in OpRecord
    BY <1>1, <1>2, ProcessParts
<1> QED BY <1>2, <1>3, <1>4, <1>5

-----------------------------------------------------------------------------
(* Lemmas about the ways a write of the foreground operation goes             *)

\* The record of operation o was written and nothing is in flight any more.
Settling(m, o) ==
    /\ m \in Processes /\ o \in Ops /\ m.act \in {None, o} /\ m.load = "yes"
    /\ m.ops[o] # None /\ m.ops[o] \in OpRecord
    /\ \A p \in Ops \ {o} : Over(m, p)
    /\ \A p \in Ops : m.ops[p] # None /\ m.ops[p].st = "RetryAvailable" => Known(m.ops[p])
    /\ Rest(m) /\ Durable(m) /\ m.snap.infl = None

LEMMA WrittenSettling ==
    ASSUME NEW r, NEW o, Held(r, o), NEW s \in Snapshot, s.infl = None, s.clean => r.snap.clean,
           NEW w \in WriteRetiring(r, s), w.ok
    PROVE  /\ Settling(w.r, o) /\ w.r.snap = s /\ w.r.ops = r.ops /\ w.r.act = r.act
           /\ ~w.r.fail /\ ~r.fail /\ Talk(w.r, r)
<1>1. /\ w.r \in Processes /\ Talk(w.r, r) /\ w.r.ops = r.ops /\ w.r.act = r.act
      /\ w.r.load = r.load /\ ~r.fail /\ ~w.r.fail /\ w.r.snap = s /\ w.r.disk = s
    <2>1. Retired(w, r, s)
        BY WriteRetiringIs DEF Held
    <2> QED BY <2>1 DEF Retired
<1>2. Rest(w.r)
    BY <1>1, RestTalk DEF Held
<1>3. Durable(w.r)
    BY <1>1 DEF Held, Durable, Apart, Fenced
<1>4. w.r.ops[o] \in OpRecord
    BY <1>1, ProcessParts DEF Held
<1> QED BY <1>1, <1>2, <1>3, <1>4 DEF Settling, Held, Offers, Over

LEMMA UnsavedGood ==
    ASSUME NEW r, NEW o, Held(r, o), NEW s \in Snapshot, Apart(s), Fenced(s) => AllowShadowLoss,
           NEW w \in Write(r, s), ~w.ok, NEW st \in Terminal, NEW mode \in Modes,
           st = "RetryAvailable" => r.ops[o].retry /\ Known(r.ops[o])
    PROVE  Good(Finish(w.r, o, st, mode))
<1>1. /\ w.r \in Processes /\ Talk(w.r, r) /\ w.r.ops = r.ops /\ w.r.act = r.act
      /\ w.r.load = r.load /\ w.r.fail /\ w.r.snap = r.snap /\ w.r.disk \in {r.disk, s}
    <2>1. Wrote(w, r, s)
        BY WriteIs DEF Held
    <2> QED BY <2>1 DEF Wrote
<1>2. Durable(w.r)
    BY <1>1 DEF Held, Durable
<1> QED BY <1>1, <1>2, FailedGood DEF Held

LEMMA UnretiredGood ==
    ASSUME NEW r, NEW o, Held(r, o), NEW s \in Snapshot, s.infl = None,
           s.cand \in {r.snap.cand, None},
           NEW w \in WriteRetiring(r, s), ~w.ok, NEW st \in Terminal, NEW mode \in Modes,
           st = "RetryAvailable" => r.ops[o].retry /\ Known(r.ops[o])
    PROVE  Good(Finish(w.r, o, st, mode))
<1> DEFINE pending == [s EXCEPT !.clean = TRUE]
<1>1. /\ w.r \in Processes /\ Talk(w.r, r) /\ w.r.ops = r.ops /\ w.r.act = r.act
      /\ w.r.load = r.load /\ w.r.fail
      /\ \/ w.r.snap = r.snap /\ w.r.disk \in {r.disk, s}
         \/ ~r.fail /\ w.r.snap = pending /\ w.r.disk = pending
    <2>1. Retired(w, r, s)
        BY WriteRetiringIs DEF Held
    <2> QED BY <2>1 DEF Retired
<1>2. pending.infl = None /\ pending.cand = s.cand /\ pending.clean
    BY SnapshotParts
<1> HIDE DEF pending
<1>3. CASE w.r.snap = r.snap /\ w.r.disk \in {r.disk, s}
    <2>1. Durable(w.r)
        <3>1. ~s.clean \/ s.infl = None
            OBVIOUS
        <3> QED BY <1>1, <1>3, <3>1 DEF Held, Durable, Apart, Fenced
    <2> QED BY <1>1, <1>3, <2>1, FailedGood DEF Held
<1>4. CASE ~r.fail /\ w.r.snap = pending /\ w.r.disk = pending
    <2>1. Durable(w.r)
        BY <1>1, <1>2, <1>4 DEF Durable, Apart, Fenced
    <2>2. /\ ~r.fail /\ w.r.snap.clean /\ w.r.snap.infl = None
          /\ w.r.snap.cand \in {r.snap.cand, None}
        BY <1>2, <1>4
    <2> QED BY <1>1, <2>1, <2>2, FailedGood DEF Held
<1> QED BY <1>1, <1>3, <1>4

\* The operation of a new candidate is offered as a retry.
LEMMA RetryGood ==
    ASSUME NEW m, NEW o, Settling(m, o), m.act = o, m.ops[o].st \notin Terminal,
           m.snap.cand # None, m.snap.cand.op = o, ~FinalizationOnly(m.snap.cand),
           IsOf(m.ops[o], m.snap.cand),
           NEW u \in Processes, Talk(u, m), Store(u, m), u.act = o, u.ops[o] # None,
           u.ops[o].st = m.ops[o].st, IsOf(u.ops[o], m.ops[o]),
           \A p \in Ops \ {o} : u.ops[p] = Sync(m).ops[p]
    PROVE  LET f == Finish(u, o, "RetryAvailable", "PreparedMedia")
           IN Good(f) /\ f.act = None /\ f.load = "yes" /\ f \in Processes
<1> DEFINE s == Sync(m)
           c == m.snap.cand
           f == Finish(u, o, "RetryAvailable", "PreparedMedia")
<1>1. /\ m \in Processes /\ o \in Ops /\ m.load = "yes" /\ m.snap.infl = None
      /\ Rest(m) /\ Durable(m) /\ c \in Candidate
    BY ProcessParts, SnapshotParts DEF Settling
<1>2. /\ s \in Processes /\ Talk(s, m) /\ Store(s, m)
      /\ \A p \in Ops \ {o} : Neat(s, p)
    BY SyncNeat DEF Settling
<1>3. "RetryAvailable" \in OpStates /\ "PreparedMedia" \in Modes
    BY DEF OpStates, Terminal, Modes
<1>4. /\ f \in Processes /\ Talk(f, u) /\ Store(f, u)
      /\ f.ops[o] \in OpRecord /\ f.ops[o].st = "RetryAvailable"
      /\ IsOf(f.ops[o], u.ops[o])
      /\ \A p \in Ops \ {o} : f.ops[p] = u.ops[p]
      /\ f.act = None
    BY <1>1, <1>3, FinishIs
<1> HIDE DEF s, f
<1>5. Rest(f)
    BY <1>1, <1>4, RestTalk
<1>6. Known(f.ops[o])
    BY <1>1, <1>4 DEF IsOf, Known, Candidate, Uids
<1>7. /\ Store(f, s) /\ s.snap = m.snap /\ s.disk = m.disk /\ s.load = m.load /\ s.fail = m.fail
      /\ f.snap = m.snap /\ f.load = m.load
    BY <1>2, <1>4 DEF Store
<1>8. Neat(f, o)
    BY <1>4, <1>6, <1>7 DEF Neat, Stands
<1>9. Durable(s)
    BY <1>1, <1>7 DEF Durable
<1>10. \A p \in Ops \ {o} : f.ops[p] = s.ops[p]
    BY <1>4 DEF s
<1> QED BY <1>1, <1>2, <1>4, <1>5, <1>7, <1>8, <1>9, <1>10, SettledGood DEF f

-----------------------------------------------------------------------------
(* The read-only look at the file list                                        *)

\* The operation that is to be verified has no question open, or has asked.
Ready(r) ==
    LET o == Visible(r.snap)
    IN r.act \in {None, o} =>
         Free(r, o, r.gen) \/ (r.ops[o].pre /\ r.ops[o].gen = r.gen /\ ~r.ops[o].chg)

\* What Reconcile finds when it is not idle.
LEMMA LookedAt ==
    ASSUME NEW r, Good(r), Ready(r), NEW o, o = Visible(r.snap), HasOp(r, o),
           ~StartupGate(r), Restricted(r), r.act \in {None, o},
           r.snap.infl # None => r.snap.infl.phase = "ShadowMissingFence",
           ~(r.ops[o].pre /\ r.ops[o].gen = r.gen /\ ~r.ops[o].chg)
    PROVE  /\ Held(r, o) /\ Free(r, o, r.gen) /\ Awaited(r.snap, o)
           /\ Waits(r.snap, o, r.ops[o]) /\ r.ops[o].st = "Recovering" /\ r.ops[o] \in OpRecord
<1>1. r \in Processes /\ o \in Ops
    <2>1. r \in Processes /\ o # None
        BY DEF Good, HasOp
    <2> QED BY <2>1, ProcessParts, SnapshotParts DEF Visible, Candidate, Dispatch
<1>2. Awaited(r.snap, o)
    <2>1. CASE r.snap.infl # None
        BY <2>1 DEF Visible, Awaited, Fenced, FencePhases
    <2>2. CASE r.snap.infl = None
        BY <1>1, <2>2 DEF Visible, Awaited, Restricted, Fenced
    <2> QED BY <2>1, <2>2
<1>3. Free(r, o, r.gen)
    BY DEF Ready
<1>4. /\ r.ops[o] # None /\ r.ops[o] \in OpRecord /\ r.ops[o].st = "Recovering"
      /\ Waits(r.snap, o, r.ops[o]) /\ \A p \in Ops \ {o} : Over(r, p)
    BY <1>1, <1>2, VisibleWaits
<1>5. Rest(r)
    <2>1. CASE r.act = None
        BY <2>1, RestTraffic DEF Good
    <2>2. CASE r.act = o
        <3>1. r.act # None
            BY <1>1, <2>2
        <3> QED BY <1>3, <1>4, <2>2, <3>1, RecoveringRest
    <2> QED BY <2>1, <2>2
<1>6. Offers(r) /\ Durable(r) /\ r.load = "yes"
    BY DEF Good, Surface, Records, Durable, StartupGate
<1> QED BY <1>1, <1>2, <1>3, <1>4, <1>5, <1>6 DEF Held, Terminal

\* What waits for its verification, with the question it has or has not.
LEMMA WaitGood ==
    ASSUME NEW r, NEW o, Held(r, o), Waits(r.snap, o, r.ops[o]),
           ~r.fail /\ r.snap.infl # None => r.snap.infl.phase = "ShadowMissingFence",
           NEW x \in Processes, Store(x, r), x.act \in {None, o}, x.ops[o] # None,
           x.ops[o].st = "Recovering", IsOf(x.ops[o], r.ops[o]),
           \A p \in Ops \ {o} : x.ops[p] = r.ops[p],
           Traffic(x), Calm(x), x.gate.gen = x.gen
    PROVE  Good(x)
<1>1. r \in Processes /\ o \in Ops /\ Rest(r) /\ r.load = "yes"
    BY DEF Held
<1>5. x.snap = r.snap /\ x.disk = r.disk /\ x.load = "yes" /\ x.fail = r.fail
    BY <1>1 DEF Store
<1>6. Waits(x.snap, o, x.ops[o])
    BY <1>5 DEF Waits, IsOf
<1>7. Foreground(x)
    <2>1. x.ops[o].disp \in Uids /\ x.ops[o].name \in Uids
        <3>1. /\ r.snap.infl # None => r.snap.infl \in Dispatch
              /\ r.snap.cand # None => r.snap.cand \in Candidate
            BY <1>1, ProcessParts, SnapshotParts
        <3> QED BY <1>5, <1>6, <3>1 DEF Waits, Awaited, Fenced, IsOf, Dispatch, Candidate
    <2> QED BY <2>1 DEF Foreground
<1>8. Waiting(x)
    BY <1>6 DEF Waiting, Held, Over, Terminal
<1>9. Records(x)
    BY <1>5 DEF Held, Durable, Records
<1>10. Shown(x)
    BY <1>5, <1>6 DEF Shown, Waits, Awaited, Fenced
<1>11. Offers(x) /\ Loading(x)
    BY <1>5 DEF Offers, Loading, Held
<1> QED BY <1>7, <1>8, <1>9, <1>10, <1>11 DEF Good, Surface

\* The worker is asked for the file list.
LEMMA LookGood ==
    ASSUME NEW r, NEW o, Held(r, o), Free(r, o, r.gen), Waits(r.snap, o, r.ops[o]),
           ~r.fail /\ r.snap.infl # None => r.snap.infl.phase = "ShadowMissingFence",
           NEW x \in Processes, Store(x, r), x.act = o, x.ops[o] # None,
           x.ops[o].st = "Recovering", IsOf(x.ops[o], r.ops[o]),
           x.ops[o].pre, ~x.ops[o].chg, x.ops[o].gen = r.gen,
           \A p \in Ops \ {o} : x.ops[p] = r.ops[p],
           x.jobs = Append(r.jobs, Job("refresh", o, r.gen, 0)), x.evts = r.evts,
           x.gen = r.gen, x.conn = r.conn, x.wk = r.wk, x.rec = r.rec, x.gate.gen = r.gen
    PROVE  Good(x)
<1> DEFINE j == Job("refresh", o, r.gen, 0)
<1>1. r \in Processes /\ o \in Ops /\ Rest(r) /\ r.load = "yes"
    BY DEF Held
<1>2. j \in Jobs /\ Asks(j, o, r.gen) /\ j.kind # "upload"
    BY <1>1, ProcessParts DEF Job, Jobs, Asks
<1>3. x.ops[o].st # "Converting"
    OBVIOUS
<1> HIDE DEF j
<1>4. Traffic(x) /\ Calm(x)
    BY <1>1, <1>2, <1>3, AskedTraffic DEF j
<1> QED BY <1>4, WaitGood

\* The operation in the foreground has its answer, and no other question.
LEMMA AnsweredTraffic ==
    ASSUME NEW x \in Processes, Rest(x), NEW o \in Ops, x.act = o, Free(x, o, x.gen),
           \/ x.ops[o].gen = x.gen
           \/ x.ops[o].gen <= x.gen /\ Free(x, o, x.ops[o].gen)
    PROVE  Traffic(x) /\ Calm(x) /\ x.gate.gen = x.gen
<1>1. x.gen \in Nat
    BY ProcessParts
<1>2. Free(x, o, x.ops[o].gen) /\ x.ops[o].gen <= x.gen
    BY <1>1
<1>3. Sole(x, o, x.ops[o].gen)
    BY <1>2 DEF Free, Sole
<1>4. Queues(x) /\ Sessions(x) /\ NoUploads(x) /\ x.gate.gen = x.gen
    BY DEF Rest
<1>5. Strays(x)
    BY DEF Rest, Strays
<1>6. Question(x)
    BY <1>2, <1>3 DEF Question
<1>7. Transfers(x) /\ Calm(x)
    BY <1>4 DEF Transfers, NoUploads, Calm
<1> QED BY <1>4, <1>5, <1>6, <1>7 DEF Traffic

\* The device that came is not the one of the record: it is offered as a retry.
Mismatched(m, o) ==
    LET s == Sync(m)
        u == [s EXCEPT !.ops[o] = [@ EXCEPT !.term = "PartialOrUnknown", !.recov = TRUE,
                                            !.fresh = TRUE, !.finp = FALSE]]
    IN [Finish(u, o, "RetryAvailable", "PreparedMedia") EXCEPT
          !.ops[o] = [@ EXCEPT !.st = "RetryAvailable", !.mode = "PreparedMedia"]]

LEMMA MismatchGood ==
    ASSUME NEW m, NEW o, Settling(m, o), m.ops[o].st \notin Terminal,
           m.snap.cand # None, m.snap.cand.op = o, ~FinalizationOnly(m.snap.cand),
           IsOf(m.ops[o], m.snap.cand)
    PROVE  LET g == Mismatched(m, o) IN Good(g) /\ g.act = None /\ g.load = "yes"
<1> DEFINE s == Sync(m)
           c == m.snap.cand
           opu == [s.ops[o] EXCEPT !.term = "PartialOrUnknown", !.recov = TRUE,
                                   !.fresh = TRUE, !.finp = FALSE]
           u == [s EXCEPT !.ops[o] = opu]
           f == Finish(u, o, "RetryAvailable", "PreparedMedia")
           opg == [f.ops[o] EXCEPT !.st = "RetryAvailable", !.mode = "PreparedMedia"]
           g == [f EXCEPT !.ops[o] = opg]
<1>1. /\ m \in Processes /\ o \in Ops /\ o # None /\ m.load = "yes" /\ m.snap.infl = None
      /\ Rest(m) /\ Durable(m) /\ c \in Candidate /\ m.gen \in Nat /\ m.act \in {None, o}
      /\ m.ops[o] # None /\ m.ops[o] \in OpRecord
    BY ProcessParts, SnapshotParts DEF Settling
<1>2. /\ s \in Processes /\ Talk(s, m) /\ Store(s, m) /\ s.act = m.act
      /\ \A p \in Ops \ {o} : Neat(s, p)
      /\ IF m.act = o
         THEN s.ops[o] = [m.ops[o] EXCEPT !.recov = c.recov, !.fresh = c.fresh,
                                          !.finp = FinalizationOnly(c)]
         ELSE s.ops[o] = RestoredCandidate(c, m.gen) /\ Stands(s.ops[o], c)
    BY SyncNeat, ZenonT(90) DEF Settling, IsOf
<1>3. /\ s.ops[o] \in OpRecord /\ IsOf(s.ops[o], c)
      /\ s.act = o => s.ops[o].st \notin Terminal
      /\ s.act = None => s.ops[o].st = "RetryAvailable"
    <2>1. CASE m.act = o
        <3>1. c.recov \in BOOLEAN /\ c.fresh \in BOOLEAN /\ FinalizationOnly(c) \in BOOLEAN
            BY <1>1 DEF Candidate, FinalizationOnly
        <3>0. s.ops[o] = [m.ops[o] EXCEPT !.recov = c.recov, !.fresh = c.fresh,
                                          !.finp = FinalizationOnly(c)]
            BY <1>2, <2>1
        <3>2. s.ops[o] \in OpRecord /\ IsOf(s.ops[o], m.ops[o]) /\ s.ops[o].st = m.ops[o].st
            BY <1>1, <3>0, <3>1, ZenonT(90) DEF OpRecord, IsOf
        <3> QED BY <1>1, <1>2, <2>1, <3>2 DEF IsOf
    <2>2. CASE m.act # o
        BY <1>1, <1>2, <2>2, RestoredIs DEF Stands
    <2> QED BY <2>1, <2>2
<1> HIDE DEF s
<1>4. opu \in OpRecord /\ IsOf(opu, c) /\ opu.st = s.ops[o].st
    BY <1>3, ZenonT(90) DEF OpRecord, IsOf, Outcomes
<1> HIDE DEF opu
<1>5. /\ u \in Processes /\ Talk(u, s) /\ Store(u, s) /\ u.act = s.act
      /\ u.ops[o] = opu /\ \A p \in Ops \ {o} : u.ops[p] = s.ops[p]
    BY <1>1, <1>2, <1>4, SetIs
<1> HIDE DEF u
<1>6. /\ f \in Processes /\ Talk(f, u) /\ Store(f, u) /\ f.act = None
      /\ f.ops[o] \in OpRecord /\ IsOf(f.ops[o], c)
      /\ \A p \in Ops \ {o} : f.ops[p] = u.ops[p]
    <2>1. CASE m.act = o
        <3>1. "RetryAvailable" \in OpStates /\ "PreparedMedia" \in Modes
            BY DEF OpStates, Terminal, Modes
        <3>2. /\ f \in Processes /\ Talk(f, u) /\ Store(f, u) /\ f.act = None
              /\ f.ops[o] \in OpRecord /\ IsOf(f.ops[o], u.ops[o])
              /\ \A p \in Ops \ {o} : f.ops[p] = u.ops[p]
            BY <1>1, <1>2, <1>3, <1>4, <1>5, <2>1, <3>1, FinishIs
        <3> QED BY <1>4, <1>5, <3>2 DEF IsOf
    <2>2. CASE m.act = None
        <3>1. f = u
            BY <1>2, <1>3, <1>4, <1>5, <2>2 DEF Finish, Terminal
        <3> QED BY <1>2, <1>4, <1>5, <2>2, <3>1 DEF Talk, Store
    <2> QED BY <1>1, <2>1, <2>2
<1> HIDE DEF f
<1>7. opg \in OpRecord /\ IsOf(opg, c) /\ opg.st = "RetryAvailable"
    BY <1>6, ZenonT(90) DEF OpRecord, IsOf, OpStates, Terminal
<1> HIDE DEF opg
<1>8. /\ g \in Processes /\ Talk(g, f) /\ Store(g, f) /\ g.act = None
      /\ g.ops[o] = opg /\ \A p \in Ops \ {o} : g.ops[p] = f.ops[p]
    BY <1>1, <1>6, <1>7, SetIs
<1> HIDE DEF g
<1>9. Rest(g)
    BY <1>1, <1>2, <1>5, <1>6, <1>8, RestTalk
<1>10. Store(g, s) /\ Durable(s) /\ s.load = "yes" /\ s.snap = m.snap /\ g.snap = m.snap
       /\ g.load = "yes"
    BY <1>1, <1>2, <1>5, <1>6, <1>8 DEF Store, Durable
<1>11. Neat(g, o)
    BY <1>1, <1>7, <1>8, <1>10 DEF Neat, Stands, Known, IsOf, Candidate, Uids
<1>12. Good(g)
    BY <1>1, <1>2, <1>5, <1>6, <1>8, <1>9, <1>10, <1>11, SettledGood
<1>13. Mismatched(m, o) = g
    BY DEF Mismatched, g, f, u, s, opu, opg
<1> QED BY <1>8, <1>10, <1>12, <1>13

\* The look at a new generation, or what makes it needless.
LEMMA ReconcileGood ==
    ASSUME NEW r, Good(r), Restricted(r) => Ready(r), NEW x \in Reconcile(r)
    PROVE  Good(x)
<1> DEFINE o == Visible(r.snap)
           c == r.snap.cand
           asked == r.ops[o].pre /\ r.ops[o].gen = r.gen /\ ~r.ops[o].chg
           idle == \/ StartupGate(r) \/ ~Restricted(r) \/ r.conn = None
                   \/ r.snap.infl # None /\ r.snap.infl.phase # "ShadowMissingFence"
                   \/ ~HasOp(r, o) \/ r.act \notin {None, o}
           op == [r.ops[o] EXCEPT !.pre = FALSE, !.chg = FALSE, !.gen = r.gen]
           q == [r EXCEPT !.ops[o] = op]
<1>1. CASE idle \/ asked
    BY <1>1 DEF Reconcile
<1>2. CASE ~(idle \/ asked)
    <2>1. /\ Held(r, o) /\ Free(r, o, r.gen) /\ Awaited(r.snap, o)
          /\ Waits(r.snap, o, r.ops[o]) /\ r.ops[o].st = "Recovering" /\ r.ops[o] \in OpRecord
        BY <1>2, LookedAt
    <2>2. /\ r \in Processes /\ o \in Ops /\ o # None /\ Rest(r) /\ r.gen \in Nat
          /\ ~r.fail /\ r.load = "yes"
        BY <1>2, <2>1, ProcessParts DEF Held, StartupGate, Good, HasOp
    <2>3. r.snap.infl # None => r.snap.infl.phase = "ShadowMissingFence"
        BY <1>2
    <2>0. op \in OpRecord /\ op.st = "Recovering" /\ IsOf(op, r.ops[o])
        BY <2>1, <2>2, ZenonT(90) DEF OpRecord, IsOf
    <2>4. op \in OpRecord /\ op.st = "Recovering" /\ IsOf(op, r.ops[o]) /\ op # None
        BY <2>0
    <2>5. ~op.pre /\ ~op.chg /\ op.gen = r.gen
        BY <2>1 DEF OpRecord
    <2>6. q = [r EXCEPT !.ops[o] = [@ EXCEPT !.pre = FALSE, !.chg = FALSE, !.gen = r.gen]]
        BY <2>2 DEF Processes
    <2> HIDE DEF op
    <2>7. /\ q \in Processes /\ Talk(q, r) /\ Store(q, r) /\ q.act = r.act
          /\ q.ops[o] = op /\ \A p \in Ops \ {o} : q.ops[p] = r.ops[p]
        BY <2>2, <2>4, SetIs
    <2>8. CASE r.ops[o].dev = r.conn
        <3> DEFINE opy == [op EXCEPT !.pre = TRUE, !.st = "Recovering"]
                   gate == [gen |-> r.gen, open |-> TRUE]
                   y == [q EXCEPT !.sact = FALSE, !.act = o, !.gate = gate, !.ops[o] = opy]
                   ops == [q.ops EXCEPT ![o] = opy]
                   j == Job("refresh", o, r.gen, 0)
        <3>1. /\ opy \in OpRecord /\ opy.st = "Recovering" /\ IsOf(opy, r.ops[o])
              /\ opy.pre /\ opy.gen = r.gen
            BY <2>4, <2>5 DEF OpRecord, OpStates, IsOf
        <3>2. ~opy.chg
            BY <2>4, <2>5 DEF OpRecord
        <3>3. x = Send([q EXCEPT !.sact = FALSE, !.act = o, !.gate = gate,
                                 !.ops[o] = [@ EXCEPT !.pre = TRUE, !.st = "Recovering"]], j)
            BY <1>2, <2>6, <2>8 DEF Reconcile
        <3>4. x = Send(y, j)
            BY <2>2, <2>7, <3>3 DEF Processes
        <3> HIDE DEF opy
        <3>5. ops \in [Ops -> OpRecord \cup {None}]
              /\ ops[o] = opy /\ \A p \in Ops \ {o} : ops[p] = q.ops[p]
            BY <2>2, <2>7, <3>1 DEF Processes
        <3>6. gate \in [gen : Nat, open : BOOLEAN] /\ gate.gen = r.gen
            BY <2>2
        <3>7. y = [q EXCEPT !.sact = FALSE, !.act = o, !.gate = gate, !.ops = ops]
            BY <2>7 DEF Processes
        <3> HIDE DEF gate, ops, y
        <3>8. /\ y \in Processes /\ y.ops = ops /\ y.act = o /\ y.gate.gen = r.gen /\ Store(y, q)
              /\ y.jobs = q.jobs /\ y.evts = q.evts /\ y.gen = q.gen /\ y.conn = q.conn
              /\ y.wk = q.wk /\ y.rec = q.rec
            BY <2>2, <2>7, <3>5, <3>6, <3>7 DEF Processes, Store
        <3>9. j \in Jobs
            BY <2>2 DEF Job, Jobs
        <3> HIDE DEF j
        <3>10. /\ x \in Processes /\ Store(x, y) /\ x.ops = ops /\ x.act = o
               /\ x.jobs = Append(r.jobs, j) /\ x.evts = r.evts /\ x.gen = r.gen
               /\ x.conn = r.conn /\ x.wk = r.wk /\ x.rec = r.rec /\ x.gate.gen = r.gen
            BY <2>7, <3>4, <3>8, <3>9, SendIs, SMTT(60) DEF Talk
        <3>11. Store(x, r)
            BY <2>7, <3>8, <3>10 DEF Store
        <3>12. /\ x.ops[o] = opy /\ \A p \in Ops \ {o} : x.ops[p] = r.ops[p]
            BY <2>7, <3>5, <3>10
        <3>13. x.ops[o] # None
            BY <3>1, <3>12
        <3> QED BY <2>1, <2>3, <3>1, <3>2, <3>10, <3>11, <3>12, <3>13, LookGood DEF j
    <2>9. CASE r.ops[o].dev # r.conn /\ c # None /\ c.op = o /\ FinalizationOnly(c)
        <3> DEFINE t == ResolveFinalization(r.snap)
        <3>1. Held(q, o)
            BY <2>1, <2>4, <2>7, HeldStays DEF Terminal
        <3>2. r.snap.infl = None /\ c \in Candidate /\ r.snap \in Snapshot
            BY <2>1, <2>2, <2>9, ProcessParts, SnapshotParts
               DEF Awaited, Fenced, Held, Durable, Apart
        <3>3. /\ t \in Snapshot /\ t.infl = None /\ t.clean = r.snap.clean
              /\ t.cand = [c EXCEPT !.out = "PartialOrUnknown", !.fresh = TRUE]
            BY <2>9, <3>2, ProofsStay DEF ResolveFinalization, Snapshot
        <3> HIDE DEF t
        <3>4. PICK w \in Write(q, t) :
                 x \in IF w.ok
                       THEN LET s == Sync(w.r)
                                u == [s EXCEPT !.ops[o] = [@ EXCEPT
                                        !.term = "PartialOrUnknown", !.recov = TRUE,
                                        !.fresh = TRUE, !.finp = FALSE]]
                            IN {RequireRecovery(
                                  [Finish(u, o, "RetryAvailable", "PreparedMedia") EXCEPT
                                     !.ops[o] = [@ EXCEPT !.st = "RetryAvailable",
                                                          !.mode = "PreparedMedia"]])}
                       ELSE {Finish(w.r, o, "Failed", "")}
            BY <1>2, <2>6, <2>9, ZenonT(90) DEF Reconcile, Mutate, After, t
        <3> HIDE DEF q, o
        <3>5. CASE w.ok
            <4> DEFINE m == w.r
            <4>1. w \in WriteRetiring(q, t)
                BY DEF WriteRetiring
            <4>2. t.clean => q.snap.clean
                BY <2>7, <3>3 DEF Store
            <4>3. /\ Settling(m, o) /\ m.snap = t /\ m.ops = q.ops /\ m.act = q.act
                BY <3>1, <3>3, <3>5, <4>1, <4>2, WrittenSettling
            <4> HIDE DEF m
            <4>4. m.snap.cand # None /\ m.snap.cand.op = o /\ ~FinalizationOnly(m.snap.cand)
                <5>1. t.cand \in Candidate
                    BY <3>2, <3>3 DEF Candidate, Outcomes
                <5>2. t.cand # None /\ t.cand.op = o /\ t.cand.out # "FinalizationUnknown"
                    BY <2>9, <3>2, <3>3, <5>1 DEF Candidate
                <5> QED BY <4>3, <5>2 DEF FinalizationOnly
            <4>5. IsOf(m.ops[o], m.snap.cand)
                <5>1. IsOf(r.ops[o], c)
                    BY <2>1, <3>2 DEF Waits
                <5>2. /\ t.cand.lin = c.lin /\ t.cand.disp = c.disp /\ t.cand.name = c.name
                      /\ t.cand.dev = c.dev
                    BY <3>2, <3>3 DEF Candidate
                <5> QED BY <2>4, <2>7, <4>3, <5>1, <5>2 DEF IsOf
            <4>6. m.ops[o].st \notin Terminal
                BY <2>4, <2>7, <4>3 DEF Terminal
            <4> DEFINE g == Mismatched(m, o)
            <4>7. x = RequireRecovery(g)
                BY <3>4, <3>5 DEF m, Mismatched
            <4>8. Good(g) /\ g.act = None /\ g.load = "yes"
                BY <4>3, <4>4, <4>5, <4>6, MismatchGood
            <4> HIDE DEF g
            <4> QED BY <4>7, <4>8, RecoveryGood
        <3>6. CASE ~w.ok
            <4>1. x = Finish(w.r, o, "Failed", "")
                BY <3>4, <3>6
            <4>2. Apart(t) /\ ~Fenced(t) /\ "Failed" \in Terminal /\ "" \in Modes
                BY <3>3 DEF Apart, Fenced, Terminal, Modes
            <4> QED BY <3>1, <3>3, <3>6, <4>1, <4>2, UnsavedGood
        <3> QED BY <3>5, <3>6
    <2>10. CASE r.ops[o].dev # r.conn /\ ~(c # None /\ c.op = o /\ FinalizationOnly(c))
        <3>1. x = q
            BY <1>2, <2>6, <2>10 DEF Reconcile
        <3>2. Rest(q) /\ Free(q, o, q.gen)
            BY <2>1, <2>2, <2>7, RestTalk DEF Talk, Free
        <3>3. q.act \in {None, o}
            BY <1>2, <2>7
        <3>4. Traffic(q) /\ Calm(q) /\ q.gate.gen = q.gen
            BY <2>2, <2>5, <2>7, <3>2, <3>3, RestTraffic, AnsweredTraffic DEF Talk
        <3>5. q.ops[o] # None /\ q.ops[o].st = "Recovering" /\ IsOf(q.ops[o], r.ops[o])
            BY <2>4, <2>7
        <3> HIDE DEF q, o
        <3> QED BY <2>1, <2>3, <2>7, <3>1, <3>3, <3>4, <3>5, WaitGood
    <2> QED BY <2>8, <2>9, <2>10
<1> QED BY <1>1, <1>2

-----------------------------------------------------------------------------
(* The end of an upload that did not succeed                                  *)

\* What was retired and shown ends.
LEMMA RetiredGood ==
    ASSUME NEW m, NEW o, Settling(m, o), m.act = o, m.ops[o].st \notin Terminal,
           ~(m.snap.cand # None /\ m.snap.cand.op = o),
           NEW st \in Ended, NEW mode \in Modes
    PROVE  Good(Finish(Sync(m), o, st, mode))
<1> DEFINE s == Sync(m)
           f == Finish(s, o, st, mode)
<1>1. /\ m \in Processes /\ o \in Ops /\ m.load = "yes" /\ m.snap.infl = None
      /\ Rest(m) /\ Durable(m) /\ m.ops[o] # None
    BY DEF Settling
<1>2. /\ s \in Processes /\ Talk(s, m) /\ Store(s, m) /\ s.act = m.act
      /\ \A p \in Ops \ {o} : Neat(s, p)
      /\ s.ops[o] = m.ops[o]
    BY SyncNeat DEF Settling
<1>3. st \in OpStates
    BY DEF OpStates, Ended, Terminal
<1> HIDE DEF s
<1>4. /\ f \in Processes /\ Talk(f, s) /\ Store(f, s) /\ f.act = None
      /\ f.ops[o] \in OpRecord /\ f.ops[o].st = st
      /\ \A p \in Ops \ {o} : f.ops[p] = s.ops[p]
    BY <1>1, <1>2, <1>3, FinishIs
<1> HIDE DEF f
<1>5. Rest(f)
    BY <1>1, <1>2, <1>4, RestTalk
<1>6. Durable(s) /\ s.load = "yes" /\ s.snap = m.snap /\ f.snap = m.snap
    BY <1>1, <1>2, <1>4 DEF Store, Durable
<1>7. Neat(f, o)
    BY <1>4, <1>6 DEF Neat
<1> QED BY <1>1, <1>2, <1>4, <1>5, <1>6, <1>7, SettledGood DEF f, s

\* Process q is r, but for answers and flags of operation o.
Near(q, r, o) ==
    /\ q \in Processes /\ Store(q, r) /\ q.act = r.act
    /\ q.ops[o] # None /\ q.ops[o].st = r.ops[o].st /\ q.ops[o].retry = r.ops[o].retry
    /\ IsOf(q.ops[o], r.ops[o])
    /\ \A p \in Ops \ {o} : q.ops[p] = r.ops[p]

LEMMA NearHeld ==
    ASSUME NEW r, Good(r), NEW o, o = r.act, o # None, NEW q, Near(q, r, o), Rest(q)
    PROVE  Held(q, o) /\ q.act = o
<1>1. /\ r \in Processes /\ o \in Ops /\ r.ops[o] # None /\ r.load = "yes"
    BY ProcessParts DEF Good, Surface, Foreground, Loading
<1>2. r.ops[o].st \notin Terminal
    BY DEF Good, Surface, Foreground, Starting, Sending, Terminal
<1>3. \A p \in Ops \ {o} : Over(r, p)
    BY OneWaits
<1>4. q.snap = r.snap /\ q.disk = r.disk /\ q.load = r.load /\ q.fail = r.fail
    BY DEF Near, Store
<1>5. Offers(q)
    BY <1>2, <1>4 DEF Near, Good, Surface, Offers, Terminal
<1>6. Durable(q)
    BY <1>1, <1>4 DEF Good, Surface, Records, Durable
<1> QED BY <1>1, <1>2, <1>3, <1>4, <1>5, <1>6 DEF Held, Near, Over

\* The outcome of an armed dispatch is recorded, or nothing was sent.
LEMMA SendingFails ==
    ASSUME NEW r, NEW o, Held(r, o), r.act = o, r.snap.infl # None, r.snap.infl.op = o,
           r.snap.infl.phase = "DispatchArmed", IsOf(r.ops[o], r.snap.infl),
           Free(r, o, r.gen), NEW outcome, NEW x \in PreparedUploadFailure(r, o, outcome)
    PROVE  Good(x)
<1> DEFINE op == r.ops[o]
           d == r.snap.infl
           fin == "FinalizationUnknown" \in {outcome, op.term} \/ op.finp
           retryable == fin \/ outcome = "PartialOrUnknown"
           out == IF fin THEN "FinalizationUnknown" ELSE "PartialOrUnknown"
           st == IF outcome = "Cancelled" THEN "Cancelled" ELSE "Failed"
<1>1. /\ r \in Processes /\ o \in Ops /\ o # None /\ r.snap \in Snapshot /\ d \in Dispatch
      /\ HasOp(r, o) /\ op # None /\ op.st \notin Terminal /\ r.gen \in Nat
    BY ProcessParts, SnapshotParts DEF Held, HasOp
<1>2. r.snap.cand # None => r.snap.cand.op # o
    BY DEF Held, Durable, Apart
<1>3. "Failed" \in Terminal /\ "" \in Modes /\ st \in Ended
    BY DEF Terminal, Modes, Ended
<1>4. CASE retryable
    <2> DEFINE t == RecordOutcome(r.snap, out)
               given(s) == [s EXCEPT !.ops[o] = [@ EXCEPT !.term = out, !.fresh = ~fin,
                                                          !.finp = fin]]
    <2>1. out \in Outcomes /\ (out = "FinalizationUnknown" <=> fin)
        BY DEF Outcomes
    <2>2. /\ t \in Snapshot /\ t.infl = None /\ t.clean = r.snap.clean
          /\ t.cand = CandidateOf(d, out, TRUE, out = "PartialOrUnknown")
        BY <1>1, <2>1, OutcomesStay DEF RecordOutcome, Snapshot
    <2>3. /\ t.cand # None /\ t.cand.op = o /\ IsOf(op, t.cand)
          /\ FinalizationOnly(t.cand) <=> fin
        <3>1. t.cand.op = d.op /\ t.cand.lin = d.lin /\ t.cand.disp = d.disp
              /\ t.cand.name = d.name /\ t.cand.dev = d.dev /\ t.cand.out = out
            BY <2>2 DEF CandidateOf
        <3>2. t.cand # None
            <4>1. \A a, b \in BOOLEAN : CandidateOf(d, out, a, b) \in Candidate
                BY <1>1, <2>1 DEF CandidateOf, Candidate, Dispatch
            <4>2. (out = "PartialOrUnknown") \in BOOLEAN
                OBVIOUS
            <4> QED BY <2>2, <4>1, <4>2
        <3> QED BY <2>1, <3>1, <3>2 DEF IsOf, FinalizationOnly
    <2> HIDE DEF t
    <2>4. PICK w \in Write(r, t) :
             x \in IF w.ok
                   THEN IF fin THEN Reconcile(Pause(given(Sync(w.r)), o))
                        ELSE {RequireRecovery(Finish(given(Sync(w.r)), o, "RetryAvailable",
                                                     "PreparedMedia"))}
                   ELSE {Finish(w.r, o, "Failed", "")}
        BY <1>1, <1>4 DEF PreparedUploadFailure, Mutate, After, t
    <2>5. CASE w.ok
        <3> DEFINE m == w.r
                   s == Sync(m)
                   u == given(s)
                   c == m.snap.cand
        <3>1. w \in WriteRetiring(r, t)
            BY DEF WriteRetiring
        <3>2. t.clean => r.snap.clean
            BY <2>2
        <3>3. /\ Settling(m, o) /\ m.snap = t /\ m.ops = r.ops /\ m.act = o /\ Talk(m, r)
            BY <2>2, <2>5, <3>1, <3>2, WrittenSettling
        <3> HIDE DEF m
        <3>40. /\ m \in Processes /\ m.act \in {None, o} /\ m.snap.infl = None
               /\ \A p \in Ops \ {o} : Over(m, p)
               /\ \A p \in Ops : m.ops[p] # None /\ m.ops[p].st = "RetryAvailable" => Known(m.ops[p])
            BY <3>3 DEF Settling
        <3>41. c # None /\ c.op = o /\ m.ops[o] = op /\ op.lin = c.lin /\ op.disp = c.disp
            BY <2>3, <3>3 DEF IsOf
        <3> HIDE DEF s, c, op, given
        <3>4. /\ s \in Processes /\ Talk(s, m) /\ Store(s, m) /\ s.act = o
              /\ \A p \in Ops \ {o} : Neat(s, p)
              /\ s.ops[o] = [op EXCEPT !.recov = c.recov, !.fresh = c.fresh,
                                       !.finp = FinalizationOnly(c)]
            BY <1>1, <3>3, <3>40, <3>41, SyncNeat DEF s, c
        <3> USE DEF c, op
        <3>5. /\ s.ops[o] \in OpRecord /\ IsOf(s.ops[o], op) /\ s.ops[o].st = op.st
            <4>1. op \in OpRecord /\ c \in Candidate
                BY <2>3, <3>3, ProcessParts, SnapshotParts DEF Settling
            <4>2. c.recov \in BOOLEAN /\ c.fresh \in BOOLEAN /\ FinalizationOnly(c) \in BOOLEAN
                BY <4>1 DEF Candidate, FinalizationOnly
            <4> QED BY <3>4, <4>1, <4>2, ZenonT(90) DEF OpRecord, IsOf
        <3> DEFINE new == ~fin
                   opu == [s.ops[o] EXCEPT !.term = out, !.fresh = new, !.finp = fin]
        <3>6. opu \in OpRecord /\ IsOf(opu, op) /\ opu.st = op.st
            <4>1. op.finp \in BOOLEAN
                BY <1>1, ProcessParts DEF OpRecord
            <4>2. fin \in BOOLEAN /\ new \in BOOLEAN
                BY <4>1
            <4> HIDE DEF fin, op, new
            <4>3. out \in Outcomes
                BY <2>1
            <4> HIDE DEF out
            <4>4. opu \in OpRecord
                BY <3>5, <4>2, <4>3 DEF OpRecord
            <4>5. IsOf(opu, op) /\ opu.st = op.st
                BY <3>5 DEF OpRecord, IsOf
            <4> QED BY <4>4, <4>5
        <3>7. u = [s EXCEPT !.ops[o] = opu]
            BY <3>4 DEF Processes, given
        <3> HIDE DEF opu, u, fin, new
        <3>8. /\ u \in Processes /\ Talk(u, s) /\ Store(u, s) /\ u.act = o
              /\ u.ops[o] = opu /\ \A p \in Ops \ {o} : u.ops[p] = s.ops[p]
            BY <1>1, <3>4, <3>6, <3>7, SetIs
        <3>9. u.ops[o] # None
            BY <3>6, <3>8
        <3>10. Talk(u, m) /\ Store(u, m)
            BY <3>4, <3>8 DEF Talk, Store
        <3>11. CASE fin
            <4> DEFINE p == Pause(u, o)
            <4>1. /\ p \in Processes /\ Talk(p, u) /\ Store(p, u)
                  /\ p.ops[o] \in OpRecord /\ p.ops[o].st = "Recovering"
                  /\ IsOf(p.ops[o], u.ops[o]) /\ p.act = None
                  /\ \A k \in Ops \ {o} : p.ops[k] = u.ops[k]
                BY <1>1, <3>8, <3>9, PauseIs
            <4>2. x \in Reconcile(p)
                BY <2>4, <2>5, <3>11 DEF u, s, m
            <4> HIDE DEF p
            <4>3. Rest(p) /\ Talk(p, r)
                BY <3>3, <3>10, <4>1, RestTalk DEF Settling, Talk
            <4>4. /\ Store(p, s) /\ Durable(s) /\ s.load = "yes" /\ s.snap.infl = None
                  /\ p.snap = t /\ s.fail = m.fail
                BY <2>2, <3>3, <3>4, <3>8, <4>1 DEF Store, Durable, Settling
            <4>5. Neat(p, o)
                BY <2>3, <3>6, <3>8, <3>11, <4>1, <4>4 DEF Neat, Stands, IsOf
            <4>6. Good(p)
                BY <1>1, <3>4, <3>8, <4>1, <4>3, <4>4, <4>5, SettledGood
            <4>7. Ready(p)
                BY <2>2, <2>3, <4>3, <4>4 DEF Ready, Visible, Talk, Free
            <4> QED BY <4>2, <4>6, <4>7, ReconcileGood
        <3>12. CASE ~fin
            <4> DEFINE f == Finish(u, o, "RetryAvailable", "PreparedMedia")
            <4>1. x = RequireRecovery(f)
                BY <2>4, <2>5, <3>12 DEF u, s, m
            <4>2. \A k \in Ops \ {o} : u.ops[k] = Sync(m).ops[k]
                BY <3>8 DEF s
            <4>3. Good(f) /\ f.act = None /\ f.load = "yes"
                BY <1>1, <2>3, <3>3, <3>6, <3>8, <3>9, <3>10, <3>12, <4>2, RetryGood
            <4> HIDE DEF f
            <4> QED BY <4>1, <4>3, RecoveryGood
        <3> QED BY <3>11, <3>12
    <2>6. CASE ~w.ok
        <3>1. x = Finish(w.r, o, "Failed", "")
            BY <2>4, <2>6
        <3>2. Apart(t) /\ ~Fenced(t)
            BY <2>2 DEF Apart, Fenced
        <3> QED BY <1>3, <2>2, <2>6, <3>1, <3>2, UnsavedGood
    <2> QED BY <2>5, <2>6
<1>5. CASE ~retryable
    <2> DEFINE t == RetireProven(r.snap)
    <2>1. t \in Snapshot /\ t.infl = None /\ t.clean = r.snap.clean /\ t.cand = r.snap.cand
        BY <1>1, RetirementsStay DEF RetireProven, Snapshot
    <2> HIDE DEF t
    <2>2. PICK w \in WriteRetiring(r, t) :
             x = IF w.ok THEN Finish(Sync(w.r), o, st, "") ELSE Finish(w.r, o, "Failed", "")
        BY <1>1, <1>5 DEF PreparedUploadFailure, MutateRetiring, After, t
    <2> HIDE DEF st
    <2>3. CASE w.ok
        <3>1. t.clean => r.snap.clean
            BY <2>1
        <3>2. /\ Settling(w.r, o) /\ w.r.snap = t /\ w.r.ops = r.ops /\ w.r.act = o
            BY <2>1, <2>3, <3>1, WrittenSettling
        <3> QED BY <1>1, <1>2, <1>3, <2>1, <2>2, <2>3, <3>2, RetiredGood
    <2>4. CASE ~w.ok
        <3>1. x = Finish(w.r, o, "Failed", "")
            BY <2>2, <2>4
        <3> QED BY <1>3, <2>1, <2>4, <3>1, UnretiredGood
    <2> QED BY <2>3, <2>4
<1> QED BY <1>4, <1>5

\* What has failed ends, or waits for its verification.
LEMMA FailureGood ==
    ASSUME NEW r, Good(r), NEW o, o = r.act, o # None, NEW q, Near(q, r, o), Rest(q),
           Sending(r, r.ops[o]) => Free(q, o, q.gen),
           NEW outcome, NEW x \in PreparedUploadFailure(q, o, outcome)
    PROVE  Good(x)
<1> DEFINE op == q.ops[o]
           st == IF outcome = "Cancelled" \/ op.cancel THEN "Cancelled" ELSE "Failed"
<1>1. Held(q, o) /\ q.act = o
    BY NearHeld
<1>2. /\ q \in Processes /\ o \in Ops /\ HasOp(q, o) /\ op # None /\ op.st \notin Terminal
      /\ op.st = r.ops[o].st /\ IsOf(op, r.ops[o])
      /\ q.snap = r.snap /\ q.disk = r.disk /\ q.load = r.load /\ q.fail = r.fail
      /\ \A p \in Ops \ {o} : q.ops[p] = r.ops[p]
    BY <1>1 DEF Held, HasOp, Near, Store
<1>3. st \in Dropped /\ st \in OpStates /\ "" \in Modes
    BY DEF Dropped, Modes, OpStates, Terminal
<1> HIDE DEF st
<1>4. CASE Sending(r, r.ops[o])
    <2>1. /\ q.snap.infl # None /\ q.snap.infl.op = o /\ q.snap.infl.phase = "DispatchArmed"
          /\ IsOf(op, q.snap.infl)
        BY <1>2, <1>4 DEF Sending, IsOf
    <2> QED BY <1>1, <1>4, <2>1, SendingFails
<1>5. ASSUME x = Finish(q, o, st, ""), r.snap.infl = None,
             r.ops[o].st = "Recovering" => Resolved(r, o, r.ops[o])
      PROVE  Good(x)
    <2>1. /\ x \in Processes /\ Talk(x, q) /\ Store(x, q) /\ x.ops[o] # None /\ x.ops[o].st = st
          /\ \A p \in Ops \ {o} : x.ops[p] = q.ops[p]
          /\ x.act = None
        <3>1. EndsAs(x, q, o, st)
            BY <1>2, <1>3, <1>5, FinishEnds
        <3> QED BY <1>1, <3>1 DEF EndsAs
    <2>2. Rest(x)
        BY <2>1, RestTalk
    <2>3. Store(x, r)
        BY <1>2, <2>1 DEF Store
    <2>4. x.ops[o].st \in Dropped /\ \A p \in Ops \ {o} : x.ops[p] = r.ops[p]
        BY <1>2, <1>3, <2>1
    <2> QED BY <1>5, <2>1, <2>2, <2>3, <2>4, EndedGood
<1>6. CASE Starting(r, r.ops[o])
    <2>1. r.snap.infl = None /\ r.ops[o].st # "Recovering"
        BY <1>6 DEF Starting
    <2>2. ~(r.snap.cand # None /\ r.snap.cand.op = o /\ FinalizationOnly(r.snap.cand))
        BY <2>1 DEF Good, Surface, Foreground
    <2>3. x = Finish(q, o, st, "")
        BY <1>2, <2>1, <2>2 DEF PreparedUploadFailure, st
    <2> QED BY <1>5, <2>1, <2>3
<1>7. CASE r.ops[o].st = "Recovering"
    <2>0. Waits(r.snap, o, r.ops[o]) \/ Resolved(r, o, r.ops[o])
        <3>1. r.ops[o] # None
            BY DEF Good, Surface, Foreground
        <3> QED BY <1>2, <1>7, <3>1 DEF Good, Surface, Waiting
    <2> DEFINE p == Pause(q, o)
    <2>1. /\ p \in Processes /\ Talk(p, q) /\ Store(p, q)
          /\ p.ops[o] \in OpRecord /\ p.ops[o].st = "Recovering"
          /\ IsOf(p.ops[o], q.ops[o])
          /\ \A k \in Ops \ {o} : p.ops[k] = q.ops[k]
          /\ p.act = None
        BY <1>1, <1>2, PauseIs
    <2> HIDE DEF p
    <2>2. Rest(p)
        BY <2>1, RestTalk
    <2>3. ASSUME Waits(r.snap, o, r.ops[o]) PROVE Good(p)
        <3>1. Waits(q.snap, o, q.ops[o])
            BY <1>2, <2>3 DEF Waits, IsOf
        <3>2. ~q.fail /\ q.snap.infl # None => q.snap.infl.phase = "ShadowMissingFence"
            BY <1>2, <2>3 DEF Good, Surface, Records, Waits, Awaited, Fenced, FencePhases
        <3>3. p.ops[o] # None
            BY <2>1
        <3> QED BY <1>1, <2>1, <2>2, <3>1, <3>2, <3>3, PausedGood
    <2>4. CASE Fenced(r.snap) /\ r.snap.infl.op = o
        <3>1. Waits(r.snap, o, r.ops[o])
            BY <2>0, <2>4 DEF Resolved, Fenced
        <3>2. x = RequireRecovery(p)
            BY <1>2, <2>4 DEF PreparedUploadFailure, Fenced, FencePhases, p
        <3>3. p.load = "yes"
            BY <1>1, <2>1 DEF Store, Held
        <3> QED BY <2>1, <2>3, <3>1, <3>2, <3>3, RecoveryGood
    <2>5. CASE r.snap.infl = None /\ r.snap.cand # None /\ FinalizationOnly(r.snap.cand)
               /\ r.snap.cand.op = o
        <3>1. Waits(r.snap, o, r.ops[o])
            BY <2>0, <2>5 DEF Resolved
        <3>2. x = p
            BY <1>2, <2>5 DEF PreparedUploadFailure, p
        <3> QED BY <2>3, <3>1, <3>2
    <2>6. CASE ~Awaited(r.snap, o)
        <3>1. Resolved(r, o, r.ops[o])
            BY <2>0, <2>6 DEF Waits
        <3>2. r.snap.infl = None /\ ~FinalizationOnly(r.snap.cand)
            BY <3>1 DEF Resolved
        <3>3. x = Finish(q, o, st, "")
            BY <1>2, <3>2 DEF PreparedUploadFailure, st
        <3> QED BY <1>5, <3>1, <3>2, <3>3
    <2> QED BY <2>4, <2>5, <2>6 DEF Awaited
<1> QED BY <1>4, <1>6, <1>7 DEF Good, Surface, Foreground

-----------------------------------------------------------------------------
(* The end of a verified upload                                               *)

\* The invariant does not say whether a session is started, or what failed when.
LEMMA AlikeGood ==
    ASSUME NEW r, Good(r), NEW q \in Processes, Talk(q, r), Store(q, r), q.ops = r.ops,
           q.act = r.act
    PROVE  Good(q)
<1>1. /\ q.jobs = r.jobs /\ q.evts = r.evts /\ q.gen = r.gen /\ q.conn = r.conn
      /\ q.gate = r.gate /\ q.wk = r.wk /\ q.rec = r.rec
    BY DEF Talk
<1>2. q.snap = r.snap /\ q.disk = r.disk /\ q.load = r.load /\ q.fail = r.fail
    BY DEF Store
<1>3. Foreground(q)
    BY <1>2 DEF Good, Surface, Foreground, Starting, Sending
<1>4. Waiting(q)
    BY <1>1, <1>2 DEF Good, Surface, Waiting, Resolved
<1>5. Records(q) /\ Offers(q) /\ Loading(q)
    BY <1>1, <1>2 DEF Good, Surface, Records, Offers, Loading
<1>6. Shown(q)
    BY <1>2 DEF Good, Surface, Shown, StartupGate, LookedTooLate
<1>7. Queues(q) /\ Sessions(q)
    BY <1>1 DEF Good, Traffic, Queues, Sessions
<1>8. Strays(q)
    BY <1>1 DEF Good, Traffic, Strays, Free, Spent
<1>9. Question(q) /\ Transfers(q)
    BY <1>1 DEF Good, Traffic, Question, Sole, Free, Transfers
<1>10. Calm(q)
    BY <1>1 DEF Good, Calm, Free, Spent
<1> QED BY <1>1, <1>3, <1>4, <1>5, <1>6, <1>7, <1>8, <1>9, <1>10 DEF Good, Surface, Traffic

LEMMA PromoteIs ==
    ASSUME NEW r \in Processes
    PROVE  LET q == Promote(r)
           IN q \in Processes /\ Talk(q, r) /\ Store(q, r) /\ q.ops = r.ops /\ q.act = r.act
<1>1. CASE MutationGate(r) \/ r.rec \/ r.conn = None
    BY <1>1 DEF Promote, Talk, Store
<1>2. CASE ~(MutationGate(r) \/ r.rec \/ r.conn = None)
    BY <1>2 DEF Promote, Processes, Talk, Store
<1> QED BY <1>1, <1>2

LEMMA PromoteGood ==
    ASSUME NEW r, Good(r)
    PROVE  Good(Promote(r))
<1> DEFINE q == Promote(r)
<1>1. q \in Processes /\ Talk(q, r) /\ Store(q, r) /\ q.ops = r.ops /\ q.act = r.act
    BY PromoteIs DEF Good
<1> HIDE DEF q
<1>2. Good(q)
    BY <1>1, AlikeGood
<1> QED BY <1>2 DEF q

\* A write failed after the record was retired.
LEMMA PendingSettling ==
    ASSUME NEW r, NEW o, Held(r, o), NEW s \in Snapshot, s.infl = None,
           NEW w \in WriteRetiring(r, s), ~w.ok, RetiredIntoCleanup(w.r.snap)
    PROVE  /\ Settling(w.r, o) /\ w.r.ops = r.ops /\ w.r.act = r.act /\ w.r.fail /\ Talk(w.r, r)
           /\ w.r.snap.cand \in {s.cand, r.snap.cand}
           /\ w.r.snap.cand # s.cand => r.snap.infl = None
<1> DEFINE pending == [s EXCEPT !.clean = TRUE]
<1>1. /\ w.r \in Processes /\ Talk(w.r, r) /\ w.r.ops = r.ops /\ w.r.act = r.act
      /\ w.r.load = r.load /\ w.r.fail
      /\ \/ w.r.snap = r.snap /\ w.r.disk \in {r.disk, s}
         \/ ~r.fail /\ w.r.snap = pending /\ w.r.disk = pending
    <2>1. Retired(w, r, s)
        BY WriteRetiringIs DEF Held
    <2> QED BY <2>1 DEF Retired
<1>2. pending.infl = None /\ pending.cand = s.cand /\ pending.clean
    BY SnapshotParts
<1> HIDE DEF pending
<1>3. Durable(w.r)
    BY <1>1, <1>2 DEF Held, Durable, Apart, Fenced
<1>4. Rest(w.r)
    BY <1>1, RestTalk DEF Held
<1>5. w.r.ops[o] \in OpRecord
    BY <1>1, ProcessParts DEF Held
<1>6. w.r.snap.infl = None
    BY DEF RetiredIntoCleanup
<1> QED BY <1>1, <1>2, <1>3, <1>4, <1>5, <1>6 DEF Settling, Held, Offers, Over

LEMMA VerifiedGood ==
    ASSUME NEW m, NEW o, Settling(m, o), m.act = o, m.ops[o].st \notin Terminal,
           m.snap.cand # None /\ m.snap.cand.op = o => m.fail /\ IsOf(m.ops[o], m.snap.cand),
           NEW restricted
    PROVE  Good(FinishVerified(Sync(m), o, restricted))
<1> DEFINE s == Sync(m)
           c == m.snap.cand
           op == [s.ops[o] EXCEPT !.finp = FALSE]
           q == [s EXCEPT !.ops[o] = op]
           p == IF restricted /\ ~RetiredIntoCleanup(q.snap) THEN Promote(q) ELSE q
           f == Finish(p, o, "Succeeded", "")
<1>1. /\ m \in Processes /\ o \in Ops /\ m.load = "yes" /\ m.snap.infl = None
      /\ Rest(m) /\ Durable(m) /\ m.ops[o] # None /\ m.ops[o] \in OpRecord
    BY DEF Settling
<1>2. /\ s \in Processes /\ Talk(s, m) /\ Store(s, m) /\ s.act = m.act
      /\ \A k \in Ops \ {o} : Neat(s, k)
      /\ \/ s.ops[o] = m.ops[o]
         \/ /\ c # None
            /\ s.ops[o] = [m.ops[o] EXCEPT !.recov = c.recov, !.fresh = c.fresh,
                                           !.finp = FinalizationOnly(c)]
    BY SyncNeat DEF Settling, IsOf
<1>3. s.ops[o] \in OpRecord /\ s.ops[o].st \notin Terminal
    <2>1. c # None => c.recov \in BOOLEAN /\ c.fresh \in BOOLEAN /\ FinalizationOnly(c) \in BOOLEAN
        BY <1>1, ProcessParts, SnapshotParts DEF Candidate, FinalizationOnly
    <2>2. CASE s.ops[o] = m.ops[o]
        BY <1>1, <2>2
    <2>3. CASE c # None /\ s.ops[o] = [m.ops[o] EXCEPT !.recov = c.recov, !.fresh = c.fresh,
                                                       !.finp = FinalizationOnly(c)]
        BY <1>1, <2>1, <2>3, ZenonT(90) DEF OpRecord
    <2> QED BY <1>2, <2>2, <2>3
<1> HIDE DEF s
<1>4. op \in OpRecord /\ op.st = s.ops[o].st /\ op # None
    <2>1. op \in OpRecord /\ op.st = s.ops[o].st
        BY <1>3 DEF OpRecord
    <2> QED BY <2>1
<1> HIDE DEF op
<1>5. /\ q \in Processes /\ Talk(q, s) /\ Store(q, s) /\ q.act = s.act
      /\ q.ops[o] = op /\ \A k \in Ops \ {o} : q.ops[k] = s.ops[k]
    BY <1>1, <1>2, <1>4, SetIs
<1>6. q = [s EXCEPT !.ops[o].finp = FALSE]
    BY <1>2 DEF op, Processes
<1> HIDE DEF q
<1>7. /\ p \in Processes /\ Talk(p, q) /\ Store(p, q) /\ p.ops = q.ops /\ p.act = q.act
    <2>1. LET y == Promote(q)
          IN y \in Processes /\ Talk(y, q) /\ Store(y, q) /\ y.ops = q.ops /\ y.act = q.act
        BY <1>5, PromoteIs
    <2>2. Talk(q, q) /\ Store(q, q)
        BY DEF Talk, Store
    <2> QED BY <1>5, <2>1, <2>2
<1>8. FinishVerified(s, o, restricted) = f
    BY <1>6 DEF FinishVerified
<1> HIDE DEF p
<1>9. "Succeeded" \in OpStates /\ "" \in Modes
    BY DEF OpStates, Terminal, Modes
<1>10. EndsAs(f, p, o, "Succeeded")
    BY <1>1, <1>3, <1>4, <1>5, <1>7, <1>9, FinishEnds
<1> HIDE DEF f
<1>11. /\ f \in Processes /\ Store(f, s) /\ Talk(f, m) /\ f.act = None /\ f.ops[o] # None
       /\ f.ops[o].st \in Ended /\ \A k \in Ops \ {o} : f.ops[k] = s.ops[k]
    <2>1. f \in Processes /\ f.act = None /\ f.ops[o] # None /\ f.ops[o].st \in Ended
          /\ \A k \in Ops \ {o} : f.ops[k] = s.ops[k]
        BY <1>2, <1>5, <1>7, <1>10 DEF EndsAs, Ended
    <2>2. Store(f, s)
        BY <1>5, <1>7, <1>10 DEF EndsAs, Store
    <2>3. Talk(f, m)
        BY <1>2, <1>5, <1>7, <1>10 DEF EndsAs, Talk
    <2> QED BY <2>1, <2>2, <2>3
<1>12. Rest(f)
    BY <1>1, <1>11, RestTalk
<1>13. /\ Durable(s) /\ s.load = "yes" /\ s.snap.infl = None
       /\ f.snap = m.snap /\ f.fail = m.fail
    BY <1>1, <1>2, <1>11 DEF Store, Durable
<1>14. Neat(f, o)
    BY <1>11, <1>13 DEF Neat
<1> QED BY <1>1, <1>2, <1>8, <1>11, <1>12, <1>13, <1>14, SettledGood DEF s

LEMMA RetireGood ==
    ASSUME NEW r, NEW o, Held(r, o), r.act = o, NEW t \in Snapshot, t.infl = None,
           t.clean => r.snap.clean, t.cand \in {r.snap.cand, None},
           ~(t.cand # None /\ t.cand.op = o),
           r.snap.infl = None /\ r.snap.cand # None /\ r.snap.cand.op = o =>
               IsOf(r.ops[o], r.snap.cand),
           NEW restricted, NEW x \in Retire(r, t, o, restricted)
    PROVE  Good(x)
<1>1. PICK w \in WriteRetiring(r, t) :
         x = IF w.ok \/ RetiredIntoCleanup(w.r.snap)
             THEN FinishVerified(Sync(w.r), o, restricted) ELSE Finish(w.r, o, "Failed", "")
    BY DEF Retire, MutateRetiring, After
<1>2. r.ops[o].st \notin Terminal
    BY DEF Held
<1>3. CASE w.ok
    <2>1. Settling(w.r, o) /\ w.r.snap = t /\ w.r.ops = r.ops /\ w.r.act = r.act
        BY <1>3, WrittenSettling
    <2> QED BY <1>1, <1>2, <1>3, <2>1, VerifiedGood
<1>4. CASE ~w.ok /\ RetiredIntoCleanup(w.r.snap)
    <2>1. /\ Settling(w.r, o) /\ w.r.ops = r.ops /\ w.r.act = r.act /\ w.r.fail
          /\ w.r.snap.cand \in {t.cand, r.snap.cand}
          /\ w.r.snap.cand # t.cand => r.snap.infl = None
        BY <1>4, PendingSettling
    <2>2. w.r.snap.cand # None /\ w.r.snap.cand.op = o =>
             w.r.fail /\ IsOf(w.r.ops[o], w.r.snap.cand)
        BY <2>1
    <2> QED BY <1>1, <1>2, <1>4, <2>1, <2>2, VerifiedGood
<1>5. CASE ~w.ok /\ ~RetiredIntoCleanup(w.r.snap)
    <2>1. x = Finish(w.r, o, "Failed", "") /\ "Failed" \in Terminal /\ "" \in Modes
        BY <1>1, <1>5 DEF Terminal, Modes
    <2> QED BY <1>5, <2>1, UnretiredGood
<1> QED BY <1>3, <1>4, <1>5

\* The operation in the foreground, shown for the candidate it has become.
LEMMA ShownIs ==
    ASSUME NEW m, NEW o, Settling(m, o), m.act = o, m.snap.cand # None, m.snap.cand.op = o,
           IsOf(m.ops[o], m.snap.cand)
    PROVE  LET s == Sync(m)
           IN /\ s \in Processes /\ Talk(s, m) /\ Store(s, m) /\ s.act = o
              /\ s.ops[o] \in OpRecord /\ IsOf(s.ops[o], m.ops[o]) /\ s.ops[o].st = m.ops[o].st
<1> DEFINE s == Sync(m)
           c == m.snap.cand
<1>1. /\ m.ops[o] \in OpRecord /\ c \in Candidate
    BY ProcessParts, SnapshotParts DEF Settling
<1>2. /\ s \in Processes /\ Talk(s, m) /\ Store(s, m) /\ s.act = m.act
      /\ s.ops[o] = [m.ops[o] EXCEPT !.recov = c.recov, !.fresh = c.fresh,
                                     !.finp = FinalizationOnly(c)]
    BY <1>1, SyncNeat DEF Settling, IsOf
<1>3. c.recov \in BOOLEAN /\ c.fresh \in BOOLEAN /\ FinalizationOnly(c) \in BOOLEAN
    BY <1>1 DEF Candidate, FinalizationOnly
<1> HIDE DEF s
<1>4. s.ops[o] \in OpRecord /\ IsOf(s.ops[o], m.ops[o]) /\ s.ops[o].st = m.ops[o].st
    BY <1>1, <1>2, <1>3, ZenonT(90) DEF OpRecord, IsOf
<1> QED BY <1>2, <1>4 DEF s

\* It is offered as a retry, whatever is said of its end.
LEMMA OfferedGood ==
    ASSUME NEW m, NEW o, Settling(m, o), m.act = o, m.ops[o].st \notin Terminal,
           m.snap.cand # None, m.snap.cand.op = o, ~FinalizationOnly(m.snap.cand),
           IsOf(m.ops[o], m.snap.cand), NEW term \in Outcomes, NEW sure \in BOOLEAN
    PROVE  LET u == [Sync(m) EXCEPT !.ops[o] = [@ EXCEPT !.term = term, !.recov = sure,
                                                         !.fresh = sure, !.finp = FALSE]]
               f == Finish(u, o, "RetryAvailable", "PreparedMedia")
           IN Good(f) /\ f.act = None /\ f.load = "yes" /\ f \in Processes
<1> DEFINE s == Sync(m)
           op == [s.ops[o] EXCEPT !.term = term, !.recov = sure, !.fresh = sure, !.finp = FALSE]
           u == [s EXCEPT !.ops[o] = op]
           f == Finish(u, o, "RetryAvailable", "PreparedMedia")
<1>1. /\ s \in Processes /\ Talk(s, m) /\ Store(s, m) /\ s.act = o /\ o \in Ops
      /\ s.ops[o] \in OpRecord /\ IsOf(s.ops[o], m.ops[o]) /\ s.ops[o].st = m.ops[o].st
    BY ShownIs DEF Settling
<1> HIDE DEF s
<1>2. op \in OpRecord /\ IsOf(op, m.ops[o]) /\ op.st = m.ops[o].st
    BY <1>1, ZenonT(90) DEF OpRecord, IsOf
<1>3. [s EXCEPT !.ops[o] = [@ EXCEPT !.term = term, !.recov = sure,
                                     !.fresh = sure, !.finp = FALSE]] = u
    BY <1>1 DEF Processes
<1> HIDE DEF op
<1>4. /\ u \in Processes /\ Talk(u, s) /\ Store(u, s) /\ u.act = s.act
      /\ u.ops[o] = op /\ \A k \in Ops \ {o} : u.ops[k] = s.ops[k]
    BY <1>1, <1>2, SetIs
<1> HIDE DEF u
<1>5. Talk(u, m) /\ Store(u, m) /\ u.act = o
    BY <1>1, <1>4 DEF Talk, Store
<1>6. u.ops[o] # None /\ u.ops[o].st = m.ops[o].st /\ IsOf(u.ops[o], m.ops[o])
      /\ \A k \in Ops \ {o} : u.ops[k] = Sync(m).ops[k]
    BY <1>2, <1>4 DEF s
<1>7. Good(f) /\ f.act = None /\ f.load = "yes" /\ f \in Processes
    BY <1>4, <1>5, <1>6, RetryGood
<1> QED BY <1>3, <1>7 DEF s

\* The local commit of a verified upload is put off.
Deferred(m, o, restricted) ==
    LET s == Sync(m)
        u == [s EXCEPT !.ops[o] = [@ EXCEPT !.term = "NotStarted", !.recov = FALSE,
                                            !.fresh = FALSE, !.finp = FALSE]]
        f == Finish(u, o, "RetryAvailable", "PreparedMedia")
    IN IF restricted THEN Promote(f) ELSE f

LEMMA DeferredGood ==
    ASSUME NEW m, NEW o, Settling(m, o), m.act = o, m.ops[o].st \notin Terminal,
           m.snap.cand # None, m.snap.cand.op = o, ~FinalizationOnly(m.snap.cand),
           IsOf(m.ops[o], m.snap.cand), NEW restricted
    PROVE  Good(Deferred(m, o, restricted))
<1> DEFINE f == Finish([Sync(m) EXCEPT !.ops[o] = [@ EXCEPT !.term = "NotStarted", !.recov = FALSE,
                                            !.fresh = FALSE, !.finp = FALSE]],
                       o, "RetryAvailable", "PreparedMedia")
<1>1. Good(f)
    <2>1. "NotStarted" \in Outcomes
        BY DEF Outcomes
    <2> QED BY <2>1, OfferedGood
<1>2. Deferred(m, o, restricted) = IF restricted THEN Promote(f) ELSE f
    BY DEF Deferred
<1> HIDE DEF f
<1>3. Good(Promote(f))
    BY <1>1, PromoteGood
<1> QED BY <1>1, <1>2, <1>3

\* The record of a verified upload, in the hands of its operation.
Verifies(r, o) ==
    /\ Held(r, o) /\ r.act = o
    /\ r.snap.infl = None => /\ r.snap.cand # None /\ r.snap.cand.op = o
                             /\ IsOf(r.ops[o], r.snap.cand)
    /\ r.snap.infl # None => r.snap.infl.op = o /\ IsOf(r.ops[o], r.snap.infl)

\* What the commit writes first.
LEMMA BegunIs ==
    ASSUME NEW r, NEW o, Verifies(r, o), CanBeginLocalCommit(r.snap)
    PROVE  LET t == BeginLocalCommit(r.snap)
           IN /\ t \in Snapshot /\ ~t.clean
              /\ t.infl # None /\ t.infl.op = o /\ t.infl.phase = "LocalCommitPending"
              /\ IsOf(r.ops[o], t.infl)
              /\ t.cand \in {r.snap.cand, None} /\ (t.cand # None => t.cand.op # o)
              /\ t.cand # r.snap.cand => r.snap.cand.op = o
<1> DEFINE t == BeginLocalCommit(r.snap)
<1>1. r.snap \in Snapshot /\ Apart(r.snap)
    BY ProcessParts DEF Verifies, Held, Durable
<1>2. t \in Snapshot
    BY <1>1, CommitStays
<1>3. CASE r.snap.infl # None
    <2>1. r.snap.infl \in Dispatch
        BY <1>1, <1>3, SnapshotParts
    <2>2. /\ t.cand = r.snap.cand /\ t.clean = r.snap.clean
          /\ t.infl = [r.snap.infl EXCEPT !.phase = "LocalCommitPending"]
        BY <1>1, <1>3 DEF BeginLocalCommit, Snapshot
    <2>3. t.infl.op = o /\ t.infl.phase = "LocalCommitPending" /\ IsOf(r.ops[o], t.infl)
        BY <1>3, <2>1, <2>2 DEF Verifies, IsOf, Dispatch
    <2>4. t.infl # None
        <3>1. [r.snap.infl EXCEPT !.phase = "LocalCommitPending"] \in Dispatch
            BY <2>1 DEF Dispatch, Phases
        <3> QED BY <2>2, <3>1
    <2> QED BY <1>1, <1>2, <1>3, <2>2, <2>3, <2>4, SnapshotParts DEF Apart, Verifies
<1>4. CASE r.snap.infl = None
    <2>1. ~r.snap.clean
        BY <1>4 DEF CanBeginLocalCommit
    <2> DEFINE c == r.snap.cand
               d == [op |-> c.op, disp |-> c.disp, lin |-> c.lin, name |-> c.name,
                     dev |-> c.dev, phase |-> "LocalCommitPending", shared |-> FALSE]
    <2>2. /\ t.cand = None /\ t.clean = r.snap.clean /\ t.infl = d
        BY <1>1, <1>4 DEF BeginLocalCommit, Snapshot
    <2>3. d # None
        <3>1. c \in Candidate
            BY <1>1, <1>4, SnapshotParts DEF Verifies
        <3>2. d \in Dispatch
            BY <3>1 DEF Dispatch, Candidate, Phases
        <3> QED BY <3>2
    <2> QED BY <1>2, <1>4, <2>1, <2>2, <2>3 DEF Verifies, IsOf
<1> QED BY <1>3, <1>4

\* The operation that commits is held while it does.
LEMMA BegunHeld ==
    ASSUME NEW r, NEW o, Verifies(r, o), CanBeginLocalCommit(r.snap),
           NEW w \in Write(r, BeginLocalCommit(r.snap)), w.ok
    PROVE  /\ Held(w.r, o) /\ w.r.act = o /\ w.r.ops = r.ops
           /\ w.r.snap = BeginLocalCommit(r.snap) /\ ~w.r.fail
<1> DEFINE t == BeginLocalCommit(r.snap)
           m == w.r
<1>1. /\ t \in Snapshot /\ ~t.clean
      /\ t.infl # None /\ t.infl.op = o /\ t.infl.phase = "LocalCommitPending"
      /\ t.cand \in {r.snap.cand, None} /\ (t.cand # None => t.cand.op # o)
      /\ t.cand # r.snap.cand => r.snap.cand.op = o
    BY BegunIs
<1>2. r \in Processes /\ o \in Ops /\ r.load = "yes" /\ Offers(r) /\ Rest(r) /\ r.act = o
      /\ r.ops[o] # None /\ r.ops[o].st \notin Terminal /\ \A p \in Ops \ {o} : Over(r, p)
    BY DEF Verifies, Held
<1> HIDE DEF t
<1>3. Wrote(w, r, t)
    BY <1>1, <1>2, WriteIs DEF t
<1>4. /\ m \in Processes /\ Talk(m, r) /\ m.ops = r.ops /\ m.act = r.act
      /\ m.load = r.load /\ ~r.fail /\ ~m.fail /\ m.snap = t /\ m.disk = t
    BY <1>3 DEF Wrote
<1> HIDE DEF m
<1>5. Rest(m)
    BY <1>2, <1>4, RestTalk
<1>6. Durable(m)
    BY <1>1, <1>4 DEF Durable, Apart, Fenced, FencePhases
<1>7. Offers(m)
    <2> SUFFICES ASSUME NEW p \in Ops, r.ops[p] # None, r.ops[p].st = "RetryAvailable"
                 PROVE  /\ Known(r.ops[p])
                        /\ \/ t.cand # None /\ t.cand.op = p
                           \/ r.ops[p].retry /\ (m.fail \/ t.cand = None)
                           \/ m.fail /\ t.clean /\ t.cand = None
        BY <1>4 DEF Offers
    <2>1. /\ Known(r.ops[p])
          /\ \/ r.snap.cand # None /\ r.snap.cand.op = p
             \/ r.ops[p].retry /\ r.snap.cand = None
        BY <1>2, <1>4 DEF Offers
    <2>2. p # o
        BY <1>2 DEF Terminal
    <2> QED BY <1>1, <2>1, <2>2
<1>8. Held(m, o)
    BY <1>2, <1>4, <1>5, <1>6, <1>7 DEF Held, Over
<1> QED BY <1>2, <1>4, <1>8 DEF m, t

\* What remains to do once the commit is recorded.
Begun(m, o, restricted) ==
    Retire(m, RetireAcknowledged(m.snap), o, restricted) \cup
    IF m.faults = MaxFaults THEN {}
    ELSE UNION {IF w.ok THEN {Deferred(w.r, o, restricted)} ELSE {Finish(w.r, o, "Failed", "")} :
                  w \in Write([m EXCEPT !.faults = @ + 1], DeferLocalCommit(m.snap))}

LEMMA BegunGood ==
    ASSUME NEW m, NEW o, Held(m, o), m.act = o, m.snap.infl # None, m.snap.infl.op = o,
           m.snap.infl.phase = "LocalCommitPending", IsOf(m.ops[o], m.snap.infl), NEW restricted,
           NEW x \in Begun(m, o, restricted)
    PROVE  Good(x)
<1> DEFINE t == RetireAcknowledged(m.snap)
           u == DeferLocalCommit(m.snap)
           q == [m EXCEPT !.faults = @ + 1]
<1>1. /\ m \in Processes /\ m.snap \in Snapshot /\ m.snap.infl \in Dispatch
      /\ m.ops[o] # None /\ m.ops[o].st \notin Terminal
      /\ m.snap.cand # None => m.snap.cand.op # o
    BY ProcessParts, SnapshotParts DEF Held, Durable, Apart
<1>2. CASE x \in Retire(m, t, o, restricted)
    <2>1. /\ t \in Snapshot /\ t.infl = None /\ t.clean = m.snap.clean
          /\ t.cand \in {m.snap.cand, None}
        BY <1>1, RetirementsStay DEF RetireAcknowledged, Snapshot
    <2> HIDE DEF t
    <2> QED BY <1>1, <1>2, <2>1, RetireGood
<1>3. CASE /\ m.faults # MaxFaults
           /\ \E w \in Write(q, u) :
                 x = IF w.ok THEN Deferred(w.r, o, restricted) ELSE Finish(w.r, o, "Failed", "")
    <2>0. m.faults + 1 \in 0 .. MaxFaults
        BY <1>1, <1>3, FaultsCounted
    <2>1. /\ q \in Processes /\ Talk(q, m) /\ Store(q, m) /\ q.ops = m.ops /\ q.act = m.act
        BY <1>1, <2>0 DEF Processes, Talk, Store
    <2>2. /\ u \in Snapshot /\ u.infl = None /\ u.clean = m.snap.clean
          /\ u.cand = CandidateOf(m.snap.infl, "NotStarted", FALSE, FALSE)
        BY <1>1, OutcomesStay DEF DeferLocalCommit, Snapshot
    <2>3. /\ u.cand # None /\ u.cand.op = o /\ ~FinalizationOnly(u.cand)
          /\ IsOf(m.ops[o], u.cand)
        <3>1. u.cand # None
            <4>1. CandidateOf(m.snap.infl, "NotStarted", FALSE, FALSE) \in Candidate
                BY <1>1 DEF CandidateOf, Candidate, Dispatch, Outcomes
            <4> QED BY <2>2, <4>1
        <3> HIDE DEF u
        <3>2. /\ u.cand.op = m.snap.infl.op /\ u.cand.lin = m.snap.infl.lin
              /\ u.cand.disp = m.snap.infl.disp /\ u.cand.name = m.snap.infl.name
              /\ u.cand.dev = m.snap.infl.dev /\ u.cand.out = "NotStarted"
            BY <2>2 DEF CandidateOf
        <3> QED BY <3>1, <3>2 DEF IsOf, FinalizationOnly
    <2> HIDE DEF q, u
    <2>4. Held(q, o)
        BY <1>1, <2>1, HeldStays
    <2>5. PICK w \in Write(q, u) :
             x = IF w.ok THEN Deferred(w.r, o, restricted) ELSE Finish(w.r, o, "Failed", "")
        BY <1>3
    <2>6. CASE w.ok
        <3>1. w \in WriteRetiring(q, u) /\ (u.clean => q.snap.clean)
            BY <2>1, <2>2 DEF WriteRetiring, Store
        <3>2. Settling(w.r, o) /\ w.r.snap = u /\ w.r.ops = q.ops /\ w.r.act = q.act
            <4>1. u \in Snapshot /\ u.infl = None
                BY <2>2
            <4> QED BY <2>4, <2>6, <3>1, <4>1, WrittenSettling
        <3> QED BY <1>1, <2>1, <2>3, <2>5, <2>6, <3>2, DeferredGood
    <2>7. CASE ~w.ok
        <3>1. Apart(u) /\ ~Fenced(u) /\ "Failed" \in Terminal /\ "" \in Modes
            BY <2>2 DEF Apart, Fenced, Terminal, Modes
        <3> QED BY <2>2, <2>4, <2>5, <2>7, <3>1, UnsavedGood
    <2> QED BY <2>6, <2>7
<1>4. CASE x \notin Retire(m, t, o, restricted)
    <2>1. /\ m.faults # MaxFaults
          /\ x \in UNION {IF w.ok THEN {Deferred(w.r, o, restricted)}
                         ELSE {Finish(w.r, o, "Failed", "")} : w \in Write(q, u)}
        BY <1>4 DEF Begun
    <2> HIDE DEF q, u
    <2>2. \E w \in Write(q, u) :
             x = IF w.ok THEN Deferred(w.r, o, restricted) ELSE Finish(w.r, o, "Failed", "")
        <3>1. PICK w \in Write(q, u) :
                 x \in IF w.ok THEN {Deferred(w.r, o, restricted)}
                       ELSE {Finish(w.r, o, "Failed", "")}
            BY <2>1
        <3>2. x = IF w.ok THEN Deferred(w.r, o, restricted) ELSE Finish(w.r, o, "Failed", "")
            BY <3>1
        <3> QED BY <3>2
    <2> QED BY <1>3, <2>1, <2>2
<1> QED BY <1>2, <1>4

LEMMA CommitGood ==
    ASSUME NEW r, NEW o, Verifies(r, o), NEW restricted, NEW x \in CommitLocally(r, o, restricted)
    PROVE  Good(x)
<1>1. Held(r, o) /\ r \in Processes /\ "Failed" \in Terminal /\ "" \in Modes
    BY DEF Verifies, Held, Terminal, Modes
<1>2. CASE ~CanBeginLocalCommit(r.snap)
    <2> DEFINE b == [r EXCEPT !.fail = TRUE]
    <2>1. x = Finish(b, o, "Failed", "")
        BY <1>2 DEF CommitLocally
    <2>2. /\ b \in Processes /\ Talk(b, r) /\ b.ops = r.ops /\ b.act = r.act /\ b.load = r.load
          /\ b.fail /\ b.snap = r.snap /\ b.disk = r.disk
        BY <1>1 DEF Processes, Talk
    <2> HIDE DEF b
    <2>3. Durable(b) /\ b.load = "yes"
        BY <1>1, <2>2 DEF Held, Durable
    <2> QED BY <1>1, <2>1, <2>2, <2>3, FailedGood
<1>3. CASE CanBeginLocalCommit(r.snap)
    <2> DEFINE t == BeginLocalCommit(r.snap)
    <2>0. PICK w \in Write(r, t) :
             x \in IF w.ok THEN Begun(w.r, o, restricted) ELSE {Finish(w.r, o, "Failed", "")}
        BY <1>3 DEF CommitLocally, Mutate, After, Deferred, Begun
    <2>2. /\ t \in Snapshot /\ ~t.clean
          /\ t.infl # None /\ t.infl.op = o /\ t.infl.phase = "LocalCommitPending"
          /\ IsOf(r.ops[o], t.infl) /\ (t.cand # None => t.cand.op # o)
        BY <1>3, BegunIs
    <2>3. CASE w.ok
        <3>1. Held(w.r, o) /\ w.r.act = o /\ w.r.ops = r.ops /\ w.r.snap = t
            BY <1>3, <2>3, BegunHeld
        <3> HIDE DEF t
        <3> QED BY <2>0, <2>2, <2>3, <3>1, BegunGood
    <2>4. CASE ~w.ok
        <3>1. Apart(t) /\ ~Fenced(t)
            BY <2>2 DEF Apart, Fenced, FencePhases
        <3> HIDE DEF t
        <3> QED BY <1>1, <2>0, <2>2, <2>4, <3>1, UnsavedGood
    <2> QED BY <2>3, <2>4
<1> QED BY <1>2, <1>3

LEMMA VerifiedUploadGood ==
    ASSUME NEW r, NEW o, Verifies(r, o), NEW restricted, NEW x \in VerifiedUpload(r, o, restricted)
    PROVE  Good(x)
<1> DEFINE t == IF r.snap.infl = None THEN ClearCandidate(r.snap) ELSE RetireAcknowledged(r.snap)
<1>1. CASE x \in CommitLocally(r, o, restricted)
    BY <1>1, CommitGood
<1>2. CASE x \in Retire(r, t, o, restricted)
    <2>1. Held(r, o) /\ r.act = o /\ r.snap \in Snapshot /\ Apart(r.snap)
        BY ProcessParts DEF Verifies, Held, Durable
    <2>2. /\ t \in Snapshot /\ t.infl = None /\ t.clean = r.snap.clean
          /\ t.cand \in {r.snap.cand, None}
          /\ ~(t.cand # None /\ t.cand.op = o)
        BY <2>1, RetirementsStay DEF RetireAcknowledged, ClearCandidate, Snapshot, Verifies, Apart
    <2> HIDE DEF t
    <2> QED BY <1>2, <2>1, <2>2, RetireGood DEF Verifies
<1> QED BY <1>1, <1>2 DEF VerifiedUpload

-----------------------------------------------------------------------------
(* The answers to a look at the file list                                     *)

\* The operation that is being verified.
Reconciles(r, o) ==
    \/ r.snap.cand # None /\ r.snap.cand.op = o /\ FinalizationOnly(r.snap.cand)
    \/ Fenced(r.snap) /\ r.snap.infl.op = o

LEMMA ReconcilesWaits ==
    ASSUME NEW r, Good(r), NEW o, o = r.act, o # None, Reconciles(r, o)
    PROVE  Waits(r.snap, o, r.ops[o]) /\ r.ops[o].st = "Recovering" /\ o \in Ops
<1>1. o \in Ops /\ r.ops[o] # None
    BY ProcessParts DEF Good, Surface, Foreground
<1>2. r.ops[o].st = "Recovering"
    <2>1. CASE r.snap.cand # None /\ r.snap.cand.op = o
        BY <2>1 DEF Good, Surface, Foreground
    <2>2. CASE Fenced(r.snap)
        BY <2>2 DEF Good, Surface, Foreground, Starting, Sending, Fenced, FencePhases
    <2> QED BY <2>1, <2>2 DEF Reconciles
<1>3. ~Resolved(r, o, r.ops[o])
    BY DEF Reconciles, Resolved, Fenced
<1> QED BY <1>1, <1>2, <1>3 DEF Good, Surface, Waiting

LEMMA PauseGood ==
    ASSUME NEW r, NEW o, Held(r, o), Waits(r.snap, o, r.ops[o]),
           ~r.fail /\ r.snap.infl # None => r.snap.infl.phase = "ShadowMissingFence"
    PROVE  LET p == Pause(r, o)
           IN Good(p) /\ p.act = None /\ p.load = "yes" /\ Talk(p, r) /\ Store(p, r)
<1> DEFINE p == Pause(r, o)
<1>1. r \in Processes /\ o \in Ops /\ r.ops[o] # None /\ r.act \in {None, o} /\ Rest(r)
      /\ r.load = "yes"
    BY DEF Held
<1>2. /\ p \in Processes /\ Talk(p, r) /\ Store(p, r)
      /\ p.ops[o] \in OpRecord /\ p.ops[o].st = "Recovering"
      /\ IsOf(p.ops[o], r.ops[o])
      /\ \A k \in Ops \ {o} : p.ops[k] = r.ops[k]
      /\ p.act = IF r.act = o THEN None ELSE r.act
    BY <1>1, PauseIs
<1> HIDE DEF p
<1>3. p.act = None /\ p.ops[o] # None /\ p.load = "yes" /\ Rest(p)
    BY <1>1, <1>2, RestTalk DEF Store
<1>4. Good(p)
    BY <1>2, <1>3, PausedGood
<1> QED BY <1>2, <1>3, <1>4 DEF p

\* The list shows that the upload is not on the device: a retry may be asked for.
Refuted(m, o) ==
    LET s == Sync(m)
        u == [s EXCEPT !.ops[o] = [@ EXCEPT !.term = "PartialOrUnknown", !.recov = TRUE,
                                            !.fresh = TRUE, !.finp = FALSE]]
    IN RequireRecovery(Finish(u, o, "RetryAvailable", "PreparedMedia"))

LEMMA RefutedGood ==
    ASSUME NEW m, NEW o, Settling(m, o), m.act = o, m.ops[o].st \notin Terminal,
           m.snap.cand # None, m.snap.cand.op = o, ~FinalizationOnly(m.snap.cand),
           IsOf(m.ops[o], m.snap.cand)
    PROVE  Good(Refuted(m, o))
<1> DEFINE f == Finish([Sync(m) EXCEPT !.ops[o] = [@ EXCEPT !.term = "PartialOrUnknown",
                                  !.recov = TRUE, !.fresh = TRUE, !.finp = FALSE]],
                       o, "RetryAvailable", "PreparedMedia")
<1>1. Good(f) /\ f.act = None /\ f.load = "yes"
    <2>1. "PartialOrUnknown" \in Outcomes
        BY DEF Outcomes
    <2> QED BY <2>1, OfferedGood, ZenonT(90)
<1>2. Refuted(m, o) = RequireRecovery(f)
    BY DEF Refuted
<1> HIDE DEF f
<1> QED BY <1>1, <1>2, RecoveryGood

\* What the proof that a finalization failed makes of the candidate.
LEMMA ResolvedIs ==
    ASSUME NEW s \in Snapshot, s.cand # None
    PROVE  LET t == ResolveFinalization(s)
           IN /\ t \in Snapshot /\ t.infl = s.infl /\ t.clean = s.clean
              /\ t.cand # None /\ t.cand.op = s.cand.op /\ ~FinalizationOnly(t.cand)
              /\ \A op : IsOf(op, s.cand) => IsOf(op, t.cand)
<1> DEFINE t == ResolveFinalization(s)
           c == [s.cand EXCEPT !.out = "PartialOrUnknown", !.fresh = TRUE]
<1>1. s.cand \in Candidate
    BY SnapshotParts
<1>2. t \in Snapshot /\ t.infl = s.infl /\ t.clean = s.clean /\ t.cand = c
    BY ProofsStay DEF ResolveFinalization, Snapshot
<1>3. /\ c.op = s.cand.op /\ c.lin = s.cand.lin /\ c.disp = s.cand.disp /\ c.name = s.cand.name
      /\ c.dev = s.cand.dev /\ c.out = "PartialOrUnknown"
    BY <1>1 DEF Candidate
<1>4. c # None
    <2>1. c \in Candidate
        BY <1>1 DEF Candidate, Outcomes
    <2> QED BY <2>1
<1> HIDE DEF c, t
<1> QED BY <1>2, <1>3, <1>4 DEF IsOf, FinalizationOnly, t

LEMMA ReconcileListGood ==
    ASSUME NEW r, Good(r), NEW o, o = r.act, o # None, Free(r, o, r.ops[o].gen),
           Reconciles(r, o), NEW exact \in BOOLEAN, NEW x \in ReconcileWithFileList(r, o, exact)
    PROVE  Good(x)
<1>1. Waits(r.snap, o, r.ops[o]) /\ r.ops[o].st = "Recovering" /\ o \in Ops
    BY ReconcilesWaits
<1>2. Held(r, o)
    BY AnsweredRest, AnsweredHeld
<1>3. r.snap \in Snapshot /\ r.ops[o].st \notin Terminal
    BY <1>1, ProcessParts DEF Good, Terminal
<1>4. CASE exact
    <2>1. Verifies(r, o)
        BY <1>1, <1>2 DEF Verifies, Waits, Awaited, Fenced
    <2>2. x \in VerifiedUpload(r, o, TRUE)
        BY <1>4 DEF ReconcileWithFileList
    <2> QED BY <2>1, <2>2, VerifiedUploadGood
<1>5. CASE ~exact /\ Fenced(r.snap)
    <2>1. x = RequireRecovery(Pause(r, o))
        BY <1>5 DEF ReconcileWithFileList
    <2>2. ~r.fail /\ r.snap.infl # None => r.snap.infl.phase = "ShadowMissingFence"
        BY <1>5 DEF Good, Surface, Records, Fenced, FencePhases
    <2>3. LET p == Pause(r, o) IN Good(p) /\ p.act = None /\ p.load = "yes"
        BY <1>1, <1>2, <2>2, PauseGood
    <2> QED BY <2>1, <2>3, RecoveryGood
<1>6. CASE ~exact /\ ~Fenced(r.snap)
    <2> DEFINE t == ResolveFinalization(r.snap)
    <2>1. /\ r.snap.infl = None /\ r.snap.cand # None /\ r.snap.cand.op = o
          /\ IsOf(r.ops[o], r.snap.cand)
        BY <1>1, <1>6 DEF Waits, Awaited
    <2>2. /\ t \in Snapshot /\ t.infl = None /\ t.clean = r.snap.clean
          /\ t.cand # None /\ t.cand.op = o /\ ~FinalizationOnly(t.cand)
          /\ IsOf(r.ops[o], t.cand)
        BY <1>3, <2>1, ResolvedIs
    <2>3. PICK w \in Write(r, t) :
             x = IF w.ok THEN Refuted(w.r, o) ELSE Finish(w.r, o, "Failed", "")
        BY <1>6 DEF ReconcileWithFileList, Mutate, After, Refuted
    <2> HIDE DEF t
    <2>4. CASE w.ok
        <3>1. w \in WriteRetiring(r, t) /\ (t.clean => r.snap.clean)
            BY <2>2 DEF WriteRetiring
        <3>2. Settling(w.r, o) /\ w.r.snap = t /\ w.r.ops = r.ops /\ w.r.act = r.act
            BY <1>2, <2>2, <2>4, <3>1, WrittenSettling
        <3> QED BY <1>3, <2>2, <2>3, <2>4, <3>2, RefutedGood
    <2>5. CASE ~w.ok
        <3>1. Apart(t) /\ ~Fenced(t) /\ "Failed" \in Terminal /\ "" \in Modes
            BY <2>2 DEF Apart, Fenced, Terminal, Modes
        <3> QED BY <1>2, <2>2, <2>3, <2>5, <3>1, UnsavedGood
    <2> QED BY <2>4, <2>5
<1> QED BY <1>4, <1>5, <1>6

-----------------------------------------------------------------------------
(* The start of a transfer                                                    *)

\* Operation o is to be dispatched, and waits for no answer.
Started(r, o) ==
    /\ Good(r) /\ o = r.act /\ o # None /\ Free(r, o, r.ops[o].gen)
    /\ Starting(r, r.ops[o]) /\ r.ops[o].st = "Preflight" /\ ~r.ops[o].pre

LEMMA StartedHeld ==
    ASSUME NEW r, NEW o, Started(r, o)
    PROVE  /\ Held(r, o) /\ r.act = o /\ o \in Ops /\ r \in Processes /\ Rest(r) /\ Free(r, o, r.gen)
           /\ r.snap.infl = None /\ r.ops[o] # None /\ r.ops[o] \in OpRecord
           /\ r.ops[o].st = "Preflight"
           /\ r.ops[o].disp \in Uids /\ r.ops[o].name \in Uids
           /\ r.snap.cand # None => r.snap.cand.op # o /\ ~FinalizationOnly(r.snap.cand)
<1>1. Held(r, o) /\ Rest(r) /\ Free(r, o, r.gen)
    BY AnsweredRest, AnsweredHeld DEF Started
<1>2. r.ops[o] # None /\ r.ops[o].disp \in Uids /\ r.ops[o].name \in Uids
    BY DEF Started, Good, Surface, Foreground
<1>3. r.snap.cand # None => r.snap.cand.op # o /\ ~FinalizationOnly(r.snap.cand)
    BY DEF Started, Good, Surface, Foreground
<1>4. o \in Ops /\ r \in Processes /\ r.ops[o] \in OpRecord
    BY <1>1, <1>2, ProcessParts DEF Held
<1> QED BY <1>1, <1>2, <1>3, <1>4 DEF Started, Starting

\* It ends before anything was written.
LEMMA StartedEnds ==
    ASSUME NEW r, NEW o, Started(r, o), NEW q \in Processes, Talk(q, r), Store(q, r), q.act = o,
           q.ops[o] # None, q.ops[o].st = "Preflight", \A p \in Ops \ {o} : q.ops[p] = r.ops[p],
           q.ops[o].retry = r.ops[o].retry, q.ops[o].name = r.ops[o].name,
           q.ops[o].lin = r.ops[o].lin,
           NEW st, NEW mode \in Modes,
           \/ st \in Dropped
           \/ r.snap.cand = None /\ st = "RetryAvailable" /\ r.ops[o].retry
    PROVE  Good(Finish(q, o, st, mode))
<1> DEFINE f == Finish(q, o, st, mode)
<1>1. /\ r.act = o /\ o \in Ops /\ r \in Processes /\ Rest(r) /\ r.snap.infl = None
      /\ r.ops[o].st = "Preflight"
    BY StartedHeld
<1>2. st \in OpStates /\ q.ops[o].st \notin Terminal
    BY DEF OpStates, Terminal, Dropped
<1>3. EndsAs(f, q, o, st)
    BY <1>1, <1>2, FinishEnds
<1> HIDE DEF f
<1>4. /\ f \in Processes /\ f.act = None /\ f.ops[o] # None /\ f.ops[o].st = st
      /\ \A p \in Ops \ {o} : f.ops[p] = r.ops[p]
      /\ f.ops[o].retry = r.ops[o].retry
      /\ f.ops[o].name = r.ops[o].name /\ f.ops[o].lin = r.ops[o].lin
    BY <1>3 DEF EndsAs, IsOf
<1>5. Store(f, r) /\ Rest(f)
    <2>1. Rest(q)
        BY <1>1, RestTalk
    <2>2. Rest(f)
        BY <1>3, <2>1, RestTalk DEF EndsAs
    <2> QED BY <1>3, <2>2 DEF EndsAs, Store
<1>6. st = "RetryAvailable" => Known(f.ops[o])
    <2>1. r.ops[o].name \in Uids /\ (r.ops[o].retry => r.ops[o].lin # 0)
        BY StartedHeld DEF Started, Starting
    <2> QED BY <1>4, <2>1 DEF Known, Dropped
<1>7. Good(r) /\ r.act # None
    BY DEF Started
<1> QED BY <1>1, <1>4, <1>5, <1>6, <1>7, EndedGood DEF f

\* The media is on the device already.
LEMMA ConsumeGood ==
    ASSUME NEW r, NEW o, Started(r, o), r.ops[o].retry, NEW x \in ConsumeCandidate(r, o)
    PROVE  Good(x)
<1> DEFINE t == ClearCandidate(r.snap)
           gone(b) == RetiredIntoCleanup(b.snap) /\ b.snap.cand = None
           st(b) == IF gone(b) THEN "Succeeded" ELSE "RetryAvailable"
           mode(b) == IF gone(b) THEN "" ELSE "PreparedMedia"
           u == [r EXCEPT !.ops[o].term = "NotStarted", !.faults = @ + 1]
<1>1. /\ Held(r, o) /\ r.act = o /\ o \in Ops /\ r \in Processes /\ Rest(r)
      /\ r.snap.infl = None /\ r.ops[o] # None /\ r.ops[o] \in OpRecord /\ r.ops[o].st = "Preflight"
    BY StartedHeld
<1>2. Known(r.ops[o])
    BY StartedHeld DEF Started, Starting, Known
<1>3. \A b : st(b) \in Terminal /\ mode(b) \in Modes
    BY DEF Terminal, Modes
<1>4. r.snap \in Snapshot
    BY <1>1, ProcessParts
<1>5. CASE ~CanClearCandidate(r.snap) /\ x = Finish(r, o, st(r), mode(r))
    <2>1. CASE r.fail
        <3>1. Talk(r, r) /\ Durable(r) /\ r.load = "yes"
            BY <1>1 DEF Talk, Held
        <3> HIDE DEF st, mode
        <3> QED BY <1>1, <1>2, <1>3, <1>5, <2>1, <3>1, FailedGood
    <2>2. CASE ~r.fail
        <3>1. r.snap.cand = None /\ ~r.snap.clean
            BY <1>1, <1>5, <2>2 DEF CanClearCandidate, Held, Durable
        <3>2. x = Finish(r, o, "RetryAvailable", "PreparedMedia") /\ "PreparedMedia" \in Modes
            BY <1>5, <3>1 DEF RetiredIntoCleanup, Modes
        <3>3. Talk(r, r) /\ Store(r, r)
            BY DEF Talk, Store
        <3> QED BY <1>1, <3>1, <3>2, <3>3, StartedEnds
    <2> QED BY <2>1, <2>2
<1>6. ASSUME CanClearCandidate(r.snap), NEW w \in WriteRetiring(r, t),
             x = IF w.ok THEN Finish(Sync(w.r), o, "Succeeded", "")
                 ELSE Finish(w.r, o, st(w.r), mode(w.r))
      PROVE  Good(x)
    <2>1. t \in Snapshot /\ t.infl = None /\ t.clean = r.snap.clean /\ t.cand = None
        BY <1>1, <1>4, RetirementsStay DEF ClearCandidate, Snapshot
    <2> HIDE DEF t, st, mode
    <2>2. CASE w.ok
        <3>1. Settling(w.r, o) /\ w.r.snap = t /\ w.r.ops = r.ops /\ w.r.act = r.act
            BY <1>1, <2>1, <2>2, WrittenSettling
        <3>2. "Succeeded" \in Ended /\ "" \in Modes /\ w.r.ops[o].st \notin Terminal
            BY <1>1, <3>1 DEF Ended, Modes, Terminal
        <3> QED BY <1>1, <1>6, <2>1, <2>2, <3>1, <3>2, RetiredGood
    <2>3. CASE ~w.ok
        <3>1. x = Finish(w.r, o, st(w.r), mode(w.r)) /\ st(w.r) \in Terminal /\ mode(w.r) \in Modes
            BY <1>3, <1>6, <2>3
        <3> QED BY <1>1, <1>2, <2>1, <2>3, <3>1, UnretiredGood
    <2> QED BY <2>2, <2>3
<1>7. CASE r.faults # MaxFaults /\ x = Finish(u, o, "Failed", "")
    <2> DEFINE op == [r.ops[o] EXCEPT !.term = "NotStarted"]
               q == [r EXCEPT !.ops[o] = op]
    <2>1. op \in OpRecord /\ op.st = r.ops[o].st /\ op.retry = r.ops[o].retry
          /\ op.name = r.ops[o].name /\ op.lin = r.ops[o].lin
        BY <1>1, ZenonT(90) DEF OpRecord, Outcomes
    <2> HIDE DEF op
    <2>2. /\ q \in Processes /\ Talk(q, r) /\ Store(q, r) /\ q.act = r.act
          /\ q.ops[o] = op /\ \A p \in Ops \ {o} : q.ops[p] = r.ops[p]
        BY <1>1, <2>1, SetIs
    <2>3. u = [q EXCEPT !.faults = r.faults + 1]
        BY <1>1 DEF Processes, op
    <2>4. r.faults + 1 \in 0 .. MaxFaults
        BY <1>1, <1>7, FaultsCounted
    <2> HIDE DEF q, u
    <2>5. /\ u \in Processes /\ Talk(u, q) /\ Store(u, q) /\ u.act = q.act /\ u.ops = q.ops
        BY <2>2, <2>3, <2>4 DEF Processes, Talk, Store
    <2>6. Talk(u, r) /\ Store(u, r)
        BY <2>2, <2>5 DEF Talk, Store
    <2>7. u.ops[o] # None /\ "Failed" \in Dropped /\ "" \in Modes
        BY <2>1, <2>2, <2>5 DEF Dropped, Modes
    <2>8. /\ u \in Processes /\ u.act = o /\ u.ops[o].st = "Preflight"
          /\ \A p \in Ops \ {o} : u.ops[p] = r.ops[p]
          /\ u.ops[o].retry = r.ops[o].retry /\ u.ops[o].name = r.ops[o].name
          /\ u.ops[o].lin = r.ops[o].lin
        BY <1>1, <2>1, <2>2, <2>5
    <2> QED BY <1>7, <2>6, <2>7, <2>8, StartedEnds
<1>8. \/ ~CanClearCandidate(r.snap) /\ x = Finish(r, o, st(r), mode(r))
      \/ /\ CanClearCandidate(r.snap)
         /\ \E w \in WriteRetiring(r, t) :
               x = IF w.ok THEN Finish(Sync(w.r), o, "Succeeded", "")
                   ELSE Finish(w.r, o, st(w.r), mode(w.r))
      \/ r.faults # MaxFaults /\ x = Finish(u, o, "Failed", "")
    BY DEF ConsumeCandidate, MutateRetiring, After
<1> QED BY <1>5, <1>6, <1>7, <1>8

\* The dispatch is armed: the transfer is ordered, or a cancel slips in.
Armed(r, o) ==
    /\ Held(r, o) /\ r.act = o /\ Free(r, o, r.gen) /\ ~r.fail
    /\ r.snap.infl # None /\ r.snap.infl.op = o /\ r.snap.infl.phase = "DispatchArmed"
    /\ IsOf(r.ops[o], r.snap.infl) /\ r.ops[o] \in OpRecord /\ r.ops[o].gen = r.gen
    /\ r.ops[o].st = "Uploading" /\ ~r.ops[o].pre /\ ~r.ops[o].finp
    /\ r.snap.cand # None => ~FinalizationOnly(r.snap.cand)

LEMMA OrderGood ==
    ASSUME NEW r, NEW o, Armed(r, o),
           NEW x \in Processes, Store(x, r), x.act = o,
           IsOf(x.ops[o], r.ops[o]), x.ops[o] # None, x.ops[o].gen = r.gen,
           x.ops[o].st = "Uploading", ~x.ops[o].pre, ~x.ops[o].finp,
           \A p \in Ops \ {o} : x.ops[p] = r.ops[p],
           x.jobs = Append(r.jobs, Job("upload", o, r.gen, r.ops[o].name)), x.evts = r.evts,
           x.gen = r.gen, x.conn = r.conn, x.wk = r.wk, x.rec = r.rec, x.gate = r.gate
    PROVE  Good(x)
<1> DEFINE j == Job("upload", o, r.gen, r.ops[o].name)
<1>1. /\ r \in Processes /\ o \in Ops /\ o # None /\ Rest(r) /\ r.load = "yes"
      /\ r.ops[o].name \in {0} \cup Uids /\ r.gen \in Nat /\ r.snap.infl \in Dispatch
    BY ProcessParts, SnapshotParts DEF Armed, Held, OpRecord
<1>2. j \in Jobs /\ Asks(j, o, r.gen) /\ j.name = r.ops[o].name
    BY <1>1 DEF Job, Jobs, Asks
<1>3. x.ops[o].st # "Converting" /\ x.ops[o].st # "Recovering" /\ j.name = x.ops[o].name
    BY <1>2 DEF IsOf
<1> HIDE DEF j
<1>4. Traffic(x) /\ Calm(x)
    BY <1>1, <1>2, <1>3, AskedTraffic DEF j, Armed
<1>5. x.snap = r.snap /\ x.disk = r.disk /\ x.load = "yes" /\ ~x.fail
    BY <1>1 DEF Store, Armed
<1>6. IsOf(x.ops[o], r.snap.infl)
    BY DEF Armed, IsOf
<1>7. r.disk = r.snap /\ Apart(r.snap) /\ \A p \in Ops \ {o} : Over(r, p)
    BY DEF Armed, Held, Durable
<1>8. x.ops[o].disp \in Uids /\ x.ops[o].name \in Uids
    BY <1>1, <1>6 DEF IsOf, Dispatch
<1>9. Foreground(x)
    BY <1>5, <1>6, <1>7, <1>8 DEF Foreground, Sending, Armed, Apart
<1>10. Waiting(x)
    BY <1>7 DEF Waiting, Over, Terminal
<1>11. Records(x)
    BY <1>5, <1>7 DEF Records, Armed, Held, Durable
<1>12. Shown(x)
    BY <1>5 DEF Shown, Armed, Fenced, FencePhases
<1>13. Offers(x) /\ Loading(x)
    BY <1>5 DEF Offers, Loading, Armed, Held
<1>14. x.gate.gen = x.gen
    BY <1>1 DEF Rest
<1> QED BY <1>4, <1>9, <1>10, <1>11, <1>12, <1>13, <1>14 DEF Good, Surface

LEMMA SendGood ==
    ASSUME NEW r, NEW o, Armed(r, o), NEW x \in SendUpload(r, o)
    PROVE  Good(x)
<1> DEFINE op == [r.ops[o] EXCEPT !.sent = TRUE]
           q == [r EXCEPT !.ops[o] = op]
           j == Job("upload", o, r.gen, r.ops[o].name)
           t == RetireProven(r.snap)
<1>1. /\ Held(r, o) /\ r \in Processes /\ o \in Ops /\ r.ops[o] \in OpRecord /\ r.snap \in Snapshot
      /\ r.act = o /\ r.gen \in Nat
    BY ProcessParts DEF Armed, Held
<1>2. CASE x = Send(q, j)
    <2>1. /\ op \in OpRecord /\ IsOf(op, r.ops[o]) /\ op.gen = r.gen /\ op.st = "Uploading"
        BY <1>1 DEF Armed, OpRecord, IsOf
    <2>2. ~op.pre /\ ~op.finp
        BY <1>1 DEF Armed, OpRecord
    <2> HIDE DEF op
    <2>3. /\ q \in Processes /\ Talk(q, r) /\ Store(q, r) /\ q.act = r.act
          /\ q.ops[o] = op /\ \A p \in Ops \ {o} : q.ops[p] = r.ops[p]
        BY <1>1, <2>1, SetIs
    <2>4. j \in Jobs
        BY <1>1 DEF Job, Jobs, OpRecord
    <2> HIDE DEF q, j
    <2>5. /\ x \in Processes /\ Store(x, q) /\ x.ops = q.ops /\ x.act = q.act
          /\ x.jobs = Append(q.jobs, j) /\ x.evts = q.evts /\ x.gen = q.gen
          /\ x.conn = q.conn /\ x.wk = q.wk /\ x.rec = q.rec /\ x.gate = q.gate
        BY <1>2, <2>3, <2>4, SendIs
    <2>6. /\ Store(x, r) /\ x.act = o /\ x.jobs = Append(r.jobs, j) /\ x.evts = r.evts
          /\ x.gen = r.gen /\ x.conn = r.conn /\ x.wk = r.wk /\ x.rec = r.rec /\ x.gate = r.gate
        BY <1>1, <2>3, <2>5 DEF Store, Talk
    <2>7. x.ops[o] = op /\ op # None /\ \A p \in Ops \ {o} : x.ops[p] = r.ops[p]
        BY <2>1, <2>3, <2>5
    <2> QED BY <2>1, <2>2, <2>5, <2>6, <2>7, OrderGood DEF j
<1>3. ASSUME NEW w \in WriteRetiring(r, t),
             x = IF w.ok THEN Finish(Sync(w.r), o, "Cancelled", "") ELSE Finish(w.r, o, "Failed", "")
      PROVE  Good(x)
    <2>1. t \in Snapshot /\ t.infl = None /\ t.clean = r.snap.clean /\ t.cand = r.snap.cand
        BY <1>1, RetirementsStay DEF RetireProven, Snapshot
    <2> HIDE DEF t
    <2>2. CASE w.ok
        <3>1. Settling(w.r, o) /\ w.r.snap = t /\ w.r.ops = r.ops /\ w.r.act = r.act
            BY <1>1, <2>1, <2>2, WrittenSettling
        <3>2. ~(t.cand # None /\ t.cand.op = o)
            BY <1>1, <2>1 DEF Armed, Held, Durable, Apart
        <3>3. "Cancelled" \in Ended /\ "" \in Modes /\ w.r.ops[o].st \notin Terminal
            BY <3>1 DEF Ended, Modes, Held, Armed
        <3>4. x = Finish(Sync(w.r), o, "Cancelled", "")
            BY <1>3, <2>2
        <3> QED BY <1>1, <3>1, <3>2, <3>3, <3>4, RetiredGood
    <2>3. CASE ~w.ok
        <3>1. x = Finish(w.r, o, "Failed", "") /\ "Failed" \in Terminal /\ "" \in Modes
            BY <1>3, <2>3 DEF Terminal, Modes
        <3> QED BY <1>1, <2>1, <2>3, <3>1, UnretiredGood
    <2> QED BY <2>2, <2>3
<1>4. q = [r EXCEPT !.ops[o].sent = TRUE]
    BY <1>1 DEF Processes
<1>5. \/ x = Send(q, j)
      \/ \E w \in WriteRetiring(r, t) :
            x = IF w.ok THEN Finish(Sync(w.r), o, "Cancelled", "") ELSE Finish(w.r, o, "Failed", "")
    BY <1>4 DEF SendUpload, MutateRetiring, After
<1> QED BY <1>2, <1>3, <1>5

\* The record of the dispatch of operation o, and what is known of it.
Target(r, o) ==
    LET op == r.ops[o]
    IN IF RetriesCandidate(r, op) THEN BeginRetry(r.snap, o, op.disp, op.name, op.dev)
       ELSE PersistPrepared(r.snap, o, op.disp, op.dev)

Legal(r, o) ==
    IF RetriesCandidate(r, r.ops[o]) THEN CanBeginRetry(r.snap, o, r.ops[o].name)
    ELSE CanPersistPrepared(r.snap, o)

LEMMA TargetIs ==
    ASSUME NEW r, NEW o, Started(r, o), DispatchIsCurrent(r, o), Legal(r, o)
    PROVE  LET t == Target(r, o)
           IN /\ t \in Snapshot /\ t.infl \in Dispatch /\ t.infl # None
              /\ t.infl.op = o /\ t.infl.phase = "Preparing"
              /\ t.infl.name = r.ops[o].name /\ t.infl.disp = r.ops[o].disp
              /\ t.infl.dev = r.ops[o].dev
              /\ t.cand = r.snap.cand /\ ~t.clean /\ Apart(t) /\ ~Fenced(t)
              /\ ~r.snap.clean
<1> DEFINE t == Target(r, o)
           op == r.ops[o]
<1>1. /\ r \in Processes /\ o \in Ops /\ r.snap \in Snapshot /\ op.disp \in Uids /\ op.name \in Uids
      /\ r.snap.cand # None => r.snap.cand.op # o
    BY StartedHeld, ProcessParts
<1>2. op.dev \in Devices
    BY <1>1, ProcessParts DEF DispatchIsCurrent
<1>3. ~r.snap.clean
    BY DEF Legal, CanBeginRetry, CanPersistPrepared
<1>4. CASE RetriesCandidate(r, op)
    <2>1. t = BeginRetry(r.snap, o, op.disp, op.name, op.dev) /\ r.snap.cand # None
        BY <1>4 DEF Target, RetriesCandidate
    <2>2. t \in Snapshot
        BY <1>1, <1>2, <2>1, DispatchesStay
    <2>3. /\ t.infl = [op |-> o, disp |-> op.disp, lin |-> r.snap.cand.lin,
                       name |-> op.name, dev |-> op.dev, phase |-> "Preparing",
                       shared |-> TRUE]
          /\ t.cand = r.snap.cand /\ t.clean = r.snap.clean
        BY <1>1, <2>1 DEF BeginRetry, Snapshot
    <2> HIDE DEF t, op
    <2>4. t.infl # None
        <3>1. r.snap.cand.lin \in Uids
            BY <1>1, <2>1, SnapshotParts DEF Candidate
        <3>2. t.infl \in Dispatch
            BY <1>1, <1>2, <2>3, <3>1 DEF Dispatch, Phases
        <3> QED BY <3>2
    <2>5. t.infl \in Dispatch
        BY <2>2, <2>4, SnapshotParts
    <2> QED BY <1>1, <1>3, <2>2, <2>3, <2>4, <2>5 DEF t, op, Apart, Fenced, FencePhases
<1>5. CASE ~RetriesCandidate(r, op)
    <2>1. t = PersistPrepared(r.snap, o, op.disp, op.dev) /\ ~op.retry
        BY <1>5 DEF Target, DispatchIsCurrent
    <2>2. t \in Snapshot
        BY <1>1, <1>2, <2>1, DispatchesStay
    <2>3. /\ t.infl = [op |-> o, disp |-> op.disp, lin |-> op.disp, name |-> op.disp,
                       dev |-> op.dev, phase |-> "Preparing", shared |-> FALSE]
          /\ t.cand = r.snap.cand /\ t.clean = r.snap.clean
        BY <1>1, <2>1 DEF PersistPrepared, Snapshot
    <2>4. op.name = op.disp
        BY <2>1 DEF Started, Starting
    <2> HIDE DEF t, op
    <2>5. t.infl \in Dispatch
        BY <1>1, <1>2, <2>3 DEF Dispatch, Phases
    <2>6. t.infl # None
        BY <2>5
    <2> QED BY <1>1, <1>3, <2>2, <2>3, <2>4, <2>5, <2>6 DEF t, op, Apart, Fenced, FencePhases
<1> QED BY <1>4, <1>5

Unoffered(s) == \A p \in Ops : s.ops[p] # None => s.ops[p].st # "RetryAvailable"

\* The record is written, and shown as that of the operation.
Prepared(s, o, t) ==
    /\ Held(s, o) /\ s.act = o /\ s.snap = t /\ s.disk = t /\ ~s.fail
    /\ Free(s, o, s.gen) /\ s.ops[o] \in OpRecord /\ IsOf(s.ops[o], t.infl)
    /\ s.ops[o].gen = s.gen /\ ~s.ops[o].pre /\ ~s.ops[o].finp /\ Unoffered(s)

LEMMA PreparedHeld ==
    ASSUME NEW r, NEW o, Started(r, o), DispatchIsCurrent(r, o), Legal(r, o),
           NEW w \in Write(r, Target(r, o)), w.ok
    PROVE  Prepared(Sync([w.r EXCEPT !.ops[o].lin = Target(r, o).infl.lin]), o, Target(r, o))
<1> DEFINE t == Target(r, o)
           op == [r.ops[o] EXCEPT !.lin = t.infl.lin]
           m == [w.r EXCEPT !.ops[o] = op]
           s == Sync(m)
<1>1. /\ Held(r, o) /\ r.act = o /\ o \in Ops /\ r \in Processes /\ Rest(r) /\ Free(r, o, r.gen)
      /\ r.ops[o] # None /\ r.ops[o] \in OpRecord /\ r.ops[o].st = "Preflight"
    BY StartedHeld
<1>2. /\ t \in Snapshot /\ t.infl \in Dispatch /\ t.infl # None
      /\ t.infl.op = o /\ t.infl.phase = "Preparing"
      /\ t.infl.name = r.ops[o].name /\ t.infl.disp = r.ops[o].disp
      /\ t.infl.dev = r.ops[o].dev
      /\ ~t.clean /\ Apart(t) /\ ~Fenced(t)
    BY TargetIs
<1>3. ~r.ops[o].pre /\ ~r.ops[o].finp /\ r.ops[o].gen = r.gen
    BY DEF Started, Starting, DispatchIsCurrent
<1> HIDE DEF t
<1>4. Wrote(w, r, t)
    BY <1>1, <1>2, WriteIs DEF t
<1>5. /\ w.r \in Processes /\ Talk(w.r, r) /\ w.r.ops = r.ops /\ w.r.act = o /\ w.r.load = r.load
      /\ ~w.r.fail /\ w.r.snap = t /\ w.r.disk = t
    BY <1>1, <1>4 DEF Wrote
<1>6. op \in OpRecord /\ op.st = "Preflight" /\ IsOf(op, t.infl) /\ op.gen = r.gen
    BY <1>1, <1>2, <1>3 DEF OpRecord, IsOf, Dispatch
<1>7. ~op.pre /\ ~op.finp
    BY <1>1, <1>3 DEF OpRecord
<1>8. m = [w.r EXCEPT !.ops[o].lin = t.infl.lin]
    BY <1>5 DEF Processes
<1> HIDE DEF op
<1>9. /\ m \in Processes /\ Talk(m, w.r) /\ Store(m, w.r) /\ m.act = w.r.act
      /\ m.ops[o] = op /\ \A p \in Ops \ {o} : m.ops[p] = w.r.ops[p]
    BY <1>1, <1>5, <1>6, SetIs
<1> HIDE DEF m
<1>10. /\ m.snap = t /\ m.disk = t /\ ~m.fail /\ m.load = r.load /\ m.act = o /\ m.ops[o] # None
    BY <1>5, <1>6, <1>9 DEF Store
<1>11. /\ s \in Processes /\ Talk(s, m) /\ Store(s, m) /\ s.act = m.act
       /\ s.ops[o] = [m.ops[o] EXCEPT !.lin = t.infl.lin, !.disp = t.infl.disp]
       /\ s.ops[o] \in OpRecord
       /\ \A p \in Ops \ {o} :
             /\ s.ops[p] \in {None, m.ops[p]}
             /\ p # m.act /\ m.ops[p] # None /\ m.ops[p].st = "RetryAvailable"
                /\ m.ops[p].lin # 0 => s.ops[p] = None
    <2>1. m.snap.infl.phase \in {"Preparing", "DispatchArmed"} /\ m.snap.infl # None
          /\ m.snap.infl.op = o /\ m.snap.infl = t.infl
        BY <1>2, <1>10
    <2>2. o \in Ops /\ m \in Processes /\ m.ops[o] # None
        BY <1>1, <1>9, <1>10
    <2>3. /\ s \in Processes /\ Talk(s, m) /\ Store(s, m) /\ s.act = m.act
          /\ s.ops[o] = [m.ops[o] EXCEPT !.lin = m.snap.infl.lin, !.disp = m.snap.infl.disp]
          /\ s.ops[o] \in OpRecord
          /\ \A p \in Ops \ {o} :
                /\ s.ops[p] \in {None, m.ops[p]}
                /\ p # m.act /\ m.ops[p] # None /\ m.ops[p].st = "RetryAvailable"
                   /\ m.ops[p].lin # 0 => s.ops[p] = None
        BY <2>1, <2>2, SyncDispatched
    <2> QED BY <2>1, <2>3
<1>12. s.ops[o] = op
    <2>1. op.lin = t.infl.lin /\ op.disp = t.infl.disp
        BY <1>6 DEF IsOf
    <2>2. [op EXCEPT !.lin = op.lin, !.disp = op.disp] = op
        BY <1>6 DEF OpRecord
    <2> QED BY <1>9, <1>11, <2>1, <2>2
<1> HIDE DEF s
<1>13. Rest(s) /\ Free(s, o, s.gen)
    <2>1. Talk(s, r)
        BY <1>5, <1>9, <1>11 DEF Talk
    <2> QED BY <1>1, <2>1, RestTalk DEF Talk, Free
<1>14. /\ s.snap = t /\ s.disk = t /\ ~s.fail /\ s.load = "yes" /\ s.act = o /\ s.gen = r.gen
    BY <1>1, <1>5, <1>9, <1>10, <1>11 DEF Store, Talk, Held
<1>15. Durable(s)
    BY <1>2, <1>14 DEF Durable
<1>16. \A p \in Ops \ {o} : Over(s, p)
    <2>1. ASSUME NEW p \in Ops \ {o}
          PROVE  Over(s, p)
        <3>1. s.ops[p] \in {None, r.ops[p]}
            BY <1>5, <1>9, <1>11
        <3>2. Over(r, p)
            BY <1>1 DEF Held
        <3> QED BY <3>1, <3>2 DEF Over
    <2> QED BY <2>1
<1>17. Unoffered(s)
    <2>1. ASSUME NEW p \in Ops, s.ops[p] # None, s.ops[p].st = "RetryAvailable"
          PROVE  FALSE
        <3>1. p # o
            BY <1>6, <1>12, <2>1
        <3>2. s.ops[p] = r.ops[p] /\ r.ops[p] # None /\ m.ops[p] = r.ops[p]
            BY <1>5, <1>9, <1>11, <2>1, <3>1
        <3>3. r.ops[p].lin # 0
            BY <1>1, <2>1, <3>2 DEF Held, Offers, Known
        <3> QED BY <1>10, <1>11, <2>1, <3>1, <3>2, <3>3
    <2> QED BY <2>1 DEF Unoffered
<1>18. Held(s, o)
    <2>1. Offers(s)
        BY <1>17 DEF Offers, Unoffered
    <2> QED BY <1>1, <1>6, <1>11, <1>12, <1>13, <1>14, <1>15, <1>16, <2>1 DEF Held, Terminal
<1>19. Prepared(s, o, t)
    BY <1>6, <1>7, <1>11, <1>12, <1>13, <1>14, <1>17, <1>18 DEF Prepared
<1> QED BY <1>8, <1>19 DEF s, t

LEMMA ArmedIs ==
    ASSUME NEW s, NEW o, NEW t \in Snapshot, Prepared(s, o, t), t.infl # None, t.infl.op = o,
           Apart(t), t.cand # None => ~FinalizationOnly(t.cand)
    PROVE  LET a == ArmDispatch(t)
           IN /\ a \in Snapshot /\ Apart(a) /\ ~Fenced(a)
              /\ \A w \in Write(s, a) : \A m :
                    w.ok /\ m = w.r => Armed([m EXCEPT !.ops[o].st = "Uploading"], o)
<1> DEFINE a == ArmDispatch(t)
           op == [s.ops[o] EXCEPT !.st = "Uploading"]
<1>1. /\ Held(s, o) /\ s \in Processes /\ o \in Ops /\ s.act = o /\ s.ops[o] \in OpRecord
      /\ IsOf(s.ops[o], t.infl) /\ t.infl \in Dispatch /\ Free(s, o, s.gen)
      /\ s.ops[o].gen = s.gen /\ ~s.ops[o].pre /\ ~s.ops[o].finp
    BY SnapshotParts DEF Prepared, Held
<1>2. a \in Snapshot
    BY OutcomesStay
<1>3. /\ a.infl = [t.infl EXCEPT !.phase = "DispatchArmed"] /\ a.cand = t.cand /\ a.clean = t.clean
    BY DEF ArmDispatch, Snapshot
<1> HIDE DEF a
<1>4. /\ a.infl.op = o /\ a.infl.phase = "DispatchArmed" /\ IsOf(s.ops[o], a.infl)
    BY <1>1, <1>3 DEF Dispatch, IsOf
<1>5. a.infl # None
    <2>1. a.infl \in Dispatch
        BY <1>1, <1>3 DEF Dispatch, Phases
    <2> QED BY <2>1
<1>6. Apart(a) /\ ~Fenced(a) /\ ~a.clean
    BY <1>3, <1>4, <1>5 DEF Apart, Fenced, FencePhases
<1>7. ASSUME NEW w \in Write(s, a), w.ok, NEW m, m = w.r
      PROVE  Armed([m EXCEPT !.ops[o].st = "Uploading"], o)
    <2> DEFINE q == [m EXCEPT !.ops[o] = op]
    <2>1. Wrote(w, s, a)
        BY <1>1, <1>2, WriteIs
    <2>2. /\ m \in Processes /\ Talk(m, s) /\ m.ops = s.ops /\ m.act = o
          /\ m.load = s.load /\ ~m.fail /\ m.snap = a /\ m.disk = a
        BY <1>1, <1>7, <2>1 DEF Wrote
    <2>3. Rest(m) /\ Free(m, o, m.gen)
        BY <1>1, <2>2, RestTalk DEF Held, Talk, Free
    <2>4. Held(m, o)
        <3>1. Durable(m)
            BY <1>6, <2>2 DEF Durable
        <3>2. Offers(m)
            <4>1. \A p \in Ops : s.ops[p] # None => s.ops[p].st # "RetryAvailable"
                BY DEF Prepared, Unoffered
            <4> QED BY <2>2, <4>1 DEF Offers
        <3> QED BY <1>1, <2>2, <2>3, <3>1, <3>2 DEF Held, Over
    <2>5. op \in OpRecord /\ IsOf(op, s.ops[o]) /\ op.gen = s.gen /\ op.st = "Uploading"
        BY <1>1 DEF OpRecord, IsOf, OpStates
    <2>6. ~op.pre /\ ~op.finp
        BY <1>1 DEF OpRecord
    <2>7. q = [m EXCEPT !.ops[o].st = "Uploading"]
        BY <2>2 DEF Processes
    <2> HIDE DEF op
    <2>8. /\ q \in Processes /\ Talk(q, m) /\ Store(q, m) /\ q.act = m.act
          /\ q.ops[o] = op /\ \A p \in Ops \ {o} : q.ops[p] = m.ops[p]
        BY <1>1, <2>2, <2>5, SetIs
    <2> HIDE DEF q
    <2>9. Held(q, o)
        <3>1. q.ops[o] # None /\ q.ops[o].st \notin Terminal
            BY <2>5, <2>8 DEF Terminal
        <3> QED BY <2>4, <2>8, <3>1, HeldStays
    <2>10. Free(q, o, q.gen) /\ q.gen = s.gen
        BY <2>2, <2>3, <2>8 DEF Talk, Free
    <2>11. q.snap = a /\ ~q.fail /\ q.act = o /\ IsOf(q.ops[o], a.infl)
        BY <1>4, <2>2, <2>5, <2>8 DEF Store, IsOf
    <2>12. Armed(q, o)
        BY <1>3, <1>4, <1>5, <2>5, <2>6, <2>8, <2>9, <2>10, <2>11 DEF Armed
    <2> QED BY <2>7, <2>12
<1>8. \A w \in Write(s, a) : \A m :
         w.ok /\ m = w.r => Armed([m EXCEPT !.ops[o].st = "Uploading"], o)
    BY <1>7
<1> QED BY <1>2, <1>6, <1>8 DEF a

LEMMA ArmGood ==
    ASSUME NEW s, NEW o, NEW t \in Snapshot, Prepared(s, o, t), t.infl # None, t.infl.op = o,
           Apart(t), t.cand # None => ~FinalizationOnly(t.cand),
           NEW w \in Write(s, ArmDispatch(t)),
           NEW x, x \in IF w.ok THEN SendUpload([w.r EXCEPT !.ops[o].st = "Uploading"], o)
                        ELSE {Finish(w.r, o, "Failed", "")}
    PROVE  Good(x)
<1>1. /\ ArmDispatch(t) \in Snapshot /\ Apart(ArmDispatch(t)) /\ ~Fenced(ArmDispatch(t))
      /\ w.ok => Armed([w.r EXCEPT !.ops[o].st = "Uploading"], o)
    BY ArmedIs
<1>2. CASE ~w.ok
    <2>1. x = Finish(w.r, o, "Failed", "") /\ "Failed" \in Terminal /\ "" \in Modes /\ Held(s, o)
        BY <1>2 DEF Terminal, Modes, Prepared
    <2> QED BY <1>1, <1>2, <2>1, UnsavedGood
<1>3. CASE w.ok
    BY <1>1, <1>3, SendGood
<1> QED BY <1>2, <1>3

LEMMA DispatchGood ==
    ASSUME NEW r, NEW o, Started(r, o), NEW x \in DispatchUpload(r, o)
    PROVE  Good(x)
<1> DEFINE t == Target(r, o)
           u == [r EXCEPT !.faults = @ + 1]
<1>1. /\ Held(r, o) /\ r.act = o /\ o \in Ops /\ r \in Processes /\ Rest(r) /\ r.snap \in Snapshot
      /\ r.ops[o] # None /\ r.ops[o] \in OpRecord /\ r.ops[o].st = "Preflight"
    BY StartedHeld, ProcessParts
<1>2. Good(r)
    BY DEF Started
<1>3. HasOp(r, o) /\ ~r.ops[o].sent
    BY <1>1, ProcessParts DEF Started, Starting
<1>4. Talk(r, r) /\ Store(r, r) /\ "Failed" \in Dropped /\ "Failed" \in Terminal /\ "" \in Modes
    BY DEF Talk, Store, Dropped, Terminal, Modes
<1>5. CASE ~MutationGate(r) /\ ~DispatchIsCurrent(r, o)
    <2>1. Near(r, r, o) /\ ~Sending(r, r.ops[o])
        BY <1>1, <1>4 DEF Near, IsOf, Sending
    <2>2. PICK outcome : x \in PreparedUploadFailure(r, o, outcome)
        BY <1>3, <1>5 DEF DispatchUpload
    <2>3. o = r.act /\ o # None
        BY DEF Started
    <2> QED BY <1>1, <1>2, <2>1, <2>2, <2>3, FailureGood
<1>6. CASE ~MutationGate(r) /\ x = Finish(r, o, "Failed", "")
    BY <1>1, <1>4, <1>6, StartedEnds
<1>7. CASE r.faults # MaxFaults /\ x = Finish(u, o, "Failed", "")
    <2>1. r.faults + 1 \in 0 .. MaxFaults
        BY <1>1, <1>7, FaultsCounted
    <2>2. u \in Processes /\ Talk(u, r) /\ Store(u, r) /\ u.act = r.act /\ u.ops = r.ops
        BY <1>1, <2>1 DEF Processes, Talk, Store
    <2> HIDE DEF u
    <2> QED BY <1>1, <1>4, <1>7, <2>2, StartedEnds
<1>8. ASSUME DispatchIsCurrent(r, o), Legal(r, o), NEW w \in Write(r, t),
             NEW s, s = Sync([w.r EXCEPT !.ops[o].lin = t.infl.lin]),
             x \in IF w.ok
                   THEN UNION {IF v.ok THEN SendUpload([v.r EXCEPT !.ops[o].st = "Uploading"], o)
                               ELSE {Finish(v.r, o, "Failed", "")} :
                                 v \in Write(s, ArmDispatch(s.snap))}
                   ELSE {Finish(w.r, o, "Failed", "")}
      PROVE  Good(x)
    <2>1. /\ t \in Snapshot /\ t.infl # None /\ t.infl.op = o /\ t.cand = r.snap.cand
          /\ Apart(t) /\ ~Fenced(t)
        <3>1. DispatchIsCurrent(r, o) /\ Legal(r, o)
            BY <1>8
        <3> QED BY <3>1, TargetIs
    <2>2. CASE w.ok
        <3>1. Prepared(s, o, t)
            BY <1>8, <2>2, PreparedHeld
        <3> HIDE DEF t
        <3>2. s.snap = t
            BY <3>1 DEF Prepared
        <3>3. PICK v \in Write(s, ArmDispatch(t)) :
                 x \in IF v.ok THEN SendUpload([v.r EXCEPT !.ops[o].st = "Uploading"], o)
                       ELSE {Finish(v.r, o, "Failed", "")}
            BY <1>8, <2>2, <3>2, ZenonT(90)
        <3>4. t.cand # None => ~FinalizationOnly(t.cand)
            BY <2>1, StartedHeld
        <3> QED BY <2>1, <3>1, <3>3, <3>4, ArmGood
    <2>3. CASE ~w.ok
        <3>1. x = Finish(w.r, o, "Failed", "")
            BY <1>8, <2>3
        <3> HIDE DEF t
        <3> QED BY <1>1, <1>4, <1>8, <2>1, <2>3, <3>1, UnsavedGood
    <2> QED BY <2>2, <2>3
<1>9. CASE MutationGate(r) /\ x = r
    BY <1>2, <1>9
<1>10. \/ MutationGate(r) /\ x = r
       \/ ~MutationGate(r) /\ ~DispatchIsCurrent(r, o)
       \/ ~MutationGate(r) /\ x = Finish(r, o, "Failed", "")
       \/ r.faults # MaxFaults /\ x = Finish(u, o, "Failed", "")
       \/ /\ DispatchIsCurrent(r, o) /\ Legal(r, o)
          /\ \E w \in Write(r, t) :
                LET s == Sync([w.r EXCEPT !.ops[o].lin = t.infl.lin])
                IN x \in IF w.ok
                   THEN UNION {IF v.ok THEN SendUpload([v.r EXCEPT !.ops[o].st = "Uploading"], o)
                               ELSE {Finish(v.r, o, "Failed", "")} :
                                 v \in Write(s, ArmDispatch(s.snap))}
                   ELSE {Finish(w.r, o, "Failed", "")}
    BY <1>3 DEF DispatchUpload, Target, Legal, Mutate, After
<1> QED BY <1>5, <1>6, <1>7, <1>8, <1>9, <1>10

-----------------------------------------------------------------------------
(* The look at the file list before a retry                                   *)

\* Operation o is at the beginning of its work, and waits for no answer.
Probed(r, o) ==
    /\ Good(r) /\ o = r.act /\ o # None /\ Free(r, o, r.ops[o].gen)
    /\ Starting(r, r.ops[o])

LEMMA ProbedStarts ==
    ASSUME NEW r, NEW o, Probed(r, o), NEW op \in OpRecord, Starting(r, op), op.st = "Preflight",
           ~op.pre, op.gen = r.ops[o].gen, op.disp \in Uids, op.name \in Uids
    PROVE  Started([r EXCEPT !.ops[o] = op], o)
<1> DEFINE q == [r EXCEPT !.ops[o] = op]
<1>1. /\ r \in Processes /\ o \in Ops /\ r.act = o /\ o # None /\ Free(r, o, op.gen)
      /\ r.load = "yes" /\ r.snap.infl = None
    BY ProcessParts DEF Probed, Good, Surface, Loading, Starting
<1>2. /\ q \in Processes /\ Talk(q, r) /\ Store(q, r) /\ q.act = r.act
      /\ q.ops[o] = op /\ \A p \in Ops \ {o} : q.ops[p] = r.ops[p]
    BY <1>1, SetIs
<1> HIDE DEF q
<1>3. op # None /\ r.ops[o] # None /\ r.ops[o].st # "Recovering"
    BY DEF Probed, Good, Surface, Foreground, Starting
<1>4. r.snap.cand # None => r.snap.cand.op # o /\ ~FinalizationOnly(r.snap.cand)
    BY <1>3 DEF Probed, Good, Surface, Foreground
<1>5. q.snap = r.snap /\ q.disk = r.disk /\ q.load = r.load /\ q.fail = r.fail /\ q.gen = r.gen
    BY <1>2 DEF Store, Talk
<1>6. Starting(q, op)
    BY <1>5 DEF Starting
<1>7. Foreground(q)
    BY <1>1, <1>2, <1>3, <1>4, <1>5, <1>6 DEF Foreground
<1>8. Waiting(q)
    <2>1. ASSUME NEW p \in Ops, q.ops[p] # None, p # o
          PROVE  /\ q.ops[p].st \in Terminal \cup {"Recovering"}
                 /\ q.ops[p].st = "Recovering" => Waits(q.snap, p, q.ops[p])
        <3>1. q.ops[p] = r.ops[p]
            BY <1>2, <2>1
        <3> QED BY <1>1, <1>5, <2>1, <3>1 DEF Probed, Good, Surface, Waiting
    <2> QED BY <1>1, <1>2, <2>1 DEF Waiting
<1>9. Records(q)
    BY <1>1, <1>2, <1>5 DEF Records, Probed, Good, Surface
<1>10. Shown(q)
    <2>1. Shown(r)
        BY DEF Probed, Good, Surface
    <2>2. StartupGate(q) <=> StartupGate(r)
        BY <1>5 DEF StartupGate
    <2>3. r.snap.cand # None => /\ r.snap.cand.op \in Ops /\ r.snap.cand.op # o
                                /\ q.ops[r.snap.cand.op] = r.ops[r.snap.cand.op]
        BY <1>1, <1>2, <1>4, ProcessParts, SnapshotParts DEF Candidate
    <2>4. r.snap.cand # None => (LookedTooLate(q, r.snap.cand) <=> LookedTooLate(r, r.snap.cand))
        BY <1>2, <2>3 DEF LookedTooLate
    <2> QED BY <1>1, <1>5, <2>1, <2>2, <2>3, <2>4 DEF Shown, Fenced
<1>11. Offers(q)
    <2>1. Offers(r)
        BY DEF Probed, Good, Surface
    <2> QED BY <1>2, <1>5, <2>1 DEF Offers
<1>12. Loading(q)
    BY <1>1, <1>5 DEF Loading
<1>13. /\ q.jobs = r.jobs /\ q.evts = r.evts /\ q.conn = r.conn /\ q.wk = r.wk /\ q.rec = r.rec
       /\ q.gate = r.gate
    BY <1>2 DEF Talk
<1>14. Queues(q) /\ Sessions(q)
    BY <1>5, <1>13 DEF Queues, Sessions, Probed, Good, Traffic
<1>15. Strays(q)
    BY <1>1, <1>2, <1>5, <1>13 DEF Strays, Free, Spent, Probed, Good, Traffic
<1>16. Question(q)
    BY <1>1, <1>2, <1>5, <1>13 DEF Question, Sole, Free, Probed, Good, Traffic
<1>17. NoUploads(q)
    <2>1. Transfers(r)
        BY DEF Probed, Good, Traffic
    <2> QED BY <1>1, <1>13, <2>1 DEF NoUploads, Transfers, Free, Asks
<1>18. Transfers(q) /\ Calm(q)
    BY <1>1, <1>2, <1>17 DEF Transfers, NoUploads, Calm
<1>19. q.gate.gen = q.gen
    BY <1>5, <1>13 DEF Probed, Good
<1>20. Good(q)
    BY <1>2, <1>7, <1>8, <1>9, <1>10, <1>11, <1>12, <1>14, <1>15, <1>16, <1>18, <1>19
       DEF Good, Surface, Traffic
<1>21. Free(q, o, q.ops[o].gen)
    BY <1>1, <1>2, <1>13 DEF Free
<1>22. q.act = o /\ Starting(q, q.ops[o])
    BY <1>1, <1>2, <1>6
<1> QED BY <1>1, <1>2, <1>20, <1>21, <1>22 DEF Started, q

LEMMA ResendGood ==
    ASSUME NEW r, NEW o, Started(r, o), r.ops[o].retry, NEW n \in Uids, NEW x \in Resend(r, o, n)
    PROVE  Good(x)
<1> DEFINE op == [r.ops[o] EXCEPT !.name = n, !.term = "", !.st = "Preflight"]
<1>1. /\ r \in Processes /\ o \in Ops /\ r.ops[o] \in OpRecord /\ r.ops[o].disp \in Uids
      /\ r.snap.infl = None
    BY StartedHeld
<1>2. /\ op \in OpRecord /\ op.st = "Preflight" /\ op.gen = r.ops[o].gen /\ op.name = n
      /\ op.disp = r.ops[o].disp /\ op.lin = r.ops[o].lin
    BY <1>1 DEF OpRecord, OpStates
<1>3. ~op.pre /\ ~op.sent /\ ~op.finp /\ op.retry
    BY <1>1 DEF OpRecord, Started, Starting
<1>4. [r EXCEPT !.ops[o] = op] =
        [r EXCEPT !.ops[o] = [@ EXCEPT !.name = n, !.term = "", !.st = "Preflight"]]
    BY <1>1 DEF Processes
<1> HIDE DEF op
<1>5. Starting(r, op) /\ Probed(r, o)
    BY <1>1, <1>2, <1>3 DEF Starting, Started, Probed
<1>6. Started([r EXCEPT !.ops[o] = op], o)
    BY <1>1, <1>2, <1>3, <1>5, ProbedStarts
<1>7. x \in DispatchUpload([r EXCEPT !.ops[o] = op], o)
    BY <1>4 DEF Resend
<1> QED BY <1>6, <1>7, DispatchGood

LEMMA ReuseGood ==
    ASSUME NEW r, NEW o, Started(r, o), r.ops[o].retry, NEW files, NEW x \in ReuseCopy(r, o, files)
    PROVE  Good(x)
<1>1. PICK n \in Uids : x \in ConsumeCandidate([r EXCEPT !.ops[o].name = n], o)
    BY DEF ReuseCopy
<1> DEFINE op == [r.ops[o] EXCEPT !.name = n]
<1>2. /\ r \in Processes /\ o \in Ops /\ r.ops[o] \in OpRecord /\ r.ops[o].disp \in Uids
      /\ r.snap.infl = None /\ r.ops[o].st = "Preflight"
    BY StartedHeld
<1>3. /\ op \in OpRecord /\ op.st = "Preflight" /\ op.gen = r.ops[o].gen /\ op.name = n
      /\ op.disp = r.ops[o].disp /\ op.lin = r.ops[o].lin
    BY <1>2 DEF OpRecord
<1>4. ~op.pre /\ ~op.sent /\ ~op.finp /\ op.retry
    BY <1>2 DEF OpRecord, Started, Starting
<1>5. [r EXCEPT !.ops[o] = op] = [r EXCEPT !.ops[o].name = n]
    BY <1>2 DEF Processes
<1> HIDE DEF op
<1>6. Starting(r, op) /\ Probed(r, o)
    BY <1>2, <1>3, <1>4 DEF Starting, Started, Probed
<1>7. Started([r EXCEPT !.ops[o] = op], o)
    BY <1>2, <1>3, <1>4, <1>6, ProbedStarts
<1>8. [r EXCEPT !.ops[o] = op].ops[o] = op
    BY <1>2, <1>3, SetIs
<1>9. x \in ConsumeCandidate([r EXCEPT !.ops[o] = op], o)
    BY <1>1, <1>5
<1> QED BY <1>4, <1>7, <1>8, <1>9, ConsumeGood

LEMMA PreflightGood ==
    ASSUME NEW r, NEW o, Probed(r, o), r.ops[o].pre, NEW files \in [Uids -> FileStates],
           NEW x \in RetryPreflight(r, o, files)
    PROVE  Good(x)
<1> DEFINE op == [r.ops[o] EXCEPT !.pre = FALSE]
           q == [r EXCEPT !.ops[o] = op]
<1>1. /\ r \in Processes /\ o \in Ops /\ r.ops[o] \in OpRecord /\ r.ops[o].disp \in Uids
      /\ r.ops[o].name \in Uids /\ r.ops[o].st = "Preflight" /\ r.snap.infl = None
    BY ProcessParts DEF Probed, Good, Surface, Foreground, Starting
<1>2. r.ops[o].retry /\ ~r.ops[o].sent /\ ~r.ops[o].finp /\ r.ops[o].lin # 0
    BY DEF Probed, Starting
<1>3. /\ op \in OpRecord /\ op.st = "Preflight" /\ op.gen = r.ops[o].gen /\ op.name = r.ops[o].name
      /\ op.disp = r.ops[o].disp /\ op.lin = r.ops[o].lin
    BY <1>1 DEF OpRecord
<1>4. ~op.pre /\ ~op.sent /\ ~op.finp /\ op.retry
    BY <1>1, <1>2 DEF OpRecord
<1>5. q = [r EXCEPT !.ops[o].pre = FALSE]
    BY <1>1 DEF Processes
<1> HIDE DEF op
<1>6. Starting(r, op)
    BY <1>1, <1>2, <1>3, <1>4 DEF Starting
<1>7. Started(q, o)
    BY <1>1, <1>3, <1>4, <1>6, ProbedStarts
<1>8. q.ops[o] = op
    BY <1>1, <1>3, SetIs, ZenonT(90)
<1> HIDE DEF q
<1>9. CASE \E outcome : x \in PreparedUploadFailure(q, o, outcome)
    <2>1. PICK outcome : x \in PreparedUploadFailure(q, o, outcome)
        BY <1>9
    <2>2. Good(q) /\ o = q.act /\ o # None /\ Rest(q) /\ q \in Processes
        BY <1>7, StartedHeld DEF Started
    <2>3. Near(q, q, o) /\ ~Sending(q, q.ops[o])
        BY <1>3, <1>8, <2>2 DEF Near, Store, IsOf, Sending
    <2> QED BY <2>1, <2>2, <2>3, FailureGood
<1>10. CASE \E n \in Uids : x \in Resend(q, o, n)
    BY <1>4, <1>7, <1>8, <1>10, ResendGood
<1>11. CASE x \in ConsumeCandidate(q, o)
    BY <1>4, <1>7, <1>8, <1>11, ConsumeGood
<1>12. CASE x \in ReuseCopy(q, o, files)
    BY <1>4, <1>7, <1>8, <1>12, ReuseGood
<1>13. files[r.ops[o].name] \in FileStates
    BY <1>1
<1>14. \/ x \in PreparedUploadFailure(q, o, "Cancelled")
       \/ x \in Resend(q, o, r.ops[o].disp)
       \/ x \in Resend(q, o, r.ops[o].name)
       \/ x \in ConsumeCandidate(q, o)
       \/ x \in ReuseCopy(q, o, files)
    BY <1>5, <1>13 DEF RetryPreflight, FileStates
<1> QED BY <1>1, <1>9, <1>10, <1>11, <1>12, <1>14

-----------------------------------------------------------------------------
(* The events of the worker                                                   *)

\* The records and the operations are the same.
LEMMA SameSurface ==
    ASSUME NEW r, Surface(r), NEW q \in Processes, Store(q, r), q.ops = r.ops, q.act = r.act,
           q.load # "yes" => ~q.rec,
           q.act # None /\ q.ops[q.act].gen # r.gen => q.ops[q.act].gen # q.gen
    PROVE  Surface(q)
<1>1. q.snap = r.snap /\ q.disk = r.disk /\ q.load = r.load /\ q.fail = r.fail
    BY DEF Store
<1>2. Foreground(q)
    BY <1>1 DEF Surface, Foreground, Starting, Sending
<1>3. Waiting(q)
    <2>1. ASSUME NEW p \in Ops, q.ops[p] # None
          PROVE  /\ q.ops[p].st \in Terminal \cup {"Recovering"} \/ p = q.act
                 /\ q.ops[p].st = "Recovering" =>
                       Waits(q.snap, p, q.ops[p]) \/ (p = q.act /\ Resolved(q, p, q.ops[p]))
        <3>1. p = q.act /\ Resolved(r, p, q.ops[p]) => Resolved(q, p, q.ops[p])
            BY <1>1 DEF Resolved
        <3> QED BY <1>1, <2>1, <3>1 DEF Surface, Waiting
    <2> QED BY <2>1 DEF Waiting
<1>4. Records(q) /\ Offers(q) /\ Loading(q)
    BY <1>1 DEF Surface, Records, Offers, Loading
<1>5. Shown(q)
    BY <1>1 DEF Surface, Shown, StartupGate, LookedTooLate
<1> QED BY <1>2, <1>3, <1>4, <1>5 DEF Surface

\* Event e of r is taken, which leaves q.
Popped(q, r, e) ==
    /\ Good(q) /\ Store(q, r) /\ q.ops = r.ops /\ q.act = r.act /\ q.gen = r.gen
    /\ e \in Events
    /\ \A o : Tells(e, o, r.ops[o].gen) /\ r.act = o /\ o # None => Free(q, o, r.ops[o].gen)
    /\ Says(e, "lost", r.gen) => Spent(q)
    /\ Says(e, "started", r.gen) /\ Restricted(r) => Ready(q)

LEMMA PopIs ==
    ASSUME NEW r, Good(r), r.evts # <<>>
    PROVE  Popped([r EXCEPT !.evts = Tail(@)], r, Head(r.evts))
<1> DEFINE q == [r EXCEPT !.evts = Tail(@)]
           e == Head(r.evts)
<1>1. r \in Processes /\ r.evts \in Seq(Events) /\ r.gen \in Nat
    BY ProcessParts DEF Good
<1>2. /\ Tail(r.evts) \in Seq(Events) /\ e \in Events /\ e = r.evts[1]
      /\ Len(r.evts) \in Nat /\ Len(r.evts) > 0
      /\ DOMAIN r.evts = 1 .. Len(r.evts) /\ DOMAIN Tail(r.evts) = 1 .. Len(r.evts) - 1
      /\ \A i \in DOMAIN Tail(r.evts) : i + 1 \in DOMAIN r.evts /\ Tail(r.evts)[i] = r.evts[i + 1]
    BY <1>1, TailIs
<1> HIDE DEF e
<1>3. /\ q \in Processes /\ Store(q, r) /\ q.ops = r.ops /\ q.act = r.act /\ q.gen = r.gen
      /\ q.jobs = r.jobs /\ q.evts = Tail(r.evts) /\ q.conn = r.conn /\ q.wk = r.wk
      /\ q.rec = r.rec /\ q.gate = r.gate
    BY <1>1, <1>2 DEF Processes, Store
<1> HIDE DEF q
<1>4. /\ 1 \in DOMAIN r.evts /\ \A i \in DOMAIN q.evts : i \in Nat /\ i + 1 \in DOMAIN r.evts
      /\ \A i \in DOMAIN q.evts : q.evts[i] = r.evts[i + 1] /\ i + 1 # 1
      /\ \A i, k \in DOMAIN q.evts : i + 1 = k + 1 => i = k
      /\ \A i, k \in DOMAIN q.evts : k + 1 < i + 1 => k < i
    BY <1>2, <1>3
<1>5. Surface(q)
    BY <1>3, SameSurface DEF Good, Surface, Loading, Store
<1>6. \A o, g : Free(r, o, g) => Free(q, o, g)
    BY <1>3, <1>4 DEF Free
<1>7. Spent(r) => Spent(q)
    BY <1>3, <1>4 DEF Spent
<1>8. Queues(q)
    BY <1>3, <1>4 DEF Queues, Good, Traffic
<1>9. Sessions(q)
    <2>1. Sessions(r)
        BY DEF Good, Traffic
    <2>2. /\ q.conn = None => q.wk = "Cleared"
          /\ q.wk = "Idle" => \A i \in DOMAIN q.evts : ~Says(q.evts[i], "started", q.gen)
          /\ q.wk \in {"Idle", "Active"} => \A i \in DOMAIN q.evts : ~Says(q.evts[i], "lost", q.gen)
        BY <1>3, <1>4, <2>1 DEF Sessions
    <2>3. ASSUME NEW i \in DOMAIN q.evts, NEW k \in DOMAIN q.evts,
                 Says(q.evts[i], "lost", q.gen), Says(q.evts[k], "started", q.gen)
          PROVE  k < i
        BY <1>3, <1>4, <2>1, <2>3 DEF Sessions
    <2> QED BY <2>2, <2>3 DEF Sessions
<1>10. Strays(q)
    BY <1>3, <1>6, <1>7 DEF Strays, Good, Traffic
<1>11. \A o, g : Sole(r, o, g) => Sole(q, o, g)
    <2> SUFFICES ASSUME NEW o, NEW g, Sole(r, o, g)
                 PROVE  Sole(q, o, g)
        OBVIOUS
    <2> QED BY <1>3, <1>4, ZenonT(90) DEF Sole
<1>12. Question(q)
    BY <1>3, <1>6, <1>11 DEF Question, Good, Traffic
<1>13. Transfers(q)
    BY <1>3 DEF Transfers, Good, Traffic
<1>14. Calm(q)
    BY <1>3, <1>6, <1>7 DEF Calm, Good
<1>15. Good(q)
    BY <1>3, <1>5, <1>8, <1>9, <1>10, <1>12, <1>13, <1>14 DEF Good, Traffic
<1>16. ASSUME NEW o, r.act = o, o # None, Tells(e, o, r.ops[o].gen)
       PROVE  Free(q, o, r.ops[o].gen)
    <2>1. Sole(r, o, r.ops[o].gen)
        BY <1>16 DEF Good, Traffic, Question
    <2> QED BY <1>2, <1>3, <1>4, <1>16, <2>1 DEF Sole, Free
<1>17. ASSUME Says(e, "lost", r.gen)
       PROVE  Spent(q)
    <2>1. Sessions(r) /\ r.wk \in {"Idle", "Active", "Lost", "Cleared"}
        BY <1>1 DEF Good, Traffic, Processes
    <2>2. r.wk # "Idle"
        BY <1>2, <1>4, <1>17, <2>1 DEF Sessions
    <2>3. ASSUME NEW k \in DOMAIN r.evts, Says(r.evts[k], "started", r.gen)
          PROVE  FALSE
        <3>1. k < 1
            BY <1>2, <1>4, <1>17, <2>1, <2>3 DEF Sessions
        <3> QED BY <1>2, <3>1
    <2> QED BY <1>3, <1>4, <2>2, <2>3 DEF Spent
<1>18. ASSUME Says(e, "started", r.gen), Restricted(r)
       PROVE  Ready(q)
    <2> DEFINE o == Visible(r.snap)
    <2>1. ~Spent(r)
        BY <1>2, <1>4, <1>18 DEF Spent
    <2>2. o \in Ops /\ o # None
        BY <1>1, <1>18, ProcessParts, SnapshotParts
           DEF Restricted, Visible, Fenced, Candidate, Dispatch
    <2>3. CASE r.act # o
        <3>1. Free(r, o, r.gen)
            BY <2>1, <2>2, <2>3 DEF Good, Traffic, Strays
        <3> QED BY <1>3, <1>6, <3>1 DEF Ready, Store
    <2>4. CASE r.act = o
        <3>1. Foreground(r) /\ Question(r) /\ Calm(r)
            BY DEF Good, Surface, Traffic
        <3>2. r.ops[o].st = "Recovering"
            BY <1>18, <2>2, <2>4, <3>1
               DEF Foreground, Starting, Sending, Restricted, Visible, Fenced, FencePhases
        <3>3. \/ Free(r, o, r.gen)
              \/ r.ops[o].pre /\ ~r.ops[o].chg /\ r.ops[o].gen = r.gen
            BY <2>1, <2>2, <2>4, <3>1, <3>2 DEF Calm, Question
        <3> QED BY <1>3, <1>6, <3>3 DEF Ready, Store
    <2> QED BY <2>3, <2>4
<1> QED BY <1>2, <1>3, <1>15, <1>16, <1>17, <1>18 DEF Popped, q, e

\* The operation in the foreground is changed, and starts or is sent still.
LEMMA ActSurface ==
    ASSUME NEW r \in Processes, Surface(r), NEW o, o = r.act, o # None,
           r.ops[o].st # "Recovering",
           NEW q \in Processes, Store(q, r), q.act = o, q.load # "yes" => ~q.rec,
           \A p \in Ops \ {o} : q.ops[p] = r.ops[p],
           q.ops[o] # None, q.ops[o].disp \in Uids, q.ops[o].name \in Uids,
           Starting(q, q.ops[o]) \/ Sending(q, q.ops[o])
    PROVE  Surface(q)
<1>1. q.snap = r.snap /\ q.disk = r.disk /\ q.load = r.load /\ q.fail = r.fail
    BY DEF Store
<1>2. o \in Ops /\ r.load = "yes" /\ r.ops[o] # None
    BY ProcessParts DEF Surface, Loading, Foreground
<1>3. r.snap.cand # None => r.snap.cand.op # o /\ ~FinalizationOnly(r.snap.cand)
    BY DEF Surface, Foreground
<1>4. q.ops[o].st \notin {"Recovering", "RetryAvailable"}
    BY DEF Starting, Sending
<1>5. Foreground(q)
    BY <1>1, <1>3 DEF Foreground
<1>6. Waiting(q)
    <2>1. ASSUME NEW p \in Ops, q.ops[p] # None, p # o
          PROVE  /\ q.ops[p].st \in Terminal \cup {"Recovering"}
                 /\ q.ops[p].st = "Recovering" => Waits(q.snap, p, q.ops[p])
        <3>1. q.ops[p] = r.ops[p]
            BY <2>1
        <3> QED BY <1>1, <2>1, <3>1 DEF Surface, Waiting
    <2> QED BY <1>4, <2>1 DEF Waiting
<1>7. Records(q) /\ Loading(q)
    BY <1>1, <1>2 DEF Records, Surface, Loading
<1>8. Offers(q)
    BY <1>1, <1>4 DEF Surface, Offers
<1>9. Shown(q)
    <2> SUFFICES ASSUME ~StartupGate(q) PROVE Shown(q)
        BY DEF Shown
    <2>1. ~StartupGate(r) /\ Shown(r)
        BY <1>1 DEF StartupGate, Surface
    <2>2. ASSUME r.snap.cand # None, r.snap.infl = None
          PROVE  LET op == q.ops[r.snap.cand.op]
                 IN /\ op # None
                    /\ \/ op.st = IF FinalizationOnly(r.snap.cand) THEN "Recovering"
                                  ELSE "RetryAvailable"
                       \/ LookedTooLate(q, r.snap.cand)
        <3>1. /\ r.snap.cand.op \in Ops /\ r.snap.cand.op # o
              /\ q.ops[r.snap.cand.op] = r.ops[r.snap.cand.op]
            BY <1>3, <2>2, ProcessParts, SnapshotParts DEF Candidate
        <3> QED BY <2>1, <2>2, <3>1 DEF Shown, LookedTooLate
    <2>3. ASSUME Fenced(r.snap)
          PROVE  LET op == q.ops[r.snap.infl.op] IN op # None /\ op.st = "Recovering"
        <3>1. r.snap.infl.op \in Ops /\ r.ops[r.snap.infl.op] # None
              /\ r.ops[r.snap.infl.op].st = "Recovering"
            BY <2>1, <2>3, ProcessParts, SnapshotParts DEF Shown, Fenced, Dispatch
        <3> QED BY <3>1
    <2> QED BY <1>1, <2>2, <2>3 DEF Shown
<1> QED BY <1>5, <1>6, <1>7, <1>8, <1>9 DEF Surface

LEMMA AnswerFails ==
    ASSUME NEW r, Good(r), NEW o, o = r.act, o # None, Free(r, o, r.ops[o].gen),
           NEW outcome, NEW x \in PreparedUploadFailure(r, o, outcome)
    PROVE  Good(x)
<1>1. Rest(r) /\ Free(r, o, r.gen)
    BY AnsweredRest
<1>2. r.ops[o] # None /\ r \in Processes
    BY DEF Good, Surface, Foreground
<1>3. Near(r, r, o)
    BY <1>2 DEF Near, Store, IsOf
<1> QED BY <1>1, <1>3, FailureGood

\* What event e answers.
LEMMA ExpectedIs ==
    ASSUME NEW q, NEW r, NEW e, Popped(q, r, e), ResultIsExpected(q, e),
           e.kind \in {"list", "nolist", "upload"}
    PROVE  /\ e.op \in Ops /\ e.op = q.act /\ e.op # None /\ q.ops[e.op] # None
           /\ q.ops[e.op] \in OpRecord /\ q.ops[e.op].gen = e.gen
           /\ Free(q, e.op, q.ops[e.op].gen) /\ Good(q) /\ q \in Processes
           /\ ResultIsCurrent(q, e.gen) \/ q.ops[e.op].chg
<1>1. /\ e.op # None /\ q.act = e.op /\ q.ops[e.op] # None /\ q.ops[e.op].gen = e.gen
      /\ ResultIsCurrent(q, e.gen) \/ q.ops[e.op].chg
    BY DEF ResultIsExpected, HasOp
<1>2. Good(q) /\ q \in Processes /\ q.ops = r.ops /\ q.act = r.act
    BY DEF Popped, Good
<1>3. e.op \in Ops
    BY <1>1, <1>2, ProcessParts
<1>4. q.ops[e.op] \in OpRecord
    BY <1>1, <1>2, <1>3, ProcessParts
<1>5. Tells(e, e.op, r.ops[e.op].gen)
    BY <1>1, <1>2 DEF Tells
<1>6. Free(q, e.op, q.ops[e.op].gen)
    BY <1>1, <1>2, <1>5 DEF Popped
<1> QED BY <1>1, <1>2, <1>3, <1>4, <1>6

LEMMA ListGood ==
    ASSUME NEW q, NEW r, NEW e, Popped(q, r, e), e.kind = "list",
           NEW x \in HandleMediaListReady(q, e)
    PROVE  Good(x)
<1> DEFINE o == e.op
           op == q.ops[o]
           exact == Verified(op, e.files)
<1>1. CASE ~ResultIsExpected(q, e)
    BY <1>1 DEF HandleMediaListReady, Popped
<1>2. CASE ResultIsExpected(q, e)
    <2>0. e.kind \in {"list", "nolist", "upload"}
        OBVIOUS
    <2>1. /\ o \in Ops /\ o = q.act /\ o # None /\ op # None /\ op \in OpRecord /\ op.gen = e.gen
          /\ Free(q, o, op.gen) /\ Good(q) /\ q \in Processes
          /\ ResultIsCurrent(q, e.gen) \/ op.chg
        BY <1>2, <2>0, ExpectedIs
    <2>2. Foreground(q) /\ Waiting(q)
        BY <2>1 DEF Good, Surface
    <2>3. CASE \E outcome : x \in PreparedUploadFailure(q, o, outcome)
        BY <2>1, <2>3, AnswerFails
    <2>4. CASE Reconciles(q, o) /\ x \in ReconcileWithFileList(q, o, exact)
        <3>1. exact \in BOOLEAN
            BY DEF Verified
        <3> HIDE DEF exact
        <3> QED BY <2>1, <2>4, <3>1, ReconcileListGood
    <2>5. CASE /\ ResultIsCurrent(q, e.gen) /\ ~Reconciles(q, o) /\ op.pre
               /\ x \in RetryPreflight(q, o, e.files)
        <3>1. op.st # "Recovering"
            <4>1. ~Resolved(q, o, op)
                BY <2>1, <2>5 DEF Resolved, ResultIsCurrent
            <4>2. ~Waits(q.snap, o, op)
                BY <2>5 DEF Waits, Awaited, Reconciles
            <4> QED BY <2>1, <2>2, <4>1, <4>2 DEF Waiting
        <3>2. Starting(q, op)
            BY <2>1, <2>2, <2>5, <3>1 DEF Foreground, Sending
        <3>3. Probed(q, o)
            BY <2>1, <3>2 DEF Probed
        <3>4. e.files \in [Uids -> FileStates]
            BY DEF Popped, Events
        <3> QED BY <2>5, <3>3, <3>4, PreflightGood
    <2>6. CASE op.st = "Refreshing" /\ x \in VerifiedUpload(q, o, FALSE)
        <3>1. Held(q, o)
            BY <2>1, AnsweredRest, AnsweredHeld
        <3>2. Sending(q, op)
            BY <2>1, <2>2, <2>6 DEF Foreground, Starting
        <3>3. Verifies(q, o)
            BY <2>1, <3>1, <3>2 DEF Verifies, Sending
        <3> QED BY <2>6, <3>3, VerifiedUploadGood
    <2>7. \/ \E outcome : x \in PreparedUploadFailure(q, o, outcome)
          \/ Reconciles(q, o) /\ x \in ReconcileWithFileList(q, o, exact)
          \/ /\ ResultIsCurrent(q, e.gen) /\ ~Reconciles(q, o) /\ op.pre
             /\ x \in RetryPreflight(q, o, e.files)
          \/ op.st = "Refreshing" /\ x \in VerifiedUpload(q, o, FALSE)
          \/ x = q
        BY <1>2 DEF HandleMediaListReady, Reconciles
    <2> QED BY <2>1, <2>3, <2>4, <2>5, <2>6, <2>7
<1> QED BY <1>1, <1>2

LEMMA NoListGood ==
    ASSUME NEW q, NEW r, NEW e, Popped(q, r, e), e.kind = "nolist",
           NEW x \in HandleMediaListFailed(q, e)
    PROVE  Good(x)
<1>1. CASE ~ResultIsExpected(q, e)
    BY <1>1 DEF HandleMediaListFailed, Popped
<1>2. CASE ResultIsExpected(q, e)
    <2>0. e.kind \in {"list", "nolist", "upload"}
        OBVIOUS
    <2>1. e.op = q.act /\ e.op # None /\ Free(q, e.op, q.ops[e.op].gen) /\ Good(q)
        BY <1>2, <2>0, ExpectedIs
    <2>2. \E outcome : x \in PreparedUploadFailure(q, e.op, outcome)
        BY <1>2 DEF HandleMediaListFailed
    <2> QED BY <2>1, <2>2, AnswerFails
<1> QED BY <1>1, <1>2

\* A transfer was acknowledged, and the file list is asked for.
LEMMA RefreshGood ==
    ASSUME NEW r, Good(r), NEW o, o = r.act, o # None, Free(r, o, r.gen), Rest(r),
           Sending(r, r.ops[o]), r.ops[o].gen = r.gen
    PROVE  Good(Send([r EXCEPT !.ops[o].st = "Refreshing"], Job("refresh", o, r.gen, 0)))
<1> DEFINE op == [r.ops[o] EXCEPT !.st = "Refreshing"]
           q == [r EXCEPT !.ops[o] = op]
           j == Job("refresh", o, r.gen, 0)
           x == Send(q, j)
<1>1. /\ r \in Processes /\ o \in Ops /\ r.ops[o] # None /\ r.ops[o] \in OpRecord /\ r.gen \in Nat
      /\ r.ops[o].disp \in Uids /\ r.ops[o].name \in Uids
    BY ProcessParts DEF Good, Surface, Foreground
<1>2. /\ op \in OpRecord /\ op.st = "Refreshing" /\ IsOf(op, r.ops[o]) /\ op.gen = r.gen
    BY <1>1 DEF OpRecord, OpStates, IsOf
<1>3. ~op.pre /\ ~op.finp
    BY <1>1 DEF OpRecord, Sending
<1>4. q = [r EXCEPT !.ops[o].st = "Refreshing"]
    BY <1>1 DEF Processes
<1> HIDE DEF op
<1>5. /\ q \in Processes /\ Talk(q, r) /\ Store(q, r) /\ q.act = r.act
      /\ q.ops[o] = op /\ \A p \in Ops \ {o} : q.ops[p] = r.ops[p]
    BY <1>1, <1>2, SetIs
<1>6. j \in Jobs /\ Asks(j, o, r.gen) /\ j.kind = "refresh"
    BY <1>1 DEF Job, Jobs, Asks
<1> HIDE DEF q, j
<1>7. /\ x \in Processes /\ Store(x, q) /\ x.ops = q.ops /\ x.act = q.act
      /\ x.jobs = Append(q.jobs, j) /\ x.evts = q.evts /\ x.gen = q.gen
      /\ x.conn = q.conn /\ x.wk = q.wk /\ x.rec = q.rec /\ x.gate = q.gate
    BY <1>5, <1>6, SendIs
<1> HIDE DEF x
<1>8. /\ Store(x, r) /\ x.act = o /\ x.jobs = Append(r.jobs, j) /\ x.evts = r.evts
      /\ x.gen = r.gen /\ x.conn = r.conn /\ x.wk = r.wk /\ x.rec = r.rec /\ x.gate = r.gate
      /\ x.ops[o] = op /\ \A p \in Ops \ {o} : x.ops[p] = r.ops[p]
    BY <1>5, <1>7 DEF Store, Talk
<1>9. Sending(x, op)
    <2>1. x.snap = r.snap /\ x.disk = r.disk
        BY <1>8 DEF Store
    <2> QED BY <1>2, <1>3, <1>8, <2>1 DEF Sending, IsOf
<1>10. op # None /\ op.disp \in Uids /\ op.name \in Uids /\ r.ops[o].st # "Recovering"
    BY <1>1, <1>2 DEF IsOf, Sending
<1>11. x.load # "yes" => ~x.rec
    BY <1>8 DEF Store, Good, Surface, Loading
<1>12. Surface(x)
    <2>1. Surface(r)
        BY DEF Good
    <2> QED BY <1>1, <1>7, <1>8, <1>9, <1>10, <1>11, <2>1, ActSurface
<1>13. Traffic(x) /\ Calm(x)
    <2>1. x.ops[o].st # "Converting" /\ x.ops[o].st # "Recovering" /\ x.ops[o].gen = r.gen
        BY <1>2, <1>8
    <2> QED BY <1>1, <1>6, <1>7, <1>8, <2>1, AskedTraffic
<1>14. x.gate.gen = x.gen
    BY <1>8 DEF Rest
<1>15. Good(x)
    BY <1>7, <1>12, <1>13, <1>14 DEF Good
<1> QED BY <1>4, <1>15 DEF x, j

LEMMA SucceededGood ==
    ASSUME NEW r, Good(r), NEW o, o = r.act, o # None, Free(r, o, r.ops[o].gen),
           ResultIsCurrent(r, r.ops[o].gen) \/ r.ops[o].chg, NEW x \in UploadSucceeded(r, o)
    PROVE  Good(x)
<1> DEFINE op == r.ops[o]
           d == r.snap.infl
           matches == d # None /\ d.op = o /\ d.phase = "DispatchArmed" /\ d.name = op.name
<1>1. Rest(r) /\ Free(r, o, r.gen) /\ Held(r, o) /\ o \in Ops /\ r \in Processes
    BY AnsweredRest, AnsweredHeld DEF Held
<1>2. CASE ~matches
    <2> DEFINE b == [r EXCEPT !.fail = TRUE]
    <2>1. x = Finish(b, o, "Failed", "")
        BY <1>2 DEF UploadSucceeded
    <2>2. /\ b \in Processes /\ Talk(b, r) /\ b.ops = r.ops /\ b.act = r.act
          /\ b.load = r.load /\ b.fail /\ b.snap = r.snap /\ b.disk = r.disk
        BY <1>1 DEF Processes, Talk
    <2> HIDE DEF b
    <2>3. Durable(b) /\ b.load = "yes"
        BY <1>1, <2>2 DEF Durable, Held
    <2>4. "Failed" \in Terminal /\ "" \in Modes
        BY DEF Terminal, Modes
    <2> QED BY <1>1, <2>1, <2>2, <2>3, <2>4, FailedGood
<1>3. CASE matches
    <2>1. Sending(r, op)
        <3>1. Foreground(r) /\ Waiting(r) /\ r.ops[o] # None
            BY DEF Good, Surface, Foreground
        <3>2. op.st # "Recovering"
            BY <1>1, <1>3, <3>1 DEF Waiting, Waits, Awaited, Resolved, Fenced, FencePhases
        <3> QED BY <1>3, <3>1, <3>2 DEF Foreground, Starting
    <2>2. CASE x \in PreparedUploadFailure(r, o, "PartialOrUnknown")
        BY <2>2, AnswerFails
    <2>3. CASE x \in Retire(r, RetireAcknowledged(r.snap), o, FALSE)
        <3> DEFINE t == RetireAcknowledged(r.snap)
        <3>1. r.snap \in Snapshot /\ Apart(r.snap)
            BY <1>1, ProcessParts DEF Held, Durable
        <3>2. /\ t \in Snapshot /\ t.infl = None /\ t.clean = r.snap.clean
              /\ t.cand \in {r.snap.cand, None}
            BY <1>3, <3>1, RetirementsStay DEF RetireAcknowledged, Snapshot
        <3> HIDE DEF t
        <3>3. ~(t.cand # None /\ t.cand.op = o)
            BY <1>3, <3>1, <3>2 DEF Apart
        <3>4. x \in Retire(r, t, o, FALSE) /\ r.act = o
            BY <2>3 DEF t
        <3> QED BY <1>1, <1>3, <3>2, <3>3, <3>4, RetireGood
    <2>4. CASE ~op.chg /\ x = Send([r EXCEPT !.ops[o].st = "Refreshing"], Job("refresh", o, r.gen, 0))
        <3>1. op.gen = r.gen
            BY <2>4 DEF ResultIsCurrent
        <3> QED BY <1>1, <2>1, <2>4, <3>1, RefreshGood
    <2>5. \/ x \in PreparedUploadFailure(r, o, "PartialOrUnknown")
          \/ x \in Retire(r, RetireAcknowledged(r.snap), o, FALSE)
          \/ ~op.chg /\ x = Send([r EXCEPT !.ops[o].st = "Refreshing"], Job("refresh", o, r.gen, 0))
        BY <1>3 DEF UploadSucceeded
    <2> QED BY <2>2, <2>3, <2>4, <2>5
<1> QED BY <1>2, <1>3

LEMMA UploadFailedGood ==
    ASSUME NEW r, Good(r), NEW e \in Events, e.op = r.act, e.op # None,
           Free(r, e.op, r.ops[e.op].gen), NEW x \in UploadFailed(r, e)
    PROVE  Good(x)
<1> DEFINE o == e.op
           unverifiable == e.out = "FinalizationUnknown" /\ ~HasCatalog(r)
           told == IF unverifiable THEN "PartialOrUnknown" ELSE e.out
           term == IF unverifiable \/ r.ops[o].term = "" THEN told ELSE r.ops[o].term
           finp == IF e.out = "FinalizationUnknown" THEN ~unverifiable ELSE r.ops[o].finp
           op == [r.ops[o] EXCEPT !.term = term, !.finp = finp]
           q == [r EXCEPT !.ops[o] = op]
<1>1. /\ r \in Processes /\ o \in Ops /\ r.ops[o] # None /\ r.ops[o] \in OpRecord
      /\ Rest(r) /\ Free(r, o, r.gen)
    BY AnsweredRest, ProcessParts DEF Good, Surface, Foreground
<1>2. term \in Outcomes \cup {"", "Succeeded", "Cancelled"}
    BY <1>1 DEF OpRecord, Events, Results, Outcomes
<1>3. finp \in BOOLEAN
    BY <1>1 DEF OpRecord
<1>4. x \in PreparedUploadFailure(q, o, told)
    BY Zenon DEF UploadFailed
<1> HIDE DEF term, finp, told
<1>6. op \in OpRecord /\ op.st = r.ops[o].st /\ op.retry = r.ops[o].retry /\ IsOf(op, r.ops[o])
    BY <1>1, <1>2, <1>3, ZenonT(90) DEF OpRecord, IsOf
<1> HIDE DEF op
<1>7. /\ q \in Processes /\ Talk(q, r) /\ Store(q, r) /\ q.act = r.act
      /\ q.ops[o] = op /\ \A p \in Ops \ {o} : q.ops[p] = r.ops[p]
    BY <1>1, <1>6, SetIs
<1> HIDE DEF q
<1>8. Near(q, r, o)
    BY <1>6, <1>7 DEF Near
<1>9. Rest(q) /\ Free(q, o, q.gen)
    BY <1>1, <1>7, RestTalk DEF Talk, Free
<1> QED BY <1>4, <1>8, <1>9, FailureGood

LEMMA UploadFinishedGood ==
    ASSUME NEW q, NEW r, NEW e, Popped(q, r, e), e.kind = "upload",
           NEW x \in HandleUploadFinished(q, e)
    PROVE  Good(x)
<1>1. CASE ~ResultIsExpected(q, e)
    BY <1>1 DEF HandleUploadFinished, Popped
<1>2. CASE ResultIsExpected(q, e)
    <2>0. e.kind \in {"list", "nolist", "upload"} /\ e \in Events
        BY DEF Popped
    <2>1. /\ e.op = q.act /\ e.op # None /\ Free(q, e.op, q.ops[e.op].gen) /\ Good(q)
          /\ ResultIsCurrent(q, q.ops[e.op].gen) \/ q.ops[e.op].chg
        BY <1>2, <2>0, ExpectedIs
    <2>2. x \in UploadFailed(q, e) \/ x \in UploadSucceeded(q, e.op)
        BY <1>2 DEF HandleUploadFinished
    <2> QED BY <2>0, <2>1, <2>2, UploadFailedGood, SucceededGood
<1> QED BY <1>1, <1>2

LEMMA StartedEventGood ==
    ASSUME NEW q, NEW r, NEW e, Popped(q, r, e), e.kind = "started",
           NEW x \in HandleSessionStarted(q, e)
    PROVE  Good(x)
<1>1. Good(q) /\ q \in Processes /\ q.gen = r.gen /\ q.snap = r.snap
    BY DEF Popped, Good, Store
<1>2. CASE x = q
    BY <1>1, <1>2
<1>3. CASE ResultIsCurrent(q, e.gen) /\ Restricted(q) /\ x \in Reconcile([q EXCEPT !.sact = FALSE])
    <2> DEFINE m == [q EXCEPT !.sact = FALSE]
    <2>1. m \in Processes /\ Talk(m, q) /\ Store(m, q) /\ m.ops = q.ops /\ m.act = q.act
        BY <1>1 DEF Processes, Talk, Store
    <2> HIDE DEF m
    <2>2. Good(m)
        BY <1>1, <2>1, AlikeGood
    <2>3. Ready(q)
        BY <1>1, <1>3 DEF Popped, Says, ResultIsCurrent, Restricted
    <2>4. Ready(m)
        BY <2>1, <2>3 DEF Ready, Talk, Store, Free
    <2>5. x \in Reconcile(m)
        BY <1>3 DEF m
    <2> QED BY <2>2, <2>4, <2>5, ReconcileGood
<1>4. CASE x = [q EXCEPT !.sact = FALSE]
    <2>1. x \in Processes /\ Talk(x, q) /\ Store(x, q) /\ x.ops = q.ops /\ x.act = q.act
        BY <1>1, <1>4 DEF Processes, Talk, Store
    <2> QED BY <1>1, <2>1, AlikeGood
<1>5. CASE x = [q EXCEPT !.slost = FALSE, !.lrem = FALSE, !.sact = TRUE]
    <2>1. x \in Processes /\ Talk(x, q) /\ Store(x, q) /\ x.ops = q.ops /\ x.act = q.act
        BY <1>1, <1>5 DEF Processes, Talk, Store
    <2> QED BY <1>1, <2>1, AlikeGood
<1> QED BY <1>2, <1>3, <1>4, <1>5 DEF HandleSessionStarted

\* The device of the operation in the foreground changed: it ends, or is marked.
Changed(x, r) ==
    /\ x \in Processes /\ Talk(x, r) /\ Store(x, r) /\ Surface(x) /\ Traffic(x)
    /\ x.gate.gen = x.gen
    /\ x.act # None => x.act = r.act /\ x.ops[x.act].chg
    /\ Spent(r) => Good(x)

LEMMA CancelForegroundIs ==
    ASSUME NEW r, Good(r)
    PROVE  Changed(CancelForeground(r), r)
<1> DEFINE o == r.act
           x == CancelForeground(r)
<1>1. r \in Processes /\ Surface(r) /\ Traffic(r) /\ r.gate.gen = r.gen
    BY DEF Good
<1>2. CASE ~HasOp(r, o)
    <2>1. x = r
        BY <1>2 DEF CancelForeground
    <2>2. o = None
        <3>1. o # None => o \in Ops /\ r.ops[o] # None
            BY <1>1, ProcessParts DEF Surface, Foreground
        <3> QED BY <1>2, <3>1 DEF HasOp
    <2>3. Changed(r, r)
        BY <1>1, <2>2 DEF Changed, Talk, Store
    <2> QED BY <2>1, <2>3
<1>3. CASE HasOp(r, o) /\ r.ops[o].st = "Converting"
    <2>1. /\ o # None /\ o \in Ops /\ r.ops[o] # None /\ r.ops[o].st \notin Terminal
        BY <1>1, <1>3, ProcessParts DEF HasOp, Terminal
    <2>2. x = Finish(r, o, "Cancelled", "")
        BY <1>3 DEF CancelForeground
    <2>3. "Cancelled" \in OpStates /\ "" \in Modes /\ "Cancelled" \in Dropped
        BY DEF OpStates, Terminal, Modes, Dropped
    <2>4. EndsAs(x, r, o, "Cancelled")
        BY <1>1, <2>1, <2>2, <2>3, FinishEnds
    <2> HIDE DEF x
    <2>5. /\ x \in Processes /\ Talk(x, r) /\ Store(x, r) /\ x.act = None
          /\ x.ops[o] # None /\ x.ops[o].st = "Cancelled"
          /\ \A p \in Ops \ {o} : x.ops[p] = r.ops[p]
        BY <2>4 DEF EndsAs
    <2>6. Free(r, o, r.ops[o].gen)
        BY <1>1, <1>3, <2>1 DEF Traffic, Question
    <2>7. Rest(x)
        BY <2>1, <2>5, <2>6, AnsweredRest, RestTalk
    <2>8. r.snap.infl = None
        BY <1>1, <1>3, <2>1 DEF Surface, Foreground, Starting, Sending
    <2>9. Good(x)
        BY <1>3, <2>1, <2>3, <2>5, <2>7, <2>8, EndedGood
    <2> QED BY <2>5, <2>9 DEF Changed, Good, x
<1>4. CASE HasOp(r, o) /\ r.ops[o].st # "Converting"
    <2> DEFINE op == [r.ops[o] EXCEPT !.chg = TRUE]
               q == [r EXCEPT !.ops[o] = op]
    <2>1. /\ o # None /\ o \in Ops /\ r.ops[o] # None /\ r.ops[o] \in OpRecord /\ r.load = "yes"
          /\ r.ops[o].disp \in Uids /\ r.ops[o].name \in Uids
        BY <1>1, <1>4, ProcessParts DEF HasOp, Surface, Loading, Foreground
    <2>2. x = [r EXCEPT !.ops[o].chg = TRUE]
        BY <1>4 DEF CancelForeground
    <2>3. x = q
        BY <1>1, <2>2 DEF Processes
    <2>4. /\ op \in OpRecord /\ op.st = r.ops[o].st /\ IsOf(op, r.ops[o]) /\ op.gen = r.ops[o].gen
          /\ op.retry = r.ops[o].retry /\ op.chg
        BY <2>1 DEF OpRecord, IsOf
    <2>5. /\ op.pre = r.ops[o].pre /\ op.sent = r.ops[o].sent /\ op.finp = r.ops[o].finp
        BY <2>1 DEF OpRecord
    <2> HIDE DEF op, x
    <2>6. /\ q \in Processes /\ Talk(q, r) /\ Store(q, r) /\ q.act = r.act
          /\ q.ops[o] = op /\ \A p \in Ops \ {o} : q.ops[p] = r.ops[p]
        BY <1>1, <2>1, <2>4, SetIs
    <2> HIDE DEF q
    <2>7. op # None
        BY <2>4
    <2>8. /\ q.snap = r.snap /\ q.disk = r.disk /\ q.load = r.load /\ q.fail = r.fail
          /\ q.gen = r.gen /\ q.jobs = r.jobs /\ q.evts = r.evts /\ q.conn = r.conn
          /\ q.wk = r.wk /\ q.rec = r.rec /\ q.gate = r.gate
        BY <2>6 DEF Store, Talk
    <2>9. Surface(q)
        <3>1. CASE r.ops[o].st = "Recovering"
            <4>1. Foreground(q)
                BY <2>1, <2>4, <2>6, <2>7, <3>1 DEF Foreground, IsOf
            <4>2. Waiting(q)
                <5>1. ASSUME NEW p \in Ops, q.ops[p] # None, p # o
                      PROVE  /\ q.ops[p].st \in Terminal \cup {"Recovering"}
                             /\ q.ops[p].st = "Recovering" => Waits(q.snap, p, q.ops[p])
                    <6>1. q.ops[p] = r.ops[p]
                        BY <2>6, <5>1
                    <6> QED BY <1>1, <2>8, <5>1, <6>1 DEF Surface, Waiting
                <5>2. Waits(r.snap, o, r.ops[o]) \/ Resolved(r, o, r.ops[o])
                    BY <1>1, <2>1, <3>1 DEF Surface, Waiting
                <5>3. Waits(r.snap, o, r.ops[o]) => Waits(q.snap, o, op)
                    BY <2>4, <2>8 DEF Waits, IsOf
                <5>4. Resolved(r, o, r.ops[o]) => Resolved(q, o, op)
                    BY <2>4, <2>5, <2>8 DEF Resolved
                <5> QED BY <2>6, <5>1, <5>2, <5>3, <5>4 DEF Waiting
            <4>3. Records(q) /\ Loading(q)
                BY <1>1, <2>1, <2>6, <2>8 DEF Records, Surface, Loading
            <4>4. Offers(q)
                BY <1>1, <2>4, <2>6, <2>8, <3>1 DEF Surface, Offers
            <4>5. Shown(q)
                <5> SUFFICES ASSUME ~StartupGate(q) PROVE Shown(q)
                    BY DEF Shown
                <5>1. ~StartupGate(r) /\ Shown(r)
                    BY <1>1, <2>8 DEF StartupGate, Surface
                <5>2. ASSUME r.snap.cand # None, r.snap.infl = None
                      PROVE  LET pp == q.ops[r.snap.cand.op]
                             IN /\ pp # None
                                /\ \/ pp.st = IF FinalizationOnly(r.snap.cand) THEN "Recovering"
                                              ELSE "RetryAvailable"
                                   \/ LookedTooLate(q, r.snap.cand)
                    <6>1. r.snap.cand.op \in Ops
                        BY <1>1, <5>2, ProcessParts, SnapshotParts DEF Candidate
                    <6>2. CASE r.snap.cand.op = o
                        BY <2>4, <2>6, <2>7, <3>1, <5>1, <5>2, <6>2 DEF Shown, LookedTooLate
                    <6>3. CASE r.snap.cand.op # o
                        <7>1. q.ops[r.snap.cand.op] = r.ops[r.snap.cand.op]
                            BY <2>6, <6>1, <6>3
                        <7> QED BY <2>6, <5>1, <5>2, <7>1 DEF Shown, LookedTooLate
                    <6> QED BY <6>2, <6>3
                <5>3. ASSUME Fenced(r.snap)
                      PROVE  LET pp == q.ops[r.snap.infl.op] IN pp # None /\ pp.st = "Recovering"
                    <6>1. r.snap.infl.op \in Ops /\ r.ops[r.snap.infl.op] # None
                          /\ r.ops[r.snap.infl.op].st = "Recovering"
                        BY <1>1, <5>1, <5>3, ProcessParts, SnapshotParts
                           DEF Shown, Fenced, Dispatch
                    <6> QED BY <2>4, <2>6, <2>7, <6>1
                <5> QED BY <2>8, <5>2, <5>3 DEF Shown
            <4> QED BY <4>1, <4>2, <4>3, <4>4, <4>5 DEF Surface
        <3>2. CASE r.ops[o].st # "Recovering"
            <4>1. Starting(q, op) \/ Sending(q, op)
                <5>1. Starting(r, r.ops[o]) \/ Sending(r, r.ops[o])
                    BY <1>1, <2>1, <3>2 DEF Surface, Foreground
                <5>2. Starting(r, r.ops[o]) => Starting(q, op)
                    BY <2>4, <2>5, <2>8 DEF Starting, IsOf
                <5>3. Sending(r, r.ops[o]) => Sending(q, op)
                    BY <2>4, <2>5, <2>6, <2>8 DEF Sending, IsOf
                <5> QED BY <5>1, <5>2, <5>3
            <4>2. q.load # "yes" => ~q.rec
                BY <2>1, <2>8
            <4>3. op.disp \in Uids /\ op.name \in Uids
                BY <2>1, <2>4 DEF IsOf
            <4> QED BY <1>1, <2>1, <2>6, <2>7, <3>2, <4>1, <4>2, <4>3, ActSurface
        <3> QED BY <3>1, <3>2
    <2>10. Traffic(q)
        <3>1. Queues(q) /\ Sessions(q)
            BY <1>1, <2>8 DEF Traffic, Queues, Sessions
        <3>2. Strays(q)
            BY <1>1, <2>6, <2>8 DEF Traffic, Strays, Free, Spent
        <3>3. Question(q)
            BY <1>1, <2>1, <2>4, <2>6, <2>8 DEF Traffic, Question, Sole, Free
        <3>4. Transfers(q)
            BY <1>1, <2>1, <2>4, <2>6, <2>8 DEF Traffic, Transfers, IsOf
        <3> QED BY <3>1, <3>2, <3>3, <3>4 DEF Traffic
    <2>11. Spent(r) => Calm(q)
        BY <2>8 DEF Calm, Spent
    <2>12. Changed(q, r)
        BY <1>1, <2>1, <2>4, <2>6, <2>8, <2>9, <2>10, <2>11 DEF Changed, Good
    <2> QED BY <2>3, <2>12 DEF x
<1> QED BY <1>2, <1>3, <1>4

LEMMA LostGood ==
    ASSUME NEW q, NEW r, NEW e, Popped(q, r, e), e.kind = "lost",
           NEW x \in HandleSessionLost(q, e)
    PROVE  Good(x)
<1> DEFINE o == q.act
<1>1. Good(q) /\ q \in Processes /\ q.gen = r.gen
    BY DEF Popped, Good
<1>2. CASE x = q
    BY <1>1, <1>2
<1>3. ResultIsCurrent(q, e.gen) => Spent(q)
    BY <1>1 DEF Popped, Says, ResultIsCurrent
<1>4. CASE /\ ResultIsCurrent(q, e.gen) /\ HasOp(q, o) /\ q.ops[o].finp
           /\ x \in PreparedUploadFailure(
                       RequireRecovery([q EXCEPT !.ops[o] = [@ EXCEPT
                           !.finp = FALSE, !.recov = TRUE, !.fresh = TRUE]]),
                       o, "PartialOrUnknown")
    <2> DEFINE op == [q.ops[o] EXCEPT !.finp = FALSE, !.recov = TRUE, !.fresh = TRUE]
               m == [q EXCEPT !.ops[o] = op]
               n == RequireRecovery(m)
    <2>1. o # None /\ o \in Ops /\ q.ops[o] # None /\ q.ops[o] \in OpRecord
        BY <1>1, <1>4, ProcessParts DEF HasOp
    <2>2. q.ops[o].st = "Recovering"
        BY <1>1, <1>4, <2>1 DEF Good, Surface, Foreground, Starting, Sending
    <2>3. m = [q EXCEPT !.ops[o] = [@ EXCEPT !.finp = FALSE, !.recov = TRUE, !.fresh = TRUE]]
        BY <1>1 DEF Processes
    <2>4. op \in OpRecord /\ op.st = q.ops[o].st /\ op.retry = q.ops[o].retry /\ IsOf(op, q.ops[o])
        BY <2>1, ZenonT(90) DEF OpRecord, IsOf
    <2> HIDE DEF op
    <2>5. /\ m \in Processes /\ Talk(m, q) /\ Store(m, q) /\ m.act = q.act
          /\ m.ops[o] = op /\ \A p \in Ops \ {o} : m.ops[p] = q.ops[p]
        BY <1>1, <2>1, <2>4, SetIs
    <2> HIDE DEF m
    <2>6. /\ n \in Processes /\ Store(n, m) /\ n.ops = m.ops /\ n.act = m.act
        BY <2>5, RecoveryIs
    <2>7. /\ m.jobs = q.jobs /\ m.evts = q.evts /\ m.gen = q.gen /\ m.conn = q.conn
          /\ m.wk = q.wk /\ m.rec = q.rec
        BY <2>5 DEF Talk
    <2>8. Queues(m) /\ Sessions(m) /\ NoUploads(m) /\ Spent(m)
        <3>1. NoUploads(q)
            BY <1>1, <2>1, <2>2 DEF Good, Traffic, Transfers, NoUploads
        <3> QED BY <1>1, <1>3, <1>4, <2>7, <3>1
            DEF Good, Traffic, Queues, Sessions, NoUploads, Spent
    <2>9. Rest(n)
        BY <2>5, <2>8, RecoveryRest
    <2>10. x \in PreparedUploadFailure(n, o, "PartialOrUnknown")
        BY <1>4, <2>3
    <2> HIDE DEF n
    <2>11. Near(n, q, o)
        BY <2>4, <2>5, <2>6 DEF Near, Store
    <2>12. ~Sending(q, q.ops[o])
        BY <2>2 DEF Sending
    <2> QED BY <1>1, <2>1, <2>9, <2>10, <2>11, <2>12, FailureGood
<1>5. CASE ResultIsCurrent(q, e.gen) /\
           x = CancelForeground([q EXCEPT !.lrem = @ /\ q.slost, !.slost = TRUE, !.sact = FALSE])
    <2> DEFINE m == [q EXCEPT !.lrem = @ /\ q.slost, !.slost = TRUE, !.sact = FALSE]
    <2>1. m \in Processes /\ Talk(m, q) /\ Store(m, q) /\ m.ops = q.ops /\ m.act = q.act
        BY <1>1, ZenonT(90) DEF Processes, Talk, Store
    <2> HIDE DEF m
    <2>2. Good(m)
        BY <1>1, <2>1, AlikeGood
    <2>3. Spent(m)
        BY <1>3, <1>5, <2>1 DEF Spent, Talk
    <2>4. Changed(x, m)
        BY <1>5, <2>2, CancelForegroundIs DEF m
    <2> QED BY <2>3, <2>4 DEF Changed
<1> QED BY <1>2, <1>4, <1>5 DEF HandleSessionLost

LEMMA HandleGood ==
    ASSUME NEW r, Good(r), r.evts # <<>>,
           NEW x \in Handle([r EXCEPT !.evts = Tail(@)], Head(r.evts))
    PROVE  Good(x)
<1> DEFINE q == [r EXCEPT !.evts = Tail(@)]
           e == Head(r.evts)
<1>1. Popped(q, r, e)
    BY PopIs
<1>2. x \in Handle(q, e)
    OBVIOUS
<1> HIDE DEF q, e
<1>3. e.kind \in {"started", "lost", "list", "nolist", "upload"}
    BY <1>1 DEF Popped, Events
<1>4. \/ e.kind = "started" /\ x \in HandleSessionStarted(q, e)
      \/ e.kind = "lost" /\ x \in HandleSessionLost(q, e)
      \/ e.kind = "list" /\ x \in HandleMediaListReady(q, e)
      \/ e.kind = "nolist" /\ x \in HandleMediaListFailed(q, e)
      \/ e.kind = "upload" /\ x \in HandleUploadFinished(q, e)
    BY <1>2, <1>3 DEF Handle
<1> QED BY <1>1, <1>4, StartedEventGood, LostGood, ListGood, NoListGood, UploadFinishedGood

-----------------------------------------------------------------------------
(* A new generation: nothing that is queued is of it                          *)

Fresh(r) ==
    /\ \A i \in DOMAIN r.jobs : r.jobs[i].gen < r.gen /\ (r.jobs[i].kind # "start" => r.jobs[i].op \in Ops)
    /\ \A i \in DOMAIN r.evts :
          /\ r.evts[i].gen < r.gen
          /\ r.evts[i].kind \notin {"started", "lost"} => r.evts[i].op \in Ops

Renewed(r) ==
    /\ r \in Processes /\ Surface(r) /\ Question(r) /\ Transfers(r) /\ Fresh(r)
    /\ r.act # None => r.ops[r.act].chg /\ r.ops[r.act].gen < r.gen

LEMMA ActIs ==
    ASSUME NEW r \in Processes, Surface(r), r.act # None
    PROVE  r.act \in Ops /\ r.ops[r.act] # None /\ r.ops[r.act] \in OpRecord /\ r.ops[r.act].gen \in Nat
BY ProcessParts DEF Surface, Foreground, OpRecord

LEMMA RenewedIs ==
    ASSUME NEW x \in Processes, Surface(x), Traffic(x), x.act # None => x.ops[x.act].chg,
           NEW n \in Processes, Store(n, x), n.ops = x.ops, n.act = x.act, n.jobs = x.jobs,
           n.evts = x.evts, n.rec = x.rec, n.gen = x.gen + 1
    PROVE  Renewed(n)
<1>1. x.gen \in Nat /\ n.gen \in Nat /\ n.gen > x.gen
    BY ProcessParts
<1>2. /\ \A i \in DOMAIN x.jobs : x.jobs[i].gen \in Nat /\ x.jobs[i].gen <= x.gen
      /\ \A i \in DOMAIN x.evts : x.evts[i].gen \in Nat /\ x.evts[i].gen <= x.gen
    BY QueuedIs DEF Traffic, Queues
<1>3. Fresh(n)
    BY <1>1, <1>2 DEF Fresh, Traffic, Queues
<1>4. x.act # None => x.ops[x.act].gen \in Nat /\ x.ops[x.act].gen <= x.gen
    BY ActIs DEF Traffic, Question
<1>5. Surface(n)
    <2>1. n.load # "yes" => ~n.rec
        BY DEF Surface, Loading, Store
    <2>2. n.act # None => n.ops[n.act].gen # n.gen
        BY <1>1, <1>4
    <2> QED BY <2>1, <2>2, SameSurface
<1>6. \A o : Free(n, o, n.gen)
    <2>1. \A o : Free(x, o, n.gen)
        BY <1>1, NothingNewer DEF Traffic
    <2> QED BY <2>1 DEF Free
<1>7. Question(n)
    <2>1. n.act # None => n.ops[n.act].gen <= n.gen
        BY <1>1, <1>4
    <2> QED BY <1>6, <2>1 DEF Traffic, Question, Sole, Free
<1>8. Transfers(n)
    BY DEF Traffic, Transfers
<1> QED BY <1>1, <1>3, <1>4, <1>5, <1>7, <1>8 DEF Renewed

\* The worker is told the new generation.
LEMMA RenewedGood ==
    ASSUME NEW r, Renewed(r), NEW q \in Processes, Store(q, r), q.ops = r.ops, q.act = r.act,
           q.jobs = r.jobs, q.evts = r.evts, q.gen = r.gen, q.load # "yes" => ~q.rec,
           q.gate.gen = q.gen, q.wk \in {"Idle", "Cleared"}, q.conn = None => q.wk = "Cleared"
    PROVE  Good(q) /\ \A o : Free(q, o, q.gen)
<1>0. r \in Processes /\ r.gen \in Nat
    BY ProcessParts DEF Renewed
<1>1. /\ \A i \in DOMAIN q.jobs : q.jobs[i].gen \in Nat /\ q.jobs[i].gen < q.gen
      /\ \A i \in DOMAIN q.evts : q.evts[i].gen \in Nat /\ q.evts[i].gen < q.gen
    BY <1>0, QueuedIs DEF Renewed, Fresh
<1>2. /\ \A i \in DOMAIN q.jobs : q.jobs[i].gen # q.gen /\ q.jobs[i].gen <= q.gen
      /\ \A i \in DOMAIN q.evts : q.evts[i].gen # q.gen /\ q.evts[i].gen <= q.gen
    BY <1>0, <1>1
<1>3. \A o : Free(q, o, q.gen)
    BY <1>2 DEF Free, Asks, Tells
<1>4. Surface(q)
    BY <1>0, SameSurface DEF Renewed
<1>5. Queues(q) /\ Sessions(q)
    BY <1>2 DEF Renewed, Fresh, Queues, Sessions, Says
<1>6. Strays(q) /\ Calm(q)
    BY <1>3 DEF Strays, Calm
<1>7. Question(q) /\ Transfers(q)
    BY DEF Renewed, Question, Transfers, Sole, Free
<1> QED BY <1>3, <1>4, <1>5, <1>6, <1>7 DEF Good, Traffic

\* What a handler leaves of it.
LEMMA RenewedStays ==
    ASSUME NEW r, Renewed(r), NEW q \in Processes, Talk(q, r), Surface(q), q.act \in {None, r.act},
           q.act # None => /\ q.ops[q.act].st = r.ops[q.act].st /\ q.ops[q.act].gen = r.ops[q.act].gen
                           /\ q.ops[q.act].chg = r.ops[q.act].chg /\ q.ops[q.act].name = r.ops[q.act].name,
           q.act = None /\ r.act # None => r.ops[r.act].st # "Uploading"
    PROVE  Renewed(q)
<1>1. q.jobs = r.jobs /\ q.evts = r.evts /\ q.gen = r.gen
    BY DEF Talk
<1>2. Fresh(q) /\ (q.act # None => q.ops[q.act].chg /\ q.ops[q.act].gen < q.gen)
    BY <1>1 DEF Renewed, Fresh
<1>3. Question(q)
    BY <1>1 DEF Renewed, Question, Sole, Free
<1>4. Transfers(q)
    <2>1. CASE q.act # None
        BY <1>1, <2>1 DEF Renewed, Transfers
    <2>2. CASE q.act = None
        <3>1. \A i \in DOMAIN r.jobs : r.jobs[i].kind # "upload"
            BY <2>2 DEF Renewed, Transfers, Fresh
        <3> QED BY <1>1, <3>1 DEF Transfers
    <2> QED BY <2>1, <2>2
<1> QED BY <1>2, <1>3, <1>4 DEF Renewed

\* A store that fails in between.
LEMMA FailedSurface ==
    ASSUME NEW r, Surface(r), NEW b \in Processes, b.ops = r.ops, b.act = r.act, b.load = "yes",
           b.fail, b.snap = r.snap, b.gen = r.gen, Apart(b.disk), Fenced(b.disk) => AllowShadowLoss,
           r.act # None /\ Sending(r, r.ops[r.act]) => b.disk.infl = r.snap.infl
    PROVE  Surface(b)
<1>1. Foreground(b)
    BY DEF Surface, Foreground, Starting, Sending
<1>2. Waiting(b)
    BY DEF Surface, Waiting, Resolved
<1>3. Records(b) /\ Shown(b) /\ Offers(b) /\ Loading(b)
    BY DEF Surface, Records, Shown, StartupGate, Offers, Loading
<1> QED BY <1>1, <1>2, <1>3 DEF Surface

LEMMA NeatSurface ==
    ASSUME NEW q \in Processes, q.act = None, q.load = "yes", Durable(q), q.snap.infl = None,
           \A p \in Ops : Neat(q, p)
    PROVE  Surface(q)
<1>1. Foreground(q) /\ Loading(q) /\ Records(q)
    BY DEF Foreground, Loading, Records, Durable
<1>2. Waiting(q)
    BY DEF Waiting, Neat, Stands, Waits, Awaited, Ended, Terminal
<1>3. Offers(q)
    BY DEF Offers, Neat, Stands, Ended
<1>4. Shown(q)
    <2> SUFFICES ASSUME ~q.fail
                 PROVE  /\ q.snap.cand # None => Stands(q.ops[q.snap.cand.op], q.snap.cand)
                        /\ ~Fenced(q.snap)
        BY DEF Shown, StartupGate, Stands
    <2>2. q.snap.cand # None => q.snap.cand.op \in Ops
        BY ProcessParts, SnapshotParts DEF Candidate
    <2> QED BY <2>2 DEF Neat, Fenced
<1> QED BY <1>1, <1>2, <1>3, <1>4 DEF Surface

\* Where a fence, or a verification, is due nothing else is in the foreground.
LEMMA FenceAlone ==
    ASSUME NEW r \in Processes, Surface(r), Fenced(r.snap)
    PROVE  /\ r.snap.infl \in Dispatch /\ r.act \in {None, r.snap.infl.op}
           /\ \A p \in Ops \ {r.snap.infl.op} : Over(r, p)
<1>1. r.snap.infl \in Dispatch /\ r.snap.infl # None
    BY ProcessParts, SnapshotParts DEF Fenced
<1>2. \A p \in Ops \ {r.snap.infl.op} : ~Awaited(r.snap, p)
    BY <1>1 DEF Awaited
<1>3. r.act # None => r.act = r.snap.infl.op
    <2> SUFFICES ASSUME r.act # None PROVE r.act = r.snap.infl.op
        OBVIOUS
    <2>1. r.ops[r.act].st = "Recovering"
        BY <1>1 DEF Surface, Foreground, Starting, Sending, Fenced, FencePhases
    <2>2. Waits(r.snap, r.act, r.ops[r.act])
        BY <1>1, <2>1, ActIs DEF Surface, Waiting, Resolved
    <2> QED BY <1>2, <2>2, ActIs DEF Waits
<1>4. ASSUME NEW p \in Ops \ {r.snap.infl.op} PROVE Over(r, p)
    BY <1>1, <1>2, <1>3, <1>4 DEF Over, Surface, Waiting, Waits, Resolved
<1> QED BY <1>1, <1>3, <1>4

\* A fence that a replug resolves.
FenceSolved(m, o) ==
    LET s == Sync(m)
    IN IF o = Visible(m.snap) THEN s ELSE Sync(Finish(s, o, "Failed", ""))

LEMMA HardenedIs ==
    ASSUME NEW s \in Snapshot, s.infl # None, Apart(s)
    PROVE  LET t == ResolveFenceReconnect(s)
               c == t.cand
           IN /\ t \in Snapshot /\ t.infl = None /\ ~t.clean /\ c # None /\ c \in Candidate
              /\ Visible(t) = c.op
              /\ s.cand # None => c.op = s.cand.op /\ c.op # s.infl.op
              /\ s.cand = None => /\ c.op = s.infl.op /\ c.out = "PartialOrUnknown"
                                  /\ ~c.recov /\ c.fresh
                                  /\ c.lin = s.infl.lin /\ c.disp = s.infl.disp /\ c.dev = s.infl.dev
                                  /\ c.name = s.infl.name
<1> DEFINE t == ResolveFenceReconnect(s)
<1>1. s.infl \in Dispatch /\ (s.cand # None => s.cand \in Candidate) /\ s.clean \in BOOLEAN
    BY SnapshotParts
<1>2. t \in Snapshot
    BY FenceStays
<1>3. /\ t.infl = None /\ t.clean = s.clean
      /\ t.cand = IF s.cand = None THEN CandidateOf(s.infl, "PartialOrUnknown", FALSE, TRUE)
                  ELSE HardenedCandidate(s.cand, s.infl)
    BY SnapshotParts DEF ResolveFenceReconnect, Snapshot
<1> HIDE DEF t
<1>4. ~t.clean
    BY <1>3 DEF Apart
<1>5. CASE s.cand = None
    <2>1. t.cand = CandidateOf(s.infl, "PartialOrUnknown", FALSE, TRUE)
        BY <1>3, <1>5
    <2>2. t.cand \in Candidate /\ t.cand # None
        <3>1. CandidateOf(s.infl, "PartialOrUnknown", FALSE, TRUE) \in Candidate
            BY <1>1 DEF CandidateOf, Candidate, Dispatch, Outcomes
        <3> QED BY <2>1, <3>1
    <2> QED BY <1>2, <1>3, <1>4, <1>5, <2>1, <2>2 DEF CandidateOf, Visible, t
<1>6. CASE s.cand # None
    <2>1. t.cand = HardenedCandidate(s.cand, s.infl)
        BY <1>3, <1>6
    <2>2. t.cand \in Candidate /\ t.cand # None /\ t.cand.op = s.cand.op
        <3>1. HardenedCandidate(s.cand, s.infl) \in Candidate
            BY <1>1, <1>6 DEF HardenedCandidate, Candidate, Dispatch, Outcomes
        <3>2. HardenedCandidate(s.cand, s.infl).op = s.cand.op
            BY <1>1, <1>6 DEF HardenedCandidate, Candidate
        <3> QED BY <2>1, <3>1, <3>2
    <2> QED BY <1>2, <1>3, <1>4, <1>6, <2>2 DEF Apart, Visible, t
<1> QED BY <1>5, <1>6

\* The candidate becomes that of the fence: it is offered, unless a look at the
\* file list is still open.
LEMMA FenceOffered ==
    ASSUME NEW m \in Processes, NEW o \in Ops, m.act \in {None, o}, m.load = "yes", ~m.fail,
           m.snap.infl = None, ~m.snap.clean, m.disk = m.snap, Apart(m.snap), AllowShadowLoss,
           \A p \in Ops \ {o} : Over(m, p),
           \A p \in Ops : m.ops[p] # None /\ m.ops[p].st = "RetryAvailable" => Known(m.ops[p]),
           m.snap.cand \in Candidate, m.snap.cand # None, m.snap.cand.op = o,
           m.snap.cand.out = "PartialOrUnknown", ~m.snap.cand.recov, m.snap.cand.fresh,
           m.ops[o] # None, m.ops[o] \in OpRecord, m.ops[o].st = "Recovering",
           IsOf(m.ops[o], m.snap.cand), m.ops[o].disp \in Uids, m.ops[o].name \in Uids,
           m.act = o => m.ops[o].chg /\ m.ops[o].gen < m.gen
    PROVE  LET s == Sync(m)
           IN /\ s \in Processes /\ Talk(s, m) /\ Store(s, m) /\ Surface(s) /\ s.act = m.act
              /\ s.act # None => /\ s.ops[o].st = m.ops[o].st /\ s.ops[o].gen = m.ops[o].gen
                                 /\ s.ops[o].chg = m.ops[o].chg /\ s.ops[o].name = m.ops[o].name
<1> DEFINE s == Sync(m)
           c == m.snap.cand
           op == [m.ops[o] EXCEPT !.recov = c.recov, !.fresh = c.fresh, !.finp = FinalizationOnly(c)]
<1>1. ~FinalizationOnly(c)
    BY DEF FinalizationOnly
<1>2. /\ s \in Processes /\ Talk(s, m) /\ Store(s, m) /\ s.act = m.act
      /\ \A p \in Ops \ {o} : Neat(s, p)
      /\ IF m.act = o THEN s.ops[o] = op ELSE Stands(s.ops[o], c)
    BY SyncNeat DEF IsOf
<1>3. Durable(m)
    BY DEF Durable, Fenced
<1>4. /\ s.snap = m.snap /\ s.disk = m.disk /\ s.load = "yes" /\ ~s.fail /\ s.gen = m.gen
    BY <1>2 DEF Store, Talk
<1>5. CASE m.act # o
    <2>1. \A p \in Ops : Neat(s, p)
        BY <1>2, <1>4, <1>5 DEF Neat
    <2>2. Durable(s) /\ s.act = None
        BY <1>2, <1>3, <1>4, <1>5 DEF Durable
    <2>3. Surface(s)
        BY <1>2, <1>4, <2>1, <2>2, NeatSurface
    <2> QED BY <1>2, <2>2, <2>3
<1>6. CASE m.act = o
    <2>1. /\ op.st = "Recovering" /\ op.chg /\ ~op.finp /\ op.gen = m.ops[o].gen /\ op.name = m.ops[o].name
          /\ op.disp = m.ops[o].disp
        BY <1>1, <1>6 DEF OpRecord, FinalizationOnly
    <2>2. s.ops[o] = op /\ s.ops[o] \in OpRecord /\ s.ops[o] # None
        <3>1. c.recov \in BOOLEAN /\ c.fresh \in BOOLEAN /\ FinalizationOnly(c) \in BOOLEAN
            BY DEF FinalizationOnly, Candidate
        <3>2. op \in OpRecord
            BY <3>1, ZenonT(90) DEF OpRecord
        <3> QED BY <1>2, <1>6, <3>2
    <2> HIDE DEF op, s
    <2>3. Foreground(s)
        BY <1>2, <1>6, <2>1, <2>2 DEF Foreground
    <2>4. op.gen # s.gen
        <3>1. m.ops[o].gen \in Nat /\ m.gen \in Nat
            BY ProcessParts DEF OpRecord
        <3> QED BY <1>4, <1>6, <2>1, <3>1
    <2>5. Resolved(s, o, s.ops[o])
        BY <1>1, <1>4, <2>1, <2>2, <2>4 DEF Resolved
    <2>6. Waiting(s)
        <3> SUFFICES ASSUME NEW p \in Ops, s.ops[p] # None
                     PROVE  /\ s.ops[p].st \in Terminal \cup {"Recovering"}
                            /\ s.ops[p].st = "Recovering" => p = o
            BY <1>2, <1>6, <2>5 DEF Waiting
        <3>1. CASE p = o
            BY <2>1, <2>2, <3>1
        <3>2. CASE p # o
            BY <1>2, <1>4, <3>2 DEF Neat, Ended, Terminal
        <3> QED BY <3>1, <3>2
    <2>7. Records(s) /\ Loading(s)
        BY <1>3, <1>4 DEF Durable, Records, Loading
    <2>8. LookedTooLate(s, c)
        BY <1>2, <1>6, <2>1, <2>2 DEF LookedTooLate
    <2>9. Shown(s)
        BY <1>4, <2>2, <2>8 DEF Shown, Fenced
    <2>10. Offers(s)
        <3> SUFFICES ASSUME NEW p \in Ops, s.ops[p] # None PROVE s.ops[p].st # "RetryAvailable"
            BY DEF Offers
        <3>1. CASE p = o
            BY <2>1, <2>2, <3>1
        <3>2. CASE p # o
            BY <1>2, <1>4, <3>2 DEF Neat, Ended
        <3> QED BY <3>1, <3>2
    <2>11. Surface(s)
        BY <2>3, <2>6, <2>7, <2>9, <2>10 DEF Surface
    <2> QED BY <1>2, <1>6, <2>1, <2>2, <2>11 DEF s
<1> QED BY <1>5, <1>6

\* An older candidate stays: the operation of the fence ends, and it is offered.
LEMMA FenceEnded ==
    ASSUME NEW m \in Processes, NEW o \in Ops, m.act \in {None, o}, m.load = "yes", ~m.fail,
           m.snap.infl = None, ~m.snap.clean, m.disk = m.snap, Apart(m.snap),
           \A p \in Ops \ {o} : Over(m, p),
           \A p \in Ops : m.ops[p] # None /\ m.ops[p].st = "RetryAvailable" => Known(m.ops[p]),
           m.snap.cand \in Candidate, m.snap.cand # None, m.snap.cand.op # o,
           m.ops[o] # None, m.ops[o].st = "Recovering"
    PROVE  LET f == Sync(Finish(Sync(m), o, "Failed", ""))
           IN /\ f \in Processes /\ Talk(f, m) /\ Store(f, m) /\ Surface(f) /\ f.act = None
<1> DEFINE s == Sync(m)
           e == Finish(s, o, "Failed", "")
           f == Sync(e)
           c == m.snap.cand
<1>1. /\ s \in Processes /\ Talk(s, m) /\ Store(s, m) /\ s.act = m.act
      /\ \A p \in Ops \ {o} : Neat(s, p)
      /\ s.ops[o] \in {None, m.ops[o]} /\ (m.act = o => s.ops[o] = m.ops[o])
    BY SyncNeat
<1>2. s.snap = m.snap /\ s.disk = m.disk /\ s.load = "yes" /\ ~s.fail /\ s.gen = m.gen
    BY <1>1 DEF Store, Talk
<1> HIDE DEF s
<1>3. /\ e \in Processes /\ Talk(e, s) /\ Store(e, s) /\ e.act = None
      /\ \A p \in Ops \ {o} : e.ops[p] = s.ops[p]
      /\ e.ops[o] = None \/ e.ops[o].st \in Ended
    <2>1. CASE s.ops[o] = None
        <3>1. e = s
            BY <2>1 DEF Finish, HasOp
        <3>2. s.act = None
            BY <1>1, <2>1
        <3> QED BY <1>1, <2>1, <3>1, <3>2 DEF Talk, Store
    <2>2. CASE s.ops[o] # None
        <3>1. s.ops[o].st \notin Terminal /\ "Failed" \in OpStates /\ "" \in Modes /\ "Failed" \in Ended
            BY <1>1, <2>2 DEF Terminal, OpStates, Modes, Ended
        <3>2. EndsAs(e, s, o, "Failed")
            BY <1>1, <2>2, <3>1, FinishEnds
        <3> QED BY <1>1, <3>1, <3>2 DEF EndsAs
    <2> QED BY <2>1, <2>2
<1> HIDE DEF e
<1>4. e.snap = m.snap /\ e.disk = m.disk /\ e.load = "yes" /\ ~e.fail /\ Talk(e, m) /\ Store(e, m)
    BY <1>1, <1>2, <1>3 DEF Store, Talk
<1>5. \A p \in Ops : p # c.op => e.ops[p] = None \/ e.ops[p].st \in Ended
    BY <1>1, <1>2, <1>3 DEF Neat
<1>6. /\ f \in Processes /\ Talk(f, e) /\ Store(f, e) /\ f.act = e.act
      /\ \A p \in Ops : p # c.op => f.ops[p] \in {None, e.ops[p]}
      /\ f.ops[c.op] = RestoredCandidate(c, e.gen)
    <2>1. e.snap.infl = None /\ e.snap.cand = c /\ c # None /\ c.op \in Ops /\ e.act # c.op
        BY <1>3, <1>4 DEF Candidate
    <2> QED BY <1>3, <2>1, SyncIs
<1>7. Stands(f.ops[c.op], c)
    <2>1. e.gen \in Nat
        BY <1>3, ProcessParts
    <2> QED BY <1>6, <2>1, RestoredIs
<1> HIDE DEF f
<1>8. f.snap = m.snap /\ f.disk = m.disk /\ f.load = "yes" /\ ~f.fail /\ Talk(f, m) /\ Store(f, m)
    BY <1>4, <1>6 DEF Store, Talk
<1>9. \A p \in Ops : Neat(f, p)
    BY <1>5, <1>6, <1>7, <1>8 DEF Neat
<1>10. Durable(f)
    BY <1>8 DEF Durable, Fenced
<1>11. Surface(f)
    BY <1>3, <1>6, <1>8, <1>9, <1>10, NeatSurface
<1> QED BY <1>3, <1>6, <1>8, <1>11 DEF f, e, s

LEMMA FenceGood ==
    ASSUME NEW r, Renewed(r), ~StartupGate(r), Fenced(r.snap), NEW o, o = r.snap.infl.op,
           NEW w \in Write(r, ResolveFenceReconnect(r.snap)),
           NEW x, x = IF w.ok THEN FenceSolved(w.r, o) ELSE w.r
    PROVE  Renewed(x) /\ Talk(x, r) /\ x.load = "yes"
<1> DEFINE t == ResolveFenceReconnect(r.snap)
           m == w.r
           d == r.snap.infl
<1>1. /\ r \in Processes /\ Surface(r) /\ r.load = "yes" /\ ~r.fail /\ r.snap \in Snapshot
      /\ r.snap.infl # None
    BY ProcessParts DEF Renewed, StartupGate, Fenced
<1>2. d \in Dispatch /\ r.act \in {None, o} /\ (\A p \in Ops \ {o} : Over(r, p)) /\ o \in Ops
    BY <1>1, FenceAlone DEF Dispatch
<1>3. /\ r.ops[o] # None /\ r.ops[o] \in OpRecord /\ r.ops[o].st = "Recovering" /\ IsOf(r.ops[o], d)
      /\ r.ops[o].disp \in Uids /\ r.ops[o].name \in Uids
    <2>1. r.ops[o] # None /\ r.ops[o].st = "Recovering"
        BY <1>1 DEF Surface, Shown
    <2>2. IsOf(r.ops[o], d)
        BY <1>1, <1>2, <2>1 DEF Surface, Waiting, Waits, Resolved
    <2> QED BY <1>1, <1>2, <2>1, <2>2, ProcessParts DEF IsOf, Dispatch, HasOp
<1>4. Apart(r.snap) /\ Apart(r.disk) /\ (Fenced(r.disk) => AllowShadowLoss) /\ AllowShadowLoss
      /\ r.disk = r.snap
    BY <1>1 DEF Surface, Records
<1>5. /\ t \in Snapshot /\ t.infl = None /\ ~t.clean /\ t.cand # None /\ t.cand \in Candidate
      /\ Visible(t) = t.cand.op
      /\ r.snap.cand # None => t.cand.op = r.snap.cand.op /\ t.cand.op # o
      /\ r.snap.cand = None =>
            /\ t.cand.op = o /\ t.cand.out = "PartialOrUnknown" /\ ~t.cand.recov /\ t.cand.fresh
            /\ IsOf(r.ops[o], t.cand)
    <2>1. IsOf(r.ops[o], d)
        BY <1>3
    <2> QED BY <1>1, <1>4, <2>1, HardenedIs DEF IsOf
<1>6. Wrote(w, r, t)
    BY <1>1, <1>5, WriteIs
<1> HIDE DEF t
<1>7. /\ m \in Processes /\ Talk(m, r) /\ m.ops = r.ops /\ m.act = r.act /\ m.load = "yes"
      /\ m.gen = r.gen
    BY <1>1, <1>6 DEF Wrote, Talk
<1>8. r.act # None => r.act = o /\ r.ops[o].chg /\ r.ops[o].gen < r.gen /\ r.ops[r.act].st # "Uploading"
    BY <1>2, <1>3 DEF Renewed
<1>9. CASE ~w.ok
    <2>1. m.fail /\ m.snap = r.snap /\ m.disk \in {r.disk, t}
        BY <1>6, <1>9 DEF Wrote
    <2>2. Apart(m.disk) /\ (Fenced(m.disk) => AllowShadowLoss)
        BY <1>4, <1>5, <2>1 DEF Apart
    <2>3. r.act # None => ~Sending(r, r.ops[r.act])
        BY <1>3, <1>8 DEF Sending
    <2>4. Surface(m)
        BY <1>1, <1>7, <2>1, <2>2, <2>3, FailedSurface
    <2>5. Renewed(m)
        BY <1>7, <1>8, <2>4, RenewedStays
    <2> QED BY <1>7, <1>9, <2>5
<1>10. CASE w.ok
    <2>1. ~m.fail /\ m.snap = t /\ m.disk = t
        BY <1>6, <1>10 DEF Wrote
    <2>2. Apart(m.snap)
        BY <1>5, <2>1 DEF Apart
    <2>3. \A p \in Ops : m.ops[p] # None /\ m.ops[p].st = "RetryAvailable" => Known(m.ops[p])
        BY <1>1, <1>7 DEF Surface, Offers
    <2>4. \A p \in Ops \ {o} : Over(m, p)
        BY <1>2, <1>7 DEF Over
    <2> HIDE DEF m
    <2>5. CASE r.snap.cand = None
        <3>1. x = Sync(m)
            BY <1>5, <1>10, <2>1, <2>5 DEF FenceSolved, m
        <3>2. /\ x \in Processes /\ Talk(x, m) /\ Store(x, m) /\ Surface(x) /\ x.act = m.act
              /\ x.act # None => /\ x.ops[o].st = m.ops[o].st /\ x.ops[o].gen = m.ops[o].gen
                                 /\ x.ops[o].chg = m.ops[o].chg /\ x.ops[o].name = m.ops[o].name
            <4>1. /\ m.act \in {None, o} /\ m.snap.infl = None /\ ~m.snap.clean /\ m.disk = m.snap
                  /\ m.snap.cand \in Candidate /\ m.snap.cand # None /\ m.snap.cand.op = o
                  /\ m.snap.cand.out = "PartialOrUnknown" /\ ~m.snap.cand.recov /\ m.snap.cand.fresh
                BY <1>2, <1>5, <1>7, <2>1, <2>5
            <4>2. /\ m.ops[o] # None /\ m.ops[o] \in OpRecord /\ m.ops[o].st = "Recovering"
                  /\ IsOf(m.ops[o], m.snap.cand) /\ m.ops[o].disp \in Uids /\ m.ops[o].name \in Uids
                  /\ m.act = o => m.ops[o].chg /\ m.ops[o].gen < m.gen
                <5>1. o # None
                    BY <1>2
                <5> QED BY <1>3, <1>5, <1>7, <1>8, <2>1, <2>5, <5>1
            <4>3. m \in Processes /\ o \in Ops /\ m.load = "yes" /\ ~m.fail /\ AllowShadowLoss
                BY <1>2, <1>4, <1>7, <2>1
            <4>4. LET s == Sync(m)
                  IN /\ s \in Processes /\ Talk(s, m) /\ Store(s, m) /\ Surface(s) /\ s.act = m.act
                     /\ s.act # None => /\ s.ops[o].st = m.ops[o].st /\ s.ops[o].gen = m.ops[o].gen
                                        /\ s.ops[o].chg = m.ops[o].chg /\ s.ops[o].name = m.ops[o].name
                BY <2>2, <2>3, <2>4, <4>1, <4>2, <4>3, FenceOffered
            <4> QED BY <3>1, <4>4
        <3>3. Talk(x, r) /\ x.load = "yes"
            BY <1>7, <3>2 DEF Talk, Store
        <3>4. Renewed(x)
            <4>1. /\ x.act \in {None, r.act} /\ x.act \in {None, o}
                  /\ x.act = None /\ r.act # None => r.ops[r.act].st # "Uploading"
                BY <1>2, <1>7, <1>8, <3>2
            <4>2. x.act # None =>
                    /\ x.ops[x.act].st = r.ops[x.act].st /\ x.ops[x.act].gen = r.ops[x.act].gen
                    /\ x.ops[x.act].chg = r.ops[x.act].chg /\ x.ops[x.act].name = r.ops[x.act].name
                BY <1>7, <3>2, <4>1
            <4> QED BY <3>2, <3>3, <4>1, <4>2, RenewedStays
        <3> QED BY <3>3, <3>4
    <2>6. CASE r.snap.cand # None
        <3>1. x = Sync(Finish(Sync(m), o, "Failed", ""))
            BY <1>5, <1>10, <2>1, <2>6 DEF FenceSolved, m
        <3>2. x \in Processes /\ Talk(x, m) /\ Store(x, m) /\ Surface(x) /\ x.act = None
            BY <1>2, <1>3, <1>5, <1>7, <2>1, <2>2, <2>3, <2>4, <2>6, <3>1, FenceEnded, ZenonT(90)
        <3>3. Talk(x, r) /\ x.load = "yes"
            BY <1>7, <3>2 DEF Talk, Store
        <3>4. Renewed(x)
            BY <1>8, <3>2, <3>3, RenewedStays
        <3> QED BY <3>3, <3>4
    <2> QED BY <2>5, <2>6
<1> QED BY <1>9, <1>10

\* A candidate whose reconnect is proved: it may be retried.
LEMMA ReconnectedIs ==
    ASSUME NEW s \in Snapshot, s.cand # None, ~FinalizationOnly(s.cand)
    PROVE  LET t == ResolveReconnect(s)
           IN /\ t \in Snapshot /\ t.infl = s.infl /\ t.clean = s.clean
              /\ t.cand # None /\ t.cand \in Candidate /\ t.cand.op = s.cand.op /\ ~FinalizationOnly(t.cand)
<1> DEFINE t == ResolveReconnect(s)
           c == [s.cand EXCEPT !.recov = FALSE]
<1>1. s.cand \in Candidate
    BY SnapshotParts
<1>2. c \in Candidate /\ c.op = s.cand.op /\ c.out = s.cand.out
    BY <1>1 DEF Candidate
<1>3. t = [s EXCEPT !.cand = c]
    BY SnapshotParts DEF ResolveReconnect
<1> HIDE DEF c
<1>4. t.cand = c /\ t.infl = s.infl /\ t.clean = s.clean
    BY <1>3 DEF Snapshot
<1>5. t \in Snapshot
    BY ProofsStay
<1> QED BY <1>2, <1>4, <1>5 DEF FinalizationOnly

LEMMA NoneAwaited ==
    ASSUME NEW r \in Processes, Surface(r), ~Fenced(r.snap), r.snap.cand # None => ~FinalizationOnly(r.snap.cand)
    PROVE  /\ \A p \in Ops : p # r.act => Over(r, p)
           /\ r.act # None /\ r.ops[r.act].st = "Recovering" => Resolved(r, r.act, r.ops[r.act])
<1>1. \A p \in Ops : ~Awaited(r.snap, p)
    BY DEF Awaited
<1> QED BY <1>1, ActIs DEF Surface, Waiting, Over, Waits

LEMMA ReconnectStarting ==
    ASSUME NEW r, Renewed(r), ~StartupGate(r), r.snap.infl = None, NEW c, c = r.snap.cand,
           c # None, c.recov, ~FinalizationOnly(c),
           NEW m \in Processes, Talk(m, r), m.ops = r.ops, m.act = r.act, m.load = "yes", ~m.fail,
           m.snap = ResolveReconnect(r.snap), m.disk = m.snap
    PROVE  Renewed(Sync(m)) /\ Talk(Sync(m), r) /\ Sync(m).load = "yes"
<1> DEFINE s == Sync(m)
           t == ResolveReconnect(r.snap)
           o == r.act
<1>1. /\ r \in Processes /\ Surface(r) /\ r.load = "yes" /\ ~r.fail /\ r.snap \in Snapshot
      /\ c \in Candidate /\ c.op \in Ops /\ c.op # None
    BY ProcessParts, SnapshotParts DEF Renewed, StartupGate, Candidate
<1>2. ~Fenced(r.snap)
    BY DEF Fenced
<1>3. \A p \in Ops : p # o => Over(r, p)
    BY <1>1, <1>2, NoneAwaited
<1>4. r.ops[c.op] # None /\ r.ops[c.op].st = "RetryAvailable"
    BY <1>1 DEF Surface, Shown, LookedTooLate
<1>5. o # c.op
    <2>1. o # None => r.ops[o].st # "RetryAvailable"
        BY <1>1 DEF Surface, Foreground, Starting, Sending
    <2> QED BY <1>1, <1>4, <2>1
<1>6. o # None => /\ o \in Ops /\ Starting(r, r.ops[o]) /\ r.ops[o].st # "Recovering"
                  /\ r.ops[o] # None /\ r.ops[o].disp \in Uids /\ r.ops[o].name \in Uids
    <2> SUFFICES ASSUME o # None
                 PROVE  /\ o \in Ops /\ Starting(r, r.ops[o]) /\ r.ops[o].st # "Recovering"
                        /\ r.ops[o] # None /\ r.ops[o].disp \in Uids /\ r.ops[o].name \in Uids
        OBVIOUS
    <2>1. r.ops[o].st # "Recovering"
        BY <1>1, <1>2, <1>5, NoneAwaited DEF Resolved
    <2>2. ~Sending(r, r.ops[o])
        BY DEF Sending
    <2> QED BY <1>1, <2>1, <2>2, ActIs DEF Surface, Foreground
<1>7. /\ t \in Snapshot /\ t.infl = None /\ t.clean = r.snap.clean
      /\ t.cand # None /\ t.cand \in Candidate /\ t.cand.op = c.op /\ ~FinalizationOnly(t.cand)
    BY <1>1, ReconnectedIs
<1> HIDE DEF t
<1>8. /\ s \in Processes /\ Talk(s, m) /\ Store(s, m) /\ s.act = o
      /\ \A p \in Ops : p # c.op =>
            /\ s.ops[p] \in {None, m.ops[p]}
            /\ p = m.act => s.ops[p] = m.ops[p]
            /\ p # m.act /\ m.ops[p] # None /\ m.ops[p].st = "RetryAvailable"
               /\ m.ops[p].lin # 0 => s.ops[p] = None
      /\ s.ops[c.op] = RestoredCandidate(t.cand, m.gen)
    <2>1. m.snap.infl = None /\ m.snap.cand = t.cand /\ m.act # c.op
        BY <1>5, <1>7 DEF t
    <2>2. /\ s \in Processes /\ Talk(s, m) /\ Store(s, m) /\ s.act = m.act
          /\ \A p \in Ops : ~(m.snap.cand # None /\ p = m.snap.cand.op) =>
                /\ s.ops[p] \in {None, m.ops[p]}
                /\ p = m.act => s.ops[p] = m.ops[p]
                /\ p # m.act /\ m.ops[p] # None /\ m.ops[p].st = "RetryAvailable"
                   /\ m.ops[p].lin # 0 => s.ops[p] = None
          /\ m.snap.cand # None /\ m.act # m.snap.cand.op =>
                s.ops[m.snap.cand.op] = RestoredCandidate(m.snap.cand, m.gen)
        BY <2>1, SyncIs
    <2> HIDE DEF s
    <2> QED BY <1>7, <2>1, <2>2
<1>9. s.ops[c.op] # None /\ s.ops[c.op].st = "RetryAvailable" /\ Known(s.ops[c.op])
    <2>1. m.gen \in Nat
        BY ProcessParts
    <2>2. Stands(s.ops[c.op], t.cand)
        BY <1>7, <1>8, <2>1, RestoredIs
    <2> QED BY <1>7, <2>2 DEF Stands
<1> HIDE DEF s
<1>10. /\ s.snap = t /\ s.disk = t /\ s.load = "yes" /\ ~s.fail /\ s.gen = m.gen /\ Talk(s, r)
    BY <1>8 DEF Store, Talk, t
<1>11. s.act = o /\ (o # None => s.ops[o] = r.ops[o])
    BY <1>5, <1>6, <1>8
<1>12. \A p \in Ops : p # o /\ p # c.op => s.ops[p] = None \/ s.ops[p].st \in Ended
    <2> SUFFICES ASSUME NEW p \in Ops, p # o, p # c.op, s.ops[p] # None PROVE s.ops[p].st \in Ended
        OBVIOUS
    <2>1. s.ops[p] = r.ops[p] /\ Over(r, p)
        BY <1>3, <1>8
    <2>2. r.ops[p].st = "RetryAvailable" => r.ops[p].lin # 0
        BY <1>1, <2>1 DEF Surface, Offers, Known
    <2>3. r.ops[p].st # "RetryAvailable"
        BY <1>8, <2>1, <2>2
    <2> QED BY <2>1, <2>3 DEF Over, Terminal, Ended
<1>13. Foreground(s)
    BY <1>5, <1>6, <1>7, <1>10, <1>11 DEF Foreground, Starting
<1>14. Waiting(s) /\ Offers(s)
    <2>1. ASSUME NEW p \in Ops, s.ops[p] # None
          PROVE  /\ s.ops[p].st \in Terminal \cup {"Recovering"} \/ p = o
                 /\ s.ops[p].st # "Recovering"
                 /\ s.ops[p].st = "RetryAvailable" => p = c.op
        <3>1. CASE p = c.op
            BY <1>9, <3>1 DEF Terminal
        <3>2. CASE p = o
            <4>1. o # None
                BY <3>2
            <4>2. r.ops[o].st \in {"Converting", "Preflight"}
                BY <1>6, <4>1 DEF Starting
            <4> QED BY <1>11, <3>2, <4>1, <4>2
        <3>3. CASE p # c.op /\ p # o
            BY <1>12, <2>1, <3>3 DEF Ended, Terminal
        <3> QED BY <3>1, <3>2, <3>3
    <2> QED BY <1>7, <1>9, <1>10, <1>11, <2>1 DEF Waiting, Offers
<1>15. Records(s) /\ Loading(s) /\ Shown(s)
    <2>1. ~t.clean
        BY <1>1, <1>7 DEF Surface, Records
    <2> QED BY <1>7, <1>9, <1>10, <2>1 DEF Records, Apart, Fenced, Loading, Shown
<1>16. Surface(s)
    BY <1>13, <1>14, <1>15 DEF Surface
<1>17. Renewed(s)
    BY <1>8, <1>10, <1>11, <1>16, RenewedStays
<1> QED BY <1>10, <1>17 DEF s

LEMMA ReconnectSending ==
    ASSUME NEW r, Renewed(r), ~StartupGate(r), ~Fenced(r.snap), r.snap.infl # None, NEW c, c = r.snap.cand,
           c # None, ~FinalizationOnly(c),
           NEW m \in Processes, Talk(m, r), m.ops = r.ops, m.act = r.act, m.load = "yes", ~m.fail,
           m.snap = ResolveReconnect(r.snap), m.disk = m.snap
    PROVE  Renewed(Sync(m)) /\ Talk(Sync(m), r) /\ Sync(m).load = "yes"
<1> DEFINE s == Sync(m)
           t == ResolveReconnect(r.snap)
           o == r.act
           d == r.snap.infl
<1>1. /\ r \in Processes /\ Surface(r) /\ r.load = "yes" /\ ~r.fail /\ r.snap \in Snapshot
    BY ProcessParts DEF Renewed, StartupGate
<1>2. o = d.op /\ d.phase = "DispatchArmed" /\ d \in Dispatch /\ o \in Ops /\ o # None
    BY <1>1, SnapshotParts DEF Surface, Records, Fenced, FencePhases, Dispatch
<1>3. \A p \in Ops : p # o => Over(r, p)
    BY <1>1, NoneAwaited
<1>4. /\ r.ops[o] # None /\ r.ops[o] \in OpRecord /\ Sending(r, r.ops[o])
      /\ r.ops[o].disp \in Uids /\ r.ops[o].name \in Uids /\ c.op # o
    <2>1. r.ops[o].st # "Recovering"
        BY <1>1, <1>2, NoneAwaited DEF Resolved
    <2>2. ~Starting(r, r.ops[o])
        BY DEF Starting
    <2> QED BY <1>1, <1>2, <2>1, <2>2, ActIs DEF Surface, Foreground
<1>5. /\ t \in Snapshot /\ t.infl = d /\ t.clean = r.snap.clean
      /\ t.cand # None /\ t.cand \in Candidate /\ t.cand.op = c.op /\ ~FinalizationOnly(t.cand)
    BY <1>1, ReconnectedIs
<1> HIDE DEF t
<1>6. /\ s \in Processes /\ Talk(s, m) /\ Store(s, m) /\ s.act = o
      /\ s.ops[o] = [r.ops[o] EXCEPT !.lin = d.lin, !.disp = d.disp]
      /\ s.ops[o] \in OpRecord
      /\ \A p \in Ops \ {o} :
            /\ s.ops[p] \in {None, r.ops[p]}
            /\ p # o /\ r.ops[p] # None /\ r.ops[p].st = "RetryAvailable"
               /\ r.ops[p].lin # 0 => s.ops[p] = None
    <2>1. m.snap.infl = d /\ m.snap.infl # None /\ m.snap.infl.op = o
          /\ m.snap.infl.phase \in {"Preparing", "DispatchArmed"} /\ m.ops[o] # None
        BY <1>2, <1>4, <1>5 DEF t
    <2>2. /\ s \in Processes /\ Talk(s, m) /\ Store(s, m) /\ s.act = m.act
          /\ s.ops[o] = [m.ops[o] EXCEPT !.lin = m.snap.infl.lin, !.disp = m.snap.infl.disp]
          /\ s.ops[o] \in OpRecord
          /\ \A p \in Ops \ {o} :
                /\ s.ops[p] \in {None, m.ops[p]}
                /\ p # m.act /\ m.ops[p] # None /\ m.ops[p].st = "RetryAvailable"
                   /\ m.ops[p].lin # 0 => s.ops[p] = None
        BY <1>2, <2>1, SyncDispatched
    <2> HIDE DEF s
    <2> QED BY <2>1, <2>2
<1>7. s.ops[o] = r.ops[o]
    <2>1. r.ops[o].lin = d.lin /\ r.ops[o].disp = d.disp
        BY <1>4 DEF Sending, IsOf
    <2>2. \A op \in OpRecord : op = [op EXCEPT !.lin = op.lin, !.disp = op.disp]
        BY DEF OpRecord
    <2> QED BY <1>4, <1>6, <2>1, <2>2
<1> HIDE DEF s
<1>8. /\ s.snap = t /\ s.disk = t /\ s.load = "yes" /\ ~s.fail /\ s.gen = m.gen /\ Talk(s, r)
    BY <1>6 DEF Store, Talk, t
<1>9. \A p \in Ops : p # o => s.ops[p] = None \/ s.ops[p].st \in Ended
    <2> SUFFICES ASSUME NEW p \in Ops, p # o, s.ops[p] # None PROVE s.ops[p].st \in Ended
        OBVIOUS
    <2>1. s.ops[p] = r.ops[p] /\ Over(r, p)
        BY <1>3, <1>6
    <2>2. r.ops[p].st = "RetryAvailable" => r.ops[p].lin # 0
        BY <1>1, <2>1 DEF Surface, Offers, Known
    <2>3. r.ops[p].st # "RetryAvailable"
        BY <1>6, <2>1, <2>2
    <2> QED BY <2>1, <2>3 DEF Over, Terminal, Ended
<1>10. r.ops[o].st \in {"Uploading", "Refreshing"}
    BY <1>4 DEF Sending
<1>11. Foreground(s)
    <2>1. Sending(s, s.ops[o])
        BY <1>4, <1>5, <1>6, <1>7, <1>8 DEF Sending
    <2> QED BY <1>4, <1>5, <1>6, <1>7, <1>8, <2>1 DEF Foreground
<1>12. Waiting(s) /\ Offers(s)
    <2>1. ASSUME NEW p \in Ops, s.ops[p] # None
          PROVE  /\ s.ops[p].st \in Terminal \cup {"Recovering"} \/ p = o
                 /\ s.ops[p].st # "Recovering" /\ s.ops[p].st # "RetryAvailable"
        <3>1. CASE p = o
            BY <1>7, <1>10, <3>1
        <3>2. CASE p # o
            BY <1>9, <2>1, <3>2 DEF Ended, Terminal
        <3> QED BY <3>1, <3>2
    <2> QED BY <1>6, <2>1 DEF Waiting, Offers
<1>13. Records(s) /\ Loading(s) /\ Shown(s)
    <2>1. ~t.clean
        BY <1>1, <1>5 DEF Surface, Records
    <2>2. ~Fenced(t)
        BY <1>5 DEF Fenced
    <2> QED BY <1>2, <1>4, <1>5, <1>6, <1>8, <2>1, <2>2, SMTT(60) DEF Records, Apart, Loading, Shown
<1>14. Surface(s)
    BY <1>11, <1>12, <1>13 DEF Surface
<1>15. Renewed(s)
    BY <1>2, <1>6, <1>7, <1>8, <1>14, RenewedStays
<1> QED BY <1>8, <1>15 DEF s

LEMMA ReconnectGood ==
    ASSUME NEW r, Renewed(r), ~StartupGate(r), ~Fenced(r.snap), NEW c, c = r.snap.cand,
           c # None, c.recov, ~FinalizationOnly(c),
           NEW w \in Write(r, ResolveReconnect(r.snap)),
           NEW x, x = IF w.ok THEN Sync(w.r) ELSE w.r
    PROVE  Renewed(x) /\ Talk(x, r) /\ x.load = "yes"
<1> DEFINE t == ResolveReconnect(r.snap)
           m == w.r
<1>1. /\ r \in Processes /\ Surface(r) /\ r.load = "yes" /\ ~r.fail /\ r.snap \in Snapshot
    BY ProcessParts DEF Renewed, StartupGate
<1>2. /\ t \in Snapshot /\ t.infl = r.snap.infl /\ t.clean = r.snap.clean
      /\ t.cand # None /\ t.cand.op = c.op
    BY <1>1, ReconnectedIs
<1>3. Wrote(w, r, t)
    BY <1>1, <1>2, WriteIs
<1> HIDE DEF t
<1>4. /\ m \in Processes /\ Talk(m, r) /\ m.ops = r.ops /\ m.act = r.act /\ m.load = "yes"
      /\ m.gen = r.gen
    BY <1>1, <1>3 DEF Wrote, Talk
<1>5. CASE w.ok
    <2>1. ~m.fail /\ m.snap = t /\ m.disk = m.snap
        BY <1>3, <1>5 DEF Wrote
    <2> HIDE DEF m
    <2>2. x = Sync(m)
        BY <1>5 DEF m
    <2>3. CASE r.snap.infl = None
        BY <1>4, <2>1, <2>2, <2>3, ReconnectStarting DEF t
    <2>4. CASE r.snap.infl # None
        BY <1>4, <2>1, <2>2, <2>4, ReconnectSending DEF t
    <2> QED BY <2>3, <2>4
<1>6. CASE ~w.ok
    <2>1. m.fail /\ m.snap = r.snap /\ m.disk \in {r.disk, t} /\ x = m
        BY <1>3, <1>6 DEF Wrote
    <2>2. r.disk = r.snap /\ Apart(r.snap) /\ (Fenced(r.disk) => AllowShadowLoss)
        BY <1>1 DEF Surface, Records
    <2>3. m.disk.infl = r.snap.infl /\ Apart(m.disk) /\ (Fenced(m.disk) => AllowShadowLoss)
        BY <1>2, <2>1, <2>2 DEF Apart, Fenced
    <2>4. Surface(m)
        BY <1>1, <1>4, <2>1, <2>3, FailedSurface
    <2>5. Renewed(m)
        BY <1>4, <2>4, RenewedStays
    <2> QED BY <1>4, <2>1, <2>5
<1> QED BY <1>5, <1>6

\* A replug: what the records say of the device is resolved, or stays.
LEMMA CompletedGood ==
    ASSUME NEW r, Renewed(r), ~StartupGate(r), NEW dev, NEW p \in CompleteRetryRecovery(r, dev)
    PROVE  Renewed(p[1]) /\ Talk(p[1], r) /\ p[1].load = "yes"
<1> DEFINE o == Visible(r.snap)
           c == r.snap.cand
           solved(m) == IF o = Visible(m.snap) THEN {<<Sync(m), TRUE>>}
                        ELSE {<<Sync(Finish(Sync(m), o, "Failed", "")), TRUE>>}
<1>1. Renewed(r) /\ Talk(r, r) /\ r.load = "yes"
    BY DEF Talk, StartupGate
<1>2. CASE p = <<r, TRUE>>
    <2>1. p[1] = r
        BY <1>2
    <2> QED BY <1>1, <2>1
<1>3. CASE p = <<r, FALSE>>
    <2>1. p[1] = r
        BY <1>3
    <2> QED BY <1>1, <2>1
<1>4. CASE /\ Fenced(r.snap)
           /\ \E w \in Write(r, ResolveFenceReconnect(r.snap)) :
                 p \in IF w.ok THEN solved(w.r) ELSE {<<w.r, FALSE>>}
    <2>1. PICK w \in Write(r, ResolveFenceReconnect(r.snap)) :
             p \in IF w.ok THEN solved(w.r) ELSE {<<w.r, FALSE>>}
        BY <1>4
    <2>2. p[1] = IF w.ok THEN FenceSolved(w.r, o) ELSE w.r
        <3>1. CASE w.ok
            <4>1. p = <<FenceSolved(w.r, o), TRUE>>
                BY <2>1, <3>1 DEF FenceSolved
            <4>2. p[1] = FenceSolved(w.r, o)
                BY <4>1
            <4> QED BY <3>1, <4>2
        <3>2. CASE ~w.ok
            <4>1. p = <<w.r, FALSE>>
                BY <2>1, <3>2
            <4>2. p[1] = w.r
                BY <4>1
            <4> QED BY <3>2, <4>2
        <3> QED BY <3>1, <3>2
    <2>3. o = r.snap.infl.op
        BY <1>4 DEF Visible, Fenced
    <2> QED BY <1>4, <2>2, <2>3, FenceGood, ZenonT(90)
<1>5. CASE /\ ~Fenced(r.snap) /\ c # None /\ c.recov /\ ~FinalizationOnly(c)
           /\ \E w \in Write(r, ResolveReconnect(r.snap)) :
                 p \in IF w.ok THEN {<<Sync(w.r), TRUE>>} ELSE {<<w.r, FALSE>>}
    <2>1. PICK w \in Write(r, ResolveReconnect(r.snap)) :
             p \in IF w.ok THEN {<<Sync(w.r), TRUE>>} ELSE {<<w.r, FALSE>>}
        BY <1>5
    <2>2. p[1] = IF w.ok THEN Sync(w.r) ELSE w.r
        <3>1. CASE w.ok
            <4>1. p = <<Sync(w.r), TRUE>>
                BY <2>1, <3>1
            <4>2. p[1] = Sync(w.r)
                BY <4>1
            <4> QED BY <3>1, <4>2
        <3>2. CASE ~w.ok
            <4>1. p = <<w.r, FALSE>>
                BY <2>1, <3>2
            <4>2. p[1] = w.r
                BY <4>1
            <4> QED BY <3>2, <4>2
        <3> QED BY <3>1, <3>2
    <2> QED BY <1>5, <2>2, ReconnectGood
<1> QED BY <1>2, <1>3, <1>4, <1>5 DEF CompleteRetryRecovery, Mutate, After

LEMMA CompletedVerdict ==
    ASSUME NEW r, NEW dev, NEW p \in CompleteRetryRecovery(r, dev)
    PROVE  p[2] \in BOOLEAN
<1>1. (\E a : p = <<a, TRUE>>) \/ (\E a : p = <<a, FALSE>>)
    BY DEF CompleteRetryRecovery, Mutate, After
<1>2. ASSUME NEW a, p = <<a, TRUE>> PROVE p[2] \in BOOLEAN
    BY <1>2
<1>3. ASSUME NEW a, p = <<a, FALSE>> PROVE p[2] \in BOOLEAN
    BY <1>3
<1> QED BY <1>1, <1>2, <1>3

\* What was asked before stays, and nothing is asked of the new generation.
Along(q, r) ==
    /\ q \in Processes /\ Store(q, r) /\ q.ops = r.ops /\ q.act = r.act
    /\ q.jobs = r.jobs /\ q.evts = r.evts /\ q.gen = r.gen /\ q.conn = r.conn

LEMMA RecoveredRenewed ==
    ASSUME NEW r, Renewed(r), NEW q, Along(q, r), ~q.rec
    PROVE  Renewed(q)
<1>1. Surface(q)
    BY SameSurface DEF Renewed, Along
<1> QED BY <1>1 DEF Renewed, Along, Fresh, Question, Sole, Free, Transfers

LEMMA PrinterCompleted ==
    ASSUME NEW r, Renewed(r), ~StartupGate(r), NEW dev, NEW p \in CompletePrinterRecovery(r, dev)
    PROVE  Renewed(p[1]) /\ p[1].conn = r.conn /\ p[2] \in BOOLEAN
<1>1. CASE p = <<r, TRUE>>
    <2>1. p[1] = r /\ p[2] \in BOOLEAN
        BY <1>1
    <2> QED BY <2>1
<1>2. CASE p = <<r, FALSE>>
    <2>1. p[1] = r /\ p[2] \in BOOLEAN
        BY <1>2
    <2> QED BY <2>1
<1>3. CASE \E v \in CompleteRetryRecovery(r, dev) :
              p = IF v[2] THEN <<[v[1] EXCEPT !.rec = FALSE, !.rrem = FALSE,
                                              !.slost = FALSE, !.lrem = FALSE], TRUE>>
                  ELSE v
    <2>1. PICK v \in CompleteRetryRecovery(r, dev) :
             p = IF v[2] THEN <<[v[1] EXCEPT !.rec = FALSE, !.rrem = FALSE,
                                             !.slost = FALSE, !.lrem = FALSE], TRUE>>
                 ELSE v
        BY <1>3
    <2>2. Renewed(v[1]) /\ v[1].conn = r.conn /\ v[2] \in BOOLEAN
        BY CompletedGood, CompletedVerdict DEF Talk
    <2>3. CASE v[2]
        <3> DEFINE u == v[1]
                   q == [u EXCEPT !.rec = FALSE, !.rrem = FALSE, !.slost = FALSE, !.lrem = FALSE]
        <3>1. p[1] = q /\ p[2] \in BOOLEAN
            BY <2>1, <2>3
        <3>2. u \in Processes
            BY <2>2 DEF Renewed
        <3> HIDE DEF u
        <3>3. Along(q, u) /\ ~q.rec
            BY <3>2 DEF Along, Processes, Store
        <3> HIDE DEF q
        <3>4. Renewed(q)
            BY <2>2, <3>3, RecoveredRenewed DEF u
        <3>5. q.conn = u.conn
            BY <3>3 DEF Along
        <3> QED BY <2>2, <3>1, <3>4, <3>5 DEF u
    <2>4. CASE ~v[2]
        BY <2>1, <2>2, <2>4
    <2> QED BY <2>3, <2>4
<1> QED BY <1>1, <1>2, <1>3 DEF CompletePrinterRecovery

LEMMA StartIs ==
    ASSUME NEW r \in Processes
    PROVE  LET q == StartSession(r)
           IN /\ q \in Processes /\ Store(q, r) /\ q.ops = r.ops /\ q.act = r.act
              /\ q.jobs = Append(r.jobs, Job("start", None, r.gen, 0)) /\ q.evts = r.evts
              /\ q.gen = r.gen /\ q.conn = r.conn /\ q.wk = r.wk /\ q.rec = r.rec /\ q.gate = r.gate
<1> DEFINE m == [r EXCEPT !.slost = FALSE, !.lrem = FALSE]
           j == Job("start", None, r.gen, 0)
<1>1. m \in Processes /\ Talk(m, r) /\ Store(m, r) /\ m.ops = r.ops /\ m.act = r.act
    BY DEF Processes, Talk, Store
<1>2. j \in Jobs
    BY ProcessParts DEF Job, Jobs
<1> HIDE DEF m, j
<1>3. LET q == Send(m, j)
      IN /\ q \in Processes /\ Store(q, m) /\ q.ops = m.ops /\ q.act = m.act
         /\ q.jobs = Append(m.jobs, j) /\ q.evts = m.evts /\ q.gen = m.gen
         /\ q.conn = m.conn /\ q.wk = m.wk /\ q.rec = m.rec /\ q.gate = m.gate
    BY <1>1, <1>2, SendIs
<1>4. StartSession(r) = Send(m, j)
    BY DEF StartSession, m, j
<1> QED BY <1>1, <1>3, <1>4 DEF Talk, Store, j

\* A session is ordered: it asks nothing for an operation.
LEMMA StartGood ==
    ASSUME NEW r, Good(r)
    PROVE  LET q == StartSession(r) IN Good(q) /\ (\A o, g : Free(r, o, g) => Free(q, o, g))
<1> DEFINE q == StartSession(r)
           j == Job("start", None, r.gen, 0)
<1>1. r \in Processes /\ Surface(r) /\ Traffic(r) /\ Calm(r) /\ r.gate.gen = r.gen /\ r.gen \in Nat
    BY ProcessParts DEF Good
<1>2. /\ q \in Processes /\ Store(q, r) /\ q.ops = r.ops /\ q.act = r.act
      /\ q.jobs = Append(r.jobs, j) /\ q.evts = r.evts
      /\ q.gen = r.gen /\ q.conn = r.conn /\ q.wk = r.wk /\ q.rec = r.rec /\ q.gate = r.gate
    BY <1>1, StartIs
<1>3. j \in Jobs /\ j.kind = "start" /\ j.gen = r.gen
    BY <1>1 DEF Job, Jobs
<1> HIDE DEF q, j
<1>4. /\ DOMAIN r.jobs = 1 .. Len(r.jobs) /\ DOMAIN q.jobs = 1 .. Len(r.jobs) + 1
      /\ Len(r.jobs) \in Nat
      /\ \A i \in DOMAIN r.jobs : q.jobs[i] = r.jobs[i]
      /\ q.jobs[Len(r.jobs) + 1] = j
    BY <1>1, <1>2, <1>3, ProcessParts, AppendIs
<1>5. \A i \in DOMAIN q.jobs : (i \in DOMAIN r.jobs /\ q.jobs[i] = r.jobs[i]) \/ q.jobs[i] = j
    BY <1>4
<1>6. \A o, g : ~Asks(j, o, g)
    BY <1>3 DEF Asks
<1>7. \A o, g : Free(r, o, g) => Free(q, o, g)
    BY <1>2, <1>5, <1>6 DEF Free
<1>8. \A o, g : Sole(r, o, g) => Sole(q, o, g)
    BY <1>2, <1>5, <1>6 DEF Sole
<1>9. Surface(q)
    <2>1. q.load # "yes" => ~q.rec
        BY <1>1, <1>2 DEF Surface, Loading, Store
    <2> QED BY <1>1, <1>2, <2>1, SameSurface
<1>10. Queues(q)
    BY <1>1, <1>2, <1>3, <1>5 DEF Traffic, Queues
<1>11. Sessions(q)
    BY <1>1, <1>2 DEF Traffic, Sessions
<1>12. Spent(r) => Spent(q)
    BY <1>2 DEF Spent
<1>13. Strays(q) /\ Calm(q)
    BY <1>1, <1>2, <1>7, <1>12 DEF Traffic, Strays, Calm
<1>14. Question(q)
    BY <1>1, <1>2, <1>7, <1>8 DEF Traffic, Question
<1>15. Transfers(q)
    BY <1>1, <1>2, <1>3, <1>5 DEF Traffic, Transfers
<1>16. Good(q)
    BY <1>1, <1>2, <1>9, <1>10, <1>11, <1>13, <1>14, <1>15 DEF Good, Traffic
<1> QED BY <1>7, <1>16 DEF q

\* The endpoint is opened, or not, under the new generation.
Opened(q, ok) == [q EXCEPT !.gate = [gen |-> q.gen, open |-> ok], !.wk = "Idle"]

LEMMA OpenedGood ==
    ASSUME NEW q, Renewed(q), q.conn # None, NEW ok \in BOOLEAN, NEW lost \in BOOLEAN,
           NEW n, n = [Opened(q, ok) EXCEPT !.slost = lost]
    PROVE  Good(n) /\ \A o : Free(n, o, n.gen)
<1>1. q \in Processes /\ Surface(q) /\ q.gen \in Nat
    BY ProcessParts DEF Renewed
<1>2. /\ n \in Processes /\ Store(n, q) /\ n.ops = q.ops /\ n.act = q.act /\ n.jobs = q.jobs
      /\ n.evts = q.evts /\ n.gen = q.gen /\ n.rec = q.rec /\ n.gate.gen = n.gen
      /\ n.wk = "Idle" /\ n.conn = q.conn
    BY <1>1 DEF Opened, Processes, Store
<1> HIDE DEF Opened
<1>3. n.load # "yes" => ~n.rec
    BY <1>1, <1>2 DEF Surface, Loading, Store
<1> QED BY <1>2, <1>3, RenewedGood

LEMMA SelectGood ==
    ASSUME NEW r, Renewed(r), NEW dev, dev = r.conn, dev # None, NEW x \in SelectEndpoint(r, dev)
    PROVE  Good(x)
<1> DEFINE allowed == IF StartupGate(r) \/ (r.slost /\ ~r.lrem) THEN {<<r, FALSE>>}
                      ELSE CompletePrinterRecovery(r, dev)
           next(q, ok) ==
              CASE ok /\ ~Restricted(q) -> StartSession(Opened(q, ok))
                [] ok /\ Restricted(q) -> [Opened(q, ok) EXCEPT !.slost = FALSE]
                [] ~ok /\ StartupGate(q) /\ ~q.slost -> Opened(q, ok)
                [] OTHER -> [Opened(q, ok) EXCEPT !.slost = TRUE]
<1>1. PICK p \in allowed : x \in Reconcile(next(p[1], p[2]))
    BY DEF SelectEndpoint, Opened
<1>2. Renewed(p[1]) /\ p[1].conn = r.conn /\ p[2] \in BOOLEAN
    <2>1. CASE p = <<r, FALSE>>
        <3>1. p[1] = r /\ p[2] \in BOOLEAN
            BY <2>1
        <3> QED BY <3>1
    <2>2. CASE ~StartupGate(r) /\ p \in CompletePrinterRecovery(r, dev)
        BY <2>2, PrinterCompleted
    <2> QED BY <1>1, <2>1, <2>2
<1> HIDE DEF allowed
<1>3. ASSUME NEW q, Renewed(q), q.conn # None, NEW ok \in BOOLEAN
      PROVE  Good(next(q, ok)) /\ \A o : Free(next(q, ok), o, next(q, ok).gen)
    <2> DEFINE n == next(q, ok)
    <2>1. q \in Processes /\ q.slost \in BOOLEAN
        BY <1>3 DEF Renewed, Processes
    <2>2. [Opened(q, ok) EXCEPT !.slost = q.slost] = Opened(q, ok)
        BY <2>1 DEF Opened, Processes
    <2>3. Good(Opened(q, ok)) /\ \A o : Free(Opened(q, ok), o, Opened(q, ok).gen)
        BY <1>3, <2>1, <2>2, OpenedGood
    <2>4. CASE n = [Opened(q, ok) EXCEPT !.slost = FALSE]
        <3>1. Good(n) /\ \A o : Free(n, o, n.gen)
            BY <1>3, <2>4, OpenedGood
        <3> QED BY <3>1
    <2>5. CASE n = [Opened(q, ok) EXCEPT !.slost = TRUE]
        <3>1. Good(n) /\ \A o : Free(n, o, n.gen)
            BY <1>3, <2>5, OpenedGood
        <3> QED BY <3>1
    <2>6. CASE n = Opened(q, ok)
        <3> HIDE DEF n
        <3> QED BY <2>3, <2>6 DEF n
    <2>7. CASE n = StartSession(Opened(q, ok))
        <3> DEFINE a == Opened(q, ok)
        <3>1. Good(a) /\ a \in Processes
            BY <2>3 DEF Good
        <3> HIDE DEF a
        <3>2. Good(StartSession(a)) /\ \A o, g : Free(a, o, g) => Free(StartSession(a), o, g)
            BY <3>1, StartGood
        <3>3. StartSession(a).gen = a.gen
            BY <3>1, StartIs
        <3>4. \A o : Free(a, o, a.gen)
            BY <2>3 DEF a
        <3>5. n = StartSession(a)
            BY <2>7 DEF a
        <3> HIDE DEF n
        <3>6. Good(n) /\ \A o : Free(n, o, n.gen)
            BY <3>2, <3>3, <3>4, <3>5
        <3> QED BY <3>6 DEF n
    <2> QED BY <2>4, <2>5, <2>6, <2>7
<1> HIDE DEF next
<1> DEFINE n == next(p[1], p[2])
<1>4. Good(n) /\ \A o : Free(n, o, n.gen)
    BY <1>2, <1>3
<1> HIDE DEF n
<1>5. Ready(n)
    BY <1>4 DEF Ready
<1> QED BY <1>1, <1>4, <1>5, ReconcileGood DEF n

LEMMA ClosedGood ==
    ASSUME NEW q, Renewed(q), NEW n, n = [q EXCEPT !.gate = [gen |-> q.gen, open |-> FALSE], !.wk = "Cleared"]
    PROVE  Good(n)
<1>1. q \in Processes /\ Surface(q) /\ q.gen \in Nat
    BY ProcessParts DEF Renewed
<1>2. /\ n \in Processes /\ Store(n, q) /\ n.ops = q.ops /\ n.act = q.act /\ n.jobs = q.jobs
      /\ n.evts = q.evts /\ n.gen = q.gen /\ n.rec = q.rec /\ n.gate.gen = n.gen /\ n.wk = "Cleared"
    BY <1>1 DEF Processes, Store
<1>3. n.load # "yes" => ~n.rec
    BY <1>1, <1>2 DEF Surface, Loading, Store
<1> QED BY <1>1, <1>2, <1>3, RenewedGood

\* A discovery snapshot: the device changed, or was found again.
LEMMA SnapshotGood ==
    ASSUME NEW r, Good(r), NEW dev \in Devices \cup {None}, NEW gone \in BOOLEAN,
           NEW x \in HandleSnapshot(r, dev, gone)
    PROVE  Good(x)
<1> DEFINE seen == dev = None \/ (gone /\ r.conn # None)
           a == r.rrem \/ (r.rec /\ seen)
           b == r.lrem \/ (r.slost /\ seen)
           m == [r EXCEPT !.rrem = a, !.lrem = b, !.sact = FALSE]
           q == CancelForeground(m)
           n == [q EXCEPT !.gen = @ + 1, !.conn = dev]
<1>1. r \in Processes /\ a \in BOOLEAN /\ b \in BOOLEAN
    BY DEF Good
<1>3. /\ dev # None => x \in SelectEndpoint(n, dev)
      /\ dev = None => x = [n EXCEPT !.gate = [gen |-> n.gen, open |-> FALSE], !.wk = "Cleared"]
    BY DEF HandleSnapshot
<1> HIDE DEF a, b
<1>2. m \in Processes /\ Talk(m, r) /\ Store(m, r) /\ m.ops = r.ops /\ m.act = r.act
    BY <1>1, ZenonT(90) DEF Processes, Talk, Store
<1> HIDE DEF m
<1>4. Good(m)
    BY <1>2, AlikeGood
<1>5. Changed(q, m)
    BY <1>4, CancelForegroundIs
<1> HIDE DEF q
<1>6. q \in Processes /\ q.gen \in Nat
    BY <1>5, ProcessParts DEF Changed
<1>7. /\ n \in Processes /\ Store(n, q) /\ n.ops = q.ops /\ n.act = q.act /\ n.jobs = q.jobs
      /\ n.evts = q.evts /\ n.rec = q.rec /\ n.gen = q.gen + 1 /\ n.conn = dev
    <2>1. ASSUME NEW g \in Nat
          PROVE  LET c == [q EXCEPT !.gen = g, !.conn = dev]
                 IN /\ c \in Processes /\ Store(c, q) /\ c.ops = q.ops /\ c.act = q.act /\ c.jobs = q.jobs
                    /\ c.evts = q.evts /\ c.rec = q.rec /\ c.gen = g /\ c.conn = dev
        BY <1>6, <2>1 DEF Processes, Store
    <2>2. q.gen + 1 \in Nat
        BY <1>6
    <2> QED BY <2>1, <2>2
<1>8. Renewed(n)
    BY <1>5, <1>7, RenewedIs DEF Changed
<1> HIDE DEF n
<1>9. CASE dev # None
    BY <1>3, <1>7, <1>8, <1>9, SelectGood
<1>10. CASE dev = None
    BY <1>3, <1>8, <1>10, ClosedGood
<1> QED BY <1>9, <1>10

LEMMA ConnectGood ==
    ASSUME NEW r, Good(r), r.conn # None, NEW x \in ConnectEndpoint(r)
    PROVE  Good(x)
<1> DEFINE m == [r EXCEPT !.sact = FALSE]
           q == CancelForeground(m)
           n == [q EXCEPT !.gen = @ + 1]
<1>1. m \in Processes /\ Talk(m, r) /\ Store(m, r) /\ m.ops = r.ops /\ m.act = r.act
    BY DEF Good, Processes, Talk, Store
<1>2. x \in SelectEndpoint(n, r.conn)
    BY DEF ConnectEndpoint
<1> HIDE DEF m
<1>3. Good(m)
    BY <1>1, AlikeGood
<1>4. Changed(q, m)
    BY <1>3, CancelForegroundIs
<1> HIDE DEF q
<1>5. q \in Processes /\ q.gen \in Nat
    BY <1>4, ProcessParts DEF Changed
<1>6. /\ n \in Processes /\ Store(n, q) /\ n.ops = q.ops /\ n.act = q.act /\ n.jobs = q.jobs
      /\ n.evts = q.evts /\ n.rec = q.rec /\ n.gen = q.gen + 1 /\ n.conn = q.conn
    BY <1>5 DEF Processes, Store
<1>7. Renewed(n)
    BY <1>4, <1>6, RenewedIs DEF Changed
<1>8. n.conn = r.conn
    BY <1>1, <1>4, <1>6 DEF Changed, Talk
<1> HIDE DEF n
<1> QED BY <1>2, <1>7, <1>8, SelectGood

-----------------------------------------------------------------------------
(* The start of a process                                                     *)

\* What a process that starts may adopt.
Adoptable(t) ==
    /\ t \in Snapshot /\ Apart(t) /\ ~t.clean
    /\ t.infl = None \/ (t.infl.phase = "ShadowMissingFence" /\ AllowShadowLoss)

LEMMA RecoveredIs ==
    ASSUME NEW s \in Snapshot, Apart(s), Fenced(s) => AllowShadowLoss,
           NEW b \in BOOLEAN, b => AllowShadowLoss
    PROVE  Adoptable(Recovered(s, b))
<1> DEFINE t == Recovered(s, b)
<1>1. t \in Snapshot
    BY RecoveredStays
<1>2. s.clean \in BOOLEAN /\ (s.infl # None => s.infl \in Dispatch /\ s.infl.phase \in Phases /\ ~s.clean)
    BY SnapshotParts DEF Dispatch, Apart
<1>3. CASE s.infl = None
    BY <1>1, <1>3, SnapshotParts DEF Recovered, Adoptable, Apart
<1>4. CASE s.infl # None /\ s.infl.phase = "Preparing"
    BY <1>1, <1>4, SnapshotParts, ZenonT(90) DEF Recovered, Adoptable, Apart
<1>5. CASE s.infl # None /\ s.infl.phase = "DispatchArmed" /\ ~b
    <2>1. t = RecordOutcome(s, "PartialOrUnknown")
        BY <1>5 DEF Recovered
    <2>2. t.infl = None /\ t.clean = s.clean
        BY <2>1, SnapshotParts DEF RecordOutcome
    <2> QED BY <1>1, <1>2, <1>5, <2>2 DEF Adoptable, Apart
<1>6. CASE s.infl # None /\ s.infl.phase = "DispatchArmed" /\ b
    <2>1. t = [s EXCEPT !.infl.phase = "ShadowMissingFence"]
        BY <1>6 DEF Recovered
    <2>2. t.cand = s.cand /\ t.clean = s.clean /\ t.infl = [s.infl EXCEPT !.phase = "ShadowMissingFence"]
        BY <2>1, SnapshotParts
    <2>3. t.infl.op = s.infl.op /\ t.infl.phase = "ShadowMissingFence"
        BY <1>2, <1>6, <2>2 DEF Dispatch
    <2> QED BY <1>1, <1>2, <1>6, <2>2, <2>3 DEF Adoptable, Apart
<1>7. CASE s.infl # None /\ s.infl.phase = "LocalCommitPending"
    <2>1. t = DeferLocalCommit(s)
        BY <1>7 DEF Recovered
    <2>2. t.infl = None /\ t.clean = s.clean
        BY <2>1, SnapshotParts DEF DeferLocalCommit
    <2> QED BY <1>1, <1>2, <1>7, <2>2 DEF Adoptable, Apart
<1>8. CASE s.infl # None /\ s.infl.phase = "ShadowMissingFence"
    <2>1. t = s
        BY <1>8 DEF Recovered
    <2> QED BY <1>1, <1>2, <1>8, <2>1 DEF Adoptable, Fenced, FencePhases
<1>9. CASE s.infl # None /\ s.infl.phase = "ReconnectPending"
    <2>1. t = ResolveFenceReconnect(s)
        BY <1>9 DEF Recovered
    <2>2. t.infl = None /\ ~t.clean
        BY <1>9, <2>1, HardenedIs
    <2> QED BY <1>1, <2>2 DEF Adoptable, Apart
<1> QED BY <1>2, <1>3, <1>4, <1>5, <1>6, <1>7, <1>8, <1>9 DEF Phases, FencePhases

\* A process that has not adopted its records.
Blank(r) == Good(r) /\ r.load # "yes" /\ ~r.fail

LEMMA BlankIs ==
    ASSUME NEW r, Blank(r)
    PROVE  /\ r \in Processes /\ r.act = None /\ ~r.rec /\ Rest(r) /\ Surface(r)
           /\ \A o \in Ops : Free(r, o, r.gen)
           /\ \A o \in Ops : r.ops[o] # None => r.ops[o].st = "Failed" /\ r.ops[o].lin = 0
           /\ Apart(r.disk) /\ (Fenced(r.disk) => AllowShadowLoss) /\ r.snap = EmptySnapshot
<1>1. r \in Processes /\ r.act = None /\ ~r.rec /\ Surface(r)
    BY DEF Blank, Good, Surface, Loading
<1>2. Rest(r)
    BY <1>1, RestTraffic DEF Blank, Good
<1> QED BY <1>1, <1>2 DEF Rest, Surface, Loading, Records, Blank

\* A start that fails adopts nothing.
LEMMA BlockedGood ==
    ASSUME NEW r, Blank(r), NEW b \in Processes, Talk(b, r), b.ops = r.ops, b.act = r.act,
           b.load = r.load, b.snap = r.snap, b.fail, Apart(b.disk), Fenced(b.disk) => AllowShadowLoss
    PROVE  Good(b)
<1>1. /\ r \in Processes /\ r.act = None /\ ~r.rec /\ Rest(r) /\ r.load # "yes"
      /\ \A o \in Ops : r.ops[o] # None => r.ops[o].st = "Failed" /\ r.ops[o].lin = 0
      /\ r.snap = EmptySnapshot
    BY BlankIs DEF Blank
<1>2. Rest(b) /\ b.rec = r.rec
    BY <1>1, RestTalk DEF Talk
<1>3. Foreground(b) /\ Loading(b) /\ Shown(b)
    BY <1>1, <1>2 DEF Foreground, Loading, Shown, StartupGate
<1>4. Records(b)
    BY <1>1 DEF Records, EmptySnapshot, Apart, Fenced
<1>5. Waiting(b) /\ Offers(b)
    BY <1>1 DEF Waiting, Offers, Terminal
<1> QED BY <1>1, <1>2, <1>3, <1>4, <1>5, RestTraffic DEF Good, Surface

\* The records are shown.
LEMMA AdoptedShows ==
    ASSUME NEW r, Blank(r), NEW t, Adoptable(t),
           NEW m \in Processes, Talk(m, r), m.ops = r.ops, m.act = None, m.load = "yes", ~m.fail,
           m.snap = t, m.disk = t
    PROVE  LET q == Sync(m)
           IN Good(q) /\ q.act = None /\ q.load = "yes" /\ ~q.rec /\ \A o \in Ops : Free(q, o, q.gen)
<1> DEFINE q == Sync(m)
           c == t.cand
           d == t.infl
<1>1. /\ r \in Processes /\ ~r.rec /\ Rest(r) /\ \A o \in Ops : Free(r, o, r.gen)
    BY BlankIs
<1>2. \A o \in Ops : m.ops[o] # None => m.ops[o].st = "Failed" /\ m.ops[o].lin = 0
    BY BlankIs
<1>3. /\ t \in Snapshot /\ Apart(t) /\ ~t.clean /\ (c # None => c \in Candidate /\ c.op \in Ops)
      /\ d # None => d \in Dispatch /\ d.op \in Ops
    BY SnapshotParts DEF Adoptable, Candidate, Dispatch
<1>4. m.gen \in Nat
    BY ProcessParts
<1>5. CASE d = None
    <2>1. /\ q \in Processes /\ Talk(q, m) /\ Store(q, m) /\ q.act = None
          /\ \A p \in Ops : ~(c # None /\ p = c.op) => q.ops[p] \in {None, m.ops[p]}
          /\ c # None => q.ops[c.op] = RestoredCandidate(c, m.gen)
        <3>1. m.snap.infl = None /\ m.snap.cand = c
            BY <1>5
        <3> QED BY <1>3, <3>1, SyncIs
    <2>2. c # None => Stands(q.ops[c.op], c)
        BY <1>3, <1>4, <2>1, RestoredIs
    <2> HIDE DEF q
    <2>3. q.snap = t /\ q.disk = t /\ q.load = "yes" /\ ~q.fail /\ Talk(q, r)
        BY <2>1 DEF Store, Talk
    <2>4. \A p \in Ops : Neat(q, p)
        BY <1>2, <2>1, <2>2, <2>3 DEF Neat, Ended
    <2>5. Rest(q) /\ ~q.rec /\ \A o \in Ops : Free(q, o, q.gen)
        BY <1>1, <2>3, RestTalk DEF Talk, Free
    <2>6. Durable(q)
        BY <1>3, <1>5, <2>3 DEF Durable, Fenced
    <2>7. Good(q)
        BY <1>5, <2>1, <2>3, <2>4, <2>5, <2>6, NeatGood
    <2> QED BY <2>1, <2>3, <2>5, <2>7 DEF q
<1>6. CASE d # None
    <2>1. d.phase = "ShadowMissingFence" /\ AllowShadowLoss /\ Fenced(t) /\ d \in Dispatch /\ d.op \in Ops
        BY <1>3, <1>6 DEF Adoptable, Fenced, FencePhases
    <2>2. /\ q \in Processes /\ Talk(q, m) /\ Store(q, m) /\ q.act = None
          /\ q.ops[d.op] = RestoredDispatch(d, m.gen) /\ q.ops[d.op] \in OpRecord
          /\ \A p \in Ops \ {d.op} : q.ops[p] \in {None, m.ops[p]}
        <3>1. Fenced(m.snap) /\ m.snap.infl = d
            BY <2>1
        <3> QED BY <3>1, SyncFence
    <2>3. q.ops[d.op] # None /\ q.ops[d.op].st = "Recovering" /\ IsOf(q.ops[d.op], d)
        BY <1>4, <2>1, <2>2, RestoredIs
    <2> HIDE DEF q
    <2>4. q.snap = t /\ q.disk = t /\ q.load = "yes" /\ ~q.fail /\ Talk(q, r)
        BY <2>2 DEF Store, Talk
    <2>5. \A p \in Ops \ {d.op} : q.ops[p] # None => q.ops[p].st = "Failed"
        BY <1>2, <2>2
    <2>6. Rest(q) /\ ~q.rec /\ \A o \in Ops : Free(q, o, q.gen)
        BY <1>1, <2>4, RestTalk DEF Talk, Free
    <2>7. Foreground(q) /\ Loading(q)
        BY <2>2, <2>4 DEF Foreground, Loading
    <2>8. Records(q)
        BY <1>3, <2>1, <2>4 DEF Records
    <2>9. Waits(q.snap, d.op, q.ops[d.op])
        BY <1>6, <2>1, <2>3, <2>4 DEF Waits, Awaited
    <2>10. Waiting(q)
        <3> SUFFICES ASSUME NEW p \in Ops, q.ops[p] # None
                     PROVE  /\ q.ops[p].st \in Terminal \cup {"Recovering"}
                            /\ q.ops[p].st = "Recovering" => Waits(q.snap, p, q.ops[p])
            BY DEF Waiting
        <3>1. CASE p = d.op
            BY <2>3, <2>9, <3>1
        <3>2. CASE p # d.op
            BY <2>5, <3>2 DEF Terminal
        <3> QED BY <3>1, <3>2
    <2>11. Offers(q)
        BY <2>3, <2>5 DEF Offers
    <2>12. Shown(q)
        BY <1>6, <2>3, <2>4 DEF Shown
    <2>13. Good(q)
        BY <2>2, <2>6, <2>7, <2>8, <2>10, <2>11, <2>12, RestTraffic DEF Good, Surface
    <2> QED BY <2>2, <2>4, <2>6, <2>13 DEF q
<1> QED BY <1>5, <1>6

LEMMA ResumeGood ==
    ASSUME NEW r, Good(r)
    PROVE  Good(Resume(r)) /\ Resume(r).snap = r.snap
<1>1. CASE Resume(r) = r
    BY <1>1
<1>2. CASE Resume(r) = StartSession([r EXCEPT !.gate = [gen |-> r.gen, open |-> TRUE]])
    <2> DEFINE m == [r EXCEPT !.gate = [gen |-> r.gen, open |-> TRUE]]
    <2>1. r \in Processes /\ r.gen \in Nat /\ r.gate.gen = r.gen
        BY ProcessParts DEF Good
    <2>2. /\ m \in Processes /\ Store(m, r) /\ m.ops = r.ops /\ m.act = r.act /\ m.jobs = r.jobs
          /\ m.evts = r.evts /\ m.gen = r.gen /\ m.conn = r.conn /\ m.wk = r.wk /\ m.rec = r.rec
          /\ m.gate.gen = m.gen
        BY <2>1 DEF Processes, Store
    <2> HIDE DEF m
    <2>3. Surface(m)
        <3>1. m.load # "yes" => ~m.rec
            BY <2>2 DEF Good, Surface, Loading, Store
        <3> QED BY <2>2, <3>1, SameSurface DEF Good
    <2>4. Queues(m) /\ Sessions(m) /\ Strays(m)
        BY <2>2 DEF Good, Traffic, Queues, Sessions, Strays, Free, Spent
    <2>5. Question(m) /\ Transfers(m) /\ Calm(m)
        BY <2>2 DEF Good, Traffic, Question, Sole, Free, Transfers, Calm, Spent
    <2>6. Good(m)
        BY <2>2, <2>3, <2>4, <2>5 DEF Good, Traffic
    <2>7. Good(StartSession(m)) /\ StartSession(m).snap = m.snap
        BY <2>2, <2>6, StartGood, StartIs DEF Store
    <2>8. Resume(r) = StartSession(m)
        BY <1>2 DEF m
    <2> QED BY <2>2, <2>7, <2>8 DEF Store
<1> QED BY <1>1, <1>2 DEF Resume

\* What follows the adoption of records: a look at the file list, a demand for
\* a reconnect, or a session.
Adopted(m) ==
    LET q == Sync([m EXCEPT !.load = "yes"])
        c == q.snap.cand
    IN Reconcile(CASE Restricted(q) -> q
                   [] ~Restricted(q) /\ c # None /\ c.recov -> RequireRecovery(q)
                   [] OTHER -> Resume(q))

LEMMA AdoptedGood ==
    ASSUME NEW r, Blank(r), NEW t, Adoptable(t), NEW w \in Write(r, t),
           NEW x, x \in IF w.ok THEN Adopted(w.r) ELSE {w.r}
    PROVE  Good(x)
<1>1. /\ r \in Processes /\ r.act = None /\ Apart(r.disk) /\ (Fenced(r.disk) => AllowShadowLoss)
      /\ r.load # "yes"
    BY BlankIs DEF Blank
<1>2. t \in Snapshot /\ Apart(t) /\ (Fenced(t) => AllowShadowLoss)
    BY DEF Adoptable, Fenced
<1>3. Wrote(w, r, t)
    BY <1>1, <1>2, WriteIs
<1>4. CASE ~w.ok
    <2>1. /\ w.r \in Processes /\ Talk(w.r, r) /\ w.r.ops = r.ops /\ w.r.act = r.act
          /\ w.r.load = r.load /\ w.r.snap = r.snap /\ w.r.fail /\ w.r.disk \in {r.disk, t}
        BY <1>3, <1>4 DEF Wrote
    <2>2. Apart(w.r.disk) /\ (Fenced(w.r.disk) => AllowShadowLoss)
        BY <1>1, <1>2, <2>1
    <2> QED BY <1>4, <2>1, <2>2, BlockedGood
<1>5. CASE w.ok
    <2> DEFINE m == w.r
               n == [m EXCEPT !.load = "yes"]
               q == Sync(n)
               c == q.snap.cand
    <2>1. /\ m \in Processes /\ Talk(m, r) /\ m.ops = r.ops /\ m.act = None
          /\ ~m.fail /\ m.snap = t /\ m.disk = t
        BY <1>1, <1>3, <1>5 DEF Wrote
    <2>2. x \in Adopted(m)
        BY <1>5
    <2> HIDE DEF m
    <2>3. /\ n \in Processes /\ Talk(n, r) /\ n.ops = r.ops /\ n.act = None /\ n.load = "yes"
          /\ ~n.fail /\ n.snap = t /\ n.disk = t
        BY <2>1 DEF Processes, Talk
    <2>4. \/ x \in Reconcile(q) /\ Restricted(q)
          \/ x \in Reconcile(RequireRecovery(q)) /\ ~Restricted(q)
          \/ x \in Reconcile(Resume(q)) /\ ~Restricted(q)
        BY <2>2 DEF Adopted
    <2> HIDE DEF n
    <2>5. Good(q) /\ q.act = None /\ q.load = "yes" /\ ~q.rec /\ \A o \in Ops : Free(q, o, q.gen)
        BY <2>3, AdoptedShows
    <2> HIDE DEF q
    <2>6. CASE x \in Reconcile(q) /\ Restricted(q)
        <3>1. Visible(q.snap) \in Ops
            <4>1. q.snap \in Snapshot
                BY <2>5, ProcessParts DEF Good
            <4> QED BY <2>6, <4>1, SnapshotParts DEF Restricted, Visible, Fenced, Candidate, Dispatch
        <3>2. Ready(q)
            BY <2>5, <3>1 DEF Ready
        <3> QED BY <2>5, <2>6, <3>2, ReconcileGood
    <2>7. CASE x \in Reconcile(RequireRecovery(q)) /\ ~Restricted(q)
        <3>1. Good(RequireRecovery(q)) /\ RequireRecovery(q).snap = q.snap
            BY <2>5, RecoveryGood, RecoveryIs DEF Good, Store
        <3>2. ~Restricted(RequireRecovery(q))
            BY <2>7, <3>1 DEF Restricted
        <3> QED BY <2>7, <3>1, <3>2, ReconcileGood
    <2>8. CASE x \in Reconcile(Resume(q)) /\ ~Restricted(q)
        <3>1. Good(Resume(q)) /\ Resume(q).snap = q.snap
            BY <2>5, ResumeGood
        <3>2. ~Restricted(Resume(q))
            BY <2>8, <3>1 DEF Restricted
        <3> QED BY <2>8, <3>1, <3>2, ReconcileGood
    <2> QED BY <2>4, <2>6, <2>7, <2>8
<1> QED BY <1>4, <1>5

LEMMA AdoptGood ==
    ASSUME NEW r, Blank(r), NEW s, Adoptable(s), NEW x \in Adopt(r, s)
    PROVE  Good(x)
<1>1. CASE \E w \in Write(r, s) : x \in IF w.ok THEN Adopted(w.r) ELSE {w.r}
    BY <1>1, AdoptedGood
<1>2. CASE x = [r EXCEPT !.fail = TRUE]
    <2>1. r \in Processes /\ Apart(r.disk) /\ (Fenced(r.disk) => AllowShadowLoss)
        BY BlankIs
    <2>2. /\ x \in Processes /\ Talk(x, r) /\ x.ops = r.ops /\ x.act = r.act
          /\ x.load = r.load /\ x.snap = r.snap /\ x.fail /\ x.disk = r.disk
        BY <1>2, <2>1 DEF Processes, Talk
    <2> QED BY <2>1, <2>2, BlockedGood
<1>3. CASE /\ s.infl = None /\ Visible(s) # None
           /\ \E n \in Ops : \E w \in Write(r, RemapCandidate(s, n)) :
                 x \in IF w.ok THEN Adopted(w.r) ELSE {w.r}
    <2>1. PICK n \in Ops : \E w \in Write(r, RemapCandidate(s, n)) :
                 x \in IF w.ok THEN Adopted(w.r) ELSE {w.r}
        BY <1>3
    <2> DEFINE t == RemapCandidate(s, n)
    <2>2. s \in Snapshot /\ s.cand # None /\ ~s.clean
        BY <1>3 DEF Adoptable, Visible
    <2>3. t \in Snapshot
        BY <2>2, ProofsStay
    <2>4. t.infl = None /\ ~t.clean
        BY <1>3, <2>2, SnapshotParts DEF RemapCandidate
    <2>5. Adoptable(t)
        BY <2>3, <2>4 DEF Adoptable, Apart
    <2> QED BY <2>1, <2>5, AdoptedGood
<1> DEFINE clash == /\ HasOp(r, Visible(s))
                    /\ r.ops[Visible(s)].lin # (IF s.infl # None THEN s.infl.lin ELSE s.cand.lin)
<1>4. CASE ~clash
    <2>1. x \in UNION {IF w.ok THEN Adopted(w.r) ELSE {w.r} : w \in Write(r, s)}
        BY <1>4 DEF Adopt, Mutate, After, Adopted
    <2> QED BY <1>1, <2>1
<1>5. CASE clash /\ s.infl # None
    BY <1>2, <1>5 DEF Adopt
<1>6. CASE clash /\ s.infl = None
    <2>1. x \in UNION {UNION {IF w.ok THEN Adopted(w.r) ELSE {w.r} : w \in Write(r, RemapCandidate(s, n))} :
                          n \in {m \in Ops : r.ops[m] = None}}
        BY <1>6 DEF Adopt, Mutate, After, Adopted
    <2>2. Visible(s) # None
        BY <1>6 DEF HasOp
    <2> QED BY <1>3, <1>6, <2>1, <2>2
<1> QED BY <1>4, <1>5, <1>6

LEMMA ProcessGood ==
    ASSUME NEW disk \in Snapshot, Apart(disk), Fenced(disk) => AllowShadowLoss,
           NEW uid \in {0} \cup Uids, NEW faults \in 0 .. MaxFaults
    PROVE  Blank(Process(disk, uid, faults)) /\ Process(disk, uid, faults).disk = disk
<1> DEFINE r == Process(disk, uid, faults)
<1>1. EmptySnapshot \in Snapshot
    BY DEF EmptySnapshot, Snapshot
<1>2. r \in Processes
    <2>1. <<>> \in Seq(Jobs) /\ <<>> \in Seq(Events)
        OBVIOUS
    <2> QED BY <1>1, <2>1 DEF Process, Processes
<1>3. /\ \A o \in Ops : r.ops[o] = None
      /\ r.act = None /\ r.snap = EmptySnapshot /\ r.disk = disk /\ r.load = "validating" /\ ~r.fail
      /\ r.gen = 0 /\ r.conn = None /\ ~r.rec /\ r.gate.gen = 0 /\ r.wk = "Cleared"
      /\ r.jobs = <<>> /\ r.evts = <<>>
    BY DEF Process
<1> HIDE DEF r
<1>4. Foreground(r) /\ Waiting(r) /\ Offers(r) /\ Loading(r) /\ Shown(r)
    BY <1>3 DEF Foreground, Waiting, Offers, Loading, Shown, StartupGate
<1>5. Records(r)
    BY <1>3 DEF Records, EmptySnapshot, Apart, Fenced
<1>6. DOMAIN r.jobs = {} /\ DOMAIN r.evts = {}
    BY <1>3
<1>7. Rest(r)
    BY <1>3, <1>6 DEF Rest, Queues, Sessions, NoUploads, Free
<1>8. Good(r)
    BY <1>2, <1>3, <1>4, <1>5, <1>7, RestTraffic DEF Good, Surface
<1> QED BY <1>3, <1>8 DEF Blank, r

\* The runtime starts, whatever it finds on disk and on the cable.
LEMMA BootGood ==
    ASSUME NEW disk \in Snapshot, Apart(disk), Fenced(disk) => AllowShadowLoss,
           NEW uid \in {0} \cup Uids, NEW faults \in 0 .. MaxFaults,
           plugged \in Devices \cup {None}, NEW x \in Boot(disk, uid, faults)
    PROVE  Good(x)
<1> DEFINE r == Process(disk, uid, faults)
           lost == IF /\ AllowShadowLoss /\ disk.infl # None
                      /\ disk.infl.phase = "DispatchArmed"
                   THEN BOOLEAN ELSE {FALSE}
<1>1. PICK b \in lost : \E q \in IF NeedsValidation(disk, Recovered(disk, b)) THEN {r}
                                 ELSE Adopt(r, Recovered(disk, b)) :
                            x \in HandleSnapshot(q, plugged, FALSE)
    BY ZenonT(90) DEF Boot
<1>2. b \in BOOLEAN /\ (b => AllowShadowLoss)
    BY DEF lost
<1> HIDE DEF lost, r
<1>3. Blank(r)
    BY ProcessGood DEF r
<1>4. Adoptable(Recovered(disk, b))
    BY <1>2, RecoveredIs
<1>5. PICK q \in {r} \cup Adopt(r, Recovered(disk, b)) : x \in HandleSnapshot(q, plugged, FALSE)
    BY <1>1
<1>6. Good(q)
    BY <1>3, <1>4, <1>5, AdoptGood DEF Blank
<1> QED BY <1>5, <1>6, SnapshotGood

\* The files of a candidate have been hashed, or do not match it.
LEMMA ArtifactGood ==
    ASSUME Good(rt), ArtifactValidated
    PROVE  Good(rt')
<1>1. rt.load # "yes" /\ ~rt.fail /\ Blank(rt)
    BY DEF ArtifactValidated, Blank
<1>2. CASE rt' \in Adopt(rt, Recovered(rt.disk, FALSE))
    <2>1. Adoptable(Recovered(rt.disk, FALSE))
        BY <1>1, BlankIs, RecoveredIs, ProcessParts
    <2> QED BY <1>1, <1>2, <2>1, AdoptGood
<1>3. CASE rt.faults < MaxFaults /\ rt' = Fails(rt)
    <2> DEFINE n == rt.faults + 1
               b == [rt EXCEPT !.fail = TRUE, !.faults = n]
    <2>1. rt \in Processes /\ Apart(rt.disk) /\ (Fenced(rt.disk) => AllowShadowLoss)
        BY <1>1, BlankIs
    <2>2. n \in 0 .. MaxFaults
        <3>1. rt.faults \in Nat
            BY <2>1, BoundsAssumption DEF Processes
        <3>2. rt.faults # MaxFaults
            BY <1>3, <3>1
        <3> QED BY <2>1, <3>2, FaultsCounted
    <2>3. rt' = b
        BY <1>3, <2>1 DEF Fails, Processes
    <2> HIDE DEF n
    <2>4. /\ b \in Processes /\ Talk(b, rt) /\ b.ops = rt.ops /\ b.act = rt.act
          /\ b.load = rt.load /\ b.snap = rt.snap /\ b.fail /\ b.disk = rt.disk
        BY <2>1, <2>2 DEF Processes, Talk
    <2> HIDE DEF b
    <2> QED BY <1>1, <2>1, <2>3, <2>4, BlockedGood
<1> QED BY <1>2, <1>3 DEF ArtifactValidated

-----------------------------------------------------------------------------
(* The worker                                                                 *)

\* The session moves on, and nothing that was answered is asked again.
Onward(x, q) ==
    /\ Good(x) /\ Store(x, q) /\ x.ops = q.ops /\ x.act = q.act /\ x.gen = q.gen /\ x.rec = q.rec
    /\ x.conn = q.conn /\ x.gate = q.gate
    /\ \A o, g : Free(q, o, g) => Free(x, o, g)
    /\ Spent(q) => Spent(x)

\* Job j was taken from the queue, and is to be answered.
Taken(q, j) ==
    /\ j \in Jobs /\ j.op \in Ops /\ j.gen <= q.gen
    /\ j.op # q.act /\ j.gen = q.gen => q.rec /\ Spent(q)
    /\ j.op = q.act =>
          /\ j.gen = q.ops[j.op].gen => Free(q, j.op, j.gen) /\ q.ops[j.op].st # "Converting"
          /\ j.gen = q.gen => q.ops[j.op].gen = q.gen
          /\ j.gen = q.gen /\ q.ops[j.op].st = "Recovering" /\ (q.ops[j.op].chg \/ ~q.ops[j.op].pre)
             => Spent(q)

LEMMA TakenOnward ==
    ASSUME NEW q, NEW x, NEW j, Taken(q, j), Onward(x, q)
    PROVE  Taken(x, j)
BY DEF Taken, Onward

LEMMA DequeuedGood ==
    ASSUME NEW r, Good(r), r.jobs # <<>>
    PROVE  LET q == [r EXCEPT !.jobs = Tail(@)]
           IN /\ Onward(q, r) /\ q.wk = r.wk /\ Head(r.jobs) \in Jobs /\ Head(r.jobs).gen <= r.gen
              /\ Head(r.jobs).kind # "start" => Taken(q, Head(r.jobs))
<1> DEFINE q == [r EXCEPT !.jobs = Tail(@)]
           j == Head(r.jobs)
<1>1. r \in Processes /\ r.jobs \in Seq(Jobs) /\ r.gen \in Nat
    BY ProcessParts DEF Good
<1>2. /\ Tail(r.jobs) \in Seq(Jobs) /\ j \in Jobs /\ j = r.jobs[1]
      /\ Len(r.jobs) \in Nat /\ Len(r.jobs) > 0
      /\ DOMAIN r.jobs = 1 .. Len(r.jobs) /\ DOMAIN Tail(r.jobs) = 1 .. Len(r.jobs) - 1
      /\ \A i \in DOMAIN Tail(r.jobs) : i + 1 \in DOMAIN r.jobs /\ Tail(r.jobs)[i] = r.jobs[i + 1]
    BY <1>1, TailIs
<1> HIDE DEF j
<1>3. /\ q \in Processes /\ Store(q, r) /\ q.ops = r.ops /\ q.act = r.act /\ q.gen = r.gen
      /\ q.evts = r.evts /\ q.jobs = Tail(r.jobs) /\ q.conn = r.conn /\ q.wk = r.wk
      /\ q.rec = r.rec /\ q.gate = r.gate
    BY <1>1, <1>2 DEF Processes, Store
<1> HIDE DEF q
<1>4. /\ 1 \in DOMAIN r.jobs /\ \A i \in DOMAIN q.jobs : i \in Nat /\ i + 1 \in DOMAIN r.jobs
      /\ \A i \in DOMAIN q.jobs : q.jobs[i] = r.jobs[i + 1] /\ i + 1 # 1
      /\ \A i, k \in DOMAIN q.jobs : i + 1 = k + 1 => i = k
    BY <1>2, <1>3
<1>5. Surface(q)
    BY <1>3, SameSurface DEF Good, Surface, Loading, Store
<1>6. \A o, g : Free(r, o, g) => Free(q, o, g)
    BY <1>3, <1>4 DEF Free
<1>7. Spent(r) => Spent(q)
    BY <1>3 DEF Spent
<1>8. Queues(q)
    BY <1>3, <1>4 DEF Queues, Good, Traffic
<1>9. Sessions(q)
    BY <1>3 DEF Sessions, Good, Traffic
<1>10. Strays(q)
    BY <1>3, <1>6, <1>7 DEF Strays, Good, Traffic
<1>11. \A o, g : Sole(r, o, g) => Sole(q, o, g)
    <2> SUFFICES ASSUME NEW o, NEW g, Sole(r, o, g)
                 PROVE  Sole(q, o, g)
        OBVIOUS
    <2> QED BY <1>3, <1>4 DEF Sole
<1>12. Question(q)
    BY <1>3, <1>6, <1>11 DEF Question, Good, Traffic
<1>13. Transfers(q)
    BY <1>3, <1>4 DEF Transfers, Good, Traffic
<1>14. Calm(q)
    BY <1>3, <1>6, <1>7 DEF Calm, Good
<1>15. Good(q)
    BY <1>3, <1>5, <1>8, <1>9, <1>10, <1>12, <1>13, <1>14 DEF Good, Traffic
<1>16. Onward(q, r)
    BY <1>3, <1>6, <1>7, <1>15 DEF Onward
<1>17. ASSUME j.kind # "start"
       PROVE  Taken(q, j)
    <2>1. j.op \in Ops /\ j.gen <= r.gen
        BY <1>2, <1>4, <1>17 DEF Good, Traffic, Queues
    <2>2. Asks(j, j.op, j.gen) /\ ~Free(r, j.op, j.gen)
        BY <1>2, <1>4, <1>17 DEF Asks, Free, Jobs
    <2>3. ASSUME j.op # r.act, j.gen = r.gen
          PROVE  r.rec /\ Spent(r)
        BY <2>1, <2>2, <2>3 DEF Good, Traffic, Strays
    <2>4. ASSUME j.op = r.act
          PROVE  /\ j.gen = r.ops[j.op].gen => Free(q, j.op, j.gen) /\ r.ops[j.op].st # "Converting"
                 /\ j.gen = r.gen => r.ops[j.op].gen = r.gen
                 /\ j.gen = r.gen /\ r.ops[j.op].st = "Recovering" /\ (r.ops[j.op].chg \/ ~r.ops[j.op].pre)
                    => Spent(r)
        <3>1. r.act # None /\ Question(r) /\ Calm(r)
            BY <2>1, <2>4 DEF Good, Traffic
        <3>2. Sole(r, j.op, j.gen) => Free(q, j.op, j.gen)
            BY <1>2, <1>3, <1>4, <2>2 DEF Sole, Free
        <3> QED BY <2>2, <2>4, <3>1, <3>2 DEF Question, Calm
    <2> QED BY <1>2, <1>3, <1>7, <2>1, <2>3, <2>4 DEF Taken
<1>18. j.gen <= r.gen
    BY <1>2, <1>4 DEF Good, Traffic, Queues
<1> QED BY <1>2, <1>3, <1>16, <1>17, <1>18 DEF q, j

LEMMA ReportIs ==
    ASSUME NEW r \in Processes, NEW e \in Events
    PROVE  LET q == Report(r, e)
           IN /\ q \in Processes /\ Store(q, r) /\ q.ops = r.ops /\ q.act = r.act
              /\ q.evts = Append(r.evts, e) /\ q.jobs = r.jobs /\ q.gen = r.gen
              /\ q.conn = r.conn /\ q.wk = r.wk /\ q.rec = r.rec /\ q.gate = r.gate
<1> DEFINE evts == Append(r.evts, e)
<1>1. evts \in Seq(Events)
    BY ProcessParts, AppendIs
<1>2. Report(r, e) = [r EXCEPT !.evts = evts]
    BY DEF Report, Processes
<1> HIDE DEF evts
<1> QED BY <1>1, <1>2 DEF Processes, Store, evts

\* The events that are not about an operation.
LEMMA SessionEvents ==
    ASSUME NEW g \in Nat, NEW kind \in {"started", "lost"}
    PROVE  LET e == Event(kind, None, g, "", NoFiles)
           IN e \in Events /\ e.kind = kind /\ e.gen = g /\ \A o, h : ~Tells(e, o, h)
<1>1. NoFiles \in [Uids -> FileStates]
    BY DEF NoFiles, FileStates
<1> QED BY <1>1 DEF Event, Events, Results, Tells

\* The session is found lost, or is reported as started.
LEMMA TurnedGood ==
    ASSUME NEW r, Good(r), r.wk \in {"Idle", "Active"}, NEW kind \in {"started", "lost"},
           kind = "started" => r.wk = "Idle", NEW wk, wk = (IF kind = "started" THEN "Active" ELSE "Lost")
    PROVE  LET x == Report([r EXCEPT !.wk = wk], Event(kind, None, r.gen, "", NoFiles))
           IN Onward(x, r) /\ x.wk = wk
<1> DEFINE e == Event(kind, None, r.gen, "", NoFiles)
           m == [r EXCEPT !.wk = wk]
           x == Report(m, e)
           n == Len(r.evts) + 1
<1>1. r \in Processes /\ r.gen \in Nat /\ r.evts \in Seq(Events)
    BY ProcessParts DEF Good
<1>2. e \in Events /\ e.kind = kind /\ e.gen = r.gen /\ \A o, h : ~Tells(e, o, h)
    BY <1>1, SessionEvents
<1> HIDE DEF e
<1>3. /\ m \in Processes /\ Store(m, r) /\ m.ops = r.ops /\ m.act = r.act /\ m.gen = r.gen
      /\ m.jobs = r.jobs /\ m.evts = r.evts /\ m.conn = r.conn /\ m.wk = wk
      /\ m.rec = r.rec /\ m.gate = r.gate
    BY <1>1 DEF Processes, Store
<1> HIDE DEF m
<1>4. /\ x \in Processes /\ Store(x, r) /\ x.ops = r.ops /\ x.act = r.act /\ x.gen = r.gen
      /\ x.jobs = r.jobs /\ x.evts = Append(r.evts, e) /\ x.conn = r.conn /\ x.wk = wk
      /\ x.rec = r.rec /\ x.gate = r.gate
    BY <1>2, <1>3, ReportIs DEF Store
<1> HIDE DEF x
<1>5. /\ n \in Nat /\ DOMAIN r.evts = 1 .. n - 1 /\ DOMAIN x.evts = 1 .. n
      /\ \A i \in DOMAIN r.evts : x.evts[i] = r.evts[i]
      /\ x.evts[n] = e
    BY <1>1, <1>2, <1>4, AppendIs
<1> HIDE DEF n
<1>6. \A i \in DOMAIN x.evts : (i \in DOMAIN r.evts /\ i # n /\ i < n /\ x.evts[i] = r.evts[i]) \/ i = n
    BY <1>5
<1>7. Surface(x)
    BY <1>4, SameSurface DEF Good, Surface, Loading, Store
<1>8. \A o, g : Free(r, o, g) => Free(x, o, g)
    BY <1>2, <1>4, <1>5, <1>6 DEF Free
<1>9. Spent(r) => Spent(x)
    <2>1. r.wk # "Idle" => kind = "lost"
        OBVIOUS
    <2>2. wk # "Idle"
        OBVIOUS
    <2>3. Spent(r) => r.wk # "Idle"
        BY DEF Spent
    <2> QED BY <1>2, <1>4, <1>5, <1>6, <2>1, <2>2, <2>3 DEF Spent, Says
<1>10. Queues(x)
    BY <1>1, <1>2, <1>4, <1>5, <1>6 DEF Queues, Good, Traffic
<1>11. Sessions(x)
    <2>1. Sessions(r) /\ r.conn # None
        BY DEF Good, Traffic, Sessions
    <2>2. \A i \in DOMAIN r.evts : ~Says(r.evts[i], "lost", r.gen)
        BY <2>1 DEF Sessions
    <2>3. kind = "started" => \A i \in DOMAIN r.evts : ~Says(r.evts[i], "started", r.gen)
        BY <2>1 DEF Sessions
    <2>4. wk = "Active" => \A i \in DOMAIN x.evts : ~Says(x.evts[i], "lost", x.gen)
        BY <1>2, <1>4, <1>5, <1>6, <2>2 DEF Says
    <2>5. ASSUME NEW i \in DOMAIN x.evts, NEW k \in DOMAIN x.evts,
                 Says(x.evts[i], "lost", x.gen), Says(x.evts[k], "started", x.gen)
          PROVE  k < i
        <3>1. i = n
            BY <1>4, <1>6, <2>2, <2>5
        <3>2. k # n
            BY <1>5, <2>5, <3>1 DEF Says
        <3> QED BY <1>6, <3>1, <3>2
    <2>6. wk # "Idle" /\ x.conn # None /\ (wk \in {"Idle", "Active"} => wk = "Active")
        BY <1>4, <2>1
    <2> QED BY <1>4, <2>4, <2>5, <2>6 DEF Sessions
<1>12. Strays(x)
    BY <1>4, <1>8, <1>9 DEF Strays, Good, Traffic
<1>13. \A o, g : Sole(r, o, g) => Sole(x, o, g)
    <2> SUFFICES ASSUME NEW o, NEW g, Sole(r, o, g)
                 PROVE  Sole(x, o, g)
        OBVIOUS
    <2>1. \A i \in DOMAIN x.evts : Tells(x.evts[i], o, g) => i \in DOMAIN r.evts /\ Tells(r.evts[i], o, g)
        BY <1>2, <1>5, <1>6
    <2> QED BY <1>4, <2>1 DEF Sole
<1>14. Question(x)
    BY <1>4, <1>8, <1>13 DEF Question, Good, Traffic
<1>15. Transfers(x)
    BY <1>4 DEF Transfers, Good, Traffic
<1>16. Calm(x)
    BY <1>4, <1>8, <1>9 DEF Calm, Good
<1>17. Good(x)
    BY <1>4, <1>7, <1>10, <1>11, <1>12, <1>14, <1>15, <1>16 DEF Good, Traffic
<1>18. Onward(x, r) /\ x.wk = wk
    BY <1>4, <1>8, <1>9, <1>17 DEF Onward
<1> QED BY <1>18 DEF x, m, e

LEMMA OnwardSelf ==
    ASSUME NEW r, Good(r)
    PROVE  Onward(r, r)
BY DEF Onward, Store

LEMMA OnwardOn ==
    ASSUME NEW r, NEW q, NEW x, Onward(q, r), Onward(x, q)
    PROVE  Onward(x, r)
BY DEF Onward, Store

LEMMA MarkLostGood ==
    ASSUME NEW r, Good(r), r.wk # "Cleared", NEW g
    PROVE  Onward(MarkLost(r, g), r) /\ MarkLost(r, g).wk # "Cleared"
<1>1. CASE ~GateOpen(r, g) \/ r.wk = "Lost"
    BY <1>1, OnwardSelf DEF MarkLost
<1>2. CASE GateOpen(r, g) /\ r.wk # "Lost"
    <2>1. r.wk \in {"Idle", "Active"} /\ g = r.gen
        BY <1>2 DEF Good, Processes, GateOpen
    <2>2. MarkLost(r, g) = Report([r EXCEPT !.wk = "Lost"], Event("lost", None, r.gen, "", NoFiles))
        BY <1>2, <2>1 DEF MarkLost
    <2> DEFINE x == Report([r EXCEPT !.wk = "Lost"], Event("lost", None, r.gen, "", NoFiles))
    <2>3. Onward(x, r) /\ x.wk = "Lost"
        <3>1. ASSUME NEW kind, kind = "lost"
              PROVE  LET y == Report([r EXCEPT !.wk = "Lost"], Event(kind, None, r.gen, "", NoFiles))
                     IN Onward(y, r) /\ y.wk = "Lost"
            <4>1. kind \in {"started", "lost"} /\ ~(kind = "started")
                BY <3>1
            <4> DEFINE wk == "Lost"
            <4>2. wk = IF kind = "started" THEN "Active" ELSE "Lost"
                BY <4>1
            <4> HIDE DEF wk
            <4>3. LET y == Report([r EXCEPT !.wk = wk], Event(kind, None, r.gen, "", NoFiles))
                  IN Onward(y, r) /\ y.wk = wk
                BY <2>1, <4>1, <4>2, TurnedGood, ZenonT(90)
            <4> QED BY <4>3 DEF wk
        <3> QED BY <3>1
    <2> HIDE DEF x
    <2> QED BY <2>2, <2>3 DEF x
<1> QED BY <1>1, <1>2

LEMMA EnsuredGood ==
    ASSUME NEW r, Good(r), r.wk # "Cleared", NEW g, GateOpen(r, g), NEW x \in Ensured(r, g)
    PROVE  Onward(x, r) /\ x.wk # "Cleared"
<1>1. CASE r.wk # "Idle"
    BY <1>1, OnwardSelf DEF Ensured
<1>2. CASE r.wk = "Idle" /\ x = MarkLost(r, g)
    BY <1>2, MarkLostGood
<1>3. CASE r.wk = "Idle" /\ x = Report([r EXCEPT !.wk = "Active"], Event("started", None, g, "", NoFiles))
    <2>1. g = r.gen
        BY DEF Good, GateOpen
    <2> QED BY <1>3, <2>1, TurnedGood, ZenonT(90)
<1> QED BY <1>1, <1>2, <1>3 DEF Ensured

\* The answer to the question that was taken.
LEMMA AnsweredGood ==
    ASSUME NEW r, Good(r), NEW j, Taken(r, j), NEW e \in Events, Tells(e, j.op, j.gen)
    PROVE  Good(Report(r, e))
<1> DEFINE x == Report(r, e)
           n == Len(r.evts) + 1
<1>1. r \in Processes /\ r.gen \in Nat /\ r.evts \in Seq(Events)
    BY ProcessParts DEF Good
<1>2. /\ x \in Processes /\ Store(x, r) /\ x.ops = r.ops /\ x.act = r.act /\ x.gen = r.gen
      /\ x.jobs = r.jobs /\ x.evts = Append(r.evts, e) /\ x.conn = r.conn /\ x.wk = r.wk
      /\ x.rec = r.rec /\ x.gate = r.gate
    BY <1>1, ReportIs
<1> HIDE DEF x
<1>3. /\ n \in Nat /\ DOMAIN r.evts = 1 .. n - 1 /\ DOMAIN x.evts = 1 .. n
      /\ \A i \in DOMAIN r.evts : x.evts[i] = r.evts[i]
      /\ x.evts[n] = e
    BY <1>1, <1>2, AppendIs
<1> HIDE DEF n
<1>4. \A i \in DOMAIN x.evts : (i \in DOMAIN r.evts /\ i # n /\ i < n /\ x.evts[i] = r.evts[i]) \/ i = n
    BY <1>3
<1>5. e.kind \notin {"started", "lost"} /\ e.op = j.op /\ e.gen = j.gen /\ j.op \in Ops /\ j.gen <= r.gen
    BY DEF Tells, Taken
<1>6. Surface(x)
    BY <1>2, SameSurface DEF Good, Surface, Loading, Store
<1>7. \A o, g : Free(r, o, g) /\ ~(o = j.op /\ g = j.gen) => Free(x, o, g)
    <2> SUFFICES ASSUME NEW o, NEW g, Free(r, o, g), ~(o = j.op /\ g = j.gen)
                 PROVE  Free(x, o, g)
        OBVIOUS
    <2>1. ~Tells(e, o, g)
        BY <1>5 DEF Tells
    <2>2. \A i \in DOMAIN x.evts : ~Tells(x.evts[i], o, g)
        BY <1>3, <1>4, <2>1 DEF Free
    <2> QED BY <1>2, <2>2 DEF Free
<1>8. Spent(r) => Spent(x)
    BY <1>2, <1>3, <1>4, <1>5 DEF Spent, Says
<1>9. Queues(x)
    BY <1>2, <1>3, <1>4, <1>5 DEF Queues, Good, Traffic
<1>10. Sessions(x)
    <2>1. Sessions(r)
        BY DEF Good, Traffic
    <2>2. ~Says(e, "started", r.gen) /\ ~Says(e, "lost", r.gen)
        BY <1>5 DEF Says
    <2>3. \A i \in DOMAIN x.evts :
             /\ Says(x.evts[i], "started", r.gen) => i \in DOMAIN r.evts /\ Says(r.evts[i], "started", r.gen)
             /\ Says(x.evts[i], "lost", r.gen) => i \in DOMAIN r.evts /\ Says(r.evts[i], "lost", r.gen)
        BY <1>3, <1>4, <2>2
    <2> QED BY <1>2, <2>1, <2>3 DEF Sessions
<1>11. Strays(x)
    <2> SUFFICES ASSUME NEW o \in Ops, o # x.act, ~(x.rec /\ Spent(x))
                 PROVE  Free(x, o, x.gen)
        BY DEF Strays
    <2>1. Free(r, o, r.gen)
        BY <1>2, <1>8 DEF Good, Traffic, Strays
    <2>2. ~(o = j.op /\ r.gen = j.gen)
        BY <1>2, <1>8 DEF Taken
    <2> QED BY <1>2, <1>7, <2>1, <2>2
<1>12. ASSUME NEW o, NEW g, Sole(r, o, g), o = j.op /\ g = j.gen => Free(r, o, g)
       PROVE  Sole(x, o, g)
    <2>1. CASE o = j.op /\ g = j.gen
        <3>1. \A i \in DOMAIN x.evts : Tells(x.evts[i], o, g) => i = n
            BY <1>3, <1>4, <1>12, <2>1 DEF Free
        <3> QED BY <1>2, <1>12, <2>1, <3>1 DEF Sole, Free
    <2>2. CASE ~(o = j.op /\ g = j.gen)
        <3>1. ~Tells(e, o, g)
            BY <1>5, <2>2 DEF Tells
        <3>2. \A i \in DOMAIN x.evts : Tells(x.evts[i], o, g) => i \in DOMAIN r.evts /\ Tells(r.evts[i], o, g)
            BY <1>3, <1>4, <3>1
        <3> QED BY <1>2, <1>12, <3>2 DEF Sole
    <2> QED BY <2>1, <2>2
<1>13. Question(x)
    <2> SUFFICES ASSUME x.act # None
                 PROVE  LET op == r.ops[r.act]
                        IN /\ op.gen <= r.gen /\ Sole(x, r.act, op.gen)
                           /\ op.gen # r.gen => Free(x, r.act, r.gen)
                           /\ op.st = "Converting" => Free(x, r.act, op.gen)
        BY <1>2 DEF Question
    <2>1. /\ r.ops[r.act].gen <= r.gen /\ Sole(r, r.act, r.ops[r.act].gen)
          /\ r.ops[r.act].gen # r.gen => Free(r, r.act, r.gen)
          /\ r.ops[r.act].st = "Converting" => Free(r, r.act, r.ops[r.act].gen)
        BY <1>2 DEF Good, Traffic, Question
    <2>2. r.act = j.op /\ r.ops[r.act].gen = j.gen => Free(r, j.op, j.gen) /\ r.ops[r.act].st # "Converting"
        BY DEF Taken
    <2>3. r.act = j.op /\ r.gen = j.gen => r.ops[r.act].gen = r.gen
        BY DEF Taken
    <2>4. Sole(x, r.act, r.ops[r.act].gen)
        BY <1>12, <2>1, <2>2
    <2>5. r.ops[r.act].gen # r.gen => Free(x, r.act, r.gen)
        BY <1>7, <2>1, <2>3
    <2>6. r.ops[r.act].st = "Converting" => Free(x, r.act, r.ops[r.act].gen)
        BY <1>7, <2>1, <2>2
    <2> QED BY <2>1, <2>4, <2>5, <2>6
<1>14. Transfers(x)
    BY <1>2 DEF Transfers, Good, Traffic
<1>15. Calm(x)
    <2> SUFFICES ASSUME r.act # None, r.ops[r.act].st = "Recovering",
                        r.ops[r.act].chg \/ ~r.ops[r.act].pre, ~Spent(x)
                 PROVE  Free(x, r.act, r.gen)
        BY <1>2 DEF Calm
    <2>1. Free(r, r.act, r.gen)
        BY <1>8 DEF Good, Calm
    <2>2. ~(r.act = j.op /\ r.gen = j.gen)
        BY <1>8 DEF Taken
    <2> QED BY <1>7, <2>1, <2>2
<1>16. x.gate.gen = x.gen
    BY <1>2 DEF Good
<1>17. Good(x)
    BY <1>2, <1>6, <1>9, <1>10, <1>11, <1>13, <1>14, <1>15, <1>16 DEF Good, Traffic
<1> QED BY <1>17 DEF x

\* The answers to job j.
LEMMA AnswersAre ==
    ASSUME NEW j \in Jobs, j.op \in Ops, NEW kind \in {"list", "nolist", "upload"},
           NEW out \in Results, NEW files \in [Uids -> FileStates]
    PROVE  LET e == Event(kind, j.op, j.gen, out, files) IN e \in Events /\ Tells(e, j.op, j.gen)
BY DEF Event, Events, Jobs, Tells

LEMMA AnswerGood ==
    ASSUME NEW r, Good(r), NEW j, Taken(r, j), NEW kind \in {"list", "nolist", "upload"},
           NEW out \in Results, NEW files \in [Uids -> FileStates]
    PROVE  Good(Report(r, Event(kind, j.op, j.gen, out, files)))
<1>1. j \in Jobs /\ j.op \in Ops
    BY DEF Taken
<1> QED BY <1>1, AnswersAre, AnsweredGood

\* The session of a job that is not refused.
LEMMA SessionGood ==
    ASSUME NEW r, Good(r), r.jobs # <<>>, NEW j, j = Head(r.jobs), j.kind # "start", ~Refused(r, j),
           NEW x \in Ensured([r EXCEPT !.jobs = Tail(@)], j.gen)
    PROVE  /\ Onward(x, r) /\ x.wk # "Cleared" /\ Taken(x, j)
           /\ LET y == MarkLost(x, j.gen) IN Onward(y, r) /\ Taken(y, j)
<1> DEFINE q == [r EXCEPT !.jobs = Tail(@)]
<1>1. Onward(q, r) /\ q.wk = r.wk /\ Taken(q, j)
    BY DequeuedGood
<1>2. r.wk # "Cleared" /\ GateOpen(r, j.gen)
    BY DEF Refused
<1> HIDE DEF q
<1>3. Good(q) /\ q.wk # "Cleared" /\ GateOpen(q, j.gen) /\ x \in Ensured(q, j.gen)
    BY <1>1, <1>2 DEF Onward, GateOpen, q
<1>4. Onward(x, q) /\ x.wk # "Cleared"
    BY <1>3, EnsuredGood
<1>5. Onward(x, r) /\ Taken(x, j) /\ Good(x)
    BY <1>1, <1>4, OnwardOn, TakenOnward DEF Onward
<1>6. Onward(MarkLost(x, j.gen), x)
    BY <1>4, <1>5, MarkLostGood
<1>7. Onward(MarkLost(x, j.gen), r) /\ Taken(MarkLost(x, j.gen), j)
    BY <1>5, <1>6, OnwardOn, TakenOnward
<1> QED BY <1>4, <1>5, <1>7

-----------------------------------------------------------------------------
(* The steps                                                                  *)

World ==
    /\ plugged \in Devices \cup {None} /\ removed \in BOOLEAN
    /\ remote \in [Devices -> [Uids -> FileStates]]
    /\ tries \in [Devices -> [Uids -> {"never", "open", "done"}]]
    /\ taint \subseteq Devices /\ discarded \subseteq Devices
    /\ stored \subseteq Devices \X Uids

LEMMA StartDisplayGood ==
    ASSUME Good(rt), StartDisplaySession
    PROVE  Good(rt')
<1> DEFINE j == Head(rt.jobs)
<1>1. rt.jobs # <<>> /\ rt' \in IF Refused(rt, j) THEN {Dequeued} ELSE Ensured(Dequeued, j.gen)
    BY DEF StartDisplaySession, NextJob
<1>2. Onward(Dequeued, rt) /\ Dequeued.wk = rt.wk
    BY <1>1, DequeuedGood DEF Dequeued
<1>3. CASE Refused(rt, j)
    BY <1>1, <1>2, <1>3 DEF Onward
<1>4. CASE ~Refused(rt, j)
    <2>1. Good(Dequeued) /\ Dequeued.wk # "Cleared" /\ GateOpen(Dequeued, j.gen)
        BY <1>2, <1>4 DEF Onward, Refused, GateOpen
    <2> QED BY <1>1, <1>4, <2>1, EnsuredGood DEF Onward
<1> QED BY <1>3, <1>4

\* A job that is answered without a session.
LEMMA WithdrawnGood ==
    ASSUME Good(rt), rt.jobs # <<>>, NEW j, j = Head(rt.jobs), j.kind # "start",
           NEW kind \in {"list", "nolist", "upload"}, NEW out \in Results
    PROVE  Good(Report(Dequeued, Event(kind, j.op, j.gen, out, NoFiles)))
<1>1. NoFiles \in [Uids -> FileStates]
    BY DEF NoFiles, FileStates
<1>2. Good(Dequeued) /\ Taken(Dequeued, j)
    BY DequeuedGood DEF Dequeued, Onward
<1> QED BY <1>1, <1>2, AnswerGood

LEMMA RefreshMediaGood ==
    ASSUME Good(rt), World, RefreshMediaList
    PROVE  Good(rt')
<1> DEFINE j == Head(rt.jobs)
           failed(r) == Report(r, Event("nolist", j.op, j.gen, "", NoFiles))
           session == IF Refused(rt, j) THEN {} ELSE Ensured(Dequeued, j.gen)
<1>1. rt.jobs # <<>> /\ j.kind # "start" /\ "" \in Results /\ NoFiles \in [Uids -> FileStates]
    BY DEF RefreshMediaList, NextJob, Results, NoFiles, FileStates
<1>2. CASE rt' = failed(Dequeued)
    BY <1>1, <1>2, WithdrawnGood
<1>3. ASSUME NEW r \in session
      PROVE  /\ Good(r) /\ Taken(r, j) /\ Good(MarkLost(r, j.gen)) /\ Taken(MarkLost(r, j.gen), j)
             /\ r.conn = rt.conn
    BY <1>1, <1>3, SessionGood DEF Dequeued, Onward
<1>4. CASE \E r \in session : rt' = failed(MarkLost(r, j.gen)) \/ rt' = failed(r)
    <2>1. PICK r \in session : rt' = failed(MarkLost(r, j.gen)) \/ rt' = failed(r)
        BY <1>4
    <2>2. PICK q \in {r, MarkLost(r, j.gen)} : rt' = failed(q)
        BY <2>1
    <2>3. Good(q) /\ Taken(q, j)
        BY <1>3, <2>2
    <2> HIDE DEF j, session
    <2>4. "nolist" \in {"list", "nolist", "upload"}
        OBVIOUS
    <2> QED BY <1>1, <2>2, <2>3, <2>4, AnswerGood
<1>5. CASE \E r \in session : /\ r.wk = "Active" /\ Reachable
                              /\ rt' = Report(r, Event("list", j.op, j.gen, "", remote[plugged]))
    <2>1. PICK r \in session : /\ r.wk = "Active" /\ Reachable
                               /\ rt' = Report(r, Event("list", j.op, j.gen, "", remote[plugged]))
        BY <1>5
    <2>2. Good(r) /\ Taken(r, j) /\ r.conn = rt.conn
        BY <1>3
    <2>3. r.conn # None
        BY <2>1, <2>2 DEF Good, Traffic, Sessions
    <2>4. remote[plugged] \in [Uids -> FileStates]
        BY <2>1, <2>2, <2>3 DEF World, Reachable
    <2> QED BY <1>1, <2>1, <2>2, <2>4, AnswerGood
<1> QED BY <1>2, <1>4, <1>5 DEF RefreshMediaList

LEMMA UploadMediaGood ==
    ASSUME Good(rt), UploadPreparedMedia
    PROVE  Good(rt')
<1> DEFINE j == Head(rt.jobs)
           result(r, out) == Report(r, Event("upload", j.op, j.gen, out, NoFiles))
           session == IF Refused(rt, j) THEN {} ELSE Ensured(Dequeued, j.gen)
<1>1. /\ rt.jobs # <<>> /\ j.kind # "start" /\ NoFiles \in [Uids -> FileStates]
      /\ "Cancelled" \in Results /\ "NotStarted" \in Results /\ "PartialOrUnknown" \in Results
      /\ "FinalizationUnknown" \in Results /\ "Succeeded" \in Results
    BY DEF UploadPreparedMedia, NextJob, Results, Outcomes, NoFiles, FileStates
<1>2. CASE rt' = result(Dequeued, "Cancelled")
    BY <1>1, <1>2, WithdrawnGood
<1>3. ASSUME NEW r \in session
      PROVE  Good(r) /\ Taken(r, j) /\ Good(MarkLost(r, j.gen)) /\ Taken(MarkLost(r, j.gen), j)
    BY <1>1, <1>3, SessionGood DEF Dequeued, Onward
<1>4. CASE \E r \in session, out \in Results : rt' = result(MarkLost(r, j.gen), out)
    BY <1>1, <1>3, <1>4, AnswerGood
<1>5. CASE \E r \in session : rt' = result(r, "Succeeded")
    BY <1>1, <1>3, <1>5, AnswerGood
<1> QED BY <1>1, <1>2, <1>4, <1>5 DEF UploadPreparedMedia

LEMMA WorkerGood ==
    ASSUME Good(rt), World, Worker
    PROVE  Good(rt')
BY StartDisplayGood, RefreshMediaGood, UploadMediaGood DEF Worker

LEMMA KeepaliveGood ==
    ASSUME Good(rt), KeepaliveFails
    PROVE  Good(rt')
<1>1. rt' = MarkLost(rt, rt.gate.gen) /\ rt.wk # "Cleared"
    BY DEF KeepaliveFails
<1> QED BY <1>1, MarkLostGood DEF Onward

LEMMA DeliverGood ==
    ASSUME Good(rt), Deliver
    PROVE  Good(rt')
BY HandleGood DEF Deliver

LEMMA EnvironmentGood ==
    ASSUME Good(rt), World, DiscoveryReports \/ ConnectDevice \/ Crash
    PROVE  Good(rt')
<1>1. rt \in Processes
    BY DEF Good
<1>2. CASE DiscoveryReports
    BY <1>2, SnapshotGood DEF DiscoveryReports, World
<1>3. CASE ConnectDevice
    BY <1>3, ConnectGood DEF ConnectDevice
<1>4. CASE Crash
    <2>1. rt.disk \in Snapshot /\ rt.uid \in {0} \cup Uids /\ rt.faults \in 0 .. MaxFaults
        BY <1>1 DEF Processes
    <2>2. Apart(rt.disk) /\ (Fenced(rt.disk) => AllowShadowLoss)
        BY DEF Good, Surface, Records
    <2> QED BY <1>4, <2>1, <2>2, BootGood DEF Crash, World
<1> QED BY <1>2, <1>3, <1>4

-----------------------------------------------------------------------------
(* The clients                                                                *)

\* Nothing is asked about the operations of a session that may be used.
LEMMA StartableIs ==
    ASSUME NEW r, Good(r), MayStart(r)
    PROVE  /\ r \in Processes /\ Rest(r) /\ \A o \in Ops : Free(r, o, r.gen) /\ Over(r, o)
           /\ r.conn \in Devices /\ r.uid + 1 \in Uids /\ r.load = "yes" /\ ~r.fail
           /\ r.snap.infl = None /\ r.disk = r.snap /\ ~r.snap.clean
           /\ (r.snap.cand # None => r.snap.cand \in Candidate /\ ~FinalizationOnly(r.snap.cand))
<1>1. r \in Processes /\ r.act = None /\ ~r.rec /\ r.conn # None /\ ~Restricted(r)
      /\ r.load = "yes" /\ ~r.fail /\ r.uid < MaxUid
    BY DEF Good, MayStart, MutationGate, StartupGate
<1>2. Rest(r)
    BY <1>1, RestTraffic DEF Good
<1>3. \A o \in Ops : Free(r, o, r.gen)
    BY <1>1, <1>2 DEF Rest
<1>4. ~Fenced(r.snap) /\ (r.snap.cand # None => ~FinalizationOnly(r.snap.cand))
    BY <1>1 DEF Restricted
<1>5. r.snap.infl = None /\ r.disk = r.snap /\ ~r.snap.clean
    <2>1. r.snap.infl # None => r.snap.infl \in Dispatch /\ r.snap.infl.op # r.act
        BY <1>1, ProcessParts, SnapshotParts DEF Dispatch
    <2> QED BY <1>1, <1>4, <2>1 DEF Good, Surface, Records, Fenced, FencePhases
<1>6. \A o \in Ops : Over(r, o)
    BY <1>1, <1>4 DEF Good, Surface, Waiting, Waits, Awaited, Over
<1>7. r.snap.cand # None => r.snap.cand \in Candidate
    BY <1>1, ProcessParts, SnapshotParts
<1>8. r.conn \in Devices /\ r.uid + 1 \in Uids
    BY <1>1, ConstantsAssumption DEF Processes, Uids
<1> QED BY <1>1, <1>2, <1>3, <1>4, <1>5, <1>6, <1>7, <1>8

\* An operation is admitted: it is in the foreground, and nothing else changes.
Admitted(x, r, o) ==
    /\ x \in Processes /\ Talk(x, r) /\ Store(x, r) /\ x.act = o
    /\ x.ops[o] \in OpRecord /\ x.ops[o].gen = r.gen /\ Starting(x, x.ops[o])
    /\ x.ops[o].disp \in Uids /\ x.ops[o].name \in Uids
    /\ \A p \in Ops \ {o} : x.ops[p] = r.ops[p]

LEMMA AdmittedSurface ==
    ASSUME NEW r, Good(r), MayStart(r), NEW o \in Ops, r.ops[o] = None, NEW x, Admitted(x, r, o)
    PROVE  Surface(x)
<1>1. /\ r \in Processes /\ \A p \in Ops : Over(r, p)
      /\ r.load = "yes" /\ ~r.fail /\ r.snap.infl = None /\ r.disk = r.snap /\ ~r.snap.clean
      /\ (r.snap.cand # None => r.snap.cand \in Candidate /\ ~FinalizationOnly(r.snap.cand))
    BY StartableIs
<1>2. x.snap = r.snap /\ x.disk = r.disk /\ x.load = r.load /\ x.fail = r.fail /\ x.gen = r.gen
    BY DEF Admitted, Store, Talk
<1>3. o # None /\ x.ops[o] # None /\ ~StartupGate(r) /\ x.ops[o].st \in {"Converting", "Preflight"}
    BY <1>1 DEF Admitted, StartupGate, Starting
<1>4. r.snap.cand # None => /\ r.snap.cand.op \in Ops /\ r.snap.cand.op # o
                            /\ x.ops[r.snap.cand.op] = r.ops[r.snap.cand.op]
    <2>1. r.snap.cand # None => r.snap.cand.op \in Ops /\ r.ops[r.snap.cand.op] # None
        BY <1>1, <1>3 DEF Good, Surface, Shown, Candidate
    <2> QED BY <2>1 DEF Admitted
<1>5. Foreground(x)
    BY <1>1, <1>2, <1>3, <1>4 DEF Foreground, Admitted
<1>6. Waiting(x)
    <2>1. ASSUME NEW p \in Ops, x.ops[p] # None, p # o
          PROVE  x.ops[p].st \in Terminal /\ x.ops[p].st # "Recovering"
        <3>1. x.ops[p] = r.ops[p]
            BY <2>1 DEF Admitted
        <3> QED BY <1>1, <2>1, <3>1 DEF Over, Terminal
    <2> QED BY <1>3, <2>1 DEF Waiting, Admitted
<1>7. Records(x)
    BY <1>1, <1>2 DEF Records, Good, Surface
<1>8. Shown(x)
    <2>1. Shown(r)
        BY DEF Good, Surface
    <2>2. r.snap.cand # None => (LookedTooLate(x, r.snap.cand) <=> LookedTooLate(r, r.snap.cand))
        <3>1. \A p \in Ops : r.ops[p] # None => r.ops[p].st # "Recovering"
            BY <1>1 DEF Over, Terminal
        <3>2. r.snap.cand # None => r.ops[r.snap.cand.op] # None
            BY <1>1, <1>3, <1>4, <2>1 DEF Shown
        <3> QED BY <1>3, <1>4, <3>1, <3>2 DEF LookedTooLate
    <2> QED BY <1>1, <1>2, <1>3, <1>4, <2>1, <2>2 DEF Shown, StartupGate, Fenced
<1>9. Offers(x)
    <2>1. Offers(r)
        BY DEF Good, Surface
    <2> QED BY <1>2, <1>3, <2>1 DEF Offers, Admitted
<1>10. Loading(x)
    BY <1>1, <1>2 DEF Loading
<1> QED BY <1>5, <1>6, <1>7, <1>8, <1>9, <1>10 DEF Surface

LEMMA AdmittedProbed ==
    ASSUME NEW r, Good(r), MayStart(r), NEW o \in Ops, r.ops[o] = None, NEW x, Admitted(x, r, o)
    PROVE  Probed(x, o)
<1>1. r \in Processes /\ Rest(r) /\ \A p \in Ops : Free(r, p, r.gen)
    BY StartableIs
<1>2. Rest(x) /\ x.gen = r.gen /\ x \in Processes /\ x.act = o /\ x.ops[o].gen = x.gen
    BY <1>1, RestTalk DEF Admitted, Talk
<1>3. \A p \in Ops : Free(x, p, x.gen)
    BY <1>1 DEF Admitted, Talk, Free
<1>4. Traffic(x) /\ Calm(x) /\ x.gate.gen = x.gen
    BY <1>2, <1>3, AnsweredTraffic
<1>5. Surface(x) /\ o # None
    BY AdmittedSurface
<1>6. Good(x)
    BY <1>2, <1>4, <1>5 DEF Good
<1> QED BY <1>2, <1>3, <1>5, <1>6 DEF Probed, Admitted

LEMMA QueueGood ==
    ASSUME Good(rt), NEW o \in Ops, QueueUpload(o)
    PROVE  Good(rt')
<1> DEFINE op == NewOp(rt.gen, rt.conn, rt.uid + 1)
           x == [rt EXCEPT !.uid = rt.uid + 1, !.act = o, !.ops = [rt.ops EXCEPT ![o] = op]]
<1>1. rt \in Processes /\ rt.conn \in Devices /\ rt.uid + 1 \in Uids /\ rt.snap.infl = None
      /\ rt.gen \in Nat
    BY StartableIs, ProcessParts DEF QueueUpload
<1>2. /\ op \in OpRecord /\ op.st = "Converting" /\ ~op.sent /\ ~op.finp /\ ~op.retry /\ ~op.pre
      /\ op.name = op.disp /\ op.disp \in Uids /\ op.gen = rt.gen
    BY <1>1 DEF NewOp, OpRecord, OpStates
<1>3. rt' = x
    BY <1>1 DEF QueueUpload, Queued, Processes
<1> HIDE DEF op
<1>4. [rt.ops EXCEPT ![o] = op] \in [Ops -> OpRecord \cup {None}]
    BY <1>1, <1>2 DEF Processes
<1>5. /\ x \in Processes /\ Talk(x, rt) /\ Store(x, rt) /\ x.act = o
      /\ x.ops = [rt.ops EXCEPT ![o] = op]
    BY <1>1, <1>4 DEF Processes, Talk, Store
<1>6. x.ops[o] = op /\ \A p \in Ops \ {o} : x.ops[p] = rt.ops[p]
    BY <1>1, <1>5 DEF Processes
<1> HIDE DEF x
<1>7. Starting(x, op)
    BY <1>1, <1>2, <1>5 DEF Starting, Store
<1>8. Admitted(x, rt, o)
    BY <1>2, <1>5, <1>6, <1>7 DEF Admitted
<1> QED BY <1>3, <1>8, AdmittedProbed DEF QueueUpload, Probed

\* What a retry is made of.
LEMMA RetryIs ==
    ASSUME NEW r, Good(r), MayStart(r), NEW src \in Ops, RetrySourceMatches(r, src)
    PROVE  LET op == RetryOf(r, r.ops[src])
           IN /\ op \in OpRecord /\ op.st = "Preflight" /\ op.retry /\ ~op.sent /\ ~op.finp
              /\ op.pre = HasCatalog(r) /\ op.gen = r.gen /\ op.lin # 0
              /\ op.disp \in Uids /\ op.name \in Uids
<1> DEFINE src0 == r.ops[src]
           fresh == r.snap.cand.fresh
           pre == HasCatalog(r)
           uid == r.uid + 1
           name == IF fresh /\ ~pre THEN uid ELSE src0.name
           op == [src0 EXCEPT !.st = "Preflight", !.retry = TRUE, !.mode = "", !.gen = r.gen,
                              !.dev = r.conn, !.cancel = FALSE, !.chg = FALSE, !.pre = pre,
                              !.sent = FALSE, !.disp = uid, !.fresh = fresh, !.name = name]
<1>1. /\ r \in Processes /\ r.conn \in Devices /\ uid \in Uids /\ r.gen \in Nat
      /\ r.snap.cand # None => r.snap.cand \in Candidate
    BY StartableIs, ProcessParts
<1>2. /\ src0 \in OpRecord /\ src0.st = "RetryAvailable" /\ ~src0.finp /\ fresh \in BOOLEAN
    BY <1>1, ProcessParts DEF RetrySourceMatches, Candidate
<1>3. Known(src0)
    BY <1>2 DEF RetrySourceMatches, Good, Surface, Offers, HasOp
<1>4. pre \in BOOLEAN
    BY DEF HasCatalog
<1>5. RetryOf(r, src0) = op
    BY <1>2 DEF RetryOf, OpRecord
<1> HIDE DEF src0, fresh, pre, uid
<1>6. name \in Uids /\ name \in {0} \cup Uids
    BY <1>1, <1>3 DEF Known
<1> HIDE DEF name
<1>7. op \in OpRecord
    BY <1>1, <1>2, <1>4, <1>6, ZenonT(90) DEF OpRecord, OpStates
<1>8. /\ op.st = "Preflight" /\ op.retry /\ ~op.sent /\ op.finp = src0.finp /\ op.pre = pre
      /\ op.gen = r.gen /\ op.lin = src0.lin /\ op.disp = uid /\ op.name = name
    BY <1>2 DEF OpRecord
<1> HIDE DEF op
<1>9. /\ op \in OpRecord /\ op.st = "Preflight" /\ op.retry /\ ~op.sent /\ ~op.finp
      /\ op.pre = pre /\ op.gen = r.gen /\ op.lin # 0
      /\ op.disp \in Uids /\ op.name \in Uids
    BY <1>1, <1>2, <1>3, <1>6, <1>7, <1>8 DEF Known
<1> QED BY <1>5, <1>9 DEF src0, pre

LEMMA RetryOperationGood ==
    ASSUME Good(rt), NEW src \in Ops, NEW o \in Ops, RetryOperation(src, o)
    PROVE  Good(rt')
<1> DEFINE op == RetryOf(rt, rt.ops[src])
           q == [rt EXCEPT !.ops[o] = op, !.act = o, !.uid = @ + 1]
<1>1. /\ rt.ops[o] = None /\ MayStart(rt) /\ RetrySourceMatches(rt, src)
      /\ rt' \in IF HasCatalog(rt) THEN {Send(q, Job("refresh", o, rt.gen, 0))} ELSE DispatchUpload(q, o)
    BY DEF RetryOperation
<1>2. /\ rt \in Processes /\ rt.uid + 1 \in Uids /\ rt.snap.infl = None /\ rt.gen \in Nat
      /\ Rest(rt) /\ \A p \in Ops : Free(rt, p, rt.gen)
    BY <1>1, StartableIs, ProcessParts
<1>3. /\ op \in OpRecord /\ op.st = "Preflight" /\ op.retry /\ ~op.sent /\ ~op.finp
      /\ op.pre = HasCatalog(rt) /\ op.gen = rt.gen /\ op.lin # 0
      /\ op.disp \in Uids /\ op.name \in Uids
    BY <1>1, RetryIs
<1> DEFINE x == [rt EXCEPT !.uid = rt.uid + 1, !.act = o, !.ops = [rt.ops EXCEPT ![o] = op]]
<1>4. q = x
    BY <1>2 DEF Processes
<1> HIDE DEF op
<1>5. [rt.ops EXCEPT ![o] = op] \in [Ops -> OpRecord \cup {None}]
    BY <1>2, <1>3 DEF Processes
<1>6. /\ x \in Processes /\ Talk(x, rt) /\ Store(x, rt) /\ x.act = o
      /\ x.ops = [rt.ops EXCEPT ![o] = op]
    BY <1>2, <1>5, ZenonT(90) DEF Processes, Talk, Store
<1>7. x.ops[o] = op /\ \A p \in Ops \ {o} : x.ops[p] = rt.ops[p]
    BY <1>2, <1>6 DEF Processes
<1> HIDE DEF x
<1>8. Starting(x, op)
    BY <1>2, <1>3, <1>6 DEF Starting, Store
<1>9. Admitted(x, rt, o)
    BY <1>3, <1>6, <1>7, <1>8 DEF Admitted
<1>10. CASE ~HasCatalog(rt)
    <2>1. Probed(x, o)
        BY <1>1, <1>9, AdmittedProbed
    <2>2. Started(x, o)
        BY <1>3, <1>7, <1>10, <2>1 DEF Probed, Started
    <2> QED BY <1>1, <1>4, <1>10, <2>2, DispatchGood
<1>11. CASE HasCatalog(rt)
    <2> DEFINE j == Job("refresh", o, rt.gen, 0)
               y == Send(x, j)
    <2>1. j \in Jobs /\ Asks(j, o, rt.gen) /\ j.kind # "upload"
        BY <1>2 DEF Job, Jobs, Asks
    <2> HIDE DEF j
    <2>2. /\ y \in Processes /\ Store(y, x) /\ y.ops = x.ops /\ y.act = x.act
          /\ y.jobs = Append(x.jobs, j) /\ y.evts = x.evts /\ y.gen = x.gen
          /\ y.conn = x.conn /\ y.wk = x.wk /\ y.rec = x.rec /\ y.gate = x.gate
        BY <1>6, <2>1, SendIs
    <2> HIDE DEF y
    <2>3. /\ y.jobs = Append(rt.jobs, j) /\ y.evts = rt.evts /\ y.gen = rt.gen
          /\ y.conn = rt.conn /\ y.wk = rt.wk /\ y.rec = rt.rec /\ y.act = o /\ y.gate = rt.gate
          /\ y.ops[o].gen = rt.gen /\ y.ops[o].st = "Preflight"
        BY <1>3, <1>6, <1>7, <2>2 DEF Talk
    <2>4. Traffic(y) /\ Calm(y)
        BY <1>2, <2>1, <2>2, <2>3, AskedTraffic
    <2>5. Surface(y)
        <3>1. Surface(x) /\ x.load = "yes"
            BY <1>1, <1>6, <1>9, AdmittedSurface, StartableIs DEF Store
        <3> QED BY <2>2, <3>1, SameSurface DEF Store
    <2>6. y.gate.gen = y.gen
        BY <2>3 DEF Good
    <2>7. Good(y)
        BY <2>2, <2>4, <2>5, <2>6 DEF Good
    <2> QED BY <1>1, <1>4, <1>11, <2>7 DEF y, j
<1> QED BY <1>10, <1>11

\* Nothing changes for the operation in the foreground.
LEMMA TrafficStays ==
    ASSUME NEW r, Good(r), NEW q \in Processes, Talk(q, r), q.act = r.act,
           q.act # None => q.ops[q.act] = r.ops[q.act]
    PROVE  Traffic(q) /\ Calm(q) /\ q.gate.gen = q.gen
<1>1. Queues(q) /\ Sessions(q) /\ q.gate.gen = q.gen
    BY DEF Queues, Sessions, Talk, Good, Traffic
<1>2. \A o, g : Free(r, o, g) => Free(q, o, g)
    BY DEF Free, Talk
<1>3. Spent(r) => Spent(q)
    BY DEF Spent, Talk
<1>4. Strays(q)
    BY <1>2, <1>3 DEF Strays, Talk, Good, Traffic
<1>5. \A o, g : Sole(r, o, g) => Sole(q, o, g)
    BY DEF Sole, Talk
<1>6. Question(q)
    BY <1>2, <1>5 DEF Question, Talk, Good, Traffic
<1>7. Transfers(q)
    <2>1. Transfers(r) /\ q.jobs = r.jobs
        BY DEF Good, Traffic, Talk
    <2>2. ASSUME NEW i \in DOMAIN q.jobs, q.jobs[i].kind = "upload"
          PROVE  q.act # None
        <3>1. q.jobs[i].op = q.act
            BY <2>1, <2>2 DEF Transfers
        <3>2. q.jobs[i].op \in Ops
            BY <2>1, <2>2 DEF Good, Traffic, Queues
        <3> QED BY <3>1, <3>2
    <2> QED BY <2>1, <2>2 DEF Transfers
<1>8. Calm(q)
    BY <1>2, <1>3 DEF Calm, Talk, Good
<1> QED BY <1>1, <1>4, <1>6, <1>7, <1>8 DEF Traffic

\* An operation that is over, and not that of a record, appears or stays over.
LEMMA DroppedGood ==
    ASSUME NEW r, Good(r), NEW o \in Ops, o # r.act,
           NEW q \in Processes, Talk(q, r), Store(q, r), q.act = r.act,
           \A p \in Ops \ {o} : q.ops[p] = r.ops[p],
           q.ops[o] # None, q.ops[o].st \in Dropped,
           r.load # "yes" => q.ops[o].st = "Failed" /\ q.ops[o].lin = 0,
           ~StartupGate(r) => r.ops[o] = None
    PROVE  Good(q)
<1>1. q.snap = r.snap /\ q.disk = r.disk /\ q.load = r.load /\ q.fail = r.fail /\ q.gen = r.gen /\ q.rec = r.rec
    BY DEF Store, Talk
<1>2. r \in Processes /\ Surface(r) /\ r.act \in Ops \cup {None}
    BY ProcessParts DEF Good
<1>3. q.act # None => q.act \in Ops /\ q.ops[q.act] = r.ops[q.act]
    BY <1>2
<1>4. Foreground(q)
    BY <1>1, <1>3, <1>2 DEF Surface, Foreground, Starting, Sending
<1>5. Waiting(q)
    <2>1. ASSUME NEW p \in Ops, q.ops[p] # None
          PROVE  /\ q.ops[p].st \in Terminal \cup {"Recovering"} \/ p = q.act
                 /\ q.ops[p].st = "Recovering" =>
                       Waits(q.snap, p, q.ops[p]) \/ (p = q.act /\ Resolved(q, p, q.ops[p]))
        <3>1. CASE p = o
            BY <3>1 DEF Dropped, Terminal
        <3>2. CASE p # o
            <4>1. q.ops[p] = r.ops[p] /\ (Resolved(r, p, r.ops[p]) => Resolved(q, p, q.ops[p]))
                BY <1>1, <3>2 DEF Resolved
            <4> QED BY <1>1, <1>2, <2>1, <4>1 DEF Surface, Waiting
        <3> QED BY <3>1, <3>2
    <2> QED BY <2>1 DEF Waiting
<1>6. Records(q)
    BY <1>1, <1>2 DEF Surface, Records
<1>7. Offers(q)
    <2>1. "RetryAvailable" \notin Dropped
        BY DEF Dropped
    <2> QED BY <1>1, <1>2, <2>1 DEF Surface, Offers
<1>8. Loading(q)
    BY <1>1, <1>2 DEF Surface, Loading
<1>9. Shown(q)
    <2> SUFFICES ASSUME ~StartupGate(r)
                 PROVE  Shown(q)
        BY <1>1 DEF Shown, StartupGate
    <2>1. Shown(r)
        BY <1>2 DEF Surface
    <2>2. /\ r.snap.cand # None => r.snap.cand.op \in Ops
          /\ r.snap.infl # None => r.snap.infl.op \in Ops
        BY <1>2, ProcessParts, SnapshotParts DEF Candidate, Dispatch
    <2>3. Fenced(r.snap) => r.snap.infl.op # o /\ q.ops[r.snap.infl.op] = r.ops[r.snap.infl.op]
        BY <2>1, <2>2 DEF Shown, Fenced
    <2>4. r.snap.cand # None /\ r.snap.infl = None =>
             /\ r.snap.cand.op # o /\ q.ops[r.snap.cand.op] = r.ops[r.snap.cand.op]
             /\ LookedTooLate(r, r.snap.cand) => LookedTooLate(q, r.snap.cand)
        BY <2>1, <2>2 DEF Shown, LookedTooLate
    <2> QED BY <1>1, <2>1, <2>3, <2>4 DEF Shown, Fenced
<1>10. Traffic(q) /\ Calm(q) /\ q.gate.gen = q.gen
    BY <1>3, TrafficStays
<1> QED BY <1>4, <1>5, <1>6, <1>7, <1>8, <1>9, <1>10 DEF Good, Surface

LEMMA RejectGood ==
    ASSUME Good(rt), NEW o \in Ops, RejectOperation(o)
    PROVE  Good(rt')
<1> DEFINE op == RejectedOp(rt.gen)
           q == [rt EXCEPT !.ops[o] = op]
<1>1. rt \in Processes /\ rt.gen \in Nat /\ rt.ops[o] = None /\ rt' = q
    BY ProcessParts DEF RejectOperation, Good
<1>2. op \in OpRecord /\ op.st = "Failed" /\ op.lin = 0
    BY <1>1 DEF RejectedOp, NewOp, OpRecord, OpStates, Terminal
<1> HIDE DEF op
<1>3. /\ q \in Processes /\ Talk(q, rt) /\ Store(q, rt) /\ q.act = rt.act
      /\ q.ops[o] = op /\ \A p \in Ops \ {o} : q.ops[p] = rt.ops[p]
    BY <1>1, <1>2, SetIs
<1> HIDE DEF q
<1>4. o # rt.act
    <2>1. rt.act # None => rt.ops[rt.act] # None
        BY DEF Good, Surface, Foreground
    <2> QED BY <1>1, <2>1
<1>5. q.ops[o] # None /\ q.ops[o].st \in Dropped
    BY <1>2, <1>3 DEF Dropped
<1> QED BY <1>1, <1>2, <1>3, <1>4, <1>5, DroppedGood

\* A conversion ends, or is cancelled.
LEMMA ConvertingEnds ==
    ASSUME NEW r, Good(r), NEW o, o = r.act, o # None, r.ops[o].st = "Converting", NEW st \in Dropped
    PROVE  Good(Finish(r, o, st, ""))
<1> DEFINE q == Finish(r, o, st, "")
<1>1. /\ r \in Processes /\ o \in Ops /\ r.ops[o] # None /\ r.ops[o].st \notin Terminal
      /\ r.snap.infl = None
    BY ProcessParts DEF Good, Surface, Foreground, Starting, Sending, Terminal
<1>2. st \in OpStates /\ "" \in Modes
    BY DEF Dropped, OpStates, Terminal, Modes
<1>3. EndsAs(q, r, o, st)
    BY <1>1, <1>2, FinishEnds
<1> HIDE DEF q
<1>4. Rest(r)
    <2>1. Free(r, r.act, r.ops[r.act].gen)
        BY DEF Good, Traffic, Question
    <2> QED BY <2>1, AnsweredRest
<1>5. Rest(q) /\ q.act = None /\ q.ops[r.act] # None /\ q.ops[r.act].st \in Dropped
    BY <1>3, <1>4, RestTalk DEF EndsAs
<1>6. q \in Processes /\ Store(q, r) /\ \A p \in Ops \ {r.act} : q.ops[p] = r.ops[p]
    BY <1>3 DEF EndsAs
<1>7. Good(q)
    BY <1>1, <1>5, <1>6, EndedGood
<1> QED BY <1>7 DEF q

LEMMA CancelGood ==
    ASSUME Good(rt), NEW o \in Ops, CancelOperation(o)
    PROVE  Good(rt')
<1>1. rt \in Processes /\ o # None /\ rt.act = o /\ rt.ops[o] # None /\ rt.ops[o] \in OpRecord
    BY ProcessParts DEF Good, CancelOperation, HasOp
<1>2. CASE rt.ops[o].st = "Converting"
    <2>1. "Cancelled" \in Dropped
        BY DEF Dropped
    <2> QED BY <1>1, <1>2, <2>1, ConvertingEnds DEF CancelOperation
<1>3. CASE rt.ops[o].st # "Converting"
    <2> DEFINE op == [rt.ops[o] EXCEPT !.cancel = TRUE]
               q == [rt EXCEPT !.ops[o] = op]
    <2>1. rt' = q
        BY <1>1, <1>3 DEF CancelOperation, Processes
    <2>2. /\ op \in OpRecord /\ op.st = rt.ops[o].st /\ op.retry = rt.ops[o].retry
          /\ op.pre = rt.ops[o].pre /\ op.chg = rt.ops[o].chg /\ op.finp = rt.ops[o].finp
          /\ op.sent = rt.ops[o].sent /\ op.gen = rt.ops[o].gen /\ op.name = rt.ops[o].name
          /\ op.disp = rt.ops[o].disp /\ op.lin = rt.ops[o].lin /\ op.dev = rt.ops[o].dev
        BY <1>1 DEF OpRecord
    <2> HIDE DEF op
    <2>3. /\ q \in Processes /\ Talk(q, rt) /\ Store(q, rt) /\ q.act = rt.act
          /\ q.ops[o] = op /\ \A p \in Ops \ {o} : q.ops[p] = rt.ops[p]
        BY <1>1, <2>2, SetIs
    <2> HIDE DEF q
    <2>4. /\ q.snap = rt.snap /\ q.disk = rt.disk /\ q.load = rt.load /\ q.fail = rt.fail
          /\ q.gen = rt.gen /\ q.rec = rt.rec /\ op # None /\ q.act = o
        BY <1>1, <2>2, <2>3 DEF Store, Talk
    <2>5. Surface(rt) /\ rt.load = "yes" /\ \A p \in Ops \ {o} : Over(rt, p)
        BY <1>1, OneWaits DEF Good, Surface, Loading
    <2>6. Foreground(q)
        <3>1. Starting(rt, rt.ops[o]) => Starting(q, op)
            BY <2>2, <2>4 DEF Starting
        <3>2. Sending(rt, rt.ops[o]) => Sending(q, op)
            BY <1>1, <2>2, <2>4 DEF Sending, IsOf
        <3>3. Foreground(rt)
            BY <2>5 DEF Surface
        <3> QED BY <1>1, <2>2, <2>3, <2>4, <3>1, <3>2, <3>3 DEF Foreground
    <2>7. Waiting(q)
        <3>1. rt.ops[o].st = "Recovering" => Waits(rt.snap, o, rt.ops[o]) \/ Resolved(rt, o, rt.ops[o])
            BY <1>1, <2>5 DEF Surface, Waiting
        <3>2. Waits(rt.snap, o, rt.ops[o]) => Waits(q.snap, o, op)
            BY <2>2, <2>4 DEF Waits, IsOf
        <3>3. Resolved(rt, o, rt.ops[o]) => Resolved(q, o, op)
            BY <2>2, <2>4 DEF Resolved
        <3>4. \A p \in Ops \ {o} : q.ops[p] # None => q.ops[p].st \in Terminal /\ q.ops[p].st # "Recovering"
            BY <2>3, <2>5 DEF Over, Terminal
        <3>5. \A p \in Ops : p # o => p \in Ops \ {o}
            OBVIOUS
        <3> QED BY <2>2, <2>3, <2>4, <3>1, <3>2, <3>3, <3>4, <3>5 DEF Waiting
    <2>8. Records(q) /\ Loading(q)
        BY <1>1, <2>4, <2>5 DEF Surface, Records, Loading
    <2>9. Offers(q)
        <3>1. Offers(rt)
            BY <2>5 DEF Surface
        <3>2. \A p \in Ops : q.ops[p] # None =>
                 /\ rt.ops[p] # None /\ q.ops[p].st = rt.ops[p].st /\ q.ops[p].retry = rt.ops[p].retry
                 /\ Known(rt.ops[p]) => Known(q.ops[p])
            BY <1>1, <2>2, <2>3 DEF Known
        <3> QED BY <2>4, <3>1, <3>2 DEF Offers
    <2>10. Shown(q)
        <3>1. \A p \in Ops : /\ rt.ops[p] # None => q.ops[p] # None
                             /\ q.ops[p].st = rt.ops[p].st /\ q.ops[p].chg = rt.ops[p].chg
            BY <2>2, <2>3, <2>4
        <3>2. /\ rt.snap.cand # None => rt.snap.cand.op \in Ops
              /\ rt.snap.infl # None => rt.snap.infl.op \in Ops
            BY <1>1, ProcessParts, SnapshotParts DEF Candidate, Dispatch
        <3>3. Shown(rt)
            BY <2>5 DEF Surface
        <3>4. rt.snap.cand # None => (LookedTooLate(q, rt.snap.cand) <=> LookedTooLate(rt, rt.snap.cand))
            BY <2>3, <3>1, <3>2 DEF LookedTooLate
        <3> QED BY <2>4, <3>1, <3>2, <3>3, <3>4 DEF Shown, StartupGate, Fenced
    <2>11. Queues(q) /\ Sessions(q) /\ q.gate.gen = q.gen
        BY <2>3 DEF Queues, Sessions, Talk, Good, Traffic
    <2>12. /\ \A p, g : Free(rt, p, g) => Free(q, p, g)
           /\ \A p, g : Sole(rt, p, g) => Sole(q, p, g)
           /\ Spent(rt) => Spent(q)
        BY <2>3 DEF Free, Sole, Spent, Talk
    <2>13. Strays(q)
        BY <2>3, <2>4, <2>12 DEF Strays, Good, Traffic
    <2>14. Question(q)
        BY <1>1, <2>2, <2>3, <2>4, <2>12 DEF Question, Good, Traffic
    <2>15. Transfers(q)
        BY <1>1, <2>2, <2>3, <2>4 DEF Transfers, Good, Traffic, Talk
    <2>16. Calm(q)
        BY <1>1, <2>2, <2>3, <2>4, <2>12 DEF Calm, Good
    <2>17. Good(q)
        BY <2>3, <2>6, <2>7, <2>8, <2>9, <2>10, <2>11, <2>13, <2>14, <2>15, <2>16
           DEF Good, Surface, Traffic
    <2> QED BY <2>1, <2>17
<1> QED BY <1>2, <1>3

LEMMA PreparationGood ==
    ASSUME Good(rt), NEW o \in Ops, PreparationEnds(o)
    PROVE  Good(rt')
<1>1. rt \in Processes /\ o # None /\ rt.act = o /\ rt.ops[o] # None /\ rt.ops[o] \in OpRecord
      /\ rt.ops[o].st = "Converting"
    BY ProcessParts DEF Good, PreparationEnds, HasOp
<1>2. CASE rt' = Finish(rt, o, "Failed", "")
    <2>1. "Failed" \in Dropped
        BY DEF Dropped
    <2> QED BY <1>1, <1>2, <2>1, ConvertingEnds
<1>3. CASE rt' \in DispatchUpload([rt EXCEPT !.ops[o].st = "Preflight"], o)
    <2> DEFINE op == [rt.ops[o] EXCEPT !.st = "Preflight"]
    <2>1. [rt EXCEPT !.ops[o].st = "Preflight"] = [rt EXCEPT !.ops[o] = op]
        BY <1>1 DEF Processes
    <2>2. /\ op \in OpRecord /\ op.st = "Preflight" /\ op.retry = rt.ops[o].retry
          /\ op.pre = rt.ops[o].pre /\ op.finp = rt.ops[o].finp
          /\ op.sent = rt.ops[o].sent /\ op.gen = rt.ops[o].gen /\ op.name = rt.ops[o].name
          /\ op.disp = rt.ops[o].disp
        BY <1>1 DEF OpRecord, OpStates
    <2>3. Starting(rt, rt.ops[o]) /\ rt.ops[o].disp \in Uids /\ rt.ops[o].name \in Uids
        BY <1>1 DEF Good, Surface, Foreground, Sending
    <2>4. Free(rt, o, rt.ops[o].gen)
        BY <1>1 DEF Good, Traffic, Question
    <2>5. Probed(rt, o)
        BY <1>1, <2>3, <2>4 DEF Probed
    <2> HIDE DEF op
    <2>6. Starting(rt, op) /\ ~op.pre
        BY <1>1, <2>2, <2>3 DEF Starting
    <2>7. Started([rt EXCEPT !.ops[o] = op], o)
        BY <2>2, <2>3, <2>5, <2>6, ProbedStarts
    <2> QED BY <1>3, <2>1, <2>7, DispatchGood
<1> QED BY <1>2, <1>3 DEF PreparationEnds

\* What a process is while a retry may be given up.
LEMMA GivenUpIs ==
    ASSUME NEW r, Good(r), NEW o \in Ops, o # r.act, r.ops[o].st = "RetryAvailable",
           CanClearCandidate(r.snap), r.snap.cand.op = o
    PROVE  /\ r \in Processes /\ Surface(r) /\ r.load = "yes" /\ r.snap \in Snapshot
           /\ r.act # None => r.act \in Ops /\ Starting(r, r.ops[r.act])
           /\ \A p \in Ops : p # r.act => Over(r, p)
           /\ r.snap.cand # None /\ r.snap.infl = None /\ ~r.snap.clean
           /\ LET s == ClearCandidate(r.snap)
              IN s \in Snapshot /\ s.cand = None /\ s.infl = None /\ ~s.clean
<1>1. /\ r \in Processes /\ Surface(r) /\ r.snap.cand # None /\ r.snap.infl = None /\ ~r.snap.clean
      /\ r.snap \in Snapshot /\ r.act \in Ops \cup {None}
    BY ProcessParts DEF Good, CanClearCandidate
<1>2. r.load = "yes"
    BY <1>1 DEF Surface, Loading, EmptySnapshot
<1>3. \A p \in Ops : Awaited(r.snap, p) => p = o
    BY <1>1 DEF Awaited, Fenced
<1>4. \A p \in Ops : r.ops[p] # None /\ r.ops[p].st = "Recovering" => FALSE
    <2> SUFFICES ASSUME NEW p \in Ops, r.ops[p] # None, r.ops[p].st = "Recovering"
                 PROVE  p = o
        OBVIOUS
    <2> QED BY <1>1, <1>3 DEF Surface, Waiting, Waits, Resolved
<1>5. \A p \in Ops : p # r.act => Over(r, p)
    BY <1>1, <1>4 DEF Surface, Waiting, Over
<1>6. r.act # None => Starting(r, r.ops[r.act])
    BY <1>1, <1>4 DEF Surface, Foreground, Sending
<1>7. LET s == ClearCandidate(r.snap)
      IN s \in Snapshot /\ s.cand = None /\ s.infl = None /\ ~s.clean
    <2>1. ClearCandidate(r.snap) \in Snapshot
        BY <1>1, RetirementsStay
    <2>2. ClearCandidate(r.snap) = [r.snap EXCEPT !.cand = None]
        BY DEF ClearCandidate
    <2> QED BY <1>1, <2>1, <2>2, SnapshotParts
<1> QED BY <1>1, <1>2, <1>5, <1>6, <1>7

\* Without records the operation that starts is the only one to be shown.
LEMMA GoneGood ==
    ASSUME NEW r, Good(r), r.load = "yes", r.act # None => r.act \in Ops /\ Starting(r, r.ops[r.act]),
           \A p \in Ops : p # r.act => Over(r, p),
           NEW x \in Processes, Talk(x, r), x.act = r.act, x.load = "yes",
           r.act # None => x.ops[r.act] = r.ops[r.act],
           \A p \in Ops : p # r.act => Over(x, p),
           x.snap.cand = None, x.snap.infl = None, x.snap.clean => x.fail, x.disk = x.snap,
           ~x.fail => \A p \in Ops : p # r.act /\ x.ops[p] # None => x.ops[p].st # "RetryAvailable",
           \A p \in Ops : x.ops[p] # None /\ x.ops[p].st = "RetryAvailable" => Known(x.ops[p]),
           x.fail => x.snap.clean
    PROVE  Good(x)
<1>1. r.act # None => r.ops[r.act].st \in {"Converting", "Preflight"} /\ Starting(x, x.ops[x.act])
    BY DEF Starting
<1>2. Foreground(x)
    BY <1>1 DEF Foreground, Good, Surface
<1>3. Waiting(x)
    BY <1>1 DEF Waiting, Over, Terminal
<1>4. Records(x)
    BY DEF Records, Apart, Fenced
<1>5. Shown(x) /\ Loading(x)
    BY DEF Shown, Loading, Fenced
<1>6. Offers(x)
    <2> SUFFICES ASSUME NEW p \in Ops, x.ops[p] # None, x.ops[p].st = "RetryAvailable"
                 PROVE  Known(x.ops[p]) /\ x.fail /\ x.snap.clean /\ x.snap.cand = None
        BY DEF Offers
    <2>1. p # r.act
        BY <1>1
    <2> QED BY <2>1
<1>7. Traffic(x) /\ Calm(x) /\ x.gate.gen = x.gen
    BY TrafficStays
<1> QED BY <1>2, <1>3, <1>4, <1>5, <1>6, <1>7 DEF Good, Surface

\* The candidate is cleared.
LEMMA ClearedGood ==
    ASSUME NEW r, Good(r), NEW o \in Ops, o # r.act, r.ops[o] # None, r.ops[o].st = "RetryAvailable",
           CanClearCandidate(r.snap), r.snap.cand.op = o,
           NEW w \in WriteRetiring(r, ClearCandidate(r.snap)), w.ok
    PROVE  Good(Sync(w.r))
<1> DEFINE m == w.r
           s == Sync(m)
<1>1. /\ r \in Processes /\ Surface(r) /\ r.load = "yes" /\ r.snap \in Snapshot
      /\ r.act # None => r.act \in Ops /\ Starting(r, r.ops[r.act])
      /\ \A p \in Ops : p # r.act => Over(r, p)
      /\ LET t == ClearCandidate(r.snap)
         IN t \in Snapshot /\ t.cand = None /\ t.infl = None /\ ~t.clean
    BY GivenUpIs
<1>2. /\ m \in Processes /\ Talk(m, r) /\ m.ops = r.ops /\ m.act = r.act /\ m.load = "yes" /\ ~m.fail
      /\ m.snap = ClearCandidate(r.snap) /\ m.disk = m.snap
    <2>1. ClearCandidate(r.snap) \in Snapshot
        BY <1>1
    <2>2. Retired(w, r, ClearCandidate(r.snap))
        BY <1>1, <2>1, WriteRetiringIs
    <2> QED BY <1>1, <2>2 DEF Retired
<1> HIDE DEF m
<1>10. m.snap.cand = None /\ m.snap.infl = None /\ ~m.snap.clean
    BY <1>1, <1>2
<1>3. /\ s \in Processes /\ Talk(s, m) /\ Store(s, m) /\ s.act = m.act
      /\ \A p \in Ops : /\ s.ops[p] \in {None, m.ops[p]}
                        /\ p = m.act => s.ops[p] = m.ops[p]
                        /\ p # m.act /\ m.ops[p] # None /\ m.ops[p].st = "RetryAvailable"
                           /\ m.ops[p].lin # 0 => s.ops[p] = None
    BY <1>2, <1>10, SyncIs
<1> HIDE DEF s
<1>4. \A p \in Ops : r.ops[p] # None /\ r.ops[p].st = "RetryAvailable" => r.ops[p].lin # 0
    BY <1>1 DEF Surface, Offers, Known
<1>5. \A p \in Ops : p # r.act /\ s.ops[p] # None => s.ops[p].st # "RetryAvailable"
    BY <1>2, <1>3, <1>4
<1>6. \A p \in Ops : p # r.act => Over(s, p)
    BY <1>1, <1>2, <1>3 DEF Over
<1>7. \A p \in Ops : s.ops[p] # None /\ s.ops[p].st = "RetryAvailable" => Known(s.ops[p])
    BY <1>1, <1>2, <1>3 DEF Surface, Offers
<1>8. /\ s.load = "yes" /\ ~s.fail /\ s.snap.cand = None /\ s.snap.infl = None /\ s.disk = s.snap
      /\ ~s.snap.clean /\ s.act = r.act /\ Talk(s, r)
      /\ r.act # None => s.ops[r.act] = r.ops[r.act]
    BY <1>1, <1>2, <1>3, <1>10 DEF Store, Talk
<1>9. Good(s)
    BY <1>1, <1>3, <1>5, <1>6, <1>7, <1>8, GoneGood
<1> QED BY <1>9 DEF s, m

\* The store fails, and everything else is as it was.
LEMMA StoreFailsGood ==
    ASSUME NEW r, Good(r), r.act # None => ~Sending(r, r.ops[r.act]),
           NEW b \in Processes, Talk(b, r), b.ops = r.ops, b.act = r.act, b.load = "yes", b.fail,
           b.snap = r.snap, Apart(b.disk), Fenced(b.disk) => AllowShadowLoss
    PROVE  Good(b)
<1>1. Surface(b)
    BY FailedSurface DEF Good, Talk
<1>2. Traffic(b) /\ Calm(b) /\ b.gate.gen = b.gen
    BY TrafficStays
<1> QED BY <1>1, <1>2 DEF Good

LEMMA DiscardGood ==
    ASSUME Good(rt), NEW o \in Ops, DiscardRetry(o)
    PROVE  Good(rt')
<1> DEFINE s == ClearCandidate(rt.snap)
           bad(b) == IF RetiredIntoCleanup(b.snap) /\ b.snap.cand = None
                     THEN {[b EXCEPT !.ops[o] = [@ EXCEPT !.st = "Cancelled", !.mode = ""]]}
                     ELSE {b}
<1>1. /\ rt.ops[o] # None /\ rt.ops[o].st = "RetryAvailable" /\ rt.act # o
      /\ CanClearCandidate(rt.snap) /\ rt.snap.cand.op = o
    BY DEF DiscardRetry, HasOp
<1>2. /\ rt \in Processes /\ Surface(rt) /\ rt.load = "yes" /\ rt.snap \in Snapshot
      /\ rt.act # None => rt.act \in Ops /\ Starting(rt, rt.ops[rt.act])
      /\ \A p \in Ops : p # rt.act => Over(rt, p)
      /\ rt.snap.cand # None /\ rt.snap.infl = None /\ ~rt.snap.clean
      /\ s \in Snapshot /\ s.cand = None /\ s.infl = None /\ ~s.clean
    BY <1>1, GivenUpIs
<1>3. PICK w \in WriteRetiring(rt, s) : rt' \in IF w.ok THEN {Sync(w.r)} ELSE bad(w.r)
    BY DEF DiscardRetry, MutateRetiring, After
<1>4. CASE w.ok
    BY <1>1, <1>3, <1>4, ClearedGood
<1>5. CASE ~w.ok
    <2> DEFINE b == w.r
    <2>1. /\ b \in Processes /\ Talk(b, rt) /\ b.ops = rt.ops /\ b.act = rt.act /\ b.load = "yes" /\ b.fail
          /\ \/ b.snap = rt.snap /\ b.disk \in {rt.disk, s}
             \/ /\ ~rt.fail /\ b.snap = [s EXCEPT !.clean = TRUE]
                /\ b.disk = [s EXCEPT !.clean = TRUE]
        BY <1>2, <1>5, WriteRetiringIs DEF Retired
    <2>2. rt' \in bad(b)
        BY <1>3, <1>5
    <2> HIDE DEF b, s
    <2>3. CASE b.snap = rt.snap /\ b.disk \in {rt.disk, s}
        <3>1. rt' = b
            BY <1>2, <2>2, <2>3
        <3>2. Apart(b.disk) /\ (Fenced(b.disk) => AllowShadowLoss)
            BY <1>2, <2>3 DEF Surface, Records, Apart, Fenced
        <3>3. rt.act # None => ~Sending(rt, rt.ops[rt.act])
            BY <1>2 DEF Sending
        <3> QED BY <2>1, <2>3, <3>1, <3>2, <3>3, StoreFailsGood
    <2>4. CASE b.snap = [s EXCEPT !.clean = TRUE] /\ b.disk = [s EXCEPT !.clean = TRUE]
        <3> DEFINE op == [rt.ops[o] EXCEPT !.st = "Cancelled", !.mode = ""]
                   x == [b EXCEPT !.ops[o] = op]
        <3>1. b.snap.cand = None /\ b.snap.infl = None /\ b.snap.clean /\ b.disk = b.snap
            BY <1>2, <2>4, SnapshotParts
        <3>2. rt' = x
            BY <2>1, <2>2, <3>1 DEF RetiredIntoCleanup, Processes
        <3>3. op \in OpRecord /\ op.st = "Cancelled"
            <4>1. rt.ops[o] \in OpRecord
                BY <1>1, <1>2, ProcessParts
            <4> QED BY <4>1 DEF OpRecord, OpStates, Terminal
        <3> HIDE DEF op
        <3>4. /\ x \in Processes /\ Talk(x, b) /\ Store(x, b) /\ x.act = b.act
              /\ x.ops[o] = op /\ \A p \in Ops \ {o} : x.ops[p] = b.ops[p]
            BY <2>1, <3>3, SetIs
        <3> HIDE DEF x
        <3>5. /\ Talk(x, rt) /\ x.act = rt.act /\ x.load = "yes" /\ x.fail /\ x.snap = b.snap /\ x.disk = b.snap
            BY <2>1, <3>1, <3>4 DEF Talk, Store
        <3>6. rt.act # None => x.ops[rt.act] = rt.ops[rt.act]
            BY <1>1, <1>2, <2>1, <3>4
        <3>7. \A p \in Ops : p # rt.act => Over(x, p)
            BY <1>2, <2>1, <3>3, <3>4 DEF Over, Terminal
        <3>8. \A p \in Ops : x.ops[p] # None /\ x.ops[p].st = "RetryAvailable" => Known(x.ops[p])
            BY <1>2, <2>1, <3>3, <3>4 DEF Surface, Offers
        <3>9. Good(x)
            BY <1>2, <3>1, <3>4, <3>5, <3>6, <3>7, <3>8, GoneGood
        <3> QED BY <3>2, <3>9
    <2> QED BY <2>1, <2>3, <2>4
<1> QED BY <1>4, <1>5

-----------------------------------------------------------------------------
(* The invariant                                                              *)

\* What the transfers of a job change keeps its type.
LEMMA TransferStays ==
    ASSUME Good(rt), World, NextJob("upload"), rt.conn \in Devices, NEW out, Transfer(out)
    PROVE  /\ remote' \in [Devices -> [Uids -> FileStates]]
           /\ tries' \in [Devices -> [Uids -> {"never", "open", "done"}]]
           /\ taint' \subseteq Devices /\ stored' \subseteq Devices \X Uids
<1> DEFINE j == Head(rt.jobs)
<1>1. rt \in Processes /\ rt.jobs \in Seq(Jobs) /\ rt.jobs # <<>>
    BY ProcessParts DEF Good, NextJob
<1>2. 1 \in DOMAIN rt.jobs /\ j = rt.jobs[1] /\ j.kind = "upload"
    BY <1>1, HeadTailProperties, LenProperties DEF NextJob
<1>3. rt.jobs[1].op = rt.act /\ rt.jobs[1].name = rt.ops[rt.act].name /\ rt.jobs[1].op \in Ops
    BY <1>2 DEF Good, Traffic, Transfers, Queues
<1>4. j.name \in Uids
    BY <1>2, <1>3 DEF Good, Surface, Foreground
<1> DEFINE n == j.name
           d == rt.conn
<1>5. PICK f \in FileStates :
        /\ remote' = [remote EXCEPT ![d][n] = f]
        /\ stored' = IF f = "exact" THEN stored \cup {<<d, n>>} ELSE stored
        /\ taint' = IF Reachable /\ out # "Succeeded" /\ f # "exact" THEN taint \cup {d} ELSE taint
        /\ tries' = [tries EXCEPT ![d][n] = IF out = "Succeeded" THEN "done" ELSE "open"]
    BY DEF Transfer, FileStates
<1> HIDE DEF n, d
<1>6. d \in Devices /\ n \in Uids
    BY <1>4 DEF n, d
<1>7. remote' \in [Devices -> [Uids -> FileStates]]
    BY <1>5, <1>6 DEF World
<1>8. tries' \in [Devices -> [Uids -> {"never", "open", "done"}]]
    BY <1>5, <1>6 DEF World
<1> QED BY <1>5, <1>6, <1>7, <1>8 DEF World

LEMMA WorkerStays ==
    ASSUME Good(rt), World, Worker
    PROVE  World'
<1>1. CASE StartDisplaySession
    BY <1>1 DEF StartDisplaySession, World, world
<1>2. CASE RefreshMediaList
    <2>1. /\ UNCHANGED <<plugged, removed, remote, taint, stored, discarded>>
          /\ \/ UNCHANGED tries
             \/ tries' = [tries EXCEPT ![plugged] = [n \in Uids |->
                    IF remote[plugged][n] = "exact" THEN "done" ELSE tries[plugged][n]]]
        BY <1>2 DEF RefreshMediaList
    <2>2. CASE UNCHANGED tries
        BY <2>1, <2>2 DEF World
    <2>3. CASE tries' = [tries EXCEPT ![plugged] = [n \in Uids |->
                    IF remote[plugged][n] = "exact" THEN "done" ELSE tries[plugged][n]]]
        <3>1. CASE plugged = None
            <4>1. tries' = tries
                BY <2>3, <3>1 DEF World
            <4> QED BY <2>1, <4>1 DEF World
        <3>2. CASE plugged \in Devices
            <4> DEFINE row == [n \in Uids |-> IF remote[plugged][n] = "exact" THEN "done" ELSE tries[plugged][n]]
            <4>1. row \in [Uids -> {"never", "open", "done"}]
                BY <3>2 DEF World
            <4>2. tries' = [tries EXCEPT ![plugged] = row]
                BY <2>3
            <4> HIDE DEF row
            <4>3. tries' \in [Devices -> [Uids -> {"never", "open", "done"}]]
                BY <3>2, <4>1, <4>2 DEF World
            <4> QED BY <2>1, <4>3 DEF World
        <3> QED BY <3>1, <3>2 DEF World
    <2> QED BY <2>1, <2>2, <2>3
<1>3. CASE UploadPreparedMedia
    <2> DEFINE j == Head(rt.jobs)
               session == IF Refused(rt, j) THEN {} ELSE Ensured(Dequeued, j.gen)
    <2>1. /\ NextJob("upload") /\ UNCHANGED <<plugged, removed, discarded>>
          /\ \/ UNCHANGED <<remote, taint, tries, stored>>
             \/ \E r \in session, out \in Results : r.wk = "Active" /\ Transfer(out)
        BY <1>3 DEF UploadPreparedMedia, Results, Outcomes
    <2>2. CASE UNCHANGED <<remote, taint, tries, stored>>
        BY <2>1, <2>2 DEF World
    <2>3. CASE \E r \in session, out \in Results : r.wk = "Active" /\ Transfer(out)
        <3>1. PICK r \in session, out \in Results : r.wk = "Active" /\ Transfer(out)
            BY <2>3
        <3>2. j.kind # "start" /\ rt.jobs # <<>> /\ ~Refused(rt, j) /\ r \in Ensured(Dequeued, j.gen)
            BY <2>1, <3>1 DEF NextJob
        <3>3. Onward(r, rt)
            BY <3>2, SessionGood DEF Dequeued
        <3>4. Good(r) /\ r.conn = rt.conn
            BY <3>3 DEF Onward
        <3>5. rt.conn # None
            BY <3>1, <3>4 DEF Good, Traffic, Sessions
        <3>6. rt.conn \in Devices
            BY <3>5, ProcessParts DEF Good
        <3> QED BY <2>1, <3>1, <3>6, TransferStays DEF World
    <2> QED BY <2>1, <2>2, <2>3
<1> QED BY <1>1, <1>2, <1>3 DEF Worker

LEMMA WorldStays ==
    ASSUME Good(rt), World, [Next]_vars
    PROVE  World'
<1>1. CASE UNCHANGED world
    BY <1>1 DEF World, world
<1>2. ASSUME NEW o \in Ops, DiscardRetry(o)
      PROVE  World'
    <2>1. rt.snap \in Snapshot /\ rt.snap.cand # None
        BY <1>2, ProcessParts DEF Good, DiscardRetry, CanClearCandidate
    <2>2. rt.snap.cand.dev \in Devices
        BY <2>1, SnapshotParts DEF Candidate
    <2>3. discarded' \in {discarded, discarded \cup {rt.snap.cand.dev}}
          /\ UNCHANGED <<plugged, removed, remote, taint, tries, stored>>
        BY <1>2 DEF DiscardRetry
    <2> QED BY <2>2, <2>3 DEF World
<1>3. CASE Unplug
    BY <1>3 DEF Unplug, World
<1>4. ASSUME NEW d \in Devices, Plug(d)
      PROVE  World'
    BY <1>4 DEF Plug, World
<1>5. ASSUME NEW d \in Devices, NEW n \in Uids, DeviceForgets(d, n)
      PROVE  World'
    <2>1. remote' \in [Devices -> [Uids -> FileStates]]
        BY <1>5 DEF DeviceForgets, World, FileStates
    <2> QED BY <1>5, <2>1 DEF DeviceForgets, World
<1>6. CASE DiscoveryReports \/ Crash
    BY <1>6 DEF DiscoveryReports, Crash, World
<1>7. CASE Worker
    BY <1>7, WorkerStays
<1>8. CASE Next
    <2>1. \A o \in Ops : QueueUpload(o) \/ RejectOperation(o) \/ CancelOperation(o) \/ PreparationEnds(o)
                         => UNCHANGED world
        BY DEF QueueUpload, RejectOperation, CancelOperation, PreparationEnds
    <2>2. \A src, o \in Ops : RetryOperation(src, o) => UNCHANGED world
        BY DEF RetryOperation
    <2>3. ArtifactValidated \/ KeepaliveFails \/ Deliver \/ ConnectDevice => UNCHANGED world
        BY DEF ArtifactValidated, KeepaliveFails, Deliver, ConnectDevice
    <2> QED BY <1>1, <1>2, <1>3, <1>4, <1>5, <1>6, <1>7, <1>8, <2>1, <2>2, <2>3 DEF Next
<1>9. CASE UNCHANGED vars
    BY <1>1, <1>9 DEF vars, world
<1> QED BY <1>8, <1>9

LEMMA NextGood ==
    ASSUME Good(rt), World, [Next]_vars
    PROVE  Good(rt')
<1>1. ASSUME NEW o \in Ops,
             QueueUpload(o) \/ RejectOperation(o) \/ DiscardRetry(o) \/ CancelOperation(o) \/ PreparationEnds(o)
      PROVE  Good(rt')
    BY <1>1, QueueGood, RejectGood, DiscardGood, CancelGood, PreparationGood
<1>2. ASSUME NEW src \in Ops, NEW o \in Ops, RetryOperation(src, o)
      PROVE  Good(rt')
    BY <1>2, RetryOperationGood
<1>3. CASE ArtifactValidated \/ Worker \/ KeepaliveFails \/ Deliver
    BY <1>3, ArtifactGood, WorkerGood, KeepaliveGood, DeliverGood
<1>4. CASE DiscoveryReports \/ ConnectDevice \/ Crash
    BY <1>4, EnvironmentGood
<1>5. CASE UNCHANGED rt
    BY <1>5
<1>6. CASE UNCHANGED vars
    BY <1>5, <1>6 DEF vars
<1>7. CASE Next
    <2>1. /\ Unplug => UNCHANGED rt
          /\ \A d \in Devices : Plug(d) => UNCHANGED rt
          /\ \A d \in Devices, n \in Uids : DeviceForgets(d, n) => UNCHANGED rt
        BY DEF Unplug, Plug, DeviceForgets
    <2> QED BY <1>1, <1>2, <1>3, <1>4, <1>5, <1>7, <2>1 DEF Next
<1> QED BY <1>6, <1>7

LEMMA InitGood ==
    ASSUME Init
    PROVE  Good(rt) /\ World
<1>1. EmptySnapshot \in Snapshot /\ Apart(EmptySnapshot) /\ ~Fenced(EmptySnapshot)
    BY DEF EmptySnapshot, Snapshot, Apart, Fenced
<1>2. 0 \in {0} \cup Uids /\ 0 \in 0 .. MaxFaults
    BY BoundsAssumption
<1>3. Good(rt)
    BY <1>1, <1>2, BootGood DEF Init
<1>4. World
    BY DEF Init, World, NoFiles, FileStates
<1> QED BY <1>3, <1>4

\* The invariant of the coordinator, its session controller and the worker: whatever
\* the clients ask, the device answers, is unplugged, or fails to be written, each
\* handler leaves operations, records and queues that fit each other.
THEOREM UploadStays == Spec => [](UploadInvariant /\ World)
<1>1. Init => UploadInvariant /\ World
    BY InitGood DEF UploadInvariant
<1>2. (UploadInvariant /\ World) /\ [Next]_vars => (UploadInvariant /\ World)'
    <2> SUFFICES ASSUME UploadInvariant, World, [Next]_vars
                 PROVE  UploadInvariant' /\ World'
        OBVIOUS
    <2> QED BY NextGood, WorldStays DEF UploadInvariant
<1> QED BY <1>1, <1>2, PTL DEF Spec

\* What the invariant says of the transfers in the queue of the worker.
LEMMA GoodIsAdmitted ==
    ASSUME Good(rt)
    PROVE  TransferIsAdmitted
<1>1. ASSUME NEW j \in UploadJobs
      PROVE  /\ rt.act = j.op /\ rt.disk.infl # None
             /\ rt.disk.infl.op = j.op /\ rt.disk.infl.name = j.name
             /\ rt.disk.infl.phase = "DispatchArmed"
             /\ rt.disk.infl = rt.snap.infl
             /\ rt.snap.cand # None => ~FinalizationOnly(rt.snap.cand)
    <2>1. PICK i \in DOMAIN rt.jobs : j = rt.jobs[i] /\ rt.jobs[i].kind = "upload"
        BY DEF UploadJobs
    <2>2. /\ j.op = rt.act /\ rt.ops[rt.act].st = "Uploading" /\ j.name = rt.ops[rt.act].name
          /\ j.op \in Ops
        BY <2>1 DEF Good, Traffic, Transfers, Queues
    <2>3. rt.act # None
        BY <2>2
    <2>4. /\ Sending(rt, rt.ops[rt.act])
          /\ rt.snap.cand # None => ~FinalizationOnly(rt.snap.cand)
        BY <2>2, <2>3 DEF Good, Surface, Foreground, Starting
    <2> QED BY <2>2, <2>4 DEF Sending, IsOf
<1>2. ArmedBeforeTransfer
    BY <1>1 DEF ArmedBeforeTransfer
<1>3. RestrictedIsReadOnly
    <2> SUFFICES ASSUME NEW j \in RunnableUploads
                 PROVE  ~Fenced(rt.snap) /\ ~(rt.snap.cand # None /\ FinalizationOnly(rt.snap.cand))
        BY DEF RestrictedIsReadOnly
    <2>1. j \in UploadJobs
        BY DEF RunnableUploads
    <2> QED BY <1>1, <2>1 DEF Fenced, FencePhases
<1>4. OneForeground
    <2> SUFFICES ASSUME NEW o \in Ops, rt.ops[o] # None, o # rt.act, rt.ops[o].st \notin Terminal
                 PROVE  o = Visible(rt.snap) /\ Restricted(rt)
        BY DEF OneForeground
    <2>1. Awaited(rt.snap, o)
        BY DEF Good, Surface, Waiting, Waits
    <2> QED BY <2>1 DEF Awaited, Visible, Restricted, Fenced
<1> QED BY <1>2, <1>3, <1>4 DEF TransferIsAdmitted

LEMMA GoodIsTyped ==
    ASSUME Good(rt), World
    PROVE  TypeOK
<1>1. rt \in Processes
    BY DEF Good
<1>2. rt.gate.open \in BOOLEAN
    BY <1>1 DEF Processes
<1> QED BY <1>1, <1>2 DEF TypeOK, Processes, World, FileStates

LEMMA GoodIsShown ==
    ASSUME Good(rt)
    PROVE  RetryOfferedIsDurable /\ CandidateIsOffered
<1>1. RetryOfferedIsDurable
    BY DEF RetryOfferedIsDurable, Good, Surface, Offers
<1>2. CandidateIsOffered
    BY DEF CandidateIsOffered, Good, Surface, Shown
<1> QED BY <1>1, <1>2

\* An upload that the worker would carry out is the one whose dispatch the disk names
\* as armed (dispatchPreparedUploadWithRetryBarrier), of the only operation that is
\* worked on, and while the outcome of another must be looked up nothing is sent:
\* for all operations, devices, faults and crashes.
THEOREM TransfersAreAdmitted == Spec => []TransferIsAdmitted
<1>1. UploadInvariant => TransferIsAdmitted
    BY GoodIsAdmitted DEF UploadInvariant
<1> QED BY <1>1, UploadStays, PTL

\* The retries that clients see are the durable ones, whatever write fails: a retry
\* that is offered is the candidate on record (or one of the named exceptions, which
\* are refused), and the candidate on record is offered or looked up.
THEOREM RecordsAreShown == Spec => [](TypeOK /\ RetryOfferedIsDurable /\ CandidateIsOffered)
<1>1. UploadInvariant /\ World => TypeOK /\ RetryOfferedIsDurable /\ CandidateIsOffered
    BY GoodIsTyped, GoodIsShown DEF UploadInvariant
<1> QED BY <1>1, UploadStays, PTL

=============================================================================
