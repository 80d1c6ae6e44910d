---------------------------- MODULE ReplaceSaga ----------------------------
(* Replacing a media file on the device by an edited copy of it: upload the   *)
(* copy, apply it in the place of the original, check that nothing refers to  *)
(* the original any more, and remove it, once.  The steps are recorded in the *)
(* replace journal and, for the removal, in the delete intent, so that a      *)
(* runtime that comes back after a crash or a lost answer knows what may have *)
(* happened and only looks.  A plain deletion shares the intent, the worker   *)
(* and the reconciliation.                                                    *)
(*                                                                            *)
(* One replacement and one deletion; the upload is UploadRetry's subject and  *)
(* is a few steps here.  The worker thread does one job at a time, and its    *)
(* answer reaches the coordinator in a step of its own.                       *)
EXTENDS ReplaceJournal

CONSTANTS MaxFaults, MaxCrashes, MaxUnplugs
\* bounds on failed local writes, on crashes, and on the times that the user
\* unplugs the device, or plugs in another one, without being asked to

ASSUME BoundsAssumption ==
    MaxFaults \in Nat /\ MaxCrashes \in Nat /\ MaxUnplugs \in Nat

VARIABLES
    p,       \* the coordinator's memory
    disk,    \* [journal, intent]: the two files
    dev,     \* the device: its user files, those its layout refers to, and
             \* the removals it has received and not yet done
    port,    \* the device at the port: "none", "mine" or "alien"
    sess,    \* the display session: "off", "on" or "lost"
    job,     \* what the worker is doing
    left,    \* the faults and crashes still to come
    hist     \* what the properties remember, see Hist

vars == <<p, disk, dev, port, sess, job, left, hist>>

Original == "original"
Copy == "copy"
Files == {Original, Copy}

Replace == "replace"
Delete == "delete"
Operations == {Replace, Delete}

Intents == [op : Operations, file : Files, may : BOOLEAN]

\* info.stage as far as the code reads it; "Ended" is any terminal state and
\* "None" an operation that is not in operations_.
OpStages ==
    {"None", "Preflight", "Converting", "Uploading", "Applying",
     "ReconcilingReferences", "ReconcilingUnknownApply", "Deleting",
     "ReconcilingDelete", "Ended"}

\* repl replaceOperation, active replaceJournalActive, rOnly deleteReconcileOnly,
\* dcp deviceChangePending
OpRecords ==
    [stage : OpStages, repl : BOOLEAN, active : BOOLEAN, rOnly : BOOLEAN, dcp : BOOLEAN]

NoOp == [stage |-> "None", repl |-> FALSE, active |-> FALSE, rOnly |-> FALSE, dcp |-> FALSE]

\* pendR and pendD are pendingReplaceJournalOperationId_ and
\* pendingDeleteOperationId_, memI is pendingDeleteIntent_, j the journal record
\* of the replacement, blocked the retry cache gate.
Memories ==
    [up : BOOLEAN, act : Operations \cup {None}, ops : [Operations -> OpRecords],
     j : JournalRecords, pendR : BOOLEAN, pendD : Operations \cup {None},
     memI : Intents \cup {None}, blocked : BOOLEAN]

Down == [up |-> FALSE, act |-> None, ops |-> [o \in Operations |-> NoOp],
         j |-> NewRecord, pendR |-> FALSE, pendD |-> None, memI |-> None,
         blocked |-> FALSE]

\* A job: for whom, what, how far, whether for the present connection
\* generation, and what it has found out (list is None until a FileList is read).
Kinds == {"preflight", "apply", "delete", "reconcile"}
Outcomes == {"ok", "rejected", "notstarted", "unknown"}

Jobs ==
    [op : Operations, kind : Kinds, file : Files,
     expect : BOOLEAN, live : BOOLEAN, list : (SUBSET Files) \cup {None},
     pc : {"start", "persist", "send", "reread", "answered"},
     out : Outcomes, referenced : BOOLEAN, lost : BOOLEAN]

NoJob == None

Job(op, kind, file, expect) ==
    [op |-> op, kind |-> kind, file |-> file, expect |-> expect, live |-> TRUE,
     list |-> None, pc |-> "start", out |-> "notstarted", referenced |-> FALSE,
     lost |-> FALSE]

\* begun has the operations that were asked for and target the file that Delete
\* removes; sent and applies count the requests that may have reached the device,
\* took has the operations whose removal took effect, verdict is the last outcome
\* reported.
Verdicts == {"none", "Replaced", "Deleted", "Retained", "Unknown"}
Hist ==
    [begun : SUBSET Operations, target : Files \cup {None},
     sent : [Operations -> 0 .. 2], applies : 0 .. 2, took : SUBSET Operations,
     verdict : [Operations -> Verdicts]]

-----------------------------------------------------------------------------
(* A handler turns a world w, what it can change, into the worlds that it may *)
(* leave behind; a file write that fails or a crash after it makes several.   *)

World == [p |-> p, disk |-> disk, sess |-> sess, job |-> job, left |-> left, hist |-> hist]

Become(w) ==
    /\ p' = w.p /\ disk' = w.disk /\ sess' = w.sess
    /\ job' = w.job /\ left' = w.left /\ hist' = w.hist

Dead(w) == [w EXCEPT !.p = Down, !.sess = "off", !.job = NoJob, !.left.crashes = @ - 1]
Faulty(w) == [w EXCEPT !.left.faults = @ - 1]

Ok(w) == [how |-> "ok", w |-> w]
No(w) == [how |-> "no", w |-> w]

\* A write that was done, one that failed before or after it reached the disk,
\* and a crash after it.  A crash before it is one after the step before.
Landing(w, done) ==
    {Ok(done)}
    \cup (IF w.left.faults > 0 THEN {No(Faulty(w)), No(Faulty(done))} ELSE {})
    \cup (IF w.left.crashes > 0 THEN {[how |-> "dead", w |-> Dead(done)]} ELSE {})

\* writeReplaceJournal: memory takes the stage whether the disk does or not.
JWrite(w, stage) ==
    LET q == [w EXCEPT !.p.j.stage = stage, !.p.pendR = TRUE]
    IN CASE ~w.p.ops[Replace].active -> {No(w)}
         [] w.p.ops[Replace].active /\ ~Accepts(w.disk.journal, q.p.j) -> {No(q)}
         [] OTHER -> Landing(q, [q EXCEPT !.disk.journal = q.p.j])

JClear(w) ==
    LET forgotten(x) == [x EXCEPT !.p.pendR = FALSE, !.p.ops[Replace].active = FALSE]
    IN IF w.disk.journal = None THEN {Ok(forgotten(w))}
       ELSE {IF r.how = "ok" THEN Ok(forgotten(r.w)) ELSE r :
                r \in Landing(w, [w EXCEPT !.disk.journal = None])}

\* writeDeleteIntent, always of stage Preflight.
IWrite(w, op, file) ==
    LET i == [op |-> op, file |-> file, may |-> FALSE]
    IN IF w.disk.intent \notin {None, i} THEN {No(w)}
       ELSE {IF r.how = "ok" THEN Ok([r.w EXCEPT !.p.memI = i, !.p.pendD = op]) ELSE r :
                r \in Landing(w, [w EXCEPT !.disk.intent = i])}

IClear(w, op) ==
    LET forgotten(x) == [x EXCEPT !.p.memI = None, !.p.pendD = None]
    IN CASE w.disk.intent = None -> {Ok(forgotten(w))}
         [] w.disk.intent # None /\ (w.p.memI = None \/ w.p.memI.op # op
                                     \/ w.disk.intent.op # op) -> {No(w)}
         [] OTHER -> {IF r.how = "ok" THEN Ok(forgotten(r.w)) ELSE r :
                         r \in Landing(w, [w EXCEPT !.disk.intent = None])}

Done(results) == {r.w : r \in {x \in results : x.how = "ok"}}
Failed(results) == {r.w : r \in {x \in results : x.how = "no"}}
Alive(results) == Done(results) \cup Failed(results)
Dying(results) == {r.w : r \in {x \in results : x.how = "dead"}}

-----------------------------------------------------------------------------
(* finishOperation *)

Ended(w, op, verdict) ==
    [w EXCEPT !.p.act = None, !.p.ops[op].stage = "Ended", !.hist.verdict[op] = verdict]

EndedAll(worlds, op, verdict) == {Ended(w, op, verdict) : w \in worlds}

\* The retry mode says whether the outcome has to be found out later.
MustReconcile(w, mode) ==
    \/ mode = "DeleteReconcile"
    \/ mode = "ReconcileOnly" /\ (w.p.j.ams \/ w.p.j.frs)

UnresolvedStage(j) ==
    CASE j.frs -> "DeleteReconciliation"
      [] ~j.frs /\ j.ams -> "ApplyVerification"
      [] ~j.frs /\ ~j.ams /\ j.upv -> "UploadVerified"
      [] OTHER -> j.stage

SettledDisp(j, verdict) ==
    IF verdict = "Replaced" THEN "Replaced"
    ELSE IF j.upv THEN "NewCopyReady" ELSE "OriginalRetained"

KeepJournal(w, op, verdict) ==
    LET r == JWrite([w EXCEPT !.p.j.disp = "PartialOrUnknown"], UnresolvedStage(w.p.j))
    IN EndedAll(Alive(r), op, verdict) \cup Dying(r)

SettleJournal(w, op, verdict) ==
    LET r == JWrite([w EXCEPT !.p.j.disp = SettledDisp(w.p.j, verdict)], "Terminal")
        c == UNION {JClear(x) : x \in Done(r)}
    IN EndedAll(Failed(r) \cup Alive(c), op, verdict) \cup Dying(r) \cup Dying(c)

Finish(w, op, mode, verdict) ==
    CASE ~(w.p.ops[op].repl /\ w.p.ops[op].active) -> {Ended(w, op, verdict)}
      [] w.p.ops[op].repl /\ w.p.ops[op].active /\ MustReconcile(w, mode) ->
             KeepJournal(w, op, verdict)
      [] OTHER -> SettleJournal(w, op, verdict)

FinishAll(worlds, op, mode, verdict) == UNION {Finish(w, op, mode, verdict) : w \in worlds}

-----------------------------------------------------------------------------
(* The answers of the worker *)

\* A lost session is announced before the answer of a file operation, and is
\* handled like a change of device; the answer of Apply comes first.
SessionLost(w) ==
    IF w.job.lost /\ w.job.live
    THEN [w EXCEPT !.sess = "lost", !.p.ops[w.job.op].dcp = TRUE] ELSE w

\* Mutant: the removal is requested before its records are written.
ArmRemovalUnrecorded(w) ==
    {[x EXCEPT !.p.j.dil = TRUE, !.p.j.frs = TRUE, !.p.ops[Replace].stage = "Deleting",
               !.job = Job(Replace, "delete", Original, TRUE)] :
        x \in Done(IWrite(w, Replace, Original))}

\* From the proof that nothing refers to the original to the request.
ArmRemoval(w) ==
    LET a == JWrite(w, "ReferenceReconciliation")
        b == UNION {IWrite(x, Replace, Original) : x \in Done(a)}
        c == UNION {JWrite([x EXCEPT !.p.j.dil = TRUE], "DeleteIntentLinked") : x \in Done(b)}
        d == UNION {JWrite([x EXCEPT !.p.j.frs = TRUE], "Deleting") : x \in Done(c)}
        e == UNION {IClear(x, Replace) : x \in Failed(c) \cup Failed(d)}
    IN {[x EXCEPT !.p.ops[Replace].stage = "Deleting",
                  !.job = Job(Replace, "delete", Original, TRUE)] : x \in Done(d)}
       \cup FinishAll(Failed(a) \cup Failed(b) \cup Alive(e), Replace, "", "Retained")
       \cup UNION {Dying(r) : r \in {a, b, c, d, e}}

BeginJournal(w) ==
    LET a == JWrite([w EXCEPT !.p.ops[Replace].active = TRUE, !.p.j = NewRecord], "Preflight")
        b == UNION {JWrite(x, "Preparing") : x \in Done(a)}
    IN {[x EXCEPT !.p.ops[Replace].stage = "Converting"] : x \in Done(b)}
       \cup FinishAll(Failed(a) \cup Failed(b), Replace, "", "Retained")
       \cup Dying(a) \cup Dying(b)

SettleUnknownApply(w) ==
    LET a == JWrite([w EXCEPT !.p.j.disp = "NewCopyReady"], "ReferenceReconciliation")
    IN FinishAll(Done(a), Replace, "", "Retained")
       \cup FinishAll(Failed(a), Replace, "ReconcileOnly", "Unknown")
       \cup Dying(a)

\* Before the upload the original has to be shown by the layout that is replaced and
\* by no slot that the replacement leaves as it is.
FirstLook(w, shown) ==
    Finish(w, Replace, "", "Retained") \cup IF shown THEN BeginJournal(w) ELSE {}

\* handleReplacePreflightFinished.  The answer is to the first preflight, to the
\* one that follows a verified Apply, or to that of a reconciliation.  The first
\* is refused as well for a slot that Replace cannot fill or another layout.
PreflightFinished(w, answer) ==
    LET r == w.p.ops[Replace]
        success == answer.out = "ok"
        proof == r.stage \in {"ReconcilingReferences", "ReconcilingUnknownApply"}
        proven == answer.list # None /\ Files \subseteq answer.list
    IN CASE r.dcp ->
               IF OutcomeUnknown(w.p.j) THEN Finish(w, Replace, "ReconcileOnly", "Unknown")
               ELSE Finish(w, Replace, "", "Retained")
         [] ~r.dcp /\ proof /\ ~proven ->
               Finish(w, Replace, "ReconcileOnly", "Unknown")
         [] ~r.dcp /\ r.stage = "ReconcilingUnknownApply" /\ proven ->
               IF success THEN SettleUnknownApply(w)
               ELSE Finish(w, Replace, "ReconcileOnly", "Unknown")
         [] ~r.dcp /\ r.stage = "ReconcilingReferences" /\ proven ->
               IF success /\ ~answer.referenced THEN ArmRemoval(w)
               ELSE Finish(w, Replace, "", "Retained")
         [] OTHER -> FirstLook(w, success /\ answer.referenced)

\* handleApplyFinished: what is recorded after an Apply that the device has
\* confirmed.  The metrics of the layout are saved first and may fail.
ApplyVerified(w) ==
    LET a == JWrite([w EXCEPT !.p.j.apv = TRUE], "ApplyVerification")
        b == UNION {JWrite(x, "ReferenceReconciliation") : x \in Done(a)}
    IN {[x EXCEPT !.p.ops[Replace].stage = "ReconcilingReferences",
                  !.job = Job(Replace, "preflight", Original, TRUE)] : x \in Done(b)}
       \cup FinishAll(Failed(a) \cup Failed(b), Replace, "", "Retained")
       \cup Dying(a) \cup Dying(b)

ApplyUnknown(w) ==
    LET a == JWrite([w EXCEPT !.p.j.disp = "PartialOrUnknown"], "ApplyVerification")
    IN FinishAll(Alive(a), Replace, "ReconcileOnly", "Unknown") \cup Dying(a)

ApplyFinished(w, answer) ==
    CASE answer.out = "ok" /\ w.p.ops[Replace].dcp ->
           Finish(w, Replace, "ReconcileOnly", "Unknown")
      [] answer.out = "ok" /\ ~w.p.ops[Replace].dcp ->
           ApplyVerified(w)
           \cup IF w.left.faults = 0 THEN {}
                ELSE Finish(Faulty(w), Replace, "ReconcileOnly", "Unknown")
      [] answer.out = "unknown" -> ApplyUnknown(w)
      [] OTHER -> Finish(w, Replace, "", "Retained")

\* The outcome of a removal that was answered, and of one that was not.
RemovalSettled(w, op, verdict, mode) ==
    LET c == IClear(w, op)
    IN FinishAll(Done(c), op, "", verdict)
       \cup FinishAll(Failed(c), op, mode, "Unknown")
       \cup Dying(c)

\* Memory takes the intent as the worker left it on disk.
RemovalUnknown(w, op) ==
    LET i == w.disk.intent
        q == [w EXCEPT !.p.pendD = op,
                       !.p.memI = IF i # None /\ i.op = op THEN i
                                  ELSE IF @ # None /\ @.op = op THEN [@ EXCEPT !.may = TRUE]
                                  ELSE @]
        a == IF q.p.ops[op].repl
             THEN JWrite([q EXCEPT !.p.j.disp = "PartialOrUnknown"], "DeleteReconciliation")
             ELSE {Ok(q)}
    IN FinishAll(Alive(a), op, "DeleteReconcile", "Unknown") \cup Dying(a)

\* A look after a restart that had no intent: the list shows that nothing was removed.
StillThere(w, op) == RemovalSettled(w, op, "Retained", "ReconcileOnly")

CopyMissing(w, op) ==
    LET a == JWrite([w EXCEPT !.p.j.disp = "PartialOrUnknown"],
                    "DeleteReconciliation")
        mode == IF w.p.pendD = op THEN "DeleteReconcile" ELSE "ReconcileOnly"
    IN FinishAll(Alive(a), op, mode, "Unknown") \cup Dying(a)

\* Mutant: a removal is taken for done whatever the fresh list shows.
DeleteFinishedTrusts(w, answer) ==
    RemovalSettled([w EXCEPT !.p.memI = w.disk.intent], answer.op,
                   IF w.p.ops[answer.op].repl THEN "Replaced" ELSE "Deleted",
                   "DeleteReconcile")

\* handleDeleteFinished
DeleteFinished(w, answer) ==
    LET op == answer.op
        r == w.p.ops[op]
        journalOnly == r.repl /\ r.rOnly /\ w.p.pendD = None
    IN CASE r.repl /\ r.dcp -> Finish(w, op, "ReconcileOnly", "Unknown")
         [] r.repl /\ ~r.dcp /\ (answer.list = None \/ Copy \notin answer.list) ->
               CopyMissing(w, op)
         [] OTHER ->
               CASE answer.out = "ok" ->
                      RemovalSettled([w EXCEPT !.p.pendD = IF w.disk.intent = None THEN @ ELSE op],
                                     op, IF r.repl THEN "Replaced" ELSE "Deleted",
                                     "DeleteReconcile")
                 [] answer.out = "unknown" ->
                      IF journalOnly THEN StillThere(w, op)
                      ELSE RemovalUnknown(w, op)
                 [] OTHER -> RemovalSettled(w, op, "Retained", "DeleteReconcile")

-----------------------------------------------------------------------------
(* Reconciliation when the session of the right device starts *)

\* Mutant: only a deletion with no replacement around is taken up.
MayResumePlainDelete(w) ==
    /\ w.p.pendD # None /\ ~w.p.blocked /\ w.p.act = None /\ ~w.p.pendR
    /\ w.p.memI # None /\ w.p.memI.op = w.p.pendD

\* A pending replacement must be the operation of the intent, if there is any.
MayResumeDelete(w) ==
    LET op == w.p.pendD
        r == w.p.ops[op]
    IN /\ op # None /\ ~w.p.blocked /\ w.p.act = None
       /\ w.p.memI # None /\ w.p.memI.op = op /\ r.stage # "None"
       /\ r.repl \/ w.p.pendR => op = Replace /\ w.p.pendR /\ r.repl /\ r.active

ResumeDeleteAs(w, kind) ==
    LET op == w.p.pendD
    IN IF MayResumeDelete(w)
       THEN [w EXCEPT !.p.act = op,
                      !.p.ops[op] = [@ EXCEPT !.stage = "ReconcilingDelete",
                                              !.rOnly = TRUE, !.dcp = FALSE],
                      !.job = Job(op, kind, w.p.memI.file, w.p.ops[op].repl)]
       ELSE w

\* Mutant: the removal that may have been lost is requested again.
ResumeDeleteRepeats(w) == ResumeDeleteAs(w, "delete")

ResumeDelete(w) == ResumeDeleteAs(w, "reconcile")

ResumeReplace(w) ==
    LET r == w.p.ops[Replace]
        q == [w EXCEPT !.p.ops[Replace].dcp = FALSE]
    IN CASE ~(w.p.pendR /\ w.p.pendD = None /\ w.p.act = None /\ r.repl /\ r.active) -> w
         [] OTHER ->
              CASE w.p.j.frs ->
                     [q EXCEPT !.p.act = Replace,
                               !.p.ops[Replace].stage = "ReconcilingDelete",
                               !.p.ops[Replace].rOnly = TRUE,
                               !.job = Job(Replace, "reconcile", Original, TRUE)]
                [] ~w.p.j.frs /\ w.p.j.ams /\ ~w.p.j.apv ->
                     [q EXCEPT !.p.act = Replace,
                               !.p.ops[Replace].stage = "ReconcilingUnknownApply",
                               !.job = Job(Replace, "preflight", Original, TRUE)]
                [] OTHER -> q

-----------------------------------------------------------------------------
(* A start of the runtime: the journal first, then the intent *)

Adopt(w) ==
    [w EXCEPT !.p.pendR = TRUE, !.p.j = w.disk.journal,
              !.p.ops[Replace] = [NoOp EXCEPT !.stage = "Ended", !.repl = TRUE,
                                              !.active = TRUE]]

\* Whatever was not left half way is settled from the record alone.
SettleLoaded(w) ==
    LET done == [w.disk.journal EXCEPT
                    !.stage = "Terminal",
                    !.disp = IF w.disk.journal.upv THEN "NewCopyReady" ELSE "OriginalRetained"]
        a == Landing(w, [w EXCEPT !.disk.journal = done])
        b == UNION {Landing(x, [x EXCEPT !.disk.journal = None]) : x \in Done(a)}
        kept(x) == [Adopt(w) EXCEPT !.disk = x.disk, !.left = x.left]
    IN {Ok([x EXCEPT !.p.ops[Replace] = [NoOp EXCEPT !.stage = "Ended"],
                     !.hist.verdict[Replace] = "Retained"]) : x \in Done(b)}
       \cup {Ok(kept(x)) : x \in Failed(a) \cup Failed(b)}
       \cup {r \in a \cup b : r.how = "dead"}

LoadJournal(w) ==
    CASE w.disk.journal = None -> {Ok(w)}
      [] w.disk.journal # None /\ w.disk.journal.stage = "Terminal" ->
             {IF r.how = "no" THEN Ok([r.w EXCEPT !.p.pendR = TRUE]) ELSE r :
                 r \in Landing(w, [w EXCEPT !.disk.journal = None])}
      [] w.disk.journal # None /\ w.disk.journal.stage # "Terminal"
                               /\ ~OutcomeUnknown(w.disk.journal) -> SettleLoaded(w)
      [] OTHER -> {Ok(Adopt(w))}

LoadIntent(w) ==
    LET i == w.disk.intent
        q == [w EXCEPT !.p.memI = i, !.p.pendD = i.op]
        found == [q EXCEPT !.p.ops[i.op].stage = "Ended", !.p.ops[i.op].rOnly = TRUE,
                           !.hist.verdict[i.op] = "Unknown"]
    IN CASE i = None -> {w}
         [] i # None /\ ~i.may -> Alive(IClear(q, i.op)) \cup Dying(IClear(q, i.op))
         [] OTHER -> {found}

Boot ==
    /\ ~p.up
    /\ LET r == LoadJournal([World EXCEPT !.p.up = TRUE])
       IN \E w \in UNION {LoadIntent(x) : x \in Done(r)} \cup Dying(r) : Become(w)
    /\ UNCHANGED <<dev, port>>

Crash ==
    /\ p.up /\ left.crashes > 0
    /\ Become(Dead(World))
    /\ UNCHANGED <<dev, port>>

-----------------------------------------------------------------------------
(* The user *)

Idle == p.up /\ p.act = None /\ ~p.blocked /\ sess = "on" /\ port = "mine"

\* A request whose id is known is answered as the first was.
IsNew(op) == op \notin hist.begun

\* No replacement and no removal, of this run or of an earlier one, is unsettled.
NothingUnsettled ==
    p.pendD = None /\ disk.intent = None /\ ~p.pendR /\ disk.journal = None

\* The original is what was staged, and the layout in use shows it.
OriginalIsShown == Original \in dev.files /\ Original \in dev.refs

StartReplace ==
    /\ Idle /\ IsNew(Replace) /\ NothingUnsettled /\ OriginalIsShown
    /\ Become([World EXCEPT
          !.p.act = Replace, !.p.j = NewRecord,
          !.p.ops[Replace] = [NoOp EXCEPT !.stage = "Preflight", !.repl = TRUE],
          !.job = Job(Replace, "preflight", Original, FALSE),
          !.hist.begun = @ \cup {Replace}])
    /\ UNCHANGED <<dev, port>>

\* A plain deletion asks for no pending removal, and not for the journal.
StartDelete(f) ==
    /\ Idle /\ IsNew(Delete) /\ f \in dev.files
    /\ p.pendD = None /\ disk.intent = None
    /\ LET q == [World EXCEPT !.p.act = Delete,
                              !.p.ops[Delete] = [NoOp EXCEPT !.stage = "Deleting"],
                              !.hist.begun = @ \cup {Delete}, !.hist.target = f]
           r == IWrite(q, Delete, f)
       IN \E w \in {[x EXCEPT !.job = Job(Delete, "delete", f, FALSE)] : x \in Done(r)}
                   \cup EndedAll(Failed(r), Delete, "Retained") \cup Dying(r) :
             Become(w)
    /\ UNCHANGED <<dev, port>>

\* Any other layout, applied between the two operations.
UserApply(f) ==
    /\ Idle /\ f \in dev.files
    /\ dev' = [dev EXCEPT !.refs = {f}]
    /\ UNCHANGED <<p, disk, port, sess, job, left, hist>>

-----------------------------------------------------------------------------
(* Conversion and upload *)

Prepared ==
    /\ p.act = Replace /\ p.ops[Replace].stage = "Converting"
    /\ LET r == JWrite(World, "Uploading")
       IN \E w \in {[x EXCEPT !.p.ops[Replace].stage = "Uploading"] : x \in Done(r)}
                   \cup FinishAll(Failed(r), Replace, "", "Retained") \cup Dying(r) :
             Become(w)
    /\ UNCHANGED <<dev, port>>

\* A conversion or an upload that failed or was cancelled.
GiveUp ==
    /\ p.act = Replace /\ p.ops[Replace].stage \in {"Converting", "Uploading"}
    /\ \E w \in Finish(World, Replace, "", "Retained") : Become(w)
    /\ UNCHANGED <<dev, port>>

DeviceStoresCopy ==
    /\ p.act = Replace /\ p.ops[Replace].stage = "Uploading" /\ ~p.ops[Replace].dcp
    /\ Copy \notin dev.files
    /\ dev' = [dev EXCEPT !.files = @ \cup {Copy}]
    /\ UNCHANGED <<p, disk, port, sess, job, left, hist>>

\* A FileList has shown the copy.  A retry record that cannot be retired blocks
\* everything until a restart, and so does the journal.
UploadVerified ==
    LET q == [World EXCEPT !.p.j.upv = TRUE, !.p.j.disp = "NewCopyReady"]
        a == JWrite(q, "UploadVerified")
        stuck(x) == Ended([x EXCEPT !.p.blocked = TRUE], Replace, "Retained")
        b == UNION {JWrite([x EXCEPT !.p.j.ams = TRUE], "Applying") : x \in Done(a)}
    IN /\ p.act = Replace /\ p.ops[Replace].stage = "Uploading" /\ ~p.ops[Replace].dcp
       /\ sess = "on" /\ Copy \in dev.files
       /\ \E w \in {stuck(x) : x \in Failed(a)}
                   \cup {stuck(Faulty(x)) : x \in {y \in Done(a) : y.left.faults > 0}}
                   \cup FinishAll(Done(a), Replace, "", "Retained")
                   \cup {[x EXCEPT !.p.ops[Replace].stage = "Applying",
                                   !.job = Job(Replace, "apply", Copy, FALSE)] : x \in Done(b)}
                   \cup FinishAll(Failed(b), Replace, "", "Retained")
                   \cup Dying(a) \cup Dying(b) :
             Become(w)
       /\ UNCHANGED <<dev, port>>

-----------------------------------------------------------------------------
(* The worker.  A job for a connection that is gone fails at its next step.   *)

At(kind, pc) == job # NoJob /\ job.kind \in kind /\ job.pc = pc

Answers(outcome, lost) ==
    job' = [job EXCEPT !.pc = "answered", !.out = outcome, !.lost = lost]

WorkerOnly == UNCHANGED <<p, disk, port, sess, left>>

\* The nine references of the configuration are read after the list.
WorkerPreflight ==
    /\ At({"preflight"}, "start")
    /\ \/ \E lost \in BOOLEAN : Answers("notstarted", lost)
       \/ /\ job.live
          /\ \/ /\ Original \in dev.files /\ (job.expect => Copy \in dev.files)
                /\ job' = [job EXCEPT !.pc = "answered", !.out = "ok", !.list = dev.files,
                                      !.referenced = Original \in dev.refs]
             \/ \E lost \in BOOLEAN :
                   job' = [job EXCEPT !.pc = "answered", !.list = dev.files, !.lost = lost]
    /\ WorkerOnly /\ UNCHANGED <<dev, hist>>

\* The copy takes the place of the original in the active layout; the original
\* may stay in another slot.
Layouts == {{Copy}, Files}

Apply(outcome, lost, refs) ==
    /\ Answers(outcome, lost)
    /\ dev' = [dev EXCEPT !.refs = refs]
    /\ hist' = [hist EXCEPT !.applies = @ + 1]

\* The session cannot be had any more: nothing is sent.
NotApplied == Answers("notstarted", TRUE) /\ UNCHANGED <<dev, hist>>

WorkerApply ==
    /\ At({"apply"}, "start")
    /\ \/ NotApplied
       \/ /\ job.live
          /\ \/ \E refs \in Layouts : Apply("ok", FALSE, refs)
             \/ Apply("rejected", FALSE, dev.refs)
             \/ \E refs \in Layouts \cup {dev.refs}, lost \in BOOLEAN :
                   Apply("unknown", lost, refs)
    /\ WorkerOnly

\* Mutant: the references are not asked for again before the removal.
FitListOnly(list) == job.file \in list /\ (job.expect => Copy \in list)

\* What the last list and configuration before the request must show.
Fit(list) ==
    /\ job.file \in list /\ job.file \notin dev.refs
    /\ job.expect => Copy \in list

WorkerCheck ==
    /\ At({"delete"}, "start")
    /\ \/ \E lost \in BOOLEAN : Answers("notstarted", lost)
       \/ /\ job.live
          /\ job' = [job EXCEPT !.list = dev.files,
                                !.pc = IF Fit(dev.files) THEN "persist" ELSE "answered"]
       \/ job.live /\ job' = [job EXCEPT !.list = dev.files, !.pc = "answered"]
    /\ WorkerOnly /\ UNCHANGED <<dev, hist>>

\* The intent must be the one of this operation; it is marked before the request
\* and not if the user has cancelled.
WorkerPersist ==
    LET marked == [World EXCEPT !.disk.intent.may = TRUE]
    IN /\ At({"delete"}, "persist")
       /\ \/ /\ disk.intent # None /\ disk.intent.op = job.op
             /\ \E r \in Landing(World, marked) :
                   Become(IF r.how = "dead" THEN r.w
                          ELSE [r.w EXCEPT !.job.pc = IF r.how = "ok" THEN "send" ELSE "answered"])
          \/ Become([World EXCEPT !.job.pc = "answered"])
       /\ UNCHANGED <<dev, port>>

Removed(d) == [d EXCEPT !.files = @ \ {job.file}]

Later(d) == [d EXCEPT !.late = @ \cup {[op |-> job.op, file |-> job.file]}]

Took(h, op, file) == IF file \in dev.files THEN [h EXCEPT !.took = @ \cup {op}] ELSE h

Sent == [hist EXCEPT !.sent[job.op] = @ + 1]

\* An acknowledgement, or none in time, is followed by fresh lists; after a
\* broken transfer nothing can be read.
WorkerSend ==
    /\ At({"delete"}, "send")
    /\ \/ Answers("notstarted", FALSE) /\ UNCHANGED <<dev, hist>>
       \/ /\ job.live
          /\ \/ /\ job' = [job EXCEPT !.pc = "reread", !.out = "rejected"]
                /\ hist' = Sent /\ UNCHANGED dev
             \/ /\ job' = [job EXCEPT !.pc = "reread"] \/ Answers("unknown", TRUE)
                /\ \/ dev' = Removed(dev) /\ hist' = Took(Sent, job.op, job.file)
                   \/ dev' = Later(dev) /\ hist' = Sent
    /\ WorkerOnly

WorkerReread ==
    /\ At({"delete"}, "reread")
    /\ \/ Answers("unknown", TRUE)
       \/ /\ job.live
          /\ LET gone == job.file \notin dev.files
                 refused == job.out = "rejected"
             IN job' = [job EXCEPT !.pc = "answered", !.list = dev.files,
                                   !.out = IF gone THEN "ok"
                                           ELSE IF refused THEN "rejected" ELSE "unknown",
                                   !.lost = ~gone /\ ~refused]
    /\ WorkerOnly /\ UNCHANGED <<dev, hist>>

\* A reconciliation only reads.
WorkerReconcile ==
    /\ At({"reconcile"}, "start") /\ job.live
    /\ job' = [job EXCEPT !.pc = "answered", !.list = dev.files,
                          !.out = IF job.file \in dev.files THEN "unknown" ELSE "ok",
                          !.lost = job.file \in dev.files]
    /\ WorkerOnly /\ UNCHANGED <<dev, hist>>

WorkerReconcileFails ==
    /\ At({"reconcile"}, "start")
    /\ Answers("unknown", TRUE)
    /\ WorkerOnly /\ UNCHANGED <<dev, hist>>

\* The answer is of no use once the operation is not the active one, or the
\* connection is another one and the coordinator has not been told.
Handled(w, answer) ==
    CASE answer.kind = "preflight" -> PreflightFinished(w, answer)
      [] answer.kind = "apply" ->
             {IF answer.lost /\ answer.live /\ x.p.up THEN [x EXCEPT !.sess = "lost"] ELSE x :
                 x \in ApplyFinished(w, answer)}
      [] OTHER -> DeleteFinished(w, answer)

Answer ==
    /\ job # NoJob /\ job.pc = "answered"
    /\ LET q == IF job.kind = "apply" THEN World ELSE SessionLost(World)
           w == [q EXCEPT !.job = NoJob]
           expected == /\ w.p.act = job.op
                       /\ (job.live /\ port = "mine") \/ w.p.ops[job.op].dcp
           worlds == IF expected THEN Handled(w, job) ELSE {w}
       IN \E x \in worlds : Become(x)
    /\ UNCHANGED <<dev, port>>

-----------------------------------------------------------------------------
(* The device and its connection *)

\* A removal that was received takes effect, or is lost.
LateEffect ==
    \E c \in dev.late :
        /\ \/ /\ dev' = [dev EXCEPT !.files = @ \ {c.file}, !.late = @ \ {c}]
              /\ hist' = Took(hist, c.op, c.file)
           \/ dev' = [dev EXCEPT !.late = @ \ {c}] /\ UNCHANGED hist
        /\ UNCHANGED <<p, disk, port, sess, job, left>>

\* A lost session and another device call for the cable; otherwise it is bounded.
Called == port = "alien" \/ sess = "lost"

Unplugged(w) ==
    LET act == w.p.act
        q == [w EXCEPT !.sess = "off", !.job = IF @ = NoJob THEN @ ELSE [@ EXCEPT !.live = FALSE]]
    IN CASE act = None -> {q}
         [] act # None /\ w.p.ops[act].stage = "Converting" -> Finish(q, act, "", "Retained")
         [] OTHER -> {[q EXCEPT !.p.ops[act].dcp = TRUE]}

Unplug ==
    /\ port # "none" /\ (Called \/ left.unplugs > 0)
    /\ port' = "none"
    /\ \E w \in Unplugged([World EXCEPT !.left.unplugs = IF Called THEN @ ELSE @ - 1]) :
          Become(w)
    /\ UNCHANGED dev

PlugMine ==
    /\ port = "none" /\ port' = "mine"
    /\ UNCHANGED <<p, disk, dev, sess, job, left, hist>>

PlugAlien ==
    /\ port = "none" /\ left.unplugs > 0 /\ port' = "alien"
    /\ left' = [left EXCEPT !.unplugs = @ - 1]
    /\ UNCHANGED <<p, disk, dev, sess, job, hist>>

\* The worker is free to open the session when it has no job.
Activate ==
    /\ p.up /\ sess = "off" /\ port # "none" /\ job = NoJob /\ ~p.blocked
    /\ LET w == [World EXCEPT !.sess = "on"]
       IN Become(IF port = "mine" THEN ResumeReplace(ResumeDelete(w)) ELSE w)
    /\ UNCHANGED <<dev, port>>

-----------------------------------------------------------------------------
Init ==
    /\ p = [Down EXCEPT !.up = TRUE]
    /\ disk = [journal |-> None, intent |-> None]
    /\ dev \in [files : {{Original}}, refs : {{Original}}, late : {{}}]
    /\ port = "mine" /\ sess = "on" /\ job = NoJob
    /\ left = [faults |-> MaxFaults, crashes |-> MaxCrashes, unplugs |-> MaxUnplugs]
    /\ hist = [begun |-> {}, target |-> None, sent |-> [o \in Operations |-> 0],
               applies |-> 0, took |-> {}, verdict |-> [o \in Operations |-> "none"]]

User == StartReplace \/ \E f \in Files : StartDelete(f) \/ UserApply(f)

Upload == Prepared \/ GiveUp \/ DeviceStoresCopy \/ UploadVerified

Worker ==
    \/ WorkerPreflight \/ WorkerApply \/ WorkerCheck \/ WorkerPersist \/ WorkerSend
    \/ WorkerReread \/ WorkerReconcile \/ WorkerReconcileFails

Connection == Unplug \/ PlugMine \/ PlugAlien \/ Activate

Next ==
    \/ User \/ Upload \/ Worker \/ Answer \/ LateEffect \/ Connection \/ Crash \/ Boot

Spec == Init /\ [][Next]_vars

\* The runtime is started again, its threads run, the user reconnects a device
\* whose session was lost, and a list is read once in a while.
Fairness ==
    /\ WF_vars(Boot) /\ WF_vars(Worker) /\ WF_vars(Answer) /\ WF_vars(Activate)
    /\ WF_vars(Unplug /\ Called) /\ SF_vars(PlugMine) /\ SF_vars(WorkerReconcile)

FairSpec == Spec /\ Fairness

-----------------------------------------------------------------------------
\* Every variable stays within the values its declaration names.
TypeOK ==
    /\ p \in Memories
    /\ disk.journal \in JournalRecords \cup {None} /\ disk.intent \in Intents \cup {None}
    /\ dev \in [files : SUBSET Files, refs : SUBSET Files, late : SUBSET [op : Operations, file : Files]]
    /\ port \in {"none", "mine", "alien"} /\ sess \in {"off", "on", "lost"}
    /\ job \in Jobs \cup {NoJob}
    /\ left \in [faults : 0 .. MaxFaults, crashes : 0 .. MaxCrashes, unplugs : 0 .. MaxUnplugs]
    /\ hist \in Hist

\* Neither the layout nor a removal is sent a second time for one operation,
\* whatever was lost or crashed on the way (resumePendingDeleteReconciliation
\* and resumePendingReplaceReconciliation only read).
NothingRepeated ==
    /\ hist.applies <= 1
    /\ \A op \in Operations : hist.sent[op] <= 1

\* The journal knows at least as much as the device: nothing is sent of which it
\* would say, after a restart, that it was not (UploadVerified's ams before Apply,
\* ArmRemoval's frs before FileRemove).
WriteAhead ==
    disk.journal # None =>
        /\ hist.applies > 0 => disk.journal.ams
        /\ hist.sent[Replace] > 0 => disk.journal.frs
        /\ disk.journal.upv /\ hist.target # Copy => Copy \in dev.files

\* The removal of a file is requested only while no layout shows it and, in a
\* replacement, the copy is on the device (removeUserMedia, after the reference
\* proof of handleReplacePreflightFinished).
SentSafely ==
    [][hist'.sent # hist.sent =>
          /\ job.file \notin dev.refs
          /\ hist'.sent[Replace] > hist.sent[Replace] =>
                Copy \in dev.files /\ job.file = Original]_vars

\* Of a removal that may still happen to a file that is there, the disk keeps the
\* record that a restart acts on: the intent of a plain deletion, the journal of
\* a replacement.
RemovalIsRemembered ==
    \A c \in dev.late :
        c.file \in dev.files =>
            IF c.op = Delete
            THEN disk.intent # None /\ disk.intent.op = Delete /\ disk.intent.may
            ELSE disk.journal # None /\ disk.journal.frs /\ disk.journal.stage # "Terminal"

\* The two records on disk never know less than the device (replacejournal.cpp and
\* deleteintentstore.cpp, written before the requests they stand for).
RecordsKnow == TypeOK /\ WriteAhead /\ RemovalIsRemembered

\* What is reported is so: a file reported removed is not there, and a removal
\* reported not done neither was nor will be (finishOperation's outcomes).
VerdictIsTrue ==
    /\ hist.verdict[Replace] = "Replaced" => Original \notin dev.files
    /\ hist.verdict[Delete] = "Deleted" => hist.target \notin dev.files
    /\ \A op \in Operations :
          hist.verdict[op] = "Retained" =>
              op \notin hist.took /\ \A c \in dev.late : c.op # op

\* A replacement whose removal took effect is settled in the end, unless a write
\* failed or a plain deletion was asked for (the reconciliation that every new
\* session starts, and finishOperation).
RemovedIsSettled ==
    Replace \in hist.took
        ~> disk.journal = None \/ Delete \in hist.begun \/ left.faults < MaxFaults

=============================================================================
