--------------------------- MODULE RuntimeClient ---------------------------
(***************************************************************************)
(* The GUI's view of the runtime (quick/runtimeclient.cpp) against the     *)
(* D-Bus service (runtimebridge.cpp).  The client learns of owner changes  *)
(* and of changes in the runtime by signals and asks for snapshots; epochs, *)
(* attempts and revisions decide which answers it may still use.  A display *)
(* submission is confirmed by its operation and by a coherent display      *)
(* snapshot together.                                                      *)
(*                                                                         *)
(* A call is addressed to the owner it was made for and handled in order,  *)
(* and what comes back is delivered in order but for an overtaking;        *)
(* `live' says that no epoch or handshake has begun since, `fresh' that no *)
(* later attempt of its kind has: they stand for the numbers the callbacks *)
(* capture.  One printer-class device and a runtime that has the display   *)
(* snapshot; metrics, media, specifications and the legacy path are left   *)
(* out.                                                                    *)
(***************************************************************************)
EXTENDS Integers, Sequences, SequencesExt, FiniteSets

CONSTANTS
    Submissions,     \* display changes the user sends
    Other,           \* an operation of another client
    None,
    MaxLosses,       \* of the runtime or the device, together
    MaxTroubles      \* silent revisions, timeouts, overtakings and deadlines together

ASSUME OtherIsOther == Other \notin Submissions /\ None \notin Submissions \cup {Other}

VARIABLES
    owner,           \* of the service name, 0 when there is none
    owners,          \* runtimes started so far
    rt,              \* what the runtime would answer
    calls,           \* calls the runtime has not handled, in the order they were made
    mail,            \* answers and signals on their way to the client, in order
    client, sub,     \* the client and its display submission
    said,            \* history: the result reported for a submission
    taken,           \* history: submissions some runtime has accepted, and their end
    spent            \* bounded events so far, by kind

bus == <<owner, owners, rt>>
gui == <<client, sub, said>>
vars == <<bus, calls, mail, gui, taken, spent>>

Ids == Submissions \cup {Other}
States == {"none", "active", "succeeded", "failed", "partial"}
Ends == {"succeeded", "failed", "partial"}
Calls == {"version", "caps", "conn", "devcaps", "ops", "display", "submit", "lost", "getop"}
MaximumRefreshes == 3
MaxRevision == 12

Never == [i \in Ids |-> 0]
NoOps == [rev |-> 0, of |-> 0, st |-> [i \in Ids |-> "none"]]
NoConn == [rev |-> 0, of |-> 0, up |-> FALSE]
NoDisp == [rev |-> 0, of |-> 0, by |-> None, ok |-> FALSE, crev |-> 0, gen |-> 0]
NoCaps == [ready |-> FALSE, rev |-> 0, gen |-> 0]
NoSub == [id |-> None, start |-> 0, gen |-> 0, live |-> FALSE,
          matched |-> FALSE, ended |-> FALSE, told |-> FALSE]

\* A runtime that has just taken the name: no device is connected yet.
Fresh ==
    [rev |-> 0, up |-> FALSE, gen |-> 0, ops |-> 0, st |-> [i \in Ids |-> "none"], gens |-> Never,
     disp |-> 0, by |-> None, ok |-> FALSE]

ActiveOf(r) == LET on == {i \in Ids : r.st[i] = "active"} IN IF on = {} THEN None ELSE CHOOSE i \in on : TRUE

TypeOK ==
    /\ owner \in 0 .. MaxLosses + 1 /\ owners \in 0 .. MaxLosses + 1
    /\ rt.rev \in 0 .. MaxRevision /\ rt.ops \in 0 .. MaxRevision /\ rt.disp \in 0 .. MaxRevision
    /\ DOMAIN rt.st = Ids /\ \A i \in Ids : rt.st[i] \in States
    /\ Cardinality({i \in Ids : rt.st[i] = "active"}) <= 1
    /\ \A i \in DOMAIN calls : calls[i].to \in 1 .. owners
    /\ client.owner \in 0 .. owners
    /\ client.capsReady => client.compatible
    /\ client.caps.ready => client.capsReady /\ client.conn.up /\ client.caps.rev = client.conn.rev
    /\ client.refreshes \in 0 .. MaximumRefreshes
    /\ sub.id \in Submissions \cup {None}
    /\ DOMAIN said = Submissions

Losses == spent.reconnects + IF owner = 0 THEN owners ELSE owners - 1

\* Each kind of trouble once, MaxTroubles together.
Spare(kind) ==
    spent[kind] = 0 /\ spent.silent + spent.timeouts + spent.overtakes + spent.deadlines < MaxTroubles

(***************************************************************************)
(* The handlers work on a bundle of the client's state and the calls.      *)
(***************************************************************************)
Now == [c |-> client, q |-> calls, m |-> mail, sub |-> sub, said |-> said]

Commit(s) ==
    /\ client' = s.c /\ calls' = s.q /\ mail' = s.m /\ sub' = s.sub /\ said' = s.said

\* handshakeContextIsCurrent, for a call made in this epoch and handshake.
Context(s) == s.c.avail /\ s.c.owner # 0 /\ owner = s.c.owner

InContext(s, call) == Context(s) /\ call.live /\ call.to = s.c.owner

SignalContext(s, g) == Context(s) /\ g.of = s.c.owner

Send(s, kind, arg) ==
    [s EXCEPT !.q = Append(@, [kind |-> kind, to |-> s.c.owner, live |-> TRUE, fresh |-> TRUE, arg |-> arg])]

Stale(calls_, kinds) ==
    [i \in DOMAIN calls_ |-> IF calls_[i].kind \in kinds THEN [calls_[i] EXCEPT !.fresh = FALSE] ELSE calls_[i]]

\* A new attempt of these kinds: the answers of earlier ones are not wanted any more.
Outdate(s, kinds) == [s EXCEPT !.q = Stale(@, kinds), !.m = Stale(@, kinds)]

Dead(calls_) ==
    [i \in DOMAIN calls_ |-> IF calls_[i].kind \in Calls THEN [calls_[i] EXCEPT !.live = FALSE, !.fresh = FALSE]
                             ELSE calls_[i]]

\* A new epoch or handshake.
Disown(s) == [s EXCEPT !.q = Dead(@), !.m = Dead(@), !.sub.live = FALSE]

(***************************************************************************)
(* The display submission                                                  *)
(***************************************************************************)
Pending(s) == s.sub.id # None /\ ~s.sub.told

\* A result is reported once; an unresolved submission stays until it is abandoned.
Finish(s, outcome) ==
    IF ~Pending(s) THEN s
    ELSE [s EXCEPT !.said[s.sub.id] = outcome,
                   !.sub = IF outcome = "Unresolved" THEN [@ EXCEPT !.told = TRUE] ELSE NoSub]

DisplayContext(s, d) ==
    /\ s.c.compatible /\ s.c.capsReady /\ s.c.caps.ready /\ s.c.conn.up
    /\ d.crev = s.c.conn.rev /\ d.gen # 0 /\ d.gen = s.c.caps.gen
    /\ s.c.caps.rev = s.c.conn.rev

DisplayValid(s) == ~s.c.dispFailed /\ s.c.disp.ok /\ DisplayContext(s, s.c.disp)

SubmissionContext(s) == DisplayValid(s) /\ s.sub.live /\ s.sub.gen = s.c.disp.gen

\* Mutant: an end seen before the display is forgotten
ObservedOnce(s, id, state, gen) ==
    IF ~Pending(s) \/ id # s.sub.id \/ gen # s.sub.gen THEN s
    ELSE IF state = "succeeded"
    THEN IF s.sub.matched /\ SubmissionContext(s) THEN Finish(s, "Succeeded") ELSE s
    ELSE IF state = "partial" THEN Finish(s, "Unresolved")
    ELSE IF state = "failed" THEN Finish(s, "Failed")
    ELSE s

\* observeDisplaySubmissionOperation
Observed(s, id, state, gen) ==
    IF ~Pending(s) \/ id # s.sub.id \/ gen # s.sub.gen THEN s
    ELSE IF state = "succeeded"
    THEN LET t == [s EXCEPT !.sub.ended = TRUE]
         IN  IF t.sub.matched /\ SubmissionContext(t) THEN Finish(t, "Succeeded") ELSE t
    ELSE IF state = "partial" THEN Finish(s, "Unresolved")
    ELSE IF state = "failed" THEN Finish(s, "Failed")
    ELSE s

(***************************************************************************)
(* Forgetting                                                              *)
(***************************************************************************)
ClearDeviceCapabilities(s) ==
    Outdate([s EXCEPT !.c.caps = NoCaps, !.c.dispPending = FALSE, !.c.dispAgain = FALSE],
            {"devcaps", "display"})

ClearCapabilities(s) ==
    ClearDeviceCapabilities([s EXCEPT !.c.capsPending = FALSE, !.c.capsReady = FALSE, !.c.refreshes = 0])

Nothing ==
    [avail |-> FALSE, owner |-> 0, compatible |-> FALSE, hsPending |-> FALSE,
     capsPending |-> FALSE, capsReady |-> FALSE, conn |-> NoConn, caps |-> NoCaps,
     ops |-> NoOps, active |-> None, opsReady |-> FALSE, opsPending |-> FALSE,
     disp |-> NoDisp, dispPending |-> FALSE, dispAgain |-> FALSE, dispFailed |-> FALSE,
     refreshes |-> 0]

ClearRuntime(s) ==
    Disown(ClearCapabilities([s EXCEPT !.c = [Nothing EXCEPT !.avail = s.c.avail]]))

(***************************************************************************)
(* Asking                                                                  *)
(***************************************************************************)
StartHandshake(s) ==
    IF ~s.c.avail \/ s.c.hsPending THEN s
    ELSE IF owner = 0 THEN [s EXCEPT !.c.compatible = FALSE]
    ELSE Send(ClearCapabilities(Disown([s EXCEPT !.c.owner = owner, !.c.hsPending = TRUE])),
              "version", 0)

StartCapabilities(s) ==
    IF s.c.capsPending \/ s.c.capsReady \/ ~Context(s) THEN s
    ELSE Send([s EXCEPT !.c.capsPending = TRUE], "caps", 0)

RefreshConnection(s) == IF Context(s) THEN Send(s, "conn", 0) ELSE s

RefreshOperations(s, remaining) ==
    IF s.c.opsPending \/ ~Context(s) THEN s
    ELSE Send([s EXCEPT !.c.opsPending = TRUE], "ops", remaining)

RequestDeviceCapabilities(s) ==
    LET t == ClearDeviceCapabilities(s)
    IN  IF ~Context(s) \/ ~s.c.capsReady \/ ~s.c.conn.up \/ s.c.conn.rev = 0 THEN t
        ELSE Send(t, "devcaps", s.c.conn.rev)

\* One read at a time; a change meanwhile is remembered.
RefreshDisplay(s) ==
    IF ~s.c.capsReady \/ ~s.c.caps.ready \/ ~Context(s) THEN s
    ELSE IF s.c.dispPending THEN [s EXCEPT !.c.dispAgain = TRUE]
    ELSE Send(Outdate([s EXCEPT !.c.dispPending = TRUE], {"display"}), "display", s.c.conn.rev)

\* A later connection revision is read again, a bounded number of times.
Reconcile(s, seen) ==
    IF seen <= s.c.conn.rev \/ ~Context(s) \/ s.c.refreshes >= MaximumRefreshes THEN s
    ELSE RefreshConnection([s EXCEPT !.c.refreshes = @ + 1])

RefreshAll(s) ==
    LET t == [s EXCEPT !.c.refreshes = 0]
    IN  IF ~t.c.avail THEN t
        ELSE IF ~t.c.compatible THEN StartHandshake(t)
        ELSE RefreshDisplay(RefreshOperations(RefreshConnection(StartCapabilities(t)), 1))

(***************************************************************************)
(* Taking a snapshot                                                       *)
(***************************************************************************)
\* Mutant: the last answer wins
NotNewerNever(rev, known) == FALSE

NotNewer(rev, known) == rev <= known /\ known # 0

ApplyConnection(s, v) ==
    IF NotNewer(v.rev, s.c.conn.rev) THEN s
    ELSE LET boundary == s.c.conn.up # v.up \/ ~v.up
             t == ClearDeviceCapabilities([s EXCEPT !.c.conn = v])
             u == IF boundary THEN Finish(t, "Unresolved") ELSE t
         IN  IF u.c.capsReady THEN RequestDeviceCapabilities(u) ELSE u

\* displaySubmissionMatches: what is displayed is abstracted to whose change it is.
Displays(s, v) == v.ok /\ v.by = s.sub.id

\* The display snapshot of the submission itself, after the state it was sent in.
Matched(s, v) ==
    IF ~Pending(s) \/ v.rev <= s.sub.start THEN s
    ELSE LET t == [s EXCEPT !.sub.matched = Displays(s, v) /\ SubmissionContext(s)]
         IN  IF t.sub.matched /\ t.sub.ended THEN Finish(t, "Succeeded") ELSE t

Acceptable(s, v) ==
    /\ DisplayContext(s, v) /\ v.rev >= s.c.disp.rev
    /\ v.rev = s.c.disp.rev => [s.c.disp EXCEPT !.crev = v.crev] = v

\* applyDisplaySnapshotV1, once it is acceptable.
ApplyDisplay(s, v) ==
    IF v = s.c.disp /\ ~s.c.dispFailed THEN s
    ELSE Matched([s EXCEPT !.c.disp = v, !.c.dispFailed = FALSE,
                           !.c.refreshes = IF v.ok THEN 0 ELSE @], v)

ObservedAll(s, v) ==
    LET Add(id, t) == Observed(t, id, v.st[id], v.gens[id])
    IN  FoldSet(Add, s, Ids)

\* applyOperationsSnapshot: at the revision of the list, it may still say what is active.
ApplyOperations(s, v) ==
    IF NotNewer(v.rev, s.c.ops.rev) /\ (s.c.opsReady \/ v.rev # s.c.ops.rev) THEN s
    ELSE ObservedAll(
            [s EXCEPT !.c.ops = IF NotNewer(v.rev, @.rev) THEN @ ELSE [rev |-> v.rev, of |-> v.of, st |-> v.st],
                      !.c.active = v.active, !.c.opsReady = TRUE], v)

(***************************************************************************)
(* Answers                                                                 *)
(***************************************************************************)
OnVersion(s, call) ==
    LET t == IF call.live THEN [s EXCEPT !.c.hsPending = FALSE] ELSE s
    IN  IF ~InContext(t, call) THEN t
        ELSE IF call.state = "error" THEN [t EXCEPT !.c.compatible = FALSE]
        ELSE RefreshAll(StartCapabilities([t EXCEPT !.c.compatible = TRUE]))

OnCapabilities(s, call) ==
    LET t == IF call.live THEN [s EXCEPT !.c.capsPending = FALSE] ELSE s
    IN  IF ~InContext(t, call) THEN t
        ELSE IF call.state = "error" THEN ClearDeviceCapabilities([t EXCEPT !.c.capsReady = FALSE])
        ELSE RequestDeviceCapabilities([t EXCEPT !.c.capsReady = TRUE])

OnConnection(s, call) ==
    IF ~InContext(s, call) \/ call.state = "error" THEN s ELSE ApplyConnection(s, call.value)

OnDeviceCapabilities(s, call) ==
    LET v == call.value
    IN  IF \/ ~InContext(s, call) \/ ~call.fresh \/ ~s.c.conn.up \/ s.c.conn.rev # call.arg
           \/ call.state = "error" THEN s
        ELSE IF v.gen = 0 THEN s
        ELSE IF v.rev # call.arg THEN Reconcile(s, v.rev)
        ELSE RefreshDisplay([s EXCEPT !.c.caps = [ready |-> TRUE, rev |-> v.rev, gen |-> v.gen]])

Older(s, v) == ~s.c.opsReady /\ v.rev < s.c.ops.rev

OnOperations(s, call) ==
    LET t == [s EXCEPT !.c.opsPending = FALSE]
    IN  IF ~InContext(s, call) THEN s
        ELSE IF call.state = "error" THEN t
        ELSE IF Older(s, call.value)
        THEN IF call.arg > 0 THEN RefreshOperations(t, call.arg - 1) ELSE t
        ELSE ApplyOperations(t, call.value)

OnDisplay(s, call) ==
    LET v == call.value
        t == [s EXCEPT !.c.dispPending = FALSE]
        failed == [t EXCEPT !.c.dispFailed = TRUE]
        u == IF call.arg # t.c.conn.rev THEN t
             ELSE IF call.state = "error" THEN failed
             ELSE IF Acceptable(t, v) THEN ApplyDisplay(t, v)
             ELSE IF v.gen = t.c.caps.gen THEN Reconcile(failed, v.crev) ELSE failed
    IN  IF ~call.fresh THEN s
        ELSE IF ~InContext(s, call) THEN t
        ELSE IF u.c.dispAgain THEN RefreshDisplay([u EXCEPT !.c.dispAgain = FALSE]) ELSE u

\* Mutant: an error is a refusal
OnSubmitTrusting(s, call) ==
    IF ~InContext(s, call) THEN Finish(s, "Unresolved")
    ELSE IF call.state = "error" \/ call.value # call.arg THEN Finish(s, "Rejected")
    ELSE RefreshOperations(s, 1)

\* An error, or another identity, is looked into before anything is said.
OnSubmit(s, call) ==
    IF ~InContext(s, call) THEN IF s.sub.id = call.arg THEN Finish(s, "Unresolved") ELSE s
    ELSE IF call.state = "error" \/ call.value # call.arg THEN Send(s, "getop", call.arg)
    ELSE RefreshOperations(s, 1)

\* reconcileOperationAcknowledgement: absent is rejected, no answer is unresolved.
OnGetOperation(s, call) ==
    LET mine == s.sub.id = call.arg
    IN  IF ~InContext(s, call) \/ call.state = "error" THEN IF mine THEN Finish(s, "Unresolved") ELSE s
        ELSE IF call.value # "none" THEN RefreshOperations(s, 1)
        ELSE IF mine THEN Finish(s, "Rejected") ELSE s

(***************************************************************************)
(* Signals                                                                 *)
(***************************************************************************)
\* onServiceRegistered: what the runtimeInvalidated hook leaves unresolved is told first.
OnRegistered(s) ==
    StartHandshake([ClearRuntime(Finish(s, "Unresolved")) EXCEPT !.c.avail = TRUE])

OnUnregistered(s) == [ClearRuntime(Finish(s, "Unresolved")) EXCEPT !.c.avail = FALSE]

OnOperationChanged(s, g) ==
    IF ~s.c.compatible \/ ~SignalContext(s, g) \/ NotNewer(g.rev, s.c.ops.rev) THEN s
    ELSE Observed([s EXCEPT !.c.ops = [rev |-> g.rev, of |-> g.of, st |-> [@.st EXCEPT ![g.id] = g.st]],
                            !.c.active = IF g.st = "active" THEN g.id
                                         ELSE IF @ = g.id THEN None ELSE @],
                  g.id, g.st, g.gen)

OnDeviceConnected(s) ==
    IF ~s.c.compatible THEN s ELSE RefreshDisplay(RefreshConnection(ClearDeviceCapabilities(s)))

OnDeviceDisconnected(s, g) ==
    IF ~s.c.compatible THEN s
    ELSE RefreshConnection(ApplyConnection(Finish(s, "Unresolved"), [rev |-> g.rev, of |-> g.of, up |-> FALSE]))

OnDisplaySessionChanged(s, g) ==
    IF ~s.c.compatible THEN s
    ELSE LET t == ClearDeviceCapabilities(s)
             u == IF g.up THEN t ELSE Finish(t, "Unresolved")
         IN  RefreshDisplay(RefreshConnection(u))

OnDisplayChanged(s, g) ==
    IF s.c.compatible /\ SignalContext(s, g) /\ g.rev > s.c.disp.rev THEN RefreshDisplay(s) ELSE s

Handled(s, g) ==
    CASE g.kind = "version" -> OnVersion(s, g)
      [] g.kind = "caps" -> OnCapabilities(s, g)
      [] g.kind = "conn" -> OnConnection(s, g)
      [] g.kind = "devcaps" -> OnDeviceCapabilities(s, g)
      [] g.kind = "ops" -> OnOperations(s, g)
      [] g.kind = "display" -> OnDisplay(s, g)
      [] g.kind = "submit" -> OnSubmit(s, g)
      [] g.kind = "getop" -> OnGetOperation(s, g)
      [] g.kind = "registered" -> OnRegistered(s)
      [] g.kind = "unregistered" -> OnUnregistered(s)
      [] g.kind = "operation" -> OnOperationChanged(s, g)
      [] g.kind = "connected" -> OnDeviceConnected(s)
      [] g.kind = "disconnected" -> OnDeviceDisconnected(s, g)
      [] g.kind = "session" -> OnDisplaySessionChanged(s, g)
      [] g.kind = "changed" -> OnDisplayChanged(s, g)

\* The bus keeps the order of what it delivers.
Deliver ==
    /\ mail # <<>>
    /\ Commit(Handled([Now EXCEPT !.m = Tail(@)], Head(mail)))
    /\ UNCHANGED <<bus, taken, spent>>

\* The client relies on it among the signals, and for what a new owner sends; not
\* between the answers and the signals of one owner, nor for the late answers of
\* an owner that is gone.
Overtake ==
    /\ Spare("overtakes")
    /\ spent' = [spent EXCEPT !.overtakes = @ + 1]
    /\ \E i \in DOMAIN mail \ {1} :
          /\ \A j \in 1 .. i - 1 : IF mail[i].kind \in Calls
                                   THEN mail[j].kind \notin {"registered", "unregistered"}
                                   ELSE mail[j].kind \in Calls
          /\ Commit(Handled([Now EXCEPT !.m = RemoveAt(@, i)], mail[i]))
    /\ UNCHANGED <<bus, taken>>

(***************************************************************************)
(* The user                                                                *)
(***************************************************************************)
\* beginDisplaySubmission
Submit(id) ==
    /\ said[id] = "nothing" /\ sub.id = None
    /\ client.capsReady /\ client.active = None /\ DisplayValid(Now)
    /\ LET s == [Now EXCEPT !.sub = [NoSub EXCEPT !.id = id, !.start = client.disp.rev,
                                                  !.gen = client.disp.gen, !.live = TRUE]]
       IN  Commit(IF Context(s) THEN Send(s, "submit", id) ELSE Finish(s, "Failed"))
    /\ UNCHANGED <<bus, taken, spent>>

\* onDisplayApplyTimeout
Deadline ==
    /\ Pending(Now) /\ Spare("deadlines")
    /\ spent' = [spent EXCEPT !.deadlines = @ + 1]
    /\ Commit(Finish(Now, "Unresolved"))
    /\ UNCHANGED <<bus, taken>>

(***************************************************************************)
(* The runtime                                                             *)
(***************************************************************************)
Signal(kind, rev) == [kind |-> kind, rev |-> rev, of |-> owner]

Answered(call, state, value) ==
    [kind |-> call.kind, to |-> call.to, live |-> call.live, fresh |-> call.fresh, arg |-> call.arg,
     state |-> state, value |-> value]

Awaited == SelectSeq(calls, LAMBDA call : call.kind # "lost")

Start ==
    /\ owner = 0
    /\ owner' = owners + 1 /\ owners' = owners + 1
    /\ rt' = Fresh
    /\ mail' = Append(mail, [kind |-> "registered"])
    /\ UNCHANGED <<calls, gui, taken, spent>>

\* What it has sent is still delivered; the calls it has not answered fail.
Die ==
    /\ owner # 0 /\ Losses < MaxLosses
    /\ owner' = 0
    /\ mail' = mail \o <<[kind |-> "unregistered"]>> \o [i \in DOMAIN Awaited |-> Answered(Awaited[i], "error", None)]
    /\ calls' = <<>>
    /\ UNCHANGED <<owners, rt, gui, taken, spent>>

ConnectionNow == [rev |-> rt.rev, of |-> owner, up |-> rt.up]

DisplayNow == [rev |-> rt.disp, of |-> owner, by |-> rt.by, ok |-> rt.ok, crev |-> rt.rev, gen |-> rt.gen]

OperationsNow == [rev |-> rt.ops, of |-> owner, st |-> rt.st, gens |-> rt.gens, active |-> ActiveOf(rt)]

Accepts(id) == rt.up /\ ActiveOf(rt) = None /\ rt.st[id] = "none"

\* An operation begins; a display change makes the snapshot pending at once.
Begun(id) == [rt EXCEPT !.st[id] = "active", !.gens[id] = rt.gen, !.ops = @ + 1,
                        !.disp = @ + 1, !.ok = FALSE, !.by = None]

OperationSignal(r, id) ==
    [kind |-> "operation", rev |-> r.ops, of |-> owner, id |-> id, st |-> r.st[id], gen |-> r.gens[id]]

Ended(id, end) == IF id \in Submissions THEN [taken EXCEPT ![id] = end] ELSE taken

\* queueApplyOperation: what cannot be begun is recorded as a failed operation.
Refused(id) == [rt EXCEPT !.st[id] = "failed", !.gens[id] = rt.gen, !.ops = @ + 1]

Queued(id) == IF rt.st[id] # "none" THEN rt ELSE IF Accepts(id) THEN Begun(id) ELSE Refused(id)

Told(before, after, id) ==
    (IF after.ops # before.ops THEN <<OperationSignal(after, id)>> ELSE <<>>) \o
    (IF after.disp # before.disp THEN <<Signal("changed", after.disp)>> ELSE <<>>)

Value(call) ==
    CASE call.kind = "conn" -> ConnectionNow
      [] call.kind = "devcaps" -> [rev |-> rt.rev, gen |-> IF rt.up THEN rt.gen ELSE 0]
      [] call.kind = "ops" -> OperationsNow
      [] call.kind = "display" -> DisplayNow
      [] call.kind = "getop" -> rt.st[call.arg]
      [] OTHER -> call.arg

\* The calls of a connection are handled in order; a call given up by its caller is handled
\* too.  No call is made to a runtime that is gone, and those under way fail with it.
Answer ==
    /\ calls # <<>>
    /\ calls' = Tail(calls)
    /\ LET call == Head(calls)
           submitted == call.kind \in {"submit", "lost"}
       IN  /\ rt' = IF submitted THEN Queued(call.arg) ELSE rt
           /\ mail' = mail \o (IF submitted THEN Told(rt, rt', call.arg) ELSE <<>>) \o
                  (IF call.kind = "lost" THEN <<>> ELSE <<Answered(call, "answered", Value(call))>>)
           /\ taken' = IF submitted THEN Ended(call.arg, rt'.st[call.arg]) ELSE taken
           /\ UNCHANGED <<owner, owners, gui, spent>>

\* The caller gives up, or is told that the call failed: the runtime still handles it, or never gets it.
Timeout ==
    /\ Spare("timeouts")
    /\ spent' = [spent EXCEPT !.timeouts = @ + 1]
    /\ \E i \in DOMAIN calls :
          /\ calls[i].kind # "lost"
          /\ mail' = Append(mail, Answered(calls[i], "error", None))
          /\ calls' \in {RemoveAt(calls, i)} \cup
                 IF calls[i].kind = "submit" THEN {[calls EXCEPT ![i].kind = "lost"]} ELSE {}
    /\ UNCHANGED <<bus, gui, taken>>

\* Another client changes the display.
OtherBegins ==
    /\ owner # 0 /\ Accepts(Other)
    /\ rt' = Begun(Other)
    /\ mail' = mail \o Told(rt, rt', Other)
    /\ UNCHANGED <<owner, owners, calls, gui, taken, spent>>

\* finishApplyOperation: the accepted display is published, then the end, then ScreenConfigChanged.
OperationEnds ==
    /\ owner # 0 /\ ActiveOf(rt) # None
    /\ \E end \in IF ActiveOf(rt) = Other THEN {"succeeded", "failed"} ELSE Ends :
          LET id == ActiveOf(rt)
              done == end = "succeeded"
          IN  /\ rt' = [rt EXCEPT !.st[id] = end, !.ops = @ + 1, !.disp = @ + 1, !.ok = end # "partial",
                                  !.by = IF done THEN id ELSE None, !.rev = IF done THEN @ + 1 ELSE @]
              /\ mail' = mail \o Told(rt, rt', id)
              /\ taken' = Ended(id, end)
    /\ UNCHANGED <<owner, owners, calls, gui, spent>>

\* The device or its session is lost: its operation ends without a known outcome.
Disconnect ==
    /\ owner # 0 /\ rt.up /\ Losses < MaxLosses
    /\ spent' = [spent EXCEPT !.reconnects = @ + 1]
    /\ LET id == ActiveOf(rt)
           r == IF id = None THEN rt ELSE [rt EXCEPT !.st[id] = "partial", !.ops = @ + 1]
           ended == IF id = None THEN <<>> ELSE <<OperationSignal(r, id)>>
       IN  /\ rt' = [r EXCEPT !.up = FALSE, !.rev = @ + 2, !.disp = @ + 1, !.ok = FALSE, !.by = None]
           /\ mail' = mail \o ended \o
                  <<[kind |-> "session", up |-> FALSE, of |-> owner], Signal("disconnected", rt'.rev),
                    Signal("changed", rt'.disp)>>
           /\ taken' = Ended(id, "partial")
    /\ UNCHANGED <<owner, owners, calls, gui>>

\* A device is attached and its display session established.
Connect ==
    /\ owner # 0 /\ ~rt.up
    /\ rt' = [rt EXCEPT !.up = TRUE, !.rev = @ + 2, !.gen = @ + 1, !.disp = @ + 1, !.ok = TRUE, !.by = None]
    /\ mail' = mail \o <<Signal("connected", rt.rev + 1), [kind |-> "session", up |-> TRUE, of |-> owner],
                               Signal("changed", rt'.disp)>>
    /\ UNCHANGED <<owner, owners, calls, gui, taken, spent>>

\* Catalogue and metrics events advance the connection's revision and tell nothing of the display.
SilentRevision ==
    /\ owner # 0 /\ Spare("silent")
    /\ spent' = [spent EXCEPT !.silent = @ + 1]
    /\ rt' = [rt EXCEPT !.rev = @ + 1]
    /\ UNCHANGED <<owner, owners, calls, mail, gui, taken>>

Init ==
    /\ owner = 0 /\ owners = 0 /\ rt = Fresh
    /\ calls = <<>> /\ mail = <<>>
    /\ client = Nothing /\ sub = NoSub
    /\ said = [i \in Submissions |-> "nothing"]
    /\ taken = [i \in Submissions |-> "nothing"]
    /\ spent = [reconnects |-> 0, silent |-> 0, timeouts |-> 0, overtakes |-> 0, deadlines |-> 0]

RuntimeSteps == Start \/ Die \/ Answer \/ OtherBegins \/ OperationEnds \/ Disconnect \/ Connect \/ SilentRevision

Next ==
    \/ Deliver \/ Overtake \/ Timeout
    \/ (\E id \in Submissions : Submit(id)) \/ Deadline
    \/ RuntimeSteps

Spec == Init /\ [][Next]_vars

(***************************************************************************)
(* Properties                                                              *)
(***************************************************************************)
Quiet == calls = <<>> /\ mail = <<>> /\ owner # 0

\* What the client shows and decides by comes from the runtime it has shaken
\* hands with, never from an earlier owner of the name whose answer or signal
\* arrives late.
NothingOfAnotherOwner ==
    \A snapshot \in {client.conn, client.ops, client.disp} : snapshot.of \in {0, client.owner}

\* Once everything is delivered, the client that has the list of operations
\* knows which one is active, whatever the order of the list and the signals:
\* this is what opens and closes its buttons.
ActiveIsCurrent ==
    Quiet /\ client.compatible /\ client.opsReady => client.active = ActiveOf(rt)

\* A display shown as confirmed is the runtime's display, once everything is
\* delivered: no later snapshot has been missed.
DisplayIsTrue ==
    Quiet /\ DisplayValid(Now) => client.disp.rev = rt.disp /\ client.disp.by = rt.by /\ rt.ok

\* What the client shows is of the runtime it talks to, and current once everything is
\* delivered.
ViewIsCurrent == TypeOK /\ NothingOfAnotherOwner /\ ActiveIsCurrent /\ DisplayIsTrue

\* A change whose operation succeeded and whose display stands is reported to
\* the user: no order of the end, the hint and the snapshot leaves it waiting
\* for the deadline, unless a call was given up, the connection kept changing or
\* the client has no capabilities of the device.
SuccessIsReported ==
    Quiet /\ sub.id # None /\ rt.st[sub.id] = "succeeded" /\ rt.by = sub.id /\ client.caps.ready
      /\ spent.timeouts = 0 /\ client.refreshes < MaximumRefreshes => ~Pending(Now)

\* A result is the truth: success only if the runtime completed the change,
\* refusal only if no runtime took it or will still take it.
OutcomeIsTrue ==
    \A id \in Submissions :
       /\ said[id] = "Succeeded" => taken[id] = "succeeded"
       /\ said[id] = "Failed" => taken[id] \in {"nothing", "failed"}
       /\ said[id] = "Rejected" =>
            /\ taken[id] = "nothing"
            /\ ~ \E i \in DOMAIN calls : calls[i].arg = id /\ calls[i].kind \in {"submit", "lost"}
                                          /\ calls[i].to = owner
=============================================================================
