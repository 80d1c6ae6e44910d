--------------------------- MODULE FirmwareUpdate ---------------------------
(* A firmware update, from the client's request to the end: the bridge checks *)
(* the approved package, takes the device's transport, checks its own copy,   *)
(* writes the recovery journal and hands over to the updater.  While the      *)
(* journal is there no normal session is opened, over restarts, until the     *)
(* user has looked at the display and says so.                                *)
(*                                                                            *)
(* The bridge and the session controller run on the main thread, one handler  *)
(* at a time.  The updater and the package checks run on the firmware thread, *)
(* which does its tasks in order and answers by events; the device worker     *)
(* does the controller's jobs in order.                                       *)
EXTENDS FirmwareLease, FirmwareUpdater

CONSTANTS MaxFlashes, MaxValidations, MaxJobs, MaxMishaps
\* bounds on requests, on what clients put into the worker's queue, and on the
\* cancellations, requests to end the runtime, exchanged displays, failed journal
\* writes and crashes, all together

ASSUME BoundsAssumption == {MaxFlashes, MaxValidations, MaxJobs, MaxMishaps} \subseteq Nat

VARIABLES
    fb,      \* the bridge's memory
    ctl,     \* the session controller, with the worker's queue
    port,    \* the normal session's hold of the device: "open" or "closed"
    told,    \* what the worker has answered
    disk,    \* the recovery journal
    tasks,   \* what the firmware thread has to do
    left     \* what may still be asked for or go wrong, and what has

vars == <<fb, ctl, port, told, disk, tasks, left, upd, bench, events>>

Attempts == 0 .. MaxFlashes

Phases == {"Armed", "Irreversible", "AwaitingDeviceVerification"}
Records == [id : Attempts, phase : Phases]

ASSUME NoRecordAssumption == None \notin Records

\* val, reval and recheck are the request ids that are waited for, 0 for none;
\* appr and flash the packages of approval_ and pendingFlash_ (None is also not
\* flashBusy_); timer the quiesce deadline, started updaterStarted_ and the
\* inhibition of the shutdown, irr updaterIrreversibleStarted_; required, invalid
\* and rec are recovery*, inherited and created the flags of this attempt, pend
\* that it has a pendingRecoveryRecord_; n is the latest attempt.
Bridges ==
    [up : BOOLEAN, val : 0 .. MaxValidations, reval : Attempts, recheck : Attempts,
     appr : Packages \cup {None}, flash : Packages \cup {None}, lease : Attempts,
     timer : BOOLEAN, started : BOOLEAN, irr : BOOLEAN, required : BOOLEAN,
     invalid : BOOLEAN, rec : Records \cup {None}, inherited : BOOLEAN,
     created : BOOLEAN, pend : BOOLEAN, shutdown : BOOLEAN, quit : BOOLEAN, n : Attempts]

Down(n) ==
    [up |-> FALSE, val |-> 0, reval |-> 0, recheck |-> 0, appr |-> None, flash |-> None,
     lease |-> 0, timer |-> FALSE, started |-> FALSE, irr |-> FALSE, required |-> FALSE,
     invalid |-> FALSE, rec |-> None, inherited |-> FALSE, created |-> FALSE,
     pend |-> FALSE, shutdown |-> FALSE, quit |-> FALSE, n |-> n]

Tasks ==
    [kind : {"validate", "revalidate", "recheck", "start", "cancel"}, id : Nat,
     pkg : Packages \cup {None}]

Task(kind, id, pkg) == [kind |-> kind, id |-> id, pkg |-> pkg]

Running == fb.up /\ ~fb.quit
Busy(f) == f.flash # None

-----------------------------------------------------------------------------
(* A handler turns a world w, what it can change, into the worlds that it may *)
(* leave behind: a journal write that fails makes several.                    *)

World == [fb |-> fb, ctl |-> ctl, disk |-> disk, tasks |-> tasks, left |-> left]

Become(w) ==
    /\ fb' = w.fb /\ ctl' = w.ctl /\ disk' = w.disk /\ tasks' = w.tasks /\ left' = w.left

BecomeOneOf(worlds) == \E w \in worlds : Become(w)

Outcome(ok, w) == [ok |-> ok, w |-> w]

\* What users and the world do to an update, a bounded number of times.
Mishaps == {"cancel", "signal", "swap", "fault", "crash"}
May == left.mishaps > 0
Spent(l, mishap) == [l EXCEPT !.mishaps = @ - 1, !.seen = @ \cup {mishap}]

\* write and clear: a failure leaves the file as it was or as it was to be.
Put(w, record) ==
    LET done == [w EXCEPT !.disk = record]
        faulty(x) == [x EXCEPT !.left = Spent(@, "fault")]
    IN {Outcome(TRUE, done)}
       \cup IF w.left.mishaps = 0 \/ (record = None /\ w.disk = None) THEN {}
            ELSE {Outcome(FALSE, faulty(w)), Outcome(FALSE, faulty(done))}

Invalidated(w) == [w EXCEPT !.fb.required = TRUE, !.fb.invalid = TRUE]

\* armRecoveryJournal; the record of an attempt that finds one is kept in memory.
Armed(w) ==
    LET record == [id |-> w.fb.n, phase |-> "Armed"]
        written(x) == [x EXCEPT !.fb.created = TRUE, !.fb.required = TRUE, !.fb.rec = record]
    IN CASE w.fb.invalid -> {Outcome(FALSE, w)}
         [] ~w.fb.invalid /\ w.fb.inherited ->
               IF w.disk = None THEN {Outcome(FALSE, Invalidated(w))}
               ELSE {Outcome(TRUE, [w EXCEPT !.fb.rec = w.disk, !.fb.pend = TRUE])}
         [] OTHER ->
               {IF o.ok THEN Outcome(TRUE, written(o.w)) ELSE Outcome(FALSE, Invalidated(o.w)) :
                   o \in Put([w EXCEPT !.fb.pend = FALSE], record)}

\* updateRecoveryJournalPhase
Phase(w, phase) ==
    LET record == IF w.fb.inherited /\ w.fb.pend THEN [id |-> w.fb.n, phase |-> phase]
                  ELSE [w.disk EXCEPT !.phase = phase]
        kept(x) == [x EXCEPT !.fb.required = TRUE, !.fb.invalid = FALSE, !.fb.rec = record,
                             !.fb.pend = FALSE]
    IN IF w.disk = None \/ (w.fb.rec # None /\ w.disk.id # w.fb.rec.id)
       THEN {Invalidated(w)}
       ELSE {IF o.ok THEN kept(o.w) ELSE Invalidated(o.w) : o \in Put(w, record)}

\* clearCurrentAttemptRecoveryJournal
OwnCleared(w) ==
    LET forgotten(x) == [x EXCEPT !.fb.required = FALSE, !.fb.invalid = FALSE,
                                  !.fb.created = FALSE, !.fb.rec = None, !.fb.pend = FALSE]
    IN CASE ~w.fb.created \/ w.fb.inherited -> {w}
         [] w.fb.created /\ ~w.fb.inherited /\
               (w.disk = None \/ w.fb.rec = None \/ w.disk.id # w.fb.rec.id) -> {Invalidated(w)}
         [] OTHER -> {IF o.ok THEN forgotten(o.w) ELSE Invalidated(o.w) : o \in Put(w, None)}

\* publishState
Published(w) == [w EXCEPT !.ctl = Interlocked(@, w.fb.required)]

\* releaseFirmwareGate and setShutdownInhibited(false), which lets a shutdown that
\* waited for the updater go on
Forgotten(f) ==
    [f EXCEPT !.flash = None, !.lease = 0, !.timer = FALSE, !.reval = 0, !.recheck = 0,
              !.started = FALSE, !.irr = FALSE, !.pend = FALSE, !.inherited = FALSE,
              !.quit = @ \/ (f.started /\ f.shutdown)]

\* The common end of an attempt: the transport is given back.
Over(w, resume) ==
    Published([w EXCEPT !.ctl = Released(@, w.fb.lease, resume), !.fb = Forgotten(@)])

MayResume(w) == ~w.fb.shutdown /\ ~w.fb.required

\* failPendingFlash, and requestCancel before the updater has started
Abandoned(w) == {Over(x, MayResume(x)) : x \in OwnCleared(w)}

-----------------------------------------------------------------------------
(* The client                                                                 *)

UserOnly == UNCHANGED <<port, told, upd, bench, events>>

RequestValidation ==
    /\ Running /\ ~fb.shutdown /\ fb.val = 0 /\ ~Busy(fb) /\ left.validations > 0
    /\ Become(Published([World EXCEPT
          !.left.validations = @ - 1,
          !.fb = [@ EXCEPT !.appr = None, !.val = left.validations, !.inherited = FALSE,
                           !.created = FALSE],
          !.tasks = Append(@, Task("validate", left.validations, None))]))
    /\ UserOnly

\* An approval is used up, by the attempt or because it has expired.
RequestFlash ==
    /\ Running /\ ~fb.shutdown /\ fb.val = 0 /\ ~Busy(fb) /\ ~fb.invalid
    /\ ~ctl.op /\ fb.appr # None
    /\ \/ /\ Identified(ctl) /\ fb.n < MaxFlashes
          /\ Become(Published([World EXCEPT
                !.fb = [@ EXCEPT !.flash = fb.appr, !.appr = None, !.irr = FALSE,
                                 !.inherited = fb.required, !.created = FALSE,
                                 !.n = fb.n + 1, !.reval = fb.n + 1],
                !.tasks = Append(@, Task("revalidate", fb.n + 1, None))]))
       \/ Become(Published([World EXCEPT !.fb.appr = None]))
    /\ UserOnly

\* Mutant: a cancellation does not ask whether the updater has started.
CancelledEvenStarted(w) == Abandoned(w)

Cancelled(w) ==
    IF w.fb.started THEN {[w EXCEPT !.tasks = Append(@, Task("cancel", 0, None))]}
    ELSE Abandoned(w)

RequestCancel ==
    /\ Running /\ Busy(fb) /\ May
    /\ BecomeOneOf(Cancelled([World EXCEPT !.left = Spent(@, "cancel")]))
    /\ UserOnly

\* requestRecoveryAcknowledgement: the user has looked at the display, whether the
\* file can be removed or not.
Acknowledged(w) ==
    LET clear == [w EXCEPT !.fb = [@ EXCEPT !.required = FALSE, !.invalid = FALSE,
                                            !.inherited = FALSE, !.created = FALSE,
                                            !.rec = None, !.pend = FALSE]]
        open(x) == [x EXCEPT !.ctl = ResumedAfterAcknowledgement(@)]
    IN open(Published(clear))

Acknowledge ==
    /\ Running /\ ~fb.shutdown /\ fb.val = 0 /\ ~Busy(fb) /\ fb.required
    /\ Len(ctl.jobs) < MaxJobs
    /\ \E o \in Put(World, None) :
          Become(IF o.ok THEN Acknowledged(o.w) ELSE Published(Invalidated(o.w)))
    /\ bench' = [bench EXCEPT !.touched = 0]
    /\ UNCHANGED <<port, told, upd, events>>

Controller(c) == Become([World EXCEPT !.ctl = c]) /\ UserOnly

ConnectDevice == Running /\ Len(ctl.jobs) < MaxJobs /\ Controller(Connected(ctl))

DisconnectDevice ==
    /\ Running /\ Len(ctl.jobs) < MaxJobs /\ ~Exclusive(ctl)
    /\ Controller(Disconnected(ctl))

StartOperation ==
    Running /\ Len(ctl.jobs) < MaxJobs /\ MayOperate(ctl) /\ Controller(Operating(ctl))

PrinterSnapshot ==
    /\ Running /\ Len(ctl.jobs) < MaxJobs
    /\ \E present \in BOOLEAN : Controller(Seen(ctl, present))

-----------------------------------------------------------------------------
(* The bridge's handlers                                                      *)

ValidationResult(w, e) ==
    IF w.fb.val = 0 \/ e.id # w.fb.val THEN {w}
    ELSE {Published([w EXCEPT !.fb.val = 0, !.fb.appr = IF e.ok THEN e.pkg ELSE @])}

\* Mutant: nothing limits the wait for the worker.
QuiescingUntimed(w) ==
    Published([w EXCEPT !.fb.lease = w.fb.n, !.ctl = Acquired(@, w.fb.n)])

Quiescing(w) ==
    Published([w EXCEPT !.fb.lease = w.fb.n, !.fb.timer = TRUE, !.ctl = Acquired(@, w.fb.n)])

\* handleFlashRevalidationResult: the package is the approved one, and so is the
\* private copy of it; the transport is taken.
FlashRevalidationResult(w, e) ==
    LET q == [w EXCEPT !.fb.reval = 0]
    IN CASE ~Busy(w.fb) \/ e.id # w.fb.reval -> {w}
         [] Busy(w.fb) /\ e.id = w.fb.reval /\ e.ok /\ MayAcquire(w.ctl) ->
               {Quiescing(q)}
         [] OTHER -> Abandoned(q)

TransportQuiesced(w, lease) ==
    IF ~Busy(w.fb) \/ lease # w.fb.lease THEN w
    ELSE Published([w EXCEPT !.fb.timer = FALSE, !.fb.recheck = w.fb.n,
                             !.tasks = Append(@, Task("recheck", w.fb.n, None))])

\* startApprovedFlash: the journal is written before the updater is told.
Started(w) ==
    {IF o.ok
     THEN Published([o.w EXCEPT !.fb.started = TRUE, !.fb.irr = FALSE,
                                !.tasks = Append(@, Task("start", w.fb.n, w.fb.flash))])
     ELSE o.w : o \in Armed(w)}

PostQuiesceValidationResult(w, e) ==
    LET q == [w EXCEPT !.fb.recheck = 0]
    IN CASE ~Busy(w.fb) \/ e.id # w.fb.recheck \/ w.fb.lease = 0 -> {w}
         [] Busy(w.fb) /\ e.id = w.fb.recheck /\ w.fb.lease # 0 /\ e.ok ->
               UNION {IF x.fb.started THEN {x} ELSE Abandoned(x) : x \in Started(q)}
         [] OTHER -> Abandoned(q)

IrreversibleHandled(w) ==
    IF ~Busy(w.fb) \/ ~w.fb.started THEN {w}
    ELSE {IF x.fb.invalid THEN Published(x) ELSE x :
             x \in Phase([w EXCEPT !.fb.irr = TRUE], "Irreversible")}

\* handleUpdaterFinished asks the updater itself as well; what it has to do with
\* the journal comes first.
FinishedRecords(w, ok, irreversible) ==
    CASE ok -> Phase(w, "AwaitingDeviceVerification")
      [] ~ok /\ irreversible /\ (w.fb.rec = None \/ w.fb.rec.phase # "Irreversible") ->
            Phase(w, "Irreversible")
      [] ~ok /\ ~irreversible /\ ~w.fb.inherited -> OwnCleared(w)
      [] OTHER -> {w}

UpdaterFinished(w, ok, irreversible) ==
    LET retain(x) == ok \/ w.fb.inherited \/ irreversible \/ x.fb.required
    IN IF ~Busy(w.fb) THEN {w}
       ELSE {LET q == [x EXCEPT !.fb.required = @ \/ retain(x)]
             IN Over(q, ~w.fb.shutdown /\ ~retain(x)) :
                x \in FinishedRecords(w, ok, irreversible)}

Handled(w, e) ==
    CASE e.kind = "validated" -> ValidationResult(w, e)
      [] e.kind = "revalidated" -> FlashRevalidationResult(w, e)
      [] e.kind = "rechecked" -> PostQuiesceValidationResult(w, e)
      [] e.kind = "irreversible" -> IrreversibleHandled(w)
      [] OTHER -> UpdaterFinished(w, e.ok, w.fb.irr \/ upd.irr)

HandleEvent ==
    /\ Running /\ events # <<>> /\ events' = Tail(events)
    /\ BecomeOneOf(Handled(World, Head(events)))
    /\ UNCHANGED <<port, told, upd, bench>>

\* The answers of the worker; the closing of a lease goes on to the bridge.
Answered(w, job) ==
    CASE job.kind = "op" -> [w EXCEPT !.ctl.op = FALSE]
      [] job.kind = "fence" -> [w EXCEPT !.ctl = FenceReached(@, job.lease)]
      [] job.kind = "quiesce" /\ job.lease = w.ctl.lease ->
            TransportQuiesced([w EXCEPT !.ctl = Quiesced(@)], job.lease)
      [] OTHER -> w

HandleAnswer ==
    /\ Running /\ told # <<>> /\ told' = Tail(told)
    /\ Become(Answered(World, Head(told)))
    /\ UNCHANGED <<port, upd, bench, events>>

QuiesceDeadline ==
    /\ Running /\ fb.timer
    /\ BecomeOneOf(LET q == [World EXCEPT !.fb.timer = FALSE]
                   IN IF Busy(fb) /\ ~fb.started /\ fb.lease # 0 THEN Abandoned(q) ELSE {q})
    /\ UserOnly

\* prepareForShutdown and the signal handler of main
ShutDown(w) ==
    LET q == [w EXCEPT !.fb.shutdown = TRUE, !.fb.appr = None]
    IN CASE w.fb.val # 0 -> {Published([q EXCEPT !.fb.val = 0, !.fb.quit = TRUE])}
         [] w.fb.val = 0 /\ Busy(w.fb) /\ ~w.fb.started ->
               {[Over(x, FALSE) EXCEPT !.fb.quit = TRUE] : x \in OwnCleared(q)}
         [] OTHER -> {Published([q EXCEPT !.fb.quit = ~w.fb.started])}

Signal ==
    /\ Running /\ ~fb.shutdown /\ May
    /\ BecomeOneOf(ShutDown([World EXCEPT !.left = Spent(@, "signal")]))
    /\ UserOnly

-----------------------------------------------------------------------------
(* The other threads, and the device                                          *)

ThreadOnly == UNCHANGED <<fb, ctl, port, told, disk, left>>

Answer(kind, id, pkg) ==
    /\ \E ok \in BOOLEAN : events' = Append(events, Event(kind, id, ok, pkg))
    /\ UNCHANGED <<upd, bench>>

Perform(task) ==
    \/ task.kind = "validate" /\ \E pkg \in Packages : Answer("validated", task.id, pkg)
    \/ task.kind = "revalidate" /\ Answer("revalidated", task.id, None)
    \/ task.kind = "recheck" /\ Answer("rechecked", task.id, None)
    \/ task.kind = "start" /\ \E good \in BOOLEAN : StartUpdate(task.pkg, task.id, good)
    \/ task.kind = "cancel" /\ CancelUpdate

FirmwareTask ==
    /\ fb.up /\ tasks # <<>> /\ tasks' = Tail(tasks)
    /\ Perform(Head(tasks))
    /\ ThreadOnly

UpdaterOnly == fb.up /\ ThreadOnly /\ UNCHANGED tasks

ProgramEnds == UpdaterStep /\ UpdaterOnly

StepTimer == StepTimesOut /\ UpdaterOnly

LoaderPollTimer == LoaderPolled /\ UpdaterOnly

ExchangeDisplay ==
    /\ May /\ left' = Spent(left, "swap")
    /\ Swap
    /\ UNCHANGED <<fb, ctl, port, told, disk, tasks>>

\* The session of the latest generation may fail to open.
WorkerStep ==
    /\ fb.up /\ ctl.jobs # <<>>
    /\ LET job == Head(ctl.jobs)
       IN /\ ctl' = [ctl EXCEPT !.jobs = Tail(@)]
          /\ told' = IF job.kind \in {"op", "quiesce", "fence"} THEN Append(told, job) ELSE told
          /\ port' \in CASE job.kind = "open" -> {"open", "closed"}
                         [] job.kind \in {"clear", "quiesce"} -> {"closed"}
                         [] OTHER -> {port}
    /\ UNCHANGED <<fb, disk, tasks, left, upd, bench, events>>

-----------------------------------------------------------------------------
(* The end of the process, and its start                                      *)

\* The program that is writing goes on without it.
Gone ==
    /\ fb' = Down(fb.n) /\ ctl' = Fresh(ctl.present) /\ port' = "closed" /\ told' = <<>>
    /\ tasks' = <<>> /\ events' = <<>> /\ upd' = Rest
    /\ PerhapsStored
    /\ UNCHANGED disk

Crash ==
    /\ fb.up /\ May /\ left' = Spent(left, "crash")
    /\ Gone

\* errorOccurred(FailedToStart) is emitted within waitForStarted, its handler
\* ends the update and resets process_, which startProgramStep then reads.
StartsProgram ==
    \/ tasks # <<>> /\ Head(tasks).kind = "start" /\ upd.step = "Idle"
    \/ upd.step \notin {"Idle", "RebootRecovery", "RebootRockchip"} \/ upd.poll

ProgramCannotStart ==
    /\ fb.up /\ StartsProgram
    /\ May /\ left' = Spent(left, "crash")
    /\ Gone

Exit == fb.quit /\ Gone /\ UNCHANGED left

\* loadRecoveryJournal; main connects only if nothing is to be recovered.
Boot ==
    LET c == Interlocked(Fresh(ctl.present), disk # None)
    IN /\ ~fb.up
       /\ fb' = [Down(fb.n) EXCEPT !.up = TRUE, !.required = disk # None, !.rec = disk]
       /\ ctl' = IF disk # None THEN c ELSE Connected(c)
       /\ UNCHANGED <<port, told, disk, tasks, left, upd, bench, events>>

-----------------------------------------------------------------------------
Init ==
    /\ fb = Down(0) /\ disk = None /\ tasks = <<>> /\ told = <<>> /\ port = "closed"
    /\ ctl = Fresh(TRUE)
    /\ upd = Rest /\ events = <<>>
    /\ bench = [unit |-> CHOOSE u \in Units : TRUE, display |-> [u \in Units |-> Untouched],
                touched |-> 0]
    /\ left = [validations |-> MaxValidations, mishaps |-> MaxMishaps, seen |-> {}]

User ==
    \/ RequestValidation \/ RequestFlash \/ RequestCancel \/ Acknowledge \/ Signal
    \/ ConnectDevice \/ DisconnectDevice \/ StartOperation \/ PrinterSnapshot

Main == HandleEvent \/ HandleAnswer \/ QuiesceDeadline

Others ==
    \/ FirmwareTask \/ ProgramEnds \/ StepTimer \/ LoaderPollTimer \/ WorkerStep
    \/ ExchangeDisplay \/ ProgramCannotStart

Next == User \/ Main \/ Others \/ Exit \/ Boot \/ Crash

Spec == Init /\ [][Next]_vars

\* The event loops run and the timers go off.  A program may run for ever, and the
\* worker be stuck in a call to the device.
Fairness ==
    /\ WF_vars(HandleEvent) /\ WF_vars(HandleAnswer) /\ WF_vars(QuiesceDeadline)
    /\ WF_vars(FirmwareTask) /\ WF_vars(StepTimer) /\ WF_vars(LoaderPollTimer)
    /\ WF_vars(Exit)

FairSpec == Spec /\ Fairness

-----------------------------------------------------------------------------
\* Every variable stays within the values its declaration names.
TypeOK ==
    /\ fb \in Bridges /\ ctl \in Controllers(Attempts)
    /\ port \in {"open", "closed"} /\ disk \in Records \cup {None}
    /\ told \in Seq(Jobs(Attempts)) /\ tasks \in Seq(Tasks)
    /\ left \in [validations : 0 .. MaxValidations, mishaps : 0 .. MaxMishaps,
                 seen : SUBSET Mishaps]
    /\ upd \in Updaters /\ bench \in Benches

\* Whatever may have changed a display is recorded, through failed writes,
\* cancellations, crashes and the attempts that follow, until the user has said
\* that he looked (armRecoveryJournal before the updater, and what clears it).
TouchedIsRecorded == bench.touched # 0 => disk # None

\* With a recovery pending no normal session is open or on its way
\* (setFirmwareRecoveryInterlockActive and main's fail-closed start).
RecoveryIsClosed ==
    disk # None =>
        /\ port = "closed" /\ ~ctl.connected
        /\ \A i \in DOMAIN ctl.jobs : ctl.jobs[i].kind # "open"

\* While the updater runs nobody else has the device: the session is closed and
\* the lease held by the very attempt that runs.
FlashingIsExclusive ==
    upd.step # "Idle" =>
        /\ port = "closed" /\ ~ctl.connected /\ ~ctl.op
        /\ ctl.lease = upd.attempt /\ ctl.pending = 0

\* No session is opened behind a closing that a lease has asked for
\* (releaseFirmwareExclusive and its fence).
NoSessionBehindQuiesce ==
    \A i, j \in DOMAIN ctl.jobs :
        i < j /\ ctl.jobs[i].kind = "quiesce" => ctl.jobs[j].kind # "open"

\* The bridge thinks that the updater has started exactly while a start is on
\* its way, the updater runs, or its end has not been heard of; and the runtime
\* does not end before it has been (setShutdownInhibited).
UpdaterHasAnOwner ==
    /\ fb.started <=>
           \/ upd.step # "Idle"
           \/ \E i \in DOMAIN tasks : tasks[i].kind = "start"
           \/ \E i \in DOMAIN events : events[i].kind = "finished"
    /\ fb.quit => ~fb.started

\* A display that is marked complete has got, since its start marker, the loader,
\* the partition table and every partition that was to go then, whichever display
\* it is (confirmRockchipLoader before every write); and those were all of them,
\* unless the loader poll has sent the update back from its writes to the search
\* (what was taken from rockchipPartitions_ is not put back).
CompleteIsComplete ==
    \A u \in Units :
        LET d == bench.display[u]
        IN /\ d.marker = "complete" => d.loader /\ d.gpt /\ d.parts = d.from
           /\ d.from = Partitions \/ d.back

\* Once an attempt that touched a display is over, the journal is that attempt's
\* and says how far it came, if no write failed and nothing crashed.
RecordNamesToucher ==
    (/\ bench.touched # 0 /\ fb.up /\ ~Busy(fb)
     /\ left.seen \cap {"fault", "crash"} = {})
        => disk.id = bench.touched /\ disk.phase # "Armed"

\* What the journal and the bridge say of an update is what happened to the display,
\* at every step of it and after every restart.
RecordIsTrue ==
    /\ TypeOK
    /\ TouchedIsRecorded /\ RecordNamesToucher /\ CompleteIsComplete
    /\ UpdaterHasAnOwner

\* Nobody but the update reaches the display from its lease to the end of its
\* recovery.
TransportIsClosed == FlashingIsExclusive /\ NoSessionBehindQuiesce /\ RecoveryIsClosed

\* Again and again no update is under way and no runtime has been told to end: every
\* attempt ends, also if the worker never answers (the quiesce deadline), and a
\* runtime that is told to end does; unless a program that may not be stopped runs
\* for ever (onStepTimedOut lets it, and the shutdown waits for the updater).
UpdatesEnd == []<>(~Overdue) => []<>(~Busy(fb) /\ ~fb.shutdown)

\* A worker that comes to the end of its queue again and again gives the
\* transport back again and again, with the same exception: the lease is the
\* update's until the program has ended.
LeaseEnds == []<>(ctl.jobs = <<>>) /\ []<>(~Overdue) => []<>(ctl.lease = 0)

=============================================================================
