--------------------------- MODULE MediaArtifacts ---------------------------
(***************************************************************************)
(* The artifacts of ArtifactStore under the coordinator: staging a copy,   *)
(* claiming it over D-Bus, operations that read it, clients that leave the *)
(* bus, the sweep timer, the clean-up of temporary files that runs in      *)
(* batches between other events, and the catalogue that is put aside while *)
(* it runs.                                                                *)
(***************************************************************************)
EXTENDS ArtifactStore

CONSTANTS Cleanups,        \* cache clean-up operations
          HistoryLimit,    \* kMaxTerminalOperationHistory
          BatchSize,       \* entries a batch of a clean-up takes
          Devices,         \* printers that may be attached
          MaxThumbs,       \* bound of orphaned thumbnails a clean-up plans
          MaxGen,          \* bound of the printer generation
          MaxLists,        \* bound of the FileLists read
          MaxFaults        \* bound of failing unlinks and of tampered files

\* Identifiers are fresh: no two operations share one, and none is empty.
ASSUME IdentitiesAssumption ==
  /\ Artifacts \cap Uses = {} /\ Artifacts \cap Cleanups = {} /\ Uses \cap Cleanups = {}
  /\ None \notin Artifacts \cup Uses \cup Cleanups \cup Devices

ASSUME BoundsAssumption ==
  /\ HistoryLimit \in Nat /\ BatchSize \in Nat /\ MaxThumbs \in Nat
  /\ MaxGen \in Nat /\ MaxLists \in Nat /\ MaxFaults \in Nat

VARIABLES op,          \* operations_: state of every operation
          order,       \* operationOrder_: the pairs of an earlier and a later operation
          source,      \* artifactId of an operation that reads one
          active,      \* activeOperationId_
          staged,      \* answer of the worker to a pull, not handled yet
          alive,       \* names on the bus
          notices,     \* NameOwnerChanged signals not delivered yet
          watched,     \* services artifactOwnerWatcher_ watches
          lease,       \* until when each client was told that its lease lasts
          started,     \* startupCleanupComplete_
          stuck,       \* leftovers the startup scan could not unlink
          cleanup,     \* cacheCleanupExclusiveActive_, and the plan of the clean-up
          posted,      \* the event queue, as far as order matters
          printer,     \* printerGeneration, the device attached in it, since which generation
                       \* without a break, and whether the generation gate is open
          lists,       \* FileLists asked of the current session / read so far
          catalogue,   \* mediaCatalog_
          deferred,    \* deferredMediaCatalog*_
          faults

vars == <<records, leaf, now, op, order, source, active, staged, alive, notices, watched,
          lease, started, stuck, cleanup, posted, printer, lists, catalogue, deferred,
          faults>>

storeVars == <<records, leaf>>
opVars == <<op, order, source, active>>
busVars == <<alive, notices, watched, lease>>
viewVars == <<printer, lists, catalogue, deferred>>
frameVars == <<now, started, stuck>>

Ops == Artifacts \cup Uses \cup Cleanups
Pending == {"running", "cancelling", "paused"}
Terminal == {"succeeded", "ended"}
Remembered == {x \in Ops : op[x] \in Pending \cup Terminal}
NoList == [gen |-> 0, seq |-> 0, from |-> None]
NoCleanup == [id |-> None, plan |-> <<>>, finished |-> {}, thumbs |-> 0]
Latched == cleanup.id # None

TypeOK ==
  /\ Known \subseteq Artifacts /\ \A a \in Known : records[a] \in Record
  /\ leaf \in [Artifacts \cup Old -> Leaves]
  /\ op \in [Ops -> Pending \cup Terminal \cup {"unused", "forgotten"}]
  /\ order \subseteq Remembered \X Remembered
  /\ source \in [Uses -> Artifacts \cup {None}]
  /\ active \in Ops \cup {None}
  /\ staged \in [Artifacts -> {"none", "pulled", "failed"}]
  /\ alive \subseteq Owners /\ notices \subseteq Owners /\ watched \subseteq Owners
  /\ lease \in [Artifacts -> 0 .. MaxTime + Lease]
  /\ cleanup.id \in Cleanups \cup {None}
  /\ catalogue.seq \in 0 .. MaxLists /\ deferred.seq \in 0 .. MaxLists
  /\ started \in BOOLEAN

Init ==
  /\ records = <<>> /\ now = 0
  /\ leaf = [x \in Artifacts \cup Old |-> IF x \in Old THEN "file" ELSE "none"]
  /\ op = [x \in Ops |-> "unused"] /\ order = {}
  /\ source = [u \in Uses |-> None] /\ active = None
  /\ staged = [a \in Artifacts |-> "none"]
  /\ alive = Owners /\ notices = {} /\ watched = {}
  /\ lease = [a \in Artifacts |-> 0]
  /\ started = FALSE /\ stuck = {}
  /\ cleanup = NoCleanup /\ posted = <<>>
  /\ printer = [generation |-> 0, device |-> None, since |-> 0, open |-> FALSE]
  /\ lists = [asked |-> 0, read |-> 0]
  /\ catalogue = NoList /\ deferred = NoList
  /\ faults = 0

-----------------------------------------------------------------------------
(* Operations and their history *)

ArtifactOf(x, src) == IF x \in Artifacts THEN x ELSE IF x \in Uses THEN src[x] ELSE None

Appended(x) == order \cup (Remembered \X {x})

\* Mutant: the history is cut by age alone.
ForgottenByAge(ops, ord, src, recs) ==
  LET ended == {x \in Ops : ops[x] \in Terminal}
  IN  {x \in ended : Cardinality({y \in ended : <<x, y>> \in ord}) >= HistoryLimit}

\* pruneOperationHistory forgets the oldest finished operations beyond the limit,
\* but none whose artifact is still there.
Forgotten(ops, ord, src, recs) ==
  LET ended  == {x \in Ops : ops[x] \in Terminal}
      old    == {x \in ended : ArtifactOf(x, src) \notin DOMAIN recs}
      excess == Cardinality(ended) - HistoryLimit
  IN  {x \in old : Cardinality({y \in old : <<y, x>> \in ord}) < excess}

Settle(ops, ord, src, recs) ==
  LET lost == Forgotten(ops, ord, src, recs)
  IN  /\ op' = [x \in Ops |-> IF x \in lost THEN "forgotten" ELSE ops[x]]
      /\ order' = {p \in ord : p[1] \notin lost /\ p[2] \notin lost}
      /\ source' = src

\* The files that unlink may fail for in a step that removes the artifacts of S.
Breakable(S) == {F \in SUBSET S : faults + Cardinality(F) <= MaxFaults}

\* removeRecord for S, then the watch of owners without an artifact is given up.
RemoveArtifacts(recs, S, broken, services, candidates) ==
  LET left == RemovedRecords(recs, S, broken)
  IN  /\ records' = left
      /\ leaf' = RemovedLeaves(leaf, recs, S, broken)
      /\ watched' = services \ (candidates \ OwnersOf(left))
      /\ faults' = faults + Cardinality(broken)

\* rejectOperation
Reject(x, src) ==
  Settle([op EXCEPT ![x] = "ended"], Appended(x), src, records)

\* finishOperation of x in state s with the store as recs: the hold of x is given up.
Finish(x, s, recs, extra) ==
  LET free    == Unheld(recs, x)
      dropped == DroppedWithHold(recs, x) \cup extra
  IN  \E broken \in Breakable(dropped) :
        /\ RemoveArtifacts(free, dropped, broken, watched, {free[a].owner : a \in dropped})
        /\ Settle([op EXCEPT ![x] = s], order, source, RemovedRecords(free, dropped, broken))
        /\ active' = IF active = x THEN None ELSE active

-----------------------------------------------------------------------------
(* Staging a copy *)

\* queueStageDeviceMediaOperation, of any entry of the catalogue: a client that is no
\* longer on the bus when the artifact is reserved loses it, and what else it had, at once.
Stage(a, o) ==
  /\ op[a] = "unused"
  /\ IF active # None \/ ~printer.open \/ ~PathUnused(a)
     THEN /\ Reject(a, source)
          /\ UNCHANGED <<storeVars, active, watched, faults>>
     ELSE LET recs == Reserved(records, a, o)
              ord  == Appended(a)
          IN IF o \in alive
             THEN /\ records' = recs
                  /\ op' = [op EXCEPT ![a] = "running"] /\ order' = ord
                  /\ active' = a /\ watched' = watched \cup {o}
                  /\ UNCHANGED <<leaf, source, faults>>
             ELSE LET gone == Revoked(recs, o)
                      S    == Idle(gone, o) \cup {a}
                  IN \E broken \in Breakable(S) :
                       LET free == Unheld(gone, a)
                       IN /\ RemoveArtifacts(free, S, broken, watched \cup {o}, {o})
                          /\ Settle([op EXCEPT ![a] = "ended"], ord, source,
                                    RemovedRecords(free, S, broken))
                          /\ UNCHANGED active
  /\ UNCHANGED <<staged, alive, notices, lease, cleanup, posted, viewVars, frameVars>>

\* The worker pulls into a partial file that takes its name when it is complete.
Pull(a) ==
  /\ op[a] \in {"running", "cancelling"} /\ active = a /\ staged[a] = "none"
  /\ \/ op[a] = "running" /\ leaf' = [leaf EXCEPT ![a] = "file"]
        /\ staged' = [staged EXCEPT ![a] = "pulled"]
     \/ leaf' \in {leaf, [leaf EXCEPT ![a] = "part"]}
        /\ staged' = [staged EXCEPT ![a] = "failed"]
  /\ UNCHANGED <<records, opVars, busVars, cleanup, posted, viewVars, frameVars, faults>>

\* handleMediaStaged: the owner is looked for again before the copy is made final.
HandleStaged(a) ==
  /\ staged[a] # "none"
  /\ staged' = [staged EXCEPT ![a] = "none"]
  /\ LET o    == records[a].owner
         here == o \in alive
         recs == IF here THEN records ELSE Revoked(records, o)
         idle == IF here THEN {} ELSE Idle(recs, o)
     IN IF staged[a] = "pulled" /\ MayFinalize(recs, a)
        THEN Finish(a, "succeeded", Finalized(recs, a), {})
        ELSE Finish(a, "ended", recs, idle \cup {x \in {a} : Discardable(recs, x)})
  /\ UNCHANGED <<alive, notices, lease, cleanup, posted, viewVars, frameVars>>

-----------------------------------------------------------------------------
(* The D-Bus calls of a client that has a staged copy *)

\* The clock may move while the file is read.
Later == now .. (IF now < MaxTime THEN now + 1 ELSE now)

\* A client that has left the bus meanwhile is told nothing.
Tell(a, until) ==
  lease' = IF records[a].owner \in alive THEN [lease EXCEPT ![a] = until] ELSE lease

Claim(a, later) ==
  /\ ~Latched
  /\ op[a] = "succeeded" /\ a \in Known
  /\ Valid(records, a, records[a].owner, records[a].claimed, later)
  /\ records' = Claimed(records, a, later)
  /\ Tell(a, records'[a].expires)
  /\ now' = later
  /\ UNCHANGED <<leaf, opVars, staged, alive, notices, watched, started, stuck, cleanup,
                 posted, viewVars, faults>>

Renew(a, later) ==
  /\ ~Latched
  /\ a \in Known /\ Valid(records, a, records[a].owner, TRUE, later)
  /\ records' = Renewed(records, a, later)
  /\ Tell(a, records'[a].expires)
  /\ now' = later
  /\ UNCHANGED <<leaf, opVars, staged, alive, notices, watched, started, stuck, cleanup,
                 posted, viewVars, faults>>

\* releaseDeviceMediaArtifact: the client lets go even when the file stays behind.
Release(a) ==
  /\ ~Latched
  /\ a \in Known /\ Valid(records, a, records[a].owner, TRUE, now)
  /\ records[a].inUse = None
  /\ lease' = [lease EXCEPT ![a] = 0]
  /\ \E broken \in Breakable({a}) :
       /\ RemoveArtifacts(records, {a}, broken, watched, {records[a].owner})
       /\ IF broken = {} THEN Settle(op, order, source, records')
                         ELSE UNCHANGED <<op, order, source>>
  /\ UNCHANGED <<active, staged, alive, notices, cleanup, posted, viewVars, frameVars>>

\* queueRecoveredOperation: the hold is taken before the owner is looked for and
\* before anything else that may refuse the request.
Use(u, a, later) ==
  /\ op[u] = "unused" /\ ~Latched
  /\ a \in Known /\ Holdable(records, a, records[a].owner, later)
  /\ now' = later
  /\ LET o    == records[a].owner
         recs == Held(records, a, u)
         src  == [source EXCEPT ![u] = a]
     IN IF o \notin alive
        THEN LET gone == Revoked(recs, o)
             IN /\ \E broken \in Breakable(Idle(gone, o) \cup {a}) :
                     RemoveArtifacts(Unheld(gone, u), Idle(gone, o) \cup {a}, broken,
                            watched \cup {o}, {o})
                /\ UNCHANGED <<op, order, source, active>>
        ELSE IF active # None
        THEN /\ Reject(u, src) /\ watched' = watched \cup {o}
             /\ UNCHANGED <<storeVars, active, faults>>
        ELSE /\ records' = recs /\ watched' = watched \cup {o}
             /\ op' = [op EXCEPT ![u] = "running"] /\ order' = Appended(u)
             /\ source' = src /\ active' = u
             /\ UNCHANGED <<leaf, faults>>
  /\ UNCHANGED <<staged, alive, notices, lease, started, stuck, cleanup, posted, viewVars>>

\* The operation may wait for a reconciliation without being the active one.
PauseUse(u) ==
  /\ op[u] = "running" /\ active = u
  /\ op' = [op EXCEPT ![u] = "paused"] /\ active' = None
  /\ UNCHANGED <<storeVars, order, source, staged, busVars, cleanup, posted, viewVars,
                 frameVars, faults>>

EndUse(u) ==
  /\ op[u] \in Pending /\ active \in {u, None}
  /\ Finish(u, "ended", records, {})
  /\ UNCHANGED <<staged, alive, notices, lease, cleanup, posted, viewVars, frameVars>>

\* cancelOperation of the active operation; a conversion ends with the call.
Cancel(x) ==
  /\ active = x /\ op[x] = "running" /\ x \notin Cleanups
  /\ \/ /\ op' = [op EXCEPT ![x] = "cancelling"]
        /\ UNCHANGED <<storeVars, order, source, active, watched, faults>>
     \/ x \in Uses /\ Finish(x, "ended", records, {})
  /\ UNCHANGED <<staged, alive, notices, lease, cleanup, posted, viewVars, frameVars>>

-----------------------------------------------------------------------------
(* Clients that leave the bus *)

Leave(o) ==
  /\ o \in alive
  /\ alive' = alive \ {o}
  /\ notices' = IF o \in watched THEN notices \cup {o} ELSE notices
  /\ lease' = [a \in Artifacts |-> IF a \in Known /\ records[a].owner = o THEN 0 ELSE lease[a]]
  /\ UNCHANGED <<storeVars, opVars, staged, watched, cleanup, posted, viewVars, frameVars, faults>>

\* handleArtifactOwnerUnregistered: while a clean-up runs nothing is removed; an
\* operation that holds a copy is cancelled, which may end it within the call.
OwnerNotice(o) ==
  /\ o \in notices
  /\ notices' = notices \ {o}
  /\ LET gone == Revoked(records, o)
         S    == IF Latched THEN {} ELSE Idle(gone, o)
         busy == {x \in BusyWith(gone, o) : active = x /\ op[x] \in {"running", "cancelling"}}
     IN \/ \E broken \in Breakable(S) :
             /\ RemoveArtifacts(gone, S, broken, watched, {o})
             /\ op' = [x \in Ops |-> IF x \in busy THEN "cancelling" ELSE op[x]]
             /\ UNCHANGED <<order, source, active>>
        \/ \E u \in busy \cap Uses : Finish(u, "ended", gone, S)
  /\ UNCHANGED <<staged, alive, lease, cleanup, posted, viewVars, frameVars>>

-----------------------------------------------------------------------------
(* The sweep timer *)

\* continueStartupCleanup: a batch of the leftovers of an earlier run, then sweepExpired.
SweepWith(rest) ==
  LET stray == IF started THEN {} ELSE StrayLeaves(records) \ stuck
      batch == {S \in SUBSET stray : Cardinality(S) =
                  IF Cardinality(stray) < BatchSize THEN Cardinality(stray) ELSE BatchSize}
  IN \E S \in batch, lost \in Breakable(stray) :
       LET expired == Expired(records)
       IN /\ lost \subseteq S
          /\ started' = (started \/ S = stray)
          /\ stuck' = stuck \cup lost
          /\ \E broken \in Breakable(expired) :
               /\ Cardinality(lost) + Cardinality(broken) + faults <= MaxFaults
               /\ records' = RemovedRecords(records, expired, broken)
               /\ leaf' = [x \in DOMAIN leaf |->
                             IF x \in S \ lost THEN "none"
                             ELSE RemovedLeaves(leaf, records, expired, broken)[x]]
               /\ watched' = watched \ ({records[a].owner : a \in expired} \ OwnersOf(records'))
               /\ faults' = faults + Cardinality(lost) + Cardinality(broken)
  /\ posted' = rest

Sweep(rest) ==
  /\ IF Latched
     THEN posted' = rest /\ UNCHANGED <<storeVars, watched, started, stuck, faults>>
     ELSE SweepWith(rest)
  /\ UNCHANGED <<opVars, staged, alive, notices, lease, cleanup, viewVars, now>>

SweepTimer == Sweep(posted)

-----------------------------------------------------------------------------
(* The clean-up of temporary files *)

\* releaseCacheCleanupLatch posts the catalogue that was put aside, then a sweep.
Posted(kind, list, id) == [kind |-> kind, list |-> list, id |-> id]

AfterLatch ==
  (IF deferred = NoList THEN <<>> ELSE <<Posted("apply", deferred, None)>>)
    \o <<Posted("sweep", NoList, None)>>

Unlatch ==
  /\ cleanup' = NoCleanup
  /\ deferred' = NoList
  /\ posted' = posted \o AfterLatch

CleanupRefused == Latched \/ active # None \/ \E x \in Ops : op[x] \in Pending

\* queueCacheCleanupOperation: a live artifact, a tampered one or an unreadable
\* directory refuse it, after the latch has been taken and given back.
QueueCleanup(c) ==
  /\ op[c] = "unused"
  /\ IF CleanupRefused
     THEN Reject(c, source) /\ UNCHANGED <<active, cleanup, posted, deferred>>
     ELSE IF ~started \/ \E a \in Known : Live(records, a) \/ Tampered(records, a)
     THEN Reject(c, source) /\ Unlatch /\ UNCHANGED active
     ELSE /\ op' = [op EXCEPT ![c] = "running"] /\ order' = Appended(c)
          /\ active' = c /\ UNCHANGED <<source, deferred>>
          /\ \E n \in 0 .. MaxThumbs :
               cleanup' = [id |-> c, plan |-> Plan(records), finished |-> {}, thumbs |-> n]
          /\ posted' = Append(posted, Posted("continue", NoList, c))
  /\ UNCHANGED <<storeVars, staged, busVars, printer, lists, catalogue, frameVars, faults>>

FinishCleanup(recs, rest) ==
  /\ Settle([op EXCEPT ![cleanup.id] = "ended"], order, source, recs)
  /\ active' = None
  /\ cleanup' = NoCleanup /\ deferred' = NoList
  /\ posted' = rest \o AfterLatch

Again(rest) ==
  /\ posted' = Append(rest, Posted("continue", NoList, cleanup.id))
  /\ UNCHANGED <<op, order, source, active, deferred>>

\* continueCacheCleanup: thumbnails first, then the artifacts, one batch at a time;
\* the first candidate that changed or cannot be unlinked ends the clean-up.
Continue(id, rest) ==
  /\ IF cleanup.id # id
     THEN posted' = rest /\ UNCHANGED <<storeVars, watched, opVars, cleanup, deferred, faults>>
     ELSE IF cleanup.thumbs > 0
     THEN /\ UNCHANGED <<storeVars, watched, faults>>
          /\ \/ cleanup' = [cleanup EXCEPT !.thumbs = 0] /\ Again(rest)
             \/ FinishCleanup(records, rest)
     ELSE LET todo == DOMAIN cleanup.plan \ cleanup.finished
          IN IF todo = {}
             THEN FinishCleanup(records, rest) /\ UNCHANGED <<storeVars, watched, faults>>
             ELSE IF ~PlanStillValid(records, cleanup.plan, cleanup.finished)
             THEN FinishCleanup(records, rest) /\ UNCHANGED <<storeVars, watched, faults>>
             ELSE \E a \in todo : \E broken \in Breakable({a}) :
                    IF ~CandidateUnchanged(records, cleanup.plan, a)
                    THEN /\ FinishCleanup(records, rest) /\ broken = {}
                         /\ UNCHANGED <<storeVars, watched, faults>>
                    ELSE IF broken # {}
                    THEN /\ FinishCleanup(records, rest)
                         /\ faults' = faults + 1
                         /\ leaf' \in {leaf, [leaf EXCEPT ![a] = "none"]}
                         /\ UNCHANGED <<records, watched>>
                    ELSE /\ records' = [b \in Known \ {a} |-> records[b]]
                         /\ leaf' = [leaf EXCEPT ![a] = "none"]
                         /\ watched' = watched \ ({records[a].owner} \ OwnersOf(records'))
                         /\ cleanup' = [cleanup EXCEPT !.finished = @ \cup {a}]
                         /\ Again(rest) /\ UNCHANGED faults
  /\ UNCHANGED <<staged, alive, notices, lease, printer, lists, catalogue, frameVars>>

\* cancelOperation of the clean-up continues it within the call.
CancelCleanup ==
  /\ Latched
  /\ FinishCleanup(records, posted)
  /\ UNCHANGED <<storeVars, watched, faults, staged, alive, notices, lease, printer, lists,
                 catalogue, frameVars>>

-----------------------------------------------------------------------------
(* The catalogue *)

\* updateMediaCatalog
UpdateCatalogue(list) ==
  IF Latched THEN deferred' = list /\ UNCHANGED catalogue
             ELSE catalogue' = list /\ UNCHANGED deferred

\* refreshMediaList
AskList ==
  /\ active = None /\ printer.open /\ lists.asked + lists.read < MaxLists
  /\ lists' = [lists EXCEPT !.asked = @ + 1]
  /\ UNCHANGED <<storeVars, opVars, staged, busVars, cleanup, posted, printer, catalogue, deferred,
                 frameVars, faults>>

\* The worker posts the FileList it has read to the main thread.
ReadList ==
  /\ lists.asked > 0
  /\ lists' = [asked |-> lists.asked - 1, read |-> lists.read + 1]
  /\ LET list == [gen |-> printer.generation, seq |-> lists.read + 1, from |-> printer.device]
     IN posted' = Append(posted, Posted("list", list, None))
  /\ UNCHANGED <<storeVars, opVars, staged, busVars, cleanup, printer, catalogue, deferred,
                 frameVars, faults>>

\* A new printer generation.  A device that stays attached, under the same path and as
\* the same product, keeps the catalogue of the earlier generation (a snapshot that
\* only repeats it, a connection restarted, a session lost, a firmware lease); to attach
\* or to detach one empties the view.  An operation that still converts or hashes ends;
\* another only learns that the device changed under it.
NewGeneration(next, kept, open) ==
  /\ printer.generation < MaxGen
  /\ kept => next = printer.device /\ next # None
  /\ open => next # None
  /\ LET g == printer.generation + 1
     IN printer' = [generation |-> g, device |-> next, open |-> open,
                    since |-> IF kept THEN printer.since ELSE g]
  /\ catalogue' = IF kept THEN catalogue ELSE NoList
  /\ lists' = [lists EXCEPT !.asked = 0]
  /\ \/ active \in Uses /\ op[active] = "running" /\ Finish(active, "ended", records, {})
     \/ UNCHANGED <<storeVars, opVars, watched, faults>>
  /\ UNCHANGED <<deferred, staged, alive, notices, lease, cleanup, posted, frameVars>>

\* detachPrinterClassDevice once the worker has closed the transport for a firmware
\* lease: the generation is the one in which the lease closed the gate.
Detach ==
  /\ printer.device # None /\ ~printer.open /\ active = None
  /\ printer' = [printer EXCEPT !.device = None]
  /\ catalogue' = NoList
  /\ lists' = [lists EXCEPT !.asked = 0]
  /\ UNCHANGED <<storeVars, opVars, watched, faults, deferred, staged, alive, notices, lease,
                 cleanup, posted, frameVars>>

\* Mutant: a list is applied whatever generation and device it is of.
TakeAnyList(list, known, rest) ==
  /\ posted' = rest /\ UpdateCatalogue(list)
  /\ UNCHANGED <<storeVars, opVars, staged, busVars, cleanup, printer, lists, frameVars, faults>>

\* handleMediaListReady without an operation, and requestApplyDeferredMediaCatalog: the
\* list must be of the current generation, and of a device that is still known.
TakeList(list, known, rest) ==
  /\ posted' = rest
  /\ IF list.gen = printer.generation /\ known
     THEN UpdateCatalogue(list)
     ELSE UNCHANGED <<catalogue, deferred>>
  /\ UNCHANGED <<storeVars, opVars, staged, busVars, cleanup, printer, lists, frameVars, faults>>

\* The next posted event.
Event ==
  /\ posted # <<>>
  /\ LET e == Head(posted) rest == Tail(posted)
     IN \/ e.kind = "list" /\ TakeList(e.list, printer.device # None, rest)
        \/ e.kind = "apply" /\ TakeList(e.list, e.list.from = printer.device, rest)
        \/ e.kind = "sweep" /\ Sweep(rest)
        \/ e.kind = "continue" /\ Continue(e.id, rest)

-----------------------------------------------------------------------------
(* Environment, and the end of the process *)

Tick ==
  /\ now < MaxTime /\ now' = now + 1
  /\ UNCHANGED <<storeVars, opVars, staged, busVars, started, stuck, cleanup, posted, viewVars,
                 faults>>

\* Another file takes the name of a complete artifact.
Tamper(a) ==
  /\ faults < MaxFaults /\ leaf[a] = "file" /\ a \in Known /\ records[a].ready
  /\ leaf' = [leaf EXCEPT ![a] = "foreign"] /\ faults' = faults + 1
  /\ UNCHANGED <<records, opVars, staged, busVars, cleanup, posted, viewVars, frameVars>>

Next ==
  \/ \E a \in Artifacts, o \in Owners : Stage(a, o)
  \/ \E a \in Artifacts : Pull(a) \/ HandleStaged(a) \/ Release(a) \/ Tamper(a)
  \/ \E a \in Artifacts, t \in Later : Claim(a, t) \/ Renew(a, t)
  \/ \E u \in Uses, a \in Artifacts, t \in Later : Use(u, a, t)
  \/ \E u \in Uses : PauseUse(u) \/ EndUse(u)
  \/ \E x \in Artifacts \cup Uses : Cancel(x)
  \/ \E o \in Owners : Leave(o) \/ OwnerNotice(o)
  \/ \E c \in Cleanups : QueueCleanup(c)
  \/ CancelCleanup \/ SweepTimer \/ Event
  \/ \E d \in Devices \cup {None}, kept, open \in BOOLEAN : NewGeneration(d, kept, open)
  \/ Detach \/ AskList \/ ReadList \/ Tick

Spec == Init /\ [][Next]_vars

-----------------------------------------------------------------------------
(* Properties *)

\* An operation that reads a copy finds it until it ends: whatever expires, leaves the
\* bus or is cleaned up meanwhile, the record keeps its hold and its file
\* (DeviceMediaArtifactStore::acquireOperationHold, releaseOperationHold).
HoldIsHonoured ==
  \A u \in Uses : op[u] \in Pending =>
    /\ source[u] \in Known /\ records[source[u]].inUse = u
    /\ leaf[source[u]] \in {"file", "foreign"}

\* A client on the bus that was told that its lease lasts until some time has its
\* copy until then, unless it gives it back: neither the sweep nor a clean-up
\* that was planned before takes it (claim, renew, sweepExpired, cleanupBatch).
LeaseIsKept ==
  \A a \in Artifacts : lease[a] > now =>
    /\ a \in Known /\ ~records[a].revoked /\ records[a].expires >= lease[a]
    /\ leaf[a] \in {"file", "foreign"}

\* The owner of an artifact is watched and its end will be noticed, and nobody is
\* watched who has none: the watch is set and given up by eight different paths
\* (requestWatchArtifactOwner, requestUnwatchArtifactOwner).
OwnersAreWatched ==
  /\ \A a \in Known : ~records[a].revoked =>
       /\ records[a].owner \in watched
       /\ records[a].owner \in alive \/ records[a].owner \in notices
  /\ watched \subseteq OwnersOf(records)

\* Once the scan at the start is over the outbox holds what a record names and what
\* could not be unlinked, nothing else (cleanupBatch, removeRecord).
OutboxIsAccounted == started => StrayLeaves(records) \subseteq stuck

\* A copy lasts exactly as long as somebody has a right to it, and the service is told
\* when the owner of that right is gone.
CopyIsKept == TypeOK /\ HoldIsHonoured /\ LeaseIsKept /\ OwnersAreWatched /\ OutboxIsAccounted

\* The history never forgets the operation that a copy still there is claimed by
\* (pruneOperationHistory, claimDeviceMediaArtifact).
ClaimableIsKnown ==
  \A x \in Ops : ArtifactOf(x, source) \in Known => op[x] # "forgotten"

\* The catalogue shown was read from the device that is attached, and since it was attached:
\* never from another one, or before it was last away, although it outlives the generation
\* it was read in, and although a list may be put aside during a clean-up while
\* devices come and go (updateMediaCatalog, clearMediaCatalogView, releaseCacheCleanupLatch).
CatalogueIsOfDevice ==
  catalogue # NoList =>
    /\ catalogue.from = printer.device
    /\ printer.since <= catalogue.gen /\ catalogue.gen <= printer.generation

=============================================================================
