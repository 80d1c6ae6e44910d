# A TLA+ model of the TRYX Panorama runtime

TRYX Panorama drives USB cooling displays from Linux. A headless runtime owns
the device and serves a D-Bus API; a Qt Quick program and a command line client
are its clients. The modules here model the parts in which a bug costs a user
something that a test would hardly show: media uploaded to a device that can be
unplugged, that loses acknowledgements and keeps half a transfer until it loses
power; their replacement and removal, which may be sent once only; the update of
the firmware; the files that clients stage and share; the settings they change
side by side; the one byte stream on which all answers arrive; who may serve, who
may show a window, and what a client may believe of a runtime that comes and goes.

## Inventory

| Component | State | Operations | Hard part |
|---|---|---|---|
| `RetryCacheStore` | one retry candidate, one in-flight dispatch, files to delete; on disk the manifest, its root shadow, a protected shadow | prepare, retry, arm, outcome, local commit, defer, resolve, retire, clear, load | every mutation is several durable writes, a crash falls between two |
| `PrinterOperationCoordinator` | operations, foreground operation, retry snapshot, catalogue, replace journal, delete intent | queue, retry, cancel, answers of the worker, reconciliation, cache cleanup | answers for operations whose device changed; store failures half way |
| `PrinterSessionController`, `PrinterDeviceMonitor` | endpoint, generation, session, recovery flags | discovery snapshots, connect, recovery, firmware quiesce | answers of old generations, removal and return in one report |
| `PrinterClassSession` (worker thread) | channel, generation gate, keepalive | session start, list, upload, delete, apply, stage | the gate is crossed by another thread, lost acknowledgements |
| `PrinterTransactionChannel`, `UsbPrinterTransport` | one IN and one OUT transfer, receive buffer, track ids, keepalives in flight | execute, optional setter, keepalive | late answers and lost headers on one stream |
| `PaseConfigurationClient` | what this session still offers | apply, read back | applied, but not proved |
| `ReplaceJournal`, `DeleteIntentStore` | one durable record each | write, clear, load | stages of a saga over several device mutations |
| `DeviceMediaArtifactStore`, catalogue | copies with owners, leases and holds | stage, claim, renew, release, sweep, cleanup | the owner dies or the lease ends while a copy is in use |
| `FirmwareBridge`, `FirmwareUpdater`, `FirmwareRecoveryJournal` | lease, stage of the update, journal | validate, flash, cancel, acknowledge | the point of no return, a restart in the middle |
| `DeviceManager` (downgrade), `RuntimeDowngradeStore` | latch, fence, marker | prepare, abort, gate at start | a latched runtime, two builds on one state |
| runtime process, `RuntimeBootstrap` | bus names, child process | claim, serve, leave, launch, stop | native and sandboxed runtimes race for one device |
| `SingleInstanceGuard` | socket, lock file | notify, lease, recover, serve | an owner that crashed looks like one that is slow |
| `RuntimeClient` (GUI) | merged snapshots, one submission | handshake, refresh, submit | stale answers, changed owners, lost answers |
| `SavedLayoutStore`, `RuntimePresentationPreferencesStore` | a file, a copy, a revision | put, delete, set, apply | several clients, restarts, failed writes |
| media preparation, metrics, `NvidiaProcessSupervisor`, legacy session, GUI controllers, support data | - | - | not modelled, see the end |

The components call each other through Qt signals. Inside the main thread the
connections are `Qt::DirectConnection`: a handler and everything it calls is one
atomic step. The worker, media preparation and the firmware thread are reached by
queued connections: requests and answers are messages, in order per thread.
`updatePrinterGenerationGate` is the exception: the main thread writes it at once,
so that requests of an old generation are refused although they are queued.
Clients reach the runtime over D-Bus, which keeps the order between two peers and
tells when a name changes its owner.

## Modules

**Upload and retry**
* `RetrySnapshot` (no variables): the records of `RetryCacheStore` and one
  operator per mutation with its precondition (`CanX`). UUIDs are numbers of one
  counter.
* `RetryRecord`: the state machine of those mutations, the durable snapshot `snap`
  and `open`, the transfers that may be half done on a device. It is the abstract
  specification of the store.
* `RetryStore`: the store below it. `disk.canon` is the manifest, `disk.root` the
  shadow an older runtime reads, `disk.susp` the protected one. A mutation is a
  plan (`ArmPlan`, `OutcomePlan`, ...), a sequence of writes: `Write` does one,
  `Fail` reports one as failed (it may have landed), `Crash` leaves a prefix.
  `Load` is `load()`, a case analysis whose verdict is more writes and another
  look. `RefinesRecord` maps the three to the snapshot of `RetryRecord`.
* `UploadRetry`: the upload path in detail. `rt` is the process: `ops` is
  `operations_`, `act` `activeOperationId_`, `snap` `retryCacheSnapshot_`, `disk`
  the manifest, `load`/`fail` the start-up validation and the blocked store, `gen`
  the generation, `sact`/`slost`/`lrem`/`rec`/`rrem` the session and recovery
  flags, `gate`/`wk` the worker, `jobs`/`evts` the queued connections. A handler is
  an operator from a process state to the states it may leave; a mutation of the
  store succeeds, or fails with the old or the new snapshot on disk.

**Replacement and deletion**
* `ReplaceJournal` (no variables): which records are valid, which may follow which,
  what `write()` accepts and what the start takes for unknown.
* `ReplaceSaga`: coordinator, worker and device. `p.ops` is `operations_`, `p.j`
  the journal as memory has it, `p.pendR`/`p.pendD`/`p.memI` what is pending,
  `disk` the two files, `job` what the worker does, `dev.refs` what the layout
  shows, `dev.late` removals received and not done. Each file write in a handler
  (`Landing`) is done, fails with or without reaching the disk, or is the last
  thing the process does. `hist` belongs to the properties.

**Firmware**
* `FirmwareLease` (no variables): the lease on the transport, the jobs that close
  the sessions and mark their end in the worker's queue, the recovery interlock.
* `FirmwareUpdater`: the updater's thread, one external program after the other,
  over adb or through the loader, and the display as far as the writes tell
  displays apart. `upd.run` says whether the program of the step runs within its time
  or past it, `upd.poll` that the loader poll is armed: `StepTimesOut` and
  `LoaderPolled` are the two timers, which go off beside a running program.
* `FirmwareUpdate`: both with the bridge (`fb`), the journal (`disk`), the tasks and
  events of the firmware thread, the worker's queue and answers, the end and start
  of the runtime. `bench` is the display and what was touched on it.

**Media artifacts and cleanup**
* `ArtifactStore`: `DeviceMediaArtifactStore`. `records` is `records_` (owner, hold,
  lease, revoked), `leaf` what the outbox holds under each name, `now` the clock.
* `MediaArtifacts` composes it with the coordinator and the bus: staging, claim,
  renewal and release over D-Bus, operations that read a copy (`source`), clients
  that leave (`alive`, `notices`, `watched` of the service watcher), the sweep, the
  start-up scan, the cleanup of temporary files in batches between other events
  (`cleanup`, `posted`), the limit of the history, the catalogue shown and the one put
  aside (`deferred`). `printer` is the generation with the device attached in it, since
  when, and the generation gate: `NewGeneration` keeps the catalogue if the same device
  stays attached (`attachPrinterClassDevice` returns early), and empties it if one is
  attached or detached; `Detach` is the end of a firmware quiesce. `order` is the order of `operationOrder_` as a relation, the pairs of an
  operation and a later one: pruning asks how many that may go are before each. `lease`
  remembers what a client was told.

**The transaction channel and the display**
* `UsbPipe`: the IN transfer (`usb.arm`), its failures and their counters, the
  latch. An answer travels as two pieces, header and payload.
* `TransactionChannel` extends it with the receive buffer, track ids, the drain of
  late optional answers, the three kinds of exchange and the keepalives in flight;
  `todo` and `device` are the display, which answers late, or never.
* `DisplayApply` extends that with `applyPaseConfiguration`: preflight read, write,
  activation, restart of the playback on the Turris, readback, verdict.

**Who serves, and who shows a window**
* `RuntimeDowngrade`: runtime processes (`rt`: start gate, claim of the names, work,
  latch, fence, commitment, end), `ensureRuntimeService` of several launches
  (`launcher`), the prepare and abort commands (`cli`), the package manager
  (`installed`) and the marker with a cached and a durable copy. `name` is the bus
  name that is also the global exclusion, `api` the sandbox's own.
* `RetryRecordProofs`, `UploadRetryProofs`, `RuntimeDowngradeProofs`,
  `SingleInstanceProofs`, `SharedSettingsProofs`, `DisplayApplyProofs`,
  `MediaArtifactsProofs` and `FirmwareUpdateProofs` hold the proofs.
* `SingleInstance`: `SingleInstanceGuard`. `canonical` is the socket the instance
  name leads to, `spare` a launch's replacement leaf, `lease`/`leaseFile` the lock,
  `pc` where each launch is. Launches of a build that knows no lease bind at once.

**Clients**
* `RuntimeClient`: one window and the runtime's service. `calls` and `mail` are what
  is under way, `client` the snapshots of connection, operations, capabilities and
  display with the epochs reduced to "still wanted" (`live`, `fresh`), `sub` the
  display submission up to its verdict, also with a lost answer.
* `SettingsStore`: layouts and preferences in the runtime, `disk` the file, `rt` the
  copy with its revision. `SharedSettings` adds several clients of it with their
  snapshots, their refreshes and the changes they name a revision for.

MC modules instantiate these for TLC; `MCUploadRetry`, `MCRetryRecord`,
`MCMediaArtifacts`, `MCSingleInstance` and `MCSharedSettings` add symmetry sets for
runs without liveness.

## Runs

| Run | Question | Bounds | States |
|---|---|---|---|
| `upload_faults` | Whatever write fails, do the retry record on disk, the operations shown and the device stay consistent? | 2 operations, 2 devices (one without a file list), 2 dispatches, 2 failed writes, 1 replug, 1 file that vanishes | 1,969,219 |
| `upload_crashes` | Is nothing sent that is not armed, half done or of unknown fate, across a crash, and does the foreground always end? | 2 operations, 1 device, 2 dispatches, 1 crash, 1 replug, shadow may be lost | 1,778,453 |
| `retry_store` | Does every order of writes, failures and crashes of the store mean what `RetryRecord` says, and does recovery end? | 2 operations, 2 devices, 3 dispatches; failures and crashes unbounded | 174,689 |
| `retry_record` | Does an open transfer always have a record that blocks its device? | 2 operations, 2 devices, 3 dispatches | 484 |
| `replace_saga` | Is a replacement or deletion never repeated, told truly, and settled in the end? | 1 replacement, 1 deletion, 2 crashes, 1 failed write, 1 unplug, a foreign device | 243,126 |
| `firmware_update` | Is what may have been written recorded, kept to one owner, and does the transport come back? | 2 updates, 2 displays, 1 partition, 1 poll, any 2 mishaps | 1,941,991 |
| `media_artifacts` | Does a copy last as long as somebody has a right to it, and no longer? | 2 copies and 1 old one, 1 client, 1 reader, 1 cleanup, clock to 1, history of 1, 2 devices, 2 generations, 1 list, 1 failure | 1,651,661 |
| `single_instance` | Is there one reachable window, and is a refusal explained? | 3 launches, 1 older build, 2 crashes, 1 failed call | 55,833 |
| `runtime_downgrade` | Does one process manage devices, and does a prepared downgrade stay prepared? | 2 launches (1 sandboxed), 2 processes, 1 installation, 2 commands, 1 mishap | 2,172,735 |
| `runtime_client` | Is what a window shows that of the current runtime, and what it reports true? | 1 own and 1 foreign operation, 1 loss of the runtime, 1 trouble in delivery or a deadline | 6,196,828 |
| `display_apply` | Is no answer taken for another's, and does "applied" mean applied? | 1 application, 2 failing transfers, 1 request without answer or keepalive, 1 frame skipped per exchange, 1 keepalive retry, both product families | 6,539,035 |
| `shared_settings` | Is nothing another client stored overwritten unseen, and is what is offered current? | 2 clients, 2 names, 2 devices, 2 pairs, 3 changes, 2 troubles, limit of 1 layout | 1,983,180 |

What the properties say:

* `upload_faults`, `upload_crashes`: `RetryIsDurable` combines that a half-done
  session is recorded (`TaintIsDurable`), that an offered retry is on disk
  (`RetryOfferedIsDurable`) and the candidate on disk is offered
  (`CandidateIsOffered`), up to the cases named among the observations below;
  `CandidateIsNotLost` that a candidate goes only when its user discards it or its
  device has the copy. `TransferIsAdmitted`: armed before sent, one foreground operation,
  restricted sessions only read. `NoTransferIntoTaintedSession`, `NoBlindResend`,
  `SucceededIsStored` are about the device; `ForegroundEnds` is liveness.
* `retry_store`: `StoreIsSound` (the shadow covers the open transfer, a store that
  is ready is settled), `OneFaultRecovers`, the refinement, `RecoveryEnds`.
* `replace_saga`: `RecordsKnow` (write-ahead), `NothingRepeated`, `VerdictIsTrue`,
  `SentSafely` (an action property), `RemovedIsSettled`.
* `firmware_update`: `RecordIsTrue` (what was touched is recorded by the record that
  names it; a display marked complete has all that was to go when its start marker was
  written, which is everything unless the poll sent the update back), `TransportIsClosed` (flashing is exclusive, a
  recovery keeps sessions closed, no session behind a quiesce), `UpdatesEnd` and
  `LeaseEnds`, both unless a program that may not be stopped runs for ever (`Overdue`).
* `media_artifacts`: `CopyIsKept` (a hold and a promised lease are honoured, owners
  are watched, nothing unknown is left in the outbox), `ClaimableIsKnown`,
  `CatalogueIsOfDevice` (what is shown was read from the attached device since it was
  attached, not necessarily in the current generation).
* `single_instance`: `OneInstance` (a primary is reachable; a live window of an older
  build gets its name back), `RefusalIsExplained`.
* `runtime_downgrade`: `OneManager`, `MarkerIsTrue` (the author of the marker is
  quiet for good; a reported preparation survives a power loss),
  `LatchedRuntimeLeaves` (once its worker has come back).
* `runtime_client`: `ViewIsCurrent` (nothing of an earlier owner; the active
  operation and the display are current once all is delivered), `SuccessIsReported`,
  `OutcomeIsTrue`.
* `display_apply`: `ChannelIsSound` (an exchange ends with its own answer, the latch
  is earned), `CleanIsUntouched`, `SuccessIsApplied`.
* `shared_settings`: `NothingOverwrittenUnseen` (an action property), `OfferIsTrue`.

Each property is listed with a mutant: an operator next to the definition it
replaces that has a plausible bug, under which TLC finds the property violated in
the same run.

**Why the bounds are enough.** Two operations and two names are an original and
its retry, or an upload and a stranger; the second device tells a replug of the
same device from a replacement. Each fault has a bound of its own so that the
combinations that matter (a crash *and* a replug, a failed write *and* a replug)
meet in some run. In `retry_store` crashes and failed writes are not bounded at
all, `MaxUid` alone is: three dispatches are a candidate, its retry and the one
after it, as many records as the three places hold. Faults that hit a recovery are
remembered in `again`, because the store does not promise to survive every one of
them: `OneFaultRecovers` and the settled half of `StoreIsSound` hold where no
recovery was itself interrupted. `replace_saga` has one replacement and one deletion
because the coordinator admits one of each; two crashes let the recovery of a
crash be cut off. In `firmware_update` the second update inherits the record the
first leaves behind; one poll is enough for the timer to go off during a write, and for
the update sent back to reach the writes again; cancellations, shutdowns, exchanges, failed writes and crashes
share one bound, so that every pair of them meets. `media_artifacts` has a copy of
an earlier run and two of this one, one client that stays or leaves, one reader and
one cleanup; both periods are one tick, so that at the tick what was reserved or leased
before it has expired and what is renewed or leased at it has not, and the history keeps
one entry, so it is full at once. Two generations are an attachment and what follows
it: the same device again, another one, or none. In
`single_instance` three launches are a crashed owner and two that recover at the
same time. `runtime_downgrade` lets two launches, one of which may be sandboxed,
start two runtimes, one before and one after an installation that may be the
older release; two commands are a preparation and its abort or repetition.
`runtime_client` has two owners at most, and the other client's operation beside
the own one. `display_apply` allows two failed transfers, which is one more than a
counter forgives, and one answer that is late. `shared_settings` has three changes
by two clients for two names or two pairs. Where deadlock is not checked the system
idles when nobody plugs, clicks or answers; in `firmware_update` and
`media_artifacts` it is checked.

**Fairness.** `UploadRetry`: the worker's next request and answer, discovery reports
and the ends of preparation and validation are weakly fair; they are threads or
event loops that wait for nobody, and the transport has timeouts. Users, cables,
faults and crashes are never fair. `ForegroundEnds` is checked without store
failures, because with one during conversion the dispatch barrier
(`printeroperationcoordinator.cpp:2367`) returns without finishing the operation.
`RetryStore`: `Load` and `Write` only. `ReplaceSaga`: the restart after a crash, the
worker's steps, answers and session starts; a user told that the session is lost
reconnects; `WorkerReconcile` is strongly fair, since a look at the device does not
fail every time. `RemovedIsSettled` leaves out runs with a failed write, after which
the code waits for a next session, and runs with a plain deletion (see below).
`FirmwareUpdate`: the event loops, tasks, the quiesce deadline, the updater's two timers
and the exit after `quit()`. Not the programs: the step timer ends an update whose
program takes too long, or arms the poll, but lets a program that may be changing the
device run on with no timer left (`firmwareupdater.cpp:1406-1431`), and the shutdown
waits for it. `UpdatesEnd` and `LeaseEnds` therefore assume that it is not overdue for
ever (`[]<>~Overdue`). Nor the worker, which is why `LeaseEnds` promises the transport
back only if the worker empties its queue again and again. `RuntimeDowngrade`: the main
thread goes on once the worker has reached the fence, and a process told to leave does
so, if need be by its exit deadline. Not the worker: the wait for the fence has no
deadline (`devicemanager.cpp:1945-1951`), nor have the programs that run on the worker
(`core/adb.cpp:80-90`), and the exit deadline is armed only on the way out
(`runtime/main.cpp:297-303`), which a main thread that waits does not reach. A latched
runtime whose worker never comes back stays. The other specifications are checked for
safety only and state no fairness.

## Proofs

`RetryRecordProofs` proves for every `Ops`, `Devices` and `MaxUid`, from
`ConstantsAssumption` and `NoneAssumption` alone, that `RetryRecord!Spec` implies
`[]TypeOK`, `[]OpenIsRecorded`, `[]QuietInFlight` and `[]OneOpenTransfer`. None is
inductive alone: that an open transfer is recorded survives the start of a retry only
because nothing starts while a recovery is outstanding, that there is at most one
needs to know where it is recorded. `IInv` is their conjunction with the relation
between the phase of the dispatch, the candidate and the open transfers; one lemma
per action shows that it is preserved.

`UploadRetryProofs` proves for any operations, devices, ids, failed writes, crashes,
replugs and downgrades that `UploadRetry!Spec` implies `[]TransferIsAdmitted` and
`[](TypeOK /\ RetryOfferedIsDurable /\ CandidateIsOffered)`, from `ConstantsAssumption`,
`NoneAssumption`, `BoundsAssumption` and `NoOperationAssumption`. None is inductive. That
an upload in the worker's queue is of the operation in the foreground and armed on disk
survives an answer only if there is no second answer behind it, and that a candidate is
offered survives a failing store only if it is known what is half done. `UploadInvariant`
is about the process alone, and has three parts. `Surface`: the operation in the
foreground is starting, sending or looking (`Foreground`), and says with which record on
disk; whatever else is not over waits for the verification of its record (`Waiting`);
as long as no write failed nothing is half done between two events (`Records`); a record
that stands still is shown (`Shown`), nothing else is (`Offers`), and before the records
are loaded there is nothing (`Loading`). `Traffic`: at most one question about the
foreground operation is open, as a request or as its answer (`Question`); what is queued
for anything else is of an earlier generation, or the session is lost and a reconnect is
demanded (`Strays`); a session starts once per generation, and is lost after it started
(`Sessions`); uploads are of the operation that is uploading (`Transfers`). `Calm`: an
operation that may have to look again has nothing left to be told. TLC checked it on the
two runs and on four other instances first. A handler is proved from what it is called
with to `Good` of every state it may leave, in the order in which handlers call each
other: ending an operation and `Sync`, the mutations of the store, `Reconcile`, the
verified upload, the dispatch, the failure of a prepared upload, the lists, the session
events, discovery, boot, and last the worker's steps.

`RuntimeDowngradeProofs` proves for any number of processes, launches, builds,
installations, commands and mishaps that `RuntimeDowngrade!Spec` implies
`[]OneManager` and `[]MarkerIsTrue`. The assumptions are that the first build is
not an older release, that `NoOne` is neither a build, a process nor a marker, and
that the bounds are natural numbers. `IInv` adds to the types: whoever manages devices
or waits for the sandbox's name owns the global name (`NamesAreHeld`); behind the
fence nothing is accepted, and the worker has ended by the commitment
(`FencedIsQuiet`); the authors of both copies of the marker are past that
(`AuthorsAreSilent`); while a command waits for an exit or removes a marker nobody is
behind a fence (`CommandsAreSerial`); and both copies name the build that was reported
unless another one has been installed (`MarkersStand`). The copies need an invariant
each, since a power loss may bring either of them back, and that an abort cannot take
a marker from under a preparation needs `CommandsAreSerial`. Steps of one process are
proved over `Moves`, which says what of its record changes; the end of a process, which
eight actions share, is proved once (`EndSafe`, `StopSafe`, `AfterFence`).

`SingleInstanceProofs` proves for any set of launches, older builds, crashes and
failed calls that `SingleInstance!Spec` implies `[]OneInstance` and
`[]RefusalIsExplained`, from `SomeLaunchers` (`NoOne` is no process, the two kinds are
disjoint) and `BoundsAreNaturals`. Neither is inductive. `IInv` adds that the lease is
held by at most one launch from lock to release (`Exclusive`); which launches listen and
which of them the instance name leads to (`Sockets`); that an older build had no socket
before it began (`OlderBuilds`); and that the socket a recovery means to move aside is
still the one it pinned, or dead for good (`Candidates`), without which the second half
of `OneInstance` is lost between the last probe and the exchange. `RefusalIsExplained`
speaks of histories without an older build, failed call or overtaking; `Evidence` says
what holds in them, that a name that is taken comes with a lease left behind. One lemma
per action shows each conjunct preserved.

`SharedSettingsProofs` proves for any clients, devices, names, pairs and bounds that
`SharedSettings!Spec` implies `[]OfferIsTrue` and `NothingOverwrittenUnseen`, from
`DefaultsAreAPair` and `BoundsAreNaturals`. That a change replaces only what its client
saw needs more than the comparison of revisions in `putV2`, `removeV2` and
`setPresentationPreferences`: a revision must never have had two meanings. `IInv` says
so of all that was ever on the disk, each layout included (`LayoutsMean`; a write that
could not be confirmed counts, since the next start reads it), or used by one runtime
(`PairsMean`); that each call, message and view quotes such a meaning (`CallIsTrue`,
`MailIsTrue`, `ViewIsTrue`); that an answer still wanted is of the runtime the client
knows (`FreshIsOwn`) and runtimes are announced in their order, behind all that came
from the ones before (`OwnersInOrder`); that behind a change a client gave up there is
nothing that lets it go on (`OneChange`); and that a client that is behind will be told
of the loss (`LossIsTold`) or of the newer pair (`PairReaches`). A client's steps are
proved on the bundle they work on, `Weak` and `Good`, and `CommitSafe` carries that to
the state; the runtime's steps go through `ServerSafe`.

`FirmwareUpdateProofs` proves for any displays, partitions, polls, requests and mishaps,
whenever the two timers go off,
that `FirmwareUpdate!Spec` implies `[]RecordIsTrue` and `[]TransportIsClosed`, from
`UpdaterAssumption`, `BoundsAssumption` and `NoRecordAssumption` (the absence of a
record is no record). Neither is inductive: that the journal names the update that
touched the display needs to know where the one start of that update is, and that no
session is open behind a quiesce needs the order of the closings and fences in the
worker's queue. `FirmwareInvariant` has, beside the types, for the updater alone what a
writing step says of the loader it confirmed (`UpdaterInvariant`); for a runtime that is
up that the bridge waits for one thing at a time (`Shape`), that the start of an update
it counts as started is on its way, underway or told (`Owned`), which record the journal
holds before, during and after it (`Prepared`, `Begun`, `Kept`), that the bridge's lease
is the controller's and the queue behind it is quiet (`Agree`, `LeaseInvariant`), and
that the interlock is the bridge's need of a recovery; and for one that is down that
nothing of it is left but the record (`Off`, `Kept`). TLC checked it on the instance of
`firmware_update` first. Handlers are proved on the record they work on (`Sound`), and
`BecameSound` carries the result to the state; the first part of the module shows what
the controller's handlers, the worker's steps and the updater's steps keep for
themselves.

`DisplayApplyProofs` proves for any number of applications, attempts, faults, events
and keepalives that `DisplayApply!Spec` implies `[]ChannelIsSound`, `[]CleanIsUntouched`
and `[]SuccessIsApplied`, from `InputRetriesAssumption` and `BoundsAssumption`. None is
inductive: that an answer is of the request that waits for it follows from the numbers
it carries only if nothing else in flight can carry them, and that a rejected write
touched nothing only if no refusal of an earlier request is still on its way.
`ApplyInvariant` says that what is in flight, in the receive buffer, the pipe's queue and
the device's stream together, is in the order of the requests and before all that the
device has not handled (`Flowing`); that each frame and request has the number of its
track id, and a configuration that is read back was once carried out (`HonestFrame`,
`HonestRequest`); which call belongs to which step (`Steps`); what a preflight that
succeeded has shown to be gone, which is why a refusal after it is the write's own and
why the one track id that file transfers share is safe for the restart (`Settled`); and
what each step and verdict says of the display (`Applied`, `Told`). TLC checked it on the
instance of `display_apply`, and on simulated behaviours of a larger one. The steps of
the pipe and of the buffer are proved to lose pieces but never to reorder them (`Later`);
a step of the host that sends nothing is then covered by `HostKept`, an arriving request
by `ArrivesKept`, the beginning of a call by `BeginsKept` and its verdict by
`VerdictKept`. The bounds of the skipped frames and of the retried keepalives are not
used: they bound how long a call takes, not what it may conclude.

`MediaArtifactsProofs` proves for any copies, readers, clients, clean-ups, durations and
failing unlinks that `MediaArtifacts!Spec` implies `[]CopyIsKept`, `[]ClaimableIsKnown`
and `[]CatalogueIsOfDevice`, from `DurationAssumption`, `BoundsAssumption` and
`IdentitiesAssumption` (identifiers are fresh). `MediaInvariant` adds what the first two
rest on: an operation that stages a copy is the active one and its reservation is leased
to nobody (`Staging`), so that neither a failed pull nor a renewal meets a right of a
client; a lease is of an owner who is still on the bus (`Leased`), so that revoking what
a vanished owner had breaks no promise; nothing that an operation has read is of one not
yet begun (`Begun`); a list of the current generation, posted, put aside or shown, is of
the attached device (`Lists`, `Posts`), because a device comes with a generation of its
own, and no list is of a later generation; and while a clean-up has the latch it is the active operation
(`Latching`), so that no copy it planned to take can be held anew between two batches.
TLC checked it on the instance of `media_artifacts`. The parts about the copies are one
predicate, `Fit`, of any records, files and operations: a handler revokes, gives up holds,
removes, and prunes the history within one step, and each of these is a lemma from `Fit`
to `Fit` (`RevokedKeeps`, `UnheldKeeps`, `RemovalKeeps`, `ForgettingKeeps`). The order of
the history is used nowhere: what may be forgotten is safe to forget in any order.

Only model-checked: liveness; of `UploadRetry` what relates the process to the device
(`TaintIsDurable`, `NoTransferIntoTaintedSession`, `NoBlindResend`, `SucceededIsStored`,
`CandidateIsNotLost`); `ReplaceSaga`; the refinement of `RetryStore`; `RuntimeClient`,
whose invariants were strengthened no further than the run needed.

## Disagreements and observations

Found while modelling, each confirmed in the code; the properties above are stated
so that they leave exactly these cases out.

Between the code and what a document or a test says of it:
* A half-done transfer's recovery requirement is to survive restarts
  (`README.md:818`). Cancelling its retry clears the candidate
  (`printeroperationcoordinator.cpp:6030`), its only durable trace; after a restart an
  upload is sent without a power cycle.
* A retry in Preparing is to be cleared by a restart
  (`docs/2026-08-09-runtime-decomposition-and-feature-roadmap.md:706`). If its process
  dies inside `protect()` and the next between the two steps of `cleanup()`, `load()`
  reports a conflict (`retrycachestore.cpp:8407`) at every later start.
* A reconciliation is to become terminal only when a fresh list proves the copy
  (`README.md:547`). When the look after a verified Apply does not find it, the next
  start settles the replacement from the journal's flags
  (`printeroperationcoordinator.cpp:7546`).
* A lost answer to a deletion is to enter reconciliation (`README.md:822`). A plain
  deletion asked for while a replacement is unresolved and whose answer is lost waits
  for the replacement (`:5332`), and the replacement for it (`:7641`).
* `tests/printerprotocol_tests.cpp:10245-10284` expects a replacement that stopped just
  before FileRemove to be settled by a list with both files. The worker reports that
  outcome as a lost session first, so the branch is not reached (`:6855`).
* `tests/printerprotocol_tests.cpp:39207-39262` expects an update that failed before a
  write to leave no recovery. A program that cannot be executed ends the update within
  `waitForStarted`; `firmwareupdater.cpp:1207` then reads `process_`, which is null.
* The runtime is to persist the confirmed pair of preferences (`README.md:115-117`). A
  failure after the file was replaced is reported as an error, so the pair is not
  confirmed, but on disk (`runtimepresentationpreferencesstore.cpp:424-443`).
* At most one retry is to be shown (roadmap, line 697). When a retry finds its media on
  the device and the store cannot consume the candidate, both are offered.

Behaviour that is as the models say and that a reader may not expect:
* Upload: if a look at the file list is still open when a replug resolves its fence, the
  late answer ends the operation as failed (`printeroperationcoordinator.cpp:1864-1966`,
  `:1618-1728`, `:2206-2355`); the retry is on disk, but offered again only by a restart
  or the next change of the record (`LookedTooLate`). It takes a `ConnectDevice` between
  two looks. A store that removed a candidate and fails to delete its files leaves the
  retry it was made from on offer (`:2172`), where it is refused.
* Artifacts: a list posted just before a cleanup ends is applied before the older one
  that was put aside.
* Firmware: a `DetectLoader` that exceeds its time arms the poll and runs on. If it still
  finds the loader, the update goes on to its writes, and the poll timer, which only the
  end of the update stops, kills the one that runs (`firmwareupdater.cpp:96-108`,
  `:1402-1404`, `:1724-1736`), irreversible or not. The search that follows takes the
  loader it finds for the one to write to (`:1636`), and the partitions already taken from
  the list are not put back (`:1823`): the complete marker may be written on a display
  that has got fewer than all. `CompleteIsComplete` allows for just these (`from`,
  `back`). A program that may not be stopped and does not end keeps the update, its lease
  and a runtime that was told to end.
* Catalogue: a snapshot that repeats the same path, serial and product, or a connection
  restarted, begins a generation and leaves the catalogue of the one before on show until
  its own list arrives (`printersessioncontroller.cpp:376-381`, `:813-817`).
* Single instance: a launch that looked at the lease before an owner began and asks for
  it after that owner died is refused. Natively its unlock removes the lock file, so
  later launches are refused too (`overtaken`).
* Downgrade: a runtime that passed the gate before another one committed the marker may
  still serve although its build is marked. `persist` syncs the marker's directory,
  not that directory's new entry in its parent. A launch that gives up stops its child
  even if another launch uses it. An executable replaced while it runs is recorded with
  a path that ends in "(deleted)", which nothing matches later.
* Client: a signal that precedes the first list of the same revision leaves only its
  own operation in the list (`quick/runtimeclient.cpp:6606`); a removal as first event
  makes it drop the snapshot of the same revision (`:6625`); a context that changes at
  each of three refreshes stays closed.
* Channel: two payloads that lost their headers are read as one message. In a drain an
  error frame of an earlier untracked request makes the tracked setter "rejected". All
  answers of the bootstrap share track id 0. A deadline at the top of the loop keeps a
  connection with half a frame when timeouts are preserved.

## Assumptions of the models

*Upload*: one USB port; unplugging is a power cycle and clears the half-done transfer.
The worker's `configure` and `clear` requests are applied at once: what is queued
before them is refused by the gate. The byte formats of the manifests, the copying of
artifacts, quotas and the version 1 manifest are left out.

*Replacement*: a removal the device has received takes effect at once, later or never;
an Apply by its answer or never. A crash takes the worker with it. Conversion and
upload are four steps, since `UploadRetry` models them. Saving as new, deletions of
several files and a session lost while an overlay's activation is pending are left out.

*Firmware*: one client; package identity and parsing are outcomes; steps that only ask
the device something are one; every partition has its image; a display is exchanged
only during an update, and not between a confirmation and the opening of the device. A
program that writes when the runtime dies may or may not finish.

*Artifacts*: shutdown and `claimQuickStagedSource` are left out, a copy's content is an
outcome of the check.

*Channel*: times are left out, a deadline may pass whenever the host waits. The session
bootstrap, media uploads and pulls, the test descriptor, the sandbox's revocation of a
device and abandoned transfers are left out; only a Turris refuses keepalives.

*Runtime processes*: an executable's identity is new with each installation. Preparing
a Flatpak or a development build, the guards of a firmware update and the error exits of
`runtime/main.cpp` after the claim (288-290, 357-363) are left out. A
preparation's assessment sees the store as the coordinator leaves it, plus files that
somebody else puts there or takes away.

*Single instance*: directory identity, permissions and the content of intents are left
out; that `QLocalServer` unlinks its name when it closes is external.

*Client*: one device; connecting and the session's start are one step. The refresh
button, the abandonment of an unresolved submission, metrics, media, specifications,
the removal of operations and the legacy interface are left out.

*Settings*: processes crash, machines do not. Import and export, the interface of
version 1, validation of drafts, and the worker's second proof of a layout's media are
left out. A file that vanishes begins again at revision 0.

## Not modelled

* Media preparation (`printermediapreparer.cpp` and its helpers): an external
  conversion of which `UploadRetry` keeps the end.
* `NvidiaProcessSupervisor`: a race of three threads over one child process whose
  outcome is a displayed number; listed as a hazard. The other metrics read sensors.
* GUI controllers, tray, autostart, support data: presentation over the runtime client,
  or files rewritten by one process.
* The serial session of older products, which keeps no durable state.
* The other commands of the command line: single calls of the D-Bus service.

Left for later: proofs that `RetryStore` refines `RetryRecord`, that `ReplaceSaga`
repeats nothing, and of the invariants of `RuntimeClient`; liveness of
`RuntimeClient` (a handshake that always completes) and of `MediaArtifacts` (a copy
without owner goes).
