-------------------------- MODULE RuntimeDowngrade --------------------------
(***************************************************************************)
(* The life of runtime processes: who may serve (runtime/main.cpp,         *)
(* flatpakruntimeownership.cpp), who starts and stops them                 *)
(* (quick/runtimebootstrap.cpp, ensureRuntimeService), and how one of them *)
(* is closed for good before an older release is installed                 *)
(* (DeviceManager::prepareRuntimeDowngradeV10, runtimedowngradestore.cpp,  *)
(* the prepare and abort commands of cli/tryxclirunner.cpp).               *)
(*                                                                         *)
(* The marker has a cached and a durable copy, so that a power loss may    *)
(* undo a rename or an unlink that was not synced.  Builds stand for the   *)
(* identity of an executable (path, inode, size, hash).  The sandbox has   *)
(* its own state directory: preparing a Flatpak runtime is left out.       *)
(***************************************************************************)
EXTENDS Naturals, FiniteSets

CONSTANTS
    Runtimes,       \* processes, each started at most once
    Launchers,      \* calls of ensureRuntimeService
    Sandboxed,      \* those that may be made inside the Flatpak sandbox
    Builds,         \* installed executables, a new one per installation
    FirstBuild,
    Released,       \* builds of the older release: no gate, no preparation
    NoOne,
    MaxInstalls, MaxCommands,
    MaxMishaps      \* crashes, power losses, failed calls and stray files together

ASSUME BuildsAreKnown == FirstBuild \in Builds \ Released /\ NoOne \notin Builds \cup Runtimes
ASSUME NoOneIsNoMarker == NoOne \notin [build : Builds, mode : {"Empty", "FullFrame"}, by : Runtimes]
ASSUME BoundsAreNaturals == MaxInstalls \in Nat /\ MaxCommands \in Nat /\ MaxMishaps \in Nat

VARIABLES
    installed, installs,
    cached, durable,   \* the marker: which build, in which mode, committed by whom
    name,              \* owner of org.tryx.Panorama, the global exclusion
    api,               \* owner of the sandbox's own name
    rt,                \* the runtime processes
    store,             \* what the retry store holds, and whether its directory is exact
    cli,               \* the running command
    commands,
    launcher,          \* the calls of ensureRuntimeService
    prepared,          \* history: the build whose preparation was reported and stands
    mishaps

marker == <<cached, durable>>
bus == <<name, api>>
command == <<cli, commands>>
system == <<installed, installs>>
vars == <<system, marker, bus, rt, store, command, launcher, prepared, mishaps>>

Modes == {"Empty", "FullFrame"}
Snapshots == Modes \cup {"open"}
Markers == [build : Builds, mode : Modes, by : Runtimes] \cup {NoOne}
Alive == {"gate", "claim", "guarded", "up", "fenced", "committed", "leaving"}
Managing == {"up", "fenced", "committed", "leaving"}

TypeOK ==
    /\ installed \in Builds /\ installs \in 0 .. MaxInstalls
    /\ cached \in Markers /\ durable \in Markers
    /\ name \in Runtimes \cup {NoOne} /\ api \in Runtimes \cup {NoOne}
    /\ rt \in [Runtimes -> [phase : Alive \cup {"off", "gone"}, build : Builds, flatpak : BOOLEAN,
                            latched : BOOLEAN, active : BOOLEAN, worker : BOOLEAN]]
    /\ \A r \in Runtimes :
          /\ rt[r].phase \in Managing => IF rt[r].flatpak THEN name = r ELSE name = r /\ api # r
          /\ rt[r].phase \notin Managing => ~rt[r].worker /\ ~rt[r].active
    /\ store \in [snapshot : Snapshots, exact : BOOLEAN]
    /\ cli \in [phase : {"idle", "called", "replied", "absent", "looked", "unlinked"},
                at : Runtimes \cup {NoOne}]
    /\ commands \in 0 .. MaxCommands
    /\ launcher \in [Launchers -> [phase : {"idle", "start", "wait", "probe", "over"},
                                   started : Runtimes \cup {NoOne}, owner : Runtimes \cup {NoOne},
                                   flatpak : BOOLEAN]]
    /\ prepared \in Builds \cup {NoOne}
    /\ mishaps \in 0 .. MaxMishaps

Off == [phase |-> "off", build |-> FirstBuild, flatpak |-> FALSE, latched |-> FALSE,
        active |-> FALSE, worker |-> FALSE]
NoCommand == [phase |-> "idle", at |-> NoOne]

Over == [phase |-> "over", started |-> NoOne, owner |-> NoOne, flatpak |-> FALSE]

Init ==
    /\ installed = FirstBuild /\ installs = 0
    /\ cached = NoOne /\ durable = NoOne
    /\ name = NoOne /\ api = NoOne
    /\ rt = [r \in Runtimes |-> Off]
    /\ store = [snapshot |-> "Empty", exact |-> TRUE]
    /\ cli = NoCommand /\ commands = 0
    /\ launcher = [l \in Launchers |-> [Over EXCEPT !.phase = "idle"]]
    /\ prepared = NoOne /\ mishaps = 0

Fault == mishaps < MaxMishaps /\ mishaps' = mishaps + 1
NoFault == UNCHANGED mishaps

AnotherCommand == commands < MaxCommands /\ commands' = commands + 1

Phase(r, p) == rt' = [rt EXCEPT ![r].phase = p]
Ghost(b) == [Off EXCEPT !.phase = "gone", !.build = b]
Gone(r) == rt' = [rt EXCEPT ![r] = Ghost(rt[r].build)]
Without(owner, r) == IF owner = r THEN NoOne ELSE owner

(***************************************************************************)
(* The start of a process                                                  *)
(***************************************************************************)
\* The gate: a marker of this executable, or one that cannot be read, ends it cleanly.
ExecutableOf(r) == rt[r].build

MayPass(r) ==
    CASE rt[r].flatpak \/ rt[r].build \in Released -> TRUE
      [] cached = NoOne -> TRUE
      [] OTHER -> cached.build # ExecutableOf(r)

Gate(r) ==
    /\ rt[r].phase = "gate"
    /\ \/ MayPass(r) /\ Phase(r, "claim") /\ NoFault
       \/ ~MayPass(r) /\ Gone(r) /\ NoFault
       \/ Fault /\ Gone(r)
    /\ UNCHANGED <<system, marker, bus, store, command, launcher, prepared>>

\* The global name first: a native runtime serves under it, a sandboxed one keeps it as a guard.
Claim(r) ==
    /\ rt[r].phase = "claim"
    /\ IF name # NoOne THEN Gone(r) /\ UNCHANGED name
       ELSE Phase(r, IF rt[r].flatpak THEN "guarded" ELSE "up") /\ name' = r
    /\ UNCHANGED <<system, marker, api, store, command, launcher, prepared, mishaps>>

ClaimApi(r) ==
    /\ rt[r].phase = "guarded"
    /\ IF api # NoOne THEN Gone(r) /\ name' = Without(name, r) /\ UNCHANGED api
       ELSE Phase(r, "up") /\ api' = r /\ UNCHANGED name
    /\ UNCHANGED <<system, marker, store, command, launcher, prepared, mishaps>>

(***************************************************************************)
(* Work: requests and timers on the main thread, transport on the worker   *)
(***************************************************************************)
Accept(r) ==
    /\ rt[r].phase = "up" /\ ~rt[r].latched /\ ~rt[r].active
    /\ rt' = [rt EXCEPT ![r].active = TRUE, ![r].worker = TRUE]
    /\ UNCHANGED <<system, marker, bus, store, command, launcher, prepared, mishaps>>

\* Keepalive and artifact timers.
Poll(r) ==
    /\ rt[r].phase = "up" /\ ~rt[r].latched /\ ~rt[r].worker
    /\ rt' = [rt EXCEPT ![r].worker = TRUE]
    /\ UNCHANGED <<system, marker, bus, store, command, launcher, prepared, mishaps>>

WorkerStep(r) ==
    /\ rt[r].worker
    /\ rt' = [rt EXCEPT ![r].worker = FALSE]
    /\ UNCHANGED <<system, marker, bus, store, command, launcher, prepared, mishaps>>

\* The end of an operation decides what the retry store holds from then on.
Settle(r) ==
    /\ rt[r].phase = "up" /\ rt[r].active /\ ~rt[r].worker
    /\ rt' = [rt EXCEPT ![r].active = FALSE]
    /\ \E s \in Snapshots : store' = [store EXCEPT !.snapshot = s]
    /\ UNCHANGED <<system, marker, bus, command, launcher, prepared, mishaps>>

\* Somebody puts a file, a backup for instance, into the retry directory, or takes it away.
Litter ==
    /\ Fault
    /\ store' = [store EXCEPT !.exact = ~@]
    /\ UNCHANGED <<system, marker, bus, rt, command, launcher, prepared>>

(***************************************************************************)
(* The end of a process                                                    *)
(***************************************************************************)
\* Mutant: the sandboxed runtime releases both names at once
StopServingAndRelease(r) == api' = Without(api, r) /\ name' = IF rt[r].flatpak THEN Without(name, r) ELSE name

\* aboutToQuit: a sandboxed runtime stops serving, but keeps the exclusion until its workers ended.
StopServing(r) == api' = Without(api, r) /\ UNCHANGED name

Terminate(r) ==
    /\ rt[r].phase \in {"gate", "claim", "guarded", "up"}
    /\ IF rt[r].phase = "up" THEN Phase(r, "leaving") /\ StopServing(r)
       ELSE Gone(r) /\ name' = Without(name, r) /\ UNCHANGED api

\* SIGTERM from the service manager or the user; firmware inhibition is FirmwareUpdate's.
Stop(r) ==
    /\ Terminate(r)
    /\ UNCHANGED <<system, marker, store, command, launcher, prepared, mishaps>>

\* Everything that owns the worker is destroyed, or the exit deadline that was armed on the
\* way out ends the process and a worker that has not come back.
Leave(r) ==
    /\ rt[r].phase = "leaving"
    /\ Gone(r)
    /\ name' = Without(name, r) /\ api' = Without(api, r)
    /\ UNCHANGED <<system, marker, store, command, launcher, prepared, mishaps>>

Crash(r) ==
    /\ Fault
    /\ rt[r].phase \in Alive
    /\ Gone(r) /\ name' = Without(name, r) /\ api' = Without(api, r)
    /\ UNCHANGED <<system, marker, store, command, launcher, prepared>>

\* What was not synced may or may not have reached the disk.
PowerLoss ==
    /\ Fault
    /\ \E m \in {cached, durable} : cached' = m /\ durable' = m
    /\ name' = NoOne /\ api' = NoOne
    /\ rt' = [r \in Runtimes |->
                IF rt[r].phase = "off" THEN rt[r]
                ELSE Ghost(rt[r].build)]
    /\ cli' = NoCommand
    /\ launcher' = [l \in Launchers |->
                      IF launcher[l].phase = "idle" THEN launcher[l]
                      ELSE Over]
    /\ UNCHANGED <<system, store, commands, prepared>>

(***************************************************************************)
(* Preparation                                                             *)
(***************************************************************************)
\* releasedV10DowngradeSafety: what the records allow, then what lies in the directory.
SnapshotSafety == IF store.snapshot \in Modes THEN store.snapshot ELSE "blocked"
\* Nothing but the root, or the manifest of an empty store.
EmptyIsExact == store.exact

\* The manifest, the artifacts of the candidate, their copies in the shadow, nothing else.
PairIsExact == store.exact

DirectorySafety ==
    IF IF SnapshotSafety = "Empty" THEN EmptyIsExact ELSE PairIsExact
    THEN SnapshotSafety ELSE "blocked"

Assessment(r) == IF rt[r].active THEN "blocked" ELSE DirectorySafety

Call ==
    /\ cli.phase = "idle"
    /\ name # NoOne /\ rt[name].phase = "up" /\ ~rt[name].flatpak
    /\ cli' = [phase |-> "called", at |-> name]
    /\ AnotherCommand
    /\ UNCHANGED <<system, marker, bus, rt, store, launcher, prepared, mishaps>>

\* A refusal takes the latch back; otherwise the main thread waits for the worker behind its fence.
Prepare(r) ==
    /\ cli.phase = "called" /\ cli.at = r /\ rt[r].phase = "up"
    /\ IF rt[r].build \in Released \/ rt[r].latched \/ Assessment(r) \notin Modes
       THEN cli' = NoCommand /\ UNCHANGED rt
       ELSE rt' = [rt EXCEPT ![r].latched = TRUE, ![r].phase = "fenced"] /\ UNCHANGED cli
    /\ UNCHANGED <<system, marker, bus, store, commands, launcher, prepared, mishaps>>

\* Mutant: the runtime stays, latched
FailAfterFenceAndStay(r) ==
    /\ Phase(r, "up") /\ UNCHANGED bus /\ cli' = NoCommand

\* Every failure behind the fence is reported and ends the runtime.
FailAfterFence(r) ==
    /\ Phase(r, "leaving") /\ StopServing(r)
    /\ cli' = IF cli.at = r /\ cli.phase = "called" THEN NoCommand ELSE cli

\* Mutant: the worker is not waited for
QuiescedAtOnce(r) == rt[r].phase = "fenced"

Quiesced(r) == rt[r].phase = "fenced" /\ ~rt[r].worker

Persistable(r) == DirectorySafety \in Modes /\ ExecutableOf(r) = installed

MarkerOf(r) == [build |-> ExecutableOf(r), mode |-> DirectorySafety, by |-> r]

\* An accepted marker of this executable is immutable; another one is replaced.
Mine(r) == IF cached = NoOne THEN FALSE ELSE cached.build = ExecutableOf(r)

Persist(r) ==
    /\ Quiesced(r)
    /\ \/ /\ ~Persistable(r) \/ (IF Mine(r) THEN cached.mode # DirectorySafety ELSE FALSE)
          /\ FailAfterFence(r) /\ UNCHANGED cached /\ NoFault
       \/ /\ Persistable(r) /\ IF Mine(r) THEN cached.mode = DirectorySafety ELSE TRUE
          /\ Phase(r, "committed")
          /\ cached' = IF Mine(r) THEN cached ELSE MarkerOf(r)
          /\ UNCHANGED <<bus, cli>> /\ NoFault
       \/ Fault /\ FailAfterFence(r) /\ UNCHANGED cached
    /\ UNCHANGED <<system, durable, store, commands, launcher, prepared>>

Synced == durable' = cached

\* The marker is read back and its directory synced; only then is there a reply.
Report(r) ==
    /\ rt[r].phase = "committed"
    /\ \/ /\ Synced
          /\ Phase(r, "leaving") /\ StopServing(r)
          /\ cli' = IF cli.at = r /\ cli.phase = "called" THEN [cli EXCEPT !.phase = "replied"] ELSE cli
          /\ NoFault
       \/ Fault /\ FailAfterFence(r) /\ UNCHANGED durable
    /\ UNCHANGED <<system, cached, store, commands, launcher, prepared>>

\* waitForOwnerExit: the connection gone and the name free, seen twice; anything else fails.
AwaitExit ==
    /\ cli.phase \in {"replied", "absent"}
    /\ \/ /\ name = NoOne /\ rt[cli.at].phase = "gone"
          /\ IF cli.phase = "replied" THEN cli' = [cli EXCEPT !.phase = "absent"] /\ UNCHANGED prepared
             ELSE cli' = NoCommand /\ prepared' = rt[cli.at].build
       \/ /\ name = cli.at
          /\ cli' = [cli EXCEPT !.phase = "replied"] /\ UNCHANGED prepared
       \/ /\ name \notin {NoOne, cli.at}
          /\ cli' = NoCommand /\ UNCHANGED prepared
    /\ UNCHANGED <<system, marker, bus, rt, store, commands, launcher, mishaps>>

\* The deadline of a command, or the loss of the runtime it talks to.
GiveUp ==
    /\ cli.phase \in {"called", "replied", "absent"}
    /\ cli' = NoCommand
    /\ UNCHANGED <<system, marker, bus, rt, store, commands, launcher, prepared, mishaps>>

(***************************************************************************)
(* Abort                                                                   *)
(***************************************************************************)
OfInstalled == IF cached = NoOne THEN FALSE ELSE cached.build = installed

\* Nobody serves, and the marker is that of the installed executable: else it is refused.
LookForAbort ==
    /\ cli.phase = "idle" /\ name = NoOne /\ OfInstalled
    /\ cli' = [phase |-> "looked", at |-> cached.by]
    /\ AnotherCommand
    /\ UNCHANGED <<system, marker, bus, rt, store, launcher, prepared, mishaps>>

\* The marker is read again before it is unlinked; it may have been replaced.
UnlinkMarker ==
    /\ cli.phase = "looked"
    /\ IF cached # NoOne /\ cached.by = cli.at
       THEN cached' = NoOne /\ cli' = [cli EXCEPT !.phase = "unlinked"] /\ prepared' = NoOne
       ELSE cli' = NoCommand /\ UNCHANGED <<cached, prepared>>
    /\ UNCHANGED <<system, durable, bus, rt, store, commands, launcher, mishaps>>

SyncAbort ==
    /\ cli.phase = "unlinked"
    /\ (durable' = cached /\ NoFault) \/ (Fault /\ UNCHANGED durable)
    /\ cli' = NoCommand
    /\ UNCHANGED <<system, cached, bus, rt, store, commands, launcher, prepared>>

\* The package manager replaces the executable; the identity is a new one each time,
\* none that a process was started from.
Install(b) ==
    /\ b # installed /\ installs < MaxInstalls
    /\ \A r \in Runtimes : rt[r].phase # "off" => rt[r].build # b
    /\ installed' = b /\ installs' = installs + 1
    /\ UNCHANGED <<marker, bus, rt, store, command, launcher, prepared, mishaps>>

(***************************************************************************)
(* ensureRuntimeService                                                    *)
(***************************************************************************)
\* The owner of the name a packaging uses.
OwnerFor(sandboxed) ==
    IF sandboxed THEN api
    ELSE IF name # NoOne /\ ~rt[name].flatpak THEN name ELSE NoOne

Owner(l) == OwnerFor(launcher[l].flatpak)

Finish(l) == launcher' = [launcher EXCEPT ![l] = Over]

\* An owner is never replaced; a sandboxed launch also yields to the native one.
Looked(f) ==
    CASE OwnerFor(f) # NoOne -> [Over EXCEPT !.phase = "probe", !.owner = OwnerFor(f), !.flatpak = f]
      [] OwnerFor(f) = NoOne /\ ~(f /\ name # NoOne) -> [Over EXCEPT !.phase = "start", !.flatpak = f]
      [] OTHER -> Over

Look(l) ==
    /\ launcher[l].phase = "idle"
    /\ \E f \in BOOLEAN :
          (f => l \in Sandboxed) /\ launcher' = [launcher EXCEPT ![l] = Looked(f)]
    /\ UNCHANGED <<system, marker, bus, rt, store, command, prepared, mishaps>>

Started(r, f) == [Off EXCEPT !.phase = "gate", !.build = installed, !.flatpak = f]

\* The service manager starts its unit; without one, or in the sandbox, it is the launcher's child.
Direct(l) == {TRUE, launcher[l].flatpak}

Start(l) ==
    /\ launcher[l].phase = "start"
    /\ \E r \in Runtimes : rt[r].phase = "off"
    /\ \E direct \in Direct(l) :
          LET r == CHOOSE r \in Runtimes : rt[r].phase = "off" IN
          /\ rt' = [rt EXCEPT ![r] = Started(r, launcher[l].flatpak)]
          /\ launcher' = [launcher EXCEPT ![l].phase = "wait",
                                          ![l].started = IF direct THEN r ELSE NoOne]
    /\ UNCHANGED <<system, marker, bus, store, command, prepared, mishaps>>

WaitForOwner(l) ==
    /\ launcher[l].phase = "wait" /\ Owner(l) # NoOne
    /\ launcher' = [launcher EXCEPT ![l].phase = "probe", ![l].owner = Owner(l)]
    /\ UNCHANGED <<system, marker, bus, rt, store, command, prepared, mishaps>>

Compatible(r) == rt[r].build \notin Released

\* The version is asked of the owner, who must still be the owner when it has answered.
Probe(l) ==
    /\ launcher[l].phase = "probe"
    /\ rt[launcher[l].owner].phase = "up" /\ Owner(l) = launcher[l].owner
    /\ Compatible(launcher[l].owner)
    /\ Finish(l)
    /\ UNCHANGED <<system, marker, bus, rt, store, command, prepared, mishaps>>

\* Only the process this call has started is stopped, and a native one only if nobody else serves.
MayStop(l, r) == launcher[l].flatpak \/ Owner(l) \in {NoOne, r}

\* A deadline, an incompatible version or a changed owner.
Fail(l) ==
    LET r == launcher[l].started
    IN  /\ launcher[l].phase \in {"wait", "probe"}
        /\ Finish(l)
        /\ IF r # NoOne /\ MayStop(l, r) /\ rt[r].phase \in {"gate", "claim", "guarded", "up"}
           THEN Terminate(r) ELSE UNCHANGED <<rt, bus>>
        /\ UNCHANGED <<system, marker, store, command, prepared, mishaps>>

Work(r) == Accept(r) \/ Poll(r) \/ WorkerStep(r) \/ Settle(r)

Next ==
    \/ \E r \in Runtimes :
          \/ Gate(r) \/ Claim(r) \/ ClaimApi(r) \/ Work(r)
          \/ Prepare(r) \/ Persist(r) \/ Report(r)
          \/ Stop(r) \/ Leave(r) \/ Crash(r)
    \/ Litter \/ PowerLoss
    \/ Call \/ AwaitExit \/ GiveUp \/ LookForAbort \/ UnlinkMarker \/ SyncAbort
    \/ \E b \in Builds : Install(b)
    \/ \E l \in Launchers : Look(l) \/ Start(l) \/ WaitForOwner(l) \/ Probe(l) \/ Fail(l)

(* The main thread goes on once the worker has reached its fence, and a    *)
(* process that was told to leave does so, if need be through its exit     *)
(* deadline.  Nothing bounds the worker: the wait for the fence has no     *)
(* deadline, nor have the programs and transfers that run on the worker,   *)
(* and the exit deadline is not armed while the main thread waits.         *)
Closes(r) == Persist(r) \/ Report(r) \/ Leave(r)

Fairness == \A r \in Runtimes : WF_vars(Closes(r))

Spec == Init /\ [][Next]_vars /\ Fairness

(***************************************************************************)
(* Properties                                                              *)
(***************************************************************************)
(* The runtime that committed the marker has nothing under way with the    *)
(* device and accepts nothing more, to its end: what the marker says of    *)
(* the retry store stays true.                                             *)
CommitterIsQuiet ==
    \A r \in Runtimes :
        cached # NoOne /\ cached.by = r => ~rt[r].active /\ ~rt[r].worker

(* A preparation that was reported survives a power loss: unless it was    *)
(* aborted, the disk has the marker of that build, or the one of a build   *)
(* installed since.                                                        *)
ReportedIsDurable ==
    prepared # NoOne => /\ durable # NoOne
                        /\ durable.build = prepared \/ installed # prepared

(* What a downgrade was promised on is so, from the commitment on: the      *)
(* retry store is at rest, and the marker is what the next start reads.     *)
MarkerIsTrue == TypeOK /\ CommitterIsQuiet /\ ReportedIsDurable

(* At most one process has a device manager, whatever launchers and        *)
(* packagings race, until its workers have ended.                          *)
OneManager ==
    \A r, s \in Runtimes : rt[r].phase \in Managing /\ rt[s].phase \in Managing => r = s

(* A runtime that has latched itself ends as soon as its worker has come   *)
(* back: whatever fails behind the fence, none is left behind that owns    *)
(* the device's name and refuses every request (failAfterWorkerFence).  A  *)
(* worker that never comes back keeps it.                                  *)
LatchedRuntimeLeaves ==
    \A r \in Runtimes :
        rt[r].latched /\ ~rt[r].worker ~> rt[r].phase = "gone"
=============================================================================
