----------------------- MODULE RuntimeDowngradeProofs -----------------------
(* Proofs about RuntimeDowngrade, for every set of processes, launches and   *)
(* builds and any number of installations, commands and mishaps: one process *)
(* manages devices at a time, and a preparation that was reported stands.    *)
EXTENDS RuntimeDowngrade, TLAPS

-----------------------------------------------------------------------------
(* The inductive invariant *)

Process == [phase : Alive \cup {"off", "gone"}, build : Builds, flatpak : BOOLEAN,
            latched : BOOLEAN, active : BOOLEAN, worker : BOOLEAN]

\* Whoever manages devices, or waits for the sandbox's name, owns the global
\* name; the sandbox's own name belongs to a sandboxed process that manages.
NamesAreHeld ==
    /\ \A r \in Runtimes : rt[r].phase \in Managing \cup {"guarded"} => name = r
    /\ \A r \in Runtimes : rt[r].phase = "guarded" => rt[r].flatpak
    /\ api # NoOne => rt[api].flatpak /\ rt[api].phase \in Managing

\* Behind the fence nothing is accepted, and the worker has ended by the commitment.
FencedIsQuiet ==
    \A r \in Runtimes :
        /\ rt[r].phase \in {"fenced", "committed"} => ~rt[r].active
        /\ rt[r].phase = "committed" => ~rt[r].worker

\* Both copies of the marker are of processes that have nothing under way and
\* never will have.
Silent(r) == rt[r].phase \in {"committed", "leaving", "gone"} /\ ~rt[r].active /\ ~rt[r].worker
AuthorsAreSilent ==
    /\ cached # NoOne => Silent(cached.by)
    /\ durable # NoOne => Silent(durable.by)

\* The command line does one thing at a time: while it waits for an exit or
\* removes a marker no preparation is under way.
CommandsAreSerial ==
    /\ cli.phase \in {"looked", "unlinked", "replied", "absent"} =>
          \A r \in Runtimes : rt[r].phase \notin {"fenced", "committed"}
    /\ cli.phase \in {"called", "replied", "absent"} => cli.at \in Runtimes /\ rt[cli.at].phase # "off"

\* A marker names a build if the installed executable is that build.
Names(m, b) == m # NoOne /\ (installed = b => m.build = b)

MarkersStand ==
    /\ \A r \in Runtimes : rt[r].phase = "committed" => cached # NoOne /\ cached.build = rt[r].build
    /\ cli.phase \in {"replied", "absent"} =>
          Names(cached, rt[cli.at].build) /\ Names(durable, rt[cli.at].build)
    /\ prepared # NoOne =>
          /\ \E r \in Runtimes : rt[r].phase # "off" /\ rt[r].build = prepared
          /\ Names(cached, prepared) /\ Names(durable, prepared)

Safe == NamesAreHeld /\ FencedIsQuiet /\ AuthorsAreSilent /\ CommandsAreSerial /\ MarkersStand
IInv == TypeOK /\ Safe

-----------------------------------------------------------------------------
\* What a marker is made of.
LEMMA MarkerParts ==
    ASSUME NEW m \in Markers, m # NoOne
    PROVE  m.build \in Builds /\ m.mode \in Modes /\ m.by \in Runtimes
  BY DEF Markers

\* Nothing runs, nothing is marked, nothing is reported.
THEOREM InitSafe == Init => IInv
  <1> SUFFICES ASSUME Init PROVE IInv
    OBVIOUS
  <1>1. store \in [snapshot : Snapshots, exact : BOOLEAN]
    BY DEF Init, Snapshots, Modes
  <1>2. launcher \in [Launchers -> [phase : {"idle", "start", "wait", "probe", "over"},
                                    started : Runtimes \cup {NoOne}, owner : Runtimes \cup {NoOne},
                                    flatpak : BOOLEAN]]
    BY DEF Init, Over
  <1>3. rt \in [Runtimes -> Process]
    BY BuildsAreKnown DEF Init, Off, Process
  <1>4. TypeOK
    BY <1>1, <1>2, <1>3, BuildsAreKnown, BoundsAreNaturals
       DEF Init, TypeOK, Off, NoCommand, Markers, Process, Managing
  <1>5. Safe
    BY BuildsAreKnown
       DEF Init, Safe, Off, NoCommand, NamesAreHeld, FencedIsQuiet, AuthorsAreSilent,
           CommandsAreSerial, MarkersStand, Managing
  <1> QED
    BY <1>4, <1>5 DEF IInv

-----------------------------------------------------------------------------
(* Steps that leave the processes, their names, the marker and the command   *)
(* line as they are                                                          *)

\* A step that leaves these as they are keeps the invariant if it keeps the types.
LEMMA Unmoved ==
    ASSUME IInv, TypeOK', UNCHANGED <<installed, marker, bus, rt, cli, prepared>>
    PROVE  IInv'
  BY DEF IInv, Safe, NamesAreHeld, FencedIsQuiet, AuthorsAreSilent, Silent, CommandsAreSerial,
         MarkersStand, Names, marker, bus

\* The count of mishaps stays within its bound.
LEMMA FaultBound ==
    ASSUME TypeOK, Fault \/ NoFault
    PROVE  mishaps' \in 0 .. MaxMishaps
  BY BoundsAreNaturals DEF TypeOK, Fault, NoFault

\* A stray file in the retry directory.
LEMMA LitterSafe == ASSUME IInv, Litter PROVE IInv'
  <1>1. store' \in [snapshot : Snapshots, exact : BOOLEAN]
    BY DEF Litter, IInv, TypeOK
  <1>2. TypeOK'
    BY <1>1, FaultBound DEF Litter, IInv, TypeOK, system, marker, bus, command
  <1> QED
    BY <1>2, Unmoved DEF Litter, system, marker, bus, command

\* A launch that looks, waits or is content.
LEMMA LauncherSafe ==
    ASSUME IInv, NEW l \in Launchers, Look(l) \/ WaitForOwner(l) \/ Probe(l)
    PROVE  IInv'
  <1> DEFINE T == [phase : {"idle", "start", "wait", "probe", "over"},
                   started : Runtimes \cup {NoOne}, owner : Runtimes \cup {NoOne}, flatpak : BOOLEAN]
  <1>1. \A f \in BOOLEAN : OwnerFor(f) \in Runtimes \cup {NoOne}
    BY DEF IInv, TypeOK, OwnerFor
  <1>2. launcher \in [Launchers -> T]
    BY DEF IInv, TypeOK
  <1>3. launcher' \in [Launchers -> T]
    <2>1. Over \in T
      BY DEF Over
    <2>2. CASE Look(l)
      <3>1. \A f \in BOOLEAN : Looked(f) \in T
        BY <1>1, <2>1 DEF Looked, Over
      <3>2. PICK f \in BOOLEAN : launcher' = [launcher EXCEPT ![l] = Looked(f)]
        BY <2>2 DEF Look
      <3> QED
        BY <1>2, <3>1, <3>2
    <2>3. CASE WaitForOwner(l)
      <3>1. Owner(l) \in Runtimes \cup {NoOne}
        BY <1>1, <1>2 DEF Owner
      <3> QED
        BY <1>2, <2>3, <3>1 DEF WaitForOwner
    <2>4. CASE Probe(l)
      BY <1>2, <2>1, <2>4 DEF Probe, Finish
    <2> QED
      BY <2>2, <2>3, <2>4
  <1>4. UNCHANGED <<system, marker, bus, rt, store, command, prepared, mishaps>>
    BY DEF Look, WaitForOwner, Probe
  <1>5. TypeOK'
    BY <1>3, <1>4 DEF IInv, TypeOK, system, marker, bus, command
  <1> QED
    BY <1>4, <1>5, Unmoved DEF system, marker, bus, command

-----------------------------------------------------------------------------
(* One process goes on: its record becomes x, and who owns the names         *)

Moves(r, x) ==
    /\ x \in Process /\ x.build = rt[r].build /\ rt[r].phase # "off" /\ x.phase # "off"
    /\ rt' = [rt EXCEPT ![r] = x]

\* A process that is no author of a marker, and neither fences nor commits, may do
\* what its names allow.
LEMMA MoveSafe ==
    ASSUME IInv, NEW r \in Runtimes, NEW x, Moves(r, x), TypeOK',
           NamesAreHeld', UNCHANGED <<installed, marker, cli, prepared>>,
           x.phase \in {"fenced", "committed"} => x.phase = rt[r].phase,
           x.phase \in {"fenced", "committed"} => x.active = rt[r].active,
           x.phase = "committed" => x.worker = rt[r].worker,
           Silent(r) => x.phase \in {"committed", "leaving", "gone"} /\ ~x.active /\ ~x.worker
    PROVE  IInv'
  <1> USE DEF IInv, Safe, Moves
  <1>1. rt \in [Runtimes -> Process] /\ rt'[r] = x /\ \A s \in Runtimes : s # r => rt'[s] = rt[s]
    BY DEF TypeOK, Process
  <1>2. FencedIsQuiet'
    BY <1>1 DEF FencedIsQuiet
  <1>3. AuthorsAreSilent'
    <2>1. \A m \in Markers : m # NoOne => m.by \in Runtimes
      BY MarkerParts
    <2>2. \A s \in Runtimes : Silent(s) => Silent(s)'
      BY <1>1 DEF Silent
    <2> QED
      BY <2>1, <2>2 DEF AuthorsAreSilent, TypeOK, marker
  <1>4. CommandsAreSerial'
    BY <1>1 DEF CommandsAreSerial
  <1>5. MarkersStand'
    BY <1>1 DEF MarkersStand, Names, marker, CommandsAreSerial
  <1> QED
    BY <1>2, <1>3, <1>4, <1>5

\* What a change of phase, and the end of a process, make of its record.
LEMMA PhaseMoves ==
    ASSUME TypeOK, NEW r \in Runtimes, rt[r].phase # "off", NEW p \in Alive, Phase(r, p)
    PROVE  /\ Moves(r, rt'[r]) /\ rt'[r].phase = p
           /\ rt'[r].active = rt[r].active /\ rt'[r].worker = rt[r].worker
           /\ rt'[r].flatpak = rt[r].flatpak
  <1>1. rt \in [Runtimes -> Process] /\ p # "off"
    BY DEF TypeOK, Process, Alive
  <1> DEFINE x == [rt[r] EXCEPT !.phase = p]
  <1>2. /\ x \in Process /\ x.phase = p /\ x.build = rt[r].build /\ x.active = rt[r].active
        /\ x.worker = rt[r].worker /\ x.flatpak = rt[r].flatpak
    BY <1>1 DEF Process
  <1>3. rt' = [rt EXCEPT ![r] = x] /\ rt'[r] = x
    BY <1>1 DEF Phase
  <1> QED
    BY <1>1, <1>2, <1>3 DEF Moves

\* What the end of a process makes of its record.
LEMMA GoneMoves ==
    ASSUME TypeOK, NEW r \in Runtimes, rt[r].phase # "off", Gone(r)
    PROVE  /\ Moves(r, rt'[r]) /\ rt'[r].phase = "gone"
           /\ ~rt'[r].active /\ ~rt'[r].worker /\ ~rt'[r].flatpak
  <1>1. rt \in [Runtimes -> Process]
    BY DEF TypeOK, Process
  <1> DEFINE x == Ghost(rt[r].build)
  <1>2. /\ x \in Process /\ x.phase = "gone" /\ x.build = rt[r].build
        /\ ~x.active /\ ~x.worker /\ ~x.flatpak
    BY <1>1 DEF Process, Ghost, Off
  <1>3. rt' = [rt EXCEPT ![r] = x] /\ rt'[r] = x
    BY <1>1 DEF Gone
  <1> QED
    BY <1>2, <1>3 DEF Moves

\* The type of the state after one process has moved on, when nothing but its names
\* and the count of mishaps changes besides.
LEMMA MoveTyped ==
    ASSUME TypeOK, NEW r \in Runtimes, Moves(r, rt'[r]),
           name' \in Runtimes \cup {NoOne}, api' \in Runtimes \cup {NoOne},
           mishaps' \in 0 .. MaxMishaps,
           UNCHANGED <<system, marker, store, command, launcher, prepared>>,
           \A s \in Runtimes :
              /\ rt'[s].phase \in Managing => name' = s /\ (rt'[s].flatpak \/ api' # s)
              /\ rt'[s].phase \notin Managing => ~rt'[s].worker /\ ~rt'[s].active
    PROVE  TypeOK'
  <1>1. rt' \in [Runtimes -> Process]
    BY DEF TypeOK, Moves, Process
  <1> QED
    BY <1>1 DEF TypeOK, Process, system, marker, command

\* The start gate.
LEMMA GateSafe == ASSUME IInv, NEW r \in Runtimes, Gate(r) PROVE IInv'
  <1> USE DEF IInv, Safe
  <1>1. /\ Moves(r, rt'[r]) /\ rt'[r].phase \in {"claim", "gone"}
        /\ ~rt'[r].worker /\ ~rt'[r].active
        /\ UNCHANGED <<system, marker, bus, store, command, launcher, prepared>>
    BY PhaseMoves, GoneMoves DEF Gate, TypeOK, Alive, Managing
  <1>2. mishaps' \in 0 .. MaxMishaps
    BY FaultBound DEF Gate
  <1>3. NamesAreHeld'
    BY <1>1, BuildsAreKnown DEF Gate, TypeOK, Moves, bus, Managing, NamesAreHeld
  <1>4. TypeOK'
    BY <1>1, <1>2, <1>3, MoveTyped DEF Moves, TypeOK, bus, NamesAreHeld, Managing
  <1> QED
    BY <1>1, <1>3, <1>4, MoveSafe DEF Gate, Silent, system, command

\* The claim of the global name.
LEMMA ClaimSafe == ASSUME IInv, NEW r \in Runtimes, Claim(r) PROVE IInv'
  <1> USE DEF IInv, Safe
  <1>1. /\ Moves(r, rt'[r]) /\ rt'[r].phase \in {"guarded", "up", "gone"}
        /\ rt'[r].phase # "gone" => name' = r /\ rt'[r].flatpak = rt[r].flatpak /\ name = NoOne
        /\ rt'[r].phase = "guarded" => rt[r].flatpak
        /\ rt'[r].phase = "up" => ~rt[r].flatpak
        /\ rt'[r].phase = "gone" => UNCHANGED name
        /\ ~rt'[r].worker /\ ~rt'[r].active
    BY PhaseMoves, GoneMoves DEF Claim, TypeOK, Alive, Managing
  <1>2. UNCHANGED <<system, marker, api, store, command, launcher, prepared, mishaps>>
    BY DEF Claim
  <1>3. NamesAreHeld'
    BY <1>1, <1>2, BuildsAreKnown DEF Claim, TypeOK, Moves, Managing, NamesAreHeld
  <1>4. TypeOK'
    <2>1. api # r
      BY BuildsAreKnown DEF Claim, TypeOK, NamesAreHeld, Managing
    <2>2. \A s \in Runtimes :
             /\ rt'[s].phase \in Managing => name' = s /\ (rt'[s].flatpak \/ api' # s)
             /\ rt'[s].phase \notin Managing => ~rt'[s].worker /\ ~rt'[s].active
      BY <1>1, <1>2, <1>3, <2>1 DEF Moves, TypeOK, NamesAreHeld
    <2> QED
      BY <1>1, <1>2, <2>2, MoveTyped DEF Claim, TypeOK, system, marker, command
  <1> QED
    BY <1>1, <1>2, <1>3, <1>4, MoveSafe DEF Claim, Silent, system, command

\* The claim of the sandbox's own name.
LEMMA ClaimApiSafe == ASSUME IInv, NEW r \in Runtimes, ClaimApi(r) PROVE IInv'
  <1> USE DEF IInv, Safe
  <1>1. /\ Moves(r, rt'[r]) /\ rt'[r].phase \in {"up", "gone"}
        /\ rt'[r].phase = "up" => api' = r /\ UNCHANGED name /\ rt'[r].flatpak
        /\ rt'[r].phase = "gone" => UNCHANGED api /\ name' = Without(name, r)
        /\ ~rt'[r].worker /\ ~rt'[r].active
    BY PhaseMoves, GoneMoves DEF ClaimApi, TypeOK, Alive, Managing, NamesAreHeld
  <1>2. UNCHANGED <<system, marker, store, command, launcher, prepared, mishaps>>
    BY DEF ClaimApi
  <1>3. NamesAreHeld'
    BY <1>1, <1>2, BuildsAreKnown DEF ClaimApi, Without, TypeOK, Moves, Managing, NamesAreHeld
  <1>4. TypeOK'
    BY <1>1, <1>2, <1>3, BuildsAreKnown, MoveTyped DEF ClaimApi, Without, Moves, TypeOK, NamesAreHeld, Managing
  <1> QED
    BY <1>1, <1>2, <1>3, <1>4, MoveSafe DEF ClaimApi, Silent, system, command

\* A request is accepted, a timer or the worker runs, a request ends.
LEMMA WorkMoves ==
    ASSUME TypeOK, NEW r \in Runtimes, Work(r)
    PROVE  /\ Moves(r, rt'[r]) /\ rt'[r].phase = rt[r].phase /\ rt'[r].flatpak = rt[r].flatpak
           /\ rt[r].phase \in Managing
           /\ rt[r].phase # "up" => (rt'[r].active => rt[r].active) /\ (rt'[r].worker => rt[r].worker)
           /\ UNCHANGED <<system, marker, bus, command, launcher, prepared, mishaps>>
  <1>1. rt \in [Runtimes -> Process]
    BY DEF TypeOK, Process
  <1>2. rt[r].phase \in Managing
    BY DEF Work, Accept, Poll, WorkerStep, Settle, TypeOK, Managing
  <1> DEFINE X(a, w) == [rt[r] EXCEPT !.active = a, !.worker = w]
  <1>3. \A a, w \in BOOLEAN :
           /\ X(a, w) \in Process /\ X(a, w).phase = rt[r].phase /\ X(a, w).build = rt[r].build
           /\ X(a, w).flatpak = rt[r].flatpak /\ X(a, w).active = a /\ X(a, w).worker = w
    BY <1>1 DEF Process
  <1>4. \E a, w \in BOOLEAN :
           /\ rt' = [rt EXCEPT ![r] = X(a, w)]
           /\ rt[r].phase # "up" => (a => rt[r].active) /\ (w => rt[r].worker)
    <2>1. ASSUME Accept(r) PROVE rt' = [rt EXCEPT ![r] = X(TRUE, TRUE)] /\ rt[r].phase = "up"
      BY <1>1, <2>1 DEF Accept, Process
    <2>2. ASSUME Poll(r) PROVE rt' = [rt EXCEPT ![r] = X(rt[r].active, TRUE)] /\ rt[r].phase = "up"
      BY <1>1, <2>2 DEF Poll, Process
    <2>3. ASSUME WorkerStep(r) PROVE rt' = [rt EXCEPT ![r] = X(rt[r].active, FALSE)]
      BY <1>1, <2>3 DEF WorkerStep, Process
    <2>4. ASSUME Settle(r) PROVE rt' = [rt EXCEPT ![r] = X(FALSE, rt[r].worker)]
      BY <1>1, <2>4 DEF Settle, Process
    <2>5. rt[r].active \in BOOLEAN /\ rt[r].worker \in BOOLEAN
      BY <1>1 DEF Process
    <2> QED
      BY <2>1, <2>2, <2>3, <2>4, <2>5 DEF Work
  <1> HIDE DEF X
  <1>5. rt'[r] \in Process /\ rt' = [rt EXCEPT ![r] = rt'[r]]
    BY <1>1, <1>3, <1>4
  <1> QED
    BY <1>1, <1>2, <1>3, <1>4, <1>5 DEF Moves, Managing, Work, Accept, Poll, WorkerStep, Settle

\* Work goes on, and behind the fence none is added.
LEMMA WorkSafe == ASSUME IInv, NEW r \in Runtimes, Work(r) PROVE IInv'
  <1> USE DEF IInv, Safe
  <1>1. NamesAreHeld'
    BY WorkMoves DEF TypeOK, Moves, Managing, NamesAreHeld, bus
  <1>2. store' \in [snapshot : Snapshots, exact : BOOLEAN]
    BY DEF Work, Accept, Poll, WorkerStep, Settle, TypeOK
  <1>3. rt' \in [Runtimes -> Process]
    BY WorkMoves DEF TypeOK, Moves, Process
  <1>4. TypeOK'
    BY <1>2, <1>3, WorkMoves DEF TypeOK, Moves, Process, system, marker, bus, command, Managing
  <1> QED
    BY <1>1, <1>4, WorkMoves, MoveSafe DEF Silent, TypeOK, FencedIsQuiet, system, command

-----------------------------------------------------------------------------
(* The end of a process                                                      *)

\* A process that is not behind the fence stops serving or is gone at once.
LEMMA TerminateMoves ==
    ASSUME IInv, NEW r \in Runtimes, Terminate(r)
    PROVE  /\ Moves(r, rt'[r]) /\ rt'[r].phase \in {"leaving", "gone"}
           /\ rt[r].phase \in {"gate", "claim", "guarded", "up"}
           /\ rt'[r].phase = "leaving" => UNCHANGED name /\ name = r /\ api' = Without(api, r)
           /\ rt'[r].phase = "gone" => /\ ~rt'[r].worker /\ ~rt'[r].active
                                       /\ UNCHANGED api /\ api # r /\ name' = Without(name, r)
  BY PhaseMoves, GoneMoves, BuildsAreKnown
     DEF IInv, Safe, Terminate, StopServing, TypeOK, Alive, Managing, NamesAreHeld

\* Being told to end is safe, whoever tells it.
LEMMA StopSafe ==
    ASSUME IInv, NEW r \in Runtimes, Terminate(r), TypeOK',
           UNCHANGED <<system, marker, store, command, prepared, mishaps>>
    PROVE  IInv'
  <1> USE DEF IInv, Safe
  <1>1. NamesAreHeld'
    BY TerminateMoves, BuildsAreKnown DEF Without, TypeOK, Moves, Managing, NamesAreHeld
  <1> QED
    BY <1>1, TerminateMoves, MoveSafe DEF Silent, system, command

\* The types after a process was told to end.
LEMMA TerminateTyped ==
    ASSUME IInv, NEW r \in Runtimes, Terminate(r)
    PROVE  /\ rt' \in [Runtimes -> Process]
           /\ name' \in Runtimes \cup {NoOne} /\ api' \in Runtimes \cup {NoOne}
           /\ \A s \in Runtimes :
                 /\ rt'[s].phase \in Managing => name' = s /\ (rt'[s].flatpak \/ api' # s)
                 /\ rt'[s].phase \notin Managing => ~rt'[s].worker /\ ~rt'[s].active
  <1> USE DEF IInv, Safe
  <1>1. rt' \in [Runtimes -> Process]
    BY TerminateMoves DEF TypeOK, Moves, Process
  <1>2. name' \in Runtimes \cup {NoOne} /\ api' \in Runtimes \cup {NoOne}
    BY DEF Terminate, StopServing, Without, TypeOK
  <1>3. rt'[r].phase \in Managing => name' = r /\ (rt'[r].flatpak \/ api' # r)
    BY TerminateMoves, BuildsAreKnown DEF Without, Managing
  <1>4. rt'[r].phase \notin Managing => ~rt'[r].worker /\ ~rt'[r].active
    BY TerminateMoves DEF Managing
  <1>5. \A s \in Runtimes : s # r => rt'[s] = rt[s]
    BY TerminateMoves DEF Moves, TypeOK
  <1>6. \A s \in Runtimes \ {r} :
           rt[s].phase \in Managing => name' = s /\ (rt[s].flatpak \/ api' # s)
    BY TerminateMoves, BuildsAreKnown DEF Without, TypeOK
  <1> QED
    BY <1>1, <1>2, <1>3, <1>4, <1>5, <1>6 DEF TypeOK

\* A process that is managing, or on its way there, is gone with what it holds.
LEMMA EndSafe ==
    ASSUME IInv, NEW r \in Runtimes, rt[r].phase \in Alive, Gone(r),
           name' = Without(name, r), api' = Without(api, r), mishaps' \in 0 .. MaxMishaps,
           UNCHANGED <<system, marker, store, command, launcher, prepared>>
    PROVE  IInv'
  <1> USE DEF IInv, Safe
  <1>1. /\ Moves(r, rt'[r]) /\ rt'[r].phase = "gone" /\ ~rt'[r].active /\ ~rt'[r].worker
    BY GoneMoves DEF Alive
  <1>2. NamesAreHeld'
    BY <1>1, BuildsAreKnown DEF Without, TypeOK, Moves, Managing, NamesAreHeld
  <1>3. TypeOK'
    BY <1>1, <1>2, MoveTyped, BuildsAreKnown DEF Without, Moves, TypeOK, NamesAreHeld, Managing
  <1> QED
    BY <1>1, <1>2, <1>3, MoveSafe DEF Silent, system, command

\* The end of the workers, or a crash.
LEMMA LeaveSafe == ASSUME IInv, NEW r \in Runtimes, Leave(r) \/ Crash(r) PROVE IInv'
  <1>1. mishaps' \in 0 .. MaxMishaps
    BY FaultBound DEF Leave, Crash, IInv, TypeOK
  <1> QED
    BY <1>1, EndSafe DEF Leave, Crash, Alive

\* The power goes: nothing runs, and one of the two copies of the marker is left.
LEMMA PowerLossSafe == ASSUME IInv, PowerLoss PROVE IInv'
  <1> USE DEF IInv, Safe
  <1>1. /\ rt' \in [Runtimes -> Process]
        /\ \A r \in Runtimes : /\ rt'[r].phase \in {"off", "gone"} /\ rt'[r].build = rt[r].build
                               /\ (rt'[r].phase = "off") = (rt[r].phase = "off")
                               /\ ~rt'[r].active /\ ~rt'[r].worker
    BY DEF PowerLoss, Ghost, Off, TypeOK, Process, Managing
  <1>2. /\ cached' \in {cached, durable} /\ durable' = cached'
        /\ name' = NoOne /\ api' = NoOne
        /\ UNCHANGED <<system, store, commands, prepared>>
        /\ cli' = NoCommand
    BY DEF PowerLoss
  <1>3. TypeOK'
    <2>1. mishaps' \in 0 .. MaxMishaps
      BY FaultBound DEF PowerLoss
    <2>2. launcher' \in [Launchers -> [phase : {"idle", "start", "wait", "probe", "over"},
                                       started : Runtimes \cup {NoOne},
                                       owner : Runtimes \cup {NoOne}, flatpak : BOOLEAN]]
      BY DEF PowerLoss, Over, TypeOK
    <2> QED
      BY <1>1, <1>2, <2>1, <2>2 DEF TypeOK, NoCommand, Managing, Process, system
  <1>4. NamesAreHeld'
    BY <1>1, <1>2, BuildsAreKnown DEF NamesAreHeld, Managing
  <1>5. FencedIsQuiet' /\ CommandsAreSerial'
    BY <1>1, <1>2 DEF FencedIsQuiet, CommandsAreSerial, NoCommand
  <1>6. AuthorsAreSilent'
    BY <1>1, <1>2, MarkerParts DEF AuthorsAreSilent, Silent, TypeOK
  <1>7. MarkersStand'
    BY <1>1, <1>2 DEF MarkersStand, Names, NoCommand, system
  <1> QED
    BY <1>3, <1>4, <1>5, <1>6, <1>7

-----------------------------------------------------------------------------
(* Preparation                                                               *)

\* The latch, or a refusal.
LEMMA PrepareSafe == ASSUME IInv, NEW r \in Runtimes, Prepare(r) PROVE IInv'
  <1> USE DEF IInv, Safe
  <1>1. CASE cli' = NoCommand /\ UNCHANGED rt
    <2>1. TypeOK'
      BY <1>1 DEF Prepare, TypeOK, NoCommand, system, marker, bus
    <2>2. CommandsAreSerial' /\ MarkersStand'
      BY <1>1 DEF Prepare, CommandsAreSerial, MarkersStand, Names, NoCommand, marker, system
    <2> QED
      BY <1>1, <2>1, <2>2
         DEF Prepare, NamesAreHeld, FencedIsQuiet, AuthorsAreSilent, Silent, bus, marker
  <1>2. CASE /\ rt' = [rt EXCEPT ![r].latched = TRUE, ![r].phase = "fenced"]
             /\ ~rt[r].active /\ UNCHANGED cli
    <2>1. rt \in [Runtimes -> Process]
      BY DEF TypeOK, Process
    <2>2. /\ rt' \in [Runtimes -> Process] /\ rt'[r].phase = "fenced" /\ ~rt'[r].active
          /\ rt'[r].worker = rt[r].worker /\ rt'[r].build = rt[r].build
          /\ rt'[r].flatpak = rt[r].flatpak
          /\ \A s \in Runtimes : s # r => rt'[s] = rt[s]
      BY <1>2, <2>1 DEF Process, Alive
    <2>3. /\ rt[r].phase = "up" /\ cli.phase = "called" /\ cli.at = r
          /\ UNCHANGED <<system, marker, bus, store, commands, launcher, prepared, mishaps>>
      BY DEF Prepare
    <2>4. TypeOK'
      BY <1>2, <2>2, <2>3 DEF TypeOK, Process, Managing, system, marker, bus
    <2>5. NamesAreHeld'
      BY <2>2, <2>3, BuildsAreKnown DEF NamesAreHeld, Managing, TypeOK, bus
    <2>6. FencedIsQuiet' /\ CommandsAreSerial'
      BY <1>2, <2>2, <2>3 DEF FencedIsQuiet, CommandsAreSerial
    <2>7. AuthorsAreSilent'
      BY <2>2, <2>3, MarkerParts DEF AuthorsAreSilent, Silent, marker, TypeOK
    <2>8. MarkersStand'
      BY <1>2, <2>2, <2>3 DEF MarkersStand, Names, marker, system
    <2> QED
      BY <2>4, <2>5, <2>6, <2>7, <2>8
  <1> QED
    BY <1>1, <1>2 DEF Prepare, Assessment, Modes

\* A process behind the fence that fails, or has reported, stops serving; the caller
\* is told so if it still waits, or may go on if it was told of the success.
LEMMA AfterFence ==
    ASSUME IInv, NEW r \in Runtimes, rt[r].phase \in {"fenced", "committed"}, ~rt[r].worker,
           Phase(r, "leaving"), StopServing(r), mishaps' \in 0 .. MaxMishaps,
           UNCHANGED <<system, cached, store, commands, launcher, prepared>>,
           \/ UNCHANGED durable
           \/ rt[r].phase = "committed" /\ durable' = cached,
           \/ cli' \in {cli, NoCommand}
           \/ /\ cli.phase = "called" /\ cli.at = r /\ cli' = [cli EXCEPT !.phase = "replied"]
              /\ rt[r].phase = "committed" /\ durable' = cached
    PROVE  IInv'
  <1> USE DEF IInv, Safe
  <1>1. /\ Moves(r, rt'[r]) /\ rt'[r].phase = "leaving" /\ ~rt'[r].active /\ ~rt'[r].worker
        /\ rt'[r].flatpak = rt[r].flatpak
    BY PhaseMoves DEF Alive, FencedIsQuiet
  <1>2. name = r /\ name' = name /\ api' = Without(api, r)
    BY DEF NamesAreHeld, Managing, StopServing
  <1>3. /\ rt' \in [Runtimes -> Process] /\ rt'[r].build = rt[r].build
        /\ \A s \in Runtimes : s # r => rt'[s] = rt[s]
    BY <1>1 DEF TypeOK, Moves, Process
  <1>4. \A s \in Runtimes : s # r => rt[s].phase \notin Managing
    BY <1>2 DEF NamesAreHeld
  <1>5. cli' \in [phase : {"idle", "called", "replied", "absent", "looked", "unlinked"},
                  at : Runtimes \cup {NoOne}]
    BY DEF TypeOK, NoCommand
  <1>6. TypeOK'
    <2>1. durable' \in Markers
      BY DEF TypeOK
    <2>2. api' \in Runtimes \cup {NoOne} /\ api' # r
      BY <1>2, BuildsAreKnown DEF Without, TypeOK
    <2>3. rt'[r].phase \in Managing
      BY <1>1 DEF Managing
    <2> QED
      BY <1>1, <1>2, <1>3, <1>4, <1>5, <2>1, <2>2, <2>3 DEF TypeOK, Process, system
  <1>7. NamesAreHeld'
    BY <1>1, <1>2, <1>3, <1>4, BuildsAreKnown DEF NamesAreHeld, Managing, Without, TypeOK
  <1>8. FencedIsQuiet'
    BY <1>1, <1>3 DEF FencedIsQuiet
  <1>9. AuthorsAreSilent'
    <2>1. \A s \in Runtimes : Silent(s) => Silent(s)'
      BY <1>1, <1>3 DEF Silent
    <2>2. /\ cached # NoOne => cached.by \in Runtimes
          /\ durable # NoOne => durable.by \in Runtimes
      BY MarkerParts DEF TypeOK
    <2> QED
      BY <2>1, <2>2 DEF AuthorsAreSilent
  <1>10. CommandsAreSerial'
    BY <1>1, <1>3, <1>4 DEF CommandsAreSerial, Managing, NoCommand, TypeOK
  <1>11. MarkersStand'
    <2>1. \A s \in Runtimes : rt'[s].phase # "committed"
      BY <1>1, <1>3, <1>4 DEF Managing
    <2>2. \A s \in Runtimes : rt[s].phase # "off" => rt'[s].phase # "off" /\ rt'[s].build = rt[s].build
      BY <1>1, <1>3
    <2>3. prepared # NoOne => Names(cached, prepared)' /\ Names(durable, prepared)'
      BY DEF MarkersStand, Names, system
    <2>4. ASSUME cli'.phase \in {"replied", "absent"}
          PROVE  Names(cached, rt[cli.at].build)' /\ Names(durable, rt[cli.at].build)'
      <3>1. CASE cli' = cli
        BY <2>2, <2>4, <3>1 DEF MarkersStand, Names, CommandsAreSerial, system
      <3>2. CASE cli' # cli
        <4>1. cli'.at = r /\ rt[r].phase = "committed" /\ durable' = cached
          BY <2>4, <3>2 DEF NoCommand, TypeOK
        <4> QED
          BY <1>3, <4>1 DEF MarkersStand, Names
      <3> QED
        BY <3>1, <3>2
    <2> QED
      BY <2>1, <2>2, <2>3, <2>4 DEF MarkersStand, Names
  <1> QED
    BY <1>6, <1>7, <1>8, <1>9, <1>10, <1>11
\* The commitment is made by the one process that manages, once its worker has ended.
LEMMA PersistSafe == ASSUME IInv, NEW r \in Runtimes, Persist(r) PROVE IInv'
  <1> USE DEF IInv, Safe
  <1>1. rt[r].phase = "fenced" /\ ~rt[r].worker /\ mishaps' \in 0 .. MaxMishaps
    BY FaultBound DEF Persist, Quiesced
  <1>2. CASE FailAfterFence(r) /\ UNCHANGED cached
    BY <1>1, <1>2, AfterFence DEF Persist, FailAfterFence
  <1>3. CASE /\ Persistable(r) /\ Phase(r, "committed") /\ UNCHANGED <<bus, cli>>
             /\ cached' = IF Mine(r) THEN cached ELSE MarkerOf(r)
    <2>1. /\ Moves(r, rt'[r]) /\ rt'[r].phase = "committed"
          /\ ~rt'[r].active /\ ~rt'[r].worker /\ rt'[r].flatpak = rt[r].flatpak
      BY <1>1, <1>3, PhaseMoves DEF Alive, FencedIsQuiet
    <2>2. /\ rt' \in [Runtimes -> Process] /\ rt'[r].build = rt[r].build
          /\ \A s \in Runtimes : s # r => rt'[s] = rt[s]
      BY <2>1 DEF TypeOK, Moves, Process
    <2>3. name = r /\ \A s \in Runtimes : s # r => rt[s].phase \notin Managing
      BY <1>1 DEF NamesAreHeld, Managing
    <2>4. UNCHANGED <<system, durable, bus, store, command, launcher, prepared>>
      BY <1>3 DEF Persist, command
    <2>5. MarkerOf(r) \in Markers /\ MarkerOf(r) # NoOne
      <3>1. rt[r].build \in Builds
        BY DEF TypeOK
      <3>2. DirectorySafety \in Modes
        BY <1>3 DEF Persistable
      <3> QED
        BY <3>1, <3>2, NoOneIsNoMarker DEF MarkerOf, ExecutableOf, Markers, Modes
    <2>6. cached' \in Markers /\ cached' # NoOne /\ cached'.build = rt[r].build
      BY <1>3, <2>5 DEF Mine, MarkerOf, ExecutableOf, TypeOK
    <2>7. TypeOK'
      BY <1>1, <2>1, <2>2, <2>3, <2>4, <2>6
         DEF TypeOK, Process, Managing, system, bus, command
    <2>8. NamesAreHeld' /\ FencedIsQuiet'
      BY <2>1, <2>2, <2>3, <2>4, BuildsAreKnown
         DEF NamesAreHeld, FencedIsQuiet, Managing, TypeOK, bus
    <2>9. AuthorsAreSilent'
      <3>1. Silent(r)' /\ \A s \in Runtimes : Silent(s) => Silent(s)'
        BY <2>1, <2>2 DEF Silent
      <3>2. \A m \in Markers : m # NoOne => m.by \in Runtimes
        BY MarkerParts
      <3>3. cached'.by = r \/ cached' = cached
        BY <1>3 DEF MarkerOf
      <3> QED
        BY <2>4, <3>1, <3>2, <3>3 DEF AuthorsAreSilent, TypeOK
    <2>10. CommandsAreSerial' /\ cli.phase \notin {"replied", "absent"}
      BY <1>1, <2>1, <2>2, <2>4 DEF CommandsAreSerial, command
    <2>11. MarkersStand'
      <3>1. \A s \in Runtimes : rt'[s].phase = "committed" => s = r
        BY <2>2, <2>3 DEF Managing
      <3>2. prepared # NoOne => Names(cached, prepared)'
        BY <1>3, <2>4, <2>6 DEF MarkersStand, Names, Persistable, ExecutableOf, system
      <3> QED
        BY <1>1, <2>1, <2>2, <2>4, <2>6, <2>10, <3>1, <3>2
           DEF MarkersStand, Names, system, command
    <2> QED
      BY <2>7, <2>8, <2>9, <2>10, <2>11
  <1> QED
    BY <1>2, <1>3 DEF Persist

\* A success is reported when the marker is on the disk.
LEMMA ReportSafe == ASSUME IInv, NEW r \in Runtimes, Report(r) PROVE IInv'
  <1> USE DEF IInv, Safe
  <1>1. rt[r].phase = "committed" /\ ~rt[r].worker /\ mishaps' \in 0 .. MaxMishaps
    BY FaultBound DEF Report, FencedIsQuiet
  <1>2. CASE FailAfterFence(r) /\ UNCHANGED durable
    BY <1>1, <1>2, AfterFence DEF Report, FailAfterFence
  <1>3. CASE /\ Synced /\ Phase(r, "leaving") /\ StopServing(r)
             /\ cli' = IF cli.at = r /\ cli.phase = "called" THEN [cli EXCEPT !.phase = "replied"] ELSE cli
    BY <1>1, <1>3, AfterFence DEF Report, Synced
  <1> QED
    BY <1>2, <1>3 DEF Report

-----------------------------------------------------------------------------
(* The command line, and the package manager                                 *)

\* A command begins or is given up.
LEMMA CommandSafe ==
    ASSUME IInv, Call \/ GiveUp \/ LookForAbort
    PROVE  IInv'
  <1> USE DEF IInv, Safe
  <1>1. UNCHANGED <<system, marker, bus, rt, store, launcher, prepared, mishaps>>
    BY DEF Call, GiveUp, LookForAbort
  <1>2. commands' \in 0 .. MaxCommands
    BY BoundsAreNaturals DEF Call, GiveUp, LookForAbort, AnotherCommand, TypeOK
  <1>3. cli' \in [phase : {"idle", "called", "replied", "absent", "looked", "unlinked"},
                  at : Runtimes \cup {NoOne}]
    BY MarkerParts DEF Call, GiveUp, LookForAbort, OfInstalled, NoCommand, TypeOK
  <1>4. TypeOK'
    BY <1>1, <1>2, <1>3 DEF TypeOK, system, marker, bus
  <1>5. CommandsAreSerial'
    <2>1. CASE Call
      <3>1. name \in Runtimes /\ cli'.phase = "called" /\ cli'.at = name /\ rt[name].phase = "up"
        BY <2>1 DEF Call, TypeOK
      <3> QED
        BY <1>1, <3>1 DEF CommandsAreSerial
    <2>2. CASE GiveUp
      BY <1>1, <2>2 DEF GiveUp, NoCommand, CommandsAreSerial
    <2>3. CASE LookForAbort
      <3>1. name = NoOne /\ cli'.phase = "looked"
        BY <2>3 DEF LookForAbort
      <3>2. \A r \in Runtimes : rt[r].phase \notin {"fenced", "committed"}
        BY <3>1, BuildsAreKnown DEF NamesAreHeld, Managing
      <3> QED
        BY <1>1, <3>1, <3>2 DEF CommandsAreSerial
    <2> QED
      BY <2>1, <2>2, <2>3
  <1>6. MarkersStand'
    BY <1>1 DEF Call, GiveUp, LookForAbort, NoCommand, MarkersStand, Names, marker, system
  <1> QED
    BY <1>1, <1>4, <1>5, <1>6 DEF NamesAreHeld, FencedIsQuiet, AuthorsAreSilent, Silent, bus, marker

\* The command reports a preparation only after the exit of its author.
LEMMA AwaitExitSafe == ASSUME IInv, AwaitExit PROVE IInv'
  <1> USE DEF IInv, Safe
  <1>1. UNCHANGED <<system, marker, bus, rt, store, commands, launcher, mishaps>>
    BY DEF AwaitExit
  <1>2. cli.at \in Runtimes /\ rt[cli.at].phase # "off" /\ rt[cli.at].build \in Builds
    BY DEF AwaitExit, CommandsAreSerial, TypeOK
  <1>3. /\ cli' \in {NoCommand, [cli EXCEPT !.phase = "absent"], [cli EXCEPT !.phase = "replied"]}
        /\ prepared' = prepared \/ prepared' = rt[cli.at].build
    BY DEF AwaitExit
  <1>4. TypeOK'
    BY <1>1, <1>2, <1>3 DEF TypeOK, NoCommand, system, marker, bus
  <1>5. cli'.phase # "idle" => cli'.at = cli.at /\ cli'.phase \in {"replied", "absent"}
    BY <1>3 DEF NoCommand, TypeOK
  <1>6. CommandsAreSerial' /\ MarkersStand'
    BY <1>1, <1>2, <1>3, <1>5
       DEF AwaitExit, NoCommand, CommandsAreSerial, MarkersStand, Names, marker, system
  <1> QED
    BY <1>1, <1>4, <1>6 DEF NamesAreHeld, FencedIsQuiet, AuthorsAreSilent, Silent, bus, marker

\* An abort takes back what was reported before it takes away the marker.
LEMMA UnlinkSafe == ASSUME IInv, UnlinkMarker \/ SyncAbort PROVE IInv'
  <1> USE DEF IInv, Safe
  <1>1. UNCHANGED <<system, bus, rt, store, commands, launcher>>
    BY DEF UnlinkMarker, SyncAbort
  <1>2. /\ cached' \in {cached, NoOne} /\ durable' \in {durable, cached}
        /\ prepared' \in {prepared, NoOne}
        /\ prepared' # NoOne => UNCHANGED cached
        /\ cli' \in {NoCommand, [cli EXCEPT !.phase = "unlinked"]}
        /\ mishaps' \in 0 .. MaxMishaps
    BY FaultBound DEF UnlinkMarker, SyncAbort, TypeOK
  <1>3. TypeOK'
    BY <1>1, <1>2, BuildsAreKnown DEF TypeOK, NoCommand, Markers, system, bus
  <1>4. \A s \in Runtimes : rt[s].phase \notin {"fenced", "committed"}
    BY DEF UnlinkMarker, SyncAbort, CommandsAreSerial
  <1>5. cli'.phase \in {"idle", "unlinked"}
    BY <1>2 DEF NoCommand, TypeOK
  <1>6. AuthorsAreSilent'
    BY <1>1, <1>2 DEF AuthorsAreSilent, Silent
  <1>7. CommandsAreSerial'
    BY <1>1, <1>4, <1>5 DEF CommandsAreSerial
  <1>8. MarkersStand'
    BY <1>1, <1>2, <1>4, <1>5 DEF MarkersStand, Names, system
  <1> QED
    BY <1>1, <1>3, <1>6, <1>7, <1>8 DEF NamesAreHeld, FencedIsQuiet, bus

\* A new executable is none that a process was started from, or a marker names.
LEMMA InstallSafe == ASSUME IInv, NEW b \in Builds, Install(b) PROVE IInv'
  <1> USE DEF IInv, Safe
  <1>1. UNCHANGED <<marker, bus, rt, store, command, launcher, prepared, mishaps>>
    BY DEF Install
  <1>2. TypeOK'
    BY <1>1, BoundsAreNaturals DEF Install, TypeOK, marker, bus, command
  <1>3. MarkersStand'
    BY <1>1 DEF Install, MarkersStand, Names, CommandsAreSerial, marker, command
  <1> QED
    BY <1>1, <1>2, <1>3 DEF NamesAreHeld, FencedIsQuiet, AuthorsAreSilent, Silent, CommandsAreSerial,
                            marker, bus, command

-----------------------------------------------------------------------------
(* Launches that start or stop a process                                     *)

\* A process is started.
LEMMA StartSafe == ASSUME IInv, NEW l \in Launchers, Start(l) PROVE IInv'
  <1> USE DEF IInv, Safe
  <1> DEFINE T == [phase : {"idle", "start", "wait", "probe", "over"},
                   started : Runtimes \cup {NoOne}, owner : Runtimes \cup {NoOne}, flatpak : BOOLEAN]
  <1>1. PICK r \in Runtimes, d \in BOOLEAN :
           /\ rt[r].phase = "off"
           /\ rt' = [rt EXCEPT ![r] = Started(r, launcher[l].flatpak)]
           /\ launcher' = [launcher EXCEPT ![l].phase = "wait",
                                           ![l].started = IF d THEN r ELSE NoOne]
    <2> DEFINE r == CHOOSE r \in Runtimes : rt[r].phase = "off"
    <2>1. r \in Runtimes /\ rt[r].phase = "off"
      BY DEF Start
    <2>2. launcher[l].flatpak \in BOOLEAN
      BY DEF TypeOK
    <2>3. PICK d \in Direct(l) :
             /\ rt' = [rt EXCEPT ![r] = Started(r, launcher[l].flatpak)]
             /\ launcher' = [launcher EXCEPT ![l].phase = "wait",
                                             ![l].started = IF d THEN r ELSE NoOne]
      BY DEF Start
    <2>4. d \in BOOLEAN
      BY <2>2 DEF Direct
    <2> HIDE DEF r
    <2> QED
      BY <2>1, <2>3, <2>4
  <1>2. UNCHANGED <<system, marker, bus, store, command, prepared, mishaps>>
    BY DEF Start
  <1>3. /\ rt' \in [Runtimes -> Process] /\ rt'[r].phase = "gate"
        /\ ~rt'[r].active /\ ~rt'[r].worker
        /\ \A s \in Runtimes : s # r => rt'[s] = rt[s]
    <2>1. installed \in Builds /\ launcher[l].flatpak \in BOOLEAN
      BY DEF TypeOK
    <2>2. /\ Started(r, launcher[l].flatpak) \in Process
          /\ Started(r, launcher[l].flatpak).phase = "gate"
          /\ ~Started(r, launcher[l].flatpak).active /\ ~Started(r, launcher[l].flatpak).worker
      BY <2>1 DEF Started, Off, Process, Alive
    <2> QED
      BY <1>1, <2>2 DEF TypeOK, Process
  <1>4. launcher' \in [Launchers -> T]
    <2>1. launcher \in [Launchers -> T] /\ (IF d THEN r ELSE NoOne) \in Runtimes \cup {NoOne}
      BY DEF TypeOK
    <2>2. [launcher[l] EXCEPT !.phase = "wait", !.started = IF d THEN r ELSE NoOne] \in T
      BY <2>1
    <2> QED
      BY <1>1, <2>1, <2>2
  <1>5. TypeOK'
    BY <1>2, <1>3, <1>4 DEF TypeOK, Process, Managing, system, marker, bus, command
  <1>6. NamesAreHeld'
    BY <1>1, <1>2, <1>3 DEF NamesAreHeld, Managing, TypeOK, bus
  <1>7. FencedIsQuiet' /\ CommandsAreSerial'
    BY <1>1, <1>2, <1>3 DEF FencedIsQuiet, CommandsAreSerial, command
  <1>8. AuthorsAreSilent'
    <2>1. \A s \in Runtimes : Silent(s) => Silent(s)'
      BY <1>1, <1>3 DEF Silent
    <2>2. \A m \in Markers : m # NoOne => m.by \in Runtimes
      BY MarkerParts
    <2> QED
      BY <1>2, <2>1, <2>2 DEF AuthorsAreSilent, TypeOK, marker
  <1>9. MarkersStand'
    BY <1>1, <1>2, <1>3 DEF MarkersStand, Names, CommandsAreSerial, marker, system, command
  <1> QED
    BY <1>5, <1>6, <1>7, <1>8, <1>9

\* A launch gives up, and stops what it has started.
LEMMA FailSafe == ASSUME IInv, NEW l \in Launchers, Fail(l) PROVE IInv'
  <1>1. launcher' \in [Launchers -> [phase : {"idle", "start", "wait", "probe", "over"},
                                     started : Runtimes \cup {NoOne},
                                     owner : Runtimes \cup {NoOne}, flatpak : BOOLEAN]]
    BY DEF IInv, TypeOK, Fail, Finish, Over
  <1>2. UNCHANGED <<system, marker, store, command, prepared, mishaps>>
    BY DEF Fail
  <1>3. CASE UNCHANGED <<rt, bus>>
    <2>1. TypeOK'
      BY <1>1, <1>2, <1>3 DEF IInv, TypeOK, system, marker, bus, command
    <2> QED
      BY <1>2, <1>3, <2>1, Unmoved DEF system, command
  <1>4. CASE Terminate(launcher[l].started) /\ launcher[l].started # NoOne
    <2>1. launcher[l].started \in Runtimes
      BY <1>4 DEF IInv, TypeOK
    <2>2. TypeOK'
      BY <1>1, <1>2, <1>4, <2>1, TerminateTyped DEF IInv, TypeOK, Process, system, marker, command
    <2> QED
      BY <1>2, <1>4, <2>1, <2>2, StopSafe
  <1> QED
    BY <1>3, <1>4 DEF Fail

\* A process is told to end.
LEMMA StopIsSafe == ASSUME IInv, NEW r \in Runtimes, Stop(r) PROVE IInv'
  <1>1. Terminate(r) /\ UNCHANGED <<system, marker, store, command, launcher, prepared, mishaps>>
    BY DEF Stop
  <1>2. TypeOK'
    BY <1>1, TerminateTyped DEF IInv, TypeOK, Process, system, marker, command
  <1> QED
    BY <1>1, <1>2, StopSafe

-----------------------------------------------------------------------------
(* Theorems                                                                  *)

\* Every step of the system keeps the invariant.
LEMMA StepSafe == ASSUME IInv, [Next]_vars PROVE IInv'
  <1>1. ASSUME NEW r \in Runtimes,
               \/ Gate(r) \/ Claim(r) \/ ClaimApi(r) \/ Work(r)
               \/ Prepare(r) \/ Persist(r) \/ Report(r)
               \/ Stop(r) \/ Leave(r) \/ Crash(r)
        PROVE  IInv'
    BY <1>1, GateSafe, ClaimSafe, ClaimApiSafe, WorkSafe, PrepareSafe, PersistSafe, ReportSafe,
       StopIsSafe, LeaveSafe
  <1>2. ASSUME Litter \/ PowerLoss PROVE IInv'
    BY <1>2, LitterSafe, PowerLossSafe
  <1>3. ASSUME Call \/ AwaitExit \/ GiveUp \/ LookForAbort \/ UnlinkMarker \/ SyncAbort PROVE IInv'
    BY <1>3, CommandSafe, AwaitExitSafe, UnlinkSafe
  <1>4. ASSUME NEW b \in Builds, Install(b) PROVE IInv'
    BY <1>4, InstallSafe
  <1>5. ASSUME NEW l \in Launchers, Look(l) \/ Start(l) \/ WaitForOwner(l) \/ Probe(l) \/ Fail(l)
        PROVE  IInv'
    BY <1>5, LauncherSafe, StartSafe, FailSafe
  <1>6. CASE UNCHANGED vars
    <2>1. TypeOK'
      BY <1>6 DEF IInv, TypeOK, vars, system, marker, bus, command
    <2> QED
      BY <1>6, <2>1, Unmoved DEF vars, system, command
  <1> QED
    BY <1>1, <1>2, <1>3, <1>4, <1>5, <1>6 DEF Next

\* The types of the state, who holds the names, what is quiet behind the fence, and
\* which builds the two copies of the marker name, in every reachable state.
THEOREM DowngradeInvariant == Spec => []IInv
  <1>1. Init => IInv
    BY InitSafe
  <1>2. IInv /\ [Next]_vars => IInv'
    BY StepSafe
  <1> QED
    BY <1>1, <1>2, PTL DEF Spec

\* Whatever launches, packagings, stops, crashes and installations do, one process at
\* a time has a device manager: it owns the global name until its workers have ended.
THEOREM AtMostOneManager == Spec => []OneManager
  <1>1. IInv => OneManager
    BY DEF IInv, Safe, NamesAreHeld, OneManager
  <1> QED
    BY <1>1, DowngradeInvariant, PTL

\* The author of the marker stays quiet, and a preparation that was reported is on
\* the disk until it is aborted or another build is installed.
THEOREM DowngradeMarkerIsTrue == Spec => []MarkerIsTrue
  <1>1. IInv => MarkerIsTrue
    <2> SUFFICES ASSUME IInv PROVE MarkerIsTrue
      OBVIOUS
    <2>1. CommitterIsQuiet
      BY DEF IInv, Safe, AuthorsAreSilent, Silent, CommitterIsQuiet
    <2>2. ReportedIsDurable
      BY DEF IInv, Safe, MarkersStand, Names, ReportedIsDurable
    <2> QED
      BY <2>1, <2>2 DEF IInv, MarkerIsTrue
  <1> QED
    BY <1>1, DowngradeInvariant, PTL
=============================================================================
