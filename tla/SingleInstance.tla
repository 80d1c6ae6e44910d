--------------------------- MODULE SingleInstance ---------------------------
(***************************************************************************)
(* One window per user (quick/runtimebootstrap.cpp): SingleInstanceGuard.  *)
(* A launcher delivers its intent to the process that listens on the       *)
(* instance socket, or becomes that process.  It holds a lease (a lock     *)
(* file) for its lifetime, and replaces the socket of an owner that        *)
(* crashed by exchanging names, because a build older than the lease may   *)
(* bind the same name at any moment without taking it.                     *)
(*                                                                         *)
(* A process binds at most one socket, so a socket is named after it.      *)
(* Directory identity, permissions and path lengths are abstracted.        *)
(***************************************************************************)
EXTENDS Naturals, FiniteSets

CONSTANTS
    Launchers,    \* launches of this build, each once
    PreLease,     \* launches of a build older than the lease
    NoOne,
    MaxCrashes,
    MaxFaults     \* bind, listen or rename calls that fail

ASSUME SomeLaunchers == Launchers \cap PreLease = {} /\ NoOne \notin Launchers \cup PreLease
ASSUME BoundsAreNaturals == MaxCrashes \in Nat /\ MaxFaults \in Nat

VARIABLES
    flatpak,      \* which InstanceLease this installation uses
    canonical,    \* the socket the instance name leads to
    spare,        \* [Launchers -> socket at its replacement leaf]
    listening,    \* sockets with an open descriptor that listens
    served,       \* those whose owner's server accepts connections
    lease,        \* the process the lock file names, NoOne without a file
    leaseFile,    \* the lock file exists
    pc,           \* where each process is
    seen,         \* observedPreviousLease of each launcher
    stale,        \* staleCandidate of each launcher
    overtaken,    \* history: a lease was taken over from an owner never seen alive
    crashes, faults

vars == <<flatpak, canonical, spare, listening, served, lease, leaseFile, pc, seen, stale,
          overtaken, crashes, faults>>
names == <<canonical, spare>>
sockets == <<listening, served>>
locks == <<lease, leaseFile, flatpak>>
bounds == <<overtaken, crashes, faults>>

Processes == Launchers \cup PreLease
Ended == {"notified", "failed", "refused", "crashed", "quit"}
Alive(p) == pc[p] \notin Ended \cup {"idle"}

TypeOK ==
    /\ flatpak \in BOOLEAN
    /\ canonical \in Processes \cup {NoOne}
    /\ spare \in [Launchers -> Processes \cup {NoOne}]
    /\ served \subseteq listening /\ listening \subseteq {p \in Processes : Alive(p)}
    /\ lease \in Launchers \cup {NoOne} /\ leaseFile \in BOOLEAN
    /\ lease # NoOne => leaseFile
    /\ pc \in [Processes -> Ended \cup {"idle", "probe", "lock", "wait", "pin", "final", "bind",
                                        "listen", "publish", "spare", "exchange", "check",
                                        "rollback", "abandon", "primary"}]
    /\ seen \in [Launchers -> BOOLEAN]
    /\ stale \in [Launchers -> Processes \cup {NoOne}]
    /\ overtaken \in BOOLEAN
    /\ crashes \in 0 .. MaxCrashes /\ faults \in 0 .. MaxFaults

Init ==
    /\ flatpak \in BOOLEAN
    /\ canonical = NoOne /\ spare = [p \in Launchers |-> NoOne]
    /\ listening = {} /\ served = {}
    /\ lease = NoOne /\ leaseFile = FALSE
    /\ pc = [p \in Processes |-> "idle"]
    /\ seen = [p \in Launchers |-> FALSE] /\ stale = [p \in Launchers |-> NoOne]
    /\ overtaken = FALSE /\ crashes = 0 /\ faults = 0

Go(p, where) == pc' = [pc EXCEPT ![p] = where]

(***************************************************************************)
(* The lease.  A QLockFile is removed when it is released, and one of a    *)
(* dead process is taken over; the flock of a Flatpak leaves its file.     *)
(***************************************************************************)
\* Mutant: the lock is taken over as soon as it exists
HeldNever == FALSE

Held == lease # NoOne /\ Alive(lease)

Taken(p) == lease' = p /\ leaseFile' = TRUE /\ UNCHANGED flatpak

Released == lease' = NoOne /\ leaseFile' = (flatpak /\ leaseFile) /\ UNCHANGED flatpak

(***************************************************************************)
(* What notifyRunningInstanceWithResult reports.  PendingInstanceLaunch-   *)
(* Reader acknowledges an intent it has handed on, and otherwise drops the *)
(* connection; a socket nobody accepts from stays silent.                  *)
(***************************************************************************)
ReaderAnswers == {"delivered", "unacknowledged"}

Answers ==
    CASE canonical \notin listening -> {"noOwner"}
      [] canonical \in served       -> ReaderAnswers
      [] OTHER                      -> {"unacknowledged"}

EndOf(answer) == IF answer = "delivered" THEN "notified" ELSE "failed"

Begin(p) ==
    /\ pc[p] = "idle"
    /\ Go(p, "probe")
    /\ seen' = [seen EXCEPT ![p] = leaseFile]
    /\ leaseFile' = (leaseFile \/ flatpak)
    /\ UNCHANGED <<flatpak, lease, names, sockets, stale, bounds>>

\* The first probe, before the lease is asked for.
Probe(p) ==
    /\ pc[p] = "probe"
    /\ \E answer \in Answers : Go(p, IF answer = "noOwner" THEN "lock" ELSE EndOf(answer))
    /\ UNCHANGED <<names, sockets, locks, seen, stale, bounds>>

Lock(p) ==
    /\ pc[p] = "lock"
    /\ IF Held THEN /\ Go(p, "wait") /\ seen' = [seen EXCEPT ![p] = TRUE]
                    /\ UNCHANGED <<locks, overtaken>>
               ELSE /\ Go(p, "pin") /\ Taken(p) /\ UNCHANGED seen
                    /\ overtaken' = (overtaken \/ (lease # NoOne /\ ~seen[p]))
    /\ UNCHANGED <<names, sockets, stale, crashes, faults>>

\* One round of the bounded wait for an owner that has not listened yet.
Wait(p) ==
    /\ pc[p] = "wait"
    /\ \E answer \in Answers :
          IF answer # "noOwner" THEN Go(p, EndOf(answer)) /\ UNCHANGED <<locks, seen>>
          ELSE /\ seen' = [seen EXCEPT ![p] = @ \/ leaseFile]
               /\ IF Held THEN pc' \in {pc, [pc EXCEPT ![p] = "failed"]} /\ UNCHANGED locks
                  ELSE Go(p, "pin") /\ Taken(p)
    /\ UNCHANGED <<names, sockets, stale, bounds>>

\* The candidate's inode is held from here on, so that no other socket gets it.
Pin(p) ==
    /\ pc[p] = "pin"
    /\ Go(p, "final")
    /\ stale' = [stale EXCEPT ![p] = canonical]
    /\ UNCHANGED <<names, sockets, locks, seen, bounds>>

FinalProbe(p) ==
    /\ pc[p] = "final"
    /\ \E answer \in Answers :
          IF answer = "noOwner" THEN Go(p, "bind") /\ UNCHANGED locks
          ELSE Go(p, EndOf(answer)) /\ Released
    /\ UNCHANGED <<names, sockets, seen, stale, bounds>>

(***************************************************************************)
(* Publication under the free name                                         *)
(***************************************************************************)
Fault == faults < MaxFaults /\ faults' = faults + 1 /\ UNCHANGED <<overtaken, crashes>>

\* closeNativeBoundSocket and the two conditional unlinks of acquire's failures
Withdrawn(p) ==
    /\ canonical' = IF canonical = p THEN NoOne ELSE canonical
    /\ spare' = IF spare[p] = p THEN [spare EXCEPT ![p] = NoOne] ELSE spare
    /\ listening' = listening \ {p} /\ served' = served \ {p}

UnlockAndFail(p) == Go(p, "failed") /\ Released

\* Mutant: the lock of a crashed owner is forgotten once it has been taken over
MayReplaceIfFree(p) == stale[p] # NoOne /\ seen[p] /\ lease # p

MayReplace(p) == seen[p] /\ stale[p] # NoOne

Bind(p) ==
    /\ pc[p] = "bind"
    /\ \/ /\ canonical = NoOne
          /\ canonical' = p /\ Go(p, "listen") /\ UNCHANGED <<locks, bounds>>
       \/ /\ canonical # NoOne /\ ~MayReplace(p)
          /\ Go(p, "refused") /\ Released /\ UNCHANGED <<canonical, bounds>>
       \/ /\ canonical # NoOne /\ MayReplace(p)
          /\ Go(p, "spare") /\ UNCHANGED <<canonical, locks, bounds>>
       \/ Fault /\ UnlockAndFail(p) /\ UNCHANGED canonical
    /\ UNCHANGED <<spare, sockets, seen, stale>>

\* listen() and the second look at the name; a failure unlinks only its own socket.
Listen(p) ==
    /\ pc[p] = "listen"
    /\ \/ /\ canonical = p
          /\ listening' = listening \cup {p} /\ Go(p, "publish")
          /\ UNCHANGED <<names, served, locks, bounds>>
       \/ /\ (canonical # p /\ UNCHANGED bounds) \/ Fault
          /\ Withdrawn(p) /\ UnlockAndFail(p)
    /\ UNCHANGED <<seen, stale>>

\* The name is looked at once more and the server adopts the descriptor.
Publish(p) ==
    /\ pc[p] = "publish"
    /\ \/ /\ canonical = p
          /\ served' = served \cup {p} /\ Go(p, "primary")
          /\ UNCHANGED <<names, listening, locks, bounds>>
       \/ /\ (canonical # p /\ UNCHANGED bounds) \/ Fault
          /\ Withdrawn(p) /\ UnlockAndFail(p)
    /\ UNCHANGED <<seen, stale>>

(***************************************************************************)
(* Recovery of the name of a crashed owner                                 *)
(***************************************************************************)
StillStale(p) == canonical = stale[p]

\* The candidate is compared and a replacement is bound beside it.
BindSpare(p) ==
    /\ pc[p] = "spare"
    /\ \/ /\ StillStale(p)
          /\ spare' = [spare EXCEPT ![p] = p] /\ listening' = listening \cup {p}
          /\ Go(p, "exchange") /\ UNCHANGED <<locks, bounds>>
       \/ /\ (~StillStale(p) /\ UNCHANGED bounds) \/ Fault
          /\ UnlockAndFail(p) /\ UNCHANGED <<spare, listening>>
    /\ UNCHANGED <<canonical, served, seen, stale>>

Exchanged(p) == canonical' = spare[p] /\ spare' = [spare EXCEPT ![p] = canonical]

Exchange(p) ==
    /\ pc[p] = "exchange"
    /\ \/ /\ canonical # NoOne
          /\ Exchanged(p) /\ Go(p, "check") /\ UNCHANGED bounds
       \/ /\ (canonical = NoOne /\ UNCHANGED bounds) \/ Fault
          /\ Go(p, "abandon") /\ UNCHANGED names
    /\ UNCHANGED <<sockets, locks, seen, stale>>

\* Both names are inspected; a winner that was moved aside goes back.
Check(p) ==
    LET published == canonical = p
        isolated == spare[p] = stale[p]
    IN  /\ pc[p] = "check"
        /\ IF isolated THEN /\ spare' = [spare EXCEPT ![p] = NoOne]
                            /\ Go(p, IF published THEN "publish" ELSE "abandon")
           ELSE /\ Go(p, IF published /\ spare[p] # NoOne THEN "rollback" ELSE "abandon")
                /\ UNCHANGED spare
        /\ UNCHANGED <<canonical, sockets, locks, seen, stale, bounds>>

Rollback(p) ==
    /\ pc[p] = "rollback"
    /\ \/ canonical # NoOne /\ Exchanged(p) /\ UNCHANGED bounds
       \/ canonical = NoOne /\ UNCHANGED <<names, bounds>>
       \/ Fault /\ UNCHANGED names
    /\ Go(p, "abandon")
    /\ UNCHANGED <<sockets, locks, seen, stale>>

Abandon(p) ==
    /\ pc[p] = "abandon"
    /\ Withdrawn(p) /\ UnlockAndFail(p)
    /\ UNCHANGED <<seen, stale, bounds>>

(***************************************************************************)
(* Ends, and the build without a lease                                     *)
(***************************************************************************)
\* ~SingleInstanceGuard: the published socket is unlinked, then the lease released.
Quit(p) ==
    /\ pc[p] = "primary" /\ p \in Launchers
    /\ Withdrawn(p) /\ Go(p, "quit") /\ Released
    /\ UNCHANGED <<seen, stale, bounds>>

\* Descriptors close with the process; names and the lock file stay.
Crash(p) ==
    /\ Alive(p) /\ crashes < MaxCrashes
    /\ crashes' = crashes + 1 /\ UNCHANGED <<overtaken, faults>>
    /\ Go(p, "crashed")
    /\ listening' = listening \ {p} /\ served' = served \ {p}
    /\ UNCHANGED <<names, locks, seen, stale>>

\* It removes an endpoint that does not answer and binds the name at once.
PreLeaseStart(q) ==
    /\ pc[q] = "idle"
    /\ IF canonical \in listening THEN Go(q, "notified") /\ UNCHANGED <<canonical, sockets>>
       ELSE /\ Go(q, "primary") /\ canonical' = q
            /\ listening' = listening \cup {q} /\ served' = served \cup {q}
    /\ UNCHANGED <<spare, locks, seen, stale, bounds>>

PreLeaseQuit(q) ==
    /\ pc[q] = "primary"
    /\ Go(q, "quit")
    /\ canonical' = IF canonical = q THEN NoOne ELSE canonical
    /\ listening' = listening \ {q} /\ served' = served \ {q}
    /\ UNCHANGED <<spare, locks, seen, stale, bounds>>

Acquire(p) ==
    \/ Begin(p) \/ Probe(p) \/ Lock(p) \/ Wait(p) \/ Pin(p) \/ FinalProbe(p)
    \/ Bind(p) \/ Listen(p) \/ Publish(p)
    \/ BindSpare(p) \/ Exchange(p) \/ Check(p) \/ Rollback(p) \/ Abandon(p)

Next ==
    \/ \E p \in Launchers : Acquire(p) \/ Quit(p)
    \/ \E p \in Processes : Crash(p)
    \/ \E q \in PreLease : PreLeaseStart(q) \/ PreLeaseQuit(q)

Spec == Init /\ [][Next]_vars

(***************************************************************************)
(* Properties                                                              *)
(***************************************************************************)
(* The window that believes to be the instance is the one that launches    *)
(* reach, whatever recoveries ran beside it: nobody unlinks or exchanges   *)
(* the name of a live primary, so there is never a second one.             *)
PrimaryIsReachable == \A p \in Launchers : pc[p] = "primary" => canonical = p

(* A live window of a build without the lease keeps the name it has bound: *)
(* a recovery that moved it aside by accident puts it back, unless that    *)
(* recovery itself dies or its second rename fails.                        *)
WinnerKeepsItsName ==
    \A q \in PreLease :
        pc[q] = "primary" =>
            \/ canonical = q
            \/ \E p \in Launchers : spare[p] = q /\ (pc[p] \in {"check", "rollback", "crashed"}
                                                     \/ faults > 0)

(* There is one instance of this build and launches reach it.              *)
OneInstance == TypeOK /\ PrimaryIsReachable /\ WinnerKeepsItsName

(* A launch is refused for want of evidence only if a process without the  *)
(* lease was there, a system call failed, or some launch looked at the     *)
(* lease before an owner came and asked for it after that owner had died.  *)
(* Every other crash leaves the lock that lets the next launch recover.    *)
RefusalIsExplained ==
    \A p \in Launchers :
        pc[p] = "refused" => faults > 0 \/ overtaken \/ \E q \in PreLease : pc[q] # "idle"
=============================================================================
