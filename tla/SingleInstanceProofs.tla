------------------------ MODULE SingleInstanceProofs ------------------------
(* Proofs about SingleInstance, for every set of launches of this build and  *)
(* of builds without the lease, and any number of crashes and failed calls:  *)
(* there is one instance and launches reach it, and a launch that is refused *)
(* is so for one of three reasons.                                           *)
EXTENDS SingleInstance, TLAPS

-----------------------------------------------------------------------------
(* The inductive invariant *)

Places == Ended \cup {"idle", "probe", "lock", "wait", "pin", "final", "bind", "listen", "publish",
                      "spare", "exchange", "check", "rollback", "abandon", "primary"}

\* From the lease to its release.
Holding == {"pin", "final", "bind", "listen", "publish", "spare", "exchange", "check",
            "rollback", "abandon", "primary"}

\* Where a launch has a socket that listens.
Listens == {"publish", "exchange", "check", "rollback", "abandon", "primary"}

\* Before a launch binds a replacement.
Early == {"idle", "probe", "lock", "wait", "pin", "final", "bind", "spare"}

Exclusive == \A p \in Launchers : pc[p] \in Holding => lease = p

\* What listens, and under which name: a launch is in possession of the name while
\* it looks at what it has moved aside, and for as long as it is the instance.
Sockets ==
    /\ \A p \in Launchers : p \in listening => pc[p] \in Listens
    /\ \A p \in Launchers : pc[p] \in Listens \ {"abandon"} => p \in listening
    /\ \A p \in Launchers : pc[p] \in Early => spare[p] = NoOne
    /\ \A p \in Launchers : pc[p] = "exchange" => spare[p] = p
    /\ \A p \in Launchers : pc[p] \in {"check", "rollback", "primary"} => canonical = p

\* A build without the lease serves from its start to its end, and had no socket before.
OlderBuilds ==
    \A q \in PreLease :
        /\ pc[q] \in Ended \cup {"idle", "primary"}
        /\ pc[q] = "primary" => q \in listening
        /\ pc[q] = "idle" => canonical # q /\ \A p \in Launchers : spare[p] # q

\* No live window of an older build: what a recovery moves aside for good.
Dead(s) == s \in PreLease => pc[s] \in Ended

Candidates ==
    \A p \in Launchers :
        /\ pc[p] = "final" => stale[p] = canonical \/ Dead(stale[p])
        /\ pc[p] \in Holding \ {"pin", "final"} => Dead(stale[p])

\* Nothing has happened that may leave a launch without evidence.
Clean == faults = 0 /\ ~overtaken /\ \A q \in PreLease : pc[q] = "idle"

\* Then a name that is taken is of the one who has the lease or had it last, and the
\* next launch both saw that lease and takes the name.
Evidence ==
    /\ canonical # NoOne => lease # NoOne
    /\ \A p \in Launchers :
          /\ pc[p] \notin {"refused", "rollback", "abandon"}
          /\ pc[p] \in {"listen", "publish"} => canonical = p
          /\ pc[p] \in {"pin", "final", "bind"} /\ canonical # NoOne => seen[p]
          /\ pc[p] \in {"final", "bind", "spare", "exchange"} => stale[p] = canonical
          /\ pc[p] \in {"spare", "exchange"} => canonical # NoOne
          /\ pc[p] = "check" => spare[p] = stale[p]

IInv == /\ TypeOK /\ Exclusive /\ Sockets /\ OlderBuilds /\ Candidates /\ WinnerKeepsItsName
        /\ Clean => Evidence

-----------------------------------------------------------------------------
\* Nothing has happened yet.
LEMMA InitSafe == Init => IInv
  <1> SUFFICES ASSUME Init PROVE IInv
    OBVIOUS
  <1> USE SomeLaunchers, BoundsAreNaturals DEF Init
  <1>1. TypeOK
    <2>1. pc \in [Processes -> Places]
      BY DEF Places
    <2>2. /\ spare \in [Launchers -> Processes \cup {NoOne}] /\ stale \in [Launchers -> Processes \cup {NoOne}]
          /\ seen \in [Launchers -> BOOLEAN] /\ overtaken \in BOOLEAN /\ flatpak \in BOOLEAN
      OBVIOUS
    <2>3. crashes \in 0 .. MaxCrashes /\ faults \in 0 .. MaxFaults
      OBVIOUS
    <2>4. served \subseteq listening /\ listening \subseteq {p \in Processes : Alive(p)}
      OBVIOUS
    <2>5. /\ lease \in Launchers \cup {NoOne} /\ leaseFile \in BOOLEAN /\ (lease # NoOne => leaseFile)
          /\ canonical \in Processes \cup {NoOne}
      OBVIOUS
    <2> HIDE DEF Init
    <2> QED
      BY <2>1, <2>2, <2>3, <2>4, <2>5 DEF TypeOK, Places
  <1>2. Exclusive /\ Candidates
    BY DEF Exclusive, Candidates, Holding, Processes
  <1>3. Sockets
    BY DEF Sockets, Listens, Processes
  <1>4. OlderBuilds
    BY DEF OlderBuilds, Processes
  <1>5. WinnerKeepsItsName /\ (Clean => Evidence)
    BY DEF WinnerKeepsItsName, Evidence, Processes
  <1> QED
    BY <1>1, <1>2, <1>3, <1>4, <1>5 DEF IInv

\* A launch looks whether a lease was left.
LEMMA BeginSafe == ASSUME IInv, NEW p \in Launchers, Begin(p) PROVE IInv'
  <1> USE SomeLaunchers, BoundsAreNaturals DEF IInv, Begin, Go, names, sockets, locks, bounds
  <1>1. TypeOK'
    BY DEF TypeOK, Alive, Processes
  <1>2. Exclusive'
    BY DEF TypeOK, Exclusive, Processes, Holding
  <1>3. Sockets'
    BY DEF TypeOK, Sockets, Processes, Early, Listens
  <1>4. OlderBuilds'
    BY DEF TypeOK, OlderBuilds, Processes
  <1>5. Candidates'
    BY DEF TypeOK, Candidates, Dead, Processes, Holding
  <1>6. WinnerKeepsItsName'
    BY DEF TypeOK, WinnerKeepsItsName, Processes
  <1>7. (Clean => Evidence)'
    BY DEF TypeOK, Clean, Evidence, Processes
  <1> QED
    BY <1>1, <1>2, <1>3, <1>4, <1>5, <1>6, <1>7

\* It asks the instance name.
LEMMA ProbeSafe == ASSUME IInv, NEW p \in Launchers, Probe(p) PROVE IInv'
  <1> USE SomeLaunchers, BoundsAreNaturals
      DEF IInv, Probe, Answers, ReaderAnswers, EndOf, Go, names, sockets, locks, bounds
  <1>1. TypeOK'
    BY DEF TypeOK, Sockets, Alive, Ended, Processes, Listens
  <1>2. Exclusive'
    BY DEF TypeOK, Exclusive, Processes, Holding
  <1>3. Sockets'
    BY DEF TypeOK, Sockets, Processes, Early, Listens
  <1>4. OlderBuilds'
    BY DEF TypeOK, OlderBuilds, Processes
  <1>5. Candidates'
    BY DEF TypeOK, Candidates, Dead, Processes, Holding
  <1>6. WinnerKeepsItsName'
    BY DEF TypeOK, WinnerKeepsItsName, Processes
  <1>7. (Clean => Evidence)'
    BY DEF TypeOK, Clean, Evidence, Processes
  <1> QED
    BY <1>1, <1>2, <1>3, <1>4, <1>5, <1>6, <1>7

\* It takes the lease, if no live process has it.
LEMMA LockSafe == ASSUME IInv, NEW p \in Launchers, Lock(p) PROVE IInv'
  <1> USE SomeLaunchers, BoundsAreNaturals
      DEF IInv, Lock, Taken, Go, names, sockets, locks, bounds
  <1>1. TypeOK'
    <2>1. overtaken' \in BOOLEAN /\ seen' \in [Launchers -> BOOLEAN]
      BY Zenon DEF TypeOK
    <2>2. pc' \in [Processes -> Places] /\ listening \subseteq {s \in Processes : Alive(s)'}
      BY DEF TypeOK, Alive, Ended, Processes, Places
    <2> QED
      BY <2>1, <2>2 DEF TypeOK, Places
  <1>2. Exclusive'
    BY DEF TypeOK, Exclusive, Held, Alive, Ended, Processes, Holding
  <1>3. Sockets'
    BY DEF TypeOK, Sockets, Processes, Early, Listens
  <1>4. OlderBuilds'
    BY DEF TypeOK, OlderBuilds, Processes
  <1>5. Candidates'
    BY DEF TypeOK, Candidates, Dead, Processes, Holding
  <1>6. WinnerKeepsItsName'
    BY DEF TypeOK, WinnerKeepsItsName, Processes
  <1>7. (Clean => Evidence)'
    BY DEF TypeOK, Clean, Evidence, Processes
  <1> QED
    BY <1>1, <1>2, <1>3, <1>4, <1>5, <1>6, <1>7

\* It waits for the owner of the lease to listen.
LEMMA WaitSafe == ASSUME IInv, NEW p \in Launchers, Wait(p) PROVE IInv'
  <1> USE SomeLaunchers, BoundsAreNaturals
      DEF IInv, Wait, Taken, Answers, ReaderAnswers, EndOf, Go, names, sockets, locks, bounds
  <1>1. TypeOK'
    <2>1. seen' \in [Launchers -> BOOLEAN]
      BY DEF TypeOK
    <2>2. pc' \in [Processes -> Places] /\ listening \subseteq {s \in Processes : Alive(s)'}
      BY DEF TypeOK, Sockets, Alive, Ended, Processes, Listens, Places
    <2> QED
      BY <2>1, <2>2 DEF TypeOK, Places
  <1>2. Exclusive'
    BY DEF TypeOK, Exclusive, Held, Alive, Ended, Processes, Holding
  <1>3. Sockets'
    BY DEF TypeOK, Sockets, Processes, Early, Listens
  <1>4. OlderBuilds'
    BY DEF TypeOK, OlderBuilds, Processes
  <1>5. Candidates'
    BY DEF TypeOK, Candidates, Dead, Processes, Holding
  <1>6. WinnerKeepsItsName'
    BY DEF TypeOK, WinnerKeepsItsName, Processes
  <1>7. (Clean => Evidence)'
    BY DEF TypeOK, Clean, Evidence, Processes
  <1> QED
    BY <1>1, <1>2, <1>3, <1>4, <1>5, <1>6, <1>7

\* It holds on to what the name leads to.
LEMMA PinSafe == ASSUME IInv, NEW p \in Launchers, Pin(p) PROVE IInv'
  <1> USE SomeLaunchers, BoundsAreNaturals DEF IInv, Pin, Go, names, sockets, locks, bounds
  <1>1. TypeOK'
    BY DEF TypeOK, Alive, Ended, Processes
  <1>2. Exclusive'
    BY DEF TypeOK, Exclusive, Processes, Holding
  <1>3. Sockets'
    BY DEF TypeOK, Sockets, Processes, Early, Listens
  <1>4. OlderBuilds'
    BY DEF TypeOK, OlderBuilds, Processes
  <1>5. Candidates'
    BY DEF TypeOK, Candidates, Dead, Processes
  <1>6. WinnerKeepsItsName'
    BY DEF TypeOK, WinnerKeepsItsName, Processes
  <1>7. (Clean => Evidence)'
    BY DEF TypeOK, Clean, Evidence, Processes
  <1> QED
    BY <1>1, <1>2, <1>3, <1>4, <1>5, <1>6, <1>7

\* It asks once more.
LEMMA FinalProbeSafe == ASSUME IInv, NEW p \in Launchers, FinalProbe(p) PROVE IInv'
  <1> USE SomeLaunchers, BoundsAreNaturals
      DEF IInv, FinalProbe, Answers, ReaderAnswers, EndOf, Released, Go, names, sockets, locks, bounds
  <1>1. TypeOK'
    BY DEF TypeOK, Sockets, Alive, Ended, Processes, Listens
  <1>2. Exclusive'
    BY DEF TypeOK, Exclusive, Processes, Holding
  <1>3. Sockets'
    BY DEF TypeOK, Sockets, Processes, Early, Listens
  <1>4. OlderBuilds'
    BY DEF TypeOK, OlderBuilds, Processes
  <1>5. Candidates'
    BY DEF TypeOK, OlderBuilds, Candidates, Dead, Processes, Holding
  <1>6. WinnerKeepsItsName'
    BY DEF TypeOK, WinnerKeepsItsName, Processes
  <1>7. (Clean => Evidence)'
    BY DEF TypeOK, Exclusive, Sockets, Clean, Evidence, Alive, Processes, Holding, Listens
  <1> QED
    BY <1>1, <1>2, <1>3, <1>4, <1>5, <1>6, <1>7

\* It takes a free name, recovers one it has evidence for, or is refused.
LEMMA BindSafe == ASSUME IInv, NEW p \in Launchers, Bind(p) PROVE IInv'
  <1> USE SomeLaunchers, BoundsAreNaturals
      DEF IInv, Bind, Fault, UnlockAndFail, Released, MayReplace, Go, names, sockets, locks, bounds
  <1>1. TypeOK'
    BY DEF TypeOK, Sockets, Alive, Ended, Processes, Listens
  <1>2. Exclusive'
    BY DEF TypeOK, Exclusive, Processes, Holding
  <1>3. Sockets'
    BY DEF TypeOK, Sockets, Processes, Early, Listens
  <1>4. OlderBuilds'
    BY DEF TypeOK, OlderBuilds, Processes
  <1>5. Candidates'
    BY DEF TypeOK, Candidates, Dead, Processes, Holding
  <1>6. WinnerKeepsItsName'
    BY DEF TypeOK, WinnerKeepsItsName, Processes
  <1>7. (Clean => Evidence)'
    BY DEF TypeOK, Exclusive, Clean, Evidence, Processes, Holding
  <1> QED
    BY <1>1, <1>2, <1>3, <1>4, <1>5, <1>6, <1>7

\* It listens under its name.
LEMMA ListenSafe == ASSUME IInv, NEW p \in Launchers, Listen(p) PROVE IInv'
  <1> USE SomeLaunchers, BoundsAreNaturals
      DEF IInv, Listen, Fault, UnlockAndFail, Released, Withdrawn, Go, names, sockets, locks, bounds
  <1>1. TypeOK'
    BY DEF TypeOK, Alive, Ended, Processes
  <1>2. Exclusive'
    BY DEF TypeOK, Exclusive, Processes, Holding
  <1>3. Sockets'
    BY DEF TypeOK, Sockets, Processes, Early, Listens
  <1>4. OlderBuilds'
    BY DEF TypeOK, OlderBuilds, Processes
  <1>5. Candidates'
    BY DEF TypeOK, Candidates, Dead, Processes, Holding
  <1>6. WinnerKeepsItsName'
    BY DEF TypeOK, WinnerKeepsItsName, Processes
  <1>7. (Clean => Evidence)'
    BY DEF TypeOK, Clean, Evidence, Processes
  <1> QED
    BY <1>1, <1>2, <1>3, <1>4, <1>5, <1>6, <1>7

\* It becomes the instance.
LEMMA PublishSafe == ASSUME IInv, NEW p \in Launchers, Publish(p) PROVE IInv'
  <1> USE SomeLaunchers, BoundsAreNaturals
      DEF IInv, Publish, Fault, UnlockAndFail, Released, Withdrawn, Go, names, sockets, locks, bounds
  <1>1. TypeOK'
    BY DEF TypeOK, Sockets, Alive, Ended, Processes, Listens
  <1>2. Exclusive'
    BY DEF TypeOK, Exclusive, Processes, Holding
  <1>3. Sockets'
    BY DEF TypeOK, Sockets, Processes, Early, Listens
  <1>4. OlderBuilds'
    BY DEF TypeOK, OlderBuilds, Processes
  <1>5. Candidates'
    BY DEF TypeOK, Candidates, Dead, Processes, Holding
  <1>6. WinnerKeepsItsName'
    BY DEF TypeOK, WinnerKeepsItsName, Processes
  <1>7. (Clean => Evidence)'
    BY DEF TypeOK, Clean, Evidence, Processes
  <1> QED
    BY <1>1, <1>2, <1>3, <1>4, <1>5, <1>6, <1>7

\* A replacement is bound beside a stale name.
LEMMA BindSpareSafe == ASSUME IInv, NEW p \in Launchers, BindSpare(p) PROVE IInv'
  <1> USE SomeLaunchers, BoundsAreNaturals
      DEF IInv, BindSpare, Fault, UnlockAndFail, Released, StillStale, Go, names, sockets, locks, bounds
  <1>1. TypeOK'
    BY DEF TypeOK, Sockets, Alive, Ended, Processes, Listens
  <1>2. Exclusive'
    BY DEF TypeOK, Exclusive, Processes, Holding
  <1>3. Sockets'
    BY DEF TypeOK, Sockets, Processes, Early, Listens
  <1>4. OlderBuilds'
    BY DEF TypeOK, OlderBuilds, Processes
  <1>5. Candidates'
    BY DEF TypeOK, Candidates, Dead, Processes, Holding
  <1>6. WinnerKeepsItsName'
    BY DEF TypeOK, Sockets, WinnerKeepsItsName, Processes, Early
  <1>7. (Clean => Evidence)'
    BY DEF TypeOK, Clean, Evidence, Processes
  <1> QED
    BY <1>1, <1>2, <1>3, <1>4, <1>5, <1>6, <1>7

\* The names are exchanged.
LEMMA ExchangeSafe == ASSUME IInv, NEW p \in Launchers, Exchange(p) PROVE IInv'
  <1> USE SomeLaunchers, BoundsAreNaturals
      DEF IInv, Exchange, Fault, Exchanged, Go, names, sockets, locks, bounds
  <1>1. TypeOK'
    BY DEF TypeOK, Alive, Ended, Processes
  <1>2. Exclusive'
    BY DEF TypeOK, Exclusive, Processes, Holding
  <1>3. Sockets'
    BY DEF TypeOK, Exclusive, Sockets, Processes, Early, Listens, Holding
  <1>4. OlderBuilds'
    BY DEF TypeOK, OlderBuilds, Processes
  <1>5. Candidates'
    BY DEF TypeOK, Exclusive, Candidates, Dead, Processes, Holding
  <1>6. WinnerKeepsItsName'
    BY DEF TypeOK, WinnerKeepsItsName, Processes
  <1>7. (Clean => Evidence)'
    BY DEF TypeOK, Exclusive, Clean, Evidence, Processes, Holding
  <1> QED
    BY <1>1, <1>2, <1>3, <1>4, <1>5, <1>6, <1>7

\* What was moved aside is compared.
LEMMA CheckSafe == ASSUME IInv, NEW p \in Launchers, Check(p) PROVE IInv'
  <1> USE SomeLaunchers, BoundsAreNaturals DEF IInv, Check, Go, names, sockets, locks, bounds
  <1>1. TypeOK'
    BY DEF TypeOK, Alive, Ended, Processes
  <1>2. Exclusive'
    BY DEF TypeOK, Exclusive, Processes, Holding
  <1>3. Sockets'
    BY DEF TypeOK, Sockets, Processes, Early, Listens
  <1>4. OlderBuilds'
    BY DEF TypeOK, OlderBuilds, Processes
  <1>5. Candidates'
    BY DEF TypeOK, Candidates, Dead, Processes, Holding
  <1>6. WinnerKeepsItsName'
    BY DEF TypeOK, Sockets, Candidates, Dead, WinnerKeepsItsName, Ended, Processes, Holding
  <1>7. (Clean => Evidence)'
    BY DEF TypeOK, Sockets, Clean, Evidence, Processes
  <1> QED
    BY <1>1, <1>2, <1>3, <1>4, <1>5, <1>6, <1>7

\* A window that was moved aside goes back.
LEMMA RollbackSafe == ASSUME IInv, NEW p \in Launchers, Rollback(p) PROVE IInv'
  <1> USE SomeLaunchers, BoundsAreNaturals
      DEF IInv, Rollback, Fault, Exchanged, Go, names, sockets, locks, bounds
  <1>1. TypeOK'
    BY DEF TypeOK, Alive, Ended, Processes
  <1>2. Exclusive'
    BY DEF TypeOK, Exclusive, Processes, Holding
  <1>3. Sockets'
    BY DEF TypeOK, Sockets, Processes, Early, Listens
  <1>4. OlderBuilds'
    BY DEF TypeOK, OlderBuilds, Processes
  <1>5. Candidates'
    BY DEF TypeOK, Sockets, Candidates, Dead, Processes, Holding
  <1>6. WinnerKeepsItsName'
    BY DEF TypeOK, Sockets, WinnerKeepsItsName, Processes
  <1>7. (Clean => Evidence)'
    BY DEF TypeOK, Clean, Evidence, Processes
  <1> QED
    BY <1>1, <1>2, <1>3, <1>4, <1>5, <1>6, <1>7

\* A recovery is given up.
LEMMA AbandonSafe == ASSUME IInv, NEW p \in Launchers, Abandon(p) PROVE IInv'
  <1> USE SomeLaunchers, BoundsAreNaturals
      DEF IInv, Abandon, UnlockAndFail, Released, Withdrawn, Go, names, sockets, locks, bounds
  <1>1. TypeOK'
    BY DEF TypeOK, Alive, Ended, Processes
  <1>2. Exclusive'
    BY DEF TypeOK, Exclusive, Processes, Holding
  <1>3. Sockets'
    BY DEF TypeOK, Sockets, Processes, Early, Listens
  <1>4. OlderBuilds'
    BY DEF TypeOK, OlderBuilds, Processes
  <1>5. Candidates'
    BY DEF TypeOK, Candidates, Dead, Processes, Holding
  <1>6. WinnerKeepsItsName'
    BY DEF TypeOK, WinnerKeepsItsName, Processes
  <1>7. (Clean => Evidence)'
    BY DEF TypeOK, Clean, Evidence, Processes
  <1> QED
    BY <1>1, <1>2, <1>3, <1>4, <1>5, <1>6, <1>7

\* The instance ends.
LEMMA QuitSafe == ASSUME IInv, NEW p \in Launchers, Quit(p) PROVE IInv'
  <1> USE SomeLaunchers, BoundsAreNaturals
      DEF IInv, Quit, Released, Withdrawn, Go, names, sockets, locks, bounds
  <1>1. TypeOK'
    BY DEF TypeOK, Alive, Ended, Processes
  <1>2. Exclusive'
    BY DEF TypeOK, Exclusive, Processes, Holding
  <1>3. Sockets'
    BY DEF TypeOK, Sockets, Processes, Early, Listens
  <1>4. OlderBuilds'
    BY DEF TypeOK, OlderBuilds, Processes
  <1>5. Candidates'
    BY DEF TypeOK, Candidates, Dead, Processes, Holding
  <1>6. WinnerKeepsItsName'
    BY DEF TypeOK, WinnerKeepsItsName, Processes
  <1>7. (Clean => Evidence)'
    BY DEF TypeOK, Exclusive, Sockets, Clean, Evidence, Processes, Holding
  <1> QED
    BY <1>1, <1>2, <1>3, <1>4, <1>5, <1>6, <1>7

\* A process dies.
LEMMA CrashSafe == ASSUME IInv, NEW p \in Processes, Crash(p) PROVE IInv'
  <1> USE SomeLaunchers, BoundsAreNaturals
      DEF IInv, Crash, Alive, Go, names, sockets, locks, bounds
  <1>1. TypeOK'
    BY DEF TypeOK, Ended, Processes
  <1>2. Exclusive'
    BY DEF TypeOK, Exclusive, Processes, Holding
  <1>3. Sockets'
    BY DEF TypeOK, Sockets, Processes, Early, Listens
  <1>4. OlderBuilds'
    BY DEF TypeOK, OlderBuilds, Ended, Processes
  <1>5. Candidates'
    BY DEF TypeOK, Candidates, Dead, Processes, Holding
  <1>6. WinnerKeepsItsName'
    BY DEF TypeOK, WinnerKeepsItsName, Processes
  <1>7. (Clean => Evidence)'
    BY DEF TypeOK, Clean, Evidence, Processes
  <1> QED
    BY <1>1, <1>2, <1>3, <1>4, <1>5, <1>6, <1>7

\* An older build takes the name of whoever does not answer.
LEMMA PreLeaseStartSafe == ASSUME IInv, NEW q \in PreLease, PreLeaseStart(q) PROVE IInv'
  <1> USE SomeLaunchers, BoundsAreNaturals
      DEF IInv, PreLeaseStart, Go, names, sockets, locks, bounds
  <1>1. TypeOK'
    BY DEF TypeOK, Alive, Ended, Processes
  <1>2. Exclusive'
    BY DEF TypeOK, Exclusive, Processes
  <1>3. Sockets'
    BY DEF TypeOK, Sockets, Processes, Listens
  <1>4. OlderBuilds'
    BY DEF TypeOK, OlderBuilds, Ended, Processes
  <1>5. Candidates'
    BY DEF TypeOK, OlderBuilds, Candidates, Dead, Ended, Processes
  <1>6. WinnerKeepsItsName'
    BY DEF TypeOK, OlderBuilds, WinnerKeepsItsName, Processes
  <1>7. (Clean => Evidence)'
    BY DEF TypeOK, Clean, Evidence, Processes
  <1> QED
    BY <1>1, <1>2, <1>3, <1>4, <1>5, <1>6, <1>7

\* An older build ends.
LEMMA PreLeaseQuitSafe == ASSUME IInv, NEW q \in PreLease, PreLeaseQuit(q) PROVE IInv'
  <1> USE SomeLaunchers, BoundsAreNaturals
      DEF IInv, PreLeaseQuit, Go, names, sockets, locks, bounds
  <1>1. TypeOK'
    BY DEF TypeOK, Alive, Ended, Processes
  <1>2. Exclusive'
    BY DEF TypeOK, Exclusive, Processes
  <1>3. Sockets'
    BY DEF TypeOK, Sockets, Processes
  <1>4. OlderBuilds'
    BY DEF TypeOK, OlderBuilds, Ended, Processes
  <1>5. Candidates'
    BY DEF TypeOK, Candidates, Dead, Ended, Processes
  <1>6. WinnerKeepsItsName'
    BY DEF TypeOK, WinnerKeepsItsName, Processes
  <1>7. (Clean => Evidence)'
    BY DEF TypeOK, Clean, Evidence, Processes
  <1> QED
    BY <1>1, <1>2, <1>3, <1>4, <1>5, <1>6, <1>7

-----------------------------------------------------------------------------
(* Theorems *)

\* Every step keeps the invariant.
LEMMA StepSafe == ASSUME IInv, [Next]_vars PROVE IInv'
  <1>1. ASSUME NEW p \in Launchers, Acquire(p) \/ Quit(p)
        PROVE  IInv'
    BY <1>1, BeginSafe, ProbeSafe, LockSafe, WaitSafe, PinSafe, FinalProbeSafe, BindSafe,
       ListenSafe, PublishSafe, BindSpareSafe, ExchangeSafe, CheckSafe, RollbackSafe,
       AbandonSafe, QuitSafe DEF Acquire
  <1>2. ASSUME NEW p \in Processes, Crash(p)
        PROVE  IInv'
    BY <1>2, CrashSafe
  <1>3. ASSUME NEW q \in PreLease, PreLeaseStart(q) \/ PreLeaseQuit(q)
        PROVE  IInv'
    BY <1>3, PreLeaseStartSafe, PreLeaseQuitSafe
  <1>4. CASE UNCHANGED vars
    <2> USE <1>4 DEF IInv, vars, names, sockets, locks, bounds
    <2>1. TypeOK' /\ Exclusive' /\ Sockets' /\ OlderBuilds'
      BY DEF TypeOK, Exclusive, Sockets, OlderBuilds, Alive
    <2>2. Candidates' /\ WinnerKeepsItsName' /\ (Clean => Evidence)'
      BY DEF Candidates, Dead, WinnerKeepsItsName, Clean, Evidence
    <2> QED
      BY <2>1, <2>2
  <1> QED
    BY <1>1, <1>2, <1>3, <1>4 DEF Next

\* Who has the lease, what listens under which name, what a recovery may move aside,
\* and that a clean history leaves evidence, in every reachable state.
THEOREM InstanceInvariant == Spec => []IInv
  <1>1. IInv /\ [Next]_vars => IInv'
    BY StepSafe
  <1> QED
    BY InitSafe, <1>1, PTL DEF Spec

\* However many launches recover the name of a crashed owner at once, beside builds that
\* know no lease, the one that believes to be the instance is the one launches reach, and a
\* live window that was moved aside gets its name back.
THEOREM OneInstanceAlways == Spec => []OneInstance
  <1>1. IInv => OneInstance
    BY DEF IInv, Sockets, OneInstance, PrimaryIsReachable
  <1> QED
    BY InstanceInvariant, <1>1, PTL

\* A launch is refused only beside an older build, after a failed call, or if it overtook
\* an owner it had not seen.
THEOREM RefusalAlwaysExplained == Spec => []RefusalIsExplained
  <1>1. IInv => RefusalIsExplained
    <2> SUFFICES ASSUME IInv, NEW p \in Launchers, pc[p] = "refused",
                        faults = 0, ~overtaken, \A q \in PreLease : pc[q] = "idle"
                 PROVE  FALSE
      BY DEF IInv, TypeOK, RefusalIsExplained
    <2> QED
      BY DEF IInv, Clean, Evidence
  <1> QED
    BY InstanceInvariant, <1>1, PTL
=============================================================================
