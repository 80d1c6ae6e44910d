----------------------- MODULE FirmwareUpdateProofs ------------------------
(* Proofs about FirmwareUpdate, for any displays, partitions, requests and    *)
(* mishaps: what the journal and the bridge say of an update is so, and       *)
(* nobody but the update reaches the device while it may be changing it.      *)
(* First what the two sides keep on their own: the controller's hold of the   *)
(* device's transport, and the updater's progress over the display.           *)
EXTENDS FirmwareUpdate, SequenceTheorems, TLAPS

-----------------------------------------------------------------------------
(* The controller's invariant.  c is the controller, heard the worker's       *)
(* answers that are still to be handled and hold the session's.               *)

ForLease(job) == job.kind \in {"quiesce", "fence"}

\* A closing and a fence are those of the lease that is held, and a fence that of
\* one that is being given back.
Theirs(c, jobs) ==
    \A i \in DOMAIN jobs :
        /\ ForLease(jobs[i]) => jobs[i].lease = c.lease /\ c.lease # 0
        /\ jobs[i].kind = "fence" => c.pending = c.lease

\* Of two jobs for a lease the first is its closing and the other its fence.
Ordered(jobs) ==
    \A i, j \in DOMAIN jobs :
        i < j /\ ForLease(jobs[i]) /\ ForLease(jobs[j]) =>
            jobs[i].kind = "quiesce" /\ jobs[j].kind = "fence"

Before(heard, jobs) ==
    \A i \in DOMAIN heard, j \in DOMAIN jobs :
        ForLease(heard[i]) /\ ForLease(jobs[j]) =>
            heard[i].kind = "quiesce" /\ jobs[j].kind = "fence"

Without(kind, jobs) == \A i \in DOMAIN jobs : jobs[i].kind # kind

\* Nobody has the device, or only for the closing that is in the queue.
Held(c, hold) ==
    /\ ~c.op /\ Without("open", c.jobs)
    /\ Without("quiesce", c.jobs) => hold = "closed"

Shut(c, hold) == hold = "closed" /\ ~c.connected /\ Without("open", c.jobs)

Queue(c, heard) ==
    /\ Theirs(c, c.jobs) /\ Theirs(c, heard)
    /\ Ordered(c.jobs) /\ Ordered(heard) /\ Before(heard, c.jobs)

LeaseInvariant(c, heard, hold) ==
    /\ c.pending \in {0, c.lease}
    /\ Queue(c, heard)
    /\ Exclusive(c) => Held(c, hold)
    /\ c.interlock => Shut(c, hold)

\* The closing has been heard of, and the lease is not being given back.
Quiet(c, heard) ==
    /\ Exclusive(c) /\ c.pending = 0 /\ ~c.connected
    /\ Without("quiesce", c.jobs) /\ Without("quiesce", heard)

-----------------------------------------------------------------------------
(* The updater's invariant                                                    *)

\* What is being written, or will be if the loader is the one.
Writing(u) == IF u.step = "ConfirmLoader" THEN u.next ELSE u.step

\* Every partition is to go, or the poll has sent the update back.
Whole(u) == u.parts = Partitions \/ u.back

\* How far the display d is when u writes.
Progress(u, d) ==
    LET at == Writing(u)
    IN /\ at \notin {"FlashPartition", "WriteCompleteMarker", "RebootRockchip"} => Whole(u)
       /\ at \in {"UpgradeLoader", "WriteGpt"} => d.parts = 0 /\ d.from = u.parts
       /\ at \in {"UpgradeLoader", "WriteGpt", "FlashPartition"} => d.marker # "complete"
       /\ at \in {"WriteGpt", "FlashPartition", "WriteCompleteMarker"} => d.loader
       /\ at \in {"FlashPartition", "WriteCompleteMarker"} => d.gpt
       /\ at = "FlashPartition" => d.parts + u.parts + 1 = d.from
       /\ at = "WriteCompleteMarker" => d.parts = d.from

Irreversible(u) ==
    \/ u.step \in Writes \cup {"RebootRecovery"}
    \/ u.step = "ConfirmLoader" /\ u.next # "WriteStartMarker"

\* The updater u and the bench b.
Fits(u, b) ==
    /\ u.step \in Writes \cup {"ReadChipInfo", "ConfirmLoader"} => u.loader # None
    /\ u.step = "ConfirmLoader" => u.next \in Writes
    /\ Irreversible(u) => u.irr
    /\ u.step \in Writes /\ ~u.cut => b.unit = u.loader
    /\ u.step # "Idle" =>
          IF u.loader = None THEN Whole(u) ELSE Progress(u, b.display[u.loader])
    /\ u.poll => u.polls < MaxPolls
    /\ u.step = "Idle" => u.run = "ended"

Finishes(d) ==
    /\ d.marker = "complete" => d.loader /\ d.gpt /\ d.parts = d.from
    /\ d.from = Partitions \/ d.back

UpdaterInvariant == Fits(upd, bench) /\ \A u \in Units : Finishes(bench.display[u])

\* What the updater may do, seen from outside: it goes on, it touches the display
\* for the first time, or it ends.
GoesOn ==
    /\ upd.step # "Idle" /\ upd'.step # "Idle"
    /\ upd'.irr = upd.irr /\ upd'.attempt = upd.attempt
    /\ bench'.touched = bench.touched /\ events' = events

Touches ==
    /\ upd.step # "Idle" /\ upd'.step # "Idle"
    /\ upd'.irr /\ upd'.attempt = upd.attempt
    /\ bench'.touched = upd.attempt /\ events' = Append(events, IrreversibleStarted)

Ends ==
    /\ upd.step # "Idle" /\ upd'.step = "Idle" /\ upd'.irr = upd.irr
    /\ bench'.touched = bench.touched
    /\ \E ok \in BOOLEAN : events' = Append(events, Finished(ok)) /\ (ok => upd.irr)

-----------------------------------------------------------------------------
(* Queues                                                                     *)

\* What is put at the end of a queue, and where.
LEMMA Appended ==
    ASSUME NEW S, NEW s \in Seq(S), NEW e \in S
    PROVE  /\ Append(s, e) \in Seq(S) /\ DOMAIN Append(s, e) = 1 .. (Len(s) + 1)
           /\ \A i \in DOMAIN s : i \in DOMAIN Append(s, e) /\ Append(s, e)[i] = s[i] /\ i < Len(s) + 1
           /\ Len(s) + 1 \in DOMAIN Append(s, e) /\ Append(s, e)[Len(s) + 1] = e
           /\ \A i \in DOMAIN Append(s, e) : i \in DOMAIN s \/ i = Len(s) + 1
OBVIOUS

\* What is left of a queue when its first is taken.
LEMMA Tailed ==
    ASSUME NEW S, NEW s \in Seq(S), s # <<>>
    PROVE  /\ Tail(s) \in Seq(S) /\ Head(s) \in S
           /\ 1 \in DOMAIN s /\ s[1] = Head(s)
           /\ \A i \in DOMAIN Tail(s) :
                 i \in Nat /\ i + 1 \in DOMAIN s /\ Tail(s)[i] = s[i + 1] /\ 1 < i + 1
           /\ \A i \in DOMAIN s : i \in Nat /\ (i = 1 \/ (i - 1 \in DOMAIN Tail(s) /\ Tail(s)[i - 1] = s[i]))
OBVIOUS

\* The closing of earlier generations' sessions leaves the jobs of a lease alone.
LEMMA StaleJobs ==
    ASSUME NEW L, 0 \in L, NEW jobs \in Seq(Jobs(L))
    PROVE  /\ Stale(jobs) \in Seq(Jobs(L)) /\ DOMAIN Stale(jobs) = DOMAIN jobs
           /\ Without("open", Stale(jobs))
           /\ \A i \in DOMAIN jobs :
                 /\ ForLease(Stale(jobs)[i]) <=> ForLease(jobs[i])
                 /\ ForLease(jobs[i]) => Stale(jobs)[i] = jobs[i]
<1> DEFINE r(i) == IF jobs[i].kind = "open" THEN Job("clear") ELSE jobs[i]
<1>1. DOMAIN jobs = 1 .. Len(jobs) /\ Len(jobs) \in Nat
  OBVIOUS
<1>2. ASSUME NEW i \in 1 .. Len(jobs) PROVE r(i) \in Jobs(L)
  <2>1. jobs[i] \in Jobs(L)
    BY <1>1
  <2>2. Job("clear") \in Jobs(L)
    BY DEF Job, Jobs, JobKinds
  <2> QED BY <2>1, <2>2
<1>3. Stale(jobs) = [i \in 1 .. Len(jobs) |-> r(i)]
  BY <1>1 DEF Stale
<1>4. Stale(jobs) \in Seq(Jobs(L)) /\ DOMAIN Stale(jobs) = DOMAIN jobs
  <2> HIDE DEF r
  <2> QED BY <1>1, <1>2, <1>3
<1>5. ASSUME NEW i \in DOMAIN jobs
      PROVE  /\ Stale(jobs)[i].kind # "open"
             /\ ForLease(Stale(jobs)[i]) <=> ForLease(jobs[i])
             /\ ForLease(jobs[i]) => Stale(jobs)[i] = jobs[i]
  BY <1>1, <1>3 DEF Job, ForLease
<1> QED BY <1>4, <1>5 DEF Without

\* A job put at the end that is of no lease, and stale sessions, keep the queue
\* in order.
LEMMA QueueKept ==
    ASSUME NEW L, 0 \in L, NEW c \in Controllers(L), NEW heard \in Seq(Jobs(L)),
           NEW d \in Controllers(L), d.lease = c.lease, d.pending = c.pending,
           NEW job \in Jobs(L), ~ForLease(job),
           d.jobs \in {c.jobs, Stale(c.jobs), Append(c.jobs, job), Append(Stale(c.jobs), job)},
           Queue(c, heard)
    PROVE  Queue(d, heard) /\ (Without("quiesce", c.jobs) <=> Without("quiesce", d.jobs))
<1>1. c.jobs \in Seq(Jobs(L)) /\ Stale(c.jobs) \in Seq(Jobs(L))
  BY StaleJobs DEF Controllers
<1>2. \A i \in DOMAIN c.jobs :
          i \in DOMAIN d.jobs /\ (ForLease(c.jobs[i]) <=> ForLease(d.jobs[i]))
          /\ (ForLease(c.jobs[i]) => d.jobs[i] = c.jobs[i])
  <2>1. CASE d.jobs \in {c.jobs, Stale(c.jobs)}
    BY <1>1, <2>1, StaleJobs
  <2>2. CASE d.jobs = Append(c.jobs, job)
    BY <1>1, <2>2, Appended
  <2>3. CASE d.jobs = Append(Stale(c.jobs), job)
    BY <1>1, <2>3, Appended, StaleJobs
  <2> QED BY <2>1, <2>2, <2>3
<1>3. \A i \in DOMAIN d.jobs : ForLease(d.jobs[i]) => i \in DOMAIN c.jobs
  <2>1. CASE d.jobs \in {c.jobs, Stale(c.jobs)}
    BY <1>1, <2>1, StaleJobs
  <2>2. CASE d.jobs = Append(c.jobs, job)
    BY <1>1, <2>2, Appended
  <2>3. CASE d.jobs = Append(Stale(c.jobs), job)
    BY <1>1, <2>3, Appended, StaleJobs
  <2> QED BY <2>1, <2>2, <2>3
<1>4. \A i \in DOMAIN d.jobs : ForLease(d.jobs[i]) => i \in DOMAIN c.jobs /\ d.jobs[i] = c.jobs[i] /\ ForLease(c.jobs[i])
  BY <1>2, <1>3
<1>5. Theirs(d, d.jobs)
  BY <1>4 DEF Queue, Theirs, ForLease
<1>6. Theirs(d, heard)
  BY DEF Queue, Theirs
<1>7. Ordered(d.jobs)
  BY <1>4 DEF Queue, Ordered
<1>8. Before(heard, d.jobs)
  BY <1>4 DEF Queue, Before
<1>9. Without("quiesce", c.jobs) <=> Without("quiesce", d.jobs)
  BY <1>2, <1>4 DEF Without, ForLease
<1> QED BY <1>5, <1>6, <1>7, <1>8, <1>9 DEF Queue

-----------------------------------------------------------------------------
(* The controller's operations                                                *)

\* The jobs that the controller queues are jobs.
LEMMA JobTypes ==
    ASSUME NEW L, 0 \in L, NEW lease \in L
    PROVE  /\ \A kind \in JobKinds : Job(kind) \in Jobs(L) /\ LeaseJob(kind, lease) \in Jobs(L)
           /\ ~ForLease(Job("open")) /\ ~ForLease(Job("clear")) /\ ~ForLease(Job("op"))
BY DEF Job, LeaseJob, Jobs, JobKinds, ForLease

\* What a new session or the end of one does to the queue.
LEMMA QueueTypes ==
    ASSUME NEW L, 0 \in L, NEW jobs \in Seq(Jobs(L)), NEW job \in Jobs(L)
    PROVE  /\ Stale(jobs) \in Seq(Jobs(L)) /\ Append(jobs, job) \in Seq(Jobs(L))
           /\ Append(Stale(jobs), job) \in Seq(Jobs(L))
           /\ Without("open", Stale(jobs))
           /\ job.kind # "open" => Without("open", Append(Stale(jobs), job))
<1>1. /\ Stale(jobs) \in Seq(Jobs(L)) /\ Append(jobs, job) \in Seq(Jobs(L))
      /\ Append(Stale(jobs), job) \in Seq(Jobs(L)) /\ Without("open", Stale(jobs))
  BY StaleJobs, Appended
<1>2. ASSUME job.kind # "open" PROVE Without("open", Append(Stale(jobs), job))
  BY <1>1, <1>2, Appended DEF Without
<1> QED BY <1>1, <1>2

\* connectDevice opens no session under a lease or an interlock.
LEMMA ConnectedKeeps ==
    ASSUME NEW L, 0 \in L, NEW c \in Controllers(L), NEW heard \in Seq(Jobs(L)),
           NEW hold \in {"open", "closed"}, LeaseInvariant(c, heard, hold)
    PROVE  /\ Connected(c) \in Controllers(L) /\ LeaseInvariant(Connected(c), heard, hold)
           /\ Connected(c).lease = c.lease /\ Connected(c).pending = c.pending
           /\ Connected(c).interlock = c.interlock
           /\ Exclusive(c) => Connected(c) = c
<1> DEFINE d == Connected(c)
<1>1. CASE Exclusive(c) \/ c.interlock
  <2>1. d = c
    BY <1>1 DEF Connected
  <2> QED BY <2>1
<1>2. CASE ~(Exclusive(c) \/ c.interlock)
  <2>1. /\ d \in Controllers(L) /\ d.lease = c.lease /\ d.pending = c.pending
        /\ d.interlock = c.interlock
        /\ d.jobs \in {c.jobs, Append(Stale(c.jobs), Job("open"))}
    <3>1. c.jobs \in Seq(Jobs(L)) /\ Append(Stale(c.jobs), Job("open")) \in Seq(Jobs(L))
      BY QueueTypes, JobTypes DEF Controllers, JobKinds
    <3> QED BY <3>1, <1>2 DEF Connected, NewGeneration, Controllers
  <2>2. Queue(d, heard)
    BY <2>1, QueueKept, JobTypes DEF LeaseInvariant, JobKinds
  <2> HIDE DEF d
  <2>3. LeaseInvariant(d, heard, hold)
    BY <1>2, <2>1, <2>2 DEF LeaseInvariant, Exclusive
  <2> QED BY <1>2, <2>1, <2>3 DEF d
<1> QED BY <1>1, <1>2

\* The other changes outside a lease: disconnectDevice and a command.
LEMMA DisconnectedKeeps ==
    ASSUME NEW L, 0 \in L, NEW c \in Controllers(L), NEW heard \in Seq(Jobs(L)),
           NEW hold \in {"open", "closed"}, LeaseInvariant(c, heard, hold)
    PROVE  /\ Disconnected(c) \in Controllers(L) /\ LeaseInvariant(Disconnected(c), heard, hold)
           /\ Disconnected(c).lease = c.lease /\ Disconnected(c).pending = c.pending
           /\ Disconnected(c).interlock = c.interlock /\ ~Disconnected(c).connected
           /\ Without("quiesce", c.jobs) <=> Without("quiesce", Disconnected(c).jobs)
<1> DEFINE d == Disconnected(c)
<1>1. c.jobs \in Seq(Jobs(L)) /\ Job("clear") \in Jobs(L) /\ Job("clear").kind # "open"
  BY JobTypes DEF Controllers, JobKinds, Job
<1>2. /\ Append(Stale(c.jobs), Job("clear")) \in Seq(Jobs(L))
      /\ Without("open", Append(Stale(c.jobs), Job("clear")))
  BY <1>1, QueueTypes
<1>3. /\ d \in Controllers(L) /\ d.lease = c.lease /\ d.pending = c.pending
      /\ d.interlock = c.interlock /\ d.op = c.op /\ ~d.connected
      /\ d.jobs = Append(Stale(c.jobs), Job("clear"))
  BY <1>2 DEF Disconnected, NewGeneration, Controllers
<1> HIDE DEF d
<1>4. Queue(d, heard) /\ (Without("quiesce", c.jobs) <=> Without("quiesce", d.jobs))
  BY <1>1, <1>3, QueueKept, JobTypes DEF LeaseInvariant
<1>5. LeaseInvariant(d, heard, hold)
  BY <1>2, <1>3, <1>4 DEF LeaseInvariant, Exclusive, Held, Shut
<1> QED BY <1>3, <1>4, <1>5 DEF d

\* startForegroundOperation: a command is queued under no lease and no
\* interlock.
LEMMA OperatingKeeps ==
    ASSUME NEW L, 0 \in L, NEW c \in Controllers(L), NEW heard \in Seq(Jobs(L)),
           NEW hold \in {"open", "closed"}, LeaseInvariant(c, heard, hold), MayOperate(c)
    PROVE  /\ Operating(c) \in Controllers(L) /\ LeaseInvariant(Operating(c), heard, hold)
           /\ Operating(c).lease = 0 /\ Operating(c).interlock = c.interlock
<1> DEFINE d == Operating(c)
<1>1. c.jobs \in Seq(Jobs(L)) /\ Job("op") \in Jobs(L) /\ ~ForLease(Job("op"))
  BY JobTypes DEF Controllers, JobKinds
<1>2. Append(c.jobs, Job("op")) \in Seq(Jobs(L))
  BY <1>1, QueueTypes
<1>3. /\ d \in Controllers(L) /\ d.lease = c.lease /\ d.pending = c.pending
      /\ d.interlock = c.interlock /\ d.jobs = Append(c.jobs, Job("op"))
  BY <1>2 DEF Operating, Controllers
<1> HIDE DEF d
<1>4. Queue(d, heard)
  BY <1>1, <1>3, QueueKept DEF LeaseInvariant
<1>5. LeaseInvariant(d, heard, hold)
  BY <1>3, <1>4 DEF LeaseInvariant, Exclusive, MayOperate
<1> QED BY <1>3, <1>5 DEF d, MayOperate, Exclusive

\* A snapshot of the discovery only closes what a lease or an interlock has closed.
LEMMA SeenKeeps ==
    ASSUME NEW L, 0 \in L, NEW c \in Controllers(L), NEW heard \in Seq(Jobs(L)),
           NEW hold \in {"open", "closed"}, LeaseInvariant(c, heard, hold),
           NEW present \in BOOLEAN
    PROVE  /\ Seen(c, present) \in Controllers(L) /\ LeaseInvariant(Seen(c, present), heard, hold)
           /\ Seen(c, present).lease = c.lease /\ Seen(c, present).pending = c.pending
           /\ Seen(c, present).interlock = c.interlock
           /\ Exclusive(c) => ~Seen(c, present).connected
           /\ Without("quiesce", c.jobs) <=> Without("quiesce", Seen(c, present).jobs)
<1> DEFINE d == Seen(c, present)
<1>1. c.jobs \in Seq(Jobs(L)) /\ Job("clear") \in Jobs(L) /\ Job("open") \in Jobs(L)
  BY JobTypes DEF Controllers, JobKinds
<1>2. /\ Append(Stale(c.jobs), Job("clear")) \in Seq(Jobs(L))
      /\ Append(Stale(c.jobs), Job("open")) \in Seq(Jobs(L))
      /\ Stale(c.jobs) \in Seq(Jobs(L)) /\ Without("open", Stale(c.jobs))
  BY <1>1, QueueTypes
<1>3. CASE Exclusive(c) \/ c.interlock
  <2>1. /\ d \in Controllers(L) /\ d.lease = c.lease /\ d.pending = c.pending
        /\ d.interlock = c.interlock /\ d.op = c.op /\ ~d.connected
        /\ d.jobs = Stale(c.jobs)
    BY <1>2, <1>3 DEF Seen, Controllers
  <2> HIDE DEF d
  <2>2. Queue(d, heard) /\ (Without("quiesce", c.jobs) <=> Without("quiesce", d.jobs))
    BY <1>1, <2>1, QueueKept, JobTypes DEF LeaseInvariant
  <2>3. LeaseInvariant(d, heard, hold)
    BY <1>2, <2>1, <2>2 DEF LeaseInvariant, Exclusive, Held, Shut
  <2> QED BY <2>1, <2>2, <2>3 DEF d
<1>4. CASE ~(Exclusive(c) \/ c.interlock)
  <2>1. PICK job \in {Job("clear"), Job("open")} :
          /\ d \in Controllers(L) /\ d.lease = c.lease /\ d.pending = c.pending
          /\ d.interlock = c.interlock /\ d.jobs = Append(Stale(c.jobs), job)
    BY <1>2, <1>4 DEF Seen, NewGeneration, Controllers
  <2> HIDE DEF d
  <2>2. Queue(d, heard) /\ (Without("quiesce", c.jobs) <=> Without("quiesce", d.jobs))
    BY <1>1, <2>1, QueueKept, JobTypes DEF LeaseInvariant
  <2>3. LeaseInvariant(d, heard, hold)
    BY <1>4, <2>1, <2>2 DEF LeaseInvariant, Exclusive
  <2> QED BY <1>4, <2>1, <2>2, <2>3 DEF d
<1> QED BY <1>3, <1>4

\* acquireFirmwareExclusive: a new lease has its closing at the end of the queue.
LEMMA AcquiredKeeps ==
    ASSUME NEW L, 0 \in L, NEW c \in Controllers(L), NEW heard \in Seq(Jobs(L)),
           NEW hold \in {"open", "closed"}, LeaseInvariant(c, heard, hold),
           MayAcquire(c), NEW lease \in L \ {0}
    PROVE  /\ Acquired(c, lease) \in Controllers(L)
           /\ LeaseInvariant(Acquired(c, lease), heard, hold)
           /\ Acquired(c, lease).lease = lease /\ Acquired(c, lease).pending = 0
           /\ Acquired(c, lease).interlock = c.interlock
<1> DEFINE d == Acquired(c, lease)
           job == LeaseJob("quiesce", lease)
           old == Stale(c.jobs)
<1>1. c.jobs \in Seq(Jobs(L)) /\ job \in Jobs(L)
  BY JobTypes DEF Controllers, JobKinds
<1>2. job.kind = "quiesce" /\ job.lease = lease
  BY DEF LeaseJob
<1>3. old \in Seq(Jobs(L)) /\ Append(old, job) \in Seq(Jobs(L)) /\ Without("open", Append(old, job))
  BY <1>1, <1>2, QueueTypes
<1>4. c.lease = 0 /\ c.pending = 0 /\ ~c.op
  BY DEF MayAcquire, Exclusive, LeaseInvariant
<1>5. /\ d \in Controllers(L) /\ d.lease = lease /\ d.pending = 0 /\ d.interlock = c.interlock
      /\ d.jobs = Append(old, job) /\ ~d.op /\ d.connected = c.connected
  BY <1>3, <1>4 DEF Acquired, NewGeneration, Controllers
<1>6. \A i \in DOMAIN heard : ~ForLease(heard[i])
  BY <1>4 DEF LeaseInvariant, Queue, Theirs
<1>7. \A i \in DOMAIN c.jobs : ~ForLease(c.jobs[i])
  BY <1>4 DEF LeaseInvariant, Queue, Theirs
<1>8. \A i \in DOMAIN old : ~ForLease(old[i])
  BY <1>1, <1>7, StaleJobs
<1> HIDE DEF d, job, old
<1>9. \A i \in DOMAIN d.jobs : ForLease(d.jobs[i]) => i = Len(old) + 1 /\ d.jobs[i] = job
  BY <1>1, <1>3, <1>5, <1>8, Appended
<1>10. Theirs(d, d.jobs) /\ Theirs(d, heard)
  BY <1>2, <1>5, <1>6, <1>9 DEF Theirs, ForLease
<1>11. Ordered(d.jobs) /\ Ordered(heard) /\ Before(heard, d.jobs)
  <2>1. \A i \in DOMAIN d.jobs, j \in DOMAIN d.jobs :
          ForLease(d.jobs[i]) /\ ForLease(d.jobs[j]) => i = j
    BY <1>9
  <2>2. DOMAIN d.jobs \subseteq Nat
    BY <1>1, <1>3, <1>5, Appended
  <2>3. Ordered(d.jobs)
    BY <2>1, <2>2 DEF Ordered
  <2> QED BY <2>3, <1>6 DEF Ordered, Before
<1>12. ~Without("quiesce", d.jobs)
  BY <1>1, <1>2, <1>3, <1>5, Appended DEF Without
<1>13. LeaseInvariant(d, heard, hold)
  <2>1. Held(d, hold)
    BY <1>3, <1>5, <1>12 DEF Held
  <2>2. d.interlock => Shut(d, hold)
    BY <1>3, <1>5 DEF LeaseInvariant, Shut
  <2> QED BY <2>1, <2>2, <1>5, <1>10, <1>11 DEF LeaseInvariant, Queue
<1> QED BY <1>5, <1>13 DEF d

\* releaseFirmwareExclusive: the fence follows the closing.
LEMMA ReleasedKeeps ==
    ASSUME NEW L, 0 \in L, NEW c \in Controllers(L), NEW heard \in Seq(Jobs(L)),
           NEW hold \in {"open", "closed"}, LeaseInvariant(c, heard, hold),
           NEW lease \in L, NEW resume \in BOOLEAN
    PROVE  /\ Released(c, lease, resume) \in Controllers(L)
           /\ LeaseInvariant(Released(c, lease, resume), heard, hold)
           /\ Released(c, lease, resume).interlock = c.interlock
           /\ Released(c, lease, resume).connected = c.connected
           /\ Without("open", c.jobs) => Without("open", Released(c, lease, resume).jobs)
<1> DEFINE d == Released(c, lease, resume)
           job == LeaseJob("fence", lease)
<1>1. CASE lease = 0 \/ lease # c.lease
  BY <1>1 DEF Released
<1>2. CASE lease # 0 /\ lease = c.lease /\ c.pending # 0
  <2>1. d = [c EXCEPT !.resume = @ /\ resume]
    BY <1>2 DEF Released
  <2>2. /\ d \in Controllers(L) /\ d.lease = c.lease /\ d.pending = c.pending /\ d.op = c.op
        /\ d.interlock = c.interlock /\ d.connected = c.connected /\ d.jobs = c.jobs
    BY <2>1 DEF Controllers
  <2> HIDE DEF d
  <2>3. LeaseInvariant(d, heard, hold)
    BY <2>2 DEF LeaseInvariant, Queue, Theirs, Exclusive, Held, Shut
  <2> QED BY <2>2, <2>3 DEF d
<1>3. CASE lease # 0 /\ lease = c.lease /\ c.pending = 0
  <2>1. c.jobs \in Seq(Jobs(L)) /\ job \in Jobs(L) /\ job.kind = "fence" /\ job.lease = lease
    BY JobTypes DEF Controllers, JobKinds, LeaseJob
  <2>2. Append(c.jobs, job) \in Seq(Jobs(L))
    BY <2>1, QueueTypes
  <2>3. /\ d \in Controllers(L) /\ d.lease = c.lease /\ d.pending = c.lease /\ d.op = c.op
        /\ d.interlock = c.interlock /\ d.connected = c.connected /\ d.jobs = Append(c.jobs, job)
    BY <1>3, <2>2 DEF Released, Controllers
  <2> HIDE DEF d, job
  <2>4. \A i \in DOMAIN d.jobs :
            \/ i \in DOMAIN c.jobs /\ d.jobs[i] = c.jobs[i] /\ c.jobs[i].kind # "fence" /\ i < Len(c.jobs) + 1
            \/ i = Len(c.jobs) + 1 /\ d.jobs[i] = job
    BY <1>3, <2>1, <2>3, Appended DEF LeaseInvariant, Queue, Theirs
  <2>5. \A i \in DOMAIN heard : heard[i].kind # "fence"
    BY <1>3 DEF LeaseInvariant, Queue, Theirs
  <2>6. Theirs(d, d.jobs)
    BY <1>3, <2>1, <2>3, <2>4 DEF LeaseInvariant, Queue, Theirs, ForLease
  <2>7. Theirs(d, heard)
    BY <2>3, <2>5 DEF LeaseInvariant, Queue, Theirs, ForLease
  <2>8. Ordered(d.jobs)
    <3> SUFFICES ASSUME NEW i \in DOMAIN d.jobs, NEW j \in DOMAIN d.jobs,
                        i < j, ForLease(d.jobs[i]), ForLease(d.jobs[j])
                 PROVE  d.jobs[i].kind = "quiesce" /\ d.jobs[j].kind = "fence"
      BY DEF Ordered
    <3>1. i \in Nat /\ j \in Nat /\ Len(c.jobs) \in Nat
      BY <2>1, <2>3, Appended
    <3>2. i # Len(c.jobs) + 1
      BY <2>4, <3>1
    <3>3. i \in DOMAIN c.jobs /\ d.jobs[i] = c.jobs[i] /\ c.jobs[i].kind # "fence"
      BY <2>4, <3>2
    <3>4. CASE j = Len(c.jobs) + 1
      BY <2>1, <2>4, <3>1, <3>3, <3>4 DEF ForLease
    <3>5. CASE j \in DOMAIN c.jobs /\ d.jobs[j] = c.jobs[j]
      BY <3>3, <3>5 DEF LeaseInvariant, Queue, Ordered
    <3> QED BY <2>4, <3>4, <3>5
  <2>9. Before(heard, d.jobs)
    BY <2>1, <2>4, <2>5 DEF LeaseInvariant, Queue, Before, ForLease
  <2>10. Without("quiesce", d.jobs) => Without("quiesce", c.jobs)
    BY <2>1, <2>3, Appended DEF Without
  <2>11. Without("open", c.jobs) => Without("open", d.jobs)
    BY <2>1, <2>4 DEF Without
  <2>12. LeaseInvariant(d, heard, hold)
    <3>1. d.interlock => Shut(d, hold)
      BY <2>3, <2>11 DEF LeaseInvariant, Shut
    <3>2. Held(d, hold)
      BY <1>3, <2>3, <2>10, <2>11 DEF LeaseInvariant, Exclusive, Held
    <3>3. Queue(d, heard)
      BY <2>6, <2>7, <2>8, <2>9 DEF LeaseInvariant, Queue
    <3> QED BY <2>3, <3>1, <3>2, <3>3 DEF LeaseInvariant
  <2> QED BY <2>3, <2>11, <2>12 DEF d
<1> QED BY <1>1, <1>2, <1>3

\* An interlock may come when all is shut.
LEMMA InterlockedKeeps ==
    ASSUME NEW L, 0 \in L, NEW c \in Controllers(L), NEW heard \in Seq(Jobs(L)),
           NEW hold \in {"open", "closed"}, LeaseInvariant(c, heard, hold),
           NEW active \in BOOLEAN, active => c.interlock \/ Shut(c, hold)
    PROVE  /\ Interlocked(c, active) \in Controllers(L)
           /\ LeaseInvariant(Interlocked(c, active), heard, hold)
           /\ Interlocked(c, active).interlock = active
           /\ Interlocked(c, active).lease = c.lease /\ Interlocked(c, active).pending = c.pending
           /\ Interlocked(c, active).connected = c.connected
           /\ Interlocked(c, active).jobs = c.jobs
<1> DEFINE d == Interlocked(c, active)
<1>1. /\ d \in Controllers(L) /\ d.lease = c.lease /\ d.pending = c.pending /\ d.op = c.op
      /\ d.interlock = active /\ d.connected = c.connected /\ d.jobs = c.jobs
  BY DEF Interlocked, Controllers
<1> HIDE DEF d
<1>2. LeaseInvariant(d, heard, hold)
  BY <1>1 DEF LeaseInvariant, Queue, Theirs, Exclusive, Held, Shut
<1> QED BY <1>1, <1>2 DEF d

\* resumeAfterFirmwareRecoveryAcknowledgement connects, or is remembered under
\* a lease.
LEMMA ResumedKeeps ==
    ASSUME NEW L, 0 \in L, NEW c \in Controllers(L), NEW heard \in Seq(Jobs(L)),
           NEW hold \in {"open", "closed"}, LeaseInvariant(c, heard, hold)
    PROVE  /\ ResumedAfterAcknowledgement(c) \in Controllers(L)
           /\ LeaseInvariant(ResumedAfterAcknowledgement(c), heard, hold)
           /\ ResumedAfterAcknowledgement(c).interlock = c.interlock
<1> DEFINE d == ResumedAfterAcknowledgement(c)
<1>1. CASE c.interlock
  BY <1>1 DEF ResumedAfterAcknowledgement
<1>2. CASE ~c.interlock /\ Exclusive(c)
  <2>1. d = [c EXCEPT !.reconnect = TRUE]
    BY <1>2 DEF ResumedAfterAcknowledgement
  <2>2. /\ d \in Controllers(L) /\ d.lease = c.lease /\ d.pending = c.pending /\ d.op = c.op
        /\ d.interlock = c.interlock /\ d.connected = c.connected /\ d.jobs = c.jobs
    BY <2>1 DEF Controllers
  <2> HIDE DEF d
  <2>3. LeaseInvariant(d, heard, hold)
    BY <2>2 DEF LeaseInvariant, Queue, Theirs, Exclusive, Held, Shut
  <2> QED BY <2>2, <2>3 DEF d
<1>3. CASE ~c.interlock /\ ~Exclusive(c)
  <2>1. d = Connected(c)
    BY <1>3 DEF ResumedAfterAcknowledgement
  <2> QED BY <2>1, ConnectedKeeps
<1> QED BY <1>1, <1>2, <1>3

\* An answer is taken from the worker's.
LEMMA ToldLess ==
    ASSUME NEW L, NEW c, NEW heard \in Seq(Jobs(L)), NEW hold,
           heard # <<>>, LeaseInvariant(c, heard, hold)
    PROVE  /\ Tail(heard) \in Seq(Jobs(L)) /\ LeaseInvariant(c, Tail(heard), hold)
           /\ Without("quiesce", heard) => Without("quiesce", Tail(heard))
<1> DEFINE less == Tail(heard)
<1>1. /\ less \in Seq(Jobs(L))
      /\ \A i \in DOMAIN less : i \in Nat /\ i + 1 \in DOMAIN heard /\ less[i] = heard[i + 1]
  BY Tailed
<1> HIDE DEF less
<1>2. Theirs(c, less)
  BY <1>1 DEF LeaseInvariant, Queue, Theirs
<1>3. Ordered(less)
  <2>1. \A i, j \in Nat : i < j => i + 1 < j + 1
    OBVIOUS
  <2> QED BY <1>1, <2>1 DEF LeaseInvariant, Queue, Ordered
<1>4. Before(less, c.jobs)
  BY <1>1 DEF LeaseInvariant, Queue, Before
<1>5. Without("quiesce", heard) => Without("quiesce", less)
  BY <1>1 DEF Without
<1> QED BY <1>1, <1>2, <1>3, <1>4, <1>5 DEF LeaseInvariant, Queue, less

\* When the closing is heard of no other is on its way.
LEMMA QuiescedKeeps ==
    ASSUME NEW L, 0 \in L, NEW c \in Controllers(L), NEW heard \in Seq(Jobs(L)),
           NEW hold \in {"open", "closed"}, LeaseInvariant(c, heard, hold),
           heard # <<>>, Head(heard).kind = "quiesce"
    PROVE  /\ Quiesced(c) \in Controllers(L) /\ LeaseInvariant(Quiesced(c), Tail(heard), hold)
           /\ Quiesced(c).lease = c.lease /\ Quiesced(c).pending = c.pending
           /\ Quiesced(c).interlock = c.interlock
           /\ c.pending = 0 => Quiet(Quiesced(c), Tail(heard))
<1> DEFINE d == Quiesced(c)
<1>1. /\ d \in Controllers(L) /\ d.lease = c.lease /\ d.pending = c.pending /\ d.op = c.op
      /\ d.interlock = c.interlock /\ ~d.connected /\ d.jobs = c.jobs
  BY DEF Quiesced, Controllers
<1> HIDE DEF d
<1>2. LeaseInvariant(c, Tail(heard), hold)
  BY ToldLess
<1>3. LeaseInvariant(d, Tail(heard), hold)
  BY <1>1, <1>2 DEF LeaseInvariant, Queue, Theirs, Exclusive, Held, Shut
<1>4. /\ 1 \in DOMAIN heard /\ heard[1] = Head(heard)
      /\ \A i \in DOMAIN Tail(heard) : i + 1 \in DOMAIN heard /\ Tail(heard)[i] = heard[i + 1] /\ 1 < i + 1
  BY Tailed
<1>5. Exclusive(c)
  BY <1>4 DEF LeaseInvariant, Queue, Theirs, ForLease, Exclusive
<1>6. Without("quiesce", c.jobs)
  BY <1>4 DEF LeaseInvariant, Queue, Before, ForLease, Without
<1>7. Without("quiesce", Tail(heard))
  BY <1>4 DEF LeaseInvariant, Queue, Ordered, ForLease, Without
<1>8. c.pending = 0 => Quiet(d, Tail(heard))
  BY <1>1, <1>5, <1>6, <1>7 DEF Quiet, Exclusive
<1> QED BY <1>1, <1>3, <1>8 DEF d

\* The fence ends the lease: nothing of it is on its way any more.
LEMMA FenceReachedKeeps ==
    ASSUME NEW L, 0 \in L, NEW c \in Controllers(L), NEW heard \in Seq(Jobs(L)),
           NEW hold \in {"open", "closed"}, LeaseInvariant(c, heard, hold),
           heard # <<>>, Head(heard).kind = "fence"
    PROVE  /\ FenceReached(c, Head(heard).lease) \in Controllers(L)
           /\ LeaseInvariant(FenceReached(c, Head(heard).lease), Tail(heard), hold)
           /\ c.pending # 0
           /\ FenceReached(c, Head(heard).lease).interlock = c.interlock
<1> DEFINE lease == Head(heard).lease
           d == FenceReached(c, lease)
           free == [c EXCEPT !.lease = 0, !.pending = 0, !.resume = FALSE,
                             !.resumeAuto = FALSE, !.reconnect = FALSE]
<1>1. /\ 1 \in DOMAIN heard /\ heard[1] = Head(heard)
      /\ \A i \in DOMAIN Tail(heard) : i + 1 \in DOMAIN heard /\ Tail(heard)[i] = heard[i + 1] /\ 1 < i + 1
  BY Tailed
<1>2. lease = c.lease /\ lease = c.pending /\ c.lease # 0
  BY <1>1 DEF LeaseInvariant, Queue, Theirs, ForLease
<1>3. \A i \in DOMAIN c.jobs : ~ForLease(c.jobs[i])
  BY <1>1 DEF LeaseInvariant, Queue, Before, ForLease
<1>4. \A i \in DOMAIN Tail(heard) : ~ForLease(Tail(heard)[i])
  BY <1>1 DEF LeaseInvariant, Queue, Ordered, ForLease
<1>5. /\ free \in Controllers(L) /\ free.lease = 0 /\ free.pending = 0 /\ free.op = c.op
      /\ free.interlock = c.interlock /\ free.connected = c.connected /\ free.jobs = c.jobs
  BY DEF Controllers
<1>6. d = Connected(free) \/ d = [free EXCEPT !.auto = FALSE]
  BY <1>2 DEF FenceReached
<1> HIDE DEF d, free, lease
<1>7. ASSUME NEW e \in Controllers(L), e.lease = 0, e.pending = 0,
             e.interlock = c.interlock, e.connected = c.connected, e.jobs = c.jobs
      PROVE  LeaseInvariant(e, Tail(heard), hold)
  <2>1. Queue(e, Tail(heard))
    BY <1>3, <1>4, <1>7 DEF Queue, Theirs, Ordered, Before, ForLease
  <2>2. e.interlock => Shut(e, hold)
    BY <1>7 DEF LeaseInvariant, Shut
  <2> QED BY <1>7, <2>1, <2>2 DEF LeaseInvariant, Exclusive
<1>8. LeaseInvariant(free, Tail(heard), hold)
  BY <1>5, <1>7
<1>9. Tail(heard) \in Seq(Jobs(L))
  BY Tailed
<1>10. CASE d = Connected(free)
  BY ZenonT(60), <1>2, <1>5, <1>8, <1>9, <1>10, ConnectedKeeps DEF d, lease
<1>11. CASE d = [free EXCEPT !.auto = FALSE]
  <2>1. /\ d \in Controllers(L) /\ d.lease = 0 /\ d.pending = 0
        /\ d.interlock = c.interlock /\ d.connected = c.connected /\ d.jobs = c.jobs
    BY <1>5, <1>11 DEF Controllers
  <2>2. LeaseInvariant(d, Tail(heard), hold)
    BY <1>7, <2>1
  <2> QED BY <1>2, <2>1, <2>2 DEF d, lease
<1> QED BY <1>6, <1>10, <1>11

\* A command's answer.
LEMMA OperatedKeeps ==
    ASSUME NEW L, NEW c \in Controllers(L), NEW heard, NEW hold, LeaseInvariant(c, heard, hold)
    PROVE  /\ [c EXCEPT !.op = FALSE] \in Controllers(L)
           /\ LeaseInvariant([c EXCEPT !.op = FALSE], heard, hold)
           /\ Quiet(c, heard) => Quiet([c EXCEPT !.op = FALSE], heard)
<1> DEFINE d == [c EXCEPT !.op = FALSE]
<1>1. /\ d \in Controllers(L) /\ d.lease = c.lease /\ d.pending = c.pending /\ ~d.op
      /\ d.interlock = c.interlock /\ d.connected = c.connected /\ d.jobs = c.jobs
  BY DEF Controllers
<1> HIDE DEF d
<1>2. LeaseInvariant(d, heard, hold)
  BY <1>1 DEF LeaseInvariant, Queue, Theirs, Exclusive, Held, Shut
<1>3. Quiet(c, heard) => Quiet(d, heard)
  BY <1>1 DEF Quiet, Exclusive
<1> QED BY <1>1, <1>2, <1>3 DEF d

-----------------------------------------------------------------------------
(* The worker                                                                 *)

Worked(c) == [c EXCEPT !.jobs = Tail(@)]

\* The answers after a job, which may be heard or not.
Tells(job, heard, more) == more \in {heard, Append(heard, job)}

\* The session's hold of the device after a job: only an opening may take it.
Holds(job, hold, now) ==
    /\ now \in {"open", "closed"}
    /\ now # "closed" => job.kind = "open" \/ now = hold
    /\ job.kind = "quiesce" => now = "closed"

\* The worker does its first job; a session is opened by a job that says so.
LEMMA WorkedKeeps ==
    ASSUME NEW L, 0 \in L, NEW c \in Controllers(L), NEW heard \in Seq(Jobs(L)),
           NEW hold \in {"open", "closed"}, LeaseInvariant(c, heard, hold), c.jobs # <<>>,
           NEW more, Tells(Head(c.jobs), heard, more), NEW now, Holds(Head(c.jobs), hold, now)
    PROVE  /\ Worked(c) \in Controllers(L) /\ more \in Seq(Jobs(L))
           /\ LeaseInvariant(Worked(c), more, now)
           /\ Quiet(c, heard) => Quiet(Worked(c), more)
<1> DEFINE d == Worked(c)
           job == Head(c.jobs)
<1>1. c.jobs \in Seq(Jobs(L))
  BY DEF Controllers
<1>2. /\ Tail(c.jobs) \in Seq(Jobs(L)) /\ job \in Jobs(L) /\ 1 \in DOMAIN c.jobs /\ c.jobs[1] = job
      /\ \A i \in DOMAIN Tail(c.jobs) :
            i \in Nat /\ i + 1 \in DOMAIN c.jobs /\ Tail(c.jobs)[i] = c.jobs[i + 1] /\ 1 < i + 1
      /\ \A i \in DOMAIN c.jobs :
            i \in Nat /\ (i = 1 \/ (i - 1 \in DOMAIN Tail(c.jobs) /\ Tail(c.jobs)[i - 1] = c.jobs[i]))
  BY <1>1, Tailed
<1>3. /\ d \in Controllers(L) /\ d.lease = c.lease /\ d.pending = c.pending /\ d.op = c.op
      /\ d.interlock = c.interlock /\ d.connected = c.connected /\ d.jobs = Tail(c.jobs)
  BY <1>2 DEF Controllers, Worked
<1>4. /\ more \in Seq(Jobs(L))
      /\ \A i \in DOMAIN more :
            \/ i \in DOMAIN heard /\ more[i] = heard[i] /\ i < Len(heard) + 1
            \/ i = Len(heard) + 1 /\ more[i] = job
      /\ DOMAIN more \subseteq Nat /\ Len(heard) + 1 \in Nat
  <2>1. Len(heard) + 1 \in Nat /\ \A i \in DOMAIN heard : i \in Nat /\ i < Len(heard) + 1
    OBVIOUS
  <2>0. more \in {heard, Append(heard, job)}
    BY DEF Tells
  <2>2. CASE more = heard
    BY <2>1, <2>2
  <2>3. CASE more = Append(heard, job)
    <3> HIDE DEF job
    <3>1. /\ more \in Seq(Jobs(L)) /\ DOMAIN more = 1 .. (Len(heard) + 1)
          /\ \A i \in DOMAIN heard : more[i] = heard[i]
          /\ more[Len(heard) + 1] = job
          /\ \A i \in DOMAIN more : i \in DOMAIN heard \/ i = Len(heard) + 1
      BY <1>2, <2>3, Appended
    <3> QED BY <2>1, <3>1
  <2> QED BY <2>0, <2>2, <2>3
<1> HIDE DEF d, job
<1>4a. /\ \A i \in DOMAIN d.jobs :
            i \in Nat /\ i + 1 \in DOMAIN c.jobs /\ d.jobs[i] = c.jobs[i + 1]
      /\ \A i \in DOMAIN c.jobs :
            c.jobs[i] = job \/ (i - 1 \in DOMAIN d.jobs /\ d.jobs[i - 1] = c.jobs[i])
  BY <1>2, <1>3
<1>5. Theirs(d, d.jobs)
  BY <1>2, <1>3 DEF LeaseInvariant, Queue, Theirs
<1>6. Theirs(d, more)
  BY <1>2, <1>3, <1>4 DEF LeaseInvariant, Queue, Theirs
<1>7. Ordered(d.jobs)
  <2>1. \A i, j \in Nat : i < j => i + 1 < j + 1
    OBVIOUS
  <2>2. Ordered(c.jobs)
    BY DEF LeaseInvariant, Queue
  <2> QED BY <1>4a, <2>1, <2>2 DEF Ordered
<1>8. Ordered(more)
  <2> SUFFICES ASSUME NEW i \in DOMAIN more, NEW j \in DOMAIN more,
                      i < j, ForLease(more[i]), ForLease(more[j])
               PROVE  more[i].kind = "quiesce" /\ more[j].kind = "fence"
    BY DEF Ordered
  <2>1. i # Len(heard) + 1
    BY <1>4
  <2>2. i \in DOMAIN heard /\ more[i] = heard[i]
    BY <1>4, <2>1
  <2>3. CASE j \in DOMAIN heard /\ more[j] = heard[j]
    BY <2>2, <2>3 DEF LeaseInvariant, Queue, Ordered
  <2>4. CASE j = Len(heard) + 1 /\ more[j] = job
    BY <1>2, <2>2, <2>4 DEF LeaseInvariant, Queue, Before
  <2> QED BY <1>4, <2>3, <2>4
<1>9. Before(more, d.jobs)
  <2> SUFFICES ASSUME NEW i \in DOMAIN more, NEW j \in DOMAIN d.jobs,
                      ForLease(more[i]), ForLease(d.jobs[j])
               PROVE  more[i].kind = "quiesce" /\ d.jobs[j].kind = "fence"
    BY DEF Before
  <2>1. j + 1 \in DOMAIN c.jobs /\ d.jobs[j] = c.jobs[j + 1] /\ 1 < j + 1
    BY <1>2, <1>3
  <2>2. CASE i \in DOMAIN heard /\ more[i] = heard[i]
    BY <2>1, <2>2 DEF LeaseInvariant, Queue, Before
  <2>3. CASE more[i] = job
    BY <1>2, <2>1, <2>3 DEF LeaseInvariant, Queue, Ordered
  <2> QED BY <1>4, <2>2, <2>3
<1>10. Without("open", c.jobs) => Without("open", d.jobs) /\ job.kind # "open"
  BY <1>2, <1>3 DEF Without
<1>11. Without("quiesce", d.jobs) => Without("quiesce", c.jobs) \/ job.kind = "quiesce"
  BY <1>4a DEF Without
<1>12. Exclusive(c) => Held(d, now)
  BY <1>3, <1>10, <1>11 DEF LeaseInvariant, Held, Holds, job
<1>13. c.interlock => Shut(d, now)
  BY <1>3, <1>10 DEF LeaseInvariant, Shut, Holds, job
<1>14. LeaseInvariant(d, more, now)
  BY <1>3, <1>5, <1>6, <1>7, <1>8, <1>9, <1>12, <1>13 DEF LeaseInvariant, Queue, Exclusive
<1>15. Without("quiesce", c.jobs) => Without("quiesce", d.jobs) /\ job.kind # "quiesce"
  BY <1>2, <1>3 DEF Without
<1>16. Quiet(c, heard) => Quiet(d, more)
  BY <1>3, <1>4, <1>15 DEF Quiet, Without, Exclusive
<1> QED BY <1>3, <1>4, <1>14, <1>16 DEF d

-----------------------------------------------------------------------------
(* What the invariant is for                                                  *)

\* Behind a closing there is no opening, since under a lease there is none.
LEMMA NothingBehindQuiesce ==
    ASSUME NEW c, NEW heard, NEW hold, LeaseInvariant(c, heard, hold)
    PROVE  \A i, j \in DOMAIN c.jobs :
               i < j /\ c.jobs[i].kind = "quiesce" => c.jobs[j].kind # "open"
BY DEF LeaseInvariant, Queue, Theirs, ForLease, Exclusive, Held, Without

-----------------------------------------------------------------------------
(* The updater's steps                                                        *)

UpdaterTypes == upd \in Updaters /\ bench \in Benches

\* The invariant of a step that only changes what the updater is at.
LEMMA KeptBench ==
    ASSUME UpdaterTypes, UpdaterInvariant, upd.step # "Idle",
           NEW v \in Updaters, upd' = v, UNCHANGED <<bench, events>>,
           v.step # "Idle", v.irr = upd.irr, v.attempt = upd.attempt, Fits(v, bench)
    PROVE  UpdaterTypes' /\ UpdaterInvariant' /\ GoesOn
BY DEF UpdaterTypes, UpdaterInvariant, GoesOn

\* A program that is started changes nothing else of the updater.
LikeWritten(u, v) ==
    /\ v.irr = u.irr /\ v.attempt = u.attempt /\ v.loader = u.loader /\ v.next = u.next
    /\ v.parts = u.parts /\ v.back = u.back /\ v.poll = u.poll /\ v.polls = u.polls
    /\ v.cut = u.cut

LEMMA LaunchedAlike ==
    ASSUME NEW u \in Updaters, NEW step \in Steps
    PROVE  Launched(u, step) \in Updaters /\ Launched(u, step).step = step /\ LikeWritten(u, Launched(u, step))
<1> DEFINE v == [u EXCEPT !.step = step, !.run = "timed"]
<1>1. v \in Updaters
  BY DEF Updaters, Runs
<1>2. v.step = step /\ LikeWritten(u, v)
  BY DEF Updaters, LikeWritten
<1> QED BY <1>1, <1>2 DEF Launched

LEMMA GoKeeps ==
    ASSUME UpdaterTypes, UpdaterInvariant, upd.step # "Idle",
           NEW u \in Updaters, NEW step \in Steps \ {"Idle"},
           Go(u, step), u.irr = upd.irr, u.attempt = upd.attempt,
           Fits(Launched(u, step), bench)
    PROVE  UpdaterTypes' /\ UpdaterInvariant' /\ GoesOn
<1>1. upd' = Launched(u, step) /\ UNCHANGED <<bench, events>>
  BY DEF Go
<1>2. Launched(u, step) \in Updaters /\ Launched(u, step).step = step /\ LikeWritten(u, Launched(u, step))
  BY LaunchedAlike
<1> QED BY <1>1, <1>2, KeptBench DEF LikeWritten

\* fail and complete: the updater is at rest.
LEMMA RestIsFit ==
    ASSUME NEW irr \in BOOLEAN, NEW v, v = [Rest EXCEPT !.irr = irr] \/ (irr = FALSE /\ v = Rest)
    PROVE  v \in Updaters /\ v.step = "Idle" /\ v.irr = irr /\ \A b : Fits(v, b)
<1>1. 0 \in 0 .. Partitions /\ 0 \in 0 .. MaxPolls /\ "Idle" \in Steps /\ 0 \in Nat
  BY UpdaterAssumption DEF Steps
<1>2. v \in Updaters /\ v.step = "Idle" /\ v.irr = irr /\ v.poll = FALSE /\ v.run = "ended"
  <2>1. CASE v = Rest /\ irr = FALSE
    BY <1>1, <2>1 DEF Rest, Updaters, Runs
  <2>2. CASE v = [Rest EXCEPT !.irr = irr]
    BY <1>1, <2>2 DEF Rest, Updaters, Runs
  <2> QED BY <2>1, <2>2
<1>3. \A b : Fits(v, b)
  BY <1>2 DEF Fits, Irreversible, Writes
<1> QED BY <1>2, <1>3

LEMMA EndedKeeps ==
    ASSUME UpdaterTypes, UpdaterInvariant, upd.step # "Idle",
           NEW ok \in BOOLEAN, Ended(ok), ok => upd.irr,
           bench' \in Benches, bench'.touched = bench.touched,
           \A u \in Units : Finishes(bench'.display[u])
    PROVE  UpdaterTypes' /\ UpdaterInvariant' /\ Ends
<1>1. /\ upd' = [Rest EXCEPT !.irr = upd.irr] /\ events' = Append(events, Finished(ok))
      /\ upd.irr \in BOOLEAN
  BY DEF Ended, UpdaterTypes, Updaters
<1>2. upd' \in Updaters /\ upd'.step = "Idle" /\ upd'.irr = upd.irr /\ Fits(upd', bench')
  BY <1>1, RestIsFit
<1> QED BY <1>1, <1>2 DEF UpdaterTypes, UpdaterInvariant, Ends

LEMMA FailKeeps ==
    ASSUME UpdaterTypes, UpdaterInvariant, upd.step # "Idle", Fail
    PROVE  UpdaterTypes' /\ UpdaterInvariant' /\ Ends
<1>1. Ended(FALSE) /\ bench' = bench
  BY DEF Fail
<1> QED BY <1>1, EndedKeeps DEF UpdaterTypes, UpdaterInvariant

\* Before the loader is found.
LEMMA EarlySteps ==
    ASSUME UpdaterTypes, UpdaterInvariant,
           Extracted \/ IdentifiedByAdb \/ NotSeenByAdb \/ Pushed
    PROVE  UpdaterTypes' /\ UpdaterInvariant' /\ GoesOn
<1>1. PICK u \in Updaters, step \in {"Identify", "PushPackage", "RebootLoader", "DetectLoader", "VerifyRemote"} :
        /\ Go(u, step) /\ upd.step # "Idle"
        /\ u \in {upd, [upd EXCEPT !.serial = bench.unit]}
        /\ upd.step \in {"ExtractRockchipPackage", "Identify", "PushPackage"}
  <2>1. upd \in Updaters /\ [upd EXCEPT !.serial = bench.unit] \in Updaters
    BY DEF UpdaterTypes, Updaters, Benches
  <2> QED BY <2>1 DEF Extracted, IdentifiedByAdb, NotSeenByAdb, Pushed
<1>2. LikeWritten(upd, u)
  BY <1>1 DEF UpdaterTypes, Updaters, LikeWritten
<1>3. step \in Steps \ {"Idle"}
  BY DEF Steps, Writes
<1> DEFINE v == Launched(u, step)
<1>4. v.step = step /\ LikeWritten(u, v)
  BY <1>3, LaunchedAlike
<1> HIDE DEF v
<1>5. LikeWritten(upd, v)
  BY <1>2, <1>4 DEF LikeWritten
<1>6. Fits(v, bench)
  <2>1. upd.step \notin {"FlashPartition", "WriteCompleteMarker", "RebootRockchip", "ConfirmLoader"}
    BY <1>1
  <2>2. Whole(upd) /\ (upd.poll => upd.polls < MaxPolls)
    BY <1>1, <2>1 DEF UpdaterInvariant, Fits, Progress, Writing
  <2>3. Whole(v) /\ (v.poll => v.polls < MaxPolls)
    BY <1>5, <2>2 DEF Whole, LikeWritten
  <2>4. v.step \notin Writes \cup {"ReadChipInfo", "ConfirmLoader", "RebootRecovery", "Idle"}
    BY <1>1, <1>4 DEF Writes
  <2>5. ASSUME NEW d PROVE Progress(v, d)
    BY <2>3, <2>4 DEF Progress, Writing, Writes
  <2> QED BY <2>3, <2>4, <2>5 DEF Fits, Irreversible, Writes
<1> QED BY <1>1, <1>2, <1>3, <1>6, GoKeeps DEF v, LikeWritten

\* The first command that changes the device.
LaunchedFirst(u, step) == [Launched(u, step) EXCEPT !.irr = TRUE]

LEMMA BeginsKeeps ==
    ASSUME UpdaterTypes, UpdaterInvariant, upd.step # "Idle",
           NEW u \in Updaters, NEW step \in {"RebootRecovery", "WriteStartMarker"},
           GoIrreversible(u, step), u.attempt = upd.attempt,
           Fits(LaunchedFirst(u, step), bench)
    PROVE  UpdaterTypes' /\ UpdaterInvariant' /\ Touches
<1>1. /\ upd' = [Launched(u, step) EXCEPT !.irr = TRUE]
      /\ bench' = [bench EXCEPT !.touched = upd.attempt]
      /\ events' = Append(events, IrreversibleStarted)
  BY DEF GoIrreversible
<1>2. step \in Steps /\ step # "Idle"
  BY DEF Steps, Writes
<1>3. Launched(u, step) \in Updaters /\ Launched(u, step).step = step /\ LikeWritten(u, Launched(u, step))
  BY <1>2, LaunchedAlike
<1>4. upd' \in Updaters /\ upd'.step # "Idle" /\ upd'.irr /\ upd'.attempt = upd.attempt
  BY <1>1, <1>2, <1>3 DEF Updaters, LikeWritten
<1>5. bench' \in Benches /\ bench'.display = bench.display /\ bench'.unit = bench.unit
      /\ bench'.touched = upd.attempt
  BY <1>1 DEF UpdaterTypes, Updaters, Benches
<1>6. Fits(upd', bench')
  <2>1. Fits(upd', bench)
    BY <1>1 DEF LaunchedFirst
  <2> QED BY <1>5, <2>1 DEF Fits
<1> QED BY <1>1, <1>4, <1>5, <1>6 DEF UpdaterTypes, UpdaterInvariant, Touches

\* It starts, and nothing else changes but that it has.
LEMMA BegunAlike ==
    ASSUME NEW u \in Updaters, NEW step \in Steps
    PROVE  /\ LaunchedFirst(u, step).step = step /\ LaunchedFirst(u, step).irr
           /\ LikeWritten([u EXCEPT !.irr = TRUE], LaunchedFirst(u, step))
<1> DEFINE w == Launched(u, step)
<1>1. w \in Updaters /\ w.step = step /\ LikeWritten(u, w)
  BY LaunchedAlike
<1> HIDE DEF w
<1>2. [w EXCEPT !.irr = TRUE].step = step /\ [w EXCEPT !.irr = TRUE].irr
      /\ LikeWritten([u EXCEPT !.irr = TRUE], [w EXCEPT !.irr = TRUE])
  BY <1>1 DEF Updaters, LikeWritten
<1> QED BY <1>2 DEF w, LaunchedFirst

\* The steps of a legacy package, pushed and applied by the recovery of the
\* device.
LEMMA RecoverySteps ==
    ASSUME UpdaterTypes, UpdaterInvariant, RemoteVerified \/ RecoveryRebooted
    PROVE  UpdaterTypes' /\ UpdaterInvariant' /\ (GoesOn \/ Touches \/ Ends)
<1>1. CASE RemoteVerified
  <2>1. upd.step = "VerifyRemote" /\ Begin(upd, "RebootRecovery") /\ upd \in Updaters
    BY <1>1 DEF RemoteVerified, UpdaterTypes
  <2>2. Whole(upd) /\ (upd.poll => upd.polls < MaxPolls)
    BY <2>1 DEF UpdaterInvariant, Fits, Progress, Writing
  <2>3. ASSUME NEW v, v.step = "RebootRecovery", v.irr, v.loader = upd.loader,
               v.parts = upd.parts, v.back = upd.back, v.poll = upd.poll, v.polls = upd.polls
        PROVE  Fits(v, bench)
    BY <2>2, <2>3 DEF Fits, Irreversible, Progress, Writing, Writes, Whole
  <2>4. "RebootRecovery" \in Steps \ {"Idle"} /\ "RebootRecovery" \in Steps
    BY DEF Steps
  <2>5. CASE ~upd.irr
    <3> DEFINE v == LaunchedFirst(upd, "RebootRecovery")
    <3>1. /\ v.step = "RebootRecovery" /\ v.irr /\ v.loader = upd.loader /\ v.parts = upd.parts
          /\ v.back = upd.back /\ v.poll = upd.poll /\ v.polls = upd.polls
      <4>1. v.step = "RebootRecovery" /\ v.irr /\ LikeWritten([upd EXCEPT !.irr = TRUE], v)
        BY <2>1, <2>4, BegunAlike
      <4> HIDE DEF v
      <4> QED BY <2>1, <4>1 DEF LikeWritten, Updaters
    <3>2. Fits(v, bench)
      <4> HIDE DEF v
      <4> QED BY <2>3, <3>1
    <3>3. GoIrreversible(upd, "RebootRecovery")
      BY <2>1, <2>5 DEF Begin
    <3> QED BY <2>1, <3>2, <3>3, BeginsKeeps
  <2>6. CASE upd.irr
    <3> DEFINE v == Launched(upd, "RebootRecovery")
    <3>1. v.step = "RebootRecovery" /\ LikeWritten(upd, v)
      BY <2>1, <2>4, LaunchedAlike
    <3>2. Fits(v, bench)
      <4> HIDE DEF v
      <4> QED BY <2>3, <2>6, <3>1 DEF LikeWritten
    <3>3. Go(upd, "RebootRecovery")
      BY <2>1, <2>6 DEF Begin
    <3> QED BY <2>1, <2>4, <3>2, <3>3, GoKeeps
  <2> QED BY <2>5, <2>6
<1>2. CASE RecoveryRebooted
  <2>1. upd.irr /\ upd.step # "Idle" /\ Ended(TRUE) /\ bench' = bench
    BY <1>2 DEF RecoveryRebooted, Complete, UpdaterInvariant, Fits, Irreversible
  <2> QED BY <2>1, EndedKeeps DEF UpdaterTypes, UpdaterInvariant
<1> QED BY <1>1, <1>2

\* A timer or the end of a program changes what runs and what the poll does, and the
\* step stays.
LEMMA SameStep ==
    ASSUME UpdaterTypes, UpdaterInvariant, upd.step # "Idle",
           NEW v \in Updaters, upd' = v, UNCHANGED <<bench, events>>, v.step = upd.step,
           v.irr = upd.irr, v.attempt = upd.attempt, v.loader = upd.loader, v.next = upd.next,
           v.parts = upd.parts, v.back = upd.back, v.cut = upd.cut, v.poll => v.polls < MaxPolls
    PROVE  UpdaterTypes' /\ UpdaterInvariant' /\ GoesOn
<1>1. ASSUME NEW d PROVE Progress(upd, d) => Progress(v, d)
  BY DEF Progress, Writing, Whole
<1>2. Whole(upd) => Whole(v)
  BY DEF Whole
<1>3. Fits(v, bench)
  BY <1>1, <1>2 DEF UpdaterInvariant, Fits, Irreversible
<1> QED BY <1>3, KeptBench

\* The loader is looked for, again and again.
LEMMA ScheduleKeeps ==
    ASSUME UpdaterTypes, UpdaterInvariant, upd.step # "Idle", NEW run \in Runs, ScheduleLoaderPoll(run)
    PROVE  UpdaterTypes' /\ UpdaterInvariant' /\ (GoesOn \/ Ends)
<1>1. CASE upd.polls >= MaxPolls
  BY <1>1, FailKeeps DEF ScheduleLoaderPoll
<1>2. CASE ~(upd.polls >= MaxPolls)
  <2> DEFINE v == [upd EXCEPT !.run = run, !.poll = TRUE]
  <2>1. upd' = v /\ UNCHANGED <<bench, events>>
    BY <1>2 DEF ScheduleLoaderPoll
  <2>2. upd.polls < MaxPolls
    BY <1>2, UpdaterAssumption DEF UpdaterTypes, Updaters
  <2>3. /\ v \in Updaters /\ v.step = upd.step /\ v.irr = upd.irr /\ v.attempt = upd.attempt
        /\ v.loader = upd.loader /\ v.next = upd.next /\ v.parts = upd.parts /\ v.back = upd.back
        /\ v.cut = upd.cut /\ v.polls = upd.polls
    BY DEF UpdaterTypes, Updaters
  <2> HIDE DEF v
  <2> QED BY <2>1, <2>2, <2>3, SameStep
<1> QED BY <1>1, <1>2

LEMMA PollingSteps ==
    ASSUME UpdaterTypes, UpdaterInvariant, LoaderRebooted \/ NoLoaderYet
    PROVE  UpdaterTypes' /\ UpdaterInvariant' /\ (GoesOn \/ Ends)
BY ScheduleKeeps DEF LoaderRebooted, NoLoaderYet, Runs

\* onStepTimedOut
LEMMA StepTimesOutKeeps ==
    ASSUME UpdaterTypes, UpdaterInvariant, StepTimesOut
    PROVE  UpdaterTypes' /\ UpdaterInvariant' /\ (GoesOn \/ Ends)
<1>1. upd.step # "Idle"
  BY DEF StepTimesOut, UpdaterInvariant, Fits
<1>2. CASE upd.step = "DetectLoader"
  <2>1. ScheduleLoaderPoll("late") /\ "late" \in Runs
    BY <1>2 DEF StepTimesOut, MayNotBeStopped, Writes, Runs
  <2> QED BY <1>1, <2>1, ScheduleKeeps
<1>3. CASE upd.step # "DetectLoader" /\ MayNotBeStopped(upd.step)
  <2> DEFINE v == [upd EXCEPT !.run = "late"]
  <2>1. upd' = v /\ UNCHANGED <<bench, events>>
    BY <1>3 DEF StepTimesOut, MayNotBeStopped, Writes
  <2>2. /\ v \in Updaters /\ v.step = upd.step /\ v.irr = upd.irr /\ v.attempt = upd.attempt
        /\ v.loader = upd.loader /\ v.next = upd.next /\ v.parts = upd.parts /\ v.back = upd.back
        /\ v.cut = upd.cut /\ v.polls = upd.polls /\ v.poll = upd.poll
    BY DEF UpdaterTypes, Updaters, Runs
  <2>3. upd.poll => upd.polls < MaxPolls
    BY DEF UpdaterInvariant, Fits
  <2> HIDE DEF v
  <2> QED BY <1>1, <2>1, <2>2, <2>3, SameStep
<1>4. CASE upd.step # "DetectLoader" /\ ~MayNotBeStopped(upd.step)
  BY <1>1, <1>4, FailKeeps DEF StepTimesOut
<1> QED BY <1>2, <1>3, <1>4

\* The loader is found and asked for its chip.
LEMMA LoaderSteps ==
    ASSUME UpdaterTypes, UpdaterInvariant, LoaderDetected \/ ChipConfirmed
    PROVE  UpdaterTypes' /\ UpdaterInvariant' /\ (GoesOn \/ Ends)
<1>1. CASE LoaderDetected /\ LoaderFits(bench.unit, upd.serial)
  <2> DEFINE u == [upd EXCEPT !.loader = bench.unit]
             v == Launched(u, "ReadChipInfo")
  <2>1. bench.unit \in Units /\ bench.unit # None
    BY UpdaterAssumption DEF UpdaterTypes, Benches
  <2>2. /\ u \in Updaters /\ u.irr = upd.irr /\ u.attempt = upd.attempt /\ u.loader = bench.unit
        /\ u.parts = upd.parts /\ u.back = upd.back /\ u.poll = upd.poll /\ u.polls = upd.polls
    BY <2>1 DEF UpdaterTypes, Updaters
  <2>3. "ReadChipInfo" \in Steps \ {"Idle"}
    BY DEF Steps
  <2> HIDE DEF u
  <2>4. v.step = "ReadChipInfo" /\ LikeWritten(u, v)
    BY <2>2, <2>3, LaunchedAlike
  <2> HIDE DEF v
  <2>5. Whole(upd) /\ (upd.poll => upd.polls < MaxPolls) /\ upd.step # "Idle"
    BY <1>1 DEF LoaderDetected, UpdaterInvariant, Fits, Progress, Writing
  <2>6. Whole(v) /\ (v.poll => v.polls < MaxPolls) /\ v.loader # None
    BY <2>1, <2>2, <2>4, <2>5 DEF Whole, LikeWritten
  <2>7. Fits(v, bench)
    BY <2>4, <2>6 DEF Fits, Irreversible, Progress, Writing, Writes
  <2>8. Go(u, "ReadChipInfo")
    BY <1>1 DEF LoaderDetected, u
  <2> QED BY <2>2, <2>3, <2>5, <2>7, <2>8, GoKeeps DEF v
<1>2. CASE LoaderDetected /\ ~LoaderFits(bench.unit, upd.serial)
  BY <1>2, FailKeeps DEF LoaderDetected
<1>3. CASE ChipConfirmed
  <2> DEFINE u == [upd EXCEPT !.next = "WriteStartMarker"]
             v == Launched(u, "ConfirmLoader")
  <2>1. "WriteStartMarker" \in Writes
    BY DEF Writes
  <2>2. /\ u \in Updaters /\ u.irr = upd.irr /\ u.attempt = upd.attempt /\ u.loader = upd.loader
        /\ u.parts = upd.parts /\ u.back = upd.back /\ u.poll = upd.poll /\ u.polls = upd.polls
        /\ u.next = "WriteStartMarker"
    BY <2>1 DEF UpdaterTypes, Updaters
  <2>3. "ConfirmLoader" \in Steps \ {"Idle"}
    BY DEF Steps
  <2>4. Go(u, "ConfirmLoader") /\ upd.step = "ReadChipInfo"
    BY <1>3 DEF ChipConfirmed, Confirm
  <2> HIDE DEF u
  <2>5. v.step = "ConfirmLoader" /\ LikeWritten(u, v)
    BY <2>2, <2>3, LaunchedAlike
  <2> HIDE DEF v
  <2>6. Whole(upd) /\ (upd.poll => upd.polls < MaxPolls) /\ upd.loader # None
    BY <2>4 DEF UpdaterInvariant, Fits, Progress, Writing
  <2>7. Whole(v) /\ (v.poll => v.polls < MaxPolls) /\ v.loader # None /\ v.next = "WriteStartMarker"
    BY <2>2, <2>5, <2>6 DEF Whole, LikeWritten
  <2>8. Fits(v, bench)
    BY <2>1, <2>5, <2>7 DEF Fits, Irreversible, Progress, Writing, Writes
  <2> QED BY <2>2, <2>3, <2>4, <2>8, GoKeeps DEF v
<1> QED BY <1>1, <1>2, <1>3

\* A write begins on the display that was confirmed.
LEMMA ConfirmedSteps ==
    ASSUME UpdaterTypes, UpdaterInvariant, LoaderConfirmed
    PROVE  UpdaterTypes' /\ UpdaterInvariant' /\ (GoesOn \/ Touches \/ Ends)
<1>1. CASE ~SameLoader(bench.unit)
  BY <1>1, FailKeeps DEF LoaderConfirmed
<1>2. CASE SameLoader(bench.unit)
  <2> DEFINE u == [upd EXCEPT !.next = None, !.cut = FALSE]
  <2>1. upd.step = "ConfirmLoader" /\ Begin(u, upd.next) /\ bench.unit = upd.loader
    BY <1>2 DEF LoaderConfirmed, SameLoader
  <2>2. u \in Updaters /\ u.irr = upd.irr /\ u.attempt = upd.attempt /\ u.loader = upd.loader
        /\ u.parts = upd.parts /\ u.back = upd.back /\ u.poll = upd.poll /\ u.polls = upd.polls
    BY DEF UpdaterTypes, Updaters
  <2>3. upd.next \in Writes /\ upd.loader # None /\ Progress(upd, bench.display[upd.loader])
        /\ (upd.next # "WriteStartMarker" => upd.irr) /\ (upd.poll => upd.polls < MaxPolls)
    BY <2>1 DEF UpdaterInvariant, Fits, Irreversible
  <2>4. ASSUME NEW v, v.step = upd.next, v.loader = upd.loader, v.parts = upd.parts, v.irr,
               v.back = upd.back, v.poll = upd.poll, v.polls = upd.polls
        PROVE  Fits(v, bench)
    <3>1. Writing(v) = upd.next /\ Writing(upd) = upd.next
      BY <2>1, <2>3, <2>4 DEF Writing, Writes
    <3>2. Progress(v, bench.display[v.loader])
      BY <2>3, <2>4, <3>1 DEF Progress, Whole
    <3> QED BY <2>1, <2>3, <2>4, <3>2 DEF Fits, Irreversible, Writes
  <2>5. upd.next \in Steps \ {"Idle"}
    BY <2>3 DEF Steps, Writes
  <2> HIDE DEF u
  <2>6. CASE upd.next = "WriteStartMarker" /\ ~u.irr
    <3> DEFINE v == LaunchedFirst(u, "WriteStartMarker")
    <3>1. /\ v.step = upd.next /\ v.loader = upd.loader /\ v.parts = upd.parts /\ v.irr
          /\ v.back = upd.back /\ v.poll = upd.poll /\ v.polls = upd.polls
      <4>1. "WriteStartMarker" \in Steps
        BY DEF Steps, Writes
      <4>2. v.step = "WriteStartMarker" /\ v.irr /\ LikeWritten([u EXCEPT !.irr = TRUE], v)
        BY <2>2, <4>1, BegunAlike
      <4> HIDE DEF v
      <4> QED BY <2>2, <2>6, <4>2 DEF LikeWritten, Updaters
    <3>2. Fits(v, bench)
      <4> HIDE DEF v
      <4> QED BY <2>4, <3>1
    <3>3. GoIrreversible(u, "WriteStartMarker")
      BY <2>1, <2>6 DEF Begin
    <3> QED BY <2>1, <2>2, <3>2, <3>3, BeginsKeeps
  <2>7. CASE upd.next # "WriteStartMarker" \/ u.irr
    <3> DEFINE v == Launched(u, upd.next)
    <3>1. v.step = upd.next /\ LikeWritten(u, v)
      BY <2>2, <2>5, LaunchedAlike
    <3>2. u.irr
      BY <2>2, <2>3, <2>7
    <3>3. Fits(v, bench)
      <4> HIDE DEF v
      <4> QED BY <2>2, <2>4, <3>1, <3>2 DEF LikeWritten
    <3>4. Go(u, upd.next)
      BY <2>1, <2>7, <3>2 DEF Begin
    <3> QED BY <2>1, <2>2, <2>5, <3>3, <3>4, GoKeeps
  <2> QED BY <2>6, <2>7
<1> QED BY <1>1, <1>2

-----------------------------------------------------------------------------
(* Writes                                                                     *)

\* A write that is done leaves no display complete that is not.
LEMMA StoredKeeps ==
    ASSUME UpdaterTypes, UpdaterInvariant, upd.step \in Writes, ~upd.cut, Stored
    PROVE  /\ bench' \in Benches /\ bench'.touched = bench.touched /\ upd.loader \in Units
           /\ bench'.display[upd.loader] = Written(bench.display[upd.loader], upd)
           /\ \A u \in Units : Finishes(bench'.display[u])
<1> DEFINE d == bench.display[upd.loader]
           e == Written(d, upd)
<1>1. bench.unit = upd.loader /\ upd.loader \in Units /\ d \in Displays /\ Finishes(d)
      /\ Progress(upd, d) /\ Writing(upd) = upd.step
  BY DEF UpdaterTypes, UpdaterInvariant, Fits, Benches, Writing, Writes
<1>2. bench' = [bench EXCEPT !.display = [bench.display EXCEPT ![upd.loader] = e]]
  BY <1>1 DEF Stored
<1>3. e \in Displays /\ Finishes(e)
  <2>1. Untouched \in Displays
    BY UpdaterAssumption DEF Untouched, Displays, Markers
  <2>2. CASE upd.step = "WriteStartMarker"
    <3>1. Whole(upd)
      BY <1>1, <2>2 DEF Progress
    <3>2. e = [Untouched EXCEPT !.marker = "updating", !.from = upd.parts, !.back = upd.back]
      BY <2>2 DEF Written
    <3>3. upd.parts \in 0 .. Partitions /\ upd.back \in BOOLEAN
      BY DEF UpdaterTypes, Updaters
    <3>4. /\ e.marker = "updating" /\ e.from = upd.parts /\ e.back = upd.back
      BY <3>2 DEF Untouched
    <3>5. e \in Displays
      BY <2>1, <3>2, <3>3 DEF Displays, Markers
    <3> QED BY <3>1, <3>4, <3>5 DEF Finishes, Whole
  <2>3. CASE upd.step \in {"UpgradeLoader", "WriteGpt"}
    BY <1>1, <2>3 DEF Written, Displays, Markers, Finishes, Progress
  <2>4. CASE upd.step = "FlashPartition"
    <3>1. d.parts + upd.parts + 1 = d.from /\ d.marker # "complete"
      BY <1>1, <2>4 DEF Progress, Writes
    <3>2. d.parts \in Nat /\ upd.parts \in Nat /\ Partitions \in Nat /\ d.from \in 0 .. Partitions
      BY <1>1, UpdaterAssumption DEF Displays, UpdaterTypes, Updaters
    <3>3. d.parts + 1 \in 0 .. Partitions
      BY <3>1, <3>2
    <3> HIDE DEF d
    <3> QED BY <1>1, <2>4, <3>1, <3>3 DEF Written, Displays, Finishes
  <2>5. CASE upd.step = "WriteCompleteMarker"
    BY <1>1, <2>5 DEF Written, Displays, Markers, Finishes, Progress
  <2>6. CASE upd.step = "RebootRockchip"
    BY <1>1, <2>6 DEF Written
  <2> QED BY <2>2, <2>3, <2>4, <2>5, <2>6 DEF Writes
<1> HIDE DEF d, e
<1>4. bench' \in Benches /\ bench'.touched = bench.touched /\ bench'.display[upd.loader] = e
  BY <1>1, <1>2, <1>3 DEF UpdaterTypes, Benches
<1>5. \A u \in Units : Finishes(bench'.display[u])
  <2> TAKE u \in Units
  <2>1. bench'.display[u] \in {e, bench.display[u]}
    BY <1>2 DEF UpdaterTypes, Benches
  <2> QED BY <1>3, <2>1 DEF UpdaterInvariant
<1> QED BY <1>1, <1>4, <1>5 DEF d, e

\* Nor does one that is killed, or fails.
LEMMA PerhapsStoredKeeps ==
    ASSUME UpdaterTypes, UpdaterInvariant, PerhapsStored
    PROVE  /\ bench' \in Benches /\ bench'.touched = bench.touched
           /\ \A u \in Units : Finishes(bench'.display[u])
BY StoredKeeps DEF PerhapsStored, UpdaterTypes, UpdaterInvariant

\* What is written next is what the display still lacks.
LEMMA WriteDoneKeeps ==
    ASSUME UpdaterTypes, UpdaterInvariant, WriteDone
    PROVE  UpdaterTypes' /\ UpdaterInvariant' /\ (GoesOn \/ Ends)
<1>1. upd.step \in Writes /\ ~upd.cut /\ Stored /\ upd.irr
  BY DEF WriteDone, UpdaterInvariant, Fits, Irreversible
<1>2. /\ bench' \in Benches /\ bench'.touched = bench.touched /\ upd.loader \in Units
      /\ bench'.display[upd.loader] = Written(bench.display[upd.loader], upd)
      /\ \A u \in Units : Finishes(bench'.display[u])
  BY <1>1, StoredKeeps
<1>3. CASE upd.step = "RebootRockchip"
  <2>1. Ended(TRUE) /\ upd.step # "Idle"
    BY <1>3 DEF WriteDone
  <2> QED BY <1>1, <1>2, <2>1, EndedKeeps
<1>4. CASE upd.step # "RebootRockchip"
  <2> DEFINE next == Following(upd)
             parts == IF next = "FlashPartition" THEN upd.parts - 1 ELSE upd.parts
             d == bench.display[upd.loader]
             e == Written(d, upd)
             u == Launched(upd, "ConfirmLoader")
  <2>1. /\ upd' = [u EXCEPT !.next = next, !.parts = parts]
        /\ events' = events
    <3>1. u.parts = upd.parts
      BY LaunchedAlike DEF UpdaterTypes, Steps, LikeWritten
    <3> QED BY <1>4, <3>1 DEF WriteDone
  <2>2. Progress(upd, d) /\ Writing(upd) = upd.step /\ d \in Displays /\ upd.loader # None
        /\ (upd.poll => upd.polls < MaxPolls)
    BY <1>1, <1>2 DEF UpdaterTypes, UpdaterInvariant, Fits, Benches, Writing, Writes
  <2>3. upd.parts \in Nat /\ d.parts \in Nat /\ Partitions \in Nat \ {0} /\ upd.parts <= Partitions
        /\ d.from \in Nat
    BY <2>2, UpdaterAssumption DEF UpdaterTypes, Updaters, Displays
  <2>4. ASSUME NEW v, v.step = "ConfirmLoader", v.next = next, v.parts = parts, v.back = upd.back
        PROVE  next \in Writes \ {"WriteStartMarker"} /\ parts \in 0 .. Partitions /\ Progress(v, e)
    <3>1. Writing(v) = next
      BY <2>4 DEF Writing
    <3>2. CASE upd.step = "WriteStartMarker"
      <4>1. next = "UpgradeLoader" /\ parts = upd.parts
        BY <3>2 DEF Following
      <4>2. e = [Untouched EXCEPT !.marker = "updating", !.from = upd.parts, !.back = upd.back]
        BY <3>2 DEF Written
      <4>3. e.marker = "updating" /\ e.from = upd.parts /\ e.parts = 0
        BY <4>2 DEF Untouched
      <4>4. Whole(upd)
        BY <2>2, <3>2 DEF Progress
      <4> HIDE DEF next, parts, d, e
      <4> QED BY <2>3, <2>4, <3>1, <4>1, <4>3, <4>4 DEF Progress, Writes, Whole
    <3>3. CASE upd.step = "UpgradeLoader"
      <4>1. next = "WriteGpt" /\ parts = upd.parts
        BY <3>3 DEF Following
      <4>2. d.parts = 0 /\ d.marker # "complete" /\ d.from = upd.parts /\ Whole(upd)
        BY <2>2, <3>3 DEF Progress
      <4>3. e = [d EXCEPT !.loader = TRUE]
        BY <3>3 DEF Written
      <4> HIDE DEF next, parts, d, e
      <4> QED BY <2>2, <2>3, <2>4, <3>1, <4>1, <4>2, <4>3 DEF Progress, Displays, Writes, Whole
    <3>4. CASE upd.step = "WriteGpt"
      <4>1. d.parts = 0 /\ d.marker # "complete" /\ d.loader /\ d.from = upd.parts
        BY <2>2, <3>4 DEF Progress
      <4>2. \/ upd.parts > 0 /\ next = "FlashPartition" /\ parts = upd.parts - 1
            \/ upd.parts = 0 /\ next = "WriteCompleteMarker" /\ parts = upd.parts
        BY <2>3, <3>4 DEF Following
      <4>3. e = [d EXCEPT !.gpt = TRUE]
        BY <3>4 DEF Written
      <4>4. /\ e.parts = 0 /\ e.marker # "complete" /\ e.loader /\ e.gpt /\ e.from = upd.parts
        <5> HIDE DEF d, e
        <5> QED BY <2>2, <4>1, <4>3 DEF Displays
      <4> HIDE DEF next, parts, d, e
      <4> QED BY <2>3, <2>4, <3>1, <4>2, <4>4 DEF Progress, Writes
    <3>5. CASE upd.step = "FlashPartition"
      <4>1. d.parts + upd.parts + 1 = d.from /\ d.marker # "complete" /\ d.loader /\ d.gpt
        BY <2>2, <3>5 DEF Progress, Writes
      <4>2. e = [d EXCEPT !.parts = d.parts + 1]
        BY <3>5 DEF Written
      <4>3. \/ upd.parts > 0 /\ next = "FlashPartition" /\ parts = upd.parts - 1
            \/ upd.parts = 0 /\ next = "WriteCompleteMarker" /\ parts = upd.parts
        BY <2>3, <3>5 DEF Following
      <4>4. e.parts = d.parts + 1 /\ e.marker # "complete" /\ e.loader /\ e.gpt /\ e.from = d.from
        <5> HIDE DEF d, e
        <5> QED BY <2>2, <4>1, <4>2 DEF Displays
      <4> HIDE DEF next, parts, d, e
      <4> QED BY <2>3, <2>4, <3>1, <4>1, <4>3, <4>4 DEF Progress, Writes
    <3>6. CASE upd.step = "WriteCompleteMarker"
      <4>1. next = "RebootRockchip" /\ parts = upd.parts
        BY <3>6 DEF Following
      <4> HIDE DEF next, parts, d, e
      <4> QED BY <2>3, <2>4, <3>1, <4>1 DEF Progress, Writes
    <3> QED BY <1>1, <1>4, <3>2, <3>3, <3>4, <3>5, <3>6 DEF Writes
  <2> HIDE DEF next, parts, d, e, u
  <2>5. next \in Writes /\ next # "WriteStartMarker" /\ parts \in 0 .. Partitions
    <3> DEFINE v == [step |-> "ConfirmLoader", next |-> next, parts |-> parts, back |-> upd.back]
    <3>1. v.step = "ConfirmLoader" /\ v.next = next /\ v.parts = parts /\ v.back = upd.back
      OBVIOUS
    <3> HIDE DEF v
    <3> QED BY <2>4, <3>1
  <2>6. /\ upd' \in Updaters /\ upd'.step = "ConfirmLoader" /\ upd'.next = next /\ upd'.parts = parts
        /\ upd'.loader = upd.loader /\ upd'.irr = upd.irr /\ upd'.attempt = upd.attempt
        /\ upd'.back = upd.back /\ upd'.poll = upd.poll /\ upd'.polls = upd.polls
    <3>1. u \in Updaters /\ u.step = "ConfirmLoader" /\ LikeWritten(upd, u)
      BY LaunchedAlike DEF u, UpdaterTypes, Steps
    <3> QED BY <2>1, <2>5, <3>1 DEF Updaters, LikeWritten
  <2>7. Progress(upd', e)
    BY <2>4, <2>6
  <2>8. Fits(upd', bench')
    BY <1>1, <1>2, <2>2, <2>5, <2>6, <2>7 DEF Fits, Irreversible, Writes, d, e
  <2> QED BY <1>1, <1>2, <2>1, <2>6, <2>8 DEF UpdaterTypes, UpdaterInvariant, GoesOn, Writes
<1> QED BY <1>3, <1>4

\* A program fails; what it was writing may have been written.
LEMMA StepFailsKeeps ==
    ASSUME UpdaterTypes, UpdaterInvariant, StepFails
    PROVE  UpdaterTypes' /\ UpdaterInvariant' /\ Ends
<1>1. upd.step # "Idle" /\ Ended(FALSE) /\ PerhapsStored
  BY DEF StepFails
<1> QED BY <1>1, PerhapsStoredKeeps, EndedKeeps

\* The poll goes back to the search, whatever was written so far; the display that
\* is found next is written from its start marker on.
LEMMA LoaderPolledKeeps ==
    ASSUME UpdaterTypes, UpdaterInvariant, LoaderPolled
    PROVE  UpdaterTypes' /\ UpdaterInvariant' /\ GoesOn
<1> DEFINE back == upd.back \/ upd.parts < Partitions
           u == Launched(upd, "DetectLoader")
           v == [u EXCEPT !.poll = FALSE, !.polls = @ + 1, !.cut = FALSE, !.back = back]
<1>1. /\ u \in Updaters /\ u.step = "DetectLoader" /\ u.polls = upd.polls /\ u.parts = upd.parts
      /\ u.irr = upd.irr /\ u.attempt = upd.attempt /\ u.back = upd.back
  BY LaunchedAlike DEF UpdaterTypes, Steps, LikeWritten
<1>2. upd.polls + 1 \in 0 .. MaxPolls /\ back \in BOOLEAN
  <2>1. upd.polls < MaxPolls
    BY DEF LoaderPolled, UpdaterInvariant, Fits
  <2> QED BY <2>1, UpdaterAssumption DEF UpdaterTypes, Updaters
<1>3. upd' = v /\ upd.step # "Idle" /\ PerhapsStored /\ events' = events
  BY <1>1 DEF LoaderPolled
<1> HIDE DEF u, back
<1>4. /\ v \in Updaters /\ v.step = "DetectLoader" /\ v.parts = upd.parts /\ v.back = back
      /\ v.irr = upd.irr /\ v.attempt = upd.attempt /\ v.poll = FALSE
  BY <1>1, <1>2 DEF Updaters
<1> HIDE DEF v
<1>5. Whole(v)
  BY <1>4, UpdaterAssumption DEF Whole, back, UpdaterTypes, Updaters
<1>6. ASSUME NEW d PROVE Progress(v, d)
  BY <1>4, <1>5 DEF Progress, Writing
<1>7. Fits(v, bench')
  BY <1>4, <1>5, <1>6 DEF Fits, Irreversible, Writes
<1>8. /\ bench' \in Benches /\ bench'.touched = bench.touched
      /\ \A w \in Units : Finishes(bench'.display[w])
  BY <1>3, PerhapsStoredKeeps
<1> QED BY <1>3, <1>4, <1>7, <1>8 DEF UpdaterTypes, UpdaterInvariant, GoesOn

\* Every step of the updater keeps its invariant, and is one of three from outside.
LEMMA UpdaterStepKeeps ==
    ASSUME UpdaterTypes, UpdaterInvariant, UpdaterStep \/ StepTimesOut \/ LoaderPolled
    PROVE  UpdaterTypes' /\ UpdaterInvariant' /\ (GoesOn \/ Touches \/ Ends)
BY EarlySteps, RecoverySteps, PollingSteps, LoaderSteps, ConfirmedSteps, WriteDoneKeeps,
   StepFailsKeeps, StepTimesOutKeeps, LoaderPolledKeeps DEF UpdaterStep

-----------------------------------------------------------------------------
(* What the bridge and the world do to the updater                            *)

\* An updater at rest keeps every display as it is.
LEMMA AtRest ==
    ASSUME UpdaterTypes, UpdaterInvariant, NEW irr \in BOOLEAN,
           upd' = [Rest EXCEPT !.irr = irr] \/ (irr = FALSE /\ upd' = Rest),
           bench' \in Benches, \A u \in Units : Finishes(bench'.display[u])
    PROVE  UpdaterTypes' /\ UpdaterInvariant' /\ upd'.step = "Idle" /\ upd'.irr = irr
<1>1. upd' \in Updaters /\ upd'.step = "Idle" /\ upd'.irr = irr /\ Fits(upd', bench')
  BY RestIsFit
<1> QED BY <1>1 DEF UpdaterTypes, UpdaterInvariant

\* start: an update begins, or is over at once.
LEMMA StartKeeps ==
    ASSUME UpdaterTypes, UpdaterInvariant, upd.step = "Idle",
           NEW pkg \in Packages, NEW attempt \in Nat, NEW good \in BOOLEAN,
           StartUpdate(pkg, attempt, good)
    PROVE  /\ UpdaterTypes' /\ UpdaterInvariant' /\ bench' = bench /\ ~upd'.irr
           /\ \/ upd'.step # "Idle" /\ upd'.attempt = attempt /\ events' = events
              \/ upd'.step = "Idle" /\ events' = Append(events, Finished(FALSE))
<1>1. CASE good
  <2> DEFINE first == IF pkg = Ota THEN "Identify" ELSE "ExtractRockchipPackage"
             u == [Rest EXCEPT !.pkg = pkg, !.attempt = attempt, !.parts = Partitions]
             v == Launched(u, first)
  <2>1. upd' = v /\ bench' = bench /\ events' = events
    BY <1>1 DEF StartUpdate, Go
  <2>2. 0 \in 0 .. Partitions /\ Partitions \in 0 .. Partitions /\ 0 \in 0 .. MaxPolls /\ first \in Steps
    BY UpdaterAssumption DEF Steps
  <2>3. /\ v \in Updaters /\ v.step = first /\ v.attempt = attempt /\ ~v.irr
        /\ v.loader = None /\ v.parts = Partitions /\ ~v.poll
    <3>1. /\ u \in Updaters /\ u.attempt = attempt /\ ~u.irr /\ u.loader = None
          /\ u.parts = Partitions /\ ~u.poll
      BY <2>2 DEF Rest, Updaters, Runs, Steps
    <3> HIDE DEF u
    <3> QED BY <2>2, <3>1, LaunchedAlike DEF LikeWritten
  <2>4. Fits(v, bench)
    <3> HIDE DEF v
    <3> QED BY <2>3 DEF Fits, Irreversible, Writes, Whole
  <2> HIDE DEF v
  <2> QED BY <2>1, <2>3, <2>4 DEF UpdaterTypes, UpdaterInvariant
<1>2. CASE ~good
  <2>1. upd' = Rest /\ bench' = bench /\ events' = Append(events, Finished(FALSE))
    BY <1>2 DEF StartUpdate
  <2> QED BY <2>1, AtRest DEF UpdaterTypes, UpdaterInvariant
<1> QED BY <1>1, <1>2

\* cancel: nothing happens, or the update fails.
LEMMA CancelKeeps ==
    ASSUME UpdaterTypes, UpdaterInvariant, CancelUpdate
    PROVE  UpdaterTypes' /\ UpdaterInvariant' /\ (UNCHANGED <<upd, bench, events>> \/ Ends)
<1>1. CASE UNCHANGED <<upd, bench, events>>
  BY <1>1 DEF UpdaterTypes, UpdaterInvariant
<1>2. CASE upd.step # "Idle" /\ Fail
  BY <1>2, FailKeeps
<1> QED BY <1>1, <1>2 DEF CancelUpdate

\* Another display on the bench is not taken for the one that was confirmed.
LEMMA SwapKeeps ==
    ASSUME UpdaterTypes, UpdaterInvariant, Swap
    PROVE  UpdaterTypes' /\ UpdaterInvariant' /\ GoesOn
<1>1. PICK u \in Units : bench' = [bench EXCEPT !.unit = u]
  BY DEF Swap
<1>2. bench' \in Benches /\ bench'.touched = bench.touched /\ bench'.display = bench.display
  BY <1>1 DEF UpdaterTypes, Benches
<1> DEFINE cut == upd.cut \/ upd.step \in Writes
<1>3. upd.step # "Idle" /\ upd' = [upd EXCEPT !.cut = cut] /\ events' = events
  BY DEF Swap
<1>4. cut \in BOOLEAN
  BY DEF UpdaterTypes, Updaters
<1>5. /\ upd' \in Updaters /\ upd'.step = upd.step /\ upd'.irr = upd.irr /\ upd'.attempt = upd.attempt
      /\ upd'.loader = upd.loader /\ upd'.next = upd.next /\ upd'.parts = upd.parts
      /\ upd'.cut = cut
      /\ upd'.back = upd.back /\ upd'.poll = upd.poll /\ upd'.polls = upd.polls
  BY <1>3, <1>4 DEF UpdaterTypes, Updaters
<1> HIDE DEF cut
<1>6. Fits(upd', bench')
  <2>1. upd'.step \in Writes => upd'.cut
    BY <1>5 DEF cut
  <2>2. ASSUME NEW d PROVE Progress(upd, d) => Progress(upd', d)
    BY <1>5 DEF Progress, Writing, Whole
  <2>3. Whole(upd) => Whole(upd')
    BY <1>5 DEF Whole
  <2> QED BY <1>2, <1>3, <1>5, <2>1, <2>2, <2>3 DEF UpdaterInvariant, Fits, Irreversible
<1> QED BY <1>2, <1>3, <1>5, <1>6 DEF UpdaterTypes, UpdaterInvariant, GoesOn

\* A process that goes leaves the program that is writing behind.
LEMMA GoneKeeps ==
    ASSUME UpdaterTypes, UpdaterInvariant, upd' = Rest, PerhapsStored
    PROVE  /\ UpdaterTypes' /\ UpdaterInvariant' /\ upd'.step = "Idle"
           /\ bench'.touched = bench.touched
<1>1. bench' \in Benches /\ bench'.touched = bench.touched /\ \A u \in Units : Finishes(bench'.display[u])
  BY PerhapsStoredKeeps
<1> QED BY <1>1, AtRest

-----------------------------------------------------------------------------
(* Types                                                                      *)

Kinds == {"validated", "revalidated", "rechecked", "irreversible", "finished"}
Events == [kind : Kinds, id : Nat, ok : BOOLEAN, pkg : Packages \cup {None}]
Lefts == [validations : 0 .. MaxValidations, mishaps : 0 .. MaxMishaps, seen : SUBSET Mishaps]

Worlds ==
    [fb : Bridges, ctl : Controllers(Attempts), disk : Records \cup {None}, tasks : Seq(Tasks),
     left : Lefts]

\* What is asked of the firmware thread and what it answers has a number.
Sensible(ts) ==
    \A i \in DOMAIN ts :
        /\ ts[i].kind \in {"revalidate", "recheck"} => ts[i].id # 0
        /\ ts[i].kind = "start" => ts[i].pkg \in Packages

Answers(es) == \A i \in DOMAIN es : es[i].kind \in {"revalidated", "rechecked"} => es[i].id # 0

Types ==
    /\ TypeOK
    /\ events \in Seq(Events) /\ Sensible(tasks) /\ Answers(events)

\* A process that is not there has no state.
Off ==
    /\ fb = Down(fb.n) /\ ctl = Fresh(ctl.present) /\ port = "closed" /\ upd.step = "Idle"
    /\ told = <<>> /\ tasks = <<>> /\ events = <<>>

-----------------------------------------------------------------------------
(* The inductive invariant.  f is the bridge, c the controller, d the         *)
(* journal, ts the tasks, l what is left; u is the updater, es its events, t  *)
(* the last update that may have changed a display, td the worker's answers   *)
(* and p the session's hold of the device.                                    *)

\* What the bridge waits for, one thing at a time.
Shape(f) ==
    /\ f.flash = None => ~f.started /\ f.lease = 0 /\ f.reval = 0 /\ f.recheck = 0
    /\ f.flash # None => ~f.quit /\ f.val = 0 /\ f.n # 0
    /\ f.started => f.recheck = 0 /\ f.lease # 0
    /\ f.recheck # 0 => f.lease # 0
    /\ f.lease # 0 => f.reval = 0 /\ f.lease = f.n
    /\ ~f.started => ~f.irr
    /\ f.quit => ~f.started

Has(kind, s) == \E i \in DOMAIN s : s[i].kind = kind

\* No update is anywhere.
Free(u, ts, es) ==
    u.step = "Idle" /\ ~Has("start", ts) /\ ~Has("irreversible", es) /\ ~Has("finished", es)

\* The one start of update n is on its way to the updater.
Coming(n, u, ts, es) ==
    /\ \A i, j \in DOMAIN ts : ts[i].kind = "start" /\ ts[j].kind = "start" => i = j
    /\ \A i \in DOMAIN ts : ts[i].kind = "start" => ts[i].id = n
    /\ u.step = "Idle" /\ ~Has("irreversible", es) /\ ~Has("finished", es)

Underway(n, u, ts, es) ==
    /\ u.step # "Idle" /\ u.attempt = n /\ ~Has("start", ts) /\ ~Has("finished", es)
    /\ Has("irreversible", es) => u.irr

\* The updater has told the end of an update, and tells nothing of it after that.
Told(u, ts, es) ==
    /\ u.step = "Idle" /\ ~Has("start", ts)
    /\ \A i, j \in DOMAIN es : es[i].kind = "finished" /\ es[j].kind = "finished" => i = j
    /\ \A i, j \in DOMAIN es : es[i].kind = "irreversible" /\ es[j].kind = "finished" => i < j
    /\ Has("irreversible", es) => u.irr
    /\ \A i \in DOMAIN es : es[i].kind = "finished" /\ es[i].ok => u.irr

Owned(f, u, ts, es) ==
    IF f.started
    THEN \/ Has("start", ts) /\ Coming(f.n, u, ts, es) /\ ~f.irr
         \/ Underway(f.n, u, ts, es) /\ (f.irr => u.irr)
         \/ Has("finished", es) /\ Told(u, ts, es) /\ (f.irr => u.irr)
    ELSE Free(u, ts, es)

Faultless(l) == l.seen \cap {"fault", "crash"} = {}

\* The journal, when the update that may have changed a display last is over.
Kept(f, d, l, t) ==
    /\ f.up /\ d # None => f.required
    /\ t # 0 => d # None
    /\ t <= f.n
    /\ Faultless(l) /\ t # 0 => d.id = t /\ d.phase # "Armed"

\* The journal while an update has not started, and while it may be changing the
\* display: it is this update's, or will be with the next phase.
Prepared(f, d, t) == ~f.created /\ t # f.n /\ (~f.inherited => d = None)

Begun(f, d, u, ts, es, l, t) ==
    /\ d # None /\ f.required /\ f.created = ~f.inherited
    /\ Has("start", ts) => t # f.n
    /\ ~Has("start", ts) => (u.irr <=> t = f.n)
    /\ ~f.inherited => t \in {0, f.n}
    /\ t <= f.n
    /\ Faultless(l) =>
          /\ t # 0 /\ t # f.n => d.id = t /\ d.phase # "Armed"
          /\ f.rec = d /\ ((f.inherited /\ f.pend) \/ d.id = f.n)
          /\ t = f.n => Has("irreversible", es) \/ (d.id = f.n /\ d.phase = "Irreversible")

Recorded(f, d, u, ts, es, l, t) ==
    /\ f.started => Begun(f, d, u, ts, es, l, t)
    /\ ~f.started => Kept(f, d, l, t)
    /\ f.flash # None /\ ~f.started => Prepared(f, d, t)

\* The bridge's lease is the controller's, and so is the interlock.
Agree(f, c, td) ==
    /\ f.lease # 0 => c.lease = f.lease /\ c.pending = 0
    /\ f.started \/ f.recheck # 0 => Quiet(c, td)

\* All but the interlock, of a world.
Nearly(w, td, es, p, u, t) ==
    /\ w.fb.up /\ Shape(w.fb) /\ Owned(w.fb, u, w.tasks, es) /\ Sensible(w.tasks)
    /\ Recorded(w.fb, w.disk, u, w.tasks, es, w.left, t)
    /\ Agree(w.fb, w.ctl, td) /\ LeaseInvariant(w.ctl, td, p)

Sound(w, td, es, p, u, t) == Nearly(w, td, es, p, u, t) /\ w.ctl.interlock = w.fb.required

FirmwareInvariant ==
    /\ Types /\ UpdaterInvariant
    /\ IF fb.up THEN Sound(World, told, events, port, upd, bench.touched)
       ELSE Off /\ Kept(fb, disk, left, bench.touched)

-----------------------------------------------------------------------------
(* Worlds                                                                     *)

\* The bounds are numbers, and 0 is an attempt.
LEMMA Bounds ==
    /\ MaxFlashes \in Nat /\ MaxValidations \in Nat /\ MaxMishaps \in Nat /\ 0 \in Attempts
    /\ Attempts \subseteq Nat
BY BoundsAssumption DEF Attempts

\* The parts of a world have their types.
LEMMA WorldFields ==
    ASSUME NEW w \in Worlds
    PROVE  /\ w.fb \in Bridges /\ w.ctl \in Controllers(Attempts) /\ w.disk \in Records \cup {None}
           /\ w.tasks \in Seq(Tasks) /\ w.left \in Lefts
           /\ w.fb.n \in Attempts /\ w.fb.lease \in Attempts /\ w.fb.required \in BOOLEAN
           /\ w.fb.flash \in Packages \cup {None} /\ w.fb.started \in BOOLEAN
BY DEF Worlds, Bridges

\* Once its closing has been heard of, a lease keeps the device shut.
LEMMA QuietIsShut ==
    ASSUME NEW c, NEW td, NEW p, LeaseInvariant(c, td, p), Quiet(c, td)
    PROVE  Shut(c, p)
BY DEF LeaseInvariant, Quiet, Held, Shut

\* publishState sets the interlock as the journal requires, if all is shut.
LEMMA PublishedSound ==
    ASSUME NEW w \in Worlds, NEW td \in Seq(Jobs(Attempts)), NEW p \in {"open", "closed"},
           NEW es, NEW u, NEW t, Nearly(w, td, es, p, u, t),
           w.fb.required => w.ctl.interlock \/ Shut(w.ctl, p)
    PROVE  /\ Published(w) \in Worlds /\ Sound(Published(w), td, es, p, u, t)
           /\ Published(w).fb = w.fb
<1> DEFINE c == Interlocked(w.ctl, w.fb.required)
<1>1. /\ c \in Controllers(Attempts) /\ LeaseInvariant(c, td, p)
      /\ c.interlock = w.fb.required /\ c.lease = w.ctl.lease /\ c.pending = w.ctl.pending
      /\ c.connected = w.ctl.connected /\ c.jobs = w.ctl.jobs
  BY WorldFields, Bounds, InterlockedKeeps DEF Nearly
<1>2. /\ Published(w) \in Worlds /\ Published(w).fb = w.fb /\ Published(w).ctl = c
      /\ Published(w).disk = w.disk /\ Published(w).tasks = w.tasks /\ Published(w).left = w.left
  BY <1>1 DEF Published, Worlds
<1> HIDE DEF c
<1>3. Agree(w.fb, c, td)
  BY <1>1 DEF Nearly, Agree, Quiet, Exclusive
<1> QED BY <1>1, <1>2, <1>3 DEF Nearly, Sound

\* releaseFirmwareGate leaves a bridge.
LEMMA ForgottenType ==
    ASSUME NEW f \in Bridges
    PROVE  Forgotten(f) \in Bridges
<1> DEFINE quit == f.quit \/ (f.started /\ f.shutdown)
<1>1. quit \in BOOLEAN /\ 0 \in Attempts
  BY Bounds
<1>2. Forgotten(f) = [f EXCEPT !.flash = None, !.lease = 0, !.timer = FALSE, !.reval = 0,
                               !.recheck = 0, !.started = FALSE, !.irr = FALSE, !.pend = FALSE,
                               !.inherited = FALSE, !.quit = quit]
  BY DEF Forgotten
<1> HIDE DEF quit
<1> QED BY ZenonT(60), <1>1, <1>2 DEF Bridges

\* The common end of an attempt that has left nothing on its way.
Settled(w, td, es, p, u, t) ==
    /\ w.fb.up /\ Free(u, w.tasks, es) /\ Sensible(w.tasks) /\ Kept(w.fb, w.disk, w.left, t)
    /\ LeaseInvariant(w.ctl, td, p)
    /\ w.fb.required => w.ctl.interlock \/ Shut(w.ctl, p)

\* The end of an attempt gives the transport back, if it may not have to be
\* kept shut.
LEMMA OverSound ==
    ASSUME NEW w \in Worlds, NEW td \in Seq(Jobs(Attempts)), NEW p \in {"open", "closed"},
           NEW es, NEW u, NEW t, NEW resume \in BOOLEAN, Settled(w, td, es, p, u, t)
    PROVE  /\ Over(w, resume) \in Worlds /\ Sound(Over(w, resume), td, es, p, u, t)
           /\ Over(w, resume).fb.flash = None /\ Over(w, resume).fb.shutdown = w.fb.shutdown
<1> DEFINE f == Forgotten(w.fb)
           c == Released(w.ctl, w.fb.lease, resume)
           x == [w EXCEPT !.ctl = c, !.fb = f]
<1>1. f \in Bridges
  BY WorldFields, ForgottenType
<1>2. /\ f.flash = None /\ ~f.started /\ f.lease = 0 /\ f.reval = 0 /\ f.recheck = 0 /\ ~f.irr
      /\ (f.up <=> w.fb.up) /\ f.required = w.fb.required /\ f.n = w.fb.n /\ f.shutdown = w.fb.shutdown
  BY WorldFields DEF Forgotten, Bridges
<1>3. /\ c \in Controllers(Attempts) /\ LeaseInvariant(c, td, p) /\ c.interlock = w.ctl.interlock
      /\ Shut(w.ctl, p) => Shut(c, p)
  BY WorldFields, Bounds, ReleasedKeeps DEF Settled, Shut
<1>4. /\ x \in Worlds /\ x.fb = f /\ x.ctl = c /\ x.disk = w.disk /\ x.tasks = w.tasks
      /\ x.left = w.left
  <2> HIDE DEF f, c
  <2> QED BY <1>1, <1>3 DEF Worlds
<1> HIDE DEF f, c
<1>5. Shape(f)
  BY <1>2 DEF Shape
<1>6. Owned(f, u, w.tasks, es) /\ Agree(f, c, td)
  BY <1>2 DEF Owned, Agree, Settled
<1>7. Recorded(f, w.disk, u, w.tasks, es, w.left, t)
  BY <1>2 DEF Recorded, Settled, Kept
<1>8. Nearly(x, td, es, p, u, t)
  <2> HIDE DEF x
  <2>1. x.fb.up
    BY <1>2, <1>4 DEF Settled
  <2>2. Sensible(x.tasks)
    BY <1>4 DEF Settled
  <2> QED BY <1>3, <1>4, <1>5, <1>6, <1>7, <2>1, <2>2 DEF Nearly
<1>9. x.fb.required => x.ctl.interlock \/ Shut(x.ctl, p)
  <2> HIDE DEF x
  <2> QED BY <1>2, <1>3, <1>4 DEF Settled
<1>10. Over(w, resume) = Published(x)
  BY DEF Over, f, c
<1> HIDE DEF x
<1> QED BY <1>2, <1>4, <1>8, <1>9, <1>10, PublishedSound

\* Before the updater is told there is nothing of the attempt to take back.
LEMMA NotStartedIsSettled ==
    ASSUME NEW w, NEW td, NEW es, NEW p, NEW u, NEW t,
           Sound(w, td, es, p, u, t), ~w.fb.started
    PROVE  Settled(w, td, es, p, u, t) /\ (w.fb.flash # None => ~w.fb.created)
BY DEF Sound, Nearly, Settled, Owned, Recorded, Prepared

\* failPendingFlash: an attempt without a record of its own ends.
LEMMA AbandonedSound ==
    ASSUME NEW w \in Worlds, NEW td \in Seq(Jobs(Attempts)), NEW p \in {"open", "closed"},
           NEW es, NEW u, NEW t, Settled(w, td, es, p, u, t), ~w.fb.created,
           NEW x \in Abandoned(w)
    PROVE  x \in Worlds /\ Sound(x, td, es, p, u, t)
<1>1. x = Over(w, MayResume(w))
  BY DEF Abandoned, OwnCleared
<1>2. MayResume(w) \in BOOLEAN
  BY DEF MayResume
<1> QED BY <1>1, <1>2, OverSound

\* A mishap is used up.
LEMMA SpentLeft ==
    ASSUME NEW l \in Lefts, l.mishaps > 0, NEW mishap \in Mishaps
    PROVE  /\ Spent(l, mishap) \in Lefts /\ (Faultless(Spent(l, mishap)) => Faultless(l))
           /\ mishap \in {"fault", "crash"} => ~Faultless(Spent(l, mishap))
<1> DEFINE k == Spent(l, mishap)
<1>1. l.mishaps - 1 \in 0 .. MaxMishaps /\ l.seen \cup {mishap} \in SUBSET Mishaps
  BY Bounds DEF Lefts
<1>2. k \in Lefts /\ k.seen = l.seen \cup {mishap}
  BY <1>1 DEF Spent, Lefts
<1> HIDE DEF k
<1>3. Faultless(k) => Faultless(l)
  BY <1>2 DEF Faultless
<1>4. mishap \in {"fault", "crash"} => ~Faultless(k)
  BY <1>2 DEF Faultless
<1> QED BY <1>2, <1>3, <1>4 DEF k

\* The invariant of a world is that of the state it becomes.
LEMMA BecameSound ==
    ASSUME NEW x \in Worlds, Become(x), UpdaterTypes', UpdaterInvariant',
           told' \in Seq(Jobs(Attempts)), port' \in {"open", "closed"},
           events' \in Seq(Events), Answers(events'),
           Sound(x, told', events', port', upd', bench'.touched)
    PROVE  FirmwareInvariant'
<1>1. /\ fb' = x.fb /\ ctl' = x.ctl /\ disk' = x.disk /\ tasks' = x.tasks /\ left' = x.left
      /\ fb' \in Bridges /\ ctl' \in Controllers(Attempts) /\ disk' \in Records \cup {None}
      /\ tasks' \in Seq(Tasks) /\ left' \in Lefts /\ fb'.up /\ Sensible(tasks')
  BY WorldFields DEF Become, Sound, Nearly
<1>2. Types'
  BY <1>1 DEF Types, TypeOK, UpdaterTypes, Lefts
<1>3. Sound(World, told, events, port, upd, bench.touched)'
  BY <1>1 DEF World, Sound, Nearly
<1> QED BY <1>1, <1>2, <1>3 DEF FirmwareInvariant

\* What the invariant says of a runtime that is there.
LEMMA SoundWorld ==
    ASSUME FirmwareInvariant, fb.up
    PROVE  /\ World \in Worlds /\ Sound(World, told, events, port, upd, bench.touched)
           /\ UpdaterTypes /\ UpdaterInvariant
           /\ told \in Seq(Jobs(Attempts)) /\ port \in {"open", "closed"} /\ events \in Seq(Events)
           /\ Answers(events)
           /\ World.fb = fb /\ World.ctl = ctl /\ World.disk = disk /\ World.tasks = tasks
           /\ World.left = left
<1>1. Types /\ UpdaterInvariant /\ Sound(World, told, events, port, upd, bench.touched)
  BY DEF FirmwareInvariant
<1>2. World \in Worlds
  BY <1>1 DEF World, Worlds, Types, TypeOK, Lefts
<1> QED BY <1>1, <1>2 DEF World, Types, TypeOK, UpdaterTypes

\* The same for what leaves the other threads alone.
LEMMA UserSound ==
    ASSUME FirmwareInvariant, fb.up, NEW x \in Worlds, Become(x), UserOnly,
           Sound(x, told, events, port, upd, bench.touched)
    PROVE  FirmwareInvariant'
<1>1. UpdaterTypes' /\ UpdaterInvariant'
  BY SoundWorld DEF UserOnly, UpdaterTypes, UpdaterInvariant
<1> QED BY <1>1, SoundWorld, BecameSound DEF UserOnly

\* A task that is not a start.
LEMMA MoreTasks ==
    ASSUME NEW ts \in Seq(Tasks), NEW task \in Tasks, task.kind # "start",
           task.kind \in {"revalidate", "recheck"} => task.id # 0, Sensible(ts)
    PROVE  /\ Append(ts, task) \in Seq(Tasks) /\ Sensible(Append(ts, task))
           /\ \A f, u, es : Owned(f, u, ts, es) => Owned(f, u, Append(ts, task), es)
           /\ \A f, d, u, es, l, t :
                 Recorded(f, d, u, ts, es, l, t) => Recorded(f, d, u, Append(ts, task), es, l, t)
<1> DEFINE more == Append(ts, task)
<1>1. /\ more \in Seq(Tasks)
      /\ \A i \in DOMAIN ts : i \in DOMAIN more /\ more[i] = ts[i]
      /\ \A i \in DOMAIN more : i \in DOMAIN ts \/ more[i] = task
  BY Appended
<1> HIDE DEF more
<1>2. Sensible(more)
  BY <1>1 DEF Sensible
<1>3. Has("start", more) <=> Has("start", ts)
  BY <1>1 DEF Has
<1>4. \A n, u, es : Coming(n, u, ts, es) => Coming(n, u, more, es)
  BY <1>1 DEF Coming
<1>5. \A f, u, es : Owned(f, u, ts, es) => Owned(f, u, more, es)
  BY <1>3, <1>4 DEF Owned, Underway, Told, Free
<1>6. \A f, d, u, es, l, t : Recorded(f, d, u, ts, es, l, t) => Recorded(f, d, u, more, es, l, t)
  BY <1>3 DEF Recorded, Begun
<1> QED BY <1>1, <1>2, <1>5, <1>6 DEF more

\* What the bridge asks of the firmware thread is a task.
LEMMA TaskTypes ==
    ASSUME NEW id \in Nat, NEW kind \in {"validate", "revalidate", "recheck", "start", "cancel"},
           NEW pkg \in Packages \cup {None}
    PROVE  Task(kind, id, pkg) \in Tasks /\ Task(kind, id, pkg).kind = kind
           /\ Task(kind, id, pkg).id = id /\ Task(kind, id, pkg).pkg = pkg
BY DEF Task, Tasks

-----------------------------------------------------------------------------
(* The client                                                                 *)

\* requestValidation forgets the approval and asks for another.
LEMMA RequestValidationKeeps ==
    ASSUME FirmwareInvariant, RequestValidation
    PROVE  FirmwareInvariant'
<1> DEFINE task == Task("validate", left.validations, None)
           f == [fb EXCEPT !.appr = None, !.val = left.validations, !.inherited = FALSE,
                           !.created = FALSE]
           l == [left EXCEPT !.validations = @ - 1]
           q == [World EXCEPT !.left.validations = @ - 1,
                              !.fb = [@ EXCEPT !.appr = None, !.val = left.validations,
                                               !.inherited = FALSE, !.created = FALSE],
                              !.tasks = Append(@, Task("validate", left.validations, None))]
<1>1. fb.up /\ ~fb.quit /\ fb.flash = None /\ left.validations > 0 /\ Become(Published(q)) /\ UserOnly
  BY DEF RequestValidation, Running, Busy
<1>2. /\ World \in Worlds /\ Sound(World, told, events, port, upd, bench.touched)
      /\ World.fb = fb /\ World.ctl = ctl /\ World.disk = disk /\ World.tasks = tasks
      /\ World.left = left /\ told \in Seq(Jobs(Attempts)) /\ port \in {"open", "closed"}
  BY <1>1, SoundWorld
<1>3. fb \in Bridges /\ left \in Lefts /\ tasks \in Seq(Tasks)
  BY <1>2, WorldFields
<1>4. left.validations \in 0 .. MaxValidations /\ left.validations - 1 \in 0 .. MaxValidations
  BY <1>1, <1>3, Bounds DEF Lefts
<1>5. /\ f \in Bridges /\ f.up = fb.up /\ f.quit = fb.quit /\ f.flash = fb.flash /\ f.n = fb.n
      /\ f.started = fb.started /\ f.lease = fb.lease /\ f.reval = fb.reval
      /\ f.recheck = fb.recheck /\ f.irr = fb.irr /\ f.required = fb.required
  BY <1>3, <1>4 DEF Bridges
<1>6. l \in Lefts /\ l.seen = left.seen
  BY <1>3, <1>4 DEF Lefts
<1>7. task \in Tasks /\ task.kind = "validate"
  BY <1>4, TaskTypes, Bounds
<1>8. /\ q.fb = f /\ q.ctl = ctl /\ q.disk = disk /\ q.tasks = Append(tasks, task) /\ q.left = l
      /\ q \in Worlds
  <2> HIDE DEF f, l, task
  <2>1. q = [World EXCEPT !.left = l, !.fb = f, !.tasks = Append(tasks, task)]
    BY <1>2 DEF World, f, l, task
  <2>2. Append(tasks, task) \in Seq(Tasks)
    BY <1>3, <1>7, Appended
  <2> QED BY <1>2, <1>5, <1>6, <2>1, <2>2 DEF Worlds
<1> HIDE DEF f, l, task, q
<1>9. Sensible(Append(tasks, task)) /\ Owned(f, upd, Append(tasks, task), events)
  <2>1. Sensible(tasks) /\ Owned(f, upd, tasks, events)
    BY <1>2, <1>5 DEF Sound, Nearly, Owned, Coming, Underway, Told
  <2> QED BY <1>3, <1>7, <2>1, MoreTasks
<1>10. Shape(f) /\ Agree(f, ctl, told)
  BY <1>1, <1>2, <1>5 DEF Sound, Nearly, Shape, Agree
<1>11. Recorded(f, disk, upd, Append(tasks, task), events, l, bench.touched)
  BY <1>1, <1>2, <1>5, <1>6 DEF Sound, Nearly, Shape, Recorded, Kept, Faultless
<1>12. Nearly(q, told, events, port, upd, bench.touched)
  BY <1>1, <1>2, <1>5, <1>8, <1>9, <1>10, <1>11 DEF Sound, Nearly
<1>13. q.fb.required => q.ctl.interlock \/ Shut(q.ctl, port)
  BY <1>2, <1>5, <1>8 DEF Sound
<1> QED BY <1>1, <1>2, <1>8, <1>12, <1>13, PublishedSound, UserSound

\* What the invariant reads of a bridge, its shape aside.
Alike(f, g) ==
    /\ g.up = f.up /\ g.flash = f.flash /\ g.n = f.n /\ g.started = f.started /\ g.irr = f.irr
    /\ g.lease = f.lease /\ g.recheck = f.recheck /\ g.required = f.required
    /\ g.created = f.created /\ g.inherited = f.inherited /\ g.rec = f.rec /\ g.pend = f.pend

\* What the invariant does not read of a bridge may change.
LEMMA AlikeNearly ==
    ASSUME NEW w, NEW q, NEW td, NEW es, NEW p, NEW u, NEW t,
           Nearly(w, td, es, p, u, t), Shape(q.fb), Alike(w.fb, q.fb),
           q.ctl = w.ctl, q.disk = w.disk, q.tasks = w.tasks,
           Faultless(q.left) => Faultless(w.left)
    PROVE  Nearly(q, td, es, p, u, t)
<1>1. q.fb.up /\ Owned(q.fb, u, q.tasks, es) /\ Sensible(q.tasks)
  BY DEF Nearly, Alike, Owned
<1>2. Agree(q.fb, q.ctl, td) /\ LeaseInvariant(q.ctl, td, p)
  BY DEF Nearly, Alike, Agree
<1>3. Recorded(q.fb, q.disk, u, q.tasks, es, q.left, t)
  BY DEF Nearly, Alike, Recorded, Begun, Kept, Prepared
<1> QED BY <1>1, <1>2, <1>3 DEF Nearly

\* requestFlash: an attempt begins with the check of the package.
LEMMA RequestFlashKeeps ==
    ASSUME FirmwareInvariant, RequestFlash
    PROVE  FirmwareInvariant'
<1>1. fb.up /\ ~fb.quit /\ fb.flash = None /\ fb.val = 0 /\ fb.appr # None /\ UserOnly
  BY DEF RequestFlash, Running, Busy
<1>2. /\ World \in Worlds /\ Sound(World, told, events, port, upd, bench.touched)
      /\ World.fb = fb /\ World.ctl = ctl /\ World.disk = disk /\ World.tasks = tasks
      /\ World.left = left /\ told \in Seq(Jobs(Attempts)) /\ port \in {"open", "closed"}
  BY <1>1, SoundWorld
<1>3. fb \in Bridges /\ left \in Lefts /\ tasks \in Seq(Tasks) /\ bench.touched \in Nat
  BY <1>1, <1>2, WorldFields, SoundWorld DEF UpdaterTypes, Benches
<1>4. CASE Become(Published([World EXCEPT !.fb.appr = None]))
  <2> DEFINE q == [World EXCEPT !.fb.appr = None]
  <2>1. /\ q \in Worlds /\ q.ctl = ctl /\ q.disk = disk /\ q.tasks = tasks /\ q.left = left
        /\ q.fb = [fb EXCEPT !.appr = None]
    BY <1>2 DEF Worlds, Bridges
  <2>2. Alike(fb, q.fb) /\ q.fb.quit = fb.quit /\ q.fb.val = fb.val /\ q.fb.reval = fb.reval
    BY <1>3, <2>1 DEF Alike, Bridges
  <2>3. Become(Published(q))
    BY <1>4
  <2> HIDE DEF q
  <2>4. Shape(q.fb)
    BY <1>2, <2>2 DEF Sound, Nearly, Shape, Alike
  <2>5. Nearly(q, told, events, port, upd, bench.touched)
    BY <1>2, <2>1, <2>2, <2>4, AlikeNearly DEF Sound
  <2>6. q.fb.required => q.ctl.interlock \/ Shut(q.ctl, port)
    BY <1>2, <2>1, <2>2 DEF Sound, Alike
  <2> QED BY ZenonT(60), <1>1, <1>2, <2>1, <2>3, <2>5, <2>6, PublishedSound, UserSound
<1>5. CASE /\ fb.n < MaxFlashes
           /\ Become(Published([World EXCEPT
                !.fb = [@ EXCEPT !.flash = fb.appr, !.appr = None, !.irr = FALSE,
                                 !.inherited = fb.required, !.created = FALSE,
                                 !.n = fb.n + 1, !.reval = fb.n + 1],
                !.tasks = Append(@, Task("revalidate", fb.n + 1, None))]))
  <2> DEFINE f == [fb EXCEPT !.flash = fb.appr, !.appr = None, !.irr = FALSE,
                             !.inherited = fb.required, !.created = FALSE,
                             !.n = fb.n + 1, !.reval = fb.n + 1]
             task == Task("revalidate", fb.n + 1, None)
             q == [World EXCEPT
                      !.fb = [@ EXCEPT !.flash = fb.appr, !.appr = None, !.irr = FALSE,
                                       !.inherited = fb.required, !.created = FALSE,
                                       !.n = fb.n + 1, !.reval = fb.n + 1],
                      !.tasks = Append(@, Task("revalidate", fb.n + 1, None))]
  <2>1. Become(Published(q)) /\ q = [World EXCEPT !.fb = f, !.tasks = Append(tasks, task)]
    <3>1. Become(Published(q))
      BY <1>5
    <3>2. q = [World EXCEPT !.fb = f, !.tasks = Append(tasks, task)]
      BY <1>2 DEF World
    <3> QED BY <3>1, <3>2
  <2>2. fb.n \in Nat /\ fb.n + 1 \in Attempts /\ fb.n + 1 # 0
    BY <1>3, <1>5, Bounds DEF Attempts, Bridges
  <2>3. /\ f \in Bridges /\ f.up = fb.up /\ f.quit = fb.quit /\ f.flash # None /\ f.n = fb.n + 1
        /\ f.started = fb.started /\ f.lease = fb.lease /\ f.reval = fb.n + 1 /\ f.val = fb.val
        /\ f.recheck = fb.recheck /\ ~f.irr /\ f.required = fb.required /\ ~f.created
        /\ f.inherited = fb.required
    BY ZenonT(60), <1>1, <1>3, <2>2 DEF Bridges
  <2>4. task \in Tasks /\ task.kind = "revalidate" /\ task.id # 0
    BY <2>2, TaskTypes, Bounds
  <2>5. /\ q.fb = f /\ q.ctl = ctl /\ q.disk = disk /\ q.tasks = Append(tasks, task) /\ q.left = left
        /\ q \in Worlds
    <3> HIDE DEF f, task, q
    <3>1. Append(tasks, task) \in Seq(Tasks)
      BY <1>3, <2>4, Appended
    <3> QED BY <1>2, <2>1, <2>3, <3>1 DEF Worlds
  <2> HIDE DEF f, task, q
  <2>6. ~fb.started /\ fb.lease = 0 /\ fb.recheck = 0
    BY <1>1, <1>2 DEF Sound, Nearly, Shape
  <2>7. Shape(f) /\ Agree(f, ctl, told)
    BY <1>1, <2>2, <2>3, <2>6 DEF Shape, Agree
  <2>8. Sensible(Append(tasks, task)) /\ Owned(f, upd, Append(tasks, task), events)
    <3>1. Sensible(tasks) /\ Owned(f, upd, tasks, events)
      BY <1>2, <2>3, <2>6 DEF Sound, Nearly, Owned
    <3> QED BY <1>3, <2>4, <3>1, MoreTasks
  <2>9. Kept(fb, disk, left, bench.touched)
    BY <1>2, <2>6 DEF Sound, Nearly, Recorded
  <2>10. bench.touched <= fb.n + 1 /\ bench.touched # fb.n + 1
    BY <1>3, <2>2, <2>9 DEF Kept
  <2>11. Recorded(f, disk, upd, Append(tasks, task), events, left, bench.touched)
    BY <1>1, <2>3, <2>6, <2>9, <2>10 DEF Recorded, Kept, Prepared
  <2>12. Nearly(q, told, events, port, upd, bench.touched)
    BY <1>1, <1>2, <2>3, <2>5, <2>7, <2>8, <2>11 DEF Sound, Nearly
  <2>13. q.fb.required => q.ctl.interlock \/ Shut(q.ctl, port)
    BY <1>2, <2>3, <2>5 DEF Sound
  <2> QED BY <1>1, <1>2, <2>1, <2>5, <2>12, <2>13, PublishedSound, UserSound
<1> QED BY <1>4, <1>5 DEF RequestFlash

\* A world that has only used up a mishap.
LEMMA SpentSound ==
    ASSUME NEW w \in Worlds, NEW td, NEW es, NEW p, NEW u, NEW t,
           Sound(w, td, es, p, u, t), w.left.mishaps > 0, NEW mishap \in Mishaps
    PROVE  /\ [w EXCEPT !.left = Spent(@, mishap)] \in Worlds
           /\ Sound([w EXCEPT !.left = Spent(@, mishap)], td, es, p, u, t)
           /\ [w EXCEPT !.left = Spent(@, mishap)].fb = w.fb
<1> DEFINE l == Spent(w.left, mishap)
           q == [w EXCEPT !.left = l]
<1>1. l \in Lefts /\ (Faultless(l) => Faultless(w.left))
  BY WorldFields, SpentLeft
<1> HIDE DEF l
<1>2. /\ q \in Worlds /\ q.fb = w.fb /\ q.ctl = w.ctl /\ q.disk = w.disk /\ q.tasks = w.tasks
      /\ q.left = l
  BY <1>1 DEF Worlds
<1>3. q = [w EXCEPT !.left = Spent(@, mishap)]
  BY DEF l
<1> HIDE DEF q
<1>4. Nearly(q, td, es, p, u, t)
  BY <1>1, <1>2, AlikeNearly DEF Sound, Nearly, Alike
<1> QED BY <1>2, <1>3, <1>4 DEF Sound

\* requestCancel: the attempt ends, or the updater is asked to.
LEMMA RequestCancelKeeps ==
    ASSUME FirmwareInvariant, RequestCancel
    PROVE  FirmwareInvariant'
<1> DEFINE q == [World EXCEPT !.left = Spent(@, "cancel")]
<1>1. fb.up /\ fb.flash # None /\ left.mishaps > 0 /\ UserOnly /\ (\E x \in Cancelled(q) : Become(x))
  BY DEF RequestCancel, Running, Busy, May, BecomeOneOf
<1>2. /\ World \in Worlds /\ Sound(World, told, events, port, upd, bench.touched)
      /\ World.fb = fb /\ World.left = left
      /\ told \in Seq(Jobs(Attempts)) /\ port \in {"open", "closed"}
  BY <1>1, SoundWorld
<1>3. q \in Worlds /\ Sound(q, told, events, port, upd, bench.touched) /\ q.fb = fb
  BY <1>1, <1>2, SpentSound DEF Mishaps
<1> HIDE DEF q
<1>4. PICK x \in Cancelled(q) : Become(x)
  BY <1>1
<1>5. CASE ~fb.started
  <2>1. x \in Abandoned(q)
    BY <1>3, <1>4, <1>5 DEF Cancelled
  <2>2. Settled(q, told, events, port, upd, bench.touched) /\ ~q.fb.created
    BY <1>1, <1>3, <1>5, NotStartedIsSettled
  <2> QED BY <1>1, <1>2, <1>3, <1>4, <2>1, <2>2, AbandonedSound, UserSound
<1>6. CASE fb.started
  <2> DEFINE task == Task("cancel", 0, None)
  <2>1. x = [q EXCEPT !.tasks = Append(@, task)]
    BY <1>3, <1>4, <1>6 DEF Cancelled
  <2>2. task \in Tasks /\ task.kind = "cancel"
    BY TaskTypes
  <2>3. q.tasks \in Seq(Tasks) /\ Sensible(q.tasks)
    BY <1>3, WorldFields DEF Sound, Nearly
  <2> HIDE DEF task
  <2>4. Append(q.tasks, task) \in Seq(Tasks) /\ Sensible(Append(q.tasks, task))
        /\ Owned(q.fb, upd, Append(q.tasks, task), events)
        /\ Recorded(q.fb, q.disk, upd, Append(q.tasks, task), events, q.left, bench.touched)
    BY <1>3, <2>2, <2>3, MoreTasks DEF Sound, Nearly
  <2>5. /\ x \in Worlds /\ x.fb = q.fb /\ x.ctl = q.ctl /\ x.disk = q.disk /\ x.left = q.left
        /\ x.tasks = Append(q.tasks, task)
    BY <1>3, <2>1, <2>4 DEF Worlds
  <2>6. Sound(x, told, events, port, upd, bench.touched)
    BY <1>3, <2>4, <2>5 DEF Sound, Nearly
  <2> QED BY <1>1, <1>4, <2>5, <2>6, UserSound
<1> QED BY <1>5, <1>6

\* What only changes the controller.
LEMMA ControllerKeeps ==
    ASSUME FirmwareInvariant, fb.up, NEW c \in Controllers(Attempts), Controller(c),
           LeaseInvariant(c, told, port), c.interlock = ctl.interlock, Agree(fb, c, told)
    PROVE  FirmwareInvariant'
<1> DEFINE x == [World EXCEPT !.ctl = c]
<1>1. /\ World \in Worlds /\ Sound(World, told, events, port, upd, bench.touched)
      /\ World.fb = fb /\ World.ctl = ctl /\ World.disk = disk /\ World.tasks = tasks
      /\ World.left = left
  BY SoundWorld
<1>2. /\ x \in Worlds /\ x.fb = fb /\ x.ctl = c /\ x.disk = disk /\ x.tasks = tasks /\ x.left = left
  BY <1>1 DEF Worlds
<1>3. Become(x) /\ UserOnly
  BY DEF Controller
<1> HIDE DEF x
<1>4. Sound(x, told, events, port, upd, bench.touched)
  BY <1>1, <1>2 DEF Sound, Nearly
<1> QED BY <1>2, <1>3, <1>4, UserSound

\* The controller's own commands and the discovery.
LEMMA ControllerActions ==
    ASSUME FirmwareInvariant, ConnectDevice \/ DisconnectDevice \/ StartOperation \/ PrinterSnapshot
    PROVE  FirmwareInvariant'
<1>1. fb.up
  BY DEF ConnectDevice, DisconnectDevice, StartOperation, PrinterSnapshot, Running
<1>2. /\ World \in Worlds /\ Sound(World, told, events, port, upd, bench.touched)
      /\ World.fb = fb /\ World.ctl = ctl
      /\ told \in Seq(Jobs(Attempts)) /\ port \in {"open", "closed"}
  BY <1>1, SoundWorld
<1>3. ctl \in Controllers(Attempts) /\ 0 \in Attempts
  BY <1>2, WorldFields, Bounds
<1>4. LeaseInvariant(ctl, told, port) /\ Agree(fb, ctl, told) /\ Shape(fb)
  BY <1>2 DEF Sound, Nearly
<1>5. ~Exclusive(ctl) => fb.lease = 0 /\ ~fb.started /\ fb.recheck = 0
  BY <1>4 DEF Agree, Exclusive, Shape
<1>6. CASE ConnectDevice
  <2> DEFINE c == Connected(ctl)
  <2>1. /\ c \in Controllers(Attempts) /\ LeaseInvariant(c, told, port)
        /\ c.interlock = ctl.interlock /\ (Exclusive(ctl) => c = ctl)
    BY <1>2, <1>3, <1>4, ConnectedKeeps
  <2>2. Controller(c)
    BY <1>6 DEF ConnectDevice
  <2> HIDE DEF c
  <2>3. Agree(fb, c, told)
    BY <1>4, <1>5, <2>1 DEF Agree
  <2> QED BY <1>1, <2>1, <2>2, <2>3, ControllerKeeps
<1>7. CASE DisconnectDevice
  <2> DEFINE c == Disconnected(ctl)
  <2>1. c \in Controllers(Attempts) /\ LeaseInvariant(c, told, port) /\ c.interlock = ctl.interlock
    BY <1>2, <1>3, <1>4, DisconnectedKeeps
  <2>2. Controller(c) /\ ~Exclusive(ctl)
    BY <1>7 DEF DisconnectDevice
  <2> HIDE DEF c
  <2>3. Agree(fb, c, told)
    BY <1>5, <2>2 DEF Agree
  <2> QED BY <1>1, <2>1, <2>2, <2>3, ControllerKeeps
<1>8. CASE StartOperation
  <2> DEFINE c == Operating(ctl)
  <2>1. Controller(c) /\ MayOperate(ctl) /\ ~Exclusive(ctl)
    BY <1>8 DEF StartOperation, MayOperate
  <2>2. c \in Controllers(Attempts) /\ LeaseInvariant(c, told, port) /\ c.interlock = ctl.interlock
    BY <1>2, <1>3, <1>4, <2>1, OperatingKeeps
  <2> HIDE DEF c
  <2>3. Agree(fb, c, told)
    BY <1>5, <2>1 DEF Agree
  <2> QED BY <1>1, <2>1, <2>2, <2>3, ControllerKeeps
<1>9. CASE PrinterSnapshot
  <2>1. PICK present \in BOOLEAN : Controller(Seen(ctl, present))
    BY <1>9 DEF PrinterSnapshot
  <2> DEFINE c == Seen(ctl, present)
  <2>2. /\ c \in Controllers(Attempts) /\ LeaseInvariant(c, told, port) /\ c.interlock = ctl.interlock
        /\ c.lease = ctl.lease /\ c.pending = ctl.pending /\ (Exclusive(ctl) => ~c.connected)
        /\ (Without("quiesce", ctl.jobs) <=> Without("quiesce", c.jobs))
    BY <1>2, <1>3, <1>4, SeenKeeps
  <2>3. Controller(c)
    BY <2>1
  <2> HIDE DEF c
  <2>4. Quiet(ctl, told) => Quiet(c, told)
    BY <2>2 DEF Quiet, Exclusive
  <2>5. Agree(fb, c, told)
    BY <1>4, <2>2, <2>4 DEF Agree
  <2> QED BY <1>1, <2>2, <2>3, <2>5, ControllerKeeps
<1> QED BY <1>6, <1>7, <1>8, <1>9

-----------------------------------------------------------------------------
(* The journal                                                                *)

\* Two bridges that may only differ in what they say of the journal.
Close(f, g) ==
    /\ g.up = f.up /\ g.flash = f.flash /\ g.n = f.n /\ g.started = f.started /\ g.irr = f.irr
    /\ g.lease = f.lease /\ g.recheck = f.recheck /\ g.reval = f.reval /\ g.val = f.val
    /\ g.quit = f.quit /\ g.shutdown = f.shutdown /\ g.inherited = f.inherited

\* Two worlds that may only differ in the journal.
Beside(w, x) ==
    /\ x \in Worlds /\ Close(w.fb, x.fb) /\ x.ctl = w.ctl /\ x.tasks = w.tasks
    /\ Faultless(x.left) => Faultless(w.left)

\* A write leaves the journal as it was or as it was to be, and a failure
\* leaves its mark.
LEMMA PutEffect ==
    ASSUME NEW w \in Worlds, NEW record \in Records \cup {None}, NEW o \in Put(w, record)
    PROVE  /\ o.w \in Worlds /\ o.w.fb = w.fb /\ o.w.ctl = w.ctl /\ o.w.tasks = w.tasks
           /\ o.ok \in BOOLEAN /\ (Faultless(o.w.left) => Faultless(w.left))
           /\ o.ok => o.w.disk = record /\ o.w.left = w.left
           /\ ~o.ok => o.w.disk \in {w.disk, record} /\ ~Faultless(o.w.left)
<1> DEFINE done == [w EXCEPT !.disk = record]
           l == Spent(w.left, "fault")
<1>1. /\ done \in Worlds /\ done.fb = w.fb /\ done.ctl = w.ctl /\ done.tasks = w.tasks
      /\ done.disk = record /\ done.left = w.left
  BY DEF Worlds
<1>2. CASE o = Outcome(TRUE, done)
  BY <1>1, <1>2 DEF Outcome
<1>3. ASSUME w.left.mishaps # 0, NEW x \in {w, done}, o = Outcome(FALSE, [x EXCEPT !.left = Spent(@, "fault")])
      PROVE  /\ o.w \in Worlds /\ o.w.fb = w.fb /\ o.w.ctl = w.ctl /\ o.w.tasks = w.tasks
             /\ o.ok = FALSE /\ o.w.disk \in {w.disk, record} /\ ~Faultless(o.w.left)
             /\ (Faultless(o.w.left) => Faultless(w.left))
  <2> DEFINE y == [x EXCEPT !.left = l]
  <2>1. w.left \in Lefts /\ w.left.mishaps > 0
    BY <1>3, WorldFields DEF Lefts
  <2>2. l \in Lefts /\ ~Faultless(l)
    BY <2>1, SpentLeft DEF Mishaps
  <2>3. /\ x \in Worlds /\ x.fb = w.fb /\ x.ctl = w.ctl /\ x.tasks = w.tasks /\ x.left = w.left
        /\ x.disk \in {w.disk, record}
    BY <1>1, <1>3
  <2>4. o.w = y /\ o.ok = FALSE
    BY <1>3, <2>3 DEF Outcome
  <2> HIDE DEF l, done
  <2>5. /\ y \in Worlds /\ y.fb = x.fb /\ y.ctl = x.ctl /\ y.tasks = x.tasks /\ y.left = l
        /\ y.disk = x.disk
    BY <2>2, <2>3 DEF Worlds
  <2> HIDE DEF y
  <2> QED BY <2>2, <2>3, <2>4, <2>5
<1>4. \/ o = Outcome(TRUE, done)
      \/ /\ w.left.mishaps # 0
         /\ \E x \in {w, done} : o = Outcome(FALSE, [x EXCEPT !.left = Spent(@, "fault")])
  BY DEF Put
<1> QED BY <1>2, <1>3, <1>4

\* A journal that could not be written is taken for one, and nothing else is
\* changed.
LEMMA InvalidatedEffect ==
    ASSUME NEW w \in Worlds
    PROVE  /\ Beside(w, Invalidated(w)) /\ Invalidated(w).fb.required
           /\ Invalidated(w).disk = w.disk /\ Invalidated(w).left = w.left
           /\ Invalidated(w).fb.created = w.fb.created /\ Invalidated(w).fb.rec = w.fb.rec
           /\ Invalidated(w).fb.pend = w.fb.pend
<1> DEFINE f == [w.fb EXCEPT !.required = TRUE, !.invalid = TRUE]
           x == [w EXCEPT !.fb = f]
<1>1. w.fb \in Bridges
  BY WorldFields
<1>2. f \in Bridges /\ f.required /\ Close(w.fb, f) /\ f.created = w.fb.created
      /\ f.rec = w.fb.rec /\ f.pend = w.fb.pend
  BY <1>1 DEF Bridges, Close
<1>3. Invalidated(w) = x
  BY DEF Invalidated, Worlds
<1> HIDE DEF f
<1>4. /\ x \in Worlds /\ x.fb = f /\ x.ctl = w.ctl /\ x.tasks = w.tasks /\ x.disk = w.disk
      /\ x.left = w.left
  BY <1>2 DEF Worlds
<1> QED BY <1>2, <1>3, <1>4 DEF Beside

\* What a change of the journal does not touch.
LEMMA BesideNearly ==
    ASSUME NEW w, NEW x, NEW td, NEW es, NEW p, NEW u, NEW t,
           Nearly(w, td, es, p, u, t), Beside(w, x),
           Recorded(x.fb, x.disk, u, x.tasks, es, x.left, t)
    PROVE  Nearly(x, td, es, p, u, t)
<1>1. Shape(x.fb)
  BY DEF Nearly, Beside, Close, Shape
<1>2. Owned(x.fb, u, x.tasks, es)
  BY DEF Nearly, Beside, Close, Owned
<1>3. Agree(x.fb, x.ctl, td)
  BY DEF Nearly, Beside, Close, Agree
<1> QED BY <1>1, <1>2, <1>3 DEF Nearly, Beside, Close

\* requestRecoveryAcknowledgement
LEMMA AcknowledgeKeeps ==
    ASSUME FirmwareInvariant, Acknowledge
    PROVE  FirmwareInvariant'
<1>1. /\ fb.up /\ fb.flash = None /\ fb.required
      /\ port' = port /\ told' = told /\ upd' = upd /\ events' = events
      /\ bench' = [bench EXCEPT !.touched = 0]
  BY DEF Acknowledge, Running, Busy
<1>2. PICK o \in Put(World, None) :
        Become(IF o.ok THEN Acknowledged(o.w) ELSE Published(Invalidated(o.w)))
  BY DEF Acknowledge
<1>3. /\ World \in Worlds /\ Sound(World, told, events, port, upd, bench.touched)
      /\ UpdaterTypes /\ UpdaterInvariant
      /\ told \in Seq(Jobs(Attempts)) /\ port \in {"open", "closed"} /\ events \in Seq(Events)
      /\ Answers(events) /\ World.fb = fb
  BY <1>1, SoundWorld
<1>4. bench'.touched = 0 /\ UpdaterTypes' /\ UpdaterInvariant'
  <2>1. bench' \in Benches /\ bench'.touched = 0 /\ bench'.unit = bench.unit
        /\ bench'.display = bench.display
    BY <1>1, <1>3 DEF UpdaterTypes, Benches
  <2>2. Fits(upd, bench')
    BY <1>3, <2>1 DEF UpdaterInvariant, Fits
  <2> QED BY <1>1, <1>3, <2>1, <2>2 DEF UpdaterTypes, UpdaterInvariant
<1>5. /\ o.w \in Worlds /\ o.w.fb = fb /\ o.w.ctl = World.ctl /\ o.w.tasks = World.tasks
      /\ o.ok \in BOOLEAN /\ (o.ok => o.w.disk = None)
  BY <1>3, PutEffect
<1>6. ~fb.started /\ fb.n \in Attempts
  BY <1>1, <1>3, WorldFields DEF Sound, Nearly, Shape
<1>7. ASSUME NEW x \in Worlds, Become(x), Sound(x, told, events, port, upd, 0)
      PROVE  FirmwareInvariant'
  BY <1>1, <1>3, <1>4, <1>7, BecameSound
<1>8. CASE ~o.ok
  <2> DEFINE q == Invalidated(o.w)
  <2>1. Beside(o.w, q) /\ q.fb.required
    BY <1>5, InvalidatedEffect
  <2>2. Beside(World, q)
    BY <1>3, <1>5, <2>1, PutEffect DEF Beside
  <2> HIDE DEF q
  <2>3. Recorded(q.fb, q.disk, upd, q.tasks, events, q.left, 0)
    BY <1>1, <1>3, <1>6, <2>1, <2>2, Bounds DEF Recorded, Kept, Beside, Close
  <2>4. Nearly(q, told, events, port, upd, 0)
    <3>1. Nearly(World, told, events, port, upd, bench.touched)
      BY <1>3 DEF Sound
    <3>2. Shape(q.fb) /\ Owned(q.fb, upd, q.tasks, events) /\ Agree(q.fb, q.ctl, told) /\ q.fb.up
      BY <2>2, <3>1 DEF Nearly, Beside, Close, Shape, Owned, Agree
    <3> QED BY <2>2, <2>3, <3>1, <3>2 DEF Nearly, Beside
  <2>5. q.fb.required => q.ctl.interlock \/ Shut(q.ctl, port)
    BY <1>1, <1>3, <2>2 DEF Sound, Beside
  <2>6. Become(Published(q))
    BY <1>2, <1>8 DEF q
  <2>7. q \in Worlds
    BY <2>2 DEF Beside
  <2> QED BY <1>3, <1>7, <2>4, <2>5, <2>6, <2>7, PublishedSound
<1>9. CASE o.ok
  <2> DEFINE f == [fb EXCEPT !.required = FALSE, !.invalid = FALSE, !.inherited = FALSE,
                             !.created = FALSE, !.rec = None, !.pend = FALSE]
             q == [o.w EXCEPT !.fb = f]
             x == [Published(q) EXCEPT !.ctl = ResumedAfterAcknowledgement(@)]
  <2>1. Become(x)
    <3>1. Become(Acknowledged(o.w))
      BY <1>2, <1>9
    <3>2. Acknowledged(o.w) = x
      BY <1>5 DEF Acknowledged
    <3> QED BY <3>1, <3>2
  <2>2. /\ f \in Bridges /\ f.up = fb.up /\ f.flash = fb.flash /\ f.n = fb.n
        /\ f.started = fb.started /\ f.irr = fb.irr /\ f.lease = fb.lease
        /\ f.recheck = fb.recheck /\ f.reval = fb.reval /\ f.val = fb.val /\ f.quit = fb.quit
        /\ ~f.required
    <3>1. fb \in Bridges
      BY <1>3, WorldFields
    <3> QED BY <3>1 DEF Bridges
  <2> HIDE DEF f
  <2>3. /\ q \in Worlds /\ q.fb = f /\ q.ctl = World.ctl /\ q.tasks = World.tasks /\ q.disk = None
    BY <1>5, <1>9, <2>2 DEF Worlds
  <2> HIDE DEF q
  <2>4. Nearly(q, told, events, port, upd, 0)
    <3>1. Nearly(World, told, events, port, upd, bench.touched)
      BY <1>3 DEF Sound
    <3>2. Shape(f)
      BY <1>3, <2>2, <3>1 DEF Nearly, Shape
    <3>3. Owned(f, upd, q.tasks, events)
      BY <1>3, <2>2, <2>3, <3>1 DEF Nearly, Owned
    <3>4. Agree(f, q.ctl, told)
      BY <1>3, <2>2, <2>3, <3>1 DEF Nearly, Agree
    <3>5. Recorded(f, None, upd, q.tasks, events, q.left, 0)
      BY <1>1, <1>6, <2>2, Bounds DEF Recorded, Kept
    <3> QED BY <1>1, <2>2, <2>3, <3>1, <3>2, <3>3, <3>4, <3>5 DEF Nearly
  <2>5. /\ Published(q) \in Worlds /\ Sound(Published(q), told, events, port, upd, 0)
        /\ Published(q).fb = f
    BY <1>3, <2>2, <2>3, <2>4, PublishedSound
  <2> DEFINE y == Published(q)
             c == ResumedAfterAcknowledgement(y.ctl)
  <2> HIDE DEF y
  <2>6. /\ c \in Controllers(Attempts) /\ LeaseInvariant(c, told, port)
        /\ c.interlock = y.ctl.interlock
    BY <1>3, <2>5, WorldFields, Bounds, ResumedKeeps DEF y, Sound, Nearly
  <2>7. x = [y EXCEPT !.ctl = c]
    BY DEF y
  <2> HIDE DEF x, c
  <2>8. /\ x \in Worlds /\ x.fb = f /\ x.ctl = c /\ x.tasks = y.tasks /\ x.disk = y.disk
        /\ x.left = y.left
    BY <2>5, <2>6, <2>7 DEF y, Worlds
  <2>9. Agree(f, c, told)
    BY <1>1, <1>3, <2>2 DEF Sound, Nearly, Shape, Agree
  <2>10. Sound(x, told, events, port, upd, 0)
    BY <2>5, <2>6, <2>8, <2>9 DEF Sound, Nearly, y
  <2> QED BY <1>7, <2>1, <2>8, <2>10
<1> QED BY <1>5, <1>8, <1>9

-----------------------------------------------------------------------------
(* The end of the runtime, and the deadline                                   *)

\* A bridge g in the place of that of the world w, alike to it.
LEMMA AlikeWorld ==
    ASSUME NEW w \in Worlds, NEW td, NEW es, NEW p, NEW u, NEW t,
           Sound(w, td, es, p, u, t), NEW g \in Bridges, Alike(w.fb, g), Shape(g)
    PROVE  /\ [w EXCEPT !.fb = g] \in Worlds /\ Sound([w EXCEPT !.fb = g], td, es, p, u, t)
           /\ [w EXCEPT !.fb = g].fb = g
<1> DEFINE q == [w EXCEPT !.fb = g]
<1>1. /\ q \in Worlds /\ q.fb = g /\ q.ctl = w.ctl /\ q.disk = w.disk /\ q.tasks = w.tasks
      /\ q.left = w.left
  BY DEF Worlds
<1> HIDE DEF q
<1>2. Nearly(q, td, es, p, u, t)
  BY <1>1, AlikeNearly DEF Sound
<1>3. Sound(q, td, es, p, u, t)
  BY <1>1, <1>2 DEF Sound, Alike
<1> QED BY <1>1, <1>3 DEF q

\* publishState, when the interlock is as it should be.
LEMMA PublishedAgain ==
    ASSUME NEW w \in Worlds, NEW td \in Seq(Jobs(Attempts)), NEW p \in {"open", "closed"},
           NEW es, NEW u, NEW t, Sound(w, td, es, p, u, t)
    PROVE  /\ Published(w) \in Worlds /\ Sound(Published(w), td, es, p, u, t)
           /\ Published(w).fb = w.fb
BY PublishedSound DEF Sound

\* prepareForShutdown: an update that the updater knows of is waited for.
LEMMA ShutDownSound ==
    ASSUME NEW w \in Worlds, NEW td \in Seq(Jobs(Attempts)), NEW p \in {"open", "closed"},
           NEW es, NEW u, NEW t, Sound(w, td, es, p, u, t), ~w.fb.quit,
           NEW x \in ShutDown(w)
    PROVE  x \in Worlds /\ Sound(x, td, es, p, u, t)
<1> DEFINE f == [w.fb EXCEPT !.shutdown = TRUE, !.appr = None]
           q == [w EXCEPT !.fb.shutdown = TRUE, !.fb.appr = None]
<1>1. w.fb \in Bridges /\ Shape(w.fb)
  BY WorldFields DEF Sound, Nearly
<1>2. /\ f \in Bridges /\ Alike(w.fb, f) /\ f.quit = w.fb.quit /\ f.val = w.fb.val
      /\ f.reval = w.fb.reval
  BY <1>1 DEF Bridges, Alike
<1>3. q = [w EXCEPT !.fb = f]
  BY DEF Worlds
<1> HIDE DEF f
<1>4. Shape(f)
  BY <1>1, <1>2 DEF Shape, Alike
<1>5. q \in Worlds /\ Sound(q, td, es, p, u, t) /\ q.fb = f
  <2> HIDE DEF q
  <2> QED BY <1>2, <1>3, <1>4, AlikeWorld
<1> HIDE DEF q
<1>6. ASSUME NEW y \in Worlds, Sound(y, td, es, p, u, t), NEW quit \in BOOLEAN,
             quit => y.fb.flash = None
      PROVE  LET z == [y EXCEPT !.fb.quit = quit] IN z \in Worlds /\ Sound(z, td, es, p, u, t)
  <2> DEFINE g == [y.fb EXCEPT !.quit = quit]
  <2>1. y.fb \in Bridges /\ Shape(y.fb)
    BY <1>6, WorldFields DEF Sound, Nearly
  <2>2. /\ g \in Bridges /\ Alike(y.fb, g) /\ g.quit = quit /\ g.val = y.fb.val
        /\ g.reval = y.fb.reval
    BY <2>1 DEF Bridges, Alike
  <2> HIDE DEF g
  <2>3. Shape(g)
    BY <1>6, <2>1, <2>2 DEF Shape, Alike
  <2>4. [y EXCEPT !.fb.quit = quit] = [y EXCEPT !.fb = g]
    BY DEF g, Worlds
  <2> QED BY <1>6, <2>2, <2>3, <2>4, AlikeWorld
<1>7. CASE w.fb.val # 0
  <2> DEFINE g == [f EXCEPT !.val = 0, !.quit = TRUE]
  <2>1. x = Published([q EXCEPT !.fb.val = 0, !.fb.quit = TRUE])
    BY <1>7 DEF ShutDown, q
  <2>2. [q EXCEPT !.fb.val = 0, !.fb.quit = TRUE] = [q EXCEPT !.fb = g]
    BY <1>5 DEF Worlds
  <2>3. g \in Bridges /\ Alike(f, g) /\ g.val = 0 /\ g.quit = TRUE /\ g.reval = f.reval
    <3>1. f \in Bridges /\ 0 \in 0 .. MaxValidations
      BY <1>2, Bounds
    <3> QED BY <3>1 DEF Bridges, Alike
  <2>4. f.flash = None
    BY <1>2, <1>4, <1>7 DEF Shape
  <2> HIDE DEF g
  <2>5. Shape(g)
    BY <1>4, <2>3, <2>4 DEF Shape, Alike
  <2> QED BY <1>5, <2>1, <2>2, <2>3, <2>5, AlikeWorld, PublishedAgain
<1>8. CASE w.fb.val = 0 /\ Busy(w.fb) /\ ~w.fb.started
  <2>1. q.fb.flash # None /\ ~q.fb.started
    BY <1>2, <1>5, <1>8 DEF Busy, Alike
  <2>2. Settled(q, td, es, p, u, t) /\ ~q.fb.created
    BY <1>5, <2>1, NotStartedIsSettled
  <2>3. OwnCleared(q) = {q}
    BY <2>2 DEF OwnCleared
  <2>4. x = [Over(q, FALSE) EXCEPT !.fb.quit = TRUE]
    BY <1>8, <2>3 DEF ShutDown, q
  <2>5. /\ Over(q, FALSE) \in Worlds /\ Sound(Over(q, FALSE), td, es, p, u, t)
        /\ Over(q, FALSE).fb.flash = None
    BY <1>5, <2>2, OverSound
  <2> QED BY <1>6, <2>4, <2>5
<1>9. CASE w.fb.val = 0 /\ ~(Busy(w.fb) /\ ~w.fb.started)
  <2> DEFINE quit == ~w.fb.started
             z == [q EXCEPT !.fb.quit = quit]
  <2>1. x = Published(z)
    BY <1>9 DEF ShutDown, q, Busy
  <2>2. quit \in BOOLEAN /\ (quit => q.fb.flash = None)
    BY <1>2, <1>5, <1>9 DEF Busy, Alike
  <2> HIDE DEF quit
  <2>3. z \in Worlds /\ Sound(z, td, es, p, u, t)
    BY <1>5, <1>6, <2>2
  <2> HIDE DEF z
  <2> QED BY <2>1, <2>3, PublishedAgain
<1> QED BY <1>7, <1>8, <1>9

\* The signal handler of main.
LEMMA SignalKeeps ==
    ASSUME FirmwareInvariant, Signal
    PROVE  FirmwareInvariant'
<1> DEFINE q == [World EXCEPT !.left = Spent(@, "signal")]
<1>1. fb.up /\ ~fb.quit /\ left.mishaps > 0 /\ UserOnly /\ (\E x \in ShutDown(q) : Become(x))
  BY DEF Signal, Running, May, BecomeOneOf
<1>2. /\ World \in Worlds /\ Sound(World, told, events, port, upd, bench.touched)
      /\ World.fb = fb /\ World.left = left
      /\ told \in Seq(Jobs(Attempts)) /\ port \in {"open", "closed"}
  BY <1>1, SoundWorld
<1>3. q \in Worlds /\ Sound(q, told, events, port, upd, bench.touched) /\ q.fb = fb
  BY <1>1, <1>2, SpentSound DEF Mishaps
<1> HIDE DEF q
<1> QED BY <1>1, <1>2, <1>3, ShutDownSound, UserSound

\* The deadline ends an attempt that waits for the worker.
LEMMA QuiesceDeadlineKeeps ==
    ASSUME FirmwareInvariant, QuiesceDeadline
    PROVE  FirmwareInvariant'
<1> DEFINE g == [fb EXCEPT !.timer = FALSE]
           q == [World EXCEPT !.fb.timer = FALSE]
<1>1. /\ World \in Worlds /\ Sound(World, told, events, port, upd, bench.touched)
      /\ World.fb = fb /\ fb.up /\ UserOnly
      /\ told \in Seq(Jobs(Attempts)) /\ port \in {"open", "closed"}
  BY SoundWorld DEF QuiesceDeadline, Running
<1>2. fb \in Bridges /\ Shape(fb)
  BY <1>1, WorldFields DEF Sound, Nearly
<1>3. g \in Bridges /\ Alike(fb, g) /\ g.quit = fb.quit /\ g.val = fb.val /\ g.reval = fb.reval
  BY <1>2 DEF Bridges, Alike
<1>4. q = [World EXCEPT !.fb = g]
  BY <1>1 DEF Worlds
<1>5. PICK x : Become(x) /\ x \in (IF Busy(fb) /\ ~fb.started /\ fb.lease # 0 THEN Abandoned(q) ELSE {q})
  BY DEF QuiesceDeadline, BecomeOneOf
<1> HIDE DEF g, q
<1>6. Shape(g)
  BY <1>2, <1>3 DEF Shape, Alike
<1>7. q \in Worlds /\ Sound(q, told, events, port, upd, bench.touched) /\ q.fb = g
  BY <1>1, <1>3, <1>4, <1>6, AlikeWorld
<1>8. CASE Busy(fb) /\ ~fb.started /\ fb.lease # 0
  <2>1. Settled(q, told, events, port, upd, bench.touched) /\ ~q.fb.created
    BY <1>3, <1>7, <1>8, NotStartedIsSettled DEF Busy, Alike
  <2> QED BY <1>1, <1>5, <1>7, <1>8, <2>1, AbandonedSound, UserSound
<1>9. CASE ~(Busy(fb) /\ ~fb.started /\ fb.lease # 0)
  BY <1>1, <1>5, <1>7, <1>9, UserSound
<1> QED BY <1>8, <1>9

-----------------------------------------------------------------------------
(* The journal is written before the updater is told                          *)

\* armRecoveryJournal: a record is there when it says so, and when it does not a
\* file that may have been written is taken for one.
LEMMA ArmedEffect ==
    ASSUME NEW w \in Worlds, NEW t, w.fb.up, Kept(w.fb, w.disk, w.left, t),
           Prepared(w.fb, w.disk, t), NEW o \in Armed(w)
    PROVE  /\ Beside(w, o.w) /\ o.ok \in BOOLEAN
           /\ ~o.ok => ~o.w.fb.created /\ Kept(o.w.fb, o.w.disk, o.w.left, t)
           /\ o.ok => /\ o.w.disk # None /\ o.w.fb.required /\ o.w.fb.created = ~o.w.fb.inherited
                      /\ o.w.fb.inherited => o.w.disk = w.disk
                      /\ ~o.w.fb.inherited => t = 0
                      /\ o.w.fb.rec = o.w.disk
                      /\ (o.w.fb.inherited /\ o.w.fb.pend) \/ o.w.disk.id = o.w.fb.n
<1> DEFINE record == [id |-> w.fb.n, phase |-> "Armed"]
<1>1. w.fb \in Bridges /\ record \in Records /\ record # None
  BY WorldFields, NoRecordAssumption DEF Records, Phases
<1>2. CASE w.fb.invalid
  <2>1. o = Outcome(FALSE, w)
    BY <1>2 DEF Armed
  <2> QED BY <2>1 DEF Outcome, Beside, Close, Prepared
<1>3. CASE ~w.fb.invalid /\ w.fb.inherited /\ w.disk = None
  <2>1. o.ok = FALSE /\ o.w = Invalidated(w)
    BY <1>3 DEF Armed, Outcome
  <2>2. /\ Beside(w, o.w) /\ o.w.fb.required /\ o.w.disk = w.disk /\ o.w.left = w.left
        /\ o.w.fb.created = w.fb.created
    BY <2>1, InvalidatedEffect
  <2> QED BY <2>1, <2>2 DEF Prepared, Kept, Beside, Close
<1>4. CASE ~w.fb.invalid /\ w.fb.inherited /\ w.disk # None
  <2> DEFINE f == [w.fb EXCEPT !.rec = w.disk, !.pend = TRUE]
             x == [w EXCEPT !.fb = f]
  <2>1. o.ok = TRUE /\ o.w = x
    <3> DEFINE y == [w EXCEPT !.fb.rec = w.disk, !.fb.pend = TRUE]
    <3>1. o = Outcome(TRUE, y)
      BY <1>4 DEF Armed
    <3>2. y = x
      BY DEF Worlds
    <3> HIDE DEF y, x
    <3> QED BY <3>1, <3>2 DEF Outcome
  <2>2. /\ f \in Bridges /\ Close(w.fb, f) /\ f.required = w.fb.required /\ f.rec = w.disk
        /\ f.pend /\ f.created = w.fb.created
    BY <1>1, WorldFields DEF Bridges, Close
  <2> HIDE DEF f
  <2>3. x \in Worlds /\ x.fb = f /\ x.ctl = w.ctl /\ x.tasks = w.tasks /\ x.left = w.left /\ x.disk = w.disk
    BY <2>2 DEF Worlds
  <2> HIDE DEF x
  <2>4. Beside(w, o.w)
    BY <2>1, <2>2, <2>3 DEF Beside
  <2>5. ~f.created /\ f.inherited /\ f.required
    BY <1>4, <2>2 DEF Close, Prepared, Kept
  <2>6. f.created = ~f.inherited
    BY <2>2, <2>5 DEF Bridges
  <2>7. /\ o.w.fb = f /\ o.w.disk = w.disk /\ w.disk # None
    BY <1>4, <2>1, <2>3
  <2>8. o.w.fb.required /\ o.w.fb.inherited /\ o.w.fb.pend /\ o.w.fb.rec = o.w.disk
        /\ o.w.fb.created = ~o.w.fb.inherited
    BY <2>2, <2>5, <2>6, <2>7
  <2> QED BY <2>1, <2>4, <2>7, <2>8
<1>5. CASE ~w.fb.invalid /\ ~w.fb.inherited
  <2> DEFINE f == [w.fb EXCEPT !.pend = FALSE]
             v == [w EXCEPT !.fb = f]
  <2>1. f \in Bridges /\ Close(w.fb, f) /\ f.required = w.fb.required /\ f.created = w.fb.created
    BY <1>1 DEF Bridges, Close
  <2>2. v = [w EXCEPT !.fb.pend = FALSE]
    BY DEF Worlds
  <2> HIDE DEF f, record
  <2>3. v \in Worlds /\ v.fb = f /\ v.ctl = w.ctl /\ v.tasks = w.tasks /\ v.left = w.left /\ v.disk = w.disk
    BY <2>1 DEF Worlds
  <2>4. PICK a \in Put(v, record) :
          o = IF a.ok
              THEN Outcome(TRUE, [a.w EXCEPT !.fb.created = TRUE, !.fb.required = TRUE, !.fb.rec = record])
              ELSE Outcome(FALSE, Invalidated(a.w))
    <3> HIDE DEF v
    <3> QED BY <1>5, <2>2 DEF Armed, record
  <2> HIDE DEF v
  <2>5. /\ a.w \in Worlds /\ a.w.fb = f /\ a.w.ctl = w.ctl /\ a.w.tasks = w.tasks
        /\ a.ok \in BOOLEAN /\ (Faultless(a.w.left) => Faultless(w.left))
        /\ a.ok => a.w.disk = record
        /\ ~a.ok => a.w.disk \in {w.disk, record}
    BY <1>1, <2>3, PutEffect
  <2>6. w.disk = None /\ t = 0
    BY <1>5 DEF Prepared, Kept
  <2>7. CASE ~a.ok
    <3>1. o.ok = FALSE /\ o.w = Invalidated(a.w)
      BY <2>4, <2>7 DEF Outcome
    <3>2. Beside(a.w, o.w) /\ o.w.fb.required /\ o.w.fb.created = f.created
      BY <2>5, <3>1, InvalidatedEffect
    <3>3. Beside(w, o.w)
      BY <2>1, <2>5, <3>2 DEF Beside, Close
    <3>4. ~o.w.fb.created
      BY <2>1, <3>2 DEF Prepared
    <3>5. t <= o.w.fb.n
      BY <3>3 DEF Kept, Beside, Close
    <3>6. Kept(o.w.fb, o.w.disk, o.w.left, t)
      BY <2>6, <3>2, <3>5 DEF Kept
    <3> QED BY <3>1, <3>3, <3>4, <3>6
  <2>8. CASE a.ok
    <3> DEFINE g == [f EXCEPT !.created = TRUE, !.required = TRUE, !.rec = record]
               x == [a.w EXCEPT !.fb = g]
    <3>1. o.ok = TRUE /\ o.w = x
      BY <2>4, <2>5, <2>8 DEF Outcome, Worlds
    <3>2. g \in Bridges /\ Close(f, g) /\ g.required /\ g.created /\ g.rec = record
      BY <1>1, <2>1 DEF Bridges, Close
    <3> HIDE DEF g
    <3>3. /\ x \in Worlds /\ x.fb = g /\ x.ctl = w.ctl /\ x.tasks = w.tasks /\ x.left = a.w.left
          /\ x.disk = record
      BY <2>5, <2>8, <3>2 DEF Worlds
    <3> HIDE DEF x
    <3>4. Beside(w, o.w)
      BY <2>1, <2>5, <3>1, <3>2, <3>3 DEF Beside, Close
    <3>5. ~g.inherited /\ g.n = w.fb.n
      BY <1>5, <2>1, <3>2 DEF Close
    <3>6. record.id = w.fb.n
      BY DEF record
    <3>7. g.created = ~g.inherited
      BY <3>2, <3>5, WorldFields DEF Bridges
    <3> QED BY <1>1, <2>6, <3>1, <3>2, <3>3, <3>4, <3>5, <3>6, <3>7
  <2> QED BY <2>5, <2>7, <2>8
<1> QED BY <1>2, <1>3, <1>4, <1>5

\* The start of update n is put behind tasks that hold none.
LEMMA StartTask ==
    ASSUME NEW ts \in Seq(Tasks), ~Has("start", ts), Sensible(ts), NEW n \in Nat,
           NEW pkg \in Packages
    PROVE  /\ Append(ts, Task("start", n, pkg)) \in Seq(Tasks)
           /\ Sensible(Append(ts, Task("start", n, pkg)))
           /\ Has("start", Append(ts, Task("start", n, pkg)))
           /\ \A u, es : Free(u, ts, es) => Coming(n, u, Append(ts, Task("start", n, pkg)), es)
<1> DEFINE task == Task("start", n, pkg)
           more == Append(ts, task)
<1>1. task \in Tasks /\ task.kind = "start" /\ task.id = n /\ task.pkg = pkg
  BY TaskTypes
<1> HIDE DEF task
<1>2. /\ more \in Seq(Tasks)
      /\ Len(ts) + 1 \in DOMAIN more /\ more[Len(ts) + 1] = task
      /\ \A i \in DOMAIN more :
            \/ i \in DOMAIN ts /\ more[i] = ts[i]
            \/ i = Len(ts) + 1
  BY <1>1, Appended
<1> HIDE DEF more
<1>3. Sensible(more)
  BY <1>1, <1>2 DEF Sensible
<1>4. Has("start", more)
  BY <1>1, <1>2 DEF Has
<1>5. \A i \in DOMAIN more : more[i].kind = "start" => i = Len(ts) + 1 /\ more[i].id = n
  BY <1>1, <1>2 DEF Has
<1>6. \A u, es : Free(u, ts, es) => Coming(n, u, more, es)
  BY <1>5 DEF Free, Coming
<1> QED BY <1>2, <1>3, <1>4, <1>6 DEF more, task

\* startApprovedFlash: the updater is told when the journal is there, or the
\* attempt ends with the device shut.
LEMMA StartedSound ==
    ASSUME NEW w \in Worlds, NEW td \in Seq(Jobs(Attempts)), NEW p \in {"open", "closed"},
           NEW es, NEW u, NEW t, Sound(w, td, es, p, u, t),
           w.fb.flash # None, ~w.fb.started, w.fb.lease # 0, w.fb.recheck = 0,
           Quiet(w.ctl, td), NEW y \in Started(w), NEW x \in (IF y.fb.started THEN {y} ELSE Abandoned(y))
    PROVE  x \in Worlds /\ Sound(x, td, es, p, u, t)
<1>1. /\ Settled(w, td, es, p, u, t) /\ Prepared(w.fb, w.disk, t) /\ Kept(w.fb, w.disk, w.left, t)
      /\ Shut(w.ctl, p) /\ w.fb.up /\ Shape(w.fb) /\ Agree(w.fb, w.ctl, td)
  BY NotStartedIsSettled, QuietIsShut DEF Sound, Nearly, Recorded
<1>2. PICK o \in Armed(w) :
        y = IF o.ok
            THEN Published([o.w EXCEPT !.fb.started = TRUE, !.fb.irr = FALSE,
                                       !.tasks = Append(@, Task("start", w.fb.n, w.fb.flash))])
            ELSE o.w
  BY DEF Started
<1>3. /\ Beside(w, o.w) /\ o.ok \in BOOLEAN
      /\ ~o.ok => ~o.w.fb.created /\ Kept(o.w.fb, o.w.disk, o.w.left, t)
      /\ o.ok => /\ o.w.disk # None /\ o.w.fb.required /\ o.w.fb.created = ~o.w.fb.inherited
                 /\ o.w.fb.inherited => o.w.disk = w.disk
                 /\ ~o.w.fb.inherited => t = 0
                 /\ o.w.fb.rec = o.w.disk
                 /\ (o.w.fb.inherited /\ o.w.fb.pend) \/ o.w.disk.id = o.w.fb.n
  BY <1>1, ArmedEffect
<1>4. CASE ~o.ok
  <2>1. y = o.w /\ ~y.fb.started /\ y \in Worlds
    BY <1>2, <1>3, <1>4 DEF Beside, Close
  <2>2. Settled(y, td, es, p, u, t)
    BY <1>1, <1>3, <1>4, <2>1 DEF Settled, Beside, Close
  <2> QED BY <1>3, <1>4, <2>1, <2>2, AbandonedSound
<1>5. CASE o.ok
  <2> DEFINE task == Task("start", w.fb.n, w.fb.flash)
             more == Append(w.tasks, task)
             f == [o.w.fb EXCEPT !.started = TRUE, !.irr = FALSE]
             q == [o.w EXCEPT !.fb.started = TRUE, !.fb.irr = FALSE,
                              !.tasks = Append(@, Task("start", w.fb.n, w.fb.flash))]
  <2>1. o.w \in Worlds /\ o.w.fb \in Bridges /\ o.w.tasks = w.tasks /\ o.w.ctl = w.ctl
        /\ Close(w.fb, o.w.fb)
    BY <1>3, WorldFields DEF Beside
  <2>2. /\ f \in Bridges /\ f.up /\ f.flash = w.fb.flash /\ f.n = w.fb.n /\ f.started /\ ~f.irr
        /\ f.lease = w.fb.lease /\ f.recheck = 0 /\ f.reval = w.fb.reval /\ f.val = w.fb.val
        /\ f.quit = w.fb.quit /\ f.required = o.w.fb.required /\ f.created = o.w.fb.created
        /\ f.inherited = o.w.fb.inherited /\ f.rec = o.w.fb.rec /\ f.pend = o.w.fb.pend
    BY <1>1, <2>1 DEF Bridges, Close
  <2>3. w.fb.flash \in Packages /\ w.fb.n \in Nat /\ w.tasks \in Seq(Tasks)
    BY WorldFields, Bounds
  <2>4. ~Has("start", w.tasks) /\ Sensible(w.tasks) /\ Free(u, w.tasks, es)
    BY <1>1 DEF Settled, Free
  <2>5. more \in Seq(Tasks) /\ Sensible(more) /\ Has("start", more) /\ Coming(w.fb.n, u, more, es)
    BY <2>3, <2>4, StartTask
  <2>6. q = [o.w EXCEPT !.fb = f, !.tasks = more]
    BY <2>1 DEF Worlds
  <2>7. y = Published(q)
    BY <1>2, <1>5
  <2> HIDE DEF f, more, task, q
  <2>8. q \in Worlds /\ q.fb = f /\ q.tasks = more /\ q.ctl = w.ctl /\ q.disk = o.w.disk /\ q.left = o.w.left
    BY <2>1, <2>2, <2>5, <2>6 DEF Worlds
  <2>9. Shape(f)
    BY <1>1, <2>2 DEF Shape
  <2>10. Owned(f, u, more, es)
    BY <2>2, <2>5 DEF Owned
  <2>11. Agree(f, w.ctl, td)
    BY <1>1, <2>2 DEF Agree
  <2>12. Begun(f, o.w.disk, u, more, es, o.w.left, t)
    <3>1. Faultless(o.w.left) => Faultless(w.left)
      BY <1>3 DEF Beside
    <3>2. Faultless(o.w.left) /\ t # 0 => o.w.disk.id = t /\ o.w.disk.phase # "Armed"
      BY <1>1, <1>3, <1>5, <3>1 DEF Kept
    <3>3. t # f.n /\ t <= f.n
      BY <1>1, <2>2 DEF Prepared, Kept
    <3>4. o.w.disk # None /\ f.required /\ f.created = ~f.inherited
      BY <1>3, <1>5, <2>2
    <3>5. ~f.inherited => t = 0
      BY <1>3, <1>5, <2>2
    <3>6. f.rec = o.w.disk /\ ((f.inherited /\ f.pend) \/ o.w.disk.id = f.n)
      <4>1. o.w.fb.n = w.fb.n
        BY <2>1 DEF Close
      <4> QED BY <1>3, <1>5, <2>2, <4>1
    <3> QED BY <2>5, <3>2, <3>3, <3>4, <3>5, <3>6 DEF Begun
  <2>13. Nearly(q, td, es, p, u, t)
    BY <1>1, <2>2, <2>5, <2>8, <2>9, <2>10, <2>11, <2>12 DEF Nearly, Recorded, Settled
  <2>14. Published(q) \in Worlds /\ Sound(Published(q), td, es, p, u, t) /\ Published(q).fb = f
    BY <1>1, <2>8, <2>13, PublishedSound
  <2>15. x = y
    BY <2>2, <2>7, <2>14
  <2> QED BY <2>7, <2>14, <2>15
<1> QED BY <1>3, <1>4, <1>5

-----------------------------------------------------------------------------
(* The answers of the firmware thread                                         *)

\* What is left of the events when the first is handled.
LEMMA EventsLess ==
    ASSUME NEW es \in Seq(Events), es # <<>>
    PROVE  /\ Tail(es) \in Seq(Events) /\ Head(es) \in Events
           /\ Answers(es) => /\ Answers(Tail(es))
                             /\ Head(es).kind \in {"revalidated", "rechecked"} => Head(es).id # 0
           /\ \A kind : /\ Has(kind, Tail(es)) => Has(kind, es)
                        /\ Has(kind, es) => Has(kind, Tail(es)) \/ Head(es).kind = kind
           /\ \A u, ts : Told(u, ts, es) => Told(u, ts, Tail(es))
           /\ \A u, ts : Told(u, ts, es) /\ Head(es).kind = "finished" =>
                 ~Has("finished", Tail(es)) /\ ~Has("irreversible", Tail(es)) /\ (Head(es).ok => u.irr)
<1> DEFINE less == Tail(es)
<1>1. /\ less \in Seq(Events) /\ Head(es) \in Events
      /\ 1 \in DOMAIN es /\ es[1] = Head(es)
      /\ \A i \in DOMAIN less :
            i \in Nat /\ i + 1 \in DOMAIN es /\ less[i] = es[i + 1] /\ 1 < i + 1
      /\ \A i \in DOMAIN es :
            i \in Nat /\ (i = 1 \/ (i - 1 \in DOMAIN less /\ less[i - 1] = es[i]))
  BY Tailed
<1> HIDE DEF less
<1>2. Answers(es) => Answers(less) /\ (Head(es).kind \in {"revalidated", "rechecked"} => Head(es).id # 0)
  BY <1>1 DEF Answers
<1>3. ASSUME NEW kind
      PROVE  /\ Has(kind, less) => Has(kind, es)
             /\ Has(kind, es) => Has(kind, less) \/ Head(es).kind = kind
  <2>1. ASSUME NEW i \in DOMAIN less PROVE i + 1 \in DOMAIN es /\ less[i] = es[i + 1]
    BY <1>1
  <2>2. ASSUME NEW i \in DOMAIN es, es[i].kind = kind
        PROVE  Has(kind, less) \/ Head(es).kind = kind
    BY <1>1, <2>2 DEF Has
  <2> QED BY <2>1, <2>2 DEF Has
<1>4. ASSUME NEW u, NEW ts, Told(u, ts, es) PROVE Told(u, ts, less)
  <2>1. \A i, j \in DOMAIN less : (i + 1 = j + 1 => i = j) /\ (i + 1 < j + 1 => i < j)
    BY <1>1
  <2>2. \A i, j \in DOMAIN less : less[i].kind = "finished" /\ less[j].kind = "finished" => i = j
    BY SMTT(40), <1>1, <1>4, <2>1 DEF Told
  <2>3. \A i, j \in DOMAIN less : less[i].kind = "irreversible" /\ less[j].kind = "finished" => i < j
    BY SMTT(40), <1>1, <1>4, <2>1 DEF Told
  <2>4. \A i \in DOMAIN less : less[i].kind = "finished" /\ less[i].ok => u.irr
    BY <1>1, <1>4 DEF Told
  <2>5. Has("irreversible", less) => u.irr
    BY <1>3, <1>4 DEF Told
  <2> QED BY <1>4, <2>2, <2>3, <2>4, <2>5 DEF Told
<1>5. ASSUME NEW u, NEW ts, Told(u, ts, es), Head(es).kind = "finished"
      PROVE  ~Has("finished", less) /\ ~Has("irreversible", less) /\ (Head(es).ok => u.irr)
  <2>1. \A i \in DOMAIN less : i + 1 # 1 /\ ~(i + 1 < 1)
    BY <1>1
  <2>2. ~Has("finished", less)
    BY SMTT(40), <1>1, <1>5, <2>1 DEF Told, Has
  <2>3. ~Has("irreversible", less)
    BY SMTT(40), <1>1, <1>5, <2>1 DEF Told, Has
  <2> QED BY <1>1, <1>5, <2>2, <2>3 DEF Told
<1> QED BY <1>1, <1>2, <1>3, <1>4, <1>5 DEF less

\* What the updater is at, for a bridge that has handled an event of another kind
\* than an end.
LEMMA OwnedLess ==
    ASSUME NEW es \in Seq(Events), es # <<>>, Head(es).kind # "finished",
           NEW f, NEW u, NEW ts, Owned(f, u, ts, es)
    PROVE  Owned(f, u, ts, Tail(es))
<1>1. \A kind : Has(kind, Tail(es)) => Has(kind, es)
  BY EventsLess
<1>2. Has("finished", es) => Has("finished", Tail(es))
  BY EventsLess
<1>3. Told(u, ts, es) => Told(u, ts, Tail(es))
  BY EventsLess
<1> QED BY <1>1, <1>2, <1>3 DEF Owned, Free, Coming, Underway

\* An answer of the package checks says nothing of the updater.
LEMMA SoundLess ==
    ASSUME NEW es \in Seq(Events), es # <<>>, Head(es).kind \notin {"finished", "irreversible"},
           NEW w, NEW td, NEW p, NEW u, NEW t, Sound(w, td, es, p, u, t)
    PROVE  Sound(w, td, Tail(es), p, u, t)
<1>1. Owned(w.fb, u, w.tasks, Tail(es))
  BY OwnedLess DEF Sound, Nearly
<1>2. Has("irreversible", es) => Has("irreversible", Tail(es))
  BY EventsLess
<1>3. Recorded(w.fb, w.disk, u, w.tasks, Tail(es), w.left, t)
  BY <1>2 DEF Sound, Nearly, Recorded, Begun
<1> QED BY <1>1, <1>3 DEF Sound, Nearly

\* handleValidationResult: there is an approval, or none.
LEMMA ValidationResultSound ==
    ASSUME NEW w \in Worlds, NEW td \in Seq(Jobs(Attempts)), NEW p \in {"open", "closed"},
           NEW es, NEW u, NEW t, Sound(w, td, es, p, u, t), NEW e \in Events,
           NEW x \in ValidationResult(w, e)
    PROVE  x \in Worlds /\ Sound(x, td, es, p, u, t)
<1>1. CASE w.fb.val = 0 \/ e.id # w.fb.val
  BY <1>1 DEF ValidationResult
<1>2. CASE ~(w.fb.val = 0 \/ e.id # w.fb.val)
  <2> DEFINE appr == IF e.ok THEN e.pkg ELSE w.fb.appr
             g == [w.fb EXCEPT !.val = 0, !.appr = appr]
  <2>1. w.fb \in Bridges /\ Shape(w.fb)
    BY WorldFields DEF Sound, Nearly
  <2>2. appr \in Packages \cup {None} /\ 0 \in 0 .. MaxValidations
    BY <2>1, Bounds DEF Events, Bridges
  <2>3. x = Published([w EXCEPT !.fb = g])
    BY <1>2 DEF ValidationResult, Worlds
  <2> HIDE DEF appr
  <2>4. g \in Bridges /\ Alike(w.fb, g) /\ g.val = 0 /\ g.quit = w.fb.quit /\ g.reval = w.fb.reval
    BY <2>1, <2>2 DEF Bridges, Alike
  <2> HIDE DEF g
  <2>5. Shape(g)
    BY <2>1, <2>4 DEF Shape, Alike
  <2> QED BY <2>3, <2>4, <2>5, AlikeWorld, PublishedAgain
<1> QED BY <1>1, <1>2

\* handleFlashRevalidationResult takes the transport, or ends the attempt.
LEMMA FlashRevalidationResultSound ==
    ASSUME NEW w \in Worlds, NEW td \in Seq(Jobs(Attempts)), NEW p \in {"open", "closed"},
           NEW es, NEW u, NEW t, Sound(w, td, es, p, u, t), NEW e \in Events, e.id # 0,
           NEW x \in FlashRevalidationResult(w, e)
    PROVE  x \in Worlds /\ Sound(x, td, es, p, u, t)
<1> DEFINE f == [w.fb EXCEPT !.reval = 0]
           q == [w EXCEPT !.fb.reval = 0]
<1>1. w.fb \in Bridges /\ Shape(w.fb)
  BY WorldFields DEF Sound, Nearly
<1>2. /\ f \in Bridges /\ Alike(w.fb, f) /\ f.quit = w.fb.quit /\ f.val = w.fb.val /\ f.reval = 0
  BY <1>1, Bounds DEF Bridges, Alike
<1>3. q = [w EXCEPT !.fb = f]
  BY DEF Worlds
<1>4. CASE ~Busy(w.fb) \/ e.id # w.fb.reval
  BY <1>4 DEF FlashRevalidationResult
<1> HIDE DEF f
<1>5. Shape(f)
  BY <1>1, <1>2 DEF Shape, Alike
<1>6. q \in Worlds /\ Sound(q, td, es, p, u, t) /\ q.fb = f
  <2> HIDE DEF q
  <2> QED BY <1>2, <1>3, <1>5, AlikeWorld
<1>7. CASE Busy(w.fb) /\ e.id = w.fb.reval
  <2>1. f.flash # None /\ ~f.started /\ f.lease = 0 /\ f.recheck = 0
    BY <1>1, <1>2, <1>7 DEF Busy, Shape, Alike
  <2>2. CASE ~(e.ok /\ MayAcquire(w.ctl))
    <3>1. x \in Abandoned(q)
      BY <1>7, <2>2 DEF FlashRevalidationResult
    <3>2. Settled(q, td, es, p, u, t) /\ ~q.fb.created
      BY <1>6, <2>1, NotStartedIsSettled
    <3> HIDE DEF q
    <3> QED BY <1>6, <3>1, <3>2, AbandonedSound
  <2>3. CASE e.ok /\ MayAcquire(w.ctl)
    <3> DEFINE g == [f EXCEPT !.lease = f.n, !.timer = TRUE]
               c == Acquired(w.ctl, f.n)
               y == [q EXCEPT !.fb.lease = q.fb.n, !.fb.timer = TRUE, !.ctl = Acquired(@, q.fb.n)]
    <3>1. x = Published(y)
      BY <1>7, <2>3 DEF FlashRevalidationResult, Quiescing
    <3>2. q.ctl = w.ctl /\ f.n \in Attempts /\ f.n # 0 /\ ~f.quit /\ f.val = 0
      BY <1>2, <1>5, <2>1 DEF Bridges, Shape, Worlds
    <3>3. /\ c \in Controllers(Attempts) /\ LeaseInvariant(c, td, p) /\ c.lease = f.n
          /\ c.pending = 0 /\ c.interlock = w.ctl.interlock
      BY <2>3, <3>2, WorldFields, Bounds, AcquiredKeeps DEF Sound, Nearly
    <3> HIDE DEF q
    <3>4. y = [q EXCEPT !.fb = g, !.ctl = c]
      BY <1>6, <3>2 DEF Worlds
    <3>5. /\ g \in Bridges /\ g.lease = f.n /\ g.up = f.up /\ g.flash = f.flash /\ g.n = f.n
          /\ g.started = f.started /\ g.recheck = f.recheck /\ g.reval = f.reval /\ g.val = f.val
          /\ g.quit = f.quit /\ g.irr = f.irr /\ g.required = f.required /\ g.created = f.created
          /\ g.inherited = f.inherited
      BY <1>2, <3>2 DEF Bridges
    <3> HIDE DEF g, c
    <3>6. /\ y \in Worlds /\ y.fb = g /\ y.ctl = c /\ y.disk = q.disk /\ y.tasks = q.tasks
          /\ y.left = q.left
      BY <1>6, <3>3, <3>4, <3>5 DEF Worlds
    <3> HIDE DEF y
    <3>7. Shape(g) /\ Agree(g, c, td)
      BY <1>2, <1>5, <2>1, <3>2, <3>3, <3>5 DEF Shape, Agree
    <3>8. Owned(g, u, q.tasks, es) /\ Recorded(g, q.disk, u, q.tasks, es, q.left, t)
      BY <1>6, <2>1, <3>5 DEF Sound, Nearly, Owned, Recorded, Kept, Prepared
    <3>9. Nearly(y, td, es, p, u, t)
      BY <1>6, <3>3, <3>5, <3>6, <3>7, <3>8 DEF Sound, Nearly
    <3>10. y.fb.required => y.ctl.interlock \/ Shut(y.ctl, p)
      BY <1>6, <3>2, <3>3, <3>5, <3>6 DEF Sound
    <3> QED BY <3>1, <3>6, <3>9, <3>10, PublishedSound
  <2> QED BY <2>2, <2>3
<1> QED BY <1>4, <1>7

\* handlePostQuiesceValidationResult starts the updater, or ends the attempt.
LEMMA PostQuiesceValidationResultSound ==
    ASSUME NEW w \in Worlds, NEW td \in Seq(Jobs(Attempts)), NEW p \in {"open", "closed"},
           NEW es, NEW u, NEW t, Sound(w, td, es, p, u, t), NEW e \in Events, e.id # 0,
           NEW x \in PostQuiesceValidationResult(w, e)
    PROVE  x \in Worlds /\ Sound(x, td, es, p, u, t)
<1> DEFINE f == [w.fb EXCEPT !.recheck = 0]
           q == [w EXCEPT !.fb.recheck = 0]
<1>1. w.fb \in Bridges /\ Shape(w.fb) /\ Agree(w.fb, w.ctl, td)
  BY WorldFields DEF Sound, Nearly
<1>2. CASE ~Busy(w.fb) \/ e.id # w.fb.recheck \/ w.fb.lease = 0
  BY <1>2 DEF PostQuiesceValidationResult
<1>3. CASE Busy(w.fb) /\ e.id = w.fb.recheck /\ w.fb.lease # 0
  <2>1. Quiet(w.ctl, td) /\ ~w.fb.started
    BY <1>1, <1>3 DEF Agree, Shape
  <2>2. /\ f \in Bridges /\ f.up = w.fb.up /\ f.flash = w.fb.flash /\ f.n = w.fb.n
        /\ f.started = w.fb.started /\ f.irr = w.fb.irr /\ f.lease = w.fb.lease /\ f.recheck = 0
        /\ f.required = w.fb.required /\ f.created = w.fb.created
        /\ f.inherited = w.fb.inherited /\ f.quit = w.fb.quit
        /\ f.val = w.fb.val /\ f.reval = w.fb.reval
    BY <1>1, Bounds DEF Bridges
  <2>3. q = [w EXCEPT !.fb = f]
    BY DEF Worlds
  <2>4. x \in Abandoned(q) \/ x \in UNION {IF y.fb.started THEN {y} ELSE Abandoned(y) : y \in Started(q)}
    BY <1>3 DEF PostQuiesceValidationResult
  <2> HIDE DEF f, q
  <2>5. /\ q \in Worlds /\ q.fb = f /\ q.ctl = w.ctl /\ q.disk = w.disk /\ q.tasks = w.tasks
        /\ q.left = w.left
    BY <2>2, <2>3 DEF Worlds
  <2>6. Shape(f) /\ Agree(f, w.ctl, td)
    BY <1>1, <1>3, <2>1, <2>2 DEF Shape, Agree
  <2>7. Owned(f, u, w.tasks, es) /\ Recorded(f, w.disk, u, w.tasks, es, w.left, t)
    BY <2>1, <2>2 DEF Sound, Nearly, Owned, Recorded, Kept, Prepared
  <2>8. Sound(q, td, es, p, u, t)
    BY <2>2, <2>5, <2>6, <2>7 DEF Sound, Nearly
  <2>9. q.fb.flash # None /\ ~q.fb.started /\ q.fb.lease # 0 /\ q.fb.recheck = 0 /\ Quiet(q.ctl, td)
    BY <1>3, <2>1, <2>2, <2>5 DEF Busy
  <2>10. CASE x \in Abandoned(q)
    <3>1. Settled(q, td, es, p, u, t) /\ ~q.fb.created
      BY <2>8, <2>9, NotStartedIsSettled
    <3> QED BY <2>5, <2>10, <3>1, AbandonedSound
  <2>11. CASE x \in UNION {IF y.fb.started THEN {y} ELSE Abandoned(y) : y \in Started(q)}
    <3>1. PICK y \in Started(q) : x \in (IF y.fb.started THEN {y} ELSE Abandoned(y))
      BY <2>11
    <3> QED BY <2>5, <2>8, <2>9, <3>1, StartedSound
  <2> QED BY <2>4, <2>10, <2>11
<1> QED BY <1>2, <1>3

-----------------------------------------------------------------------------
(* What the updater has done goes into the journal                            *)

\* updateRecoveryJournalPhase: without a fault the record is this update's.
LEMMA PhaseEffect ==
    ASSUME NEW w \in Worlds, w.disk # None, NEW phase \in Phases, NEW x \in Phase(w, phase)
    PROVE  /\ Beside(w, x) /\ x.disk # None /\ x.fb.required /\ x.fb.created = w.fb.created
           /\ Faultless(x.left) /\ w.fb.rec = w.disk =>
                 /\ x.fb.rec = x.disk /\ x.disk.phase = phase
                 /\ x.disk.id = IF w.fb.inherited /\ w.fb.pend THEN w.fb.n ELSE w.disk.id
<1> DEFINE record == IF w.fb.inherited /\ w.fb.pend THEN [id |-> w.fb.n, phase |-> phase]
                     ELSE [w.disk EXCEPT !.phase = phase]
<1>1. w.fb \in Bridges /\ w.disk \in Records
  BY WorldFields
<1>2. /\ record \in Records /\ record # None /\ record.phase = phase
      /\ record.id = IF w.fb.inherited /\ w.fb.pend THEN w.fb.n ELSE w.disk.id
  <2>1. record \in Records /\ record.phase = phase
        /\ record.id = IF w.fb.inherited /\ w.fb.pend THEN w.fb.n ELSE w.disk.id
    BY <1>1 DEF Records, Bridges
  <2> QED BY <2>1, NoRecordAssumption
<1> HIDE DEF record
<1>3. CASE w.fb.rec # None /\ w.disk.id # w.fb.rec.id
  <2>1. x = Invalidated(w)
    BY <1>3 DEF Phase
  <2>2. Beside(w, x) /\ x.disk = w.disk /\ x.fb.required /\ x.fb.created = w.fb.created
    BY <2>1, InvalidatedEffect
  <2> QED BY <1>3, <2>2
<1>4. CASE ~(w.fb.rec # None /\ w.disk.id # w.fb.rec.id)
  <2>1. PICK o \in Put(w, record) :
          x = IF o.ok THEN [o.w EXCEPT !.fb.required = TRUE, !.fb.invalid = FALSE,
                                       !.fb.rec = record, !.fb.pend = FALSE]
              ELSE Invalidated(o.w)
    BY <1>4 DEF Phase, record
  <2>2. /\ o.w \in Worlds /\ o.w.fb = w.fb /\ o.w.ctl = w.ctl /\ o.w.tasks = w.tasks
        /\ o.ok \in BOOLEAN /\ (Faultless(o.w.left) => Faultless(w.left))
        /\ o.ok => o.w.disk = record
        /\ ~o.ok => o.w.disk \in {w.disk, record} /\ ~Faultless(o.w.left)
    BY <1>2, PutEffect
  <2>3. CASE ~o.ok
    <3>1. x = Invalidated(o.w)
      BY <2>1, <2>3
    <3>2. /\ Beside(o.w, x) /\ x.disk = o.w.disk /\ x.fb.required /\ x.left = o.w.left
          /\ x.fb.created = o.w.fb.created
      BY <2>2, <3>1, InvalidatedEffect
    <3>3. Beside(w, x)
      BY <2>2, <3>2 DEF Beside
    <3> QED BY <1>2, <2>2, <2>3, <3>2, <3>3
  <2>4. CASE o.ok
    <3> DEFINE g == [w.fb EXCEPT !.required = TRUE, !.invalid = FALSE, !.rec = record, !.pend = FALSE]
               y == [o.w EXCEPT !.fb = g]
    <3>1. x = y
      BY <2>1, <2>2, <2>4 DEF Worlds
    <3>2. /\ g \in Bridges /\ Close(w.fb, g) /\ g.required /\ g.created = w.fb.created
          /\ g.rec = record
      BY <1>1, <1>2 DEF Bridges, Close
    <3> HIDE DEF g
    <3>3. /\ y \in Worlds /\ y.fb = g /\ y.ctl = w.ctl /\ y.tasks = w.tasks /\ y.left = o.w.left
          /\ y.disk = record
      BY <2>2, <2>4, <3>2 DEF Worlds
    <3> HIDE DEF y
    <3>4. Beside(w, x)
      BY <2>2, <3>1, <3>2, <3>3 DEF Beside
    <3> QED BY <1>2, <3>1, <3>2, <3>3, <3>4
  <2> QED BY <2>2, <2>3, <2>4
<1> QED BY <1>3, <1>4

\* clearCurrentAttemptRecoveryJournal: a file that is still there is taken for one.
LEMMA OwnClearedEffect ==
    ASSUME NEW w \in Worlds, w.disk # None => w.fb.required, NEW x \in OwnCleared(w)
    PROVE  Beside(w, x) /\ (x.disk # None => x.fb.required)
<1>1. w.fb \in Bridges
  BY WorldFields
<1>2. CASE x = w
  BY <1>2 DEF Beside, Close
<1>3. CASE x = Invalidated(w)
  BY <1>3, InvalidatedEffect
<1>4. ASSUME NEW o \in Put(w, None),
             x = IF o.ok THEN [o.w EXCEPT !.fb.required = FALSE, !.fb.invalid = FALSE,
                                          !.fb.created = FALSE, !.fb.rec = None, !.fb.pend = FALSE]
                 ELSE Invalidated(o.w)
      PROVE  Beside(w, x) /\ (x.disk # None => x.fb.required)
  <2>2. /\ o.w \in Worlds /\ o.w.fb = w.fb /\ o.w.ctl = w.ctl /\ o.w.tasks = w.tasks
        /\ o.ok \in BOOLEAN /\ (Faultless(o.w.left) => Faultless(w.left))
        /\ o.ok => o.w.disk = None
    BY PutEffect
  <2>3. CASE ~o.ok
    <3>1. Beside(o.w, x) /\ x.fb.required
      BY <1>4, <2>2, <2>3, InvalidatedEffect
    <3> QED BY <2>2, <3>1 DEF Beside
  <2>4. CASE o.ok
    <3> DEFINE g == [w.fb EXCEPT !.required = FALSE, !.invalid = FALSE, !.created = FALSE,
                                 !.rec = None, !.pend = FALSE]
               y == [o.w EXCEPT !.fb = g]
    <3>1. x = y
      BY <1>4, <2>2, <2>4 DEF Worlds
    <3>2. g \in Bridges /\ Close(w.fb, g)
      BY <1>1 DEF Bridges, Close
    <3> HIDE DEF g
    <3>3. /\ y \in Worlds /\ y.fb = g /\ y.ctl = w.ctl /\ y.tasks = w.tasks /\ y.left = o.w.left
          /\ y.disk = None
      BY <2>2, <2>4, <3>2 DEF Worlds
    <3> HIDE DEF y
    <3> QED BY <2>2, <3>1, <3>2, <3>3 DEF Beside
  <2> QED BY <2>2, <2>3, <2>4
<1> QED BY <1>2, <1>3, <1>4 DEF OwnCleared

\* handleUpdaterIrreversibleStarted
LEMMA IrreversibleSound ==
    ASSUME NEW w \in Worlds, NEW td \in Seq(Jobs(Attempts)), NEW p \in {"open", "closed"},
           NEW es \in Seq(Events), es # <<>>, Head(es).kind = "irreversible", NEW u, NEW t,
           Sound(w, td, es, p, u, t), NEW x \in IrreversibleHandled(w)
    PROVE  x \in Worlds /\ Sound(x, td, Tail(es), p, u, t)
<1> DEFINE f == [w.fb EXCEPT !.irr = TRUE]
           q == [w EXCEPT !.fb.irr = TRUE]
<1>1. w.fb \in Bridges /\ Shape(w.fb) /\ Agree(w.fb, w.ctl, td)
  BY WorldFields DEF Sound, Nearly
<1>2. Has("irreversible", es)
  <2>1. 1 \in DOMAIN es /\ es[1] = Head(es)
    BY Tailed
  <2> QED BY <2>1 DEF Has
<1>3. w.fb.started /\ ~Has("start", w.tasks) /\ u.irr
  BY <1>2 DEF Sound, Nearly, Owned, Free, Coming, Underway, Told
<1>4. Begun(w.fb, w.disk, u, w.tasks, es, w.left, t) /\ t = w.fb.n /\ w.fb.flash # None
  BY <1>1, <1>3 DEF Sound, Nearly, Recorded, Begun, Shape
<1>5. /\ f \in Bridges /\ f.up = w.fb.up /\ f.flash = w.fb.flash /\ f.n = w.fb.n
      /\ f.started = w.fb.started /\ f.irr /\ f.lease = w.fb.lease /\ f.recheck = w.fb.recheck
      /\ f.required = w.fb.required /\ f.created = w.fb.created
      /\ f.inherited = w.fb.inherited /\ f.quit = w.fb.quit /\ f.rec = w.fb.rec
      /\ f.pend = w.fb.pend /\ f.val = w.fb.val /\ f.reval = w.fb.reval
  BY <1>1 DEF Bridges
<1>6. q = [w EXCEPT !.fb = f]
  BY DEF Worlds
<1>7. PICK y \in Phase(q, "Irreversible") : x = IF y.fb.invalid THEN Published(y) ELSE y
  BY <1>3, <1>4 DEF IrreversibleHandled, Busy
<1> HIDE DEF f, q
<1>8. /\ q \in Worlds /\ q.fb = f /\ q.ctl = w.ctl /\ q.disk = w.disk /\ q.tasks = w.tasks
      /\ q.left = w.left
  BY <1>5, <1>6 DEF Worlds
<1>9. Shape(f) /\ Agree(f, w.ctl, td)
  BY <1>1, <1>3, <1>5 DEF Shape, Agree
<1>10. Owned(f, u, w.tasks, Tail(es))
  <2>1. Owned(f, u, w.tasks, es)
    BY <1>3, <1>5 DEF Sound, Nearly, Owned
  <2> QED BY <2>1, OwnedLess
<1>11. "Irreversible" \in Phases /\ q.disk # None
  BY <1>4, <1>8 DEF Phases, Begun
<1>12. /\ Beside(q, y) /\ y.disk # None /\ y.fb.required /\ y.fb.created = q.fb.created
       /\ Faultless(y.left) /\ q.fb.rec = q.disk =>
             /\ y.fb.rec = y.disk /\ y.disk.phase = "Irreversible"
             /\ y.disk.id = IF q.fb.inherited /\ q.fb.pend THEN q.fb.n ELSE q.disk.id
  BY <1>8, <1>11, PhaseEffect
<1>13. y \in Worlds /\ Close(f, y.fb) /\ y.ctl = w.ctl /\ y.tasks = w.tasks
       /\ (Faultless(y.left) => Faultless(w.left))
  BY <1>8, <1>12 DEF Beside
<1>14. Begun(y.fb, y.disk, u, w.tasks, Tail(es), y.left, t)
  <2>1. y.fb.n = w.fb.n /\ y.fb.inherited = w.fb.inherited
    BY <1>5, <1>13 DEF Close
  <2>2. Faultless(y.left) => y.fb.rec = y.disk /\ y.disk.phase = "Irreversible" /\ y.disk.id = w.fb.n
    BY <1>4, <1>5, <1>8, <1>12, <1>13 DEF Begun
  <2> QED BY <1>3, <1>4, <1>5, <1>8, <1>12, <2>1, <2>2 DEF Begun
<1>15. Shape(y.fb) /\ Agree(y.fb, w.ctl, td) /\ Owned(y.fb, u, w.tasks, Tail(es)) /\ y.fb.up
       /\ y.fb.started
  BY <1>3, <1>5, <1>9, <1>10, <1>13 DEF Close, Shape, Agree, Owned, Sound, Nearly
<1>16. Nearly(y, td, Tail(es), p, u, t)
  BY <1>13, <1>14, <1>15 DEF Sound, Nearly, Recorded
<1>17. y.ctl.interlock = y.fb.required
  BY <1>4, <1>12, <1>13, WorldFields DEF Sound, Begun
<1>18. Sound(y, td, Tail(es), p, u, t)
  BY <1>16, <1>17 DEF Sound
<1> QED BY <1>7, <1>13, <1>18, PublishedAgain

\* What the journal says of the last update that may have changed a display.
Says(d, l, t) ==
    /\ t # 0 => d # None
    /\ Faultless(l) /\ t # 0 => d.id = t /\ d.phase # "Armed"

\* handleUpdaterFinished: what the journal says at the end is what was done.
LEMMA FinishedRecordsEffect ==
    ASSUME NEW w \in Worlds, NEW es, NEW u, NEW t, NEW ok \in BOOLEAN,
           u.irr \in BOOLEAN, ok => u.irr,
           Begun(w.fb, w.disk, u, w.tasks, es, w.left, t),
           ~Has("start", w.tasks), ~Has("irreversible", es),
           NEW y \in FinishedRecords(w, ok, u.irr)
    PROVE  Beside(w, y) /\ (y.disk # None => y.fb.required) /\ Says(y.disk, y.left, t)
<1>1. /\ w.disk # None /\ w.fb.required /\ (u.irr <=> t = w.fb.n)
      /\ ~w.fb.inherited => t \in {0, w.fb.n}
      /\ Faultless(w.left) =>
            /\ t # 0 /\ t # w.fb.n => w.disk.id = t /\ w.disk.phase # "Armed"
            /\ w.fb.rec = w.disk /\ ((w.fb.inherited /\ w.fb.pend) \/ w.disk.id = w.fb.n)
            /\ t = w.fb.n => w.disk.id = w.fb.n /\ w.disk.phase = "Irreversible"
  BY DEF Begun
<1>2. ASSUME NEW phase \in Phases, phase # "Armed", y \in Phase(w, phase), u.irr
      PROVE  Beside(w, y) /\ (y.disk # None => y.fb.required) /\ Says(y.disk, y.left, t)
  <2>1. /\ Beside(w, y) /\ y.disk # None /\ y.fb.required
        /\ Faultless(y.left) /\ w.fb.rec = w.disk =>
              /\ y.disk.phase = phase
              /\ y.disk.id = IF w.fb.inherited /\ w.fb.pend THEN w.fb.n ELSE w.disk.id
    BY <1>1, <1>2, PhaseEffect
  <2>2. Faultless(y.left) => Faultless(w.left)
    BY <2>1 DEF Beside
  <2> QED BY <1>1, <1>2, <2>1, <2>2 DEF Says
<1>3. CASE ok
  <2>1. y \in Phase(w, "AwaitingDeviceVerification") /\ "AwaitingDeviceVerification" \in Phases
    BY <1>3 DEF FinishedRecords, Phases
  <2> QED BY <1>2, <1>3, <2>1
<1>4. CASE ~ok /\ u.irr /\ (w.fb.rec = None \/ w.fb.rec.phase # "Irreversible")
  <2>1. y \in Phase(w, "Irreversible") /\ "Irreversible" \in Phases
    BY <1>4 DEF FinishedRecords, Phases
  <2> QED BY <1>2, <1>4, <2>1
<1>5. CASE ~ok /\ ~u.irr /\ ~w.fb.inherited
  <2>1. y \in OwnCleared(w) /\ t = 0
    BY <1>1, <1>5 DEF FinishedRecords
  <2>2. Beside(w, y) /\ (y.disk # None => y.fb.required)
    BY <1>1, <2>1, OwnClearedEffect
  <2> QED BY <2>1, <2>2 DEF Says
<1>6. CASE /\ ~ok /\ ~(u.irr /\ (w.fb.rec = None \/ w.fb.rec.phase # "Irreversible"))
           /\ ~(~u.irr /\ ~w.fb.inherited)
  <2>1. y = w
    BY <1>6 DEF FinishedRecords
  <2>2. Beside(w, y)
    BY <2>1 DEF Beside, Close
  <2> QED BY <1>1, <1>6, <2>1, <2>2 DEF Says
<1> QED BY <1>3, <1>4, <1>5, <1>6

\* Then the transport is given back.
LEMMA UpdaterFinishedSound ==
    ASSUME NEW w \in Worlds, NEW td \in Seq(Jobs(Attempts)), NEW p \in {"open", "closed"},
           NEW es \in Seq(Events), es # <<>>, Head(es).kind = "finished", NEW u, NEW t,
           Sound(w, td, es, p, u, t), u.irr \in BOOLEAN,
           NEW x \in UpdaterFinished(w, Head(es).ok, w.fb.irr \/ u.irr)
    PROVE  x \in Worlds /\ Sound(x, td, Tail(es), p, u, t)
<1> DEFINE ok == Head(es).ok
           irreversible == w.fb.irr \/ u.irr
<1>1. w.fb \in Bridges /\ Shape(w.fb)
  BY WorldFields DEF Sound, Nearly
<1>2. Has("finished", es)
  <2>1. 1 \in DOMAIN es /\ es[1] = Head(es)
    BY Tailed
  <2> QED BY <2>1 DEF Has
<1>3. w.fb.started /\ Told(u, w.tasks, es) /\ (w.fb.irr => u.irr)
  BY <1>2 DEF Sound, Nearly, Owned, Free, Coming, Underway
<1>4. /\ ~Has("finished", Tail(es)) /\ ~Has("irreversible", Tail(es)) /\ (ok => u.irr)
      /\ ~Has("irreversible", es) /\ ok \in BOOLEAN
  <2>1. Head(es) \in Events
    BY EventsLess
  <2> QED BY <1>3, <2>1, EventsLess DEF Events
<1>5. Free(u, w.tasks, Tail(es)) /\ ~Has("start", w.tasks)
  BY <1>3, <1>4 DEF Free, Told
<1>6. /\ Begun(w.fb, w.disk, u, w.tasks, es, w.left, t) /\ w.fb.required /\ t <= w.fb.n
      /\ w.ctl.interlock
  BY <1>3 DEF Sound, Nearly, Recorded, Begun
<1>7. irreversible = u.irr /\ w.fb.flash # None
  <2>1. w.fb.irr \in BOOLEAN
    BY <1>1 DEF Bridges
  <2>2. irreversible = u.irr
    BY <1>3, <2>1
  <2> QED BY <1>1, <1>3, <2>2 DEF Shape
<1> HIDE DEF ok, irreversible
<1> DEFINE retain(y) == ok \/ w.fb.inherited \/ irreversible \/ y.fb.required
           q(y) == [y EXCEPT !.fb.required = @ \/ retain(y)]
<1>8. PICK y \in FinishedRecords(w, ok, irreversible) : x = Over(q(y), ~w.fb.shutdown /\ ~retain(y))
  BY <1>7 DEF UpdaterFinished, Busy, ok, irreversible
<1>9. Beside(w, y) /\ (y.disk # None => y.fb.required) /\ Says(y.disk, y.left, t)
  <2>1. Begun(w.fb, w.disk, u, w.tasks, es, w.left, t) /\ ~Has("start", w.tasks)
        /\ ~Has("irreversible", es)
    BY <1>4, <1>5, <1>6
  <2> HIDE DEF retain, q
  <2>2. ASSUME NEW b \in BOOLEAN, b => u.irr, y \in FinishedRecords(w, b, u.irr)
        PROVE  Beside(w, y) /\ (y.disk # None => y.fb.required) /\ Says(y.disk, y.left, t)
    BY <2>1, <2>2, FinishedRecordsEffect
  <2> QED BY <1>4, <1>7, <1>8, <2>2
<1> DEFINE need == y.fb.required \/ retain(y)
           g == [y.fb EXCEPT !.required = need]
           resume == ~w.fb.shutdown /\ ~retain(y)
<1>10. y \in Worlds /\ y.fb \in Bridges /\ Close(w.fb, y.fb) /\ y.ctl = w.ctl /\ y.tasks = w.tasks
  BY <1>9, WorldFields DEF Beside
<1>11. need \in BOOLEAN /\ resume \in BOOLEAN /\ (y.fb.required => need)
  BY <1>4, <1>7, <1>10
<1>12. q(y) = [y EXCEPT !.fb = g]
  BY <1>10 DEF Worlds
<1>13. x = Over(q(y), resume)
  BY <1>8
<1> HIDE DEF need, resume, retain
<1>14. g \in Bridges /\ g.up = w.fb.up /\ g.n = w.fb.n /\ g.required = need
  BY <1>10, <1>11 DEF Bridges, Close
<1> HIDE DEF g
<1>15. /\ q(y) \in Worlds /\ q(y).fb = g /\ q(y).ctl = w.ctl /\ q(y).disk = y.disk
       /\ q(y).tasks = w.tasks /\ q(y).left = y.left
  <2> DEFINE z == [y EXCEPT !.fb = g]
  <2>1. /\ z \in Worlds /\ z.fb = g /\ z.ctl = w.ctl /\ z.disk = y.disk
        /\ z.tasks = w.tasks /\ z.left = y.left
    BY <1>10, <1>14 DEF Worlds
  <2> HIDE DEF z
  <2> QED BY <1>12, <2>1 DEF z
<1> HIDE DEF q
<1>16. Kept(g, y.disk, y.left, t)
  BY <1>6, <1>9, <1>11, <1>14 DEF Kept, Says
<1>17. Settled(q(y), td, Tail(es), p, u, t)
  BY <1>5, <1>6, <1>14, <1>15, <1>16 DEF Settled, Sound, Nearly
<1> QED BY <1>11, <1>13, <1>15, <1>17, OverSound

\* The bridge handles what the firmware thread has told first.
LEMMA HandleEventKeeps ==
    ASSUME FirmwareInvariant, HandleEvent
    PROVE  FirmwareInvariant'
<1> DEFINE e == Head(events)
           t == bench.touched
<1>1. /\ fb.up /\ events # <<>> /\ events' = Tail(events)
      /\ UNCHANGED <<port, told, upd, bench>>
  BY DEF HandleEvent, Running
<1>2. /\ World \in Worlds /\ Sound(World, told, events, port, upd, t)
      /\ UpdaterTypes /\ UpdaterInvariant /\ told \in Seq(Jobs(Attempts)) /\ port \in {"open", "closed"}
      /\ events \in Seq(Events) /\ Answers(events)
  BY <1>1, SoundWorld
<1>3. PICK x \in Handled(World, e) : Become(x)
  BY DEF HandleEvent, BecomeOneOf
<1>4. /\ e \in Events /\ Tail(events) \in Seq(Events) /\ Answers(Tail(events))
      /\ e.kind \in {"revalidated", "rechecked"} => e.id # 0
  BY <1>1, <1>2, EventsLess
<1>5. e.kind \notin {"finished", "irreversible"} => Sound(World, told, Tail(events), port, upd, t)
  BY <1>1, <1>2, SoundLess
<1>6. e.kind \in Kinds
  BY <1>4 DEF Events
<1> HIDE DEF t
<1>7. x \in Worlds /\ Sound(x, told, Tail(events), port, upd, t)
  <2>1. CASE e.kind = "validated"
    <3>1. x \in ValidationResult(World, e)
      BY <1>3, <2>1 DEF Handled
    <3> HIDE DEF e
    <3> QED BY <1>2, <1>4, <1>5, <2>1, <3>1, ValidationResultSound
  <2>2. CASE e.kind = "revalidated"
    <3>1. x \in FlashRevalidationResult(World, e)
      BY <1>3, <2>2 DEF Handled
    <3> HIDE DEF e
    <3> QED BY <1>2, <1>4, <1>5, <2>2, <3>1, FlashRevalidationResultSound
  <2>3. CASE e.kind = "rechecked"
    <3>1. x \in PostQuiesceValidationResult(World, e)
      BY <1>3, <2>3 DEF Handled
    <3> HIDE DEF e
    <3> QED BY <1>2, <1>4, <1>5, <2>3, <3>1, PostQuiesceValidationResultSound
  <2>4. CASE e.kind = "irreversible"
    <3>1. x \in IrreversibleHandled(World)
      BY <1>3, <2>4 DEF Handled
    <3> QED BY <1>1, <1>2, <2>4, <3>1, IrreversibleSound
  <2>5. CASE e.kind = "finished"
    <3>1. x \in UpdaterFinished(World, e.ok, World.fb.irr \/ upd.irr)
      BY <1>3, <2>5 DEF Handled
    <3>2. upd.irr \in BOOLEAN
      BY <1>2 DEF UpdaterTypes, Updaters
    <3> QED BY <1>1, <1>2, <2>5, <3>1, <3>2, UpdaterFinishedSound
  <2> QED BY <1>6, <2>1, <2>2, <2>3, <2>4, <2>5 DEF Kinds
<1>8. UpdaterTypes' /\ UpdaterInvariant'
  BY <1>1, <1>2 DEF UpdaterTypes, UpdaterInvariant
<1>9. Answers(events') /\ events' \in Seq(Events)
  BY <1>1, <1>4
<1>10. Sound(x, told', events', port', upd', bench'.touched)
  BY <1>1, <1>7 DEF t
<1> HIDE DEF e
<1> QED BY <1>1, <1>2, <1>3, <1>7, <1>8, <1>9, <1>10, BecameSound

-----------------------------------------------------------------------------
(* The answers of the worker                                                  *)

\* The world whose controller is c and whose bridge is not touched.
LEMMA OtherController ==
    ASSUME NEW w \in Worlds, NEW td, NEW es, NEW p, NEW u, NEW t, Sound(w, td, es, p, u, t),
           NEW c \in Controllers(Attempts), NEW now, NEW more, LeaseInvariant(c, more, now),
           c.interlock = w.ctl.interlock, Agree(w.fb, c, more)
    PROVE  [w EXCEPT !.ctl = c] \in Worlds /\ Sound([w EXCEPT !.ctl = c], more, es, now, u, t)
<1> DEFINE q == [w EXCEPT !.ctl = c]
<1>1. /\ q \in Worlds /\ q.fb = w.fb /\ q.ctl = c /\ q.disk = w.disk /\ q.tasks = w.tasks
      /\ q.left = w.left
  BY DEF Worlds
<1> HIDE DEF q
<1>2. Sound(q, more, es, now, u, t)
  BY <1>1 DEF Sound, Nearly
<1> QED BY <1>1, <1>2 DEF q

\* The transport is closed: the copy of the package is checked, alone.
LEMMA TransportQuiescedSound ==
    ASSUME NEW w \in Worlds, NEW td \in Seq(Jobs(Attempts)), NEW p \in {"open", "closed"},
           NEW es, NEW u, NEW t, Sound(w, td, es, p, u, t), NEW lease, lease # 0,
           w.fb.lease = lease => ~w.fb.started /\ Quiet(w.ctl, td)
    PROVE  TransportQuiesced(w, lease) \in Worlds /\ Sound(TransportQuiesced(w, lease), td, es, p, u, t)
<1>1. CASE ~Busy(w.fb) \/ lease # w.fb.lease
  BY <1>1 DEF TransportQuiesced
<1>2. CASE Busy(w.fb) /\ lease = w.fb.lease
  <2> DEFINE f == w.fb
             g == [f EXCEPT !.timer = FALSE, !.recheck = f.n]
             task == Task("recheck", f.n, None)
             more == Append(w.tasks, task)
             q == [w EXCEPT !.fb.timer = FALSE, !.fb.recheck = w.fb.n,
                            !.tasks = Append(@, Task("recheck", w.fb.n, None))]
  <2>1. TransportQuiesced(w, lease) = Published(q)
    BY <1>2 DEF TransportQuiesced
  <2>2. f \in Bridges /\ Shape(f) /\ f.flash # None /\ f.n \in Nat /\ f.n # 0 /\ f.lease # 0
        /\ ~f.started /\ Quiet(w.ctl, td)
    BY <1>2, WorldFields, Bounds DEF Sound, Nearly, Shape, Busy
  <2>3. /\ g \in Bridges /\ g.up = f.up /\ g.flash = f.flash /\ g.n = f.n /\ g.started = f.started
        /\ g.irr = f.irr /\ g.lease = f.lease /\ g.reval = f.reval /\ g.val = f.val
        /\ g.recheck = f.n /\ g.quit = f.quit /\ g.required = f.required
        /\ g.created = f.created /\ g.inherited = f.inherited
    BY <2>2 DEF Bridges
  <2>4. q = [w EXCEPT !.fb = g, !.tasks = more]
    BY DEF Worlds
  <2>5. task \in Tasks /\ task.kind = "recheck" /\ task.id = f.n
    BY <2>2, TaskTypes
  <2> HIDE DEF task
  <2>6. /\ w.tasks \in Seq(Tasks) /\ Sensible(w.tasks) /\ Owned(f, u, w.tasks, es)
        /\ Recorded(f, w.disk, u, w.tasks, es, w.left, t) /\ f.up
    BY WorldFields DEF Sound, Nearly
  <2>7. /\ more \in Seq(Tasks) /\ Sensible(more) /\ Owned(f, u, more, es)
        /\ Recorded(f, w.disk, u, more, es, w.left, t)
    BY <2>2, <2>5, <2>6, MoreTasks
  <2> HIDE DEF more, g, q, f
  <2>8. /\ q \in Worlds /\ q.fb = g /\ q.ctl = w.ctl /\ q.disk = w.disk /\ q.tasks = more
        /\ q.left = w.left
    BY <2>3, <2>4, <2>7 DEF Worlds
  <2>9. Shape(g)
    BY <2>2, <2>3 DEF Shape
  <2>10. Owned(g, u, more, es) /\ Recorded(g, w.disk, u, more, es, w.left, t)
    BY <2>2, <2>3, <2>6, <2>7 DEF Owned, Recorded, Kept, Prepared
  <2>11. Agree(g, w.ctl, td)
    BY <2>2, <2>3 DEF Sound, Nearly, Agree, f
  <2>12. Nearly(q, td, es, p, u, t)
    BY <2>3, <2>6, <2>7, <2>8, <2>9, <2>10, <2>11 DEF Sound, Nearly
  <2>13. q.fb.required => q.ctl.interlock \/ Shut(q.ctl, p)
    BY <2>3, <2>8 DEF Sound, f
  <2> QED BY <2>1, <2>8, <2>12, <2>13, PublishedSound
<1> QED BY <1>1, <1>2

\* The controller handles what the worker has answered first.
LEMMA AnsweredSound ==
    ASSUME NEW w \in Worlds, NEW td \in Seq(Jobs(Attempts)), NEW p \in {"open", "closed"},
           NEW es, NEW u, NEW t, Sound(w, td, es, p, u, t), td # <<>>
    PROVE  /\ Answered(w, Head(td)) \in Worlds
           /\ Sound(Answered(w, Head(td)), Tail(td), es, p, u, t)
<1> DEFINE job == Head(td)
           less == Tail(td)
<1>1. /\ w.ctl \in Controllers(Attempts) /\ LeaseInvariant(w.ctl, td, p) /\ Agree(w.fb, w.ctl, td)
      /\ Shape(w.fb)
  BY WorldFields DEF Sound, Nearly
<1>2. /\ less \in Seq(Jobs(Attempts)) /\ LeaseInvariant(w.ctl, less, p)
      /\ Without("quiesce", td) => Without("quiesce", less)
  BY <1>1, ToldLess
<1>3. Agree(w.fb, w.ctl, less)
  BY <1>1, <1>2 DEF Agree, Quiet
<1>4. Sound(w, less, es, p, u, t)
  BY <1>2, <1>3 DEF Sound, Nearly
<1>5. CASE job.kind = "op"
  <2> DEFINE c == [w.ctl EXCEPT !.op = FALSE]
  <2>1. Answered(w, job) = [w EXCEPT !.ctl = c]
    BY <1>5 DEF Answered, Worlds
  <2>2. /\ c \in Controllers(Attempts) /\ LeaseInvariant(c, less, p)
        /\ Quiet(w.ctl, less) => Quiet(c, less)
    BY <1>1, <1>2, OperatedKeeps
  <2>3. c.interlock = w.ctl.interlock /\ c.lease = w.ctl.lease /\ c.pending = w.ctl.pending
    BY <1>1 DEF Controllers
  <2> HIDE DEF c, less
  <2>4. Agree(w.fb, c, less)
    BY <1>3, <2>2, <2>3 DEF Agree
  <2> QED BY <1>4, <2>1, <2>2, <2>3, <2>4, OtherController DEF job, less
<1>6. CASE job.kind = "fence"
  <2> DEFINE c == FenceReached(w.ctl, job.lease)
  <2>1. Answered(w, job) = [w EXCEPT !.ctl = c]
    BY <1>6 DEF Answered, Worlds
  <2>2. /\ c \in Controllers(Attempts) /\ LeaseInvariant(c, less, p) /\ w.ctl.pending # 0
        /\ c.interlock = w.ctl.interlock
    BY <1>1, <1>6, Bounds, FenceReachedKeeps
  <2> HIDE DEF c, less
  <2>3. Agree(w.fb, c, less)
    BY <1>1, <2>2 DEF Agree, Shape
  <2> QED BY <1>4, <2>1, <2>2, <2>3, OtherController DEF job, less
<1>7. CASE job.kind = "quiesce" /\ job.lease = w.ctl.lease
  <2> DEFINE c == Quiesced(w.ctl)
             q == [w EXCEPT !.ctl = c]
  <2>1. Answered(w, job) = TransportQuiesced(q, job.lease)
    BY <1>7 DEF Answered
  <2>2. /\ c \in Controllers(Attempts) /\ LeaseInvariant(c, less, p)
        /\ c.lease = w.ctl.lease /\ c.pending = w.ctl.pending /\ c.interlock = w.ctl.interlock
        /\ w.ctl.pending = 0 => Quiet(c, less)
    BY <1>1, <1>7, Bounds, QuiescedKeeps
  <2>3. 1 \in DOMAIN td /\ td[1] = job
    BY Tailed
  <2>4. ~Without("quiesce", td) /\ job.lease # 0
    BY <1>1, <1>7, <2>3 DEF Without, LeaseInvariant, Queue, Theirs, ForLease
  <2>5. ~w.fb.started /\ w.fb.recheck = 0
    BY <1>1, <2>4 DEF Agree, Quiet
  <2> HIDE DEF c
  <2>6. Agree(w.fb, c, less)
    BY <1>1, <2>2, <2>5 DEF Agree
  <2>7. q \in Worlds /\ Sound(q, less, es, p, u, t) /\ q.fb = w.fb /\ q.ctl = c
    <3>1. q.fb = w.fb /\ q.ctl = c
      BY DEF Worlds
    <3> QED BY <1>4, <2>2, <2>6, <3>1, OtherController
  <2> HIDE DEF q
  <2>8. q.fb.lease = job.lease => Quiet(q.ctl, less)
    BY <1>1, <2>2, <2>4, <2>7 DEF Agree
  <2> QED BY <1>2, <2>1, <2>4, <2>5, <2>7, <2>8, TransportQuiescedSound
<1>8. CASE ~(job.kind \in {"op", "fence"}) /\ ~(job.kind = "quiesce" /\ job.lease = w.ctl.lease)
  BY <1>4, <1>8 DEF Answered
<1> QED BY <1>5, <1>6, <1>7, <1>8

\* The same for the state.
LEMMA HandleAnswerKeeps ==
    ASSUME FirmwareInvariant, HandleAnswer
    PROVE  FirmwareInvariant'
<1> DEFINE x == Answered(World, Head(told))
<1>1. /\ fb.up /\ told # <<>> /\ told' = Tail(told) /\ Become(x)
      /\ UNCHANGED <<port, upd, bench, events>>
  BY DEF HandleAnswer, Running
<1>2. /\ World \in Worlds /\ Sound(World, told, events, port, upd, bench.touched)
      /\ UpdaterTypes /\ UpdaterInvariant /\ told \in Seq(Jobs(Attempts)) /\ port \in {"open", "closed"}
      /\ events \in Seq(Events) /\ Answers(events)
  BY <1>1, SoundWorld
<1>3. x \in Worlds /\ Sound(x, Tail(told), events, port, upd, bench.touched)
  BY <1>1, <1>2, AnsweredSound
<1>4. told' \in Seq(Jobs(Attempts))
  BY <1>1, <1>2
<1>5. UpdaterTypes' /\ UpdaterInvariant'
  BY <1>1, <1>2 DEF UpdaterTypes, UpdaterInvariant
<1> HIDE DEF x
<1>6. Sound(x, told', events', port', upd', bench'.touched)
  BY <1>1, <1>3
<1> QED BY <1>1, <1>2, <1>3, <1>4, <1>5, <1>6, BecameSound

-----------------------------------------------------------------------------
(* The firmware thread                                                        *)

\* An event is told after all others.
LEMMA EventsMore ==
    ASSUME NEW es \in Seq(Events), NEW e \in Events
    PROVE  /\ Append(es, e) \in Seq(Events)
           /\ Answers(es) /\ (e.kind \in {"revalidated", "rechecked"} => e.id # 0) =>
                 Answers(Append(es, e))
           /\ \A kind : Has(kind, Append(es, e)) <=> Has(kind, es) \/ e.kind = kind
           /\ \A u, ts : Told(u, ts, es) /\ e.kind \notin {"finished", "irreversible"} =>
                 Told(u, ts, Append(es, e))
           /\ \A u, ts :
                 /\ e.kind = "finished" /\ ~Has("finished", es) /\ (e.ok => u.irr)
                 /\ u.step = "Idle" /\ ~Has("start", ts) /\ (Has("irreversible", es) => u.irr)
                 => Told(u, ts, Append(es, e))
<1> DEFINE more == Append(es, e)
           last == Len(es) + 1
<1>1. /\ more \in Seq(Events) /\ last \in DOMAIN more /\ more[last] = e
      /\ \A i \in DOMAIN es : i \in DOMAIN more /\ more[i] = es[i] /\ i < last
      /\ \A i \in DOMAIN more : i \in DOMAIN es \/ i = last
  BY Appended
<1> HIDE DEF more, last
<1>2. \A kind : Has(kind, more) <=> Has(kind, es) \/ e.kind = kind
  BY <1>1 DEF Has
<1>3. Answers(es) /\ (e.kind \in {"revalidated", "rechecked"} => e.id # 0) => Answers(more)
  BY <1>1 DEF Answers
<1>4. ASSUME NEW u, NEW ts, Told(u, ts, es), e.kind \notin {"finished", "irreversible"}
      PROVE  Told(u, ts, more)
  <2>1. \A i \in DOMAIN more : more[i].kind \in {"finished", "irreversible"} =>
            i \in DOMAIN es /\ more[i] = es[i]
    BY <1>1, <1>4
  <2> QED BY <1>2, <1>4, <2>1 DEF Told
<1>5. ASSUME NEW u, NEW ts, e.kind = "finished", ~Has("finished", es), e.ok => u.irr,
             u.step = "Idle", ~Has("start", ts), Has("irreversible", es) => u.irr
      PROVE  Told(u, ts, more)
  <2>1. \A i \in DOMAIN more : more[i].kind = "finished" => i = last /\ more[i] = e
    BY <1>1, <1>5 DEF Has
  <2>2. \A i \in DOMAIN more : more[i].kind = "irreversible" => i < last
    BY <1>1, <1>5
  <2> QED BY <1>2, <1>5, <2>1, <2>2 DEF Told
<1> QED BY <1>1, <1>2, <1>3, <1>4, <1>5 DEF more

\* What is left of the tasks when the first is done.
LEMMA TasksLess ==
    ASSUME NEW ts \in Seq(Tasks), ts # <<>>, Sensible(ts)
    PROVE  /\ Tail(ts) \in Seq(Tasks) /\ Sensible(Tail(ts)) /\ Head(ts) \in Tasks
           /\ Head(ts).kind \in {"revalidate", "recheck"} => Head(ts).id # 0
           /\ Head(ts).kind = "start" => Head(ts).pkg \in Packages /\ Has("start", ts)
           /\ \A kind : Has(kind, Tail(ts)) => Has(kind, ts)
           /\ Has("start", ts) => Has("start", Tail(ts)) \/ Head(ts).kind = "start"
           /\ \A n, u, es : Coming(n, u, ts, es) => Coming(n, u, Tail(ts), es)
           /\ \A n, u, es : Coming(n, u, ts, es) /\ Head(ts).kind = "start" =>
                 Head(ts).id = n /\ ~Has("start", Tail(ts))
<1> DEFINE less == Tail(ts)
<1>1. /\ less \in Seq(Tasks) /\ Head(ts) \in Tasks
      /\ 1 \in DOMAIN ts /\ ts[1] = Head(ts)
      /\ \A i \in DOMAIN less :
            i \in Nat /\ i + 1 \in DOMAIN ts /\ less[i] = ts[i + 1] /\ 1 < i + 1
      /\ \A i \in DOMAIN ts :
            i \in Nat /\ (i = 1 \/ (i - 1 \in DOMAIN less /\ less[i - 1] = ts[i]))
  BY Tailed
<1> HIDE DEF less
<1>2. /\ Sensible(less)
      /\ Head(ts).kind \in {"revalidate", "recheck"} => Head(ts).id # 0
      /\ Head(ts).kind = "start" => Head(ts).pkg \in Packages
  BY <1>1 DEF Sensible
<1>3. /\ Head(ts).kind = "start" => Has("start", ts)
      /\ \A kind : Has(kind, less) => Has(kind, ts)
      /\ Has("start", ts) => Has("start", less) \/ Head(ts).kind = "start"
  BY <1>1 DEF Has
<1>4. ASSUME NEW n, NEW u, NEW es, Coming(n, u, ts, es)
      PROVE  /\ Coming(n, u, less, es)
             /\ Head(ts).kind = "start" => Head(ts).id = n /\ ~Has("start", less)
  <2>1. \A i, j \in DOMAIN less : i + 1 = j + 1 => i = j
    BY <1>1
  <2>2. Coming(n, u, less, es)
    BY <1>1, <1>4, <2>1 DEF Coming
  <2>3. Head(ts).kind = "start" => Head(ts).id = n
    BY <1>1, <1>4 DEF Coming
  <2>4. \A i \in DOMAIN less : i + 1 # 1
    BY <1>1
  <2>5. Head(ts).kind = "start" => ~Has("start", less)
    BY <1>1, <1>4, <2>4 DEF Coming, Has
  <2> QED BY <2>2, <2>3, <2>5
<1> QED BY <1>1, <1>2, <1>3, <1>4 DEF less

\* What the journal and the bridge say of the updater and its queues.
Attached(f, d, u, ts, es, l, t) == Owned(f, u, ts, es) /\ Recorded(f, d, u, ts, es, l, t)

\* A task that is not a start is done.
LEMMA AttachedLess ==
    ASSUME NEW ts \in Seq(Tasks), ts # <<>>, Sensible(ts), Head(ts).kind # "start",
           NEW f, NEW d, NEW u, NEW es, NEW l, NEW t, Attached(f, d, u, ts, es, l, t)
    PROVE  Attached(f, d, u, Tail(ts), es, l, t)
<1>1. Has("start", Tail(ts)) <=> Has("start", ts)
  BY TasksLess
<1>2. \A n : Coming(n, u, ts, es) => Coming(n, u, Tail(ts), es)
  BY TasksLess
<1>3. Owned(f, u, Tail(ts), es)
  BY <1>1, <1>2 DEF Attached, Owned, Underway, Told, Free
<1>4. Recorded(f, d, u, Tail(ts), es, l, t)
  BY <1>1 DEF Attached, Recorded, Begun
<1> QED BY <1>3, <1>4 DEF Attached

\* An answer to the bridge's question.
LEMMA AttachedMore ==
    ASSUME NEW es \in Seq(Events), NEW e \in Events, e.kind \notin {"finished", "irreversible"},
           NEW f, NEW d, NEW u, NEW ts, NEW l, NEW t, Attached(f, d, u, ts, es, l, t)
    PROVE  Attached(f, d, u, ts, Append(es, e), l, t)
<1> DEFINE more == Append(es, e)
<1>1. /\ Has("finished", more) <=> Has("finished", es)
      /\ Has("irreversible", more) <=> Has("irreversible", es)
      /\ Told(u, ts, es) => Told(u, ts, more)
  BY EventsMore
<1> HIDE DEF more
<1>2. Owned(f, u, ts, more)
  BY <1>1 DEF Attached, Owned, Underway, Coming, Free
<1>3. Recorded(f, d, u, ts, more, l, t)
  BY <1>1 DEF Attached, Recorded, Begun
<1> QED BY <1>2, <1>3 DEF Attached, more

\* What the updater tells are events.
LEMMA EventTypes ==
    /\ IrreversibleStarted \in Events /\ IrreversibleStarted.kind = "irreversible"
    /\ \A ok \in BOOLEAN :
          Finished(ok) \in Events /\ Finished(ok).kind = "finished" /\ Finished(ok).ok = ok
BY DEF IrreversibleStarted, Finished, Event, Events, Kinds

\* A start is done: the updater v is at work, or has told that it cannot begin.
LEMMA AttachedStart ==
    ASSUME NEW ts \in Seq(Tasks), ts # <<>>, Sensible(ts), Head(ts).kind = "start",
           NEW f, NEW d, NEW u, NEW es \in Seq(Events), NEW l, NEW t, Attached(f, d, u, ts, es, l, t),
           NEW v, v.irr = FALSE, NEW more,
           \/ v.step # "Idle" /\ v.attempt = Head(ts).id /\ more = es
           \/ v.step = "Idle" /\ more = Append(es, Finished(FALSE))
    PROVE  Attached(f, d, v, Tail(ts), more, l, t)
<1>1. Has("start", ts)
  BY TasksLess
<1>2. f.started /\ Coming(f.n, u, ts, es) /\ ~f.irr /\ Begun(f, d, u, ts, es, l, t)
  BY <1>1 DEF Attached, Owned, Free, Underway, Told, Recorded
<1>3. ~Has("start", Tail(ts)) /\ Head(ts).id = f.n
  BY <1>2, TasksLess
<1>4. ~Has("irreversible", es) /\ ~Has("finished", es)
  BY <1>2 DEF Coming
<1>5. CASE v.step # "Idle" /\ v.attempt = Head(ts).id /\ more = es
  <2>1. Owned(f, v, Tail(ts), more)
    BY <1>2, <1>3, <1>4, <1>5 DEF Owned, Underway
  <2>2. Begun(f, d, v, Tail(ts), more, l, t)
    BY <1>1, <1>2, <1>3, <1>5 DEF Begun
  <2> QED BY <1>2, <2>1, <2>2 DEF Attached, Recorded
<1>6. CASE v.step = "Idle" /\ more = Append(es, Finished(FALSE))
  <2>1. /\ Finished(FALSE) \in Events /\ Finished(FALSE).kind = "finished" /\ Finished(FALSE).ok = FALSE
    BY EventTypes
  <2>2. Has("finished", more) /\ ~Has("irreversible", more)
    BY <1>4, <1>6, <2>1, EventsMore
  <2>3. Told(v, Tail(ts), more)
    BY <1>3, <1>4, <1>6, <2>1, EventsMore
  <2>4. Owned(f, v, Tail(ts), more)
    BY <1>2, <2>2, <2>3 DEF Owned
  <2>5. Begun(f, d, v, Tail(ts), more, l, t)
    BY <1>1, <1>2, <1>3 DEF Begun
  <2> QED BY <1>2, <2>4, <2>5 DEF Attached, Recorded
<1> QED BY <1>5, <1>6

\* What the updater does, seen from outside.
LEMMA AttachedStep ==
    ASSUME NEW f, f.n \in Nat, NEW d, NEW u, u.step # "Idle", NEW ts, NEW es \in Seq(Events), NEW l,
           NEW t, Attached(f, d, u, ts, es, l, t), NEW v, NEW more, NEW now,
           \/ v.step # "Idle" /\ v.irr = u.irr /\ v.attempt = u.attempt /\ now = t /\ more = es
           \/ /\ v.step # "Idle" /\ v.irr /\ v.attempt = u.attempt /\ now = u.attempt
              /\ more = Append(es, IrreversibleStarted)
           \/ /\ v.step = "Idle" /\ v.irr = u.irr /\ now = t
              /\ \E ok \in BOOLEAN : more = Append(es, Finished(ok)) /\ (ok => u.irr)
    PROVE  Attached(f, d, v, ts, more, l, now)
<1>1. f.started /\ Underway(f.n, u, ts, es) /\ (f.irr => u.irr) /\ Begun(f, d, u, ts, es, l, t)
  BY DEF Attached, Owned, Free, Coming, Told, Recorded
<1>2. u.attempt = f.n /\ ~Has("start", ts) /\ ~Has("finished", es) /\ (Has("irreversible", es) => u.irr)
  BY <1>1 DEF Underway
<1>3. CASE v.step # "Idle" /\ v.irr = u.irr /\ v.attempt = u.attempt /\ now = t /\ more = es
  <2>1. Owned(f, v, ts, more)
    BY <1>1, <1>2, <1>3 DEF Owned, Underway
  <2>2. Begun(f, d, v, ts, more, l, now)
    BY <1>1, <1>2, <1>3 DEF Begun
  <2> QED BY <1>1, <2>1, <2>2 DEF Attached, Recorded
<1>4. CASE /\ v.step # "Idle" /\ v.irr /\ v.attempt = u.attempt /\ now = u.attempt
           /\ more = Append(es, IrreversibleStarted)
  <2>1. IrreversibleStarted \in Events /\ IrreversibleStarted.kind = "irreversible"
    BY EventTypes
  <2>2. Has("irreversible", more) /\ ~Has("finished", more)
    BY <1>2, <1>4, <2>1, EventsMore
  <2>3. Owned(f, v, ts, more)
    BY <1>1, <1>2, <1>4, <2>2 DEF Owned, Underway
  <2>4. now = f.n /\ now <= f.n
    BY <1>2, <1>4
  <2>5. Begun(f, d, v, ts, more, l, now)
    BY <1>1, <1>2, <1>4, <2>2, <2>4 DEF Begun
  <2> QED BY <1>1, <2>3, <2>5 DEF Attached, Recorded
<1>5. ASSUME v.step = "Idle", v.irr = u.irr, now = t, NEW ok \in BOOLEAN,
             more = Append(es, Finished(ok)), ok => u.irr
      PROVE  Attached(f, d, v, ts, more, l, now)
  <2>1. Finished(ok) \in Events /\ Finished(ok).kind = "finished" /\ Finished(ok).ok = ok
    BY EventTypes
  <2>2. Has("finished", more) /\ (Has("irreversible", more) <=> Has("irreversible", es))
    BY <1>5, <2>1, EventsMore
  <2>3. Finished(ok).ok => v.irr
    BY <1>5, <2>1
  <2>4. Told(v, ts, more)
    BY <1>2, <1>5, <2>1, <2>3, EventsMore
  <2>5. Owned(f, v, ts, more)
    BY <1>1, <1>5, <2>2, <2>4 DEF Owned
  <2>6. Begun(f, d, v, ts, more, l, now)
    BY <1>1, <1>2, <1>5, <2>2 DEF Begun
  <2> QED BY <1>1, <2>5, <2>6 DEF Attached, Recorded
<1> QED BY <1>3, <1>4, <1>5

\* What the invariant asks of a step of another thread.
LEMMA ThreadSound ==
    ASSUME FirmwareInvariant, fb.up, ThreadOnly, UpdaterTypes', UpdaterInvariant',
           tasks' \in Seq(Tasks), Sensible(tasks'), events' \in Seq(Events), Answers(events'),
           Attached(fb, disk, upd', tasks', events', left, bench'.touched)
    PROVE  FirmwareInvariant'
<1> DEFINE x == [World EXCEPT !.tasks = tasks']
<1>1. /\ World \in Worlds /\ Sound(World, told, events, port, upd, bench.touched)
      /\ told \in Seq(Jobs(Attempts)) /\ port \in {"open", "closed"}
      /\ World.fb = fb /\ World.ctl = ctl /\ World.disk = disk /\ World.tasks = tasks
      /\ World.left = left
  BY SoundWorld
<1>2. /\ x \in Worlds /\ x.fb = fb /\ x.ctl = ctl /\ x.disk = disk /\ x.tasks = tasks' /\ x.left = left
  BY <1>1 DEF Worlds
<1>3. Become(x)
  BY <1>2 DEF Become, ThreadOnly
<1>4. UNCHANGED <<told, port>>
  BY DEF ThreadOnly
<1> HIDE DEF x
<1>5. Sound(x, told', events', port', upd', bench'.touched)
  BY <1>1, <1>2, <1>4 DEF Sound, Nearly, Attached
<1> QED BY <1>1, <1>2, <1>3, <1>4, <1>5, BecameSound

\* The state of the firmware thread, in an invariant state.
LEMMA ThreadState ==
    ASSUME FirmwareInvariant, fb.up
    PROVE  /\ tasks \in Seq(Tasks) /\ Sensible(tasks) /\ events \in Seq(Events) /\ Answers(events)
           /\ Attached(fb, disk, upd, tasks, events, left, bench.touched) /\ fb.n \in Nat
           /\ UpdaterTypes /\ UpdaterInvariant
<1>1. /\ Sound(World, told, events, port, upd, bench.touched)
      /\ World.fb = fb /\ World.disk = disk /\ World.tasks = tasks /\ World.left = left
      /\ UpdaterTypes /\ UpdaterInvariant /\ events \in Seq(Events) /\ Answers(events)
  BY SoundWorld
<1>2. tasks \in Seq(Tasks) /\ fb.n \in Nat
  BY SoundWorld, WorldFields, Bounds
<1> QED BY <1>1, <1>2 DEF Sound, Nearly, Attached

\* A step of the updater, for the bridge.
LEMMA StepEffect ==
    ASSUME events \in Seq(Events), Answers(events), GoesOn \/ Touches \/ Ends,
           NEW f, f.n \in Nat, NEW d, NEW ts, NEW l, Attached(f, d, upd, ts, events, l, bench.touched)
    PROVE  /\ events' \in Seq(Events) /\ Answers(events')
           /\ Attached(f, d, upd', ts, events', l, bench'.touched)
<1>1. /\ upd.step # "Idle"
      /\ \/ /\ upd'.step # "Idle" /\ upd'.irr = upd.irr /\ upd'.attempt = upd.attempt
            /\ bench'.touched = bench.touched /\ events' = events
         \/ /\ upd'.step # "Idle" /\ upd'.irr /\ upd'.attempt = upd.attempt
            /\ bench'.touched = upd.attempt /\ events' = Append(events, IrreversibleStarted)
         \/ /\ upd'.step = "Idle" /\ upd'.irr = upd.irr /\ bench'.touched = bench.touched
            /\ \E ok \in BOOLEAN : events' = Append(events, Finished(ok)) /\ (ok => upd.irr)
  BY DEF GoesOn, Touches, Ends
<1>2. Attached(f, d, upd', ts, events', l, bench'.touched)
  BY <1>1, AttachedStep
<1>3. events' \in Seq(Events) /\ Answers(events')
  <2>1. CASE events' = events
    BY <2>1
  <2>2. CASE events' = Append(events, IrreversibleStarted)
    BY <2>2, EventTypes, EventsMore
  <2>3. ASSUME NEW ok \in BOOLEAN, events' = Append(events, Finished(ok))
        PROVE  events' \in Seq(Events) /\ Answers(events')
    BY <2>3, EventTypes, EventsMore
  <2> QED BY <1>1, <2>1, <2>2, <2>3
<1> QED BY <1>2, <1>3

\* The firmware thread does its first task.
LEMMA FirmwareTaskKeeps ==
    ASSUME FirmwareInvariant, FirmwareTask
    PROVE  FirmwareInvariant'
<1> DEFINE task == Head(tasks)
<1>1. fb.up /\ tasks # <<>> /\ tasks' = Tail(tasks) /\ Perform(task) /\ ThreadOnly
  BY DEF FirmwareTask
<1>2. /\ tasks \in Seq(Tasks) /\ Sensible(tasks) /\ events \in Seq(Events) /\ Answers(events)
      /\ Attached(fb, disk, upd, tasks, events, left, bench.touched) /\ fb.n \in Nat
      /\ UpdaterTypes /\ UpdaterInvariant
  BY <1>1, ThreadState
<1>3. /\ tasks' \in Seq(Tasks) /\ Sensible(tasks') /\ task \in Tasks
      /\ task.kind \in {"revalidate", "recheck"} => task.id # 0
      /\ task.kind = "start" => task.pkg \in Packages /\ Has("start", tasks)
  BY <1>1, <1>2, TasksLess
<1>4. task.id \in Nat
  BY <1>3 DEF Tasks
<1>5. task.kind # "start" => Attached(fb, disk, upd, tasks', events, left, bench.touched)
  BY <1>1, <1>2, AttachedLess
<1>6. ASSUME NEW kind \in {"validated", "revalidated", "rechecked"}, NEW pkg \in Packages \cup {None},
             Answer(kind, task.id, pkg), task.kind # "start",
             kind \in {"revalidated", "rechecked"} => task.id # 0
      PROVE  FirmwareInvariant'
  <2>1. PICK ok \in BOOLEAN : events' = Append(events, Event(kind, task.id, ok, pkg))
    BY <1>6 DEF Answer
  <2> DEFINE e == Event(kind, task.id, ok, pkg)
  <2>2. e \in Events /\ e.kind = kind /\ e.id = task.id
    BY <1>4, <1>6 DEF Event, Events, Kinds
  <2> HIDE DEF e, task
  <2>3. events' = Append(events, e)
    BY <2>1 DEF e
  <2>4. events' \in Seq(Events) /\ Answers(events')
    BY <1>2, <1>6, <2>2, <2>3, EventsMore
  <2>5. Attached(fb, disk, upd, tasks', events', left, bench.touched)
    BY <1>2, <1>5, <1>6, <2>2, <2>3, AttachedMore
  <2>6. UNCHANGED <<upd, bench>>
    BY <1>6 DEF Answer
  <2>7. UpdaterTypes' /\ UpdaterInvariant'
    BY <1>2, <2>6 DEF UpdaterTypes, UpdaterInvariant
  <2>8. Attached(fb, disk, upd', tasks', events', left, bench'.touched)
    BY <2>5, <2>6
  <2> QED BY <1>1, <1>3, <2>4, <2>7, <2>8, ThreadSound
<1>7. CASE task.kind = "validate"
  <2>1. PICK pkg \in Packages : Answer("validated", task.id, pkg)
    BY <1>1, <1>7 DEF Perform
  <2> HIDE DEF task
  <2> QED BY <1>6, <1>7, <2>1
<1>8. CASE task.kind = "revalidate"
  <2>1. Answer("revalidated", task.id, None)
    BY <1>1, <1>8 DEF Perform
  <2> HIDE DEF task
  <2> QED BY <1>3, <1>6, <1>8, <2>1
<1>9. CASE task.kind = "recheck"
  <2>1. Answer("rechecked", task.id, None)
    BY <1>1, <1>9 DEF Perform
  <2> HIDE DEF task
  <2> QED BY <1>3, <1>6, <1>9, <2>1
<1>10. CASE task.kind = "start"
  <2>1. PICK good \in BOOLEAN : StartUpdate(task.pkg, task.id, good)
    BY <1>1, <1>10 DEF Perform
  <2>2. upd.step = "Idle"
    BY <1>2, <1>3, <1>10 DEF Attached, Owned, Free, Coming, Underway, Told
  <2>3. task.pkg \in Packages
    BY <1>3, <1>10
  <2> HIDE DEF task
  <2>4. /\ UpdaterTypes' /\ UpdaterInvariant' /\ bench' = bench /\ ~upd'.irr
        /\ \/ upd'.step # "Idle" /\ upd'.attempt = task.id /\ events' = events
           \/ upd'.step = "Idle" /\ events' = Append(events, Finished(FALSE))
    BY <1>2, <1>4, <2>1, <2>2, <2>3, StartKeeps
  <2>5. upd'.irr = FALSE
    BY <2>4 DEF UpdaterTypes, Updaters
  <2>6. Attached(fb, disk, upd', tasks', events', left, bench.touched)
    BY <1>1, <1>2, <1>10, <2>4, <2>5, AttachedStart DEF task
  <2>7. events' \in Seq(Events) /\ Answers(events')
    BY <1>2, <2>4, EventTypes, EventsMore
  <2> QED BY <1>1, <1>3, <2>4, <2>6, <2>7, ThreadSound
<1>11. CASE task.kind = "cancel"
  <2>1. CancelUpdate
    BY <1>1, <1>11 DEF Perform
  <2>2. UpdaterTypes' /\ UpdaterInvariant' /\ (UNCHANGED <<upd, bench, events>> \/ Ends)
    BY <1>2, <2>1, CancelKeeps
  <2>3. Attached(fb, disk, upd, tasks', events, left, bench.touched)
    BY <1>5, <1>11
  <2>4. /\ events' \in Seq(Events) /\ Answers(events')
        /\ Attached(fb, disk, upd', tasks', events', left, bench'.touched)
    <3>1. CASE UNCHANGED <<upd, bench, events>>
      BY <1>2, <2>3, <3>1
    <3>2. CASE Ends
      BY <1>2, <2>3, <3>2, StepEffect
    <3> QED BY <2>2, <3>1, <3>2
  <2> QED BY <1>1, <1>3, <2>2, <2>4, ThreadSound
<1> QED BY <1>3, <1>7, <1>8, <1>9, <1>10, <1>11 DEF Tasks

\* A program ends or a timer goes off, and the updater goes on.
LEMMA UpdaterActions ==
    ASSUME FirmwareInvariant, ProgramEnds \/ StepTimer \/ LoaderPollTimer
    PROVE  FirmwareInvariant'
<1>1. /\ fb.up /\ ThreadOnly /\ tasks' = tasks
      /\ UpdaterStep \/ StepTimesOut \/ LoaderPolled
  BY DEF ProgramEnds, StepTimer, LoaderPollTimer, UpdaterOnly
<1>2. /\ tasks \in Seq(Tasks) /\ Sensible(tasks) /\ events \in Seq(Events) /\ Answers(events)
      /\ Attached(fb, disk, upd, tasks, events, left, bench.touched) /\ fb.n \in Nat
      /\ UpdaterTypes /\ UpdaterInvariant
  BY <1>1, ThreadState
<1>3. UpdaterTypes' /\ UpdaterInvariant' /\ (GoesOn \/ Touches \/ Ends)
  BY <1>1, <1>2, UpdaterStepKeeps
<1>4. /\ events' \in Seq(Events) /\ Answers(events')
      /\ Attached(fb, disk, upd', tasks, events', left, bench'.touched)
  BY <1>2, <1>3, StepEffect
<1> QED BY <1>1, <1>2, <1>3, <1>4, ThreadSound

\* Another display is put on the bench during an update.
LEMMA ExchangeDisplayKeeps ==
    ASSUME FirmwareInvariant, ExchangeDisplay
    PROVE  FirmwareInvariant'
<1> DEFINE x == [World EXCEPT !.left = Spent(@, "swap")]
<1>1. /\ Swap /\ upd.step # "Idle" /\ left.mishaps > 0 /\ left' = Spent(left, "swap")
      /\ UNCHANGED <<fb, ctl, port, told, disk, tasks>>
  BY DEF ExchangeDisplay, Swap, May
<1>2. fb.up
  BY <1>1 DEF FirmwareInvariant, Off
<1>3. /\ World \in Worlds /\ Sound(World, told, events, port, upd, bench.touched)
      /\ told \in Seq(Jobs(Attempts)) /\ port \in {"open", "closed"}
      /\ World.fb = fb /\ World.ctl = ctl /\ World.disk = disk /\ World.tasks = tasks
      /\ World.left = left
  BY <1>2, SoundWorld
<1>4. x \in Worlds /\ Sound(x, told, events, port, upd, bench.touched)
  BY <1>1, <1>3, SpentSound DEF Mishaps
<1>5. /\ x.fb = fb /\ x.ctl = ctl /\ x.disk = disk /\ x.tasks = tasks /\ x.left = left'
  BY <1>1, <1>3 DEF Worlds
<1>6. Become(x)
  BY <1>1, <1>5 DEF Become
<1> HIDE DEF x
<1>7. /\ events \in Seq(Events) /\ Answers(events) /\ fb.n \in Nat /\ UpdaterTypes /\ UpdaterInvariant
  BY <1>2, ThreadState
<1>8. UpdaterTypes' /\ UpdaterInvariant' /\ GoesOn
  BY <1>1, <1>7, SwapKeeps
<1>9. Attached(x.fb, x.disk, upd, x.tasks, events, x.left, bench.touched)
  BY <1>4 DEF Attached, Sound, Nearly
<1>10. /\ events' \in Seq(Events) /\ Answers(events')
       /\ Attached(x.fb, x.disk, upd', x.tasks, events', x.left, bench'.touched)
  BY <1>5, <1>7, <1>8, <1>9, StepEffect
<1>11. Sound(x, told', events', port', upd', bench'.touched)
  BY <1>1, <1>4, <1>10 DEF Sound, Nearly, Attached
<1> QED BY <1>1, <1>3, <1>4, <1>6, <1>8, <1>10, <1>11, BecameSound

\* The worker does its first job.
LEMMA WorkerStepKeeps ==
    ASSUME FirmwareInvariant, WorkerStep
    PROVE  FirmwareInvariant'
<1> DEFINE job == Head(ctl.jobs)
           c == [ctl EXCEPT !.jobs = Tail(@)]
           x == [World EXCEPT !.ctl = c]
<1>1. /\ fb.up /\ ctl.jobs # <<>> /\ ctl' = c
      /\ UNCHANGED <<fb, disk, tasks, left, upd, bench, events>>
      /\ told' \in {told, Append(told, job)}
  BY DEF WorkerStep
<1>2. /\ World \in Worlds /\ Sound(World, told, events, port, upd, bench.touched)
      /\ told \in Seq(Jobs(Attempts)) /\ port \in {"open", "closed"}
      /\ UpdaterTypes /\ UpdaterInvariant /\ events \in Seq(Events) /\ Answers(events)
      /\ World.fb = fb /\ World.ctl = ctl /\ World.disk = disk /\ World.tasks = tasks
      /\ World.left = left
  BY <1>1, SoundWorld
<1>3. /\ port' \in {"open", "closed"} /\ (job.kind = "quiesce" => port' = "closed")
      /\ port' # "closed" => job.kind = "open" \/ port' = port
  <2>1. port' \in CASE job.kind = "open" -> {"open", "closed"}
                    [] job.kind \in {"clear", "quiesce"} -> {"closed"}
                    [] OTHER -> {port}
    BY DEF WorkerStep
  <2> HIDE DEF job
  <2>2. CASE job.kind = "open"
    BY <2>1, <2>2
  <2>3. CASE job.kind \in {"clear", "quiesce"}
    BY <2>1, <2>3
  <2>4. CASE job.kind \notin {"open", "clear", "quiesce"}
    BY <1>2, <2>1, <2>4
  <2> QED BY <2>2, <2>3, <2>4
<1>4. ctl \in Controllers(Attempts) /\ LeaseInvariant(ctl, told, port) /\ Agree(fb, ctl, told)
  BY <1>2, WorldFields DEF Sound, Nearly
<1>5. /\ c \in Controllers(Attempts) /\ told' \in Seq(Jobs(Attempts))
      /\ LeaseInvariant(c, told', port') /\ (Quiet(ctl, told) => Quiet(c, told'))
  <2> HIDE DEF c
  <2>1. c = Worked(ctl)
    BY DEF c, Worked
  <2> HIDE DEF job
  <2>2. Tells(Head(ctl.jobs), told, told')
    BY <1>1 DEF job, Tells
  <2>3. Holds(Head(ctl.jobs), port, port')
    BY <1>3 DEF job, Holds
  <2> QED BY ZenonT(60), <1>1, <1>2, <1>4, <2>1, <2>2, <2>3, Bounds, WorkedKeeps
<1>6. c.lease = ctl.lease /\ c.pending = ctl.pending /\ c.interlock = ctl.interlock
  BY <1>4 DEF Controllers
<1>7. /\ x.fb = fb /\ x.ctl = c /\ x.disk = disk /\ x.tasks = tasks /\ x.left = left
  BY <1>2 DEF Worlds
<1>8. Become(x)
  BY <1>1, <1>7 DEF Become
<1> HIDE DEF c
<1>9. Agree(fb, c, told')
  BY <1>4, <1>5, <1>6 DEF Agree
<1>10. x \in Worlds /\ Sound(x, told', events, port', upd, bench.touched)
  BY <1>2, <1>5, <1>6, <1>9, OtherController
<1> HIDE DEF x
<1>11. UpdaterTypes' /\ UpdaterInvariant'
  BY <1>1, <1>2 DEF UpdaterTypes, UpdaterInvariant
<1>12. Sound(x, told', events', port', upd', bench'.touched)
  BY <1>1, <1>10
<1>13. events' \in Seq(Events) /\ Answers(events')
  BY <1>1, <1>2
<1> QED BY <1>3, <1>5, <1>8, <1>10, <1>11, <1>12, <1>13, BecameSound

-----------------------------------------------------------------------------
(* The end of the process, and its start                                      *)

\* The memory of a process that is not there.
LEMMA DownType ==
    ASSUME NEW n \in Attempts
    PROVE  /\ Down(n) \in Bridges /\ Down(n).n = n /\ ~Down(n).up /\ ~Down(n).started /\ ~Down(n).quit
           /\ Down(n).flash = None /\ Down(n).required = FALSE
BY Bounds DEF Down, Bridges

\* A controller that has just been made holds nothing.
LEMMA FreshKeeps ==
    ASSUME NEW present \in BOOLEAN
    PROVE  /\ Fresh(present) \in Controllers(Attempts) /\ Fresh(present).present = present
           /\ Fresh(present).jobs = <<>> /\ ~Fresh(present).connected
           /\ LeaseInvariant(Fresh(present), <<>>, "closed")
<1> DEFINE c == Fresh(present)
<1>1. /\ c.lease = 0 /\ c.pending = 0 /\ c.jobs = <<>> /\ c.interlock = FALSE /\ ~c.connected
      /\ c.present = present
  BY DEF Fresh
<1>2. c \in Controllers(Attempts)
  <2>1. 0 \in Attempts /\ <<>> \in Seq(Jobs(Attempts))
    BY Bounds
  <2> QED BY <2>1 DEF Fresh, Controllers
<1> HIDE DEF c
<1>3. LeaseInvariant(c, <<>>, "closed")
  BY <1>1 DEF LeaseInvariant, Queue, Theirs, Ordered, Before, Exclusive
<1> QED BY <1>1, <1>2, <1>3 DEF c

\* Empty queues.
LEMMA NothingWaits ==
    /\ <<>> \in Seq(Tasks) /\ <<>> \in Seq(Events) /\ <<>> \in Seq(Jobs(Attempts))
    /\ Sensible(<<>>) /\ Answers(<<>>) /\ \A kind : ~Has(kind, <<>>)
BY DEF Sensible, Answers, Has

\* An update that had started has left its mark in left.
LEMMA GoneKeepsAll ==
    ASSUME FirmwareInvariant, fb.up, Gone, left' \in Lefts,
           Faultless(left') => Faultless(left) /\ ~fb.started
    PROVE  FirmwareInvariant'
<1>1. /\ fb' = Down(fb.n) /\ ctl' = Fresh(ctl.present) /\ port' = "closed" /\ told' = <<>>
      /\ tasks' = <<>> /\ events' = <<>> /\ upd' = Rest /\ disk' = disk
      /\ PerhapsStored
  BY DEF Gone
<1>2. /\ World \in Worlds /\ Sound(World, told, events, port, upd, bench.touched)
      /\ UpdaterTypes /\ UpdaterInvariant
      /\ World.fb = fb /\ World.ctl = ctl /\ World.disk = disk /\ World.tasks = tasks
      /\ World.left = left
  BY SoundWorld
<1>3. fb \in Bridges /\ ctl \in Controllers(Attempts) /\ disk \in Records \cup {None} /\ fb.n \in Attempts
  BY <1>2, WorldFields
<1>4. ctl.present \in BOOLEAN
  BY <1>3 DEF Controllers
<1>5. /\ UpdaterTypes' /\ UpdaterInvariant' /\ upd'.step = "Idle" /\ bench'.touched = bench.touched
  BY <1>1, <1>2, GoneKeeps
<1>6. /\ fb' \in Bridges /\ fb'.n = fb.n /\ ~fb'.up
  BY <1>1, <1>3, DownType
<1>7. ctl' \in Controllers(Attempts) /\ ctl'.present = ctl.present
  BY <1>1, <1>4, FreshKeeps
<1>8. Types'
  <2>1. TypeOK'
    BY <1>1, <1>3, <1>5, <1>6, <1>7, NothingWaits DEF TypeOK, UpdaterTypes, Lefts
  <2>2. events' \in Seq(Events) /\ Sensible(tasks') /\ Answers(events')
    BY <1>1, NothingWaits
  <2> QED BY <2>1, <2>2 DEF Types
<1>9. Off'
  BY <1>1, <1>5, <1>6, <1>7 DEF Off
<1>10. Kept(fb', disk', left', bench'.touched)
  <2>1. Recorded(fb, disk, upd, tasks, events, left, bench.touched)
    BY <1>2 DEF Sound, Nearly
  <2>2. (bench.touched # 0 => disk # None) /\ bench.touched <= fb.n
    BY <2>1 DEF Recorded, Begun, Kept
  <2>3. Faultless(left') /\ bench.touched # 0 => disk.id = bench.touched /\ disk.phase # "Armed"
    BY <2>1 DEF Recorded, Kept
  <2>4. (bench'.touched # 0 => disk' # None) /\ bench'.touched <= fb'.n
    BY <1>1, <1>5, <1>6, <2>2
  <2>5. Faultless(left') /\ bench'.touched # 0 => disk'.id = bench'.touched /\ disk'.phase # "Armed"
    BY <1>1, <1>5, <2>3
  <2> QED BY <1>6, <2>4, <2>5 DEF Kept
<1> QED BY <1>5, <1>6, <1>8, <1>9, <1>10 DEF FirmwareInvariant

\* Crashes leave their mark, and the runtime does not end under an update.
LEMMA EndKeeps ==
    ASSUME FirmwareInvariant
    PROVE  /\ Crash => FirmwareInvariant'
           /\ ProgramCannotStart => FirmwareInvariant'
           /\ Exit => FirmwareInvariant'
<1>1. left \in Lefts
  BY DEF FirmwareInvariant, Types, TypeOK, Lefts
<1>2. ASSUME fb.up, left.mishaps > 0, left' = Spent(left, "crash"), Gone PROVE FirmwareInvariant'
  <2>1. left' \in Lefts /\ ~Faultless(left')
    BY <1>1, <1>2, SpentLeft DEF Mishaps
  <2> QED BY <1>2, <2>1, GoneKeepsAll
<1>3. ASSUME Exit PROVE FirmwareInvariant'
  <2>1. fb.up
    <3>1. CASE ~fb.up
      <4>1. fb = Down(fb.n)
        BY <3>1 DEF FirmwareInvariant, Off
      <4>2. Down(fb.n).quit = FALSE
        BY DEF Down
      <4> QED BY <1>3, <4>1, <4>2 DEF Exit
    <3> QED BY <3>1
  <2>2. ~fb.started
    BY <1>3, <2>1, SoundWorld DEF Exit, Sound, Nearly, Shape
  <2> QED BY <1>1, <1>3, <2>1, <2>2, GoneKeepsAll DEF Exit
<1> QED BY <1>2, <1>3 DEF Crash, ProgramCannotStart, May

\* loadRecoveryJournal: with a record the runtime starts behind the interlock.
LEMMA BootKeeps ==
    ASSUME FirmwareInvariant, Boot
    PROVE  FirmwareInvariant'
<1>1. /\ ~fb.up /\ UNCHANGED <<port, told, disk, tasks, left, upd, bench, events>>
  BY DEF Boot
<1>2. /\ port = "closed" /\ upd.step = "Idle" /\ told = <<>> /\ tasks = <<>> /\ events = <<>>
      /\ Kept(fb, disk, left, bench.touched) /\ Types /\ UpdaterInvariant
  BY <1>1 DEF FirmwareInvariant, Off
<1>3. /\ fb.n \in Attempts /\ disk \in Records \cup {None} /\ left \in Lefts /\ ctl.present \in BOOLEAN
      /\ UpdaterTypes /\ told \in Seq(Jobs(Attempts)) /\ port \in {"open", "closed"}
  BY <1>2 DEF Types, TypeOK, Bridges, Controllers, Lefts, UpdaterTypes
<1>4. PICK active \in BOOLEAN : active <=> disk # None
  OBVIOUS
<1> DEFINE f == [Down(fb.n) EXCEPT !.up = TRUE, !.required = active, !.rec = disk]
           d == Interlocked(Fresh(ctl.present), active)
           c == IF active THEN d ELSE Connected(d)
           x == [fb |-> f, ctl |-> c, disk |-> disk, tasks |-> tasks, left |-> left]
<1>5. fb' = f /\ ctl' = c
  <2>1. active = (disk # None)
    BY <1>4
  <2> QED BY <2>1 DEF Boot
<1>6. /\ f \in Bridges /\ f.up /\ f.flash = None /\ ~f.started /\ f.lease = 0 /\ f.reval = 0
      /\ f.recheck = 0 /\ ~f.irr /\ ~f.quit /\ f.required = active /\ f.n = fb.n
  <2> DEFINE g == Down(fb.n)
  <2>1. g \in Bridges
    BY <1>3, DownType
  <2>2. /\ g.flash = None /\ ~g.started /\ g.lease = 0 /\ g.reval = 0 /\ g.recheck = 0
        /\ ~g.irr /\ ~g.quit /\ g.n = fb.n
    BY DEF Down
  <2> HIDE DEF g
  <2>3. f = [g EXCEPT !.up = TRUE, !.required = active, !.rec = disk]
    BY DEF g
  <2> HIDE DEF f
  <2> QED BY ZenonT(60), <1>3, <2>1, <2>2, <2>3 DEF Bridges
<1>7. /\ c \in Controllers(Attempts) /\ LeaseInvariant(c, told, port) /\ c.interlock = active
  <2>1. Fresh(ctl.present) \in Controllers(Attempts) /\ LeaseInvariant(Fresh(ctl.present), told, port)
        /\ Shut(Fresh(ctl.present), port)
    BY <1>2, <1>3, FreshKeeps DEF Shut, Without
  <2>2. d \in Controllers(Attempts) /\ LeaseInvariant(d, told, port) /\ d.interlock = active
    BY <1>3, <2>1, Bounds, InterlockedKeeps
  <2> HIDE DEF d
  <2> QED BY <1>3, <2>2, Bounds, ConnectedKeeps
<1> HIDE DEF f, c
<1>8. /\ x \in Worlds /\ x.fb = f /\ x.ctl = c /\ x.disk = disk /\ x.tasks = tasks /\ x.left = left
  BY <1>2, <1>3, <1>6, <1>7, NothingWaits DEF Worlds
<1>9. Become(x)
  BY <1>1, <1>5, <1>8 DEF Become
<1> HIDE DEF x
<1>10. Shape(f) /\ Agree(f, c, told)
  BY <1>6 DEF Shape, Agree
<1>11. Owned(f, upd, tasks, events)
  BY <1>2, <1>6, NothingWaits DEF Owned, Free
<1>12. Recorded(f, disk, upd, tasks, events, left, bench.touched)
  BY <1>2, <1>4, <1>6 DEF Recorded, Kept
<1>13. Sound(x, told, events, port, upd, bench.touched)
  BY <1>2, <1>6, <1>7, <1>8, <1>10, <1>11, <1>12, NothingWaits DEF Sound, Nearly
<1>14. UpdaterTypes' /\ UpdaterInvariant'
  BY <1>1, <1>2, <1>3 DEF UpdaterTypes, UpdaterInvariant
<1>15. Sound(x, told', events', port', upd', bench'.touched)
  BY <1>1, <1>13
<1>16. /\ told' \in Seq(Jobs(Attempts)) /\ port' \in {"open", "closed"} /\ events' \in Seq(Events)
       /\ Answers(events')
  BY <1>1, <1>2, NothingWaits
<1> QED BY <1>8, <1>9, <1>14, <1>15, <1>16, BecameSound

-----------------------------------------------------------------------------
(* The invariant                                                              *)

\* At first there is no process, no journal and no display that was touched.
LEMMA InitKeeps == Init => FirmwareInvariant
<1> SUFFICES ASSUME Init PROVE FirmwareInvariant
  OBVIOUS
<1>1. /\ fb = Down(0) /\ disk = None /\ tasks = <<>> /\ told = <<>> /\ port = "closed"
      /\ ctl = Fresh(TRUE) /\ upd = Rest /\ events = <<>>
      /\ left = [validations |-> MaxValidations, mishaps |-> MaxMishaps, seen |-> {}]
  BY DEF Init
<1>2. fb \in Bridges /\ fb.n = 0 /\ ~fb.up
  BY <1>1, Bounds, DownType
<1>3. ctl \in Controllers(Attempts) /\ ctl.present = TRUE
  BY <1>1, FreshKeeps
<1>4. left \in Lefts
  BY <1>1, Bounds DEF Lefts
<1>5. /\ bench \in Benches /\ bench.touched = 0 /\ \A u \in Units : Finishes(bench.display[u])
  <2>1. (CHOOSE u \in Units : TRUE) \in Units
    BY UpdaterAssumption
  <2>2. Untouched \in Displays /\ Untouched.marker # "complete" /\ Untouched.from = Partitions
    BY UpdaterAssumption DEF Untouched, Displays, Markers
  <2>3. bench = [unit |-> CHOOSE u \in Units : TRUE, display |-> [u \in Units |-> Untouched],
                 touched |-> 0]
    BY DEF Init
  <2>4. [u \in Units |-> Untouched] \in [Units -> Displays]
        /\ \A u \in Units : [v \in Units |-> Untouched][u] = Untouched
    BY <2>2
  <2> HIDE DEF Untouched
  <2> QED BY <2>1, <2>2, <2>3, <2>4 DEF Benches, Finishes
<1>6. upd \in Updaters /\ upd.step = "Idle" /\ Fits(upd, bench)
  BY <1>1, RestIsFit
<1>7. UpdaterInvariant
  BY <1>5, <1>6 DEF UpdaterInvariant
<1>8. Types
  <2>1. TypeOK
    BY <1>1, <1>2, <1>3, <1>4, <1>5, <1>6, NothingWaits DEF TypeOK, Lefts
  <2> QED BY <1>1, <2>1, NothingWaits DEF Types
<1>9. Off
  BY <1>1, <1>2, <1>3, <1>6 DEF Off
<1>10. Kept(fb, disk, left, bench.touched)
  BY <1>2, <1>5 DEF Kept
<1> QED BY <1>2, <1>7, <1>8, <1>9, <1>10 DEF FirmwareInvariant

\* Nothing happens.
LEMMA StutterKeeps ==
    ASSUME FirmwareInvariant, UNCHANGED vars
    PROVE  FirmwareInvariant'
<1>1. /\ fb' = fb /\ ctl' = ctl /\ port' = port /\ told' = told /\ disk' = disk /\ tasks' = tasks
      /\ left' = left /\ upd' = upd /\ bench' = bench /\ events' = events
  BY DEF vars
<1>2. World' = World
  BY <1>1 DEF World
<1>3. UpdaterInvariant' /\ Types'
  BY <1>1 DEF FirmwareInvariant, UpdaterInvariant, Types, TypeOK
<1>4. CASE fb.up
  <2>1. Sound(World, told, events, port, upd, bench.touched)
    BY <1>4 DEF FirmwareInvariant
  <2>2. Sound(World', told', events', port', upd', bench'.touched)
    BY <1>1, <1>2, <2>1
  <2> QED BY <1>1, <1>3, <1>4, <2>2 DEF FirmwareInvariant
<1>5. CASE ~fb.up
  <2>1. Off' /\ Kept(fb', disk', left', bench'.touched)
    BY <1>1, <1>5 DEF FirmwareInvariant, Off
  <2> QED BY <1>1, <1>3, <1>5, <2>1 DEF FirmwareInvariant
<1> QED BY <1>4, <1>5

\* Every step keeps the invariant.
LEMMA StepKeeps ==
    ASSUME FirmwareInvariant, [Next]_vars
    PROVE  FirmwareInvariant'
<1>1. User => FirmwareInvariant'
  BY RequestValidationKeeps, RequestFlashKeeps, RequestCancelKeeps, AcknowledgeKeeps, SignalKeeps,
     ControllerActions DEF User
<1>2. Main => FirmwareInvariant'
  BY HandleEventKeeps, HandleAnswerKeeps, QuiesceDeadlineKeeps DEF Main
<1>3. Others => FirmwareInvariant'
  BY FirmwareTaskKeeps, UpdaterActions, WorkerStepKeeps, ExchangeDisplayKeeps, EndKeeps DEF Others
<1>4. Exit \/ Boot \/ Crash => FirmwareInvariant'
  BY EndKeeps, BootKeeps
<1> QED BY <1>1, <1>2, <1>3, <1>4, StutterKeeps DEF Next

\* At every step, after every restart: the bridge, the controller, the journal and
\* the updater agree on whose the display is and what has been done to it.
THEOREM Invariance == Spec => []FirmwareInvariant
<1>1. FirmwareInvariant /\ [Next]_vars => FirmwareInvariant'
  BY StepKeeps
<1> QED BY InitKeeps, <1>1, PTL DEF Spec

-----------------------------------------------------------------------------
(* What it says                                                               *)

\* What the invariant says of a runtime that is not there.
LEMMA OffSays ==
    ASSUME FirmwareInvariant, ~fb.up
    PROVE  /\ ~fb.started /\ ~fb.quit /\ upd.step = "Idle" /\ tasks = <<>> /\ events = <<>>
           /\ port = "closed" /\ ~ctl.connected /\ ctl.jobs = <<>>
           /\ Kept(fb, disk, left, bench.touched)
<1>1. Off /\ Types /\ Kept(fb, disk, left, bench.touched)
  BY DEF FirmwareInvariant
<1>2. fb = Down(fb.n) /\ ctl = Fresh(ctl.present)
  BY <1>1 DEF Off
<1>3. ~Down(fb.n).started /\ ~Down(fb.n).quit
  BY DEF Down
<1>4. ~Fresh(ctl.present).connected /\ Fresh(ctl.present).jobs = <<>>
  BY DEF Fresh
<1> QED BY <1>1, <1>2, <1>3, <1>4 DEF Off

\* What it says of one that is.
LEMMA UpSays ==
    ASSUME FirmwareInvariant, fb.up
    PROVE  /\ Shape(fb) /\ Owned(fb, upd, tasks, events) /\ Agree(fb, ctl, told)
           /\ Recorded(fb, disk, upd, tasks, events, left, bench.touched)
           /\ LeaseInvariant(ctl, told, port) /\ ctl.interlock = fb.required
BY SoundWorld DEF Sound, Nearly

\* The journal and the bridge are right in a state that the invariant allows.
LEMMA RecordIsTrueSaid == FirmwareInvariant => RecordIsTrue
<1> SUFFICES ASSUME FirmwareInvariant PROVE RecordIsTrue
  OBVIOUS
<1>1. TypeOK
  BY DEF FirmwareInvariant, Types
<1>2. TouchedIsRecorded
  BY OffSays, UpSays DEF TouchedIsRecorded, Recorded, Begun, Kept
<1>3. RecordNamesToucher
  BY UpSays DEF RecordNamesToucher, Busy, Shape, Recorded, Kept, Faultless
<1>4. CompleteIsComplete
  BY DEF FirmwareInvariant, UpdaterInvariant, Finishes, CompleteIsComplete
<1>5. UpdaterHasAnOwner
  <2>1. CASE fb.up
    <3>1. Shape(fb) /\ Owned(fb, upd, tasks, events)
      BY <2>1, UpSays
    <3>2. fb.started <=> upd.step # "Idle" \/ Has("start", tasks) \/ Has("finished", events)
      BY <3>1 DEF Owned, Free, Coming, Underway
    <3> QED BY <3>1, <3>2 DEF UpdaterHasAnOwner, Has, Shape
  <2>2. CASE ~fb.up
    BY <2>2, OffSays DEF UpdaterHasAnOwner
  <2> QED BY <2>1, <2>2
<1> QED BY <1>1, <1>2, <1>3, <1>4, <1>5 DEF RecordIsTrue

\* So is who has the device.
LEMMA TransportIsClosedSaid == FirmwareInvariant => TransportIsClosed
<1> SUFFICES ASSUME FirmwareInvariant PROVE TransportIsClosed
  OBVIOUS
<1>1. CASE fb.up
  <2>1. /\ Shape(fb) /\ Owned(fb, upd, tasks, events) /\ Agree(fb, ctl, told)
        /\ Recorded(fb, disk, upd, tasks, events, left, bench.touched)
        /\ LeaseInvariant(ctl, told, port) /\ ctl.interlock = fb.required
    BY <1>1, UpSays
  <2>2. FlashingIsExclusive
    <3> SUFFICES ASSUME upd.step # "Idle"
                 PROVE  /\ port = "closed" /\ ~ctl.connected /\ ~ctl.op
                        /\ ctl.lease = upd.attempt /\ ctl.pending = 0
      BY DEF FlashingIsExclusive
    <3>1. fb.started /\ upd.attempt = fb.n
      BY <2>1 DEF Owned, Free, Coming, Underway, Told
    <3>2. ctl.lease = fb.n /\ ctl.pending = 0 /\ Quiet(ctl, told)
      BY <2>1, <3>1 DEF Shape, Agree
    <3>3. port = "closed" /\ ~ctl.connected /\ ~ctl.op
      BY <2>1, <3>2 DEF LeaseInvariant, Quiet, Held
    <3> QED BY <3>1, <3>2, <3>3
  <2>3. NoSessionBehindQuiesce
    BY <2>1, NothingBehindQuiesce DEF NoSessionBehindQuiesce
  <2>4. RecoveryIsClosed
    <3>1. disk # None => fb.required
      BY <1>1, <2>1 DEF Recorded, Begun, Kept
    <3> QED BY <2>1, <3>1 DEF LeaseInvariant, Shut, Without, RecoveryIsClosed
  <2> QED BY <2>2, <2>3, <2>4 DEF TransportIsClosed
<1>2. CASE ~fb.up
  BY <1>2, OffSays DEF TransportIsClosed, FlashingIsExclusive, NoSessionBehindQuiesce, RecoveryIsClosed
<1> QED BY <1>1, <1>2

\* Whatever may have changed a display is in the journal until the user has looked,
\* through failed writes, cancellations, crashes and restarts, a display that is
\* marked complete is complete, and the runtime stays while the updater is at work.
THEOREM RecordAlwaysTrue == Spec => []RecordIsTrue
BY Invariance, RecordIsTrueSaid, PTL

\* While the updater is at work, and while a recovery is pending, nobody else has
\* the device, and no session is opened behind the closing that a lease asks for.
THEOREM TransportAlwaysClosed == Spec => []TransportIsClosed
BY Invariance, TransportIsClosedSaid, PTL

=============================================================================
