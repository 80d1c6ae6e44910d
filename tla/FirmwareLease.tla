--------------------------- MODULE FirmwareLease ---------------------------
(* The session controller's side of a firmware update: who owns the device's  *)
(* transport, and when a normal session may be opened again.  The update owns *)
(* it through a lease; taking it closes the sessions of the worker thread by  *)
(* a job at the end of the worker's queue, and giving it back waits for a     *)
(* second job, the fence, so that no late closing can hit the session that    *)
(* follows.  While a recovery is required the interlock refuses every         *)
(* connection.                                                                *)
(*                                                                            *)
(* Generation numbers are not kept: a job says what it still does under the   *)
(* latest one.                                                                *)
EXTENDS Naturals, Sequences

\* "open" and "clear" configure and clear the endpoint, "op" is a command of a
\* foreground operation, "quiesce" and "fence" are for the lease they name.
JobKinds == {"open", "clear", "op", "quiesce", "fence"}
Jobs(Leases) == [kind : JobKinds, lease : Leases]

Job(kind) == [kind |-> kind, lease |-> 0]
LeaseJob(kind, lease) == [kind |-> kind, lease |-> lease]

\* lease, pending, resume, resumeAuto, reconnect and interlock are the firmware
\* fields of the controller's state, auto is autoConnectMode, present the device
\* in the last snapshot of the discovery, op an active operation, jobs the
\* worker's queue.  A lease is a number, 0 for none.
Controllers(Leases) ==
    [lease : Leases, pending : Leases, resume : BOOLEAN, resumeAuto : BOOLEAN,
     reconnect : BOOLEAN, interlock : BOOLEAN, auto : BOOLEAN, connected : BOOLEAN,
     present : BOOLEAN, op : BOOLEAN,
     jobs : Seq(Jobs(Leases))]

Fresh(present) ==
    [lease |-> 0, pending |-> 0, resume |-> FALSE, resumeAuto |-> FALSE,
     reconnect |-> FALSE, interlock |-> FALSE, auto |-> FALSE, connected |-> FALSE,
     present |-> present, op |-> FALSE, jobs |-> <<>>]

Exclusive(c) == c.lease # 0

\* A new generation: the session of an earlier one is configured, which ends the
\* one before it, and refused.
Stale(jobs) == [i \in DOMAIN jobs |-> IF jobs[i].kind = "open" THEN Job("clear") ELSE jobs[i]]
NewGeneration(c, job) == [c EXCEPT !.jobs = Append(Stale(@), job)]

\* firmwareFlashAllowedForCurrentDevice
Identified(c) == c.connected \/ c.present

\* The other reasons to refuse, unresolved retries, removals and replacements and
\* a lost session, are the caller's.
MayAcquire(c) == Identified(c) /\ ~Exclusive(c) /\ ~c.op

Acquired(c, lease) ==
    [NewGeneration(c, LeaseJob("quiesce", lease)) EXCEPT
        !.lease = lease, !.reconnect = FALSE, !.resumeAuto = c.auto]

\* Mutant: the lease ends at once, with its closing still in the queue.
ReleasedAtOnce(c, lease, resume) ==
    IF lease # c.lease THEN c
    ELSE [c EXCEPT !.lease = 0, !.pending = 0]

\* No lease is nobody's to release.  A second release may only take a promised
\* resumption back.
Released(c, lease, resume) ==
    CASE lease = 0 \/ lease # c.lease -> c
      [] lease # 0 /\ lease = c.lease /\ c.pending # 0 -> [c EXCEPT !.resume = @ /\ resume]
      [] OTHER ->
            [c EXCEPT !.pending = lease, !.resume = resume /\ c.resumeAuto,
                      !.jobs = Append(@, LeaseJob("fence", lease))]

Interlocked(c, active) == [c EXCEPT !.interlock = active, !.auto = @ /\ ~active]

\* connectDevice, without a port
Connected(c) ==
    CASE Exclusive(c) \/ c.interlock -> c
      [] ~(Exclusive(c) \/ c.interlock) /\ c.present ->
            [NewGeneration(c, Job("open")) EXCEPT !.auto = TRUE, !.connected = TRUE]
      [] OTHER -> [c EXCEPT !.auto = TRUE, !.connected = FALSE]

Disconnected(c) ==
    [NewGeneration(c, Job("clear")) EXCEPT !.auto = FALSE, !.connected = FALSE]

ResumedAfterAcknowledgement(c) ==
    CASE c.interlock -> c
      [] ~c.interlock /\ Exclusive(c) -> [c EXCEPT !.reconnect = TRUE]
      [] OTHER -> Connected(c)

\* handlePrinterSnapshot: the device was plugged in or has gone.
Seen(c, present) ==
    CASE Exclusive(c) \/ c.interlock ->
            [c EXCEPT !.present = present, !.connected = FALSE, !.jobs = Stale(@)]
      [] ~(Exclusive(c) \/ c.interlock) /\ present /\ (c.auto \/ c.connected) ->
            [NewGeneration(c, Job("open")) EXCEPT !.present = TRUE, !.connected = TRUE]
      [] OTHER ->
            [NewGeneration(c, Job("clear")) EXCEPT !.present = present, !.connected = FALSE]

Quiesced(c) == [c EXCEPT !.connected = FALSE]

\* Mutant: the fence only ends a lease that resumes the session.
FenceReachedToResume(c, lease) ==
    IF lease = c.pending /\ c.resume
    THEN Connected([c EXCEPT !.lease = 0, !.pending = 0, !.resume = FALSE,
                             !.resumeAuto = FALSE, !.reconnect = FALSE])
    ELSE c

FenceReached(c, lease) ==
    LET free == [c EXCEPT !.lease = 0, !.pending = 0, !.resume = FALSE,
                          !.resumeAuto = FALSE, !.reconnect = FALSE]
    IN CASE lease # c.lease \/ lease # c.pending -> c
         [] lease = c.lease /\ lease = c.pending /\ (c.resume \/ c.reconnect) -> Connected(free)
         [] OTHER -> [free EXCEPT !.auto = FALSE]

MayOperate(c) == ~Exclusive(c) /\ ~c.interlock /\ c.connected /\ ~c.op
Operating(c) == [c EXCEPT !.op = TRUE, !.jobs = Append(@, Job("op"))]

=============================================================================
