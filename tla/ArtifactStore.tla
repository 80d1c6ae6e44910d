--------------------------- MODULE ArtifactStore ---------------------------
(***************************************************************************)
(* DeviceMediaArtifactStore: copies of device media pulled into a private  *)
(* outbox, each reserved for the stage operation that pulls it, then       *)
(* claimed under a lease by the D-Bus client that asked for it, and held   *)
(* by at most one operation that reads it.  The records live in memory     *)
(* only; the files they name may outlive the process.                      *)
(*                                                                         *)
(* The operators below map the records (and the files) before a call to    *)
(* those after it.  An artifact is named by the stage operation that       *)
(* reserved it, its identifier being fresh for each reservation.           *)
(***************************************************************************)
EXTENDS Integers, Sequences, FiniteSets

CONSTANTS Artifacts,   \* stage operations, each with the artifact it reserves
          Old,         \* artifacts of an earlier run of the process
          Uses,        \* operations that read a claimed artifact
          Owners,      \* D-Bus unique names
          Ttl,         \* kUnclaimedTtlMs, in steps of the model's clock
          Lease,       \* kClaimLeaseMs
          MaxTime,     \* bound of the clock
          None

ASSUME DurationAssumption == Ttl \in Nat /\ Lease \in Nat /\ MaxTime \in Nat

VARIABLES records,   \* records_: the artifacts known, with what is known of each
          leaf,      \* what the outbox holds under each artifact's name
          now        \* the clock both ends of a lease are measured with

Leaves == {"none", "part", "file", "foreign"}

Record == [owner : Owners, inUse : Artifacts \cup Uses \cup {None},
           claimed : BOOLEAN, ready : BOOLEAN, revoked : BOOLEAN,
           expires : 0 .. (MaxTime + Ttl + Lease)]

Known == DOMAIN records
OwnersOf(recs) == {recs[a].owner : a \in DOMAIN recs}

\* reserve: the operation that pulls the copy holds it from the start.
Reserved(recs, a, o) ==
  [x \in DOMAIN recs \cup {a} |->
     IF x = a THEN [owner |-> o, inUse |-> a, claimed |-> FALSE, ready |-> FALSE,
                    revoked |-> FALSE, expires |-> now + Ttl]
     ELSE recs[x]]

PathUnused(a) == leaf[a] = "none" /\ a \notin Known

\* finalize refuses a reservation that is revoked, complete or not this operation's,
\* and a file that is not a plain one of the expected size.
MayFinalize(recs, a) ==
  /\ a \in DOMAIN recs
  /\ ~recs[a].revoked /\ ~recs[a].ready /\ recs[a].inUse = a
  /\ leaf[a] = "file"

Finalized(recs, a) ==
  [recs EXCEPT ![a].ready = TRUE, ![a].claimed = FALSE, ![a].expires = now + Ttl]

\* validate, and the second look at owner and clock that its callers take when
\* the file has been read: `later' is the clock then.
Valid(recs, a, o, claimed, later) ==
  /\ a \in DOMAIN recs
  /\ recs[a].owner = o /\ ~recs[a].revoked /\ recs[a].ready
  /\ recs[a].claimed = claimed
  /\ recs[a].expires > now
  /\ leaf[a] = "file"
  /\ recs[a].expires > later

\* claim gives a first claimant a lease; a repeated claim gets the same lease again.
Claimed(recs, a, later) ==
  IF recs[a].claimed THEN recs
  ELSE [recs EXCEPT ![a].claimed = TRUE, ![a].expires = later + Lease]

Renewed(recs, a, later) == [recs EXCEPT ![a].expires = later + Lease]

\* acquireOperationHold
Holdable(recs, a, o, later) == Valid(recs, a, o, TRUE, later) /\ recs[a].inUse = None
Held(recs, a, u) == [recs EXCEPT ![a].inUse = u]

\* removeRecord for every artifact of S: the record is revoked first and forgotten
\* only when its file is gone; `broken' are the files that unlink fails for, and a
\* complete artifact whose name has been given to another file is left alone.
Removable(recs, a, broken) == a \notin broken /\ ~(recs[a].ready /\ leaf[a] = "foreign")

Gone(recs, S, broken) == {a \in S \cap DOMAIN recs : Removable(recs, a, broken)}

RemovedRecords(recs, S, broken) ==
  [a \in DOMAIN recs \ Gone(recs, S, broken) |->
     IF a \in S THEN [recs[a] EXCEPT !.revoked = TRUE] ELSE recs[a]]

RemovedLeaves(lv, recs, S, broken) ==
  [a \in DOMAIN lv |-> IF a \in Gone(recs, S, broken) THEN "none" ELSE lv[a]]

\* discardReservation: only an unfinished reservation of this very operation.
Discardable(recs, a) == a \in DOMAIN recs /\ ~recs[a].ready /\ recs[a].inUse = a

\* releaseOperationHold clears the hold; what expired or was revoked meanwhile goes.
Unheld(recs, x) ==
  [a \in DOMAIN recs |-> IF recs[a].inUse = x THEN [recs[a] EXCEPT !.inUse = None] ELSE recs[a]]

\* Mutant: the hold of a claimed copy does not stop the sweep.
ExpiredThoughHeld(recs) ==
  {a \in DOMAIN recs : (recs[a].inUse = None \/ recs[a].claimed)
                       /\ (recs[a].revoked \/ recs[a].expires <= now)}

Expired(recs) ==
  {a \in DOMAIN recs : recs[a].inUse = None /\ (recs[a].revoked \/ recs[a].expires <= now)}

DroppedWithHold(recs, x) ==
  {a \in DOMAIN recs : recs[a].inUse = x} \cap Expired(Unheld(recs, x))

\* ownerDisconnected revokes everything of the owner; the idle part may go at once.
Revoked(recs, o) ==
  [a \in DOMAIN recs |-> IF recs[a].owner = o
                         THEN [recs[a] EXCEPT !.revoked = TRUE, !.expires = 0] ELSE recs[a]]

Idle(recs, o) == {a \in DOMAIN recs : recs[a].owner = o /\ recs[a].inUse = None}
BusyWith(recs, o) == {recs[a].inUse : a \in {b \in DOMAIN recs : recs[b].owner = o}} \ {None}

\* cleanupAssessment: nothing is planned while a reservation, a lease or a hold lives.
Live(recs, a) ==
  \/ recs[a].inUse # None
  \/ ~recs[a].revoked /\ (~recs[a].ready \/ recs[a].expires > now)

Tampered(recs, a) == recs[a].ready /\ leaf[a] = "foreign"

Plan(recs) == [a \in DOMAIN recs |-> leaf[a]]

\* cleanupBatch takes the candidates in order and stops at the first that changed.
PlanStillValid(recs, plan, finished) ==
  \A a \in DOMAIN plan :
     IF a \in finished THEN a \notin DOMAIN recs
     ELSE a \in DOMAIN recs /\ recs[a].inUse = None
          /\ (recs[a].revoked \/ recs[a].expires <= now)

CandidateUnchanged(recs, plan, a) == leaf[a] = plan[a] /\ ~Tampered(recs, a)

\* The startup scan keeps what belongs to a record and unlinks the rest.
StrayLeaves(recs) == {a \in DOMAIN leaf : leaf[a] # "none" /\ a \notin DOMAIN recs}
=============================================================================
