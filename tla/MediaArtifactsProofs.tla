------------------------ MODULE MediaArtifactsProofs ------------------------
(* Proofs about MediaArtifacts, for every set of artifacts, operations and   *)
(* clients, every duration and any number of failing unlinks: a copy lasts   *)
(* as long as somebody has a right to it, the operation that explains a copy *)
(* is not forgotten, and the catalogue shown is that of the device attached. *)
EXTENDS MediaArtifacts, TLAPS

-----------------------------------------------------------------------------
(* The inductive invariant.  Its parts about the artifacts are stated of any *)
(* records, so that they can be followed through the calls of one handler.   *)

Present == {"file", "foreign"}

\* The records are well formed, and a claimed one ends with its lease.
Formed(recs) ==
  /\ DOMAIN recs \subseteq Artifacts
  /\ \A a \in DOMAIN recs : /\ recs[a] \in Record
                            /\ recs[a].claimed => recs[a].expires <= MaxTime + Lease

\* Everything else of the state has its type.
Framed ==
  /\ now \in 0 .. MaxTime /\ lease \in [Artifacts -> 0 .. MaxTime + Lease]
  /\ leaf \in [Artifacts \cup Old -> Leaves]
  /\ staged \in [Artifacts -> {"none", "pulled", "failed"}]
  /\ alive \subseteq Owners /\ notices \subseteq Owners \ alive /\ watched \subseteq Owners
  /\ started \in BOOLEAN

Operating ==
  /\ op \in [Ops -> Pending \cup Terminal \cup {"unused", "forgotten"}]
  /\ order \subseteq Remembered \X Remembered
  /\ source \in [Uses -> Artifacts \cup {None}]
  /\ active \in Ops \cup {None}

\* What an operation reads had been staged, and was not known before.
Begun(recs, ops, src) ==
  /\ \A a \in DOMAIN recs : ops[a] # "unused"
  /\ \A u \in Uses : src[u] # None => ops[src[u]] # "unused" /\ ops[u] # "unused"

\* An operation that stages a copy is the active one and holds its reservation,
\* which is nobody's yet.
Staging(recs, ops, act, ls) ==
  \A a \in Artifacts : ops[a] \in Pending =>
    /\ act = a /\ ops[a] # "paused"
    /\ a \in DOMAIN recs /\ recs[a].inUse = a /\ ~recs[a].claimed
    /\ ls[a] <= now

\* HoldIsHonoured, of any records.
Holding(recs, lv, ops, src) ==
  \A u \in Uses : ops[u] \in Pending =>
    /\ src[u] \in DOMAIN recs /\ recs[src[u]].inUse = u
    /\ lv[src[u]] \in Present

\* LeaseIsKept, of a copy whose owner is still on the bus.
Leased(recs, lv, ls, al) ==
  \A a \in Artifacts : ls[a] > now =>
    /\ a \in DOMAIN recs /\ ~recs[a].revoked
    /\ recs[a].expires >= ls[a] /\ recs[a].owner \in al
    /\ lv[a] \in Present

\* OwnersAreWatched: those whose end was or will be noticed are `known'.
Watching(recs, wt, known) ==
  \A a \in DOMAIN recs : ~recs[a].revoked => recs[a].owner \in wt \cap known

Accounted(recs, lv) ==
  started => \A x \in DOMAIN lv : lv[x] # "none" => x \in DOMAIN recs \cup stuck

Explained(recs, ops, src) ==
  \A x \in Ops : ArtifactOf(x, src) \in DOMAIN recs => ops[x] # "forgotten"

\* What is known of the artifacts, of any stage of a handler: the records, the
\* files, the operations, the active one, and what the clients were told.
Fit(recs, lv, ops, src, act, ls, al) ==
  /\ Formed(recs)
  /\ Begun(recs, ops, src) /\ Staging(recs, ops, act, ls) /\ Holding(recs, lv, ops, src)
  /\ Leased(recs, lv, ls, al) /\ Accounted(recs, lv) /\ Explained(recs, ops, src)

\* The answer of the worker is to an operation that still waits for it.
Answering == \A a \in Artifacts : staged[a] # "none" => op[a] \in Pending

\* A clean-up is the active operation.
Latching == Latched => cleanup.id \in Cleanups /\ active = cleanup.id

\* A list is of a generation that has begun, and if it is of the current one, of the
\* device that is attached in it: a device comes with a generation of its own.
Lists(pr) ==
  {l \in [gen : Nat, seq : 0 .. MaxLists, from : Devices \cup {None}] :
     l # NoList => /\ l.gen <= pr.generation
                   /\ l.gen = pr.generation /\ pr.device # None => l.from = pr.device}
\* Only a clean-up is continued.
Posts(pr) ==
  {p \in [kind : {"list", "apply", "sweep", "continue"}, list : Lists(pr), id : Ops \cup {None}] :
     p.kind = "continue" => p.id \in Cleanups}

Printers ==
  {pr \in [generation : Nat, device : Devices \cup {None}, since : Nat, open : BOOLEAN] :
     pr.since <= pr.generation}

Listing ==
  /\ printer \in Printers
  /\ catalogue \in Lists(printer) /\ deferred \in Lists(printer) /\ posted \in Seq(Posts(printer))
  /\ lists \in [asked : Nat, read : Nat] /\ lists.asked + lists.read <= MaxLists
  /\ CatalogueIsOfDevice

MediaInvariant ==
  /\ Fit(records, leaf, op, source, active, lease, alive)
  /\ Framed /\ Operating
  /\ Watching(records, watched, alive \cup notices) /\ watched \subseteq OwnersOf(records)
  /\ Answering /\ Latching /\ Listing

-----------------------------------------------------------------------------
(* What the operations of the store return *)

\* Unheld: a hold that is given up leaves every record as it is otherwise.
LEMMA UnheldIs ==
  ASSUME NEW recs, Formed(recs), NEW x
  PROVE  /\ Formed(Unheld(recs, x)) /\ DOMAIN Unheld(recs, x) = DOMAIN recs
         /\ OwnersOf(Unheld(recs, x)) = OwnersOf(recs)
         /\ \A a \in DOMAIN recs :
              /\ Unheld(recs, x)[a].inUse = IF recs[a].inUse = x THEN None ELSE recs[a].inUse
              /\ Unheld(recs, x)[a].owner = recs[a].owner
              /\ Unheld(recs, x)[a].claimed = recs[a].claimed
              /\ Unheld(recs, x)[a].revoked = recs[a].revoked
              /\ Unheld(recs, x)[a].expires = recs[a].expires
<1> DEFINE free == Unheld(recs, x)
<1>1. free = [a \in DOMAIN recs |-> IF recs[a].inUse = x THEN [recs[a] EXCEPT !.inUse = None] ELSE recs[a]]
    BY DEF Unheld
<1>2. DOMAIN free = DOMAIN recs
    BY <1>1
<1>3. ASSUME NEW a \in DOMAIN recs
      PROVE  /\ free[a] \in Record
             /\ free[a].inUse = IF recs[a].inUse = x THEN None ELSE recs[a].inUse
             /\ free[a].owner = recs[a].owner
             /\ free[a].revoked = recs[a].revoked /\ free[a].expires = recs[a].expires
             /\ free[a].claimed = recs[a].claimed
    <2>1. recs[a] \in Record
        BY DEF Formed
    <2>2. free[a] = IF recs[a].inUse = x THEN [recs[a] EXCEPT !.inUse = None] ELSE recs[a]
        BY <1>1
    <2> HIDE DEF free
    <2> QED BY <2>1, <2>2 DEF Record
<1>4. Formed(free)
    <2> HIDE DEF free
    <2> QED BY <1>2, <1>3 DEF Formed
<1>5. OwnersOf(free) = OwnersOf(recs)
    <2> HIDE DEF free
    <2> QED BY <1>2, <1>3 DEF OwnersOf
<1> QED BY <1>2, <1>3, <1>4, <1>5

\* Revoked: the copies of an owner that is gone end now, and keep their holds.
LEMMA RevokedIs ==
  ASSUME NEW recs, Formed(recs), NEW o
  PROVE  /\ Formed(Revoked(recs, o)) /\ DOMAIN Revoked(recs, o) = DOMAIN recs
         /\ OwnersOf(Revoked(recs, o)) = OwnersOf(recs)
         /\ \A a \in DOMAIN recs :
              /\ Revoked(recs, o)[a].inUse = recs[a].inUse
              /\ Revoked(recs, o)[a].owner = recs[a].owner
              /\ Revoked(recs, o)[a].claimed = recs[a].claimed
              /\ recs[a].owner = o => Revoked(recs, o)[a].revoked
              /\ recs[a].owner # o => Revoked(recs, o)[a] = recs[a]
<1> DEFINE gone == Revoked(recs, o)
<1>1. gone = [a \in DOMAIN recs |-> IF recs[a].owner = o
                THEN [recs[a] EXCEPT !.revoked = TRUE, !.expires = 0] ELSE recs[a]]
    BY DEF Revoked
<1>2. DOMAIN gone = DOMAIN recs
    BY <1>1
<1>0. MaxTime \in Nat /\ Ttl \in Nat /\ Lease \in Nat
    BY DurationAssumption
<1>3. ASSUME NEW a \in DOMAIN recs
      PROVE  /\ gone[a] \in Record /\ (gone[a].claimed => gone[a].expires <= MaxTime + Lease)
             /\ gone[a].inUse = recs[a].inUse
             /\ gone[a].owner = recs[a].owner /\ gone[a].claimed = recs[a].claimed
             /\ recs[a].owner = o => gone[a].revoked
             /\ recs[a].owner # o => gone[a] = recs[a]
    <2>1. recs[a] \in Record /\ (recs[a].claimed => recs[a].expires <= MaxTime + Lease)
        BY DEF Formed
    <2>2. gone[a] = IF recs[a].owner = o THEN [recs[a] EXCEPT !.revoked = TRUE, !.expires = 0] ELSE recs[a]
        BY <1>1
    <2> HIDE DEF gone
    <2>3. 0 \in 0 .. (MaxTime + Ttl + Lease) /\ 0 <= MaxTime + Lease
        BY <1>0
    <2>4. recs[a].owner = o => gone[a] \in Record
        BY <2>1, <2>2, <2>3 DEF Record
    <2>5. recs[a].owner = o => gone[a].expires = 0
        BY <2>1, <2>2 DEF Record
    <2> QED BY <2>1, <2>2, <2>3, <2>4, <2>5 DEF Record
<1>4. Formed(gone)
    <2> HIDE DEF gone
    <2> QED BY <1>2, <1>3 DEF Formed
<1>5. OwnersOf(gone) = OwnersOf(recs)
    <2> HIDE DEF gone
    <2> QED BY <1>2, <1>3 DEF OwnersOf
<1> QED BY <1>2, <1>3, <1>4, <1>5

\* RemovedRecords, RemovedLeaves: only what is removed loses its file, and a record
\* whose file stays behind is revoked.
LEMMA RemovalIs ==
  ASSUME NEW recs, Formed(recs), leaf \in [Artifacts \cup Old -> Leaves], NEW S, NEW broken
  PROVE  LET left == RemovedRecords(recs, S, broken)
             bare == RemovedLeaves(leaf, recs, S, broken)
         IN  /\ Formed(left) /\ DOMAIN left \subseteq DOMAIN recs
             /\ bare \in [Artifacts \cup Old -> Leaves]
             /\ DOMAIN recs \ DOMAIN left \subseteq S
             /\ \A a \in DOMAIN left :
                  /\ left[a].inUse = recs[a].inUse /\ left[a].owner = recs[a].owner
                  /\ left[a] = recs[a] \/ (a \in S /\ left[a].revoked)
             /\ \A a \in DOMAIN recs \ S : bare[a] = leaf[a]
             /\ \A x \in DOMAIN leaf : bare[x] # "none" =>
                  leaf[x] # "none" /\ (x \in DOMAIN recs => x \in DOMAIN left)
<1> DEFINE left == RemovedRecords(recs, S, broken)
           bare == RemovedLeaves(leaf, recs, S, broken)
           gone == Gone(recs, S, broken)
<1>1. left = [a \in DOMAIN recs \ gone |-> IF a \in S THEN [recs[a] EXCEPT !.revoked = TRUE] ELSE recs[a]]
    BY DEF RemovedRecords
<1>2. bare = [x \in DOMAIN leaf |-> IF x \in gone THEN "none" ELSE leaf[x]]
    BY DEF RemovedLeaves
<1>3. gone \subseteq S \cap DOMAIN recs
    BY DEF Gone
<1> HIDE DEF gone
<1>4. DOMAIN left = DOMAIN recs \ gone
    BY <1>1
<1>5. ASSUME NEW a \in DOMAIN left
      PROVE  /\ left[a] \in Record /\ (left[a].claimed => left[a].expires <= MaxTime + Lease)
             /\ left[a].inUse = recs[a].inUse /\ left[a].owner = recs[a].owner
             /\ left[a] = recs[a] \/ (a \in S /\ left[a].revoked)
    <2>1. a \in DOMAIN recs /\ recs[a] \in Record /\ (recs[a].claimed => recs[a].expires <= MaxTime + Lease)
        BY <1>4 DEF Formed
    <2>2. left[a] = IF a \in S THEN [recs[a] EXCEPT !.revoked = TRUE] ELSE recs[a]
        BY <1>1, <1>4
    <2> HIDE DEF left
    <2> QED BY <2>1, <2>2 DEF Record
<1>6. Formed(left)
    <2> HIDE DEF left
    <2> QED BY <1>4, <1>5 DEF Formed
<1>7. bare \in [Artifacts \cup Old -> Leaves] /\ \A a \in DOMAIN recs \ S : bare[a] = leaf[a]
    BY <1>2, <1>3 DEF Formed, Leaves
<1>8. \A x \in DOMAIN leaf : bare[x] # "none" =>
        leaf[x] # "none" /\ (x \in DOMAIN recs => x \in DOMAIN left)
    BY <1>2, <1>4
<1> HIDE DEF left, bare
<1> QED BY <1>3, <1>4, <1>5, <1>6, <1>7, <1>8 DEF left, bare

-----------------------------------------------------------------------------
(* The history *)

\* Forgotten: only a finished operation whose artifact is not there.
LEMMA ForgottenIs ==
  ASSUME NEW ops, NEW ord, NEW src, NEW recs
  PROVE  \A x \in Forgotten(ops, ord, src, recs) :
           x \in Ops /\ ops[x] \in Terminal /\ ArtifactOf(x, src) \notin DOMAIN recs
BY DEF Forgotten

Histories == [Ops -> Pending \cup Terminal \cup {"unused", "forgotten"}]
Of(ops) == {x \in Ops : ops[x] \in Pending \cup Terminal}

\* Settle: the operations keep their states but for those forgotten.
LEMMA SettleKeeps ==
  ASSUME NEW ops \in Histories, NEW ord, ord \subseteq Of(ops) \X Of(ops),
         NEW src \in [Uses -> Artifacts \cup {None}], NEW recs,
         Explained(recs, ops, src), Settle(ops, ord, src, recs)
  PROVE  /\ op' \in Histories /\ order' \subseteq Of(op') \X Of(op')
         /\ source' = src
         /\ \A x \in Ops : op'[x] = ops[x] \/ (ops[x] \in Terminal /\ op'[x] = "forgotten")
         /\ Explained(recs, op', source')
<1> DEFINE lost == Forgotten(ops, ord, src, recs)
<1>1. \A x \in lost : x \in Ops /\ ops[x] \in Terminal /\ ArtifactOf(x, src) \notin DOMAIN recs
    BY ForgottenIs
<1>2. /\ op' = [x \in Ops |-> IF x \in lost THEN "forgotten" ELSE ops[x]]
      /\ order' = {p \in ord : p[1] \notin lost /\ p[2] \notin lost}
      /\ source' = src
    BY DEF Settle
<1> HIDE DEF lost
<1>3. \A x \in Ops : op'[x] = IF x \in lost THEN "forgotten" ELSE ops[x]
    BY <1>2
<1>4. op' \in Histories
    BY <1>2 DEF Histories
<1>5. order' \subseteq Of(op') \X Of(op')
    BY <1>2, <1>3 DEF Of
<1>6. Explained(recs, op', source')
    BY <1>1, <1>2, <1>3 DEF Explained
<1> QED BY <1>1, <1>2, <1>3, <1>4, <1>5, <1>6

-----------------------------------------------------------------------------
(* What the steps of a handler preserve *)

\* No operation that is not over has a in use.
Free(recs, a, ops) == \A x \in Artifacts \cup Uses : ops[x] \in Pending => recs[a].inUse # x

\* A copy that nobody holds is free, and one that has expired is leased to nobody.
LEMMA ExpiredIsFree ==
  ASSUME NEW recs, NEW lv, NEW ops, NEW ls \in [Artifacts -> Nat], NEW al, now \in Nat,
         Formed(recs), Leased(recs, lv, ls, al)
  PROVE  /\ \A a \in DOMAIN recs : recs[a].inUse = None => Free(recs, a, ops)
         /\ \A a \in Expired(recs) : a \in DOMAIN recs /\ recs[a].inUse = None /\ ls[a] <= now
<1>1. \A a \in DOMAIN recs : recs[a].inUse = None => Free(recs, a, ops)
    BY IdentitiesAssumption DEF Free
<1>2. ASSUME NEW a \in Expired(recs) PROVE a \in DOMAIN recs /\ recs[a].inUse = None /\ ls[a] <= now
    <2>1. a \in DOMAIN recs /\ recs[a].inUse = None /\ (recs[a].revoked \/ recs[a].expires <= now)
        BY DEF Expired
    <2>2. a \in Artifacts /\ recs[a].expires \in Nat
        BY <2>1, DurationAssumption DEF Formed, Record
    <2>3. ls[a] \in Nat
        BY <2>2
    <2>4. ls[a] > now => ~recs[a].revoked /\ recs[a].expires >= ls[a]
        BY <2>2 DEF Leased
    <2> QED BY <2>1, <2>2, <2>3, <2>4
<1> QED BY <1>1, <1>2

\* The removal of copies that nobody has a right to leaves the others as they are.
LEMMA RemovalKeeps ==
  ASSUME NEW recs, NEW ops, NEW src, NEW act, NEW ls \in [Artifacts -> Nat], NEW al,
         NEW S, NEW broken,
         leaf \in [Artifacts \cup Old -> Leaves], now \in Nat,
         Fit(recs, leaf, ops, src, act, ls, al),
         \A a \in S \cap DOMAIN recs : Free(recs, a, ops) /\ ls[a] <= now
  PROVE  Fit(RemovedRecords(recs, S, broken), RemovedLeaves(leaf, recs, S, broken),
             ops, src, act, ls, al)
<1> DEFINE left == RemovedRecords(recs, S, broken)
           bare == RemovedLeaves(leaf, recs, S, broken)
<1>1. /\ Formed(left) /\ DOMAIN left \subseteq DOMAIN recs
      /\ bare \in [Artifacts \cup Old -> Leaves]
      /\ DOMAIN recs \ DOMAIN left \subseteq S
      /\ \A a \in DOMAIN left :
           /\ left[a].inUse = recs[a].inUse /\ left[a].owner = recs[a].owner
           /\ left[a] = recs[a] \/ (a \in S /\ left[a].revoked)
      /\ \A a \in DOMAIN recs \ S : bare[a] = leaf[a]
      /\ \A x \in DOMAIN leaf : bare[x] # "none" =>
           leaf[x] # "none" /\ (x \in DOMAIN recs => x \in DOMAIN left)
    BY RemovalIs DEF Fit
<1> HIDE DEF left, bare
<1>2. /\ Formed(recs) /\ Begun(recs, ops, src) /\ Staging(recs, ops, act, ls)
      /\ Holding(recs, leaf, ops, src) /\ Leased(recs, leaf, ls, al)
      /\ Accounted(recs, leaf) /\ Explained(recs, ops, src)
    BY DEF Fit
<1>3. Begun(left, ops, src)
    BY <1>1, <1>2 DEF Begun
<1>4. Staging(left, ops, act, ls)
    <2>1. ASSUME NEW a \in Artifacts, ops[a] \in Pending
          PROVE  act = a /\ ops[a] # "paused" /\ a \in DOMAIN left /\ left[a].inUse = a
                 /\ ~left[a].claimed /\ ls[a] <= now
        <3>1. act = a /\ ops[a] # "paused" /\ a \in DOMAIN recs /\ recs[a].inUse = a
              /\ ~recs[a].claimed /\ ls[a] <= now
            BY <1>2, <2>1 DEF Staging
        <3>2. a \notin S
            BY <2>1, <3>1 DEF Free
        <3> QED BY <1>1, <3>1, <3>2
    <2> QED BY <2>1 DEF Staging
<1>5. Holding(left, bare, ops, src)
    <2>1. ASSUME NEW u \in Uses, ops[u] \in Pending
          PROVE  src[u] \in DOMAIN left /\ left[src[u]].inUse = u /\ bare[src[u]] \in Present
        <3>1. src[u] \in DOMAIN recs /\ recs[src[u]].inUse = u /\ leaf[src[u]] \in Present
            BY <1>2, <2>1 DEF Holding
        <3>2. src[u] \notin S
            BY <2>1, <3>1 DEF Free
        <3> QED BY <1>1, <3>1, <3>2
    <2> QED BY <2>1 DEF Holding
<1>6. Leased(left, bare, ls, al)
    <2>1. ASSUME NEW a \in Artifacts, ls[a] > now
          PROVE  /\ a \in DOMAIN left /\ ~left[a].revoked
                 /\ left[a].expires >= ls[a] /\ left[a].owner \in al /\ bare[a] \in Present
        <3>1. /\ a \in DOMAIN recs /\ ~recs[a].revoked
              /\ recs[a].expires >= ls[a] /\ recs[a].owner \in al /\ leaf[a] \in Present
            BY <1>2, <2>1 DEF Leased
        <3>2. a \notin S
            <4>1. ls[a] \in Nat
                OBVIOUS
            <4> QED BY <2>1, <3>1, <4>1
        <3> QED BY <1>1, <3>1, <3>2
    <2> QED BY <2>1 DEF Leased
<1>7. Accounted(left, bare)
    BY <1>1, <1>2 DEF Accounted
<1>8. Explained(left, ops, src)
    BY <1>1, <1>2 DEF Explained
<1> QED BY <1>1, <1>3, <1>4, <1>5, <1>6, <1>7, <1>8 DEF Fit, left, bare

\* A removal keeps the watch over the owners of what is left, and no other's.
LEMMA WatchKept ==
  ASSUME NEW recs, Formed(recs), leaf \in [Artifacts \cup Old -> Leaves],
         NEW S, NEW broken, NEW services, NEW cands, NEW known,
         records' = RemovedRecords(recs, S, broken),
         watched' = services \ (cands \ OwnersOf(records')),
         services \subseteq Owners, Watching(recs, services, known),
         services \subseteq OwnersOf(recs) \cup cands,
         \A a \in S \cap DOMAIN recs : recs[a].owner \in cands
  PROVE  /\ watched' \subseteq Owners /\ watched' \subseteq OwnersOf(records')
         /\ Watching(records', watched', known)
<1> DEFINE left == RemovedRecords(recs, S, broken)
<1>1. /\ DOMAIN left \subseteq DOMAIN recs /\ DOMAIN recs \ DOMAIN left \subseteq S
      /\ \A a \in DOMAIN left : /\ left[a].owner = recs[a].owner
                                /\ left[a] = recs[a] \/ left[a].revoked
    BY RemovalIs
<1>2. records' = left /\ watched' = services \ (cands \ OwnersOf(left))
    OBVIOUS
<1> HIDE DEF left
<1>3. watched' \subseteq OwnersOf(left)
    <2>1. ASSUME NEW o \in services, o \notin cands PROVE o \in OwnersOf(left)
        <3>1. PICK a \in DOMAIN recs : recs[a].owner = o
            BY <2>1 DEF OwnersOf
        <3>2. a \in DOMAIN left
            BY <1>1, <2>1, <3>1
        <3> QED BY <1>1, <3>1, <3>2 DEF OwnersOf
    <2> QED BY <1>2, <2>1
<1>4. Watching(left, watched', known)
    <2>1. ASSUME NEW a \in DOMAIN left, ~left[a].revoked
          PROVE  left[a].owner \in watched' \cap known
        <3>1. left[a].owner \in OwnersOf(left)
            BY DEF OwnersOf
        <3>2. recs[a].owner \in services \cap known
            BY <1>1, <2>1 DEF Watching
        <3> QED BY <1>1, <1>2, <3>1, <3>2
    <2> QED BY <2>1 DEF Watching
<1> QED BY <1>2, <1>3, <1>4

\* Operations that end, go on or are forgotten, and another that is the active one.
LEMMA RestateKeeps ==
  ASSUME NEW recs, NEW lv, NEW ops, NEW ops2, NEW src \in [Uses -> Artifacts \cup {None}],
         NEW act, NEW act2, NEW ls, NEW al,
         Fit(recs, lv, ops, src, act, ls, al),
         \A x \in Ops : /\ ops2[x] = "unused" => ops[x] = "unused"
                        /\ ops2[x] \in Pending => ops[x] \in Pending,
         \A a \in Artifacts : ops2[a] \in Pending => ops2[a] # "paused" /\ act2 = a,
         Explained(recs, ops2, src)
  PROVE  Fit(recs, lv, ops2, src, act2, ls, al)
<1>1. /\ Begun(recs, ops, src) /\ Staging(recs, ops, act, ls)
      /\ Holding(recs, lv, ops, src) /\ Leased(recs, lv, ls, al)
      /\ Accounted(recs, lv) /\ Formed(recs)
    BY DEF Fit
<1>2. Artifacts \cup Uses \subseteq Ops
    BY DEF Ops
<1>3. Begun(recs, ops2, src)
    <2>1. \A a \in DOMAIN recs : ops2[a] # "unused"
        BY <1>1, <1>2 DEF Begun, Formed
    <2>2. ASSUME NEW u \in Uses, src[u] # None PROVE ops2[src[u]] # "unused" /\ ops2[u] # "unused"
        <3>1. ops[src[u]] # "unused" /\ ops[u] # "unused"
            BY <1>1, <2>2 DEF Begun
        <3>2. src[u] \in Ops /\ u \in Ops
            BY <1>2, <2>2
        <3> QED BY <3>1, <3>2
    <2> QED BY <2>1, <2>2 DEF Begun
<1>4. Staging(recs, ops2, act2, ls)
    BY <1>1, <1>2 DEF Staging
<1>5. Holding(recs, lv, ops2, src)
    BY <1>1, <1>2 DEF Holding
<1> QED BY <1>1, <1>3, <1>4, <1>5 DEF Fit

\* A hold of an operation that is over is given up.
LEMMA UnheldFits ==
  ASSUME NEW recs, NEW lv, NEW ops, NEW src, NEW act, NEW ls, NEW al, NEW x,
         ops[x] \notin Pending, Fit(recs, lv, ops, src, act, ls, al)
  PROVE  Fit(Unheld(recs, x), lv, ops, src, act, ls, al)
<1> DEFINE free == Unheld(recs, x)
<1>1. /\ Formed(free) /\ DOMAIN free = DOMAIN recs
      /\ \A a \in DOMAIN recs :
           /\ free[a].inUse = IF recs[a].inUse = x THEN None ELSE recs[a].inUse
           /\ free[a].owner = recs[a].owner /\ free[a].claimed = recs[a].claimed
           /\ free[a].revoked = recs[a].revoked /\ free[a].expires = recs[a].expires
    BY UnheldIs DEF Fit
<1>2. /\ Begun(recs, ops, src) /\ Staging(recs, ops, act, ls)
      /\ Holding(recs, lv, ops, src) /\ Leased(recs, lv, ls, al)
      /\ Accounted(recs, lv) /\ Explained(recs, ops, src)
    BY DEF Fit
<1> HIDE DEF free
<1>3. Begun(free, ops, src)
    BY <1>1, <1>2 DEF Begun
<1>4. Staging(free, ops, act, ls)
    BY <1>1, <1>2 DEF Staging
<1>5. Holding(free, lv, ops, src)
    BY <1>1, <1>2 DEF Holding
<1>6. Leased(free, lv, ls, al)
    BY <1>1, <1>2 DEF Leased
<1>7. Accounted(free, lv) /\ Explained(free, ops, src)
    BY <1>1, <1>2 DEF Accounted, Explained
<1> QED BY <1>1, <1>3, <1>4, <1>5, <1>6, <1>7 DEF Fit, free

\* The end of an operation gives up its hold and no other.
LEMMA UnheldKeeps ==
  ASSUME NEW recs, NEW lv, NEW ops \in Histories, NEW src \in [Uses -> Artifacts \cup {None}],
         NEW act, NEW ls, NEW al, NEW x \in Ops, NEW s \in Terminal,
         Fit(recs, lv, ops, src, act, ls, al)
  PROVE  Fit(Unheld(recs, x), lv, [ops EXCEPT ![x] = s], src,
             IF act = x THEN None ELSE act, ls, al)
<1> DEFINE over == [ops EXCEPT ![x] = s]
           then == IF act = x THEN None ELSE act
<1>1. \A y \in Ops : over[y] = IF y = x THEN s ELSE ops[y]
    BY DEF Histories
<1>2. s \notin Pending /\ s # "unused" /\ s # "forgotten" /\ Artifacts \subseteq Ops
    BY DEF Terminal, Pending, Ops
<1> HIDE DEF over
<1>3. \A a \in Artifacts : over[a] \in Pending => over[a] # "paused" /\ then = a
    BY <1>1, <1>2 DEF Fit, Staging
<1>4. Explained(recs, over, src)
    BY <1>1, <1>2 DEF Fit, Explained
<1>5. Fit(recs, lv, over, src, then, ls, al)
    <2>1. \A y \in Ops : /\ over[y] = "unused" => ops[y] = "unused"
                         /\ over[y] \in Pending => ops[y] \in Pending
        BY <1>1, <1>2
    <2> HIDE DEF then
    <2> QED BY <2>1, <1>3, <1>4, RestateKeeps
<1>6. over[x] \notin Pending
    BY <1>1, <1>2
<1> HIDE DEF then
<1> QED BY <1>5, <1>6, UnheldFits DEF over, then

\* What the history forgets is over.
LEMMA ForgettingKeeps ==
  ASSUME NEW recs, NEW lv, NEW ops \in Histories, NEW src \in [Uses -> Artifacts \cup {None}],
         NEW act, NEW ls, NEW al, NEW ops2,
         Fit(recs, lv, ops, src, act, ls, al),
         \A x \in Ops : ops2[x] = ops[x] \/ (ops[x] \in Terminal /\ ops2[x] = "forgotten"),
         Explained(recs, ops2, src)
  PROVE  Fit(recs, lv, ops2, src, act, ls, al)
<1>1. \A x \in Ops : /\ ops2[x] = "unused" => ops[x] = "unused"
                     /\ ops2[x] \in Pending => ops[x] \in Pending /\ ops2[x] = ops[x]
    BY DEF Pending
<1>2. \A a \in Artifacts : ops2[a] \in Pending => ops2[a] # "paused" /\ act = a
    BY <1>1 DEF Fit, Staging, Ops
<1> QED BY <1>1, <1>2, RestateKeeps

\* Revoked: of an owner who has left the bus nothing is leased.
LEMMA RevokedKeeps ==
  ASSUME NEW recs, NEW lv, NEW ops, NEW src, NEW act, NEW ls \in [Artifacts -> Nat], NEW al,
         NEW o, o \notin al, now \in Nat, Fit(recs, lv, ops, src, act, ls, al)
  PROVE  /\ Fit(Revoked(recs, o), lv, ops, src, act, ls, al)
         /\ \A a \in DOMAIN recs : recs[a].owner = o => ls[a] <= now
         /\ \A wt, known : Watching(recs, wt, known) => Watching(Revoked(recs, o), wt, known \ {o})
<1> DEFINE gone == Revoked(recs, o)
<1>1. /\ Formed(gone) /\ DOMAIN gone = DOMAIN recs
      /\ \A a \in DOMAIN recs :
           /\ gone[a].inUse = recs[a].inUse /\ gone[a].owner = recs[a].owner
           /\ gone[a].claimed = recs[a].claimed
           /\ recs[a].owner = o => gone[a].revoked
           /\ recs[a].owner # o => gone[a] = recs[a]
    BY RevokedIs DEF Fit
<1>2. /\ Begun(recs, ops, src) /\ Staging(recs, ops, act, ls)
      /\ Holding(recs, lv, ops, src) /\ Leased(recs, lv, ls, al)
      /\ Accounted(recs, lv) /\ Explained(recs, ops, src) /\ Formed(recs)
    BY DEF Fit
<1> HIDE DEF gone
<1>3. Begun(gone, ops, src) /\ Staging(gone, ops, act, ls)
    BY <1>1, <1>2 DEF Begun, Staging
<1>4. Holding(gone, lv, ops, src)
    BY <1>1, <1>2 DEF Holding
<1>5. Leased(gone, lv, ls, al)
    BY <1>1, <1>2 DEF Leased
<1>6. Accounted(gone, lv) /\ Explained(gone, ops, src)
    BY <1>1, <1>2 DEF Accounted, Explained
<1>7. ASSUME NEW a \in DOMAIN recs, recs[a].owner = o PROVE ls[a] <= now
    <2>1. a \in Artifacts
        BY <1>2 DEF Formed
    <2>2. ls[a] \in Nat /\ ~(ls[a] > now)
        BY <1>2, <1>7, <2>1 DEF Leased
    <2> QED BY <2>2
<1>8. ASSUME NEW wt, NEW known, Watching(recs, wt, known) PROVE Watching(gone, wt, known \ {o})
    BY <1>1, <1>8 DEF Watching
<1> QED BY <1>1, <1>3, <1>4, <1>5, <1>6, <1>7, <1>8 DEF Fit, gone

-----------------------------------------------------------------------------
(* The end of an operation *)

\* Finish: the hold of x and what nobody has a right to any more are given up.
LEMMA FinishKeeps ==
  ASSUME Operating, leaf \in [Artifacts \cup Old -> Leaves], now \in Nat,
         lease \in [Artifacts -> Nat], watched \subseteq Owners,
         NEW recs, NEW al, NEW known, NEW x \in Ops, NEW s \in Terminal,
         NEW extra \in SUBSET DOMAIN recs,
         Fit(recs, leaf, op, source, active, lease, al),
         Watching(recs, watched, known), watched \subseteq OwnersOf(recs),
         \A a \in extra : recs[a].inUse \in {None, x} /\ lease[a] <= now,
         Finish(x, s, recs, extra)
  PROVE  /\ Fit(records', leaf', op', source', active', lease, al)
         /\ leaf' \in [Artifacts \cup Old -> Leaves] /\ Operating'
         /\ Watching(records', watched', known)
         /\ watched' \subseteq Owners /\ watched' \subseteq OwnersOf(records')
         /\ active' = IF active = x THEN None ELSE active
         /\ \A y \in Ops \ {x} : op[y] \in Pending => op'[y] = op[y]
<1> DEFINE free == Unheld(recs, x)
           over == [op EXCEPT ![x] = s]
           dropped == DroppedWithHold(recs, x) \cup extra
           act == IF active = x THEN None ELSE active
<1>1. PICK broken \in Breakable(dropped) :
        /\ RemoveArtifacts(free, dropped, broken, watched, {free[a].owner : a \in dropped})
        /\ Settle(over, order, source, RemovedRecords(free, dropped, broken))
        /\ active' = act
    BY DEF Finish
<1>2. /\ op \in Histories /\ order \subseteq Of(op) \X Of(op)
      /\ source \in [Uses -> Artifacts \cup {None}] /\ active \in Ops \cup {None}
    BY DEF Operating, Histories, Of, Remembered
<1>3. over \in Histories /\ Of(op) \subseteq Of(over) /\ \A y \in Ops \ {x} : over[y] = op[y]
    BY <1>2 DEF Histories, Of
<1>4. Fit(free, leaf, over, source, act, lease, al)
    BY <1>2, UnheldKeeps
<1>5. /\ Formed(free) /\ DOMAIN free = DOMAIN recs /\ OwnersOf(free) = OwnersOf(recs)
      /\ \A a \in DOMAIN recs :
           /\ free[a].inUse = IF recs[a].inUse = x THEN None ELSE recs[a].inUse
           /\ free[a].owner = recs[a].owner /\ free[a].revoked = recs[a].revoked
    BY UnheldIs DEF Fit
<1>6. Watching(free, watched, known)
    BY <1>5 DEF Watching
<1>7. \A a \in dropped : a \in DOMAIN free /\ Free(free, a, over) /\ lease[a] <= now
    <2>1. /\ \A a \in DOMAIN free : free[a].inUse = None => Free(free, a, over)
          /\ \A a \in Expired(free) : a \in DOMAIN free /\ free[a].inUse = None /\ lease[a] <= now
        BY <1>4, ExpiredIsFree DEF Fit
    <2>2. DroppedWithHold(recs, x) \subseteq Expired(free)
        BY DEF DroppedWithHold
    <2>3. \A a \in extra : a \in DOMAIN free /\ free[a].inUse = None /\ lease[a] <= now
        BY <1>5
    <2> QED BY <2>1, <2>2, <2>3
<1> HIDE DEF free, over, dropped, act
<1> DEFINE left == RemovedRecords(free, dropped, broken)
           bare == RemovedLeaves(leaf, free, dropped, broken)
<1>8. Fit(left, bare, over, source, act, lease, al)
    BY <1>4, <1>7, RemovalKeeps
<1>9. records' = left /\ leaf' = bare
    BY <1>1 DEF RemoveArtifacts
<1>10. bare \in [Artifacts \cup Old -> Leaves]
    BY <1>5, RemovalIs
<1>11. /\ watched' \subseteq Owners /\ watched' \subseteq OwnersOf(records')
       /\ Watching(records', watched', known)
    <2> DEFINE cands == {free[a].owner : a \in dropped}
    <2>1. watched \subseteq OwnersOf(free) \cup cands
        BY <1>5
    <2>2. \A a \in dropped \cap DOMAIN free : free[a].owner \in cands
        OBVIOUS
    <2>3. /\ records' = RemovedRecords(free, dropped, broken)
          /\ watched' = watched \ (cands \ OwnersOf(records'))
        BY <1>1 DEF RemoveArtifacts
    <2> HIDE DEF left, bare, cands
    <2> QED BY <1>5, <1>6, <2>1, <2>2, <2>3, WatchKept
<1> HIDE DEF left, bare
<1>12. /\ op' \in Histories /\ order' \subseteq Of(op') \X Of(op') /\ source' = source
       /\ \A y \in Ops : op'[y] = over[y] \/ (over[y] \in Terminal /\ op'[y] = "forgotten")
       /\ Explained(left, op', source')
    <2>1. Explained(left, over, source) /\ order \subseteq Of(over) \X Of(over)
        BY <1>2, <1>3, <1>8 DEF Fit
    <2>2. Settle(over, order, source, left)
        BY <1>1 DEF left
    <2> QED BY <1>2, <1>3, <2>1, <2>2, SettleKeeps
<1>13. Fit(left, bare, op', source, act, lease, al)
    BY <1>2, <1>3, <1>8, <1>12, ForgettingKeeps
<1>14. Operating'
    <2>1. active' \in Ops \cup {None}
        BY <1>1, <1>2 DEF act
    <2> QED BY <1>2, <1>12, <2>1 DEF Operating, Histories, Of, Remembered
<1>15. \A y \in Ops \ {x} : op[y] \in Pending => op'[y] = op[y]
    BY <1>3, <1>12 DEF Pending, Terminal
<1> QED BY <1>1, <1>9, <1>10, <1>11, <1>12, <1>13, <1>14, <1>15 DEF act

\* The clock and what the clients were told are numbers.
LEMMA Numbers ==
  ASSUME Framed
  PROVE  now \in Nat /\ lease \in [Artifacts -> Nat]
BY DurationAssumption DEF Framed

\* What is known of the artifacts depends on the clock and the scan at the start only.
LEMMA SameClock ==
  ASSUME Fit(records', leaf', op', source', active', lease', alive'),
         UNCHANGED <<now, started, stuck>>
  PROVE  Fit(records, leaf, op, source, active, lease, alive)'
BY DEF Fit, Formed, Begun, Staging, Holding, Leased, Accounted, Explained

\* EndUse, NewGeneration and Cancel end an operation that reads a copy.
LEMMA EndingKeeps ==
  ASSUME MediaInvariant, NEW u \in Uses,
         Finish(u, "ended", records, {}),
         UNCHANGED <<now, staged, alive, notices, lease, cleanup, started, stuck>>,
         Listing'
  PROVE  MediaInvariant'
<1>1. now \in Nat /\ lease \in [Artifacts -> Nat] /\ u \in Ops /\ "ended" \in Terminal
    BY Numbers DEF MediaInvariant, Ops, Terminal
<1>2. /\ Fit(records', leaf', op', source', active', lease, alive)
      /\ leaf' \in [Artifacts \cup Old -> Leaves] /\ Operating'
      /\ Watching(records', watched', alive \cup notices)
      /\ watched' \subseteq Owners /\ watched' \subseteq OwnersOf(records')
      /\ active' = IF active = u THEN None ELSE active
      /\ \A y \in Ops \ {u} : op[y] \in Pending => op'[y] = op[y]
    BY <1>1, FinishKeeps DEF MediaInvariant, Framed
<1>3. Fit(records, leaf, op, source, active, lease, alive)'
    BY <1>2, SameClock
<1>4. Framed'
    BY <1>2 DEF MediaInvariant, Framed
<1>5. Answering'
    <2>1. \A a \in Artifacts : a \in Ops /\ a # u
        BY IdentitiesAssumption DEF Ops
    <2> QED BY <1>2, <2>1 DEF MediaInvariant, Answering
<1>6. Latching'
    <2>1. \A c \in Cleanups : c # u
        BY IdentitiesAssumption
    <2> QED BY <1>2, <2>1 DEF MediaInvariant, Latching, Latched
<1> QED BY <1>2, <1>3, <1>4, <1>5, <1>6 DEF MediaInvariant

\* Nothing changes but the event queue and the catalogue.
LEMMA ViewKeeps ==
  ASSUME MediaInvariant, UNCHANGED <<records, leaf, op, order, source, active, alive, notices, watched,
                                     lease, staged, now, started, stuck>>,
         Latching', Listing'
  PROVE  MediaInvariant'
<1>1. Fit(records, leaf, op, source, active, lease, alive)'
    BY SameClock DEF MediaInvariant
<1>2. Framed' /\ Operating' /\ Answering'
    BY DEF MediaInvariant, Framed, Operating, Remembered, Answering
<1>3. Watching(records', watched', alive' \cup notices') /\ watched' \subseteq OwnersOf(records')
    BY DEF MediaInvariant
<1> QED BY <1>1, <1>2, <1>3 DEF MediaInvariant

\* EndUse
LEMMA EndUseKeeps ==
  ASSUME MediaInvariant, NEW u \in Uses, EndUse(u)
  PROVE  MediaInvariant'
<1>1. /\ Finish(u, "ended", records, {})
      /\ UNCHANGED <<now, staged, alive, notices, lease, cleanup, started, stuck>>
    BY DEF EndUse, frameVars
<1>2. Listing'
    BY DEF EndUse, viewVars, MediaInvariant, Listing, CatalogueIsOfDevice
<1> QED BY <1>1, <1>2, EndingKeeps

\* A change of state that ends nothing.
LEMMA RestatedKeeps ==
  ASSUME MediaInvariant, NEW ops \in Histories,
         op' = ops, \A x \in Ops : IF op[x] \in Pending THEN ops[x] \in Pending ELSE ops[x] = op[x],
         \A a \in Artifacts : op[a] \in Pending => ops[a] # "paused" /\ active' = a,
         active' \in Ops \cup {None}, order' = order, source' = source, Latching',
         UNCHANGED <<records, leaf, alive, notices, watched, lease, staged, now, started, stuck,
                     posted, printer, lists, catalogue, deferred>>
  PROVE  MediaInvariant'
<1>1. /\ Fit(records, leaf, op, source, active, lease, alive)
      /\ Framed /\ Operating /\ Answering /\ Listing
      /\ Watching(records, watched, alive \cup notices) /\ watched \subseteq OwnersOf(records)
    BY DEF MediaInvariant
<1>2. Artifacts \cup Uses \subseteq Ops /\ "unused" \notin Pending /\ "forgotten" \notin Pending
    BY DEF Ops, Pending
<1>3. \A x \in Ops : /\ (ops[x] \in Pending <=> op[x] \in Pending)
                     /\ (ops[x] = "unused" => op[x] = "unused")
                     /\ (ops[x] = "forgotten" => op[x] = "forgotten")
                     /\ (op[x] \in Terminal => ops[x] \in Terminal)
    BY <1>2 DEF Pending, Terminal
<1>4. Fit(records, leaf, ops, source, active', lease, alive)
    <2>1. Explained(records, ops, source)
        BY <1>1, <1>3 DEF Fit, Explained
    <2>2. \A a \in Artifacts : ops[a] \in Pending => ops[a] # "paused" /\ active' = a
        BY <1>2, <1>3
    <2>3. source \in [Uses -> Artifacts \cup {None}]
        BY <1>1 DEF Operating
    <2> QED BY <1>1, <1>3, <2>1, <2>2, <2>3, RestateKeeps
<1>5. Fit(records, leaf, op, source, active, lease, alive)'
    BY <1>4, SameClock
<1>6. Operating'
    <2>1. Remembered \subseteq Remembered'
        BY <1>3 DEF Remembered
    <2> QED BY <1>1, <2>1 DEF Operating, Histories
<1>7. Answering'
    BY <1>1, <1>2, <1>3 DEF Answering
<1>8. Framed' /\ Listing'
    BY <1>1 DEF Framed, Listing, CatalogueIsOfDevice
<1> QED BY <1>1, <1>5, <1>6, <1>7, <1>8 DEF MediaInvariant

\* PauseUse
LEMMA PauseUseKeeps ==
  ASSUME MediaInvariant, NEW u \in Uses, PauseUse(u)
  PROVE  MediaInvariant'
<1> DEFINE ops == [op EXCEPT ![u] = "paused"]
<1>1. /\ op[u] = "running" /\ active = u /\ op' = ops /\ active' = None
      /\ UNCHANGED <<records, leaf, alive, notices, watched, lease, staged, now, started, stuck,
                     cleanup, posted, printer, lists, catalogue, deferred, order, source>>
    BY DEF PauseUse, storeVars, busVars, viewVars, frameVars
<1>2. /\ op \in Histories /\ Staging(records, op, active, lease) /\ Latching
    BY DEF MediaInvariant, Fit, Operating, Histories
<1>3. \A a \in Artifacts : op[a] \notin Pending
    BY <1>1, <1>2, IdentitiesAssumption DEF Staging
<1>4. ops \in Histories
    BY <1>2 DEF Histories, Pending
<1>5. \A x \in Ops : IF op[x] \in Pending THEN ops[x] \in Pending ELSE ops[x] = op[x]
    BY <1>1, <1>2 DEF Histories, Pending
<1>6. Latching'
    BY <1>1, <1>2, IdentitiesAssumption DEF Latching, Latched
<1> HIDE DEF ops
<1> QED BY <1>1, <1>3, <1>4, <1>5, <1>6, RestatedKeeps

\* Cancel
LEMMA CancelKeeps ==
  ASSUME MediaInvariant, NEW x \in Artifacts \cup Uses, Cancel(x)
  PROVE  MediaInvariant'
<1>1. /\ active = x /\ op[x] = "running"
      /\ UNCHANGED <<staged, alive, notices, lease, now, started, stuck,
                     cleanup, posted, printer, lists, catalogue, deferred>>
    BY DEF Cancel, viewVars, frameVars
<1>2. CASE x \in Uses /\ Finish(x, "ended", records, {})
    <2>1. Listing'
        BY <1>1 DEF MediaInvariant, Listing, CatalogueIsOfDevice
    <2> QED BY <1>1, <1>2, <2>1, EndingKeeps
<1>3. CASE /\ op' = [op EXCEPT ![x] = "cancelling"]
           /\ UNCHANGED <<records, leaf, order, source, active, watched>>
    <2> DEFINE ops == [op EXCEPT ![x] = "cancelling"]
    <2>1. op \in Histories /\ Staging(records, op, active, lease) /\ Latching /\ active \in Ops \cup {None}
        BY DEF MediaInvariant, Fit, Operating, Histories
    <2>2. ops \in Histories
        BY <2>1 DEF Histories, Pending
    <2>3. /\ \A y \in Ops : IF op[y] \in Pending THEN ops[y] \in Pending ELSE ops[y] = op[y]
          /\ \A a \in Artifacts : op[a] \in Pending => ops[a] # "paused" /\ active = a
        BY <1>1, <2>1 DEF Histories, Pending, Staging, Ops
    <2>4. Latching'
        BY <1>1, <1>3, <2>1 DEF Latching, Latched
    <2> HIDE DEF ops
    <2>5. op' = ops
        BY <1>3 DEF ops
    <2> QED BY <1>1, <1>3, <2>1, <2>2, <2>3, <2>4, <2>5, RestatedKeeps
<1> QED BY <1>2, <1>3 DEF Cancel, storeVars

-----------------------------------------------------------------------------
(* Staging a copy *)

\* Pull: the worker writes under the name of a reservation that nobody has claimed.
LEMMA PullKeeps ==
  ASSUME MediaInvariant, NEW a \in Artifacts, Pull(a)
  PROVE  MediaInvariant'
<1>1. /\ op[a] \in Pending /\ leaf' \in {leaf, [leaf EXCEPT ![a] = "part"], [leaf EXCEPT ![a] = "file"]}
      /\ staged' \in {[staged EXCEPT ![a] = "pulled"], [staged EXCEPT ![a] = "failed"]}
      /\ UNCHANGED <<records, op, order, source, active, alive, notices, watched, lease, now, started,
                     stuck, cleanup, posted, printer, lists, catalogue, deferred>>
    BY DEF Pull, opVars, busVars, viewVars, frameVars, Pending
<1>2. /\ Begun(records, op, source) /\ Staging(records, op, active, lease)
      /\ Holding(records, leaf, op, source) /\ Leased(records, leaf, lease, alive)
      /\ Accounted(records, leaf) /\ Explained(records, op, source) /\ Formed(records)
      /\ Framed /\ Operating /\ Answering /\ Latching /\ Listing
      /\ Watching(records, watched, alive \cup notices) /\ watched \subseteq OwnersOf(records)
    BY DEF MediaInvariant, Fit
<1>3. a \in DOMAIN records /\ records[a].inUse = a /\ lease[a] <= now /\ lease[a] \in Nat /\ now \in Nat
    BY <1>1, <1>2, Numbers DEF Staging
<1>4. /\ leaf' \in [Artifacts \cup Old -> Leaves]
      /\ \A x \in (Artifacts \cup Old) \ {a} : leaf'[x] = leaf[x]
    BY <1>1, <1>2 DEF Framed, Leaves
<1>5. Holding(records, leaf', op, source)
    <2>1. ASSUME NEW u \in Uses, op[u] \in Pending
          PROVE  source[u] \in DOMAIN records /\ records[source[u]].inUse = u /\ leaf'[source[u]] \in Present
        <3>1. source[u] \in DOMAIN records /\ records[source[u]].inUse = u /\ leaf[source[u]] \in Present
            BY <1>2, <2>1 DEF Holding
        <3>2. source[u] # a /\ source[u] \in Artifacts
            BY <1>2, <1>3, <3>1, IdentitiesAssumption DEF Formed
        <3> QED BY <1>4, <3>1, <3>2
    <2> QED BY <2>1 DEF Holding
<1>6. Leased(records, leaf', lease, alive)
    <2>1. ASSUME NEW b \in Artifacts, lease[b] > now
          PROVE  b # a
        BY <1>3, <2>1
    <2> QED BY <1>2, <1>4, <2>1 DEF Leased
<1>7. Accounted(records, leaf')
    <2>1. DOMAIN leaf' = DOMAIN leaf /\ DOMAIN leaf = Artifacts \cup Old
        BY <1>2, <1>4 DEF Framed
    <2> QED BY <1>2, <1>3, <1>4, <2>1 DEF Accounted
<1>8. Fit(records, leaf, op, source, active, lease, alive)'
    BY <1>1, <1>2, <1>5, <1>6, <1>7, SameClock DEF Fit
<1>9. Framed'
    <2>1. staged' \in [Artifacts -> {"none", "pulled", "failed"}]
        BY <1>1, <1>2 DEF Framed
    <2> QED BY <1>1, <1>2, <1>4, <2>1 DEF Framed
<1>10. Answering'
    BY <1>1, <1>2 DEF Answering, Framed
<1>11. Operating' /\ Latching' /\ Listing'
    BY <1>1, <1>2 DEF Operating, Remembered, Latching, Latched, Listing, CatalogueIsOfDevice
<1> QED BY <1>1, <1>2, <1>8, <1>9, <1>10, <1>11 DEF MediaInvariant

\* Finalized: a reservation that becomes a copy is leased to nobody yet.
LEMMA FinalizedKeeps ==
  ASSUME NEW recs, NEW ops, NEW src, NEW act, NEW ls, NEW al, NEW a \in Artifacts,
         ops[a] \in Pending, now \in 0 .. MaxTime, ls[a] \in Nat,
         Fit(recs, leaf, ops, src, act, ls, al)
  PROVE  /\ Fit(Finalized(recs, a), leaf, ops, src, act, ls, al)
         /\ OwnersOf(Finalized(recs, a)) = OwnersOf(recs)
         /\ \A wt, known : Watching(recs, wt, known) => Watching(Finalized(recs, a), wt, known)
<1> DEFINE done == Finalized(recs, a)
<1>1. /\ Begun(recs, ops, src) /\ Staging(recs, ops, act, ls)
      /\ Holding(recs, leaf, ops, src) /\ Leased(recs, leaf, ls, al)
      /\ Accounted(recs, leaf) /\ Explained(recs, ops, src) /\ Formed(recs)
    BY DEF Fit
<1>2. a \in DOMAIN recs /\ ls[a] <= now
    BY <1>1 DEF Staging
<1>3. DOMAIN done = DOMAIN recs /\ \A b \in DOMAIN recs : b # a => done[b] = recs[b]
    BY DEF Finalized
<1>4. /\ done[a] \in Record /\ ~done[a].claimed
      /\ done[a].inUse = recs[a].inUse /\ done[a].owner = recs[a].owner
      /\ done[a].revoked = recs[a].revoked
    <2>1. recs[a] \in Record
        BY <1>1, <1>2 DEF Formed
    <2>2. done[a] = [recs[a] EXCEPT !.ready = TRUE, !.claimed = FALSE, !.expires = now + Ttl]
        BY <1>2, <2>1 DEF Finalized, Record
    <2>3. now + Ttl \in 0 .. (MaxTime + Ttl + Lease)
        BY DurationAssumption
    <2> HIDE DEF done
    <2> QED BY <2>1, <2>2, <2>3 DEF Record
<1> HIDE DEF done
<1>5. Formed(done)
    BY <1>1, <1>3, <1>4 DEF Formed
<1>6. \A b \in DOMAIN recs : /\ done[b].inUse = recs[b].inUse /\ done[b].owner = recs[b].owner
                             /\ done[b].revoked = recs[b].revoked
                             /\ done[b].claimed => recs[b].claimed
    BY <1>3, <1>4
<1>7. Begun(done, ops, src) /\ Staging(done, ops, act, ls) /\ Holding(done, leaf, ops, src)
    BY <1>1, <1>3, <1>6 DEF Begun, Staging, Holding
<1>8. Leased(done, leaf, ls, al)
    <2>1. \A b \in Artifacts : ls[b] > now => b # a
        BY <1>2
    <2> QED BY <1>1, <1>3, <2>1 DEF Leased
<1>9. Accounted(done, leaf) /\ Explained(done, ops, src)
    BY <1>1, <1>3 DEF Accounted, Explained
<1>10. OwnersOf(done) = OwnersOf(recs)
    BY <1>3, <1>6 DEF OwnersOf
<1>11. ASSUME NEW wt, NEW known, Watching(recs, wt, known) PROVE Watching(done, wt, known)
    BY <1>3, <1>6, <1>11 DEF Watching
<1> QED BY <1>5, <1>7, <1>8, <1>9, <1>10, <1>11 DEF Fit, done

\* HandleStaged: the copy is made final, or given up with all that its owner had.
LEMMA HandleStagedKeeps ==
  ASSUME MediaInvariant, NEW a \in Artifacts, HandleStaged(a)
  PROVE  MediaInvariant'
<1> DEFINE o == records[a].owner
           recs == IF o \in alive THEN records ELSE Revoked(records, o)
           idle == IF o \in alive THEN {} ELSE Idle(recs, o)
           known == alive \cup notices
<1>1. /\ staged[a] # "none" /\ staged' = [staged EXCEPT ![a] = "none"]
      /\ \/ Finish(a, "succeeded", Finalized(recs, a), {})
         \/ Finish(a, "ended", recs, idle \cup {x \in {a} : Discardable(recs, x)})
      /\ UNCHANGED <<alive, notices, lease, now, started, stuck, cleanup, posted, printer, lists,
                     catalogue, deferred>>
    BY DEF HandleStaged, viewVars, frameVars
<1>2. /\ Fit(records, leaf, op, source, active, lease, alive) /\ Formed(records)
      /\ Framed /\ Operating /\ Answering /\ Latching /\ Listing
      /\ Watching(records, watched, known) /\ watched \subseteq OwnersOf(records)
    BY DEF MediaInvariant, Fit
<1>3. /\ now \in Nat /\ now \in 0 .. MaxTime /\ lease \in [Artifacts -> Nat] /\ watched \subseteq Owners
      /\ leaf \in [Artifacts \cup Old -> Leaves] /\ a \in Ops
      /\ "ended" \in Terminal /\ "succeeded" \in Terminal
    BY <1>2, Numbers DEF Framed, Ops, Terminal
<1>4. op[a] \in Pending
    BY <1>1, <1>2 DEF Answering
<1>5. /\ Fit(recs, leaf, op, source, active, lease, alive)
      /\ Watching(recs, watched, known) /\ watched \subseteq OwnersOf(recs)
      /\ idle \subseteq DOMAIN recs /\ \A b \in idle : recs[b].inUse = None /\ lease[b] <= now
    <2>1. CASE o \in alive
        BY <1>2, <2>1
    <2>2. CASE o \notin alive
        <3>1. /\ Fit(recs, leaf, op, source, active, lease, alive)
              /\ \A b \in DOMAIN records : records[b].owner = o => lease[b] <= now
              /\ Watching(recs, watched, known \ {o})
            BY <1>2, <1>3, <2>2, RevokedKeeps
        <3>2. /\ DOMAIN recs = DOMAIN records /\ OwnersOf(recs) = OwnersOf(records)
              /\ \A b \in DOMAIN recs : recs[b].owner = records[b].owner
            BY <1>2, <2>2, RevokedIs
        <3>3. idle = {b \in DOMAIN recs : recs[b].owner = o /\ recs[b].inUse = None}
            BY <2>2 DEF Idle
        <3> HIDE DEF recs, idle
        <3>4. Watching(recs, watched, known)
            BY <3>1 DEF Watching
        <3> QED BY <1>2, <3>1, <3>2, <3>3, <3>4
    <2> QED BY <2>1, <2>2
<1> HIDE DEF recs, idle, o
<1>6. a \in DOMAIN recs /\ recs[a].inUse = a /\ lease[a] <= now
    BY <1>4, <1>5 DEF Fit, Staging
<1>7. /\ Fit(records', leaf', op', source', active', lease, alive)
      /\ leaf' \in [Artifacts \cup Old -> Leaves] /\ Operating'
      /\ Watching(records', watched', known)
      /\ watched' \subseteq Owners /\ watched' \subseteq OwnersOf(records')
      /\ active' = IF active = a THEN None ELSE active
      /\ \A y \in Ops \ {a} : op[y] \in Pending => op'[y] = op[y]
    <2>1. CASE Finish(a, "succeeded", Finalized(recs, a), {})
        <3> DEFINE done == Finalized(recs, a)
        <3>1. /\ Fit(done, leaf, op, source, active, lease, alive)
              /\ Watching(done, watched, known) /\ watched \subseteq OwnersOf(done)
            BY <1>3, <1>4, <1>5, FinalizedKeeps
        <3> HIDE DEF done
        <3>2. Finish(a, "succeeded", done, {})
            BY <2>1 DEF done
        <3> QED BY <1>2, <1>3, <3>1, <3>2, FinishKeeps
    <2>2. CASE Finish(a, "ended", recs, idle \cup {x \in {a} : Discardable(recs, x)})
        <3> DEFINE extra == idle \cup {x \in {a} : Discardable(recs, x)}
        <3>1. extra \in SUBSET DOMAIN recs /\ \A b \in extra : recs[b].inUse \in {None, a} /\ lease[b] <= now
            BY <1>5, <1>6
        <3>2. Finish(a, "ended", recs, extra)
            BY <2>2
        <3> HIDE DEF extra
        <3> QED BY <1>2, <1>3, <1>5, <3>1, <3>2, FinishKeeps
    <2> QED BY <1>1, <2>1, <2>2
<1>8. Fit(records, leaf, op, source, active, lease, alive)'
    BY <1>1, <1>7, SameClock
<1>9. Framed'
    <2>1. staged' \in [Artifacts -> {"none", "pulled", "failed"}]
        BY <1>1, <1>2 DEF Framed
    <2> QED BY <1>1, <1>2, <1>7, <2>1 DEF Framed
<1>10. Answering'
    <2>1. ASSUME NEW b \in Artifacts, staged'[b] # "none" PROVE op'[b] \in Pending
        <3>1. b # a /\ staged[b] # "none" /\ b \in Ops
            BY <1>1, <1>2, <2>1 DEF Framed, Ops
        <3> QED BY <1>2, <1>7, <3>1 DEF Answering
    <2> QED BY <2>1 DEF Answering
<1>11. Latching'
    BY <1>1, <1>2, <1>7, IdentitiesAssumption DEF Latching, Latched
<1>12. Listing'
    BY <1>1, <1>2 DEF Listing, CatalogueIsOfDevice
<1> QED BY <1>1, <1>7, <1>8, <1>9, <1>10, <1>11, <1>12 DEF MediaInvariant

-----------------------------------------------------------------------------
(* Clients that leave the bus *)

\* Leave: what was told to a client is of no use to it any more.
LEMMA LeaveKeeps ==
  ASSUME MediaInvariant, NEW o \in Owners, Leave(o)
  PROVE  MediaInvariant'
<1>1. /\ o \in alive /\ alive' = alive \ {o}
      /\ notices' = IF o \in watched THEN notices \cup {o} ELSE notices
      /\ lease' = [a \in Artifacts |-> IF a \in Known /\ records[a].owner = o THEN 0 ELSE lease[a]]
      /\ UNCHANGED <<records, leaf, op, order, source, active, staged, watched, now, started, stuck,
                     cleanup, posted, printer, lists, catalogue, deferred>>
    BY DEF Leave, storeVars, opVars, viewVars, frameVars
<1>2. /\ Begun(records, op, source) /\ Staging(records, op, active, lease)
      /\ Holding(records, leaf, op, source) /\ Leased(records, leaf, lease, alive)
      /\ Accounted(records, leaf) /\ Explained(records, op, source) /\ Formed(records)
      /\ Framed /\ Operating /\ Answering /\ Latching /\ Listing
      /\ Watching(records, watched, alive \cup notices) /\ watched \subseteq OwnersOf(records)
    BY DEF MediaInvariant, Fit
<1>3. now \in Nat /\ lease \in [Artifacts -> Nat]
    BY <1>2, Numbers
<1>4. \A a \in Artifacts : /\ lease'[a] = 0 \/ lease'[a] = lease[a]
                           /\ a \in DOMAIN records /\ records[a].owner = o => lease'[a] = 0
    BY <1>1 DEF Known
<1>5. Staging(records, op, active, lease')
    BY <1>2, <1>3, <1>4 DEF Staging
<1>6. Leased(records, leaf, lease', alive')
    <2>1. ASSUME NEW a \in Artifacts, lease'[a] > now
          PROVE  lease'[a] = lease[a] /\ (a \in DOMAIN records => records[a].owner # o)
        BY <1>3, <1>4, <2>1
    <2> QED BY <1>1, <1>2, <2>1 DEF Leased
<1>7. Fit(records, leaf, op, source, active, lease, alive)'
    BY <1>1, <1>2, <1>5, <1>6, SameClock DEF Fit
<1>8. Watching(records', watched', alive' \cup notices')
    <2>1. ASSUME NEW a \in DOMAIN records, ~records[a].revoked
          PROVE  records[a].owner \in watched \cap (alive' \cup notices')
        <3>1. records[a].owner \in watched \cap (alive \cup notices)
            BY <1>2, <2>1 DEF Watching
        <3> QED BY <1>1, <3>1
    <2> QED BY <1>1, <2>1 DEF Watching
<1>9. Framed'
    <2>1. lease' \in [Artifacts -> 0 .. MaxTime + Lease]
        BY <1>1, <1>2, DurationAssumption DEF Framed
    <2> QED BY <1>1, <1>2, <2>1 DEF Framed
<1>10. Operating' /\ Latching' /\ Listing' /\ Answering'
    BY <1>1, <1>2 DEF Operating, Remembered, Latching, Latched, Listing, CatalogueIsOfDevice, Answering
<1> QED BY <1>1, <1>2, <1>7, <1>8, <1>9, <1>10 DEF MediaInvariant

\* handleArtifactOwnerUnregistered: what the owner had is revoked, what nobody holds of
\* it is removed, and the operation that holds one of its copies is cancelled.
LEMMA OwnerNoticeKeeps ==
  ASSUME MediaInvariant, NEW o \in Owners, OwnerNotice(o)
  PROVE  MediaInvariant'
<1> DEFINE gone == Revoked(records, o)
           S == IF Latched THEN {} ELSE Idle(gone, o)
           busy == {x \in BusyWith(gone, o) : active = x /\ op[x] \in {"running", "cancelling"}}
           rest == (alive \cup notices) \ {o}
           over == [x \in Ops |-> IF x \in busy THEN "cancelling" ELSE op[x]]
<1>1. /\ o \in notices /\ notices' = notices \ {o}
      /\ \/ \E broken \in Breakable(S) :
              /\ RemoveArtifacts(gone, S, broken, watched, {o})
              /\ op' = over /\ UNCHANGED <<order, source, active>>
         \/ \E u \in busy \cap Uses : Finish(u, "ended", gone, S)
      /\ UNCHANGED <<alive, lease, now, started, stuck, staged, cleanup, posted, printer, lists,
                     catalogue, deferred>>
    BY DEF OwnerNotice, viewVars, frameVars
<1>2. /\ Fit(records, leaf, op, source, active, lease, alive) /\ Formed(records)
      /\ Framed /\ Operating /\ Answering /\ Latching /\ Listing
      /\ Watching(records, watched, alive \cup notices) /\ watched \subseteq OwnersOf(records)
    BY DEF MediaInvariant, Fit
<1>3. /\ now \in Nat /\ lease \in [Artifacts -> Nat] /\ watched \subseteq Owners
      /\ leaf \in [Artifacts \cup Old -> Leaves] /\ o \notin alive
      /\ "ended" \in Terminal /\ Artifacts \cup Uses \subseteq Ops
    BY <1>1, <1>2, Numbers DEF Framed, Ops, Terminal
<1>4. rest = alive' \cup notices'
    BY <1>1, <1>3
<1>5. /\ Fit(gone, leaf, op, source, active, lease, alive) /\ Watching(gone, watched, rest)
      /\ \A a \in DOMAIN records : records[a].owner = o => lease[a] <= now
    BY <1>2, <1>3, RevokedKeeps
<1>6. /\ DOMAIN gone = DOMAIN records /\ OwnersOf(gone) = OwnersOf(records) /\ Formed(gone)
      /\ \A a \in DOMAIN gone : gone[a].owner = records[a].owner
    BY <1>2, RevokedIs
<1>7. S \subseteq {a \in DOMAIN gone : gone[a].owner = o /\ gone[a].inUse = None}
    BY DEF Idle
<1> HIDE DEF gone, S, rest
<1>8. S \subseteq DOMAIN gone /\ \A a \in S : gone[a].owner = o /\ gone[a].inUse = None /\ lease[a] <= now
    BY <1>5, <1>6, <1>7
<1>9. /\ Fit(records', leaf', op', source', active', lease, alive)
      /\ leaf' \in [Artifacts \cup Old -> Leaves] /\ Operating'
      /\ Watching(records', watched', rest)
      /\ watched' \subseteq Owners /\ watched' \subseteq OwnersOf(records')
      /\ \A a \in Artifacts : op[a] \in Pending => op'[a] \in Pending
      /\ Latched => active' = active
    <2>1. CASE /\ \E broken \in Breakable(S) : RemoveArtifacts(gone, S, broken, watched, {o})
               /\ op' = over /\ UNCHANGED <<order, source, active>>
        <3>1. PICK broken \in Breakable(S) : RemoveArtifacts(gone, S, broken, watched, {o})
            BY <2>1
        <3>2. records' = RemovedRecords(gone, S, broken) /\ leaf' = RemovedLeaves(leaf, gone, S, broken)
              /\ watched' = watched \ ({o} \ OwnersOf(records'))
            BY <3>1 DEF RemoveArtifacts
        <3>3. \A a \in S \cap DOMAIN gone : Free(gone, a, op) /\ lease[a] <= now
            BY <1>3, <1>5, <1>8, ExpiredIsFree DEF Fit
        <3>4. Fit(records', leaf', op, source, active, lease, alive)
            BY <1>3, <1>5, <3>2, <3>3, RemovalKeeps
        <3>5. leaf' \in [Artifacts \cup Old -> Leaves]
            BY <1>3, <1>6, <3>2, RemovalIs
        <3>6. /\ Watching(records', watched', rest)
              /\ watched' \subseteq Owners /\ watched' \subseteq OwnersOf(records')
            <4> DEFINE cands == {o}
            <4>1. /\ watched \subseteq OwnersOf(gone) \cup cands
                  /\ \A a \in S \cap DOMAIN gone : gone[a].owner \in cands
                BY <1>2, <1>6, <1>8
            <4>2. /\ records' = RemovedRecords(gone, S, broken)
                  /\ watched' = watched \ (cands \ OwnersOf(records'))
                BY <3>2
            <4> HIDE DEF cands
            <4> QED BY <1>3, <1>5, <1>6, <4>1, <4>2, WatchKept
        <3>7. /\ op \in Histories /\ source \in [Uses -> Artifacts \cup {None}]
              /\ \A x \in Ops : op'[x] = op[x] \/ (active = x /\ op[x] \in {"running", "cancelling"}
                                                    /\ op'[x] = "cancelling")
            BY <1>2, <2>1 DEF Operating, Histories
        <3>8. \A x \in Ops : /\ op'[x] \in Pending <=> op[x] \in Pending
                             /\ op'[x] = "unused" => op[x] = "unused"
                             /\ op'[x] = "forgotten" => op[x] = "forgotten"
                             /\ op'[x] = "paused" => op[x] = "paused"
                             /\ op[x] \in Terminal => op'[x] \in Terminal
            BY <3>7 DEF Pending, Terminal
        <3>9. Fit(records', leaf', op', source, active, lease, alive)
            <4>1. \A a \in Artifacts : op'[a] \in Pending => op'[a] # "paused" /\ active = a
                BY <1>2, <1>3, <3>8 DEF Fit, Staging
            <4>2. Explained(records', op', source)
                BY <3>4, <3>8 DEF Fit, Explained
            <4> QED BY <3>4, <3>7, <3>8, <4>1, <4>2, RestateKeeps
        <3>10. Operating'
            <4>1. op' \in Histories
                BY <2>1, <3>7 DEF Histories, Pending
            <4>2. Remembered \subseteq Remembered'
                BY <3>8 DEF Remembered
            <4> QED BY <1>2, <2>1, <4>1, <4>2 DEF Operating, Histories
        <3> QED BY <1>3, <2>1, <3>5, <3>6, <3>8, <3>9, <3>10
    <2>2. CASE \E u \in busy \cap Uses : Finish(u, "ended", gone, S)
        <3>1. PICK u \in Uses : Finish(u, "ended", gone, S)
            BY <2>2
        <3>2. u \in Ops /\ \A a \in Artifacts \cup Cleanups : a # u
            BY <1>3, IdentitiesAssumption
        <3>3. S \in SUBSET DOMAIN gone /\ \A a \in S : gone[a].inUse \in {None, u} /\ lease[a] <= now
            BY <1>8
        <3>4. /\ Fit(records', leaf', op', source', active', lease, alive)
              /\ leaf' \in [Artifacts \cup Old -> Leaves] /\ Operating'
              /\ Watching(records', watched', rest)
              /\ watched' \subseteq Owners /\ watched' \subseteq OwnersOf(records')
              /\ active' = IF active = u THEN None ELSE active
              /\ \A y \in Ops \ {u} : op[y] \in Pending => op'[y] = op[y]
            <4> HIDE DEF over, busy
            <4> QED BY <1>2, <1>3, <1>5, <1>6, <3>1, <3>2, <3>3, FinishKeeps
        <3> QED BY <1>2, <1>3, <3>2, <3>4 DEF Latching
    <2> QED BY <1>1, <2>1, <2>2
<1>10. Fit(records, leaf, op, source, active, lease, alive)'
    BY <1>1, <1>9, SameClock
<1>11. Framed' /\ Answering' /\ Latching' /\ Listing'
    BY <1>1, <1>2, <1>3, <1>9 DEF Framed, Answering, Latching, Latched, Listing, CatalogueIsOfDevice
<1> QED BY <1>4, <1>9, <1>10, <1>11 DEF MediaInvariant

-----------------------------------------------------------------------------
(* The clock, the leases and the files *)

\* The clock may have moved meanwhile.
LEMMA LaterClock ==
  ASSUME Fit(records', leaf', op', source', active', lease', alive'),
         now \in Nat, now' \in Nat, now <= now', lease' \in [Artifacts -> Nat],
         UNCHANGED <<started, stuck>>
  PROVE  Fit(records, leaf, op, source, active, lease, alive)'
<1>1. \A a \in Artifacts : lease'[a] \in Nat
    OBVIOUS
<1>2. Staging(records, op, active, lease)'
    BY <1>1 DEF Fit, Staging
<1>3. Leased(records, leaf, lease, alive)'
    BY <1>1 DEF Fit, Leased
<1> QED BY <1>2, <1>3 DEF Fit, Formed, Begun, Holding, Accounted, Explained

\* The time when a file has been read.
LEMMA LaterIs ==
  ASSUME Framed, NEW later \in Later
  PROVE  later \in 0 .. MaxTime /\ now <= later /\ later \in Nat /\ now \in Nat
BY DurationAssumption DEF Framed, Later

\* Tick
LEMMA TickKeeps ==
  ASSUME MediaInvariant, Tick
  PROVE  MediaInvariant'
<1>1. /\ now < MaxTime /\ now' = now + 1
      /\ UNCHANGED <<records, leaf, op, order, source, active, alive, notices, watched,
                     lease, staged, started, stuck, cleanup, posted, printer, lists, catalogue, deferred>>
    BY DEF Tick, storeVars, opVars, busVars, viewVars
<1>2. now \in Nat /\ lease \in [Artifacts -> Nat] /\ now' \in 0 .. MaxTime
    BY <1>1, Numbers, DurationAssumption DEF MediaInvariant, Framed
<1>3. Fit(records, leaf, op, source, active, lease, alive)'
    BY <1>1, <1>2, LaterClock DEF MediaInvariant
<1>4. Framed' /\ Operating' /\ Answering' /\ Latching' /\ Listing'
    BY <1>1, <1>2 DEF MediaInvariant, Framed, Operating, Remembered, Answering, Latching, Latched,
                      Listing, CatalogueIsOfDevice
<1> QED BY <1>1, <1>3, <1>4 DEF MediaInvariant

\* Tamper: another file under the name of a copy does not end anybody's right to it.
LEMMA TamperKeeps ==
  ASSUME MediaInvariant, NEW a \in Artifacts, Tamper(a)
  PROVE  MediaInvariant'
<1>1. /\ a \in DOMAIN records /\ leaf' = [leaf EXCEPT ![a] = "foreign"]
      /\ UNCHANGED <<records, op, order, source, active, alive, notices, watched, lease, staged, now,
                     started, stuck, cleanup, posted, printer, lists, catalogue, deferred>>
    BY DEF Tamper, opVars, busVars, viewVars, frameVars, Known
<1>2. /\ Fit(records, leaf, op, source, active, lease, alive) /\ Formed(records)
      /\ Framed /\ Operating /\ Answering /\ Latching /\ Listing
    BY DEF MediaInvariant, Fit
<1>3. /\ leaf' \in [Artifacts \cup Old -> Leaves] /\ DOMAIN leaf' = DOMAIN leaf
      /\ DOMAIN leaf = Artifacts \cup Old
      /\ \A x \in Artifacts \cup Old : leaf'[x] = IF x = a THEN "foreign" ELSE leaf[x]
    BY <1>1, <1>2 DEF Framed, Leaves
<1>4. Holding(records, leaf', op, source) /\ Leased(records, leaf', lease, alive)
    BY <1>2, <1>3 DEF Fit, Formed, Holding, Leased, Present
<1>5. Accounted(records, leaf')
    BY <1>1, <1>2, <1>3 DEF Fit, Accounted
<1>6. Fit(records, leaf, op, source, active, lease, alive)'
    BY <1>1, <1>2, <1>4, <1>5, SameClock DEF Fit
<1>7. Framed' /\ Operating' /\ Answering' /\ Latching' /\ Listing'
    BY <1>1, <1>2, <1>3 DEF Framed, Operating, Remembered, Answering, Latching, Latched,
                            Listing, CatalogueIsOfDevice
<1> QED BY <1>1, <1>6, <1>7 DEF MediaInvariant

\* A client that is still on the bus is told until when it has a copy.
LEMMA LeaseKeeps ==
  ASSUME MediaInvariant, NEW a \in DOMAIN records, NEW later \in Later,
         op[a] \notin Pending, leaf[a] = "file", ~records[a].revoked,
         DOMAIN records' = DOMAIN records,
         \A b \in DOMAIN records \ {a} : records'[b] = records[b],
         records'[a] \in Record, records'[a].expires <= MaxTime + Lease,
         records'[a].inUse = records[a].inUse, records'[a].owner = records[a].owner,
         ~records'[a].revoked,
         Tell(a, records'[a].expires), now' = later,
         UNCHANGED <<leaf, op, order, source, active, alive, notices, watched, staged, started, stuck,
                     cleanup, posted, printer, lists, catalogue, deferred>>
  PROVE  MediaInvariant'
<1>1. /\ Begun(records, op, source) /\ Staging(records, op, active, lease)
      /\ Holding(records, leaf, op, source) /\ Leased(records, leaf, lease, alive)
      /\ Accounted(records, leaf) /\ Explained(records, op, source) /\ Formed(records)
      /\ Framed /\ Operating /\ Answering /\ Latching /\ Listing
      /\ Watching(records, watched, alive \cup notices) /\ watched \subseteq OwnersOf(records)
    BY DEF MediaInvariant, Fit
<1>2. /\ later \in 0 .. MaxTime /\ now <= later /\ later \in Nat /\ now \in Nat
      /\ lease \in [Artifacts -> Nat] /\ a \in Artifacts
    BY <1>1, LaterIs, Numbers DEF Formed
<1>3. /\ \A b \in Artifacts : b # a => lease'[b] = lease[b]
      /\ IF records[a].owner \in alive THEN lease'[a] = records'[a].expires
                                       ELSE lease'[a] = lease[a]
      /\ lease' \in [Artifacts -> 0 .. MaxTime + Lease]
    <2>1. records'[a].expires \in 0 .. MaxTime + Lease
        BY DurationAssumption DEF Record
    <2> QED BY <1>1, <1>2, <2>1 DEF Framed, Tell
<1>4. lease' \in [Artifacts -> Nat]
    BY <1>3, DurationAssumption
<1>5. \A b \in DOMAIN records : /\ records'[b].inUse = records[b].inUse
                                /\ records'[b].owner = records[b].owner
                                /\ records'[b].revoked = records[b].revoked
    <2>1. records'[a].revoked = FALSE /\ records[a].revoked = FALSE
        BY <1>1 DEF Formed, Record
    <2> QED BY <2>1
<1>6. Formed(records')
    BY <1>1 DEF Formed
<1>7. Begun(records', op, source) /\ Explained(records', op, source) /\ Accounted(records', leaf)
    BY <1>1 DEF Begun, Explained, Accounted
<1>8. Staging(records', op, active, lease')
    BY <1>1, <1>3 DEF Staging
<1>9. Holding(records', leaf, op, source)
    BY <1>1, <1>5 DEF Holding
<1>10. Leased(records', leaf, lease', alive)
    <2>1. ASSUME NEW b \in Artifacts, lease'[b] > now, b # a
          PROVE  /\ b \in DOMAIN records' /\ ~records'[b].revoked
                 /\ records'[b].expires >= lease'[b] /\ records'[b].owner \in alive /\ leaf[b] \in Present
        BY <1>1, <1>3, <2>1 DEF Leased
    <2>2. ASSUME lease'[a] > now
          PROVE  /\ a \in DOMAIN records' /\ ~records'[a].revoked
                 /\ records'[a].expires >= lease'[a] /\ records'[a].owner \in alive /\ leaf[a] \in Present
        <3>1. records[a].owner \in alive
            BY <1>1, <1>2, <1>3, <2>2 DEF Leased
        <3>2. lease'[a] = records'[a].expires /\ lease'[a] \in Nat
            BY <1>2, <1>3, <1>4, <3>1
        <3> QED BY <3>1, <3>2 DEF Present
    <2> QED BY <2>1, <2>2 DEF Leased
<1>11. Fit(records', leaf', op', source', active', lease', alive')
    BY <1>6, <1>7, <1>8, <1>9, <1>10 DEF Fit
<1>12. Fit(records, leaf, op, source, active, lease, alive)'
    BY <1>2, <1>4, <1>11, LaterClock
<1>13. Watching(records', watched', alive' \cup notices') /\ watched' \subseteq OwnersOf(records')
    BY <1>1, <1>5 DEF Watching, OwnersOf
<1>14. Framed' /\ Operating' /\ Answering' /\ Latching' /\ Listing'
    BY <1>1, <1>2, <1>3 DEF Framed, Operating, Remembered, Answering, Latching, Latched,
                            Listing, CatalogueIsOfDevice
<1> QED BY <1>12, <1>13, <1>14 DEF MediaInvariant

\* Claim
LEMMA ClaimKeeps ==
  ASSUME MediaInvariant, NEW a \in Artifacts, NEW later \in Later, Claim(a, later)
  PROVE  MediaInvariant'
<1>1. /\ op[a] = "succeeded" /\ a \in DOMAIN records /\ ~records[a].revoked /\ leaf[a] = "file"
      /\ records' = Claimed(records, a, later) /\ Tell(a, records'[a].expires) /\ now' = later
      /\ UNCHANGED <<leaf, op, order, source, active, alive, notices, watched, staged, started, stuck,
                     cleanup, posted, printer, lists, catalogue, deferred>>
    BY DEF Claim, Valid, Known, opVars, viewVars
<1>2. Formed(records) /\ later \in 0 .. MaxTime /\ op[a] \notin Pending
    BY <1>1, LaterIs DEF MediaInvariant, Fit, Pending
<1>3. /\ DOMAIN records' = DOMAIN records /\ \A b \in DOMAIN records \ {a} : records'[b] = records[b]
      /\ records'[a] \in Record /\ records'[a].expires <= MaxTime + Lease
      /\ records'[a].inUse = records[a].inUse /\ records'[a].owner = records[a].owner
      /\ ~records'[a].revoked
    <2>1. CASE records[a].claimed
        BY <1>1, <1>2, <2>1 DEF Claimed, Formed
    <2>2. CASE ~records[a].claimed
        <3>1. records' = [records EXCEPT ![a].claimed = TRUE, ![a].expires = later + Lease]
            BY <1>1, <2>2 DEF Claimed
        <3>2. /\ DOMAIN records' = DOMAIN records /\ \A b \in DOMAIN records \ {a} : records'[b] = records[b]
              /\ records'[a] = [records[a] EXCEPT !.claimed = TRUE, !.expires = later + Lease]
            BY <1>1, <3>1
        <3>3. records[a] \in Record /\ later + Lease \in 0 .. (MaxTime + Ttl + Lease)
              /\ later + Lease <= MaxTime + Lease
            BY <1>1, <1>2, DurationAssumption DEF Formed
        <3> QED BY <1>1, <3>2, <3>3 DEF Record
    <2> QED BY <2>1, <2>2
<1> QED BY <1>1, <1>2, <1>3, LeaseKeeps

\* Renew
LEMMA RenewKeeps ==
  ASSUME MediaInvariant, NEW a \in Artifacts, NEW later \in Later, Renew(a, later)
  PROVE  MediaInvariant'
<1>1. /\ a \in DOMAIN records /\ ~records[a].revoked /\ leaf[a] = "file" /\ records[a].claimed = TRUE
      /\ records' = Renewed(records, a, later) /\ Tell(a, records'[a].expires) /\ now' = later
      /\ UNCHANGED <<leaf, op, order, source, active, alive, notices, watched, staged, started, stuck,
                     cleanup, posted, printer, lists, catalogue, deferred>>
    BY DEF Renew, Valid, Known, opVars, viewVars
<1>2. Formed(records) /\ later \in 0 .. MaxTime /\ op[a] \notin Pending
    BY <1>1, LaterIs DEF MediaInvariant, Fit, Staging
<1>3. /\ DOMAIN records' = DOMAIN records /\ \A b \in DOMAIN records \ {a} : records'[b] = records[b]
      /\ records'[a] = [records[a] EXCEPT !.expires = later + Lease]
    BY <1>1 DEF Renewed
<1>4. records[a] \in Record /\ later + Lease \in 0 .. (MaxTime + Ttl + Lease)
      /\ later + Lease <= MaxTime + Lease
    BY <1>1, <1>2, DurationAssumption DEF Formed
<1>5. /\ records'[a] \in Record /\ records'[a].expires <= MaxTime + Lease
      /\ records'[a].inUse = records[a].inUse /\ records'[a].owner = records[a].owner
      /\ ~records'[a].revoked
    BY <1>1, <1>3, <1>4 DEF Record
<1> QED BY <1>1, <1>2, <1>3, <1>5, LeaseKeeps

\* releaseDeviceMediaArtifact: the lease ends before the copy goes.
LEMMA ReleaseKeeps ==
  ASSUME MediaInvariant, NEW a \in Artifacts, Release(a)
  PROVE  MediaInvariant'
<1>1. /\ a \in DOMAIN records /\ records[a].inUse = None /\ lease' = [lease EXCEPT ![a] = 0]
      /\ \E broken \in Breakable({a}) :
           /\ RemoveArtifacts(records, {a}, broken, watched, {records[a].owner})
           /\ Settle(op, order, source, records') \/ UNCHANGED <<op, order, source>>
      /\ UNCHANGED <<active, staged, alive, notices, now, started, stuck, cleanup, posted, printer, lists,
                     catalogue, deferred>>
    BY DEF Release, Known, viewVars, frameVars
<1>2. /\ Begun(records, op, source) /\ Staging(records, op, active, lease)
      /\ Holding(records, leaf, op, source) /\ Leased(records, leaf, lease, alive)
      /\ Accounted(records, leaf) /\ Explained(records, op, source) /\ Formed(records)
      /\ Framed /\ Operating /\ Answering /\ Latching /\ Listing
      /\ Watching(records, watched, alive \cup notices) /\ watched \subseteq OwnersOf(records)
    BY DEF MediaInvariant, Fit
<1>3. /\ now \in Nat /\ lease \in [Artifacts -> Nat] /\ watched \subseteq Owners
      /\ leaf \in [Artifacts \cup Old -> Leaves]
    BY <1>2, Numbers DEF Framed
<1>4. /\ lease' \in [Artifacts -> Nat] /\ lease' \in [Artifacts -> 0 .. MaxTime + Lease]
      /\ \A b \in Artifacts : lease'[b] = IF b = a THEN 0 ELSE lease[b]
    BY <1>1, <1>2, <1>3, DurationAssumption DEF Framed
<1>5. Fit(records, leaf, op, source, active, lease', alive)
    <2>1. Staging(records, op, active, lease')
        BY <1>2, <1>3, <1>4 DEF Staging
    <2>2. Leased(records, leaf, lease', alive)
        BY <1>2, <1>3, <1>4 DEF Leased
    <2> QED BY <1>2, <2>1, <2>2 DEF Fit
<1>6. PICK broken \in Breakable({a}) :
        /\ RemoveArtifacts(records, {a}, broken, watched, {records[a].owner})
        /\ Settle(op, order, source, records') \/ UNCHANGED <<op, order, source>>
    BY <1>1
<1>7. /\ records' = RemovedRecords(records, {a}, broken) /\ leaf' = RemovedLeaves(leaf, records, {a}, broken)
      /\ watched' = watched \ ({records[a].owner} \ OwnersOf(records'))
    BY <1>6 DEF RemoveArtifacts
<1>8. Fit(records', leaf', op, source, active, lease', alive)
    <2>1. Free(records, a, op) /\ lease'[a] <= now
        BY <1>1, <1>2, <1>3, <1>4, ExpiredIsFree
    <2> QED BY <1>3, <1>4, <1>5, <1>7, <2>1, RemovalKeeps
<1>9. leaf' \in [Artifacts \cup Old -> Leaves]
    BY <1>2, <1>3, <1>7, RemovalIs
<1>10. /\ Watching(records', watched', alive \cup notices)
       /\ watched' \subseteq Owners /\ watched' \subseteq OwnersOf(records')
    <2> DEFINE S == {a}
               cands == {records[a].owner}
               known == alive \cup notices
    <2>1. \A b \in S \cap DOMAIN records : records[b].owner \in cands
        OBVIOUS
    <2>2. watched \subseteq OwnersOf(records) \cup cands /\ Watching(records, watched, known)
        BY <1>2
    <2>3. /\ records' = RemovedRecords(records, S, broken)
          /\ watched' = watched \ (cands \ OwnersOf(records'))
        BY <1>7
    <2> HIDE DEF S, cands, known
    <2>4. /\ Watching(records', watched', known)
          /\ watched' \subseteq Owners /\ watched' \subseteq OwnersOf(records')
        BY <1>2, <1>3, <2>1, <2>2, <2>3, WatchKept
    <2> QED BY <2>4 DEF known
<1>11. /\ op \in Histories /\ order \subseteq Of(op) \X Of(op)
       /\ source \in [Uses -> Artifacts \cup {None}]
    BY <1>2 DEF Operating, Histories, Of, Remembered
<1>12. /\ op' \in Histories /\ order' \subseteq Of(op') \X Of(op') /\ source' = source
       /\ \A x \in Ops : op'[x] = op[x] \/ (op[x] \in Terminal /\ op'[x] = "forgotten")
       /\ Explained(records', op', source')
    <2>1. Explained(records', op, source)
        BY <1>8 DEF Fit
    <2>2. CASE Settle(op, order, source, records')
        BY <1>11, <2>1, <2>2, SettleKeeps
    <2>3. CASE UNCHANGED <<op, order, source>>
        BY <1>11, <2>1, <2>3
    <2> QED BY <1>6, <2>2, <2>3
<1>13. Fit(records', leaf', op', source', active, lease', alive)
    BY <1>8, <1>11, <1>12, ForgettingKeeps
<1>14. Fit(records, leaf, op, source, active, lease, alive)'
    BY <1>1, <1>13, SameClock
<1>15. Operating'
    BY <1>1, <1>2, <1>12 DEF Operating, Histories, Of, Remembered
<1>16. Answering'
    <2>1. \A x \in Artifacts : x \in Ops /\ (op[x] \in Pending => op[x] \notin Terminal)
        BY DEF Ops, Pending, Terminal
    <2> QED BY <1>1, <1>2, <1>12, <2>1 DEF Answering
<1>17. Framed' /\ Latching' /\ Listing'
    BY <1>1, <1>2, <1>4, <1>9, <1>10 DEF Framed, Latching, Latched, Listing, CatalogueIsOfDevice
<1> QED BY <1>1, <1>10, <1>14, <1>15, <1>16, <1>17 DEF MediaInvariant

-----------------------------------------------------------------------------
(* The sweep timer *)

\* Events that follow one another are events.
LEMMA PostsAre ==
  ASSUME Listing, NEW rest \in Seq(Posts(printer))
  PROVE  /\ rest \o AfterLatch \in Seq(Posts(printer)) /\ NoList \in Lists(printer)
         /\ \A c \in Cleanups : Append(rest, Posted("continue", NoList, c)) \in Seq(Posts(printer))
<1>1. NoList \in Lists(printer) /\ deferred \in Lists(printer)
    BY BoundsAssumption DEF NoList, Lists, Listing
<1>2. Posted("apply", deferred, None) \in Posts(printer) /\ Posted("sweep", NoList, None) \in Posts(printer)
    BY <1>1 DEF Posted, Posts
<1>3. AfterLatch \in Seq(Posts(printer))
    BY <1>2 DEF AfterLatch
<1>4. \A c \in Cleanups : Posted("continue", NoList, c) \in Posts(printer)
    BY <1>1 DEF Posted, Posts, Ops
<1> HIDE DEF Posts
<1>5. rest \o AfterLatch \in Seq(Posts(printer))
    BY <1>3
<1>6. \A c \in Cleanups : Append(rest, Posted("continue", NoList, c)) \in Seq(Posts(printer))
    BY <1>4
<1> QED BY <1>1, <1>5, <1>6

\* continueStartupCleanup: what no record names goes, or is known to stay, and no copy
\* that somebody has a right to.
LEMMA SweepWithKeeps ==
  ASSUME MediaInvariant, NEW rest \in Seq(Posts(printer)), SweepWith(rest),
         UNCHANGED <<op, order, source, active, staged, alive, notices, lease, cleanup, printer, lists,
                     catalogue, deferred, now>>
  PROVE  MediaInvariant'
<1> DEFINE stray == IF started THEN {} ELSE StrayLeaves(records) \ stuck
           expired == Expired(records)
           owners == {records[a].owner : a \in expired}
<1>1. PICK S \in SUBSET stray, lost \in Breakable(stray), broken \in Breakable(expired) :
        /\ lost \subseteq S
        /\ started' = (started \/ S = stray) /\ stuck' = stuck \cup lost
        /\ records' = RemovedRecords(records, expired, broken)
        /\ leaf' = [x \in DOMAIN leaf |-> IF x \in S \ lost THEN "none"
                                          ELSE RemovedLeaves(leaf, records, expired, broken)[x]]
        /\ watched' = watched \ (owners \ OwnersOf(records'))
        /\ posted' = rest
    BY DEF SweepWith
<1>2. /\ Fit(records, leaf, op, source, active, lease, alive) /\ Formed(records)
      /\ Framed /\ Operating /\ Answering /\ Latching /\ Listing
      /\ Watching(records, watched, alive \cup notices) /\ watched \subseteq OwnersOf(records)
    BY DEF MediaInvariant, Fit
<1>3. /\ now \in Nat /\ lease \in [Artifacts -> Nat] /\ watched \subseteq Owners
      /\ leaf \in [Artifacts \cup Old -> Leaves] /\ started \in BOOLEAN
    BY <1>2, Numbers DEF Framed
<1> DEFINE bare == RemovedLeaves(leaf, records, expired, broken)
<1>4. stray \subseteq {x \in DOMAIN leaf : leaf[x] # "none" /\ x \notin DOMAIN records}
      /\ (~started => \A x \in DOMAIN leaf : leaf[x] # "none" =>
                        x \in DOMAIN records \cup stuck \cup stray)
    BY DEF StrayLeaves
<1>5. \A a \in expired : a \in DOMAIN records /\ Free(records, a, op) /\ lease[a] <= now
    BY <1>2, <1>3, ExpiredIsFree DEF Fit
<1> HIDE DEF stray, expired
<1>6. Fit(records', bare, op, source, active, lease, alive)
    BY <1>1, <1>2, <1>3, <1>5, RemovalKeeps
<1>7. /\ bare \in [Artifacts \cup Old -> Leaves] /\ DOMAIN records' \subseteq DOMAIN records
      /\ \A x \in DOMAIN leaf : bare[x] # "none" =>
           leaf[x] # "none" /\ (x \in DOMAIN records => x \in DOMAIN records')
    BY <1>1, <1>2, <1>3, RemovalIs
<1>8. /\ Watching(records', watched', alive \cup notices)
      /\ watched' \subseteq Owners /\ watched' \subseteq OwnersOf(records')
    <2>1. \A a \in expired \cap DOMAIN records : records[a].owner \in owners
        OBVIOUS
    <2> DEFINE known == alive \cup notices
    <2>2. watched \subseteq OwnersOf(records) \cup owners /\ Watching(records, watched, known)
        BY <1>2
    <2> HIDE DEF owners, known
    <2>3. /\ Watching(records', watched', known)
          /\ watched' \subseteq Owners /\ watched' \subseteq OwnersOf(records')
        BY <1>1, <1>2, <1>3, <2>1, <2>2, WatchKept
    <2> QED BY <2>3 DEF known
<1> HIDE DEF bare, owners
<1>9. leaf' = [x \in DOMAIN leaf |-> IF x \in S \ lost THEN "none" ELSE bare[x]]
    BY <1>1 DEF bare
<1>10. /\ leaf' \in [Artifacts \cup Old -> Leaves]
       /\ \A x \in DOMAIN records' : leaf'[x] = bare[x]
    <2>1. DOMAIN records' \subseteq Artifacts /\ DOMAIN leaf = Artifacts \cup Old
        BY <1>3, <1>6 DEF Fit, Formed
    <2>2. \A x \in S : x \notin DOMAIN records'
        BY <1>4, <1>7
    <2>3. \A x \in DOMAIN leaf : leaf'[x] = IF x \in S \ lost THEN "none" ELSE bare[x]
        BY <1>9
    <2>4. \A x \in DOMAIN leaf : leaf'[x] \in Leaves
        BY <1>7, <2>1, <2>3 DEF Leaves
    <2> QED BY <1>9, <2>1, <2>2, <2>3, <2>4
<1>11. Holding(records', leaf', op, source) /\ Leased(records', leaf', lease, alive)
    BY <1>6, <1>10 DEF Fit, Holding, Leased
<1>12. started' => \A x \in DOMAIN leaf' : leaf'[x] # "none" => x \in DOMAIN records' \cup stuck'
    <2>1. ASSUME started', NEW x \in DOMAIN leaf', leaf'[x] # "none"
          PROVE  x \in DOMAIN records' \cup stuck'
        <3>1. x \in DOMAIN leaf /\ x \notin S \ lost /\ bare[x] # "none"
            BY <1>9, <2>1
        <3>2. leaf[x] # "none" /\ (x \in DOMAIN records => x \in DOMAIN records')
            BY <1>7, <3>1
        <3>3. CASE started
            BY <1>2, <1>1, <3>1, <3>2, <3>3 DEF Fit, Accounted
        <3>4. CASE ~started
            <4>1. S = stray
                BY <1>1, <2>1, <3>4
            <4> QED BY <1>1, <1>4, <3>1, <3>2, <3>4, <4>1
        <3> QED BY <3>3, <3>4
    <2> QED BY <2>1
<1>13. Fit(records, leaf, op, source, active, lease, alive)'
    <2>1. Formed(records') /\ Begun(records', op, source) /\ Staging(records', op, active, lease)
          /\ Explained(records', op, source)
        BY <1>6 DEF Fit
    <2> QED BY <1>11, <1>12, <2>1
            DEF Fit, Formed, Begun, Staging, Holding, Leased, Accounted, Explained
<1>14. started' \in BOOLEAN
    BY <1>1, <1>3
<1>15. Framed' /\ Operating' /\ Answering' /\ Latching' /\ Listing'
    BY <1>1, <1>2, <1>8, <1>10, <1>14
       DEF Framed, Operating, Remembered, Answering, Latching, Latched, Listing, CatalogueIsOfDevice
<1> QED BY <1>8, <1>13, <1>15 DEF MediaInvariant

\* Sweep, of the timer or of a posted event.
LEMMA SweepKeeps ==
  ASSUME MediaInvariant, NEW rest \in Seq(Posts(printer)), Sweep(rest)
  PROVE  MediaInvariant'
<1>1. UNCHANGED <<op, order, source, active, staged, alive, notices, lease, cleanup, printer, lists,
                  catalogue, deferred, now>>
    BY DEF Sweep, opVars, viewVars
<1>2. CASE SweepWith(rest)
    BY <1>1, <1>2, SweepWithKeeps
<1>3. CASE posted' = rest /\ UNCHANGED <<records, leaf, watched, started, stuck>>
    <2>1. Latching' /\ Listing'
        BY <1>1, <1>3 DEF MediaInvariant, Latching, Latched, Listing, CatalogueIsOfDevice
    <2> QED BY <1>1, <1>3, <2>1, ViewKeeps
<1> QED BY <1>2, <1>3 DEF Sweep, storeVars

-----------------------------------------------------------------------------
(* An operation that is refused *)

\* rejectOperation: what is over from the start explains nothing but itself.
LEMMA RejectKeeps ==
  ASSUME Operating, NEW x \in Ops, op[x] = "unused", NEW lv, NEW ls, NEW al, NEW src,
         Fit(records, lv, op, source, active, ls, al),
         src = source \/ (x \in Uses /\ \E b \in DOMAIN records : src = [source EXCEPT ![x] = b]),
         Reject(x, src)
  PROVE  /\ Fit(records, lv, op', source', active, ls, al)
         /\ active' = active => Operating'
         /\ \A y \in Ops : op[y] \in Pending => op'[y] = op[y]
<1> DEFINE over == [op EXCEPT ![x] = "ended"]
<1>1. /\ op \in Histories /\ order \subseteq Of(op) \X Of(op) /\ Remembered = Of(op)
      /\ source \in [Uses -> Artifacts \cup {None}] /\ active \in Ops \cup {None}
    BY DEF Operating, Histories, Of, Remembered
<1>2. /\ Begun(records, op, source) /\ Staging(records, op, active, ls)
      /\ Holding(records, lv, op, source) /\ Leased(records, lv, ls, al)
      /\ Accounted(records, lv) /\ Explained(records, op, source) /\ Formed(records)
    BY DEF Fit
<1>3. Artifacts \cup Uses \subseteq Ops /\ Artifacts \cap Uses = {} /\ None \notin Artifacts
    BY IdentitiesAssumption DEF Ops
<1>4. over \in Histories /\ \A y \in Ops : over[y] = IF y = x THEN "ended" ELSE op[y]
    BY <1>1 DEF Histories, Terminal
<1>5. src \in [Uses -> Artifacts \cup {None}] /\ \A u \in Uses : u = x \/ src[u] = source[u]
    BY <1>1, <1>2 DEF Formed
<1>6. src[x] \in DOMAIN records \/ ~(x \in Uses) \/ src = source
    BY <1>1
<1> HIDE DEF over
<1>7. "ended" \notin Pending /\ "ended" \in Terminal /\ "unused" \notin Pending \cup Terminal
    BY DEF Pending, Terminal
<1>8. Begun(records, over, src)
    <2>1. \A a \in DOMAIN records : over[a] # "unused"
        BY <1>2, <1>3, <1>4 DEF Begun, Formed
    <2>2. ASSUME NEW u \in Uses, src[u] # None PROVE over[src[u]] # "unused" /\ over[u] # "unused"
        <3>1. src[u] \in Ops /\ u \in Ops
            BY <1>3, <1>5, <2>2
        <3>2. CASE u = x /\ src # source
            BY <1>6, <2>1, <1>4, <3>1, <3>2
        <3>3. CASE src[u] = source[u]
            <4>1. op[src[u]] # "unused" /\ op[u] # "unused"
                BY <1>2, <2>2, <3>3 DEF Begun
            <4> QED BY <1>4, <3>1, <4>1
        <3> QED BY <1>5, <3>2, <3>3
    <2> QED BY <2>1, <2>2 DEF Begun
<1>9. Staging(records, over, active, ls)
    BY <1>2, <1>3, <1>4, <1>7 DEF Staging
<1>10. Holding(records, lv, over, src)
    BY <1>2, <1>3, <1>4, <1>5, <1>7 DEF Holding
<1>11. Explained(records, over, src)
    <2>1. ASSUME NEW y \in Ops, ArtifactOf(y, src) \in DOMAIN records PROVE over[y] # "forgotten"
        <3>1. CASE y = x
            BY <1>4, <3>1
        <3>2. CASE y # x
            <4>1. ArtifactOf(y, source) \in DOMAIN records
                BY <1>5, <2>1, <3>2 DEF ArtifactOf
            <4> QED BY <1>2, <1>4, <3>2, <4>1 DEF Explained
        <3> QED BY <3>1, <3>2
    <2> QED BY <2>1 DEF Explained
<1>12. Fit(records, lv, over, src, active, ls, al)
    BY <1>2, <1>8, <1>9, <1>10, <1>11 DEF Fit
<1>13. Appended(x) \subseteq Of(over) \X Of(over)
    <2>1. Of(op) \subseteq Of(over) /\ x \in Of(over)
        BY <1>4, <1>7 DEF Of
    <2> QED BY <1>1, <2>1 DEF Appended
<1>14. Settle(over, Appended(x), src, records)
    BY DEF Reject, over
<1>15. /\ op' \in Histories /\ order' \subseteq Of(op') \X Of(op') /\ source' = src
       /\ \A y \in Ops : op'[y] = over[y] \/ (over[y] \in Terminal /\ op'[y] = "forgotten")
       /\ Explained(records, op', source')
    BY <1>4, <1>5, <1>11, <1>13, <1>14, SettleKeeps
<1>16. Fit(records, lv, op', source', active, ls, al)
    BY <1>4, <1>5, <1>12, <1>15, ForgettingKeeps
<1>17. active' = active => Operating'
    BY <1>1, <1>5, <1>15 DEF Operating, Histories, Of, Remembered
<1>18. ASSUME NEW y \in Ops, op[y] \in Pending PROVE op'[y] = op[y]
    <2>1. y # x /\ over[y] = op[y] /\ over[y] \notin Terminal
        BY <1>4, <1>7, <1>18 DEF Pending, Terminal
    <2> QED BY <1>15, <2>1
<1> QED BY <1>16, <1>17, <1>18

-----------------------------------------------------------------------------
(* The clean-up of temporary files *)

\* QueueCleanup: refused, refused with the latch given back at once, or started.
LEMMA QueueCleanupKeeps ==
  ASSUME MediaInvariant, NEW c \in Cleanups, QueueCleanup(c)
  PROVE  MediaInvariant'
<1>1. /\ op[c] = "unused"
      /\ UNCHANGED <<records, leaf, staged, alive, notices, watched, lease, printer, lists, catalogue,
                     now, started, stuck>>
      /\ \/ Reject(c, source) /\ UNCHANGED <<active, cleanup, posted, deferred>>
         \/ /\ ~CleanupRefused /\ Reject(c, source) /\ UNCHANGED active
            /\ cleanup' = NoCleanup /\ deferred' = NoList /\ posted' = posted \o AfterLatch
         \/ /\ ~CleanupRefused /\ op' = [op EXCEPT ![c] = "running"] /\ order' = Appended(c)
            /\ active' = c /\ UNCHANGED <<source, deferred>> /\ cleanup'.id = c
            /\ posted' = Append(posted, Posted("continue", NoList, c))
    BY DEF QueueCleanup, Unlatch, storeVars, busVars, frameVars
<1>2. /\ Fit(records, leaf, op, source, active, lease, alive)
      /\ Framed /\ Operating /\ Answering /\ Latching /\ Listing /\ posted \in Seq(Posts(printer))
      /\ Watching(records, watched, alive \cup notices) /\ watched \subseteq OwnersOf(records)
    BY DEF MediaInvariant, Listing
<1>3. c \in Ops /\ Artifacts \cup Uses \subseteq Ops /\ \A x \in Artifacts \cup Uses : x # c
    BY IdentitiesAssumption DEF Ops
<1>4. /\ posted \o AfterLatch \in Seq(Posts(printer)) /\ NoList \in Lists(printer)
      /\ Append(posted, Posted("continue", NoList, c)) \in Seq(Posts(printer))
    BY <1>2, PostsAre
<1>5. CASE Reject(c, source) /\ active' = active
    <2>1. /\ Fit(records, leaf, op', source', active, lease, alive) /\ Operating'
          /\ \A y \in Ops : op[y] \in Pending => op'[y] = op[y]
        BY <1>1, <1>2, <1>3, <1>5, RejectKeeps
    <2>2. Fit(records, leaf, op, source, active, lease, alive)'
        BY <1>1, <1>5, <2>1, SameClock
    <2>3. Answering'
        BY <1>1, <1>2, <1>3, <2>1 DEF Answering
    <2>4. posted' \in Seq(Posts(printer)) /\ deferred' \in Lists(printer) /\ cleanup' \in {cleanup, NoCleanup}
        <3>1. \/ UNCHANGED <<cleanup, posted, deferred>>
              \/ cleanup' = NoCleanup /\ deferred' = NoList /\ posted' = posted \o AfterLatch
              \/ cleanup'.id = c /\ op' = [op EXCEPT ![c] = "running"] /\ active' = c /\ active = None
            BY <1>1 DEF CleanupRefused
        <3>2. None # c
            BY IdentitiesAssumption
        <3> HIDE DEF Posts
        <3> QED BY <1>2, <1>4, <1>5, <3>1, <3>2 DEF Listing
    <2>5. Listing'
        BY <1>1, <1>2, <2>4 DEF Listing, CatalogueIsOfDevice
    <2>6. Latching'
        BY <1>2, <1>5, <2>4 DEF Latching, Latched, NoCleanup
    <2>7. Framed' /\ Watching(records', watched', alive' \cup notices') /\ watched' \subseteq OwnersOf(records')
        BY <1>1, <1>2 DEF Framed
    <2> QED BY <2>1, <2>2, <2>3, <2>5, <2>6, <2>7 DEF MediaInvariant
<1>6. CASE /\ ~CleanupRefused /\ op' = [op EXCEPT ![c] = "running"] /\ order' = Appended(c)
           /\ active' = c /\ UNCHANGED <<source, deferred>> /\ cleanup'.id = c
           /\ posted' = Append(posted, Posted("continue", NoList, c))
    <2>1. /\ op \in Histories /\ order \subseteq Of(op) \X Of(op) /\ Remembered = Of(op)
          /\ source \in [Uses -> Artifacts \cup {None}]
        BY <1>2 DEF Operating, Histories, Of, Remembered
    <2>2. \A x \in Ops : op'[x] = IF x = c THEN "running" ELSE op[x]
        BY <1>6, <2>1 DEF Histories
    <2>3. \A x \in Ops : op[x] \notin Pending
        BY <1>6 DEF CleanupRefused
    <2>4. \A x \in Artifacts \cup Uses : op'[x] = op[x]
        BY <1>3, <2>2
    <2>5. Begun(records, op', source) /\ Holding(records, leaf, op', source)
        BY <1>2, <2>1, <2>4 DEF Fit, Formed, Begun, Holding
    <2>6. Staging(records, op', c, lease)
        BY <1>3, <2>3, <2>4 DEF Staging
    <2>7. Explained(records, op', source)
        BY <1>2, <2>2 DEF Fit, Explained
    <2>8. Fit(records, leaf, op, source, active, lease, alive)'
        BY <1>1, <1>2, <1>6, <2>5, <2>6, <2>7, SameClock DEF Fit
    <2>9. Operating'
        <3>1. op' \in Histories /\ Of(op) \subseteq Of(op') /\ c \in Of(op')
            BY <1>3, <1>6, <2>1, <2>2 DEF Histories, Pending, Of
        <3>2. order' \subseteq Of(op') \X Of(op')
            BY <1>6, <2>1, <3>1 DEF Appended
        <3> QED BY <1>3, <1>6, <2>1, <3>1, <3>2 DEF Operating, Histories, Of, Remembered
    <2>10. Answering'
        BY <1>1, <1>2, <2>4 DEF Answering
    <2>11. Listing'
        <3> HIDE DEF Posts
        <3> QED BY <1>1, <1>2, <1>4, <1>6 DEF Listing, CatalogueIsOfDevice
    <2>12. Latching'
        BY <1>6 DEF Latching, Latched
    <2>13. Framed' /\ Watching(records', watched', alive' \cup notices') /\ watched' \subseteq OwnersOf(records')
        BY <1>1, <1>2 DEF Framed
    <2> QED BY <2>8, <2>9, <2>10, <2>11, <2>12, <2>13 DEF MediaInvariant
<1> QED BY <1>1, <1>5, <1>6

\* finishCacheCleanup: the latch is given back, and what had been put aside is posted.
LEMMA FinishCleanupKeeps ==
  ASSUME MediaInvariant, Latched, NEW rest \in Seq(Posts(printer)), FinishCleanup(records, rest),
         Fit(records, leaf', op, source, active, lease, alive),
         leaf' \in [Artifacts \cup Old -> Leaves],
         UNCHANGED <<records, watched, staged, alive, notices, lease, printer, lists, catalogue,
                     now, started, stuck>>
  PROVE  MediaInvariant'
<1> DEFINE c == cleanup.id
           over == [op EXCEPT ![c] = "ended"]
<1>1. /\ Settle(over, order, source, records) /\ active' = None
      /\ cleanup' = NoCleanup /\ deferred' = NoList /\ posted' = rest \o AfterLatch
    BY DEF FinishCleanup
<1>2. /\ Framed /\ Operating /\ Answering /\ Latching /\ Listing
      /\ Watching(records, watched, alive \cup notices) /\ watched \subseteq OwnersOf(records)
    BY DEF MediaInvariant
<1>3. /\ op \in Histories /\ order \subseteq Of(op) \X Of(op)
      /\ source \in [Uses -> Artifacts \cup {None}]
    BY <1>2 DEF Operating, Histories, Of, Remembered
<1>4. c \in Cleanups /\ active = c
    BY <1>2 DEF Latching
<1>5. c \in Ops /\ Artifacts \subseteq Ops /\ \A a \in Artifacts : a # c
    BY <1>4, IdentitiesAssumption DEF Ops
<1>6. over \in Histories /\ \A x \in Ops : over[x] = IF x = c THEN "ended" ELSE op[x]
    BY <1>3, <1>5 DEF Histories, Terminal
<1> HIDE DEF over, c
<1>7. "ended" \notin Pending /\ "ended" \in Terminal
    BY DEF Pending, Terminal
<1>8. \A a \in Artifacts : op[a] \notin Pending
    BY <1>4, <1>5 DEF Fit, Staging
<1>9. Explained(records, over, source)
    BY <1>6 DEF Fit, Explained
<1>10. Fit(records, leaf', over, source, None, lease, alive)
    <2>1. \A x \in Ops : /\ over[x] = "unused" => op[x] = "unused"
                         /\ over[x] \in Pending => op[x] \in Pending
        BY <1>6, <1>7
    <2>2. \A a \in Artifacts : over[a] \in Pending => over[a] # "paused" /\ None = a
        BY <1>5, <1>8, <2>1
    <2> QED BY <1>3, <1>9, <2>1, <2>2, RestateKeeps
<1>11. order \subseteq Of(over) \X Of(over)
    <2>1. Of(op) \subseteq Of(over)
        BY <1>6, <1>7 DEF Of
    <2> QED BY <1>3, <2>1
<1>12. /\ op' \in Histories /\ order' \subseteq Of(op') \X Of(op') /\ source' = source
       /\ \A x \in Ops : op'[x] = over[x] \/ (over[x] \in Terminal /\ op'[x] = "forgotten")
       /\ Explained(records, op', source')
    BY <1>1, <1>3, <1>6, <1>9, <1>11, SettleKeeps
<1>13. Fit(records, leaf', op', source', None, lease, alive)
    BY <1>3, <1>6, <1>10, <1>12, ForgettingKeeps
<1>14. Fit(records, leaf, op, source, active, lease, alive)'
    BY <1>1, <1>13, SameClock
<1>15. Operating'
    BY <1>1, <1>3, <1>12 DEF Operating, Histories, Of, Remembered
<1>16. Answering'
    BY <1>2, <1>8 DEF Answering
<1>17. Listing'
    <2>1. rest \o AfterLatch \in Seq(Posts(printer)) /\ NoList \in Lists(printer)
        BY <1>2, PostsAre
    <2> HIDE DEF Posts
    <2> QED BY <1>1, <1>2, <2>1 DEF Listing, CatalogueIsOfDevice
<1>18. Latching'
    BY <1>1 DEF Latching, Latched, NoCleanup
<1>19. Framed' /\ Watching(records', watched', alive' \cup notices') /\ watched' \subseteq OwnersOf(records')
    BY <1>2 DEF Framed
<1> QED BY <1>14, <1>15, <1>16, <1>17, <1>18, <1>19 DEF MediaInvariant

\* CancelCleanup
LEMMA CancelCleanupKeeps ==
  ASSUME MediaInvariant, CancelCleanup
  PROVE  MediaInvariant'
<1>1. /\ Latched /\ FinishCleanup(records, posted)
      /\ UNCHANGED <<records, leaf, watched, staged, alive, notices, lease, printer, lists, catalogue,
                     now, started, stuck>>
    BY DEF CancelCleanup, storeVars, frameVars
<1>2. /\ posted \in Seq(Posts(printer)) /\ Fit(records, leaf', op, source, active, lease, alive)
      /\ leaf' \in [Artifacts \cup Old -> Leaves]
    BY <1>1 DEF MediaInvariant, Listing, Framed
<1> QED BY <1>1, <1>2, FinishCleanupKeeps

\* Again: the next batch is another event.
LEMMA AgainKeeps ==
  ASSUME MediaInvariant, Latched, NEW rest \in Seq(Posts(printer)), Again(rest), cleanup'.id = cleanup.id,
         UNCHANGED <<printer, lists, catalogue>>
  PROVE  Latching' /\ Listing' /\ UNCHANGED <<op, order, source, active>>
<1>1. /\ posted' = Append(rest, Posted("continue", NoList, cleanup.id))
      /\ UNCHANGED <<op, order, source, active, deferred>>
    BY DEF Again
<1>2. Latching /\ Listing /\ cleanup.id \in Cleanups
    BY DEF MediaInvariant, Latching
<1>3. posted' \in Seq(Posts(printer))
    BY <1>1, <1>2, PostsAre
<1>4. Listing'
    <2> HIDE DEF Posts
    <2> QED BY <1>1, <1>2, <1>3 DEF Listing, CatalogueIsOfDevice
<1> QED BY <1>1, <1>2, <1>4 DEF Latching, Latched

\* continueCacheCleanup: the candidate that is taken is one that nobody has a right to.
LEMMA ContinueKeeps ==
  ASSUME MediaInvariant, NEW id \in Cleanups, NEW rest \in Seq(Posts(printer)), Continue(id, rest)
  PROVE  MediaInvariant'
<1>1. UNCHANGED <<staged, alive, notices, lease, printer, lists, catalogue, now, started, stuck>>
    BY DEF Continue, frameVars
<1>2. /\ Fit(records, leaf, op, source, active, lease, alive) /\ Formed(records)
      /\ Framed /\ Operating /\ Answering /\ Latching /\ Listing
      /\ Watching(records, watched, alive \cup notices) /\ watched \subseteq OwnersOf(records)
      /\ leaf \in [Artifacts \cup Old -> Leaves] /\ watched \subseteq Owners
    BY DEF MediaInvariant, Fit, Framed
<1>3. now \in Nat /\ lease \in [Artifacts -> Nat]
    BY <1>2, Numbers
<1>4. CASE cleanup.id # id
    <2>1. /\ posted' = rest
          /\ UNCHANGED <<records, leaf, watched, op, order, source, active, cleanup, deferred>>
        BY <1>4 DEF Continue, storeVars, opVars
    <2>2. Latching' /\ Listing'
        BY <1>1, <1>2, <2>1 DEF Latching, Latched, Listing, CatalogueIsOfDevice
    <2> QED BY <1>1, <2>1, <2>2, ViewKeeps
<1>5. CASE cleanup.id = id
    <2>1. Latched
        BY <1>5, IdentitiesAssumption DEF Latched
    <2>2. CASE FinishCleanup(records, rest) /\ UNCHANGED <<records, leaf, watched>>
        BY <1>1, <1>2, <2>1, <2>2, FinishCleanupKeeps
    <2>3. CASE /\ cleanup' = [cleanup EXCEPT !.thumbs = 0] /\ Again(rest)
               /\ UNCHANGED <<records, leaf, watched>>
        <3>1. Latching' /\ Listing' /\ UNCHANGED <<op, order, source, active>>
            BY <1>1, <2>1, <2>3, AgainKeeps
        <3> QED BY <1>1, <2>3, <3>1, ViewKeeps
    <2>4. ASSUME NEW a \in DOMAIN cleanup.plan \ cleanup.finished,
                 PlanStillValid(records, cleanup.plan, cleanup.finished),
                 CandidateUnchanged(records, cleanup.plan, a),
                 \/ /\ FinishCleanup(records, rest) /\ leaf' \in {leaf, [leaf EXCEPT ![a] = "none"]}
                    /\ UNCHANGED <<records, watched>>
                 \/ /\ records' = [b \in Known \ {a} |-> records[b]]
                    /\ leaf' = [leaf EXCEPT ![a] = "none"]
                    /\ watched' = watched \ ({records[a].owner} \ OwnersOf(records'))
                    /\ cleanup' = [cleanup EXCEPT !.finished = @ \cup {a}]
                    /\ Again(rest)
          PROVE  MediaInvariant'
        <3>1. /\ a \in DOMAIN records /\ records[a].inUse = None
              /\ records[a].revoked \/ records[a].expires <= now
            BY <2>4 DEF PlanStillValid
        <3>2. ~(records[a].ready /\ leaf[a] = "foreign")
            BY <2>4 DEF CandidateUnchanged, Tampered
        <3>3. a \in Expired(records) /\ a \in Artifacts
            BY <1>2, <3>1 DEF Expired, Formed
        <3>4. Free(records, a, op) /\ lease[a] <= now
            BY <1>2, <1>3, <3>1, <3>3, ExpiredIsFree DEF Fit
        <3>5. CASE /\ FinishCleanup(records, rest) /\ leaf' \in {leaf, [leaf EXCEPT ![a] = "none"]}
                   /\ UNCHANGED <<records, watched>>
            <4>1. /\ leaf' \in [Artifacts \cup Old -> Leaves] /\ DOMAIN leaf' = DOMAIN leaf
                  /\ \A x \in DOMAIN leaf : leaf'[x] # "none" => leaf[x] # "none"
                  /\ \A x \in Artifacts \cup Old : x # a => leaf'[x] = leaf[x]
                BY <1>2, <3>5 DEF Leaves
            <4>2. Holding(records, leaf', op, source)
                <5>1. \A u \in Uses : op[u] \in Pending => source[u] # a
                    BY <1>2, <3>1, IdentitiesAssumption DEF Fit, Holding
                <5> QED BY <1>2, <4>1, <5>1 DEF Fit, Formed, Holding
            <4>3. Leased(records, leaf', lease, alive)
                <5>1. \A b \in Artifacts : lease[b] > now => b # a
                    BY <1>3, <3>4
                <5> QED BY <1>2, <4>1, <5>1 DEF Fit, Leased
            <4>4. Accounted(records, leaf')
                BY <1>2, <4>1 DEF Fit, Accounted
            <4>5. Fit(records, leaf', op, source, active, lease, alive)
                BY <1>2, <4>2, <4>3, <4>4 DEF Fit
            <4> QED BY <1>1, <2>1, <3>5, <4>1, <4>5, FinishCleanupKeeps
        <3>6. CASE /\ records' = [b \in Known \ {a} |-> records[b]]
                   /\ leaf' = [leaf EXCEPT ![a] = "none"]
                   /\ watched' = watched \ ({records[a].owner} \ OwnersOf(records'))
                   /\ cleanup' = [cleanup EXCEPT !.finished = @ \cup {a}]
                   /\ Again(rest)
            <4>1. Gone(records, {a}, {}) = {a}
                BY <3>1, <3>2 DEF Gone, Removable
            <4>2. records' = RemovedRecords(records, {a}, {})
                BY <3>6, <4>1 DEF RemovedRecords, Known
            <4>3. leaf' = RemovedLeaves(leaf, records, {a}, {})
                BY <1>2, <3>6, <4>1 DEF RemovedLeaves
            <4>4. Fit(records', leaf', op, source, active, lease, alive)
                BY <1>2, <1>3, <3>4, <4>2, <4>3, RemovalKeeps
            <4>5. leaf' \in [Artifacts \cup Old -> Leaves]
                BY <1>2, <4>3, RemovalIs
            <4>6. /\ Watching(records', watched', alive \cup notices)
                  /\ watched' \subseteq Owners /\ watched' \subseteq OwnersOf(records')
                <5> DEFINE S == {a}
                           broken == {}
                           cands == {records[a].owner}
                           known == alive \cup notices
                <5>1. \A b \in S \cap DOMAIN records : records[b].owner \in cands
                    OBVIOUS
                <5>2. watched \subseteq OwnersOf(records) \cup cands /\ Watching(records, watched, known)
                    BY <1>2
                <5>3. /\ records' = RemovedRecords(records, S, broken)
                      /\ watched' = watched \ (cands \ OwnersOf(records'))
                    BY <3>6, <4>2
                <5> HIDE DEF S, broken, cands, known
                <5>4. /\ Watching(records', watched', known)
                      /\ watched' \subseteq Owners /\ watched' \subseteq OwnersOf(records')
                    BY <1>2, <5>1, <5>2, <5>3, WatchKept
                <5> QED BY <5>4 DEF known
            <4>7. Latching' /\ Listing' /\ UNCHANGED <<op, order, source, active>>
                BY <1>1, <2>1, <3>6, AgainKeeps
            <4>8. Fit(records, leaf, op, source, active, lease, alive)'
                BY <1>1, <4>4, <4>7, SameClock
            <4>9. Framed' /\ Operating' /\ Answering'
                BY <1>1, <1>2, <4>5, <4>6, <4>7 DEF Framed, Operating, Remembered, Answering
            <4> QED BY <1>1, <4>6, <4>7, <4>8, <4>9 DEF MediaInvariant
        <3> QED BY <2>4, <3>5, <3>6
    <2>5. CASE cleanup.thumbs > 0
        <3>1. /\ UNCHANGED <<records, leaf, watched>>
              /\ \/ cleanup' = [cleanup EXCEPT !.thumbs = 0] /\ Again(rest)
                 \/ FinishCleanup(records, rest)
            BY <1>5, <2>5 DEF Continue, storeVars
        <3> QED BY <2>2, <2>3, <3>1
    <2>6. CASE ~(cleanup.thumbs > 0)
        <3>1. CASE FinishCleanup(records, rest) /\ UNCHANGED <<storeVars, watched, faults>>
            BY <2>2, <3>1 DEF storeVars
        <3>2. CASE /\ PlanStillValid(records, cleanup.plan, cleanup.finished)
                   /\ \E a \in DOMAIN cleanup.plan \ cleanup.finished : \E broken \in Breakable({a}) :
                        IF ~CandidateUnchanged(records, cleanup.plan, a)
                        THEN FinishCleanup(records, rest) /\ UNCHANGED <<records, leaf, watched>>
                        ELSE \/ /\ FinishCleanup(records, rest)
                                /\ leaf' \in {leaf, [leaf EXCEPT ![a] = "none"]}
                                /\ UNCHANGED <<records, watched>>
                             \/ /\ records' = [b \in Known \ {a} |-> records[b]]
                                /\ leaf' = [leaf EXCEPT ![a] = "none"]
                                /\ watched' = watched \ ({records[a].owner} \ OwnersOf(records'))
                                /\ cleanup' = [cleanup EXCEPT !.finished = @ \cup {a}]
                                /\ Again(rest)
            BY <2>2, <2>4, <3>2
        <3> QED BY <1>5, <2>6, <3>1, <3>2 DEF Continue, storeVars
    <2> QED BY <2>5, <2>6
<1> QED BY <1>4, <1>5

-----------------------------------------------------------------------------
(* The catalogue *)

\* AskList, ReadList
LEMMA ListKeeps ==
  ASSUME MediaInvariant, AskList \/ ReadList
  PROVE  MediaInvariant'
<1>1. UNCHANGED <<records, leaf, op, order, source, active, alive, notices, watched, lease, staged, now,
                  started, stuck, cleanup, printer, catalogue, deferred>>
    BY DEF AskList, ReadList, storeVars, opVars, busVars, frameVars
<1>2. Latching' /\ Listing
    BY <1>1 DEF MediaInvariant, Latching, Latched
<1>3. lists' \in [asked : Nat, read : Nat] /\ lists'.asked + lists'.read <= MaxLists /\ posted' \in Seq(Posts(printer))
    <2>1. CASE AskList
        <3>1. /\ lists.asked + lists.read < MaxLists /\ lists' = [lists EXCEPT !.asked = @ + 1]
              /\ posted' = posted
            BY <2>1 DEF AskList
        <3>2. /\ lists \in [asked : Nat, read : Nat] /\ lists.asked + lists.read <= MaxLists
              /\ posted \in Seq(Posts(printer))
            BY <1>2 DEF Listing
        <3>3. lists' \in [asked : Nat, read : Nat]
              /\ lists'.asked = lists.asked + 1 /\ lists'.read = lists.read
            BY <3>1, <3>2
        <3> HIDE DEF Posts
        <3>4. lists'.asked + lists'.read <= MaxLists
            BY <3>1, <3>2, <3>3, BoundsAssumption
        <3> QED BY <3>1, <3>2, <3>3, <3>4
    <2>2. CASE ReadList
        <3> DEFINE list == [gen |-> printer.generation, seq |-> lists.read + 1,
                            from |-> printer.device]
        <3>1. /\ lists.asked > 0
              /\ lists' = [asked |-> lists.asked - 1, read |-> lists.read + 1]
              /\ posted' = Append(posted, Posted("list", list, None))
            BY <2>2 DEF ReadList
        <3>2. /\ lists.asked \in Nat /\ lists.read \in Nat /\ lists.asked + lists.read <= MaxLists
              /\ printer.generation \in Nat /\ printer.device \in Devices \cup {None}
            BY <1>2 DEF Listing, Printers
        <3>3. list \in Lists(printer)
            BY <3>1, <3>2, BoundsAssumption DEF Lists
        <3> HIDE DEF list
        <3>4. Posted("list", list, None) \in Posts(printer)
            BY <3>3 DEF Posted, Posts
        <3>5. posted \in Seq(Posts(printer))
            BY <1>2 DEF Listing
        <3>6. posted' \in Seq(Posts(printer))
            <4> HIDE DEF Posts
            <4> QED BY <3>1, <3>4, <3>5
        <3> QED BY <3>1, <3>2, <3>6, BoundsAssumption
    <2> QED BY <2>1, <2>2
<1>4. Listing'
    BY <1>1, <1>2, <1>3 DEF Listing, CatalogueIsOfDevice
<1> QED BY <1>1, <1>2, <1>4, ViewKeeps

\* NewGeneration, Detach: what was read before is of an earlier generation, or the view
\* is emptied.
LEMMA PrinterKeeps ==
  ASSUME Listing, printer' \in Printers, printer.generation <= printer'.generation,
         \/ printer'.generation # printer.generation \/ printer'.device = None,
         \/ /\ catalogue' = catalogue
            /\ printer'.device = printer.device /\ printer'.since = printer.since
         \/ catalogue' = NoList,
         lists' = [lists EXCEPT !.asked = 0], deferred' = deferred, posted' = posted
  PROVE  Listing'
<1>1. lists' \in [asked : Nat, read : Nat] /\ lists'.asked + lists'.read <= MaxLists
    BY BoundsAssumption DEF Listing
<1>2. Lists(printer) \subseteq Lists(printer')
    BY DEF Listing, Lists, Printers
<1>3. Posts(printer) \subseteq Posts(printer')
    BY <1>2 DEF Posts
<1>4. posted' \in Seq(Posts(printer'))
    <2>1. posted \in Seq(Posts(printer))
        BY DEF Listing
    <2> QED BY <1>3, <2>1
<1>5. NoList \in Lists(printer')
    BY BoundsAssumption DEF NoList, Lists
<1>6. catalogue' \in Lists(printer') /\ deferred' \in Lists(printer')
    BY <1>2, <1>5 DEF Listing
<1>7. CatalogueIsOfDevice'
    <2>1. CASE catalogue' = NoList
        BY <2>1 DEF CatalogueIsOfDevice
    <2>2. CASE /\ catalogue' = catalogue
               /\ printer'.device = printer.device /\ printer'.since = printer.since
        <3>1. CatalogueIsOfDevice /\ catalogue.gen \in Nat /\ printer \in Printers
            BY DEF Listing, Lists
        <3> QED BY <2>2, <3>1 DEF CatalogueIsOfDevice, Printers, NoList
    <2> QED BY <2>1, <2>2
<1> QED BY <1>1, <1>4, <1>6, <1>7 DEF Listing

\* NewGeneration
LEMMA NewGenerationKeeps ==
  ASSUME MediaInvariant, NEW next \in Devices \cup {None}, NEW kept \in BOOLEAN, NEW open \in BOOLEAN,
         NewGeneration(next, kept, open)
  PROVE  MediaInvariant'
<1>1. /\ printer' = [generation |-> printer.generation + 1, device |-> next, open |-> open,
                     since |-> IF kept THEN printer.since ELSE printer.generation + 1]
      /\ catalogue' = IF kept THEN catalogue ELSE NoList
      /\ kept => next = printer.device
      /\ lists' = [lists EXCEPT !.asked = 0]
      /\ UNCHANGED <<deferred, staged, alive, notices, lease, cleanup, posted, now, started, stuck>>
      /\ \/ active \in Uses /\ Finish(active, "ended", records, {})
         \/ UNCHANGED <<records, leaf, op, order, source, active, watched>>
    BY DEF NewGeneration, frameVars, storeVars, opVars
<1>2. Listing /\ Latching /\ printer \in Printers
    BY DEF MediaInvariant, Listing
<1>3. /\ printer' \in Printers
      /\ printer.generation <= printer'.generation /\ printer'.generation # printer.generation
    BY <1>1, <1>2 DEF Printers
<1>4. Listing'
    BY <1>1, <1>2, <1>3, PrinterKeeps
<1>5. CASE active \in Uses /\ Finish(active, "ended", records, {})
    BY <1>1, <1>4, <1>5, EndingKeeps
<1>6. CASE UNCHANGED <<records, leaf, op, order, source, active, watched>>
    <2>1. Latching'
        BY <1>1, <1>2, <1>6 DEF Latching, Latched
    <2> QED BY <1>1, <1>4, <1>6, <2>1, ViewKeeps
<1> QED BY <1>1, <1>5, <1>6

\* Detach
LEMMA DetachKeeps ==
  ASSUME MediaInvariant, Detach
  PROVE  MediaInvariant'
<1>1. /\ printer' = [printer EXCEPT !.device = None]
      /\ catalogue' = NoList /\ lists' = [lists EXCEPT !.asked = 0]
      /\ UNCHANGED <<deferred, staged, alive, notices, lease, cleanup, posted, now, started, stuck,
                     records, leaf, op, order, source, active, watched>>
    BY DEF Detach, frameVars, storeVars, opVars
<1>2. Listing /\ Latching /\ printer \in Printers
    BY DEF MediaInvariant, Listing
<1>3. /\ printer' \in Printers /\ printer'.device = None
      /\ printer.generation <= printer'.generation
    BY <1>1, <1>2 DEF Printers
<1>4. Listing'
    BY <1>1, <1>2, <1>3, PrinterKeeps
<1>5. Latching'
    BY <1>1, <1>2 DEF Latching, Latched
<1> QED BY <1>1, <1>4, <1>5, ViewKeeps

\* TakeList: a list of another generation is not taken, neither now nor later.
LEMMA TakeListKeeps ==
  ASSUME MediaInvariant, NEW list \in Lists(printer), NEW rest \in Seq(Posts(printer)),
         NEW known \in BOOLEAN, known => printer.device # None \/ list.from = printer.device,
         TakeList(list, known, rest)
  PROVE  MediaInvariant'
<1>1. /\ posted' = rest
      /\ \/ list.gen = printer.generation /\ known /\ UpdateCatalogue(list)
         \/ UNCHANGED <<catalogue, deferred>>
      /\ UNCHANGED <<records, leaf, op, order, source, active, alive, notices, watched, lease, staged, now,
                     started, stuck, cleanup, printer, lists>>
    BY DEF TakeList, storeVars, opVars, busVars, frameVars
<1>2. Latching' /\ Listing /\ printer \in Printers
    BY <1>1 DEF MediaInvariant, Latching, Latched, Listing
<1>3. CASE catalogue' = catalogue
    <2>1. deferred' = deferred \/ deferred' = list
        BY <1>1 DEF UpdateCatalogue
    <2>2. Listing'
        BY <1>1, <1>2, <1>3, <2>1 DEF Listing, CatalogueIsOfDevice
    <2> QED BY <1>1, <1>2, <2>2, ViewKeeps
<1>4. CASE catalogue' = list /\ deferred' = deferred /\ list.gen = printer.generation /\ known
    <2>1. list # NoList => list.from = printer.device
        BY <1>4 DEF Lists
    <2>2. CatalogueIsOfDevice'
        BY <1>1, <1>2, <1>4, <2>1 DEF CatalogueIsOfDevice, Printers
    <2>3. Listing'
        BY <1>1, <1>2, <1>4, <2>2 DEF Listing
    <2> QED BY <1>1, <1>2, <2>3, ViewKeeps
<1> QED BY <1>1, <1>3, <1>4 DEF UpdateCatalogue

\* Event
LEMMA EventKeeps ==
  ASSUME MediaInvariant, Event
  PROVE  MediaInvariant'
<1> DEFINE e == Head(posted)
           rest == Tail(posted)
<1>1. posted # <<>> /\ posted \in Seq(Posts(printer))
    BY DEF Event, MediaInvariant, Listing
<1>2. e \in Posts(printer) /\ rest \in Seq(Posts(printer))
    <2> HIDE DEF Posts
    <2> QED BY <1>1
<1>3. e.list \in Lists(printer) /\ (e.kind = "continue" => e.id \in Cleanups)
    BY <1>2 DEF Posts
<1>4. \/ TakeList(e.list, printer.device # None, rest)
      \/ TakeList(e.list, e.list.from = printer.device, rest)
      \/ Sweep(rest)
      \/ e.kind = "continue" /\ Continue(e.id, rest)
    BY DEF Event
<1> HIDE DEF e, rest
<1> QED BY <1>2, <1>3, <1>4, TakeListKeeps, SweepKeeps, ContinueKeeps

-----------------------------------------------------------------------------
(* A new reservation, and a new reader of a copy *)

\* Reserved: the artifact is the operation's own, and nobody had it before.
LEMMA ReservedFits ==
  ASSUME MediaInvariant, NEW a \in Artifacts, NEW o \in Owners, op[a] = "unused", active = None
  PROVE  LET recs == Reserved(records, a, o)
             ops  == [op EXCEPT ![a] = "running"]
         IN  /\ Fit(recs, leaf, ops, source, a, lease, alive)
             /\ a \notin DOMAIN records /\ a \in DOMAIN recs /\ recs[a].owner = o /\ recs[a].inUse = a
             /\ OwnersOf(recs) = OwnersOf(records) \cup {o}
             /\ Watching(recs, watched \cup {o}, alive \cup notices \cup {o})
             /\ lease[a] <= now
<1> DEFINE fresh == [owner |-> o, inUse |-> a, claimed |-> FALSE, ready |-> FALSE,
                     revoked |-> FALSE, expires |-> now + Ttl]
           recs == Reserved(records, a, o)
           ops  == [op EXCEPT ![a] = "running"]
<1>1. /\ Begun(records, op, source) /\ Staging(records, op, active, lease)
      /\ Holding(records, leaf, op, source) /\ Leased(records, leaf, lease, alive)
      /\ Accounted(records, leaf) /\ Explained(records, op, source) /\ Formed(records)
      /\ Framed /\ Operating /\ op \in Histories
      /\ Watching(records, watched, alive \cup notices)
    BY DEF MediaInvariant, Fit, Operating, Histories
<1>2. now \in Nat /\ now \in 0 .. MaxTime /\ lease \in [Artifacts -> Nat]
    BY <1>1, Numbers DEF Framed
<1>3. a \notin DOMAIN records /\ \A u \in Uses : source[u] # a
    BY <1>1, IdentitiesAssumption DEF Begun
<1>4. lease[a] <= now
    <2>1. lease[a] \in Nat /\ ~(lease[a] > now)
        BY <1>1, <1>2, <1>3 DEF Leased
    <2> QED BY <1>2, <2>1
<1>5. fresh \in Record
    <2>1. now + Ttl \in 0 .. (MaxTime + Ttl + Lease)
        BY <1>2, DurationAssumption
    <2> QED BY <2>1 DEF Record
<1>6. /\ fresh.owner = o /\ fresh.inUse = a /\ fresh.claimed = FALSE /\ fresh.revoked = FALSE
    OBVIOUS
<1>7. /\ DOMAIN recs = DOMAIN records \cup {a} /\ recs[a] = fresh
      /\ \A b \in DOMAIN records : recs[b] = records[b]
    <2>1. recs = [x \in Known \cup {a} |-> IF x = a THEN fresh ELSE records[x]]
        BY DEF Reserved, Known
    <2> QED BY <1>3, <2>1 DEF Known
<1> HIDE DEF fresh, recs
<1>8. /\ \A x \in Ops : ops[x] = IF x = a THEN "running" ELSE op[x]
      /\ a \in Ops /\ Artifacts \cup Uses \subseteq Ops /\ \A u \in Uses : u # a
    BY <1>1, IdentitiesAssumption DEF Histories, Ops
<1> HIDE DEF ops
<1>9. \A b \in Artifacts : op[b] \notin Pending
    BY <1>1, IdentitiesAssumption DEF Staging
<1>10. Formed(recs)
    BY <1>1, <1>5, <1>6, <1>7 DEF Formed
<1>11. Begun(recs, ops, source)
    <2>1. \A b \in DOMAIN recs : ops[b] # "unused"
        BY <1>1, <1>7, <1>8 DEF Begun, Formed
    <2>2. ASSUME NEW u \in Uses, source[u] # None PROVE ops[source[u]] # "unused" /\ ops[u] # "unused"
        <3>1. op[source[u]] # "unused" /\ op[u] # "unused" /\ source[u] \in Ops /\ u \in Ops
            BY <1>1, <1>8, <2>2 DEF Begun, Operating
        <3> QED BY <1>8, <3>1
    <2> QED BY <2>1, <2>2 DEF Begun
<1>12. Staging(recs, ops, a, lease)
    <2>1. ASSUME NEW b \in Artifacts, ops[b] \in Pending PROVE b = a
        BY <1>8, <1>9, <2>1
    <2>2. ops[a] # "paused"
        BY <1>8
    <2> QED BY <1>4, <1>6, <1>7, <2>1, <2>2 DEF Staging
<1>13. Holding(recs, leaf, ops, source)
    BY <1>1, <1>7, <1>8 DEF Holding
<1>14. Leased(recs, leaf, lease, alive)
    BY <1>1, <1>7 DEF Leased
<1>15. Accounted(recs, leaf)
    BY <1>1, <1>7 DEF Accounted
<1>16. Explained(recs, ops, source)
    <2>1. ASSUME NEW x \in Ops, x # a, ArtifactOf(x, source) \in DOMAIN recs PROVE op[x] # "forgotten"
        <3>1. ArtifactOf(x, source) # a
            BY <1>3, <2>1, IdentitiesAssumption DEF ArtifactOf
        <3> QED BY <1>1, <1>7, <2>1, <3>1 DEF Explained
    <2> QED BY <1>8, <2>1 DEF Explained
<1>17. OwnersOf(recs) = OwnersOf(records) \cup {o}
    BY <1>6, <1>7 DEF OwnersOf
<1>18. Watching(recs, watched \cup {o}, alive \cup notices \cup {o})
    BY <1>1, <1>6, <1>7 DEF Watching
<1>19. Fit(recs, leaf, ops, source, a, lease, alive)
    BY <1>10, <1>11, <1>12, <1>13, <1>14, <1>15, <1>16 DEF Fit
<1> QED BY <1>3, <1>4, <1>6, <1>7, <1>17, <1>18, <1>19 DEF recs, ops

\* queueStageDeviceMediaOperation
LEMMA StageKeeps ==
  ASSUME MediaInvariant, NEW a \in Artifacts, NEW o \in Owners, Stage(a, o)
  PROVE  MediaInvariant'
<1> DEFINE recs == Reserved(records, a, o)
           ops  == [op EXCEPT ![a] = "running"]
           over == [op EXCEPT ![a] = "ended"]
           known == alive \cup notices
<1>1. /\ op[a] = "unused"
      /\ UNCHANGED <<staged, alive, notices, lease, now, started, stuck, cleanup, posted, printer, lists,
                     catalogue, deferred>>
    BY DEF Stage, viewVars, frameVars
<1>2. /\ Fit(records, leaf, op, source, active, lease, alive) /\ Formed(records)
      /\ Framed /\ Operating /\ Answering /\ Latching /\ Listing
      /\ Watching(records, watched, known) /\ watched \subseteq OwnersOf(records)
    BY DEF MediaInvariant, Fit
<1>3. /\ op \in Histories /\ order \subseteq Of(op) \X Of(op) /\ Remembered = Of(op)
      /\ source \in [Uses -> Artifacts \cup {None}]
      /\ now \in Nat /\ lease \in [Artifacts -> Nat] /\ watched \subseteq Owners
      /\ leaf \in [Artifacts \cup Old -> Leaves]
      /\ a \in Ops /\ Artifacts \subseteq Ops
    BY <1>2, Numbers DEF Operating, Framed, Histories, Of, Remembered, Ops
<1>4. Listing'
    BY <1>1, <1>2 DEF Listing, CatalogueIsOfDevice
<1>5. CASE Reject(a, source) /\ UNCHANGED <<records, leaf, active, watched>>
    <2>1. /\ Fit(records, leaf, op', source', active, lease, alive) /\ Operating'
          /\ \A y \in Ops : op[y] \in Pending => op'[y] = op[y]
        BY <1>1, <1>2, <1>3, <1>5, RejectKeeps
    <2>2. Fit(records, leaf, op, source, active, lease, alive)'
        BY <1>1, <1>5, <2>1, SameClock
    <2>3. Framed' /\ Answering' /\ Latching'
        BY <1>1, <1>2, <1>3, <1>5, <2>1 DEF Framed, Answering, Latching, Latched
    <2> QED BY <1>1, <1>2, <1>4, <1>5, <2>1, <2>2, <2>3 DEF MediaInvariant
<1>6. ASSUME active = None
      PROVE  /\ Fit(recs, leaf, ops, source, a, lease, alive)
             /\ a \in DOMAIN recs /\ recs[a].owner = o /\ recs[a].inUse = a
             /\ OwnersOf(recs) = OwnersOf(records) \cup {o}
             /\ Watching(recs, watched \cup {o}, known \cup {o})
             /\ lease[a] <= now /\ ~Latched
             /\ \A b \in Artifacts : op[b] \notin Pending
    <2>1. ~Latched
        BY <1>2, <1>6, IdentitiesAssumption DEF Latching
    <2>2. \A b \in Artifacts : op[b] \notin Pending
        BY <1>2, <1>6, IdentitiesAssumption DEF Fit, Staging
    <2> QED BY <1>1, <1>6, <2>1, <2>2, ReservedFits
<1> HIDE DEF recs
<1>7. CASE /\ active = None /\ o \in alive
           /\ records' = recs /\ op' = ops /\ order' = Appended(a)
           /\ active' = a /\ watched' = watched \cup {o} /\ UNCHANGED <<leaf, source>>
    <2>1. Fit(records, leaf, op, source, active, lease, alive)'
        BY <1>1, <1>6, <1>7, SameClock
    <2>2. Watching(records', watched', alive' \cup notices') /\ watched' \subseteq OwnersOf(records')
        <3>1. known \cup {o} = known
            BY <1>7
        <3> QED BY <1>1, <1>2, <1>6, <1>7, <3>1
    <2>3. Operating'
        <3>1. /\ op' \in Histories /\ Of(op) \subseteq Of(op') /\ a \in Of(op')
            BY <1>3, <1>7 DEF Histories, Pending, Of
        <3>2. order' \subseteq Of(op') \X Of(op')
            BY <1>3, <1>7, <3>1 DEF Appended
        <3> QED BY <1>3, <1>7, <3>1, <3>2 DEF Operating, Histories, Of, Remembered
    <2>4. Framed' /\ Latching'
        BY <1>1, <1>2, <1>3, <1>6, <1>7 DEF Framed, Latching, Latched
    <2>5. Answering'
        BY <1>1, <1>2, <1>6, <1>7 DEF Answering
    <2> QED BY <1>4, <2>1, <2>2, <2>3, <2>4, <2>5 DEF MediaInvariant
<1>8. ASSUME active = None, o \notin alive, UNCHANGED active,
             LET gone == Revoked(recs, o)
                 S    == Idle(gone, o) \cup {a}
                 free == Unheld(gone, a)
             IN  \E broken \in Breakable(S) :
                   /\ RemoveArtifacts(free, S, broken, watched \cup {o}, {o})
                   /\ Settle(over, Appended(a), source, RemovedRecords(free, S, broken))
      PROVE  MediaInvariant'
    <2> DEFINE gone == Revoked(recs, o)
               S    == Idle(gone, o) \cup {a}
               free == Unheld(gone, a)
    <2>1. PICK broken \in Breakable(S) :
            /\ RemoveArtifacts(free, S, broken, watched \cup {o}, {o})
            /\ Settle(over, Appended(a), source, RemovedRecords(free, S, broken))
        BY <1>8
    <2>2. /\ Fit(recs, leaf, ops, source, a, lease, alive) /\ Formed(recs)
          /\ a \in DOMAIN recs /\ recs[a].owner = o /\ recs[a].inUse = a
          /\ OwnersOf(recs) = OwnersOf(records) \cup {o}
          /\ Watching(recs, watched \cup {o}, known \cup {o})
          /\ \A b \in Artifacts : op[b] \notin Pending
        BY <1>6, <1>8 DEF Fit
    <2>3. /\ Fit(gone, leaf, ops, source, a, lease, alive)
          /\ \A b \in DOMAIN recs : recs[b].owner = o => lease[b] <= now
          /\ Watching(gone, watched \cup {o}, (known \cup {o}) \ {o})
        BY <1>3, <1>8, <2>2, RevokedKeeps
    <2>4. /\ DOMAIN gone = DOMAIN recs /\ OwnersOf(gone) = OwnersOf(recs) /\ Formed(gone)
          /\ \A b \in DOMAIN recs : gone[b].owner = recs[b].owner /\ gone[b].inUse = recs[b].inUse
        BY <2>2, RevokedIs
    <2>5. \A b \in S : b \in DOMAIN gone /\ gone[b].owner = o /\ gone[b].inUse \in {None, a}
        BY <2>2, <2>4 DEF Idle
    <2> HIDE DEF gone, S
    <2>6. /\ DOMAIN free = DOMAIN gone /\ OwnersOf(free) = OwnersOf(gone) /\ Formed(free)
          /\ \A b \in DOMAIN gone :
               /\ free[b].inUse = IF gone[b].inUse = a THEN None ELSE gone[b].inUse
               /\ free[b].owner = gone[b].owner /\ free[b].revoked = gone[b].revoked
        BY <2>4, UnheldIs
    <2>7. /\ ops \in Histories /\ over \in Histories /\ over = [ops EXCEPT ![a] = "ended"]
          /\ \A x \in Ops : over[x] = IF x = a THEN "ended" ELSE op[x]
        BY <1>3 DEF Histories, Pending, Terminal
    <2>8. Fit(free, leaf, over, source, None, lease, alive)
        <3>1. "ended" \in Terminal
            BY DEF Terminal
        <3>2. Fit(free, leaf, [ops EXCEPT ![a] = "ended"], source, IF a = a THEN None ELSE a, lease, alive)
            <4> HIDE DEF ops
            <4> QED BY <1>3, <2>3, <2>7, <3>1, UnheldKeeps
        <3> HIDE DEF free, ops, over
        <3> QED BY <2>7, <3>2
    <2> HIDE DEF free, ops, over
    <2>9. \A b \in S : b \in DOMAIN free /\ free[b].owner = o /\ Free(free, b, over) /\ lease[b] <= now
        <3>1. \A b \in DOMAIN free : free[b].inUse = None => Free(free, b, over)
            BY <1>3, <2>8, ExpiredIsFree DEF Fit
        <3> QED BY <2>3, <2>4, <2>5, <2>6, <3>1
    <2> DEFINE left == RemovedRecords(free, S, broken)
    <2>10. records' = left /\ leaf' = RemovedLeaves(leaf, free, S, broken)
           /\ watched' = (watched \cup {o}) \ ({o} \ OwnersOf(records'))
        BY <2>1 DEF RemoveArtifacts
    <2>11. Fit(records', leaf', over, source, None, lease, alive)
        <3>1. \A b \in S \cap DOMAIN free : Free(free, b, over) /\ lease[b] <= now
            BY <2>9
        <3> QED BY <1>3, <2>8, <2>10, <3>1, RemovalKeeps
    <2>12. leaf' \in [Artifacts \cup Old -> Leaves]
        BY <1>3, <2>6, <2>10, RemovalIs
    <2>13. /\ Watching(records', watched', known)
           /\ watched' \subseteq Owners /\ watched' \subseteq OwnersOf(records')
        <3>1. Watching(free, watched \cup {o}, known)
            BY <2>3, <2>4, <2>6 DEF Watching
        <3>2. /\ watched \cup {o} \subseteq Owners /\ watched \cup {o} \subseteq OwnersOf(free) \cup {o}
              /\ \A b \in S \cap DOMAIN free : free[b].owner \in {o}
            BY <1>2, <1>3, <2>2, <2>4, <2>6, <2>9
        <3> DEFINE services == watched \cup {o}
                   cands == {o}
        <3>3. /\ records' = RemovedRecords(free, S, broken)
              /\ watched' = services \ (cands \ OwnersOf(records'))
            BY <2>10
        <3>4. \A b \in S \cap DOMAIN free : free[b].owner \in cands
            BY <2>9
        <3> HIDE DEF left, known, services, cands
        <3>5. services \subseteq Owners /\ services \subseteq OwnersOf(free) \cup cands
            BY <3>2 DEF services, cands
        <3>6. Watching(free, services, known)
            BY <3>1 DEF services
        <3> QED BY <1>3, <2>6, <3>3, <3>4, <3>5, <3>6, WatchKept
    <2>14. /\ op' \in Histories /\ order' \subseteq Of(op') \X Of(op') /\ source' = source
           /\ \A x \in Ops : op'[x] = over[x] \/ (over[x] \in Terminal /\ op'[x] = "forgotten")
           /\ Explained(records', op', source')
        <3>1. Appended(a) \subseteq Of(over) \X Of(over)
            <4>1. Of(op) \subseteq Of(over) /\ a \in Of(over)
                BY <1>3, <2>7 DEF Of, Terminal
            <4> QED BY <1>3, <4>1 DEF Appended
        <3>2. Explained(records', over, source)
            BY <2>11 DEF Fit
        <3>3. Settle(over, Appended(a), source, records')
            BY <2>1, <2>10
        <3> HIDE DEF left
        <3> QED BY <1>3, <2>7, <3>1, <3>2, <3>3, SettleKeeps
    <2>15. Fit(records', leaf', op', source', None, lease, alive)
        BY <1>3, <2>7, <2>11, <2>14, ForgettingKeeps
    <2>16. active' = None
        BY <1>8
    <2>17. Fit(records, leaf, op, source, active, lease, alive)'
        BY <1>1, <2>15, <2>16, SameClock
    <2>18. Operating'
        BY <1>3, <2>14, <2>16 DEF Operating, Histories, Of, Remembered
    <2>19. Framed' /\ Answering' /\ Latching'
        BY <1>1, <1>2, <1>8, <2>2, <2>12, <2>13 DEF Framed, Answering, Latching, Latched
    <2> QED BY <1>1, <1>4, <2>13, <2>17, <2>18, <2>19 DEF MediaInvariant
<1>9. CASE active # None \/ ~printer.open \/ ~PathUnused(a)
    BY <1>5, <1>9 DEF Stage, storeVars
<1>10. CASE ~(active # None \/ ~printer.open \/ ~PathUnused(a))
    BY <1>7, <1>8, <1>10 DEF Stage, recs
<1> QED BY <1>9, <1>10

\* Held: nothing but the hold changes.
LEMMA HeldFits ==
  ASSUME NEW lv, NEW ops, NEW src, NEW act, NEW ls, NEW al, NEW a \in DOMAIN records, NEW u \in Uses,
         records[a].inUse = None, ops[u] = "unused",
         Fit(records, lv, ops, src, act, ls, al)
  PROVE  LET recs == Held(records, a, u)
         IN  /\ Fit(recs, lv, ops, src, act, ls, al) /\ DOMAIN recs = DOMAIN records
             /\ recs[a].inUse = u /\ recs[a].owner = records[a].owner
             /\ \A b \in DOMAIN records \ {a} : recs[b] = records[b]
             /\ OwnersOf(recs) = OwnersOf(records)
             /\ \A wt, known : Watching(records, wt, known) => Watching(recs, wt, known)
<1> DEFINE recs == Held(records, a, u)
<1>1. /\ Begun(records, ops, src) /\ Staging(records, ops, act, ls)
      /\ Holding(records, lv, ops, src) /\ Leased(records, lv, ls, al)
      /\ Accounted(records, lv) /\ Explained(records, ops, src) /\ Formed(records)
    BY DEF Fit
<1>2. DOMAIN recs = DOMAIN records /\ \A b \in DOMAIN records \ {a} : recs[b] = records[b]
    BY DEF Held
<1>3. /\ recs[a] \in Record /\ recs[a].inUse = u /\ recs[a].owner = records[a].owner
      /\ recs[a].claimed = records[a].claimed /\ recs[a].revoked = records[a].revoked
      /\ recs[a].expires = records[a].expires
    <2>1. records[a] \in Record
        BY <1>1 DEF Formed
    <2>2. recs[a] = [records[a] EXCEPT !.inUse = u]
        BY DEF Held
    <2> HIDE DEF recs
    <2> QED BY <2>1, <2>2 DEF Record
<1> HIDE DEF recs
<1>4. None \notin Artifacts \cup Uses
    BY IdentitiesAssumption
<1>5. Formed(recs)
    BY <1>1, <1>2, <1>3 DEF Formed
<1>6. Begun(recs, ops, src) /\ Accounted(recs, lv) /\ Explained(recs, ops, src)
    BY <1>1, <1>2 DEF Begun, Accounted, Explained
<1>7. Staging(recs, ops, act, ls)
    <2>1. \A b \in Artifacts : ops[b] \in Pending => b # a
        BY <1>1, <1>4 DEF Staging
    <2> QED BY <1>1, <1>2, <2>1 DEF Staging
<1>8. Holding(recs, lv, ops, src)
    <2>1. \A v \in Uses : ops[v] \in Pending => src[v] # a
        BY <1>1, <1>4 DEF Holding
    <2> QED BY <1>1, <1>2, <2>1 DEF Holding
<1>9. Leased(recs, lv, ls, al)
    BY <1>1, <1>2, <1>3 DEF Leased
<1>10. \A b \in DOMAIN records : recs[b].owner = records[b].owner /\ recs[b].revoked = records[b].revoked
    BY <1>2, <1>3
<1>11. OwnersOf(recs) = OwnersOf(records)
    BY <1>2, <1>10 DEF OwnersOf
<1>12. ASSUME NEW wt, NEW known, Watching(records, wt, known) PROVE Watching(recs, wt, known)
    BY <1>2, <1>10, <1>12 DEF Watching
<1> QED BY <1>2, <1>3, <1>5, <1>6, <1>7, <1>8, <1>9, <1>11, <1>12 DEF Fit, recs

\* queueRecoveredOperation: the hold is taken first and given up with the refusal.
LEMMA UseKeeps ==
  ASSUME MediaInvariant, NEW u \in Uses, NEW a \in Artifacts, NEW later \in Later, Use(u, a, later)
  PROVE  MediaInvariant'
<1> DEFINE o == records[a].owner
           recs == Held(records, a, u)
           src  == [source EXCEPT ![u] = a]
           known == alive \cup notices
<1>1. /\ op[u] = "unused" /\ a \in DOMAIN records /\ leaf[a] = "file" /\ records[a].inUse = None
      /\ now' = later
      /\ UNCHANGED <<staged, alive, notices, lease, started, stuck, cleanup, posted, printer, lists,
                     catalogue, deferred>>
    BY DEF Use, Holdable, Valid, Known, viewVars
<1>2. /\ Fit(records, leaf, op, source, active, lease, alive) /\ Formed(records)
      /\ Framed /\ Operating /\ Answering /\ Latching /\ Listing
      /\ Watching(records, watched, known) /\ watched \subseteq OwnersOf(records)
    BY DEF MediaInvariant, Fit
<1>3. /\ op \in Histories /\ order \subseteq Of(op) \X Of(op) /\ Remembered = Of(op)
      /\ source \in [Uses -> Artifacts \cup {None}]
      /\ now \in Nat /\ lease \in [Artifacts -> Nat] /\ watched \subseteq Owners
      /\ leaf \in [Artifacts \cup Old -> Leaves]
      /\ u \in Ops /\ Artifacts \cup Uses \subseteq Ops /\ u \notin Artifacts
    BY <1>2, Numbers, IdentitiesAssumption DEF Operating, Framed, Histories, Of, Remembered, Ops
<1>4. later \in 0 .. MaxTime /\ now <= later /\ later \in Nat
    BY <1>2, LaterIs
<1>5. Listing' /\ o \in OwnersOf(records) /\ o \in Owners
    BY <1>1, <1>2 DEF Listing, CatalogueIsOfDevice, OwnersOf, Formed, Record
<1>6. /\ Fit(recs, leaf, op, source, active, lease, alive) /\ DOMAIN recs = DOMAIN records
      /\ recs[a].inUse = u /\ recs[a].owner = o
      /\ \A b \in DOMAIN records \ {a} : recs[b] = records[b]
      /\ OwnersOf(recs) = OwnersOf(records) /\ Watching(recs, watched, known)
    BY <1>1, <1>2, HeldFits
<1> HIDE DEF recs
<1>7. ASSUME o \notin alive, UNCHANGED <<op, order, source, active>>,
             LET gone == Revoked(recs, o)
                 S    == Idle(gone, o) \cup {a}
             IN  \E broken \in Breakable(S) :
                   RemoveArtifacts(Unheld(gone, u), S, broken, watched \cup {o}, {o})
      PROVE  MediaInvariant'
    <2> DEFINE gone == Revoked(recs, o)
               S    == Idle(gone, o) \cup {a}
               free == Unheld(gone, u)
               services == watched \cup {o}
    <2>1. PICK broken \in Breakable(S) : RemoveArtifacts(free, S, broken, services, {o})
        BY <1>7
    <2>2. /\ Fit(gone, leaf, op, source, active, lease, alive)
          /\ \A b \in DOMAIN recs : recs[b].owner = o => lease[b] <= now
          /\ Watching(gone, watched, known \ {o})
        BY <1>3, <1>6, <1>7, RevokedKeeps
    <2>3. /\ DOMAIN gone = DOMAIN recs /\ OwnersOf(gone) = OwnersOf(recs) /\ Formed(gone)
          /\ \A b \in DOMAIN recs : gone[b].owner = recs[b].owner /\ gone[b].inUse = recs[b].inUse
        BY <1>6, RevokedIs DEF Fit
    <2>4. \A b \in S : b \in DOMAIN gone /\ gone[b].owner = o /\ gone[b].inUse \in {None, u}
        BY <1>1, <1>6, <2>3 DEF Idle
    <2> HIDE DEF gone, S
    <2>5. /\ DOMAIN free = DOMAIN gone /\ OwnersOf(free) = OwnersOf(gone) /\ Formed(free)
          /\ \A b \in DOMAIN gone :
               /\ free[b].inUse = IF gone[b].inUse = u THEN None ELSE gone[b].inUse
               /\ free[b].owner = gone[b].owner /\ free[b].revoked = gone[b].revoked
        BY <2>3, UnheldIs
    <2>6. Fit(free, leaf, op, source, active, lease, alive)
        BY <1>1, <2>2, UnheldFits DEF Pending
    <2> HIDE DEF free
    <2>7. \A b \in S : b \in DOMAIN free /\ free[b].owner = o /\ Free(free, b, op) /\ lease[b] <= now
        <3>1. \A b \in DOMAIN free : free[b].inUse = None => Free(free, b, op)
            BY <1>3, <2>6, ExpiredIsFree DEF Fit
        <3> QED BY <2>2, <2>3, <2>4, <2>5, <3>1
    <2>8. /\ records' = RemovedRecords(free, S, broken) /\ leaf' = RemovedLeaves(leaf, free, S, broken)
          /\ watched' = services \ ({o} \ OwnersOf(records'))
        BY <2>1 DEF RemoveArtifacts
    <2>9. Fit(records', leaf', op, source, active, lease, alive)
        <3>1. \A b \in S \cap DOMAIN free : Free(free, b, op) /\ lease[b] <= now
            BY <2>7
        <3> QED BY <1>3, <2>6, <2>8, <3>1, RemovalKeeps
    <2>10. leaf' \in [Artifacts \cup Old -> Leaves]
        BY <1>3, <2>5, <2>8, RemovalIs
    <2>11. /\ Watching(records', watched', known)
           /\ watched' \subseteq Owners /\ watched' \subseteq OwnersOf(records')
        <3>1. Watching(free, services, known)
            BY <2>2, <2>3, <2>5 DEF Watching
        <3>2. /\ services \subseteq Owners /\ services \subseteq OwnersOf(free) \cup {o}
              /\ \A b \in S \cap DOMAIN free : free[b].owner \in {o}
            BY <1>2, <1>3, <1>5, <1>6, <2>3, <2>5, <2>7
        <3> DEFINE cands == {o}
        <3>3. watched' = services \ (cands \ OwnersOf(records')) /\ records' = RemovedRecords(free, S, broken)
            BY <2>8
        <3>4. /\ services \subseteq OwnersOf(free) \cup cands
              /\ \A b \in S \cap DOMAIN free : free[b].owner \in cands
            BY <3>2
        <3> HIDE DEF services, known, cands
        <3> QED BY <1>3, <2>5, <3>1, <3>2, <3>3, <3>4, WatchKept
    <2>12. Fit(records, leaf, op, source, active, lease, alive)'
        BY <1>1, <1>3, <1>4, <1>7, <2>9, LaterClock
    <2>13. Framed' /\ Operating' /\ Answering' /\ Latching'
        BY <1>1, <1>2, <1>4, <1>7, <2>10, <2>11
           DEF Framed, Operating, Remembered, Answering, Latching, Latched
    <2> QED BY <1>1, <1>5, <2>11, <2>12, <2>13 DEF MediaInvariant
<1>8. CASE Reject(u, src) /\ watched' = watched \cup {o} /\ UNCHANGED <<records, leaf, active>>
    <2>1. src = source \/ (u \in Uses /\ \E b \in DOMAIN records : src = [source EXCEPT ![u] = b])
        BY <1>1
    <2> HIDE DEF src
    <2>2. /\ Fit(records, leaf, op', source', active, lease, alive) /\ Operating'
          /\ \A y \in Ops : op[y] \in Pending => op'[y] = op[y]
        BY <1>1, <1>2, <1>3, <1>8, <2>1, RejectKeeps
    <2>3. Fit(records, leaf, op, source, active, lease, alive)'
        BY <1>1, <1>3, <1>4, <1>8, <2>2, LaterClock
    <2>4. Framed' /\ Answering' /\ Latching'
        BY <1>1, <1>2, <1>3, <1>4, <1>5, <1>8, <2>2 DEF Framed, Answering, Latching, Latched
    <2>5. Watching(records', watched', alive' \cup notices') /\ watched' \subseteq OwnersOf(records')
        BY <1>1, <1>2, <1>5, <1>8 DEF Watching
    <2> QED BY <1>5, <2>2, <2>3, <2>4, <2>5 DEF MediaInvariant
<1>9. CASE /\ active = None /\ records' = recs /\ watched' = watched \cup {o}
           /\ op' = [op EXCEPT ![u] = "running"] /\ order' = Appended(u)
           /\ source' = src /\ active' = u /\ UNCHANGED leaf
    <2>1. \A x \in Ops : op'[x] = IF x = u THEN "running" ELSE op[x]
        BY <1>3, <1>9 DEF Histories
    <2>2. /\ source' \in [Uses -> Artifacts \cup {None}] /\ source'[u] = a
          /\ \A v \in Uses : v # u => source'[v] = source[v]
        BY <1>3, <1>9
    <2>3. \A b \in Artifacts : op[b] \notin Pending
        BY <1>2, <1>9, IdentitiesAssumption DEF Fit, Staging
    <2>4. /\ Begun(recs, op, source) /\ Holding(recs, leaf, op, source) /\ Formed(recs)
          /\ Leased(recs, leaf, lease, alive) /\ Accounted(recs, leaf) /\ Explained(recs, op, source)
        BY <1>6 DEF Fit
    <2>5. Begun(recs, op', source')
        <3>1. \A b \in DOMAIN recs : op'[b] # "unused"
            BY <1>3, <2>1, <2>4 DEF Begun, Formed
        <3>2. ASSUME NEW v \in Uses, source'[v] # None
              PROVE  op'[source'[v]] # "unused" /\ op'[v] # "unused"
            <4>1. CASE v = u
                BY <1>1, <1>3, <1>6, <2>1, <2>2, <3>1, <4>1
            <4>2. CASE v # u
                <5>1. op[source[v]] # "unused" /\ op[v] # "unused" /\ source'[v] = source[v]
                    BY <2>2, <2>4, <3>2, <4>2 DEF Begun
                <5>2. source[v] \in Ops /\ v \in Ops
                    BY <1>3, <3>2, <5>1
                <5> QED BY <2>1, <5>1, <5>2
            <4> QED BY <4>1, <4>2
        <3> QED BY <3>1, <3>2 DEF Begun
    <2>6. Staging(recs, op', u, lease)
        BY <1>3, <2>1, <2>3 DEF Staging
    <2>7. Holding(recs, leaf, op', source')
        <3>1. ASSUME NEW v \in Uses, op'[v] \in Pending
              PROVE  source'[v] \in DOMAIN recs /\ recs[source'[v]].inUse = v /\ leaf[source'[v]] \in Present
            <4>1. CASE v = u
                BY <1>1, <1>6, <2>2, <4>1 DEF Present
            <4>2. CASE v # u
                BY <1>3, <2>1, <2>2, <2>4, <3>1, <4>2 DEF Holding
            <4> QED BY <4>1, <4>2
        <3> QED BY <3>1 DEF Holding
    <2>8. Explained(recs, op', source')
        <3>1. ASSUME NEW x \in Ops, x # u, ArtifactOf(x, source') \in DOMAIN recs PROVE op[x] # "forgotten"
            <4>1. ArtifactOf(x, source') = ArtifactOf(x, source)
                BY <2>2, <3>1 DEF ArtifactOf
            <4> QED BY <2>4, <3>1, <4>1 DEF Explained
        <3> QED BY <2>1, <3>1 DEF Explained
    <2>9. Fit(records', leaf', op', source', active', lease', alive')
        BY <1>1, <1>9, <2>4, <2>5, <2>6, <2>7, <2>8 DEF Fit
    <2>10. Fit(records, leaf, op, source, active, lease, alive)'
        BY <1>1, <1>3, <1>4, <2>9, LaterClock
    <2>11. Operating'
        <3>1. op' \in Histories /\ Of(op) \subseteq Of(op') /\ u \in Of(op')
            BY <1>3, <1>9, <2>1 DEF Histories, Pending, Of
        <3>2. order' \subseteq Of(op') \X Of(op')
            BY <1>3, <1>9, <3>1 DEF Appended
        <3> QED BY <1>3, <1>9, <2>2, <3>1, <3>2 DEF Operating, Histories, Of, Remembered
    <2>12. Framed'
        BY <1>1, <1>2, <1>3, <1>4, <1>5, <1>9 DEF Framed
    <2>13. Answering' /\ Latching'
        <3>1. ~Latched
            BY <1>2, <1>9, IdentitiesAssumption DEF Latching
        <3> QED BY <1>1, <1>2, <2>3, <3>1 DEF Answering, Latching, Latched
    <2>14. Watching(records', watched', alive' \cup notices') /\ watched' \subseteq OwnersOf(records')
        BY <1>1, <1>2, <1>5, <1>6, <1>9 DEF Watching
    <2> QED BY <1>5, <2>10, <2>11, <2>12, <2>13, <2>14 DEF MediaInvariant
<1> QED BY <1>7, <1>8, <1>9 DEF Use, recs, storeVars

-----------------------------------------------------------------------------
(* The theorems *)

\* The process starts without a copy, an operation or a catalogue.
LEMMA MediaInit ==
  ASSUME Init
  PROVE  MediaInvariant
<1>1. /\ DOMAIN records = {} /\ now = 0 /\ posted = <<>> /\ alive = Owners /\ notices = {} /\ watched = {}
      /\ leaf = [x \in Artifacts \cup Old |-> IF x \in Old THEN "file" ELSE "none"]
      /\ op = [x \in Ops |-> "unused"] /\ order = {} /\ source = [u \in Uses |-> None] /\ active = None
      /\ staged = [a \in Artifacts |-> "none"] /\ lease = [a \in Artifacts |-> 0]
      /\ started = FALSE /\ cleanup = NoCleanup
      /\ printer = [generation |-> 0, device |-> None, since |-> 0, open |-> FALSE]
      /\ lists = [asked |-> 0, read |-> 0] /\ catalogue = NoList /\ deferred = NoList
    BY DEF Init
<1>2. Formed(records) /\ Begun(records, op, source) /\ Explained(records, op, source)
    BY <1>1 DEF Formed, Begun, Explained
<1>3. Staging(records, op, active, lease) /\ Holding(records, leaf, op, source)
    BY <1>1 DEF Staging, Holding, Pending, Ops
<1>4. Leased(records, leaf, lease, alive) /\ Accounted(records, leaf)
    BY <1>1 DEF Leased, Accounted
<1>5. Framed
    <2>1. lease \in [Artifacts -> 0 .. MaxTime + Lease] /\ now \in 0 .. MaxTime
        BY <1>1, DurationAssumption
    <2> QED BY <1>1, <2>1 DEF Framed, Leaves
<1>6. Operating
    BY <1>1 DEF Operating, Remembered
<1>7. Watching(records, watched, alive \cup notices) /\ watched \subseteq OwnersOf(records)
    BY <1>1 DEF Watching
<1>8. Answering /\ Latching
    BY <1>1 DEF Answering, Latching, Latched, NoCleanup
<1>9. Listing
    <2>1. NoList \in Lists(printer) /\ 0 <= MaxLists
        BY BoundsAssumption DEF NoList, Lists
    <2>2. posted \in Seq(Posts(printer))
        BY <1>1
    <2>3. printer \in Printers
        BY <1>1 DEF Printers
    <2> QED BY <1>1, <2>1, <2>2, <2>3 DEF Listing, CatalogueIsOfDevice
<1> QED BY <1>2, <1>3, <1>4, <1>5, <1>6, <1>7, <1>8, <1>9 DEF MediaInvariant, Fit

\* Every step of the service, of its clients and of the printer keeps the invariant.
LEMMA MediaStep ==
  ASSUME MediaInvariant, [Next]_vars
  PROVE  MediaInvariant'
<1>1. CASE UNCHANGED vars
    <2>1. UNCHANGED <<records, leaf, op, order, source, active, alive, notices, watched, lease, staged,
                      now, started, stuck, cleanup, posted, printer, lists, catalogue, deferred>>
        BY <1>1 DEF vars
    <2>2. Latching' /\ Listing'
        BY <2>1 DEF MediaInvariant, Latching, Latched, Listing, CatalogueIsOfDevice
    <2> QED BY <2>1, <2>2, ViewKeeps
<1>2. CASE \E a \in Artifacts, o \in Owners : Stage(a, o)
    BY <1>2, StageKeeps
<1>3. CASE \E a \in Artifacts : Pull(a) \/ HandleStaged(a) \/ Release(a) \/ Tamper(a)
    BY <1>3, PullKeeps, HandleStagedKeeps, ReleaseKeeps, TamperKeeps
<1>4. CASE \E a \in Artifacts, t \in Later : Claim(a, t) \/ Renew(a, t)
    BY <1>4, ClaimKeeps, RenewKeeps
<1>5. CASE \E u \in Uses, a \in Artifacts, t \in Later : Use(u, a, t)
    BY <1>5, UseKeeps
<1>6. CASE \E u \in Uses : PauseUse(u) \/ EndUse(u)
    BY <1>6, PauseUseKeeps, EndUseKeeps
<1>7. CASE \E x \in Artifacts \cup Uses : Cancel(x)
    BY <1>7, CancelKeeps
<1>8. CASE \E o \in Owners : Leave(o) \/ OwnerNotice(o)
    BY <1>8, LeaveKeeps, OwnerNoticeKeeps
<1>9. CASE \E c \in Cleanups : QueueCleanup(c)
    BY <1>9, QueueCleanupKeeps
<1>10. CASE CancelCleanup \/ SweepTimer \/ Event
    <2>1. posted \in Seq(Posts(printer))
        BY DEF MediaInvariant, Listing
    <2> QED BY <1>10, <2>1, CancelCleanupKeeps, SweepKeeps, EventKeeps DEF SweepTimer
<1>11. CASE \/ \E d \in Devices \cup {None}, kept, open \in BOOLEAN : NewGeneration(d, kept, open)
           \/ Detach \/ AskList \/ ReadList \/ Tick
    BY <1>11, ListKeeps, NewGenerationKeeps, DetachKeeps, TickKeeps
<1> QED BY <1>1, <1>2, <1>3, <1>4, <1>5, <1>6, <1>7, <1>8, <1>9, <1>10, <1>11 DEF Next

\* The records, the files, the holds, the leases, the watched owners, the history and
\* the event queue agree in every state: the invariant is inductive.
THEOREM MediaInvariance == Spec => []MediaInvariant
<1>1. Init => MediaInvariant
    BY MediaInit
<1>2. MediaInvariant /\ [Next]_vars => MediaInvariant'
    BY MediaStep
<1> QED BY <1>1, <1>2, PTL DEF Spec

\* A copy lasts exactly as long as somebody has a right to it: an operation that reads one
\* finds it, a client has it for as long as it was told, an owner's end is noticed and the
\* outbox keeps nothing that is nobody's (CopyIsKept).
THEOREM CopyAlwaysKept == Spec => []CopyIsKept
<1>1. MediaInvariant => CopyIsKept
    <2> SUFFICES ASSUME MediaInvariant PROVE CopyIsKept
        OBVIOUS
    <2>1. /\ Formed(records) /\ Holding(records, leaf, op, source) /\ Leased(records, leaf, lease, alive)
          /\ Accounted(records, leaf) /\ Framed /\ Operating /\ Latching /\ Listing
          /\ Watching(records, watched, alive \cup notices) /\ watched \subseteq OwnersOf(records)
        BY DEF MediaInvariant, Fit
    <2>2. TypeOK
        <3>1. catalogue.seq \in 0 .. MaxLists /\ deferred.seq \in 0 .. MaxLists
            BY <2>1 DEF Listing, Lists
        <3>2. cleanup.id \in Cleanups \cup {None}
            BY <2>1 DEF Latching, Latched
        <3> QED BY <2>1, <3>1, <3>2 DEF TypeOK, Known, Formed, Framed, Operating
    <2>3. HoldIsHonoured
        BY <2>1 DEF HoldIsHonoured, Holding, Known, Present
    <2>4. LeaseIsKept
        BY <2>1 DEF LeaseIsKept, Leased, Known, Present
    <2>5. OwnersAreWatched
        BY <2>1 DEF OwnersAreWatched, Watching, Known
    <2>6. OutboxIsAccounted
        BY <2>1 DEF OutboxIsAccounted, Accounted, StrayLeaves
    <2> QED BY <2>2, <2>3, <2>4, <2>5, <2>6 DEF CopyIsKept
<1> QED BY <1>1, MediaInvariance, PTL

\* The history never forgets the operation that explains a copy still there.
THEOREM ClaimableAlwaysKnown == Spec => []ClaimableIsKnown
<1>1. MediaInvariant => ClaimableIsKnown
    BY DEF MediaInvariant, Fit, Explained, ClaimableIsKnown, Known
<1> QED BY <1>1, MediaInvariance, PTL

\* The catalogue shown was read from the device that is attached and since it was attached,
\* whatever was put aside during a clean-up and whichever generation it is.
THEOREM CatalogueAlwaysOfDevice == Spec => []CatalogueIsOfDevice
<1>1. MediaInvariant => CatalogueIsOfDevice
    BY DEF MediaInvariant, Listing
<1> QED BY <1>1, MediaInvariance, PTL
=============================================================================
