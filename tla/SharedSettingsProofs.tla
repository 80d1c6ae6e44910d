------------------------ MODULE SharedSettingsProofs ------------------------
(* Proofs about SharedSettings, for any clients, devices, names, pairs and    *)
(* number of changes, restarts and mishaps: no change overwrites what its     *)
(* client has not seen, and what a client offers is so.                       *)
EXTENDS SharedSettings, SequenceTheorems, TLAPS

-----------------------------------------------------------------------------
(* Types *)

Values == SUBSET (Entry \cup Pairs)
Places == Devices \cup {NoDevice}
Snaps == [status : {"Ready", "Disconnected", "Unavailable"}, rev : Nat, dev : Places, val : Values]

ClientStates ==
    [owner : Nat, dev : Places, shown : Snaps, last : Snaps,
     busy : BOOLEAN, pending : BOOLEAN, later : BOOLEAN]

Requests ==
    [kind : Mutations \cup {"read", "apply"}, from : Clients, to : Nat, fresh : BOOLEAN,
     check : BOOLEAN, rev : Nat, saw : Values, layout : Entry \cup {NoLayout}, pair : SUBSET Pairs]

Errors == {"", "Unavailable", "Invalid", "Conflict", "NameConflict", "Refused", "CommitUnknown"}

Messages ==
    [kind : {"answer"}, call : Requests, error : Errors, snap : Snaps]
    \cup [kind : {"pair"}, owner : Nat, snap : Snaps] \cup [kind : {"owner"}, owner : Nat]
    \cup [kind : {"device"}, dev : Places] \cup [kind : {"lost", "covered"}]

StoreTypes ==
    /\ topic \in {"layouts", "preferences"}
    /\ disk \in [rev : Nat, val : Values]
    /\ rt \in [owner : Nat, dev : Places, rev : Nat, val : Values, writes : BOOLEAN]
    /\ named \in SUBSET [key : Nat, rev : Nat, val : Values]

Bounded ==
    /\ owners \in Nat /\ rt.owner \in {0, owners}
    /\ troubles \in 0 .. MaxTroubles /\ wishes \in 0 .. MaxWishes
    /\ owners <= troubles + 1 /\ (rt.owner = 0 => owners <= troubles)

-----------------------------------------------------------------------------
(* What the runtime and the file have meant *)

\* Layouts that were ever on the disk: a revision has one meaning, and so has a layout's.
OnDisk == named \cup {[key |-> 0, rev |-> disk.rev, val |-> disk.val]}

LayoutsMean ==
    /\ \A n \in OnDisk :
          /\ n.key = 0 /\ n.rev <= disk.rev
          /\ \A e \in n.val : e \in Entry /\ e.id \in 1 .. n.rev /\ e.rev \in 1 .. n.rev
          /\ \A e, f \in n.val : e.id = f.id => e = f
    /\ \A n, m \in OnDisk :
          /\ n.rev = m.rev => n.val = m.val
          /\ \A e \in n.val, f \in m.val : e.rev = f.rev => e = f
    /\ rt.owner # 0 /\ rt.writes =>
          disk.rev = rt.rev /\ disk.val = rt.val /\ Meaning(0, rt.rev, rt.val) \in named
    /\ \A e \in rt.val : e \in Entry /\ e.id # 0 /\ e.rev # 0

\* Pairs a runtime has used: a revision has one meaning while it runs.
PairsMean ==
    /\ \E p \in Pairs : disk.val = {p}
    /\ \A n \in named : n.key \in 1 .. owners /\ (n.key = rt.owner => n.rev <= rt.rev)
    /\ \A n, m \in named : n.key = m.key /\ n.rev = m.rev => n.val = m.val
    /\ rt.owner # 0 => /\ Meaning(rt.owner, rt.rev, rt.val) \in named
                       /\ \E p \in Pairs : rt.val = {p}

Means == IF Layouts THEN LayoutsMean ELSE PairsMean

-----------------------------------------------------------------------------
(* What is under way: k is a client's state, q the calls, m its mail *)

\* A snapshot that offers something says what its revision stood for.
SaysSo(owner, x) ==
    x.status = "Ready" =>
        /\ \E n \in named : n.key = Key(owner) /\ n.rev = x.rev /\ x.val = Visible(n.val, x.dev)
        /\ Layouts => x.dev \in Devices

\* A change names a revision, and its client saw what that stood for.
CallIsTrue(call) ==
    /\ call.to \in 1 .. owners
    /\ call.kind \in {"put", "delete", "apply"} => Layouts
    /\ call.kind = "set" => ~Layouts
    /\ call.kind \in {"put", "delete", "apply"} => call.layout \in Entry
    /\ call.kind = "set" => \E p \in Pairs : call.pair = {p}
    /\ call.kind # "read" =>
          \E n \in named :
              /\ n.key = Key(call.to) /\ n.rev = call.rev
              /\ call.saw = IF Layouts THEN Visible(n.val, call.layout.dev) ELSE n.val
              /\ call.kind \in {"delete", "apply"} => call.layout \in n.val
              /\ call.kind = "put" => call.layout.id \in 0 .. n.rev

MessageIsTrue(g) ==
    /\ g.kind = "answer" =>
          /\ g.call.to \in 1 .. owners /\ SaysSo(g.call.to, g.snap)
          /\ IF Layouts THEN g.call.kind \in {"read", "put", "delete"}
             ELSE g.call.kind \in {"read", "set"} /\ g.snap.status = "Ready"
    /\ g.kind = "pair" =>
          ~Layouts /\ g.snap.status = "Ready" /\ g.owner \in 1 .. owners /\ SaysSo(g.owner, g.snap)
    /\ g.kind = "owner" => g.owner \in 1 .. owners
    /\ g.kind = "device" => Layouts

MailIsTrue(m) == \A i \in DOMAIN m : MessageIsTrue(m[i])

ViewIsTrue(k) ==
    /\ SaysSo(k.owner, k.shown) /\ SaysSo(k.owner, k.last)
    /\ Layouts /\ k.shown.status = "Ready" => k.shown.dev = k.dev /\ k.shown = k.last
    /\ k.owner = 0 => k.shown.status # "Ready" /\ ~k.busy /\ ~k.pending
    /\ k.owner <= owners
    /\ k.pending => ~Layouts
    /\ ~Layouts => k.last.status # "Ready"

\* An answer that is still wanted is of the runtime the client knows.
FreshIsOwn(c, k, q, m) ==
    /\ \A i \in DOMAIN q : q[i].from = c /\ q[i].fresh => q[i].kind = "apply" \/ q[i].to = k.owner
    /\ \A i \in DOMAIN m : m[i].kind = "answer" /\ m[i].call.fresh => m[i].call.to = k.owner

\* Owners are announced in their order, later than what was sent to the ones before.
OwnersInOrder(c, k, q, m) ==
    \A i \in DOMAIN m : m[i].kind = "owner" =>
        /\ k.owner < m[i].owner
        /\ \A j \in DOMAIN m : m[j].kind = "owner" /\ i < j => m[i].owner < m[j].owner
        /\ \A j \in DOMAIN m : m[j].kind = "pair" => m[j].owner < m[i].owner
        /\ \A j \in DOMAIN q : q[j].from = c => q[j].to < m[i].owner

\* A client that still knows a runtime that is gone will be told before it hears of another.
LossComing(m) ==
    \E i \in DOMAIN m : m[i].kind = "lost" /\ \A j \in DOMAIN m : j < i => m[j].kind # "owner"

LossIsTold(k, m) == k.owner # 0 /\ k.owner # rt.owner => LossComing(m)

\* Behind a change that was given up, only a later look lets the client go on.
Mutation(call) == call.kind \in Mutations

OneChange(c, k, q, m) ==
    Layouts => \A i \in DOMAIN q : q[i].from = c /\ Mutation(q[i]) /\ q[i].to = k.owner =>
        /\ k.busy \/ k.shown.status # "Ready"
        /\ \A j \in DOMAIN m : m[j].kind = "answer" => ~m[j].call.fresh
        /\ \A j \in DOMAIN q : q[j].from = c /\ q[j].fresh /\ q[j].kind # "apply" => i <= j

\* A client is up to date, or will be by an announcement, or has nothing old to show.
UpToDate(k) == k.shown.status = "Ready" /\ k.shown.rev = rt.rev
ToBeTold(m) == \E i \in DOMAIN m : m[i].kind = "pair" /\ m[i].owner = rt.owner /\ m[i].snap.rev = rt.rev
NothingOld(k, m) ==
    /\ k.shown.status # "Ready"
    /\ \A i \in DOMAIN m : m[i].kind = "answer" /\ m[i].call.fresh => m[i].snap.rev = rt.rev
    /\ \A i \in DOMAIN m : m[i].kind = "pair" => m[i].owner # rt.owner

PairReaches(k, m) ==
    ~Layouts /\ k.owner # 0 /\ k.owner = rt.owner => UpToDate(k) \/ ToBeTold(m) \/ NothingOld(k, m)

ClientInv(c, k, q, m) ==
    /\ MailIsTrue(m) /\ ViewIsTrue(k) /\ FreshIsOwn(c, k, q, m) /\ OwnersInOrder(c, k, q, m)
    /\ OneChange(c, k, q, m)

Follow(k, m) == LossIsTold(k, m) /\ PairReaches(k, m)

TypesInv ==
    /\ StoreTypes /\ Bounded
    /\ calls \in Seq(Requests) /\ mail \in [Clients -> Seq(Messages)] /\ cl \in [Clients -> ClientStates]

IInv ==
    /\ TypesInv
    /\ Means
    /\ \A i \in DOMAIN calls : CallIsTrue(calls[i])
    /\ \A c \in Clients : ClientInv(c, cl[c], calls, mail[c]) /\ Follow(cl[c], mail[c])
    /\ AppliedAsSeen

-----------------------------------------------------------------------------
(* A client's bundle *)

Bundles == [c : ClientStates, q : Seq(Requests), m : Seq(Messages)]

\* A step of a client leaves the calls of the others where they are.
Frame(c, q) == \A i \in DOMAIN q : q[i].from # c => i \in DOMAIN calls /\ q[i] = calls[i]

Weak(c, s) ==
    /\ s \in Bundles
    /\ \A i \in DOMAIN s.q : CallIsTrue(s.q[i])
    /\ Frame(c, s.q)
    /\ ClientInv(c, s.c, s.q, s.m)

Good(c, s) == Weak(c, s) /\ Follow(s.c, s.m)

\* A sequence whose elements are replaced one by one is a sequence.
LEMMA Mapped ==
    ASSUME NEW S, NEW T, NEW q \in Seq(S), NEW f \in [DOMAIN q -> T]
    PROVE  f \in Seq(T) /\ DOMAIN f = DOMAIN q
<1>1. Len(q) \in Nat /\ DOMAIN q = 1 .. Len(q)
    OBVIOUS
<1>2. f \in [1 .. Len(q) -> T]
    BY <1>1
<1>3. f \in Seq(T)
    BY <1>1, <1>2, IsASeq
<1>. QED
    BY <1>3

\* Outdating an answer or a call keeps its type and all but its freshness.
Fades(x, y) ==
    /\ y.kind = x.kind /\ y.from = x.from /\ y.to = x.to /\ y.rev = x.rev /\ y.saw = x.saw
    /\ y.check = x.check /\ y.layout = x.layout /\ y.pair = x.pair
    /\ y.fresh => x.fresh

\* A call that is given up stays as it is but for its freshness.
LEMMA CallFades ==
    ASSUME NEW x \in Requests
    PROVE  LET y == [x EXCEPT !.fresh = FALSE]
           IN y \in Requests /\ Fades(x, y) /\ ~y.fresh
BY DEF Requests, Fades

\* So does an answer nobody wants any more.
LEMMA AnswerFades ==
    ASSUME NEW x \in Messages, x.kind = "answer"
    PROVE  LET y == [x EXCEPT !.call.fresh = FALSE]
           IN /\ x.call \in Requests /\ y \in Messages /\ y.kind = "answer" /\ Fades(x.call, y.call)
              /\ ~y.call.fresh /\ y.snap = x.snap /\ y.error = x.error
<1>1. x \in [kind : {"answer"}, call : Requests, error : Errors, snap : Snaps]
    BY DEF Messages
<1>2. [x.call EXCEPT !.fresh = FALSE] \in Requests /\ Fades(x.call, [x.call EXCEPT !.fresh = FALSE])
      /\ ~[x.call EXCEPT !.fresh = FALSE].fresh
    BY <1>1, CallFades
<1>3. [x EXCEPT !.call.fresh = FALSE] = [x EXCEPT !.call = [x.call EXCEPT !.fresh = FALSE]]
    BY <1>1
<1>. DEFINE z == [x.call EXCEPT !.fresh = FALSE]
            y == [x EXCEPT !.call = z]
<1>4. y \in [kind : {"answer"}, call : Requests, error : Errors, snap : Snaps] /\ y.call = z
      /\ y.kind = "answer" /\ y.snap = x.snap /\ y.error = x.error
    <2>. HIDE DEF z
    <2>. QED
        BY <1>1, <1>2 DEF z
<1>. QED
    BY <1>1, <1>2, <1>3, <1>4 DEF Messages

\* Outdating changes the freshness of these calls and answers and nothing else.
LEMMA OutdateOf ==
    ASSUME NEW c \in Clients, NEW s \in Bundles, NEW kinds
    PROVE  LET t == Outdate(c, s, kinds)
           IN /\ t \in Bundles /\ t.c = s.c
              /\ DOMAIN t.q = DOMAIN s.q /\ DOMAIN t.m = DOMAIN s.m
              /\ \A i \in DOMAIN s.q :
                    IF s.q[i].from = c /\ s.q[i].kind \in kinds
                    THEN Fades(s.q[i], t.q[i]) /\ ~t.q[i].fresh ELSE t.q[i] = s.q[i]
              /\ \A i \in DOMAIN s.m :
                    IF s.m[i].kind = "answer" /\ s.m[i].call.kind \in kinds
                    THEN /\ t.m[i].kind = "answer" /\ t.m[i].snap = s.m[i].snap
                         /\ Fades(s.m[i].call, t.m[i].call) /\ ~t.m[i].call.fresh
                    ELSE t.m[i] = s.m[i]
<1>. DEFINE fq == Outdated(c, kinds, s.q)
            fm == [i \in DOMAIN s.m |-> IF s.m[i].kind = "answer" /\ s.m[i].call.kind \in kinds
                                        THEN [s.m[i] EXCEPT !.call.fresh = FALSE] ELSE s.m[i]]
<1>1. s.q \in Seq(Requests) /\ s.m \in Seq(Messages) /\ s.c \in ClientStates
    BY DEF Bundles
<1>2. /\ \A i \in DOMAIN s.q : s.q[i] \in Requests
      /\ \A i \in DOMAIN s.m : s.m[i] \in Messages
    BY <1>1
<1>3. fq \in [DOMAIN s.q -> Requests]
    BY <1>2, CallFades DEF Outdated
<1>4. fm \in [DOMAIN s.m -> Messages]
    BY <1>2, AnswerFades
<1>5. fq \in Seq(Requests) /\ DOMAIN fq = DOMAIN s.q
    BY <1>1, <1>3, Mapped
<1>6. fm \in Seq(Messages) /\ DOMAIN fm = DOMAIN s.m
    BY <1>1, <1>4, Mapped
<1>7. Outdate(c, s, kinds) = [s EXCEPT !.q = fq, !.m = fm]
    BY DEF Outdate
<1>8. \A i \in DOMAIN s.q :
          IF s.q[i].from = c /\ s.q[i].kind \in kinds
          THEN Fades(s.q[i], fq[i]) /\ ~fq[i].fresh ELSE fq[i] = s.q[i]
    BY <1>2, CallFades DEF Outdated
<1>9. \A i \in DOMAIN s.m :
          IF s.m[i].kind = "answer" /\ s.m[i].call.kind \in kinds
          THEN /\ fm[i].kind = "answer" /\ fm[i].snap = s.m[i].snap
               /\ Fades(s.m[i].call, fm[i].call) /\ ~fm[i].call.fresh
          ELSE fm[i] = s.m[i]
    BY <1>2, AnswerFades
<1>. HIDE DEF fq, fm
<1>. DEFINE t == [s EXCEPT !.q = fq, !.m = fm]
<1>10. t \in Bundles /\ t.c = s.c /\ t.q = fq /\ t.m = fm
    BY <1>5, <1>6 DEF Bundles
<1>. HIDE DEF t
<1>. QED
    BY <1>5, <1>6, <1>7, <1>8, <1>9, <1>10 DEF t

\* Nothing is fresh of these kinds.
Stale(c, s, kinds) ==
    /\ \A i \in DOMAIN s.q : s.q[i].from = c /\ s.q[i].kind \in kinds => ~s.q[i].fresh
    /\ \A i \in DOMAIN s.m : s.m[i].kind = "answer" /\ s.m[i].call.kind \in kinds => ~s.m[i].call.fresh

\* A new attempt outdates the earlier ones and breaks nothing.
LEMMA OutdateWeak ==
    ASSUME NEW c \in Clients, NEW s, Weak(c, s), NEW kinds
    PROVE  LET t == Outdate(c, s, kinds)
           IN /\ Weak(c, t) /\ t.c = s.c /\ Stale(c, t, kinds)
              /\ DOMAIN t.q = DOMAIN s.q
              /\ \A i \in DOMAIN s.q : Fades(s.q[i], t.q[i])
              /\ Follow(s.c, s.m) => Follow(t.c, t.m)
<1>. DEFINE t == Outdate(c, s, kinds)
<1>0. s \in Bundles
    BY DEF Weak
<1>1. /\ t \in Bundles /\ t.c = s.c
      /\ DOMAIN t.q = DOMAIN s.q /\ DOMAIN t.m = DOMAIN s.m
      /\ \A i \in DOMAIN s.q :
            IF s.q[i].from = c /\ s.q[i].kind \in kinds
            THEN Fades(s.q[i], t.q[i]) /\ ~t.q[i].fresh ELSE t.q[i] = s.q[i]
      /\ \A i \in DOMAIN s.m :
            IF s.m[i].kind = "answer" /\ s.m[i].call.kind \in kinds
            THEN /\ t.m[i].kind = "answer" /\ t.m[i].snap = s.m[i].snap
                 /\ Fades(s.m[i].call, t.m[i].call) /\ ~t.m[i].call.fresh
            ELSE t.m[i] = s.m[i]
    BY <1>0, OutdateOf
<1>. HIDE DEF t
<1>2. /\ \A i \in DOMAIN s.q : Fades(s.q[i], t.q[i])
      /\ \A i \in DOMAIN s.m :
            /\ t.m[i].kind = s.m[i].kind
            /\ s.m[i].kind = "answer" => t.m[i].snap = s.m[i].snap /\ Fades(s.m[i].call, t.m[i].call)
            /\ s.m[i].kind # "answer" => t.m[i] = s.m[i]
    BY <1>1 DEF Fades
<1>3. Stale(c, t, kinds)
    BY <1>1, <1>2 DEF Stale, Fades
<1>4. \A i \in DOMAIN t.q : CallIsTrue(t.q[i])
    BY <1>1, <1>2 DEF Weak, CallIsTrue, Fades
<1>5. Frame(c, t.q)
    BY <1>1, <1>2 DEF Weak, Frame, Fades
<1>6. MailIsTrue(t.m)
    BY <1>1, <1>2 DEF Weak, ClientInv, MailIsTrue, MessageIsTrue, Fades
<1>7. ViewIsTrue(t.c)
    BY <1>1 DEF Weak, ClientInv
<1>8. FreshIsOwn(c, t.c, t.q, t.m)
    BY <1>1, <1>2 DEF Weak, ClientInv, FreshIsOwn, Fades
<1>9. OwnersInOrder(c, t.c, t.q, t.m)
    BY <1>1, <1>2 DEF Weak, ClientInv, OwnersInOrder, Fades
<1>10. OneChange(c, t.c, t.q, t.m)
    BY <1>1, <1>2 DEF Weak, ClientInv, OneChange, Fades, Mutation
<1>11. Follow(s.c, s.m) => Follow(t.c, t.m)
    BY <1>1, <1>2 DEF Follow, LossIsTold, LossComing, PairReaches, UpToDate, ToBeTold, NothingOld, Fades
<1>. QED
    BY <1>1, <1>2, <1>3, <1>4, <1>5, <1>6, <1>7, <1>8, <1>9, <1>10, <1>11 DEF Weak, ClientInv, t

-----------------------------------------------------------------------------
(* What a client's step does to its bundle *)

\* Only what the client shows and whether it waits has changed.
LEMMA Reviewed ==
    ASSUME NEW c \in Clients, NEW s, Weak(c, s),
           NEW t \in Bundles, t.q = s.q, t.m = s.m, t.c.owner = s.c.owner,
           ViewIsTrue(t.c), OneChange(c, t.c, t.q, t.m)
    PROVE  Weak(c, t) /\ (LossIsTold(s.c, s.m) => LossIsTold(t.c, t.m))
BY DEF Weak, ClientInv, FreshIsOwn, OwnersInOrder, LossIsTold, LossComing

Idle(c, s) ==
    \A i \in DOMAIN s.q : s.q[i].from = c /\ Mutation(s.q[i]) => s.q[i].to # s.c.owner

\* A call is sent to the runtime the client knows.
LEMMA SentWeak ==
    ASSUME NEW c \in Clients, NEW s, Weak(c, s),
           NEW call \in Requests, call.from = c, call.to = s.c.owner, CallIsTrue(call),
           Layouts /\ Mutation(call) => s.c.busy /\ Stale(c, s, {"read", "put", "delete"})
    PROVE  LET t == Sent(s, call)
           IN Weak(c, t) /\ t.c = s.c /\ t.m = s.m
<1>. DEFINE t == Sent(s, call)
<1>1. s \in Bundles /\ s.q \in Seq(Requests)
    BY DEF Weak, Bundles
<1>2. t = [s EXCEPT !.q = Append(s.q, call)]
    BY DEF Sent
<1>3. t \in Bundles /\ t.c = s.c /\ t.m = s.m /\ t.q = Append(s.q, call)
    <2>1. Append(s.q, call) \in Seq(Requests)
        BY <1>1
    <2>. QED
        BY <1>1, <1>2, <2>1 DEF Bundles
<1>4. /\ Len(s.q) \in Nat /\ DOMAIN s.q = 1 .. Len(s.q)
      /\ DOMAIN t.q = 1 .. Len(s.q) + 1
      /\ t.q[Len(s.q) + 1] = call
      /\ \A i \in 1 .. Len(s.q) : t.q[i] = s.q[i]
    BY <1>1, <1>3
<1>. HIDE DEF t
<1>5. \A i \in DOMAIN t.q : (i \in DOMAIN s.q /\ t.q[i] = s.q[i]) \/ t.q[i] = call
    <2>1. \A i \in 1 .. Len(s.q) + 1 : i \in 1 .. Len(s.q) \/ i = Len(s.q) + 1
        BY <1>4
    <2>. QED
        BY <1>4, <2>1
<1>6. \A i \in DOMAIN t.q : CallIsTrue(t.q[i])
    BY <1>5 DEF Weak
<1>7. Frame(c, t.q)
    BY <1>5 DEF Weak, Frame
<1>8. MailIsTrue(t.m) /\ ViewIsTrue(t.c)
    BY <1>3 DEF Weak, ClientInv
<1>9. FreshIsOwn(c, t.c, t.q, t.m)
    BY <1>3, <1>5 DEF Weak, ClientInv, FreshIsOwn
<1>10. OwnersInOrder(c, t.c, t.q, t.m)
    BY <1>3, <1>5 DEF Weak, ClientInv, OwnersInOrder
<1>11. OneChange(c, t.c, t.q, t.m)
    <2>1. CASE ~Layouts
        BY <2>1 DEF OneChange
    <2>2. CASE Layouts /\ ~Mutation(call)
        BY <2>2, <1>3, <1>4, <1>5 DEF Weak, ClientInv, OneChange
    <2>3. CASE Layouts /\ Mutation(call)
        <3>1. \A i \in DOMAIN s.q : CallIsTrue(s.q[i]) /\ s.q[i] \in Requests
            BY <1>1 DEF Weak
        <3>2. \A i \in DOMAIN s.q : s.q[i].kind \in {"read", "put", "delete", "apply"}
            BY <2>3, <3>1 DEF CallIsTrue, Requests, Mutations
        <3>3. \A i \in DOMAIN s.m : s.m[i].kind = "answer" => s.m[i].call.kind \in {"read", "put", "delete"}
            BY <2>3 DEF Weak, ClientInv, MailIsTrue, MessageIsTrue
        <3>4. \A i \in DOMAIN s.q : s.q[i].from = c /\ s.q[i].fresh => s.q[i].kind = "apply"
            BY <2>3, <3>2 DEF Stale
        <3>5. \A i \in DOMAIN s.m : s.m[i].kind = "answer" => ~s.m[i].call.fresh
            BY <2>3, <3>3 DEF Stale
        <3>. QED
            BY <2>3, <3>4, <3>5, <1>3, <1>4, <1>5 DEF OneChange
    <2>. QED
        BY <2>1, <2>2, <2>3
<1>. QED
    BY <1>3, <1>6, <1>7, <1>8, <1>9, <1>10, <1>11 DEF Weak, ClientInv, t

\* What is not on offer promises nothing.
LEMMA UnavailableWeak ==
    ASSUME NEW c \in Clients, NEW s, Weak(c, s)
    PROVE  LET t == Unavailable(s)
           IN /\ Weak(c, t) /\ t.c.owner = s.c.owner /\ t.m = s.m /\ t.q = s.q
              /\ t.c.shown = NoShown /\ ~t.c.busy
<1>. DEFINE t == Unavailable(s)
<1>1. s \in Bundles /\ s.c \in ClientStates /\ ViewIsTrue(s.c)
    BY DEF Weak, ClientInv, Bundles
<1>2. NoShown \in Snaps /\ NoShown.status # "Ready"
    BY DEF NoShown, Snaps, Places, Values
<1>3. t \in Bundles /\ t.q = s.q /\ t.m = s.m /\ t.c = [s.c EXCEPT !.busy = FALSE, !.shown = NoShown]
    BY <1>1, <1>2 DEF Bundles, ClientStates, Unavailable
<1>4. /\ t.c.owner = s.c.owner /\ t.c.last = s.c.last /\ t.c.pending = s.c.pending /\ t.c.dev = s.c.dev
      /\ t.c.shown = NoShown /\ ~t.c.busy
    BY <1>1, <1>3 DEF ClientStates
<1>. HIDE DEF t
<1>5. ViewIsTrue(t.c)
    BY <1>1, <1>2, <1>4 DEF ViewIsTrue, SaysSo
<1>6. OneChange(c, t.c, t.q, t.m)
    BY <1>2, <1>3, <1>4 DEF Weak, ClientInv, OneChange
<1>7. Weak(c, t)
    BY <1>3, <1>4, <1>5, <1>6, Reviewed
<1>. QED
    BY <1>3, <1>4, <1>7 DEF t

\* What the client asks: a read of the runtime it knows.
LEMMA BlankOf ==
    ASSUME NEW c \in Clients, TypesInv, NEW kind \in Mutations \cup {"read", "apply"}
    PROVE  /\ Blank(c, kind) \in Requests
           /\ Blank(c, kind).kind = kind /\ Blank(c, kind).from = c /\ Blank(c, kind).to = cl[c].owner
           /\ Blank(c, kind).rev = cl[c].shown.rev /\ Blank(c, kind).saw = cl[c].shown.val
           /\ Blank(c, kind).layout = NoLayout
<1>1. cl[c] \in ClientStates
    BY DEF TypesInv
<1>. QED
    BY <1>1 DEF Blank, Requests, ClientStates, Snaps

\* Reading the settings again is a call like any other.
LEMMA ReadOf ==
    ASSUME NEW c \in Clients, TypesInv, NEW to, to = rt.owner, to # 0
    PROVE  LET call == [Blank(c, "read") EXCEPT !.to = to]
           IN call \in Requests /\ call.kind = "read" /\ call.from = c /\ call.to = to /\ CallIsTrue(call)
<1>1. Blank(c, "read") \in Requests /\ Blank(c, "read").kind = "read" /\ Blank(c, "read").from = c
    BY BlankOf
<1>2. to \in Nat /\ to \in 1 .. owners
    BY DEF TypesInv, Bounded
<1>. DEFINE b == Blank(c, "read")
            call == [b EXCEPT !.to = to]
<1>. HIDE DEF b
<1>3. call \in Requests /\ call.kind = "read" /\ call.from = c /\ call.to = to
    BY <1>1, <1>2 DEF b, Requests
<1>. HIDE DEF call
<1>4. CallIsTrue(call)
    BY <1>2, <1>3 DEF CallIsTrue
<1>. QED
    BY <1>3, <1>4 DEF call, b

\* A read also covers a change of the same client that was given up.
LEMMA RequestLayoutsGood ==
    ASSUME NEW c \in Clients, TypesInv, Layouts, NEW s, Weak(c, s)
    PROVE  LET t == RequestLayouts(c, s)
           IN Weak(c, t) /\ (LossIsTold(s.c, s.m) => LossIsTold(t.c, t.m))
<1>. DEFINE t == RequestLayouts(c, s)
            a == Outdate(c, s, {"read", "put", "delete"})
            b == [a EXCEPT !.c.busy = TRUE]
            call == [Blank(c, "read") EXCEPT !.to = s.c.owner]
<1>1. CASE s.c.busy \/ s.c.owner = 0 \/ rt.owner # s.c.owner
    BY <1>1 DEF RequestLayouts
<1>2. CASE ~(s.c.busy \/ s.c.owner = 0 \/ rt.owner # s.c.owner)
    <2>1. t = Sent(b, call)
        BY <1>2 DEF RequestLayouts
    <2>2. Weak(c, a) /\ a.c = s.c /\ (LossIsTold(s.c, s.m) => LossIsTold(a.c, a.m))
        <3>1. DOMAIN a.m = DOMAIN s.m /\ \A i \in DOMAIN s.m : a.m[i].kind = s.m[i].kind
            BY OutdateOf DEF Weak
        <3>2. Weak(c, a) /\ a.c = s.c
            BY OutdateWeak
        <3>. QED
            BY <3>1, <3>2 DEF LossIsTold, LossComing
    <2>. HIDE DEF a
    <2>3. a \in Bundles /\ a.c \in ClientStates
        BY <2>2 DEF Weak, Bundles
    <2>4. b \in Bundles /\ b.q = a.q /\ b.m = a.m /\ b.c = [a.c EXCEPT !.busy = TRUE]
        BY <2>3 DEF Bundles, ClientStates
    <2>5. /\ b.c.owner = a.c.owner /\ b.c.last = a.c.last /\ b.c.pending = a.c.pending
          /\ b.c.dev = a.c.dev /\ b.c.shown = a.c.shown /\ b.c.busy
        BY <2>3, <2>4 DEF ClientStates
    <2>. HIDE DEF b
    <2>6. ViewIsTrue(b.c)
        BY <1>2, <2>2, <2>5 DEF ViewIsTrue, SaysSo, Weak, ClientInv
    <2>7. OneChange(c, b.c, b.q, b.m)
        BY <2>2, <2>4, <2>5 DEF Weak, ClientInv, OneChange
    <2>8. Weak(c, b) /\ (LossIsTold(s.c, s.m) => LossIsTold(b.c, b.m))
        BY <2>2, <2>4, <2>5, <2>6, <2>7, Reviewed
    <2>9. call \in Requests /\ call.kind = "read" /\ call.from = c /\ call.to = b.c.owner /\ CallIsTrue(call)
        BY <1>2, <2>2, <2>5, ReadOf
    <2>. HIDE DEF call
    <2>10. Weak(c, t) /\ t.c = b.c /\ t.m = b.m
        BY <2>1, <2>8, <2>9, SentWeak DEF Mutation, Mutations
    <2>. QED
        BY <2>8, <2>10
<1>. QED
    BY <1>1, <1>2

\* Nor does requestPresentationPreferences; the client keeps what it shows.
LEMMA RequestPairGood ==
    ASSUME NEW c \in Clients, TypesInv, ~Layouts, NEW s, Weak(c, s), NEW check \in BOOLEAN
    PROVE  LET t == RequestPair(c, s, check)
           IN Weak(c, t) /\ (Follow(s.c, s.m) => Follow(t.c, t.m))
<1>. DEFINE t == RequestPair(c, s, check)
            a == Outdate(c, s, {"read"})
            b == [a EXCEPT !.c.pending = TRUE]
            call == [Blank(c, "read") EXCEPT !.to = s.c.owner, !.check = check]
<1>0. s \in Bundles /\ s.c \in ClientStates
    BY DEF Weak, Bundles
<1>1. CASE s.c.owner = 0 \/ rt.owner # s.c.owner
    <2>1. CASE check
        <3>. DEFINE u == [s EXCEPT !.c.busy = FALSE]
        <3>1. u \in Bundles /\ u.q = s.q /\ u.m = s.m /\ u.c = [s.c EXCEPT !.busy = FALSE]
            BY <1>0 DEF Bundles, ClientStates
        <3>2. /\ u.c.owner = s.c.owner /\ u.c.last = s.c.last /\ u.c.pending = s.c.pending
              /\ u.c.dev = s.c.dev /\ u.c.shown = s.c.shown /\ ~u.c.busy
            BY <1>0, <3>1 DEF ClientStates
        <3>3. t = u
            BY <1>1, <2>1 DEF RequestPair
        <3>. HIDE DEF t, u
        <3>4. ViewIsTrue(u.c)
            BY <3>2 DEF ViewIsTrue, SaysSo, Weak, ClientInv
        <3>5. OneChange(c, u.c, u.q, u.m)
            BY DEF OneChange
        <3>6. Weak(c, u)
            BY <3>1, <3>2, <3>4, <3>5, Reviewed
        <3>7. Follow(s.c, s.m) => Follow(u.c, u.m)
            BY <3>1, <3>2 DEF Follow, LossIsTold, LossComing, PairReaches, UpToDate, NothingOld
        <3>. QED
            BY <3>3, <3>6, <3>7 DEF t
    <2>2. CASE ~check
        BY <1>1, <2>2 DEF RequestPair
    <2>. QED
        BY <2>1, <2>2
<1>2. CASE ~(s.c.owner = 0 \/ rt.owner # s.c.owner) /\ s.c.pending /\ ~check
    BY <1>2 DEF RequestPair
<1>3. CASE ~(s.c.owner = 0 \/ rt.owner # s.c.owner) /\ ~(s.c.pending /\ ~check)
    <2>1. t = Sent(b, call)
        BY <1>3 DEF RequestPair
    <2>2. Weak(c, a) /\ a.c = s.c /\ (Follow(s.c, s.m) => Follow(a.c, a.m))
        BY OutdateWeak
    <2>. HIDE DEF a
    <2>3. a \in Bundles /\ a.c \in ClientStates
        BY <2>2 DEF Weak, Bundles
    <2>4. b \in Bundles /\ b.q = a.q /\ b.m = a.m /\ b.c = [a.c EXCEPT !.pending = TRUE]
        BY <2>3 DEF Bundles, ClientStates
    <2>5. /\ b.c.owner = a.c.owner /\ b.c.last = a.c.last /\ b.c.busy = a.c.busy
          /\ b.c.dev = a.c.dev /\ b.c.shown = a.c.shown
        BY <2>3, <2>4 DEF ClientStates
    <2>. HIDE DEF b
    <2>6. ViewIsTrue(b.c)
        BY <1>3, <2>2, <2>5 DEF ViewIsTrue, SaysSo, Weak, ClientInv
    <2>7. OneChange(c, b.c, b.q, b.m)
        BY DEF OneChange
    <2>8. Weak(c, b) /\ (Follow(s.c, s.m) => Follow(b.c, b.m))
        <3>1. Weak(c, b)
            BY <2>2, <2>4, <2>5, <2>6, <2>7, Reviewed
        <3>. QED
            BY <2>2, <2>4, <2>5, <3>1 DEF Follow, LossIsTold, LossComing, PairReaches, UpToDate, NothingOld
    <2>9. call \in Requests /\ call.kind = "read" /\ call.from = c /\ call.to = b.c.owner /\ CallIsTrue(call)
        <3>. DEFINE r == [Blank(c, "read") EXCEPT !.to = s.c.owner]
        <3>1. r \in Requests /\ r.kind = "read" /\ r.from = c /\ r.to = b.c.owner /\ CallIsTrue(r)
            BY <1>3, <2>2, <2>5, ReadOf
        <3>2. call = [r EXCEPT !.check = check]
            BY BlankOf DEF Mutations
        <3>. HIDE DEF r, call
        <3>. QED
            BY <3>1, <3>2 DEF Requests, CallIsTrue
    <2>. HIDE DEF call
    <2>10. Weak(c, t) /\ t.c = b.c /\ t.m = b.m
        BY <2>1, <2>8, <2>9, SentWeak
    <2>. QED
        BY <2>8, <2>10
<1>. QED
    BY <1>1, <1>2, <1>3

\* A snapshot of layouts that may be used has been said of the runtime and of this device.
LEMMA ShowLayoutsWeak ==
    ASSUME NEW c \in Clients, Layouts, NEW s, Weak(c, s), s.c.owner # 0, Idle(c, s),
           NEW snap \in Snaps, SaysSo(s.c.owner, snap)
    PROVE  LET t == ShowLayouts(s, snap)
           IN Weak(c, t) /\ t.c.owner = s.c.owner /\ t.m = s.m
<1>. DEFINE t == ShowLayouts(s, snap)
            last == IF snap.status = "Ready" THEN snap ELSE s.c.last
            u == [s EXCEPT !.c.shown = snap, !.c.busy = FALSE, !.c.last = last]
<1>0. s \in Bundles /\ s.c \in ClientStates /\ ViewIsTrue(s.c)
    BY DEF Weak, Bundles, ClientInv
<1>1. CASE ~Usable(s, snap)
    BY <1>1, UnavailableWeak DEF ShowLayouts
<1>2. CASE Usable(s, snap)
    <2>1. t = u
        BY <1>2, <1>0 DEF ShowLayouts, Bundles, ClientStates
    <2>2. last \in Snaps
        BY <1>0 DEF ClientStates
    <2>. HIDE DEF last
    <2>3. u \in Bundles /\ u.q = s.q /\ u.m = s.m
          /\ u.c = [s.c EXCEPT !.shown = snap, !.busy = FALSE, !.last = last]
        BY <1>0, <2>2 DEF Bundles, ClientStates
    <2>4. /\ u.c.owner = s.c.owner /\ u.c.last = last /\ u.c.pending = s.c.pending
          /\ u.c.dev = s.c.dev /\ u.c.shown = snap
        BY ZenonT(60), <1>0, <2>3 DEF ClientStates
    <2>. HIDE DEF t, u
    <2>5. ViewIsTrue(u.c)
        BY <1>0, <1>2, <2>4 DEF ViewIsTrue, Usable, SaysSo, last
    <2>6. OneChange(c, u.c, u.q, u.m)
        BY <2>3, <2>4 DEF OneChange, Idle
    <2>7. Weak(c, u)
        BY <2>3, <2>4, <2>5, <2>6, Reviewed
    <2>. QED
        BY <2>1, <2>3, <2>4, <2>7 DEF t
<1>. QED
    BY <1>1, <1>2

\* A pair that is shown has been said of the runtime the client knows.
LEMMA ShowPairWeak ==
    ASSUME NEW c \in Clients, ~Layouts, NEW s, Weak(c, s), s.c.owner # 0,
           NEW snap \in Snaps, SaysSo(s.c.owner, snap)
    PROVE  LET t == ShowPair(s, snap)
           IN /\ Weak(c, t) /\ t.c.owner = s.c.owner /\ t.m = s.m
              /\ t.c.shown = IF s.c.shown.status = "Ready" /\ snap.rev <= s.c.shown.rev THEN s.c.shown ELSE snap
<1>. DEFINE t == ShowPair(s, snap)
            u == [s EXCEPT !.c.shown = snap]
<1>0. s \in Bundles /\ s.c \in ClientStates /\ ViewIsTrue(s.c)
    BY DEF Weak, Bundles, ClientInv
<1>1. CASE s.c.shown.status = "Ready" /\ snap.rev <= s.c.shown.rev
    BY <1>1 DEF ShowPair
<1>2. CASE ~(s.c.shown.status = "Ready" /\ snap.rev <= s.c.shown.rev)
    <2>1. t = u
        BY <1>2 DEF ShowPair
    <2>2. u \in Bundles /\ u.q = s.q /\ u.m = s.m /\ u.c = [s.c EXCEPT !.shown = snap]
        BY <1>0 DEF Bundles, ClientStates
    <2>3. /\ u.c.owner = s.c.owner /\ u.c.last = s.c.last /\ u.c.pending = s.c.pending
          /\ u.c.dev = s.c.dev /\ u.c.shown = snap /\ u.c.busy = s.c.busy
        BY <1>0, <2>2 DEF ClientStates
    <2>. HIDE DEF t, u
    <2>4. ViewIsTrue(u.c)
        BY <1>0, <2>3 DEF ViewIsTrue
    <2>5. OneChange(c, u.c, u.q, u.m)
        BY DEF OneChange
    <2>6. Weak(c, u)
        BY <2>2, <2>3, <2>4, <2>5, Reviewed
    <2>. QED
        BY <1>2, <2>1, <2>2, <2>3, <2>6 DEF t
<1>. QED
    BY <1>1, <1>2

\* A client that was up to date, is still to be told, or has just been told is or will be.
LEMMA ShownReaches ==
    ASSUME TypesInv, ~Layouts, PairsMean, NEW k \in ClientStates, NEW shown \in Snaps, NEW snap \in Snaps,
           NEW m \in Seq(Messages),
           SaysSo(k.owner, shown), SaysSo(k.owner, snap), snap.status = "Ready",
           k.shown = IF shown.status = "Ready" /\ snap.rev <= shown.rev THEN shown ELSE snap,
           k.owner = rt.owner =>
              (shown.status = "Ready" /\ shown.rev = rt.rev) \/ ToBeTold(m) \/ snap.rev = rt.rev
    PROVE  PairReaches(k, m)
<1>. SUFFICES ASSUME k.owner = rt.owner
              PROVE  UpToDate(k) \/ ToBeTold(m)
    BY DEF PairReaches
<1>1. rt.rev \in Nat /\ snap.rev \in Nat /\ shown.rev \in Nat
    BY DEF TypesInv, StoreTypes, Snaps
<1>2. snap.rev <= rt.rev
    BY DEF PairsMean, SaysSo, Key
<1>3. shown.status = "Ready" => shown.rev <= rt.rev
    BY DEF PairsMean, SaysSo, Key
<1>. QED
    BY <1>1, <1>2, <1>3 DEF UpToDate

\* What is cleared offers nothing and waits for nothing.
LEMMA ClearedWeak ==
    ASSUME NEW c \in Clients, NEW s, Weak(c, s)
    PROVE  LET t == Cleared(c, s)
           IN /\ Weak(c, t) /\ t.c.owner = s.c.owner /\ t.c.shown = NoShown /\ t.c.last = NoShown
              /\ ~t.c.busy /\ ~t.c.pending /\ Stale(c, t, Mutations \cup {"read"})
              /\ t.c \in ClientStates
              /\ LossIsTold(s.c, s.m) => LossIsTold(t.c, t.m)
<1>. DEFINE t == Cleared(c, s)
            a == Outdate(c, s, Mutations \cup {"read"})
            u == [a EXCEPT !.c.busy = FALSE, !.c.pending = FALSE, !.c.shown = NoShown, !.c.last = NoShown]
<1>1. Weak(c, a) /\ a.c = s.c /\ Stale(c, a, Mutations \cup {"read"})
    BY OutdateWeak
<1>2. LossIsTold(s.c, s.m) => LossIsTold(a.c, a.m)
    <2>1. DOMAIN a.m = DOMAIN s.m /\ \A i \in DOMAIN s.m : a.m[i].kind = s.m[i].kind
        BY OutdateOf DEF Weak
    <2>. QED
        BY <1>1, <2>1 DEF LossIsTold, LossComing
<1>3. t = u
    BY DEF Cleared
<1>. HIDE DEF a, t
<1>4. a \in Bundles /\ a.c \in ClientStates /\ ViewIsTrue(a.c)
    BY <1>1 DEF Weak, Bundles, ClientInv
<1>5. NoShown \in Snaps /\ NoShown.status # "Ready"
    BY DEF NoShown, Snaps, Places, Values
<1>6. u \in Bundles /\ u.q = a.q /\ u.m = a.m
      /\ u.c = [a.c EXCEPT !.busy = FALSE, !.pending = FALSE, !.shown = NoShown, !.last = NoShown]
    BY <1>4, <1>5 DEF Bundles, ClientStates
<1>7. /\ u.c.owner = a.c.owner /\ u.c.dev = a.c.dev /\ u.c \in ClientStates
      /\ u.c.shown = NoShown /\ u.c.last = NoShown /\ ~u.c.busy /\ ~u.c.pending
    <2>. HIDE DEF u
    <2>1. u.c \in ClientStates
        BY <1>6 DEF Bundles
    <2>. QED
        BY <1>4, <1>6, <2>1 DEF ClientStates
<1>. HIDE DEF u
<1>8. ViewIsTrue(u.c)
    BY <1>4, <1>5, <1>7 DEF ViewIsTrue, SaysSo
<1>9. OneChange(c, u.c, u.q, u.m)
    BY <1>1, <1>5, <1>6, <1>7 DEF Weak, ClientInv, OneChange
<1>10. Weak(c, u) /\ (LossIsTold(a.c, a.m) => LossIsTold(u.c, u.m))
    BY <1>1, <1>6, <1>7, <1>8, <1>9, Reviewed
<1>11. Stale(c, u, Mutations \cup {"read"})
    BY <1>1, <1>6 DEF Stale
<1>. QED
    BY <1>1, <1>2, <1>3, <1>7, <1>10, <1>11 DEF t

\* A client that waits for less shows what it showed.
LEMMA Relieved ==
    ASSUME NEW c \in Clients, NEW s, Weak(c, s),
           NEW t \in Bundles, t.q = s.q, t.m = s.m, t.c.owner = s.c.owner, t.c.dev = s.c.dev,
           t.c.shown = s.c.shown, t.c.last = s.c.last,
           t.c.busy => s.c.busy, t.c.pending => s.c.pending,
           ~Layouts \/ Idle(c, s) \/ t.c.busy = s.c.busy \/ t.c.shown.status # "Ready"
    PROVE  Weak(c, t)
<1>1. s \in Bundles /\ ViewIsTrue(s.c) /\ OneChange(c, s.c, s.q, s.m)
    BY DEF Weak, ClientInv
<1>3. ViewIsTrue(t.c)
    BY <1>1 DEF ViewIsTrue, SaysSo
<1>4. OneChange(c, t.c, t.q, t.m)
    BY <1>1 DEF OneChange, Idle
<1>. QED
    BY <1>3, <1>4, Reviewed

\* What clearing a flag leaves as it was.
Alike(s, t) ==
    /\ t \in Bundles /\ t.q = s.q /\ t.m = s.m /\ t.c.owner = s.c.owner /\ t.c.dev = s.c.dev
    /\ t.c.shown = s.c.shown /\ t.c.last = s.c.last

\* Setting a flag of a client leaves the rest of its bundle alone.
LEMMA FlagsOf ==
    ASSUME NEW s \in Bundles, NEW b \in BOOLEAN
    PROVE  /\ LET t == [s EXCEPT !.c.busy = b]
              IN Alike(s, t) /\ t.c.busy = b /\ t.c.pending = s.c.pending
           /\ LET t == [s EXCEPT !.c.pending = b]
              IN Alike(s, t) /\ t.c.busy = s.c.busy /\ t.c.pending = b
<1>1. s.c \in ClientStates
    BY DEF Bundles
<1>2. ASSUME NEW k \in ClientStates
      PROVE  LET t == [s EXCEPT !.c = k] IN t \in Bundles /\ t.q = s.q /\ t.m = s.m /\ t.c = k
    BY DEF Bundles
<1>3. /\ [s EXCEPT !.c.busy = b] = [s EXCEPT !.c = [s.c EXCEPT !.busy = b]]
      /\ [s EXCEPT !.c.pending = b] = [s EXCEPT !.c = [s.c EXCEPT !.pending = b]]
    BY DEF Bundles
<1>4. LET k == [s.c EXCEPT !.busy = b]
      IN /\ k \in ClientStates /\ k.owner = s.c.owner /\ k.dev = s.c.dev /\ k.shown = s.c.shown
         /\ k.last = s.c.last /\ k.busy = b /\ k.pending = s.c.pending
    BY <1>1 DEF ClientStates
<1>6. LET k == [s.c EXCEPT !.pending = b]
      IN /\ k \in ClientStates /\ k.owner = s.c.owner /\ k.dev = s.c.dev /\ k.shown = s.c.shown
         /\ k.last = s.c.last /\ k.busy = s.c.busy /\ k.pending = b
    BY <1>1 DEF ClientStates
<1>. DEFINE kb == [s.c EXCEPT !.busy = b]
            kp == [s.c EXCEPT !.pending = b]
<1>7. LET t == [s EXCEPT !.c = kb] IN Alike(s, t) /\ t.c.busy = b /\ t.c.pending = s.c.pending
    <2>. HIDE DEF kb
    <2>. QED
        BY <1>2, <1>4 DEF Alike, kb
<1>9. LET t == [s EXCEPT !.c = kp] IN Alike(s, t) /\ t.c.busy = s.c.busy /\ t.c.pending = b
    <2>. HIDE DEF kp
    <2>. QED
        BY <1>2, <1>6 DEF Alike, kp
<1>. QED
    BY <1>3, <1>7, <1>9

\* An answer for the layouts, or the lack of one.
LEMMA LayoutsReadWeak ==
    ASSUME NEW c \in Clients, Layouts, NEW s, Weak(c, s), s.c.owner # 0,
           NEW error, NEW snap \in Snaps,
           error = "" => Idle(c, s) /\ SaysSo(s.c.owner, snap)
    PROVE  LET t == LayoutsRead(s, error, snap) IN Weak(c, t) /\ t.c.owner = s.c.owner /\ t.m = s.m
<1>1. CASE error # ""
    BY <1>1, UnavailableWeak DEF LayoutsRead
<1>2. CASE error = ""
    <2>. DEFINE u == [s EXCEPT !.c.busy = FALSE]
    <2>1. Alike(s, u) /\ ~u.c.busy /\ u.c.pending = s.c.pending
        BY FlagsOf DEF Weak
    <2>. HIDE DEF u
    <2>2. Weak(c, u)
        BY <1>2, <2>1, Relieved DEF Alike
    <2>3. Idle(c, u) /\ u.c.owner # 0 /\ SaysSo(u.c.owner, snap)
        BY <1>2, <2>1 DEF Idle, Alike
    <2>4. LET t == ShowLayouts(u, snap) IN Weak(c, t) /\ t.c.owner = s.c.owner /\ t.m = s.m
        BY <2>1, <2>2, <2>3, ShowLayoutsWeak DEF Alike
    <2>. QED
        BY <1>2, <2>4 DEF LayoutsRead, u
<1>. QED
    BY <1>1, <1>2

\* After an error the client offers nothing, or what it has confirmed and no change is pending.
LEMMA ChangeFailedWeak ==
    ASSUME NEW c \in Clients, NEW s, Weak(c, s), NEW error, error \in Keeps => Idle(c, s)
    PROVE  LET t == ChangeFailed(s, error) IN Weak(c, t) /\ t.c.owner = s.c.owner /\ t.m = s.m
<1>1. CASE error \in Keeps
    <2>. DEFINE u == [s EXCEPT !.c.busy = FALSE]
    <2>1. Alike(s, u) /\ ~u.c.busy /\ u.c.pending = s.c.pending
        BY FlagsOf DEF Weak
    <2>2. ChangeFailed(s, error) = u
        BY <1>1 DEF ChangeFailed
    <2>. HIDE DEF u
    <2>3. Weak(c, u)
        BY <1>1, <2>1, Relieved DEF Alike
    <2>. QED
        BY <2>1, <2>2, <2>3 DEF Alike
<1>2. CASE error \notin Keeps
    <2>. DEFINE v == Unavailable(s)
                later == v.c.later \/ error \in Reconciles
                u == [v EXCEPT !.c.later = later]
    <2>1. Weak(c, v) /\ v.c.owner = s.c.owner /\ v.m = s.m
        BY UnavailableWeak
    <2>2. ChangeFailed(s, error) = u
        BY <1>2 DEF ChangeFailed
    <2>3. v \in Bundles /\ later \in BOOLEAN
        BY <2>1 DEF Weak
    <2>. HIDE DEF v, later
    <2>4. Alike(v, u) /\ u.c.busy = v.c.busy /\ u.c.pending = v.c.pending
        <3>. DEFINE k == [v.c EXCEPT !.later = later]
        <3>1. v.c \in ClientStates
            BY <2>3 DEF Bundles
        <3>2. /\ k \in ClientStates /\ k.owner = v.c.owner /\ k.dev = v.c.dev /\ k.shown = v.c.shown
              /\ k.last = v.c.last /\ k.busy = v.c.busy /\ k.pending = v.c.pending
            BY <2>3, <3>1 DEF ClientStates
        <3>3. u = [v EXCEPT !.c = k]
            BY <2>3, <3>1 DEF Bundles, ClientStates
        <3>. HIDE DEF k
        <3>4. u \in Bundles /\ u.q = v.q /\ u.m = v.m /\ u.c = k
            BY <2>3, <3>2, <3>3 DEF Bundles
        <3>. QED
            BY <3>2, <3>4 DEF Alike
    <2>. HIDE DEF u
    <2>5. Weak(c, u)
        BY <2>1, <2>4, Relieved DEF Alike
    <2>. QED
        BY <2>1, <2>2, <2>4, <2>5 DEF Alike
<1>. QED
    BY <1>1, <1>2

\* The answers of putSavedLayout and deleteSavedLayout.
LEMMA LayoutsChangedWeak ==
    ASSUME NEW c \in Clients, Layouts, NEW s, Weak(c, s), s.c.owner # 0,
           NEW call \in Requests, NEW error, NEW snap \in Snaps,
           error # "Timeout" => Idle(c, s),
           error = "" => SaysSo(s.c.owner, snap)
    PROVE  LET t == LayoutsChanged(s, call, error, snap)
           IN Weak(c, t) /\ t.c.owner = s.c.owner /\ t.m = s.m
<1>1. CASE error # ""
    BY <1>1, ChangeFailedWeak DEF LayoutsChanged, Keeps
<1>2. CASE error = ""
    BY <1>2, UnavailableWeak, ShowLayoutsWeak DEF LayoutsChanged
<1>. QED
    BY <1>1, <1>2

\* The pair in use is shown, announced or in this snapshot.
Reaches(k, m, snap) ==
    k.owner = rt.owner => UpToDate(k) \/ ToBeTold(m) \/ snap.rev = rt.rev

\* What a client is to hear depends on its owner, what it shows and its mail.
LEMMA SameView ==
    ASSUME NEW s, NEW t, t.c.owner = s.c.owner, t.c.shown = s.c.shown, t.m = s.m
    PROVE  /\ Follow(s.c, s.m) => Follow(t.c, t.m)
           /\ \A snap : Reaches(s.c, s.m, snap) => Reaches(t.c, t.m, snap)
<1>1. LossIsTold(s.c, s.m) => LossIsTold(t.c, t.m)
    BY DEF LossIsTold, LossComing
<1>2. PairReaches(s.c, s.m) => PairReaches(t.c, t.m)
    BY DEF PairReaches, UpToDate, NothingOld
<1>3. ASSUME NEW snap, Reaches(s.c, s.m, snap)
      PROVE  Reaches(t.c, t.m, snap)
    BY <1>3 DEF Reaches, UpToDate
<1>. QED
    BY <1>1, <1>2, <1>3 DEF Follow

\* A pair that is shown is current, or its successor has been announced.
LEMMA ShowPairGood ==
    ASSUME NEW c \in Clients, TypesInv, ~Layouts, PairsMean,
           NEW s, Weak(c, s), s.c.owner # 0, LossIsTold(s.c, s.m),
           NEW snap \in Snaps, snap.status = "Ready", SaysSo(s.c.owner, snap), Reaches(s.c, s.m, snap)
    PROVE  Good(c, ShowPair(s, snap))
<1>. DEFINE t == ShowPair(s, snap)
<1>1. /\ Weak(c, t) /\ t.c.owner = s.c.owner /\ t.m = s.m
      /\ t.c.shown = IF s.c.shown.status = "Ready" /\ snap.rev <= s.c.shown.rev THEN s.c.shown ELSE snap
    BY ShowPairWeak
<1>. HIDE DEF t
<1>2. s.c \in ClientStates /\ s.m \in Seq(Messages) /\ t.c \in ClientStates /\ s.c.shown \in Snaps
    BY <1>1 DEF Weak, Bundles, ClientStates
<1>3. SaysSo(s.c.owner, s.c.shown)
    BY DEF Weak, ClientInv, ViewIsTrue
<1>4. PairReaches(t.c, s.m)
    BY <1>1, <1>2, <1>3, ShownReaches DEF Reaches, UpToDate
<1>5. LossIsTold(t.c, t.m)
    BY <1>1 DEF LossIsTold, LossComing
<1>. QED
    BY <1>1, <1>4, <1>5 DEF Good, Follow, t

\* The answer of setPresentationPreferences.
LEMMA PairSetGood ==
    ASSUME NEW c \in Clients, TypesInv, ~Layouts, PairsMean,
           NEW s, Good(c, s), s.c.owner # 0,
           NEW call, NEW error, NEW snap \in Snaps,
           error = "" => snap.status = "Ready" /\ SaysSo(s.c.owner, snap) /\ Reaches(s.c, s.m, snap)
    PROVE  Good(c, PairSet(c, s, call, error, snap))
<1>1. CASE error # "" \/ snap.val # call.pair
    BY <1>1, RequestPairGood DEF PairSet, Good
<1>2. CASE ~(error # "" \/ snap.val # call.pair)
    <2>. DEFINE u == [s EXCEPT !.c.busy = FALSE]
    <2>1. Alike(s, u) /\ ~u.c.busy /\ u.c.pending = s.c.pending
        BY FlagsOf DEF Weak, Good
    <2>2. PairSet(c, s, call, error, snap) = ShowPair(u, snap)
        BY <1>2 DEF PairSet
    <2>. HIDE DEF u
    <2>3. Weak(c, u)
        BY <1>2, <2>1, Relieved DEF Alike, Good
    <2>4. u.c.owner # 0 /\ SaysSo(u.c.owner, snap) /\ Reaches(u.c, u.m, snap) /\ LossIsTold(u.c, u.m)
        BY <1>2, <2>1, SameView DEF Alike, Good, Follow
    <2>5. Good(c, ShowPair(u, snap))
        BY <1>2, <2>3, <2>4, ShowPairGood
    <2>. QED
        BY <2>2, <2>5
<1>. QED
    BY <1>1, <1>2

\* The answer of requestPresentationPreferences.
LEMMA PairReadGood ==
    ASSUME NEW c \in Clients, TypesInv, ~Layouts, PairsMean,
           NEW s, Good(c, s), s.c.owner # 0,
           NEW call, NEW error, NEW snap \in Snaps,
           error = "" => snap.status = "Ready" /\ SaysSo(s.c.owner, snap) /\ Reaches(s.c, s.m, snap)
    PROVE  Good(c, PairRead(s, call, error, snap))
<1>. DEFINE busy == s.c.busy /\ ~call.check
            k == [s.c EXCEPT !.pending = FALSE, !.busy = busy]
            u == [s EXCEPT !.c.pending = FALSE, !.c.busy = busy]
            v == [s EXCEPT !.c.pending = FALSE, !.c.busy = @ /\ ~call.check]
<1>1. s \in Bundles /\ s.c \in ClientStates
    BY DEF Good, Weak, Bundles
<1>2. busy \in BOOLEAN /\ (busy => s.c.busy)
    OBVIOUS
<1>3. u = v
    BY <1>1 DEF Bundles, ClientStates
<1>4. PairRead(s, call, error, snap) = IF error # "" THEN v ELSE ShowPair(v, snap)
    BY DEF PairRead
<1>. HIDE DEF busy, v
<1>5. /\ k \in ClientStates /\ k.owner = s.c.owner /\ k.dev = s.c.dev /\ k.shown = s.c.shown
      /\ k.last = s.c.last /\ k.busy = busy /\ ~k.pending
    BY <1>1, <1>2 DEF ClientStates
<1>6. u = [s EXCEPT !.c = k]
    BY <1>1, <1>2 DEF Bundles, ClientStates
<1>. HIDE DEF k, u
<1>7. u \in Bundles /\ u.q = s.q /\ u.m = s.m /\ u.c = k
    BY <1>1, <1>5, <1>6 DEF Bundles
<1>8. Weak(c, u)
    BY <1>2, <1>5, <1>7, Relieved DEF Good
<1>9. Follow(u.c, u.m) /\ (Reaches(s.c, s.m, snap) => Reaches(u.c, u.m, snap)) /\ u.c.owner = s.c.owner
    BY <1>5, <1>7, SameView DEF Good
<1>10. CASE error # ""
    BY <1>3, <1>4, <1>8, <1>9, <1>10 DEF Good
<1>11. CASE error = ""
    <2>1. Good(c, ShowPair(u, snap))
        BY <1>8, <1>9, <1>11, ShowPairGood DEF Follow
    <2>. QED
        BY <1>3, <1>4, <1>11, <2>1
<1>. QED
    BY <1>10, <1>11

\* Whatever the bus says of a call: that it came to nothing, or what the runtime said.
LEMMA AnsweredGood ==
    ASSUME NEW c \in Clients, TypesInv, Means,
           NEW s, Good(c, s), s.c.owner = cl[c].owner,
           NEW call \in Requests, NEW error, NEW snap \in Snaps,
           IF Layouts THEN call.kind \in {"read", "put", "delete"} ELSE call.kind \in {"read", "set"},
           call.fresh /\ error # "Timeout" => Idle(c, s) \/ ~Layouts,
           call.fresh /\ error = "" => SaysSo(s.c.owner, snap),
           call.fresh /\ error = "" /\ ~Layouts => snap.status = "Ready" /\ Reaches(s.c, s.m, snap)
    PROVE  Good(c, Answered(c, s, call, error, snap))
<1>. DEFINE t == Answered(c, s, call, error, snap)
<1>1. CASE ~call.fresh \/ ~Context(c)
    BY <1>1 DEF Answered
<1>2. CASE call.fresh /\ Context(c) /\ Layouts
    <2>0. Weak(c, s) /\ s.c.owner # 0 /\ s.c.owner = rt.owner
        BY <1>2 DEF Good, Context
    <2>1. Weak(c, t) /\ t.c.owner = s.c.owner /\ t.m = s.m
        <3>0. (error = "" => Idle(c, s) /\ SaysSo(s.c.owner, snap)) /\ (error # "Timeout" => Idle(c, s))
            BY <1>2
        <3>1. CASE call.kind = "read"
            <4>1. t = LayoutsRead(s, error, snap)
                BY <1>2, <3>1 DEF Answered
            <4>2. LET r == LayoutsRead(s, error, snap) IN Weak(c, r) /\ r.c.owner = s.c.owner /\ r.m = s.m
                BY <1>2, <2>0, <3>0, LayoutsReadWeak
            <4>. QED
                BY <4>1, <4>2
        <3>2. CASE call.kind # "read"
            <4>1. t = LayoutsChanged(s, call, error, snap)
                BY <1>2, <3>2 DEF Answered
            <4>2. LET r == LayoutsChanged(s, call, error, snap) IN Weak(c, r) /\ r.c.owner = s.c.owner /\ r.m = s.m
                BY ZenonT(60), <1>2, <2>0, <3>0, LayoutsChangedWeak
            <4>. QED
                BY <4>1, <4>2
        <3>. QED
            BY <3>1, <3>2
    <2>. HIDE DEF t
    <2>. QED
        BY <1>2, <2>0, <2>1 DEF Good, Follow, LossIsTold, LossComing, PairReaches, t
<1>3. CASE call.fresh /\ Context(c) /\ ~Layouts
    <2>0. s.c.owner # 0 /\ PairsMean
        BY <1>3 DEF Context, Means
    <2>1. CASE call.kind = "read"
        BY <1>3, <2>0, <2>1, PairReadGood DEF Answered
    <2>2. CASE call.kind = "set"
        BY <1>3, <2>0, <2>2, PairSetGood DEF Answered
    <2>. QED
        BY <1>3, <2>1, <2>2
<1>. QED
    BY <1>1, <1>2, <1>3

-----------------------------------------------------------------------------
(* A step of a client *)

\* What is said of the settings holds while nothing happens to them.
LEMMA StoreSame ==
    ASSUME UNCHANGED <<topic, disk, rt, owners, named>>
    PROVE  /\ Means => Means'
           /\ \A call : CallIsTrue(call) => CallIsTrue(call)'
           /\ \A m : MailIsTrue(m) => MailIsTrue(m)'
           /\ \A k : ViewIsTrue(k) => ViewIsTrue(k)'
           /\ \A c, k, q, m : OneChange(c, k, q, m) => OneChange(c, k, q, m)'
           /\ \A k, m : Follow(k, m) => Follow(k, m)'
<1>1. Layouts' = Layouts
    BY DEF Layouts
<1>2. \A owner, x : SaysSo(owner, x) => SaysSo(owner, x)'
    BY DEF SaysSo, Key, Layouts, Visible
<1>3. Means => Means'
    BY DEF Means, LayoutsMean, PairsMean, OnDisk, Meaning, Key, Layouts
<1>4. \A call : CallIsTrue(call) => CallIsTrue(call)'
    BY DEF CallIsTrue, Layouts, Key, Visible
<1>5. \A m : MailIsTrue(m) => MailIsTrue(m)'
    BY <1>1, <1>2 DEF MailIsTrue, MessageIsTrue
<1>6. \A k : ViewIsTrue(k) => ViewIsTrue(k)'
    BY <1>1, <1>2 DEF ViewIsTrue
<1>7. \A c, k, q, m : OneChange(c, k, q, m) => OneChange(c, k, q, m)'
    BY <1>1 DEF OneChange
<1>8. \A k, m : Follow(k, m) => Follow(k, m)'
    BY <1>1 DEF Follow, LossIsTold, LossComing, PairReaches, UpToDate, ToBeTold, NothingOld
<1>. QED
    BY <1>3, <1>4, <1>5, <1>6, <1>7, <1>8

\* A step of one client on its own bundle keeps the invariant: the others lose no call.
LEMMA CommitSafe ==
    ASSUME IInv, NEW c \in Clients, NEW s, Good(c, s), Commit(c, s), Bounded',
           UNCHANGED <<topic, disk, rt, owners, named, applied>>
    PROVE  IInv'
<1>1. /\ cl \in [Clients -> ClientStates] /\ mail \in [Clients -> Seq(Messages)]
      /\ StoreTypes /\ s \in Bundles
    BY DEF IInv, TypesInv, Good, Weak
<1>2. /\ cl' \in [Clients -> ClientStates] /\ mail' \in [Clients -> Seq(Messages)] /\ calls' = s.q
      /\ cl'[c] = s.c /\ mail'[c] = s.m /\ calls' \in Seq(Requests)
      /\ \A d \in Clients \ {c} : cl'[d] = cl[d] /\ mail'[d] = mail[d]
    BY <1>1 DEF Commit, Bundles
<1>3. TypesInv'
    BY <1>1, <1>2 DEF TypesInv, StoreTypes
<1>4. Means'
    BY StoreSame DEF IInv
<1>5. \A i \in DOMAIN calls' : CallIsTrue(calls[i])'
    BY <1>2, StoreSame DEF Good, Weak
<1>6. ASSUME NEW d \in Clients
      PROVE  ClientInv(d, cl'[d], calls', mail'[d]) /\ Follow(cl'[d], mail'[d])
    <2>1. CASE d = c
        BY <1>2, <2>1 DEF Good, Weak
    <2>2. CASE d # c
        <3>1. ClientInv(d, cl[d], calls, mail[d]) /\ Follow(cl[d], mail[d])
            BY DEF IInv
        <3>2. \A i \in DOMAIN calls' : calls'[i].from = d => i \in DOMAIN calls /\ calls'[i] = calls[i]
            BY <1>2, <2>2 DEF Good, Weak, Frame
        <3>3. FreshIsOwn(d, cl[d], calls', mail[d])
            BY <3>1, <3>2 DEF ClientInv, FreshIsOwn
        <3>4. OwnersInOrder(d, cl[d], calls', mail[d])
            BY <3>1, <3>2 DEF ClientInv, OwnersInOrder
        <3>5. OneChange(d, cl[d], calls', mail[d])
            BY <3>1, <3>2 DEF ClientInv, OneChange
        <3>. QED
            BY <1>2, <2>2, <3>1, <3>3, <3>4, <3>5 DEF ClientInv
    <2>. QED
        BY <2>1, <2>2
<1>7. ASSUME NEW d \in Clients
      PROVE  (ClientInv(d, cl[d], calls, mail[d]) /\ Follow(cl[d], mail[d]))'
    <2>0. PICK k, q, m : k = cl'[d] /\ q = calls' /\ m = mail'[d]
        OBVIOUS
    <2>1. ClientInv(d, k, q, m) /\ Follow(k, m)
        BY <1>6, <2>0
    <2>2. MailIsTrue(m)' /\ ViewIsTrue(k)' /\ OneChange(d, k, q, m)' /\ Follow(k, m)'
        BY <2>1, StoreSame DEF ClientInv
    <2>. QED
        BY <2>0, <2>1, <2>2 DEF ClientInv
<1>8. AppliedAsSeen'
    BY DEF IInv, AppliedAsSeen
<1>. QED
    BY <1>3, <1>4, <1>5, <1>7, <1>8 DEF IInv

\* The bundle of a client before its step.
LEMMA OfGood ==
    ASSUME IInv, NEW c \in Clients
    PROVE  Good(c, Of(c)) /\ Of(c).c = cl[c] /\ Of(c).q = calls /\ Of(c).m = mail[c]
<1>1. /\ cl[c] \in ClientStates /\ mail[c] \in Seq(Messages) /\ calls \in Seq(Requests)
      /\ ClientInv(c, cl[c], calls, mail[c]) /\ Follow(cl[c], mail[c])
      /\ \A i \in DOMAIN calls : CallIsTrue(calls[i])
    BY DEF IInv, TypesInv
<1>2. Of(c) \in Bundles /\ Of(c).c = cl[c] /\ Of(c).q = calls /\ Of(c).m = mail[c]
    BY <1>1 DEF Of, Bundles
<1>3. Frame(c, calls)
    BY DEF Frame
<1>. QED
    BY <1>1, <1>2, <1>3 DEF Good, Weak

\* A message has been taken from the client's mail.
LEMMA TakenWeak ==
    ASSUME IInv, NEW c \in Clients, mail[c] # <<>>
    PROVE  LET s == [Of(c) EXCEPT !.m = Tail(@)]
           IN /\ Weak(c, s) /\ s.c = cl[c] /\ s.q = calls /\ s.m \in Seq(Messages)
              /\ Head(mail[c]) = mail[c][1] /\ 1 \in DOMAIN mail[c]
              /\ \A i \in DOMAIN s.m : i + 1 \in DOMAIN mail[c] /\ s.m[i] = mail[c][i + 1]
              /\ \A i \in DOMAIN mail[c] : i # 1 => i - 1 \in DOMAIN s.m /\ mail[c][i] = s.m[i - 1]
<1>. DEFINE o == Of(c)
            s == [o EXCEPT !.m = Tail(@)]
<1>1. Weak(c, o) /\ o.c = cl[c] /\ o.q = calls /\ o.m = mail[c]
    BY OfGood DEF Good
<1>. HIDE DEF o
<1>2. o \in Bundles /\ o.m \in Seq(Messages)
    BY <1>1 DEF Weak, Bundles
<1>3. /\ Tail(o.m) \in Seq(Messages) /\ Len(o.m) \in Nat \ {0} /\ DOMAIN o.m = 1 .. Len(o.m)
      /\ DOMAIN Tail(o.m) = 1 .. Len(o.m) - 1 /\ Head(o.m) = o.m[1]
      /\ \A i \in 1 .. Len(o.m) - 1 : Tail(o.m)[i] = o.m[i + 1]
    BY <1>1, <1>2
<1>4. s \in Bundles /\ s.c = o.c /\ s.q = o.q /\ s.m = Tail(o.m)
    BY <1>2, <1>3 DEF Bundles
<1>5. \A i \in DOMAIN s.m : i + 1 \in DOMAIN o.m /\ s.m[i] = o.m[i + 1]
    BY <1>3, <1>4
<1>6. \A i \in DOMAIN o.m : i # 1 => i - 1 \in DOMAIN s.m /\ o.m[i] = s.m[i - 1]
    BY <1>3, <1>4
<1>. HIDE DEF s
<1>7. MailIsTrue(s.m)
    BY <1>1, <1>5 DEF Weak, ClientInv, MailIsTrue, MessageIsTrue
<1>8. FreshIsOwn(c, s.c, s.q, s.m)
    BY <1>1, <1>4, <1>5 DEF Weak, ClientInv, FreshIsOwn
<1>9. OwnersInOrder(c, s.c, s.q, s.m)
    <2>1. \A i, j \in DOMAIN s.m : i < j => i + 1 < j + 1
        BY <1>3, <1>4
    <2>2. OwnersInOrder(c, o.c, o.q, o.m)
        BY <1>1 DEF Weak, ClientInv
    <2>. QED
        BY <1>4, <1>5, <2>1, <2>2 DEF OwnersInOrder
<1>10. OneChange(c, s.c, s.q, s.m)
    BY <1>1, <1>4, <1>5 DEF Weak, ClientInv, OneChange
<1>11. Weak(c, s)
    BY <1>1, <1>4, <1>7, <1>8, <1>9, <1>10 DEF Weak, ClientInv
<1>. QED
    BY <1>1, <1>3, <1>4, <1>5, <1>6, <1>11 DEF s, o

\* Only the message that says so tells of a loss or of a pair.
LEMMA TakenFollows ==
    ASSUME IInv, NEW c \in Clients, mail[c] # <<>>,
           NEW s, s = [Of(c) EXCEPT !.m = Tail(@)],
           NEW g, g = Head(mail[c])
    PROVE  /\ g.kind # "lost" => LossIsTold(s.c, s.m)
           /\ ToBeTold(mail[c]) => ToBeTold(s.m) \/ (g.kind = "pair" /\ g.owner = rt.owner /\ g.snap.rev = rt.rev)
           /\ NothingOld(cl[c], mail[c]) => NothingOld(s.c, s.m)
           /\ g.kind # "pair" => PairReaches(s.c, s.m)
<1>1. /\ s.c = cl[c] /\ s.m \in Seq(Messages) /\ g = mail[c][1] /\ 1 \in DOMAIN mail[c]
      /\ \A i \in DOMAIN s.m : i + 1 \in DOMAIN mail[c] /\ s.m[i] = mail[c][i + 1]
      /\ \A i \in DOMAIN mail[c] : i # 1 => i - 1 \in DOMAIN s.m /\ mail[c][i] = s.m[i - 1]
    BY TakenWeak
<1>2. LossIsTold(cl[c], mail[c]) /\ PairReaches(cl[c], mail[c])
    BY DEF IInv, Follow
<1>3. DOMAIN s.m \in SUBSET Nat /\ DOMAIN mail[c] \in SUBSET Nat
    BY <1>1 DEF IInv, TypesInv
<1>4. ASSUME g.kind # "lost"
      PROVE  LossIsTold(s.c, s.m)
    <2>1. SUFFICES ASSUME s.c.owner # 0, s.c.owner # rt.owner
                   PROVE  \E i \in DOMAIN s.m :
                             s.m[i].kind = "lost" /\ \A j \in DOMAIN s.m : j < i => s.m[j].kind # "owner"
        BY DEF LossIsTold, LossComing
    <2>2. PICK i \in DOMAIN mail[c] :
              mail[c][i].kind = "lost" /\ \A j \in DOMAIN mail[c] : j < i => mail[c][j].kind # "owner"
        BY <1>1, <1>2, <2>1 DEF LossIsTold, LossComing
    <2>3. i - 1 \in DOMAIN s.m /\ s.m[i - 1].kind = "lost" /\ i \in Nat
        BY <1>1, <1>3, <1>4, <2>2
    <2>4. ASSUME NEW j \in DOMAIN s.m, j < i - 1
          PROVE  s.m[j].kind # "owner"
        <3>1. j + 1 \in DOMAIN mail[c] /\ j + 1 < i /\ s.m[j] = mail[c][j + 1]
            BY <1>1, <1>3, <2>3, <2>4
        <3>. QED
            BY <2>2, <3>1
    <2>. QED
        BY <2>3, <2>4
<1>5. ASSUME ToBeTold(mail[c]), ~(g.kind = "pair" /\ g.owner = rt.owner /\ g.snap.rev = rt.rev)
      PROVE  ToBeTold(s.m)
    <2>1. PICK i \in DOMAIN mail[c] :
              mail[c][i].kind = "pair" /\ mail[c][i].owner = rt.owner /\ mail[c][i].snap.rev = rt.rev
        BY <1>5 DEF ToBeTold
    <2>2. i - 1 \in DOMAIN s.m /\ s.m[i - 1] = mail[c][i]
        BY <1>1, <1>5, <2>1
    <2>. QED
        BY <2>1, <2>2 DEF ToBeTold
<1>6. NothingOld(cl[c], mail[c]) => NothingOld(s.c, s.m)
    BY <1>1 DEF NothingOld
<1>7. g.kind # "pair" => PairReaches(s.c, s.m)
    BY <1>1, <1>2, <1>5, <1>6 DEF PairReaches, UpToDate
<1>. QED
    BY <1>4, <1>5, <1>6, <1>7

\* The answer comes in.
LEMMA AnswerDelivered ==
    ASSUME IInv, NEW c \in Clients, mail[c] # <<>>,
           NEW s, s = [Of(c) EXCEPT !.m = Tail(@)],
           NEW g, g = Head(mail[c]), g.kind = "answer"
    PROVE  Good(c, Answered(c, s, g.call, g.error, g.snap))
<1>1. Weak(c, s) /\ s.c = cl[c] /\ s.q = calls /\ g = mail[c][1] /\ 1 \in DOMAIN mail[c]
    BY TakenWeak
<1>2. Good(c, s)
    BY <1>1, TakenFollows DEF Good, Follow
<1>3. /\ MailIsTrue(mail[c]) /\ FreshIsOwn(c, cl[c], calls, mail[c]) /\ OneChange(c, cl[c], calls, mail[c])
      /\ PairReaches(cl[c], mail[c])
    BY DEF IInv, ClientInv, Follow
<1>4. g.call \in Requests /\ g.snap \in Snaps
    BY SMTT(40), <1>1 DEF IInv, TypesInv, Messages
<1>5. IF Layouts THEN g.call.kind \in {"read", "put", "delete"}
      ELSE g.call.kind \in {"read", "set"} /\ g.snap.status = "Ready"
    BY <1>1, <1>3 DEF MailIsTrue, MessageIsTrue
<1>6. g.call.fresh => g.call.to = cl[c].owner /\ g.call.to \in 1 .. owners /\ SaysSo(cl[c].owner, g.snap)
    BY <1>1, <1>3 DEF FreshIsOwn, MailIsTrue, MessageIsTrue
<1>7. g.call.fresh => Idle(c, s) \/ ~Layouts
    BY <1>1, <1>3 DEF OneChange, Idle
<1>8. g.call.fresh /\ ~Layouts => Reaches(s.c, s.m, g.snap)
    <2>1. owners \in Nat
        BY DEF IInv, TypesInv, Bounded
    <2>2. ToBeTold(mail[c]) => ToBeTold(s.m)
        BY TakenFollows
    <2>3. g.call.fresh /\ NothingOld(cl[c], mail[c]) => g.snap.rev = rt.rev
        BY <1>1 DEF NothingOld
    <2>. QED
        BY <1>1, <1>3, <1>6, <2>1, <2>2, <2>3 DEF PairReaches, Reaches
<1>9. TypesInv /\ Means
    BY DEF IInv
<1>. QED
    BY <1>1, <1>2, <1>4, <1>5, <1>6, <1>7, <1>8, <1>9, AnsweredGood

\* The announcement of the preferences comes in.
LEMMA PairDelivered ==
    ASSUME IInv, NEW c \in Clients, mail[c] # <<>>,
           NEW s, s = [Of(c) EXCEPT !.m = Tail(@)],
           NEW g, g = Head(mail[c]), g.kind = "pair"
    PROVE  Good(c, PairAnnounced(c, s, g))
<1>1. Weak(c, s) /\ s.c = cl[c] /\ g = mail[c][1] /\ 1 \in DOMAIN mail[c]
    BY TakenWeak
<1>2. MailIsTrue(mail[c]) /\ PairReaches(cl[c], mail[c])
    BY DEF IInv, ClientInv, Follow
<1>3. ~Layouts /\ g.snap.status = "Ready" /\ SaysSo(g.owner, g.snap)
    BY <1>1, <1>2 DEF MailIsTrue, MessageIsTrue
<1>4. g.snap \in Snaps
    BY <1>1 DEF IInv, TypesInv, Messages
<1>5. /\ LossIsTold(s.c, s.m)
      /\ ToBeTold(mail[c]) => ToBeTold(s.m) \/ (g.owner = rt.owner /\ g.snap.rev = rt.rev)
      /\ NothingOld(cl[c], mail[c]) => NothingOld(s.c, s.m)
    BY TakenFollows
<1>6. TypesInv /\ PairsMean
    BY <1>3 DEF IInv, Means
<1>7. CASE Context(c) /\ g.owner = s.c.owner
    <2>1. s.c.owner # 0 /\ s.c.owner = rt.owner
        BY <1>1, <1>7 DEF Context
    <2>2. NothingOld(cl[c], mail[c]) => FALSE
        BY <1>1, <1>7, <2>1 DEF NothingOld
    <2>3. Reaches(s.c, s.m, g.snap)
        BY <1>1, <1>2, <1>3, <1>5, <2>1, <2>2 DEF PairReaches, Reaches
    <2>4. SaysSo(s.c.owner, g.snap)
        BY <1>3, <1>7
    <2>. QED
        BY <1>1, <1>3, <1>4, <1>5, <1>6, <1>7, <2>1, <2>3, <2>4, ShowPairGood DEF PairAnnounced
<1>8. CASE ~(Context(c) /\ g.owner = s.c.owner)
    <2>1. PairReaches(s.c, s.m)
        BY <1>1, <1>2, <1>5, <1>8 DEF PairReaches, Context
    <2>. QED
        BY <1>1, <1>5, <1>8, <2>1 DEF PairAnnounced, Good, Follow
<1>. QED
    BY <1>7, <1>8

\* The runtime the client knew is gone.
LEMMA LossDelivered ==
    ASSUME IInv, NEW c \in Clients, mail[c] # <<>>,
           NEW s, s = [Of(c) EXCEPT !.m = Tail(@)]
    PROVE  Good(c, [Cleared(c, s) EXCEPT !.c.owner = 0, !.c.dev = NoDevice])
<1>. DEFINE v == Cleared(c, s)
            k == [v.c EXCEPT !.owner = 0, !.dev = NoDevice]
            t == [v EXCEPT !.c.owner = 0, !.c.dev = NoDevice]
<1>1. /\ Weak(c, v) /\ v.c \in ClientStates /\ v.c.shown = NoShown /\ v.c.last = NoShown
      /\ ~v.c.busy /\ ~v.c.pending /\ Stale(c, v, Mutations \cup {"read"})
    BY TakenWeak, ClearedWeak
<1>. HIDE DEF v
<1>2. v \in Bundles
    BY <1>1 DEF Weak
<1>3. /\ k \in ClientStates /\ k.owner = 0 /\ k.shown = NoShown /\ k.last = NoShown
      /\ ~k.busy /\ ~k.pending
    BY <1>1 DEF ClientStates, Places
<1>4. t = [v EXCEPT !.c = k]
    BY <1>1, <1>2 DEF Bundles, ClientStates
<1>. HIDE DEF k, t
<1>5. t \in Bundles /\ t.q = v.q /\ t.m = v.m /\ t.c = k
    BY <1>2, <1>3, <1>4 DEF Bundles
<1>6. /\ \A i \in DOMAIN v.q : CallIsTrue(v.q[i]) /\ v.q[i] \in Requests
      /\ MailIsTrue(v.m) /\ owners \in Nat
    BY <1>1, <1>2 DEF Weak, ClientInv, Bundles, IInv, TypesInv, Bounded
<1>7. ViewIsTrue(k)
    BY <1>3, <1>6 DEF ViewIsTrue, SaysSo, NoShown
<1>8. FreshIsOwn(c, k, v.q, v.m)
    BY <1>1, <1>6 DEF FreshIsOwn, Stale, MailIsTrue, MessageIsTrue, Requests, Mutations
<1>9. OwnersInOrder(c, k, v.q, v.m)
    <2>1. OwnersInOrder(c, v.c, v.q, v.m)
        BY <1>1 DEF Weak, ClientInv
    <2>2. \A i \in DOMAIN v.m : v.m[i].kind = "owner" => 0 < v.m[i].owner
        BY <1>6 DEF MailIsTrue, MessageIsTrue
    <2>. QED
        BY <1>3, <2>1, <2>2 DEF OwnersInOrder
<1>10. OneChange(c, k, v.q, v.m)
    BY <1>3, <1>6 DEF OneChange, CallIsTrue
<1>11. Follow(k, v.m)
    BY <1>3 DEF Follow, LossIsTold, LossComing, PairReaches
<1>. QED
    BY <1>1, <1>5, <1>6, <1>7, <1>8, <1>9, <1>10, <1>11 DEF Good, Weak, ClientInv, t, v

\* Only the changes of the device are covered.
LEMMA CoveredOf ==
    ASSUME NEW m \in Seq(Messages)
    PROVE  /\ Covered(m) \in Seq(Messages) /\ DOMAIN Covered(m) = DOMAIN m
           /\ \A i \in DOMAIN m : IF m[i].kind = "device" THEN Covered(m)[i].kind = "covered"
                                  ELSE Covered(m)[i] = m[i]
<1>1. [kind |-> "covered"] \in Messages
    BY DEF Messages
<1>2. Covered(m) \in [DOMAIN m -> Messages]
    BY <1>1 DEF Covered
<1>3. Covered(m) \in Seq(Messages) /\ DOMAIN Covered(m) = DOMAIN m
    BY <1>2, Mapped
<1>. QED
    BY <1>3 DEF Covered

\* A client that hears of a runtime knows of no other.
LEMMA OwnerDelivered ==
    ASSUME IInv, NEW c \in Clients, mail[c] # <<>>,
           NEW s, s = [Of(c) EXCEPT !.m = Tail(@)],
           NEW g, g = Head(mail[c]), g.kind = "owner"
    PROVE  Good(c, Handshake(c, s, g.owner))
<1>1. /\ Weak(c, s) /\ s.c = cl[c] /\ s.q = calls /\ g = mail[c][1] /\ 1 \in DOMAIN mail[c]
      /\ s.m \in Seq(Messages)
      /\ \A i \in DOMAIN s.m : i + 1 \in DOMAIN mail[c] /\ s.m[i] = mail[c][i + 1]
    BY TakenWeak
<1>2. /\ MailIsTrue(mail[c]) /\ ViewIsTrue(cl[c]) /\ FreshIsOwn(c, cl[c], calls, mail[c])
      /\ OwnersInOrder(c, cl[c], calls, mail[c]) /\ LossIsTold(cl[c], mail[c])
      /\ \A i \in DOMAIN calls : CallIsTrue(calls[i])
    BY DEF IInv, ClientInv, Follow
<1>3. CASE rt.owner # g.owner
    <2>1. LossIsTold(s.c, s.m) /\ PairReaches(s.c, s.m)
        BY TakenFollows
    <2>. QED
        BY <1>1, <1>3, <2>1 DEF Handshake, Good, Follow
<1>4. CASE rt.owner = g.owner
    <2>. DEFINE m == Covered(s.m)
                k == [s.c EXCEPT !.owner = g.owner, !.dev = rt.dev]
                t == [s EXCEPT !.c.owner = g.owner, !.c.dev = rt.dev, !.m = m]
    <2>1. /\ owners \in Nat /\ g.owner \in 1 .. owners /\ cl[c].owner < g.owner /\ cl[c].owner \in Nat
          /\ rt.dev \in Places
        BY <1>1, <1>2 DEF IInv, TypesInv, Bounded, MailIsTrue, MessageIsTrue, OwnersInOrder, ClientStates, StoreTypes
    <2>2. cl[c].owner = 0
        <3>1. SUFFICES ASSUME cl[c].owner # 0
                       PROVE  FALSE
            OBVIOUS
        <3>2. PICK i \in DOMAIN mail[c] :
                  mail[c][i].kind = "lost" /\ \A j \in DOMAIN mail[c] : j < i => mail[c][j].kind # "owner"
            BY <1>2, <1>4, <2>1, <3>1 DEF LossIsTold, LossComing
        <3>3. i \in Nat \ {0, 1}
            BY <1>1, <3>2 DEF IInv, TypesInv
        <3>. QED
            BY <1>1, <3>2, <3>3
    <2>3. s.c.shown.status # "Ready" /\ ~s.c.busy /\ ~s.c.pending
        BY <1>1, <1>2, <2>2 DEF ViewIsTrue
    <2>4. s \in Bundles /\ s.c \in ClientStates
        BY <1>1 DEF Weak, Bundles
    <2>5. /\ m \in Seq(Messages) /\ DOMAIN m = DOMAIN s.m
          /\ \A i \in DOMAIN m : IF s.m[i].kind = "device" THEN m[i].kind = "covered" ELSE m[i] = s.m[i]
        BY <1>1, CoveredOf
    <2>. HIDE DEF m
    <2>6. /\ k \in ClientStates /\ k.owner = g.owner /\ k.shown = s.c.shown /\ k.last = s.c.last
          /\ k.busy = s.c.busy /\ k.pending = s.c.pending
        <3>1. g.owner \in Nat
            BY <2>1
        <3>. QED
            BY <2>1, <2>4, <3>1 DEF ClientStates
    <2>7. t = [s EXCEPT !.c = k, !.m = m]
        BY <2>4 DEF Bundles, ClientStates
    <2>. HIDE DEF k, t
    <2>8. t \in Bundles /\ t.q = s.q /\ t.m = m /\ t.c = k
        BY <2>4, <2>5, <2>6, <2>7 DEF Bundles
    <2>9. \A i \in DOMAIN m : m[i].kind # "covered" =>
              i + 1 \in DOMAIN mail[c] /\ m[i] = mail[c][i + 1]
        BY <1>1, <2>5
    <2>10. MailIsTrue(m)
        BY <1>2, <2>9 DEF MailIsTrue, MessageIsTrue
    <2>11. ViewIsTrue(k)
        BY <1>1, <1>2, <2>1, <2>2, <2>3, <2>6 DEF ViewIsTrue, SaysSo, Key
    <2>12. /\ \A i \in DOMAIN calls : calls[i].from = c /\ calls[i].fresh => calls[i].kind = "apply"
           /\ \A i \in DOMAIN m : m[i].kind = "answer" => ~m[i].call.fresh
        BY <1>2, <2>1, <2>2, <2>9 DEF FreshIsOwn, CallIsTrue, MailIsTrue, MessageIsTrue
    <2>13. FreshIsOwn(c, k, calls, m)
        BY <2>12 DEF FreshIsOwn
    <2>14. OwnersInOrder(c, k, calls, m)
        <3>1. DOMAIN m \in SUBSET (Nat \ {0})
            BY <2>5
        <3>2. ASSUME NEW i \in DOMAIN m, m[i].kind = "owner"
              PROVE  g.owner < m[i].owner
            BY <1>1, <1>2, <2>9, <3>1, <3>2 DEF OwnersInOrder
        <3>3. ASSUME NEW i \in DOMAIN m, m[i].kind = "owner"
              PROVE  /\ \A j \in DOMAIN m : m[j].kind = "owner" /\ i < j => m[i].owner < m[j].owner
                     /\ \A j \in DOMAIN m : m[j].kind = "pair" => m[j].owner < m[i].owner
                     /\ \A j \in DOMAIN calls : calls[j].from = c => calls[j].to < m[i].owner
            BY <1>2, <2>9, <3>1, <3>3 DEF OwnersInOrder
        <3>. QED
            BY <2>6, <3>2, <3>3 DEF OwnersInOrder
    <2>15. \A j \in DOMAIN calls : calls[j].from = c => calls[j].to # g.owner
        <3>1. \A j \in DOMAIN calls : calls[j].from = c => calls[j].to < g.owner
            BY <1>1, <1>2 DEF OwnersInOrder
        <3>. QED
            BY <1>2, <2>1, <3>1 DEF CallIsTrue
    <2>16. OneChange(c, k, calls, m)
        BY <2>6, <2>15 DEF OneChange
    <2>17. PairReaches(k, m)
        <3>1. \A i \in DOMAIN m : m[i].kind = "pair" => m[i].owner < g.owner
            BY <1>1, <1>2, <2>9 DEF OwnersInOrder
        <3>2. \A i \in DOMAIN m : m[i].kind = "pair" => m[i].owner # rt.owner
            BY <1>4, <2>1, <3>1
        <3>. QED
            BY <2>3, <2>6, <2>12, <3>2 DEF PairReaches, NothingOld
    <2>18. Weak(c, t)
        BY <1>1, <2>8, <2>10, <2>11, <2>13, <2>14, <2>16 DEF Weak, ClientInv
    <2>19. Follow(t.c, t.m)
        BY <1>4, <2>6, <2>8, <2>17 DEF Follow, LossIsTold, LossComing
    <2>20. TypesInv
        BY DEF IInv
    <2>21. Handshake(c, s, g.owner) = IF Layouts THEN RequestLayouts(c, t) ELSE RequestPair(c, t, FALSE)
        BY <1>4 DEF Handshake, t, m
    <2>22. CASE Layouts
        <3>1. LET r == RequestLayouts(c, t) IN Weak(c, r) /\ LossIsTold(r.c, r.m)
            BY <2>18, <2>19, <2>20, <2>22, RequestLayoutsGood DEF Follow
        <3>. QED
            BY <2>21, <2>22, <3>1 DEF Good, Follow, PairReaches
    <2>23. CASE ~Layouts
        BY <2>18, <2>19, <2>20, <2>21, <2>23, RequestPairGood DEF Good
    <2>. QED
        BY <2>22, <2>23
<1>. QED
    BY <1>3, <1>4

\* The device has changed: nothing of the one before stays on offer.
LEMMA DeviceDelivered ==
    ASSUME IInv, NEW c \in Clients, mail[c] # <<>>,
           NEW s, s = [Of(c) EXCEPT !.m = Tail(@)],
           NEW g, g = Head(mail[c]), g.kind = "device", Layouts
    PROVE  Good(c, DeviceChanged(c, s, g.dev))
<1>1. Weak(c, s) /\ s.c = cl[c] /\ g = mail[c][1] /\ 1 \in DOMAIN mail[c]
    BY TakenWeak
<1>2. Good(c, s)
    BY <1>1, TakenFollows DEF Good, Follow
<1>3. CASE ~Context(c) \/ g.dev = s.c.dev
    BY <1>2, <1>3 DEF DeviceChanged
<1>4. CASE ~(~Context(c) \/ g.dev = s.c.dev)
    <2>. DEFINE v == Cleared(c, s)
                k == [v.c EXCEPT !.dev = g.dev, !.later = TRUE]
                t == [v EXCEPT !.c.dev = g.dev, !.c.later = TRUE]
    <2>1. /\ Weak(c, v) /\ v.c \in ClientStates /\ v.c.shown = NoShown /\ v.c.last = NoShown
          /\ ~v.c.busy /\ ~v.c.pending /\ LossIsTold(v.c, v.m)
        BY <1>2, ClearedWeak DEF Good, Follow
    <2>2. DeviceChanged(c, s, g.dev) = t
        BY <1>4 DEF DeviceChanged
    <2>. HIDE DEF v
    <2>3. v \in Bundles /\ g.dev \in Places
        BY <1>1, <2>1 DEF Weak, IInv, TypesInv, Messages
    <2>4. /\ k \in ClientStates /\ k.owner = v.c.owner /\ k.shown = NoShown /\ k.last = NoShown
          /\ ~k.busy /\ ~k.pending
        BY <2>1, <2>3 DEF ClientStates
    <2>5. t = [v EXCEPT !.c = k]
        BY <2>1, <2>3 DEF Bundles, ClientStates
    <2>. HIDE DEF k, t
    <2>6. t \in Bundles /\ t.q = v.q /\ t.m = v.m /\ t.c = k
        BY <2>3, <2>4, <2>5 DEF Bundles
    <2>7. NoShown.status # "Ready" /\ ViewIsTrue(v.c) /\ OneChange(c, v.c, v.q, v.m)
        BY <2>1 DEF Weak, ClientInv, NoShown
    <2>8. ViewIsTrue(t.c)
        BY <2>4, <2>6, <2>7 DEF ViewIsTrue, SaysSo
    <2>9. OneChange(c, t.c, t.q, t.m)
        BY <2>4, <2>6, <2>7 DEF OneChange
    <2>10. Weak(c, t) /\ LossIsTold(t.c, t.m)
        BY <2>1, <2>4, <2>6, <2>8, <2>9, Reviewed
    <2>. QED
        BY <2>2, <2>10 DEF Good, Follow, PairReaches
<1>. QED
    BY <1>3, <1>4

\* Whatever comes in.
LEMMA DeliverSafe ==
    ASSUME IInv, NEW c \in Clients, Deliver(c)
    PROVE  IInv'
<1>. DEFINE g == Head(mail[c])
            s == [Of(c) EXCEPT !.m = Tail(@)]
            t == CASE g.kind = "answer" -> Answered(c, s, g.call, g.error, g.snap)
                   [] g.kind = "lost" -> [Cleared(c, s) EXCEPT !.c.owner = 0, !.c.dev = NoDevice]
                   [] g.kind = "owner" -> Handshake(c, s, g.owner)
                   [] g.kind = "device" -> IF Layouts THEN DeviceChanged(c, s, g.dev) ELSE s
                   [] g.kind = "pair" -> PairAnnounced(c, s, g)
                   [] g.kind = "covered" -> s
<1>1. mail[c] # <<>> /\ Commit(c, t) /\ UNCHANGED <<storeVars, applied, wishes>>
    BY DEF Deliver
<1>2. g \in Messages
    BY <1>1, TakenWeak DEF IInv, TypesInv
<1>3. Weak(c, s) /\ (g.kind \notin {"lost", "pair"} => Good(c, s))
    BY <1>1, TakenWeak, TakenFollows DEF Good, Follow
<1>4. Good(c, t)
    <2>1. CASE g.kind = "answer"
        BY <1>1, <2>1, AnswerDelivered
    <2>2. CASE g.kind = "lost"
        BY <1>1, <2>2, LossDelivered
    <2>3. CASE g.kind = "owner"
        BY <1>1, <2>3, OwnerDelivered
    <2>4. CASE g.kind = "device"
        BY <1>1, <1>3, <2>4, DeviceDelivered
    <2>5. CASE g.kind = "pair"
        BY <1>1, <2>5, PairDelivered
    <2>6. CASE g.kind = "covered"
        BY <1>3, <2>6
    <2>. QED
        BY <1>2, <2>1, <2>2, <2>3, <2>4, <2>5, <2>6 DEF Messages
<1>. HIDE DEF t
<1>. QED
    BY <1>1, <1>4, CommitSafe DEF storeVars, IInv, TypesInv, Bounded

\* refreshAll and its parts.
LEMMA RefreshSafe ==
    ASSUME IInv, NEW c \in Clients, Refresh(c)
    PROVE  IInv'
<1>. DEFINE t == IF Layouts THEN RequestLayouts(c, Of(c)) ELSE RequestPair(c, Of(c), FALSE)
<1>1. Commit(c, t) /\ Wish /\ UNCHANGED <<storeVars, applied>>
    BY DEF Refresh
<1>2. Weak(c, Of(c)) /\ Follow(Of(c).c, Of(c).m) /\ TypesInv
    BY OfGood DEF Good, IInv
<1>3. Good(c, t)
    <2>1. CASE Layouts
        BY <1>2, <2>1, RequestLayoutsGood DEF Good, Follow, PairReaches
    <2>2. CASE ~Layouts
        BY <1>2, <2>2, RequestPairGood DEF Good
    <2>. QED
        BY <2>1, <2>2
<1>4. Bounded'
    BY <1>1, <1>2, BoundsAreNaturals DEF TypesInv, Bounded, Wish, storeVars
<1>. HIDE DEF t
<1>. QED
    BY <1>1, <1>3, <1>4, CommitSafe DEF storeVars

\* The refresh that was posted.
LEMMA LaterSafe ==
    ASSUME IInv, NEW c \in Clients, Later(c)
    PROVE  IInv'
<1>. DEFINE o == Of(c)
            k == [o.c EXCEPT !.later = FALSE]
            s == [o EXCEPT !.c.later = FALSE]
            t == RequestLayouts(c, s)
<1>1. Layouts /\ Commit(c, t) /\ UNCHANGED <<storeVars, applied, wishes>>
    BY DEF Later
<1>2. Good(c, o) /\ o \in Bundles /\ o.c \in ClientStates /\ TypesInv
    BY OfGood DEF Good, Weak, Bundles, IInv
<1>. HIDE DEF o, t
<1>3. /\ k \in ClientStates /\ k.owner = o.c.owner /\ k.dev = o.c.dev /\ k.shown = o.c.shown
      /\ k.last = o.c.last /\ k.busy = o.c.busy /\ k.pending = o.c.pending
    BY <1>2 DEF ClientStates
<1>4. s = [o EXCEPT !.c = k]
    BY <1>2 DEF Bundles, ClientStates
<1>. HIDE DEF k, s
<1>5. s \in Bundles /\ s.q = o.q /\ s.m = o.m /\ s.c = k
    BY <1>2, <1>3, <1>4 DEF Bundles
<1>6. Weak(c, s)
    BY <1>2, <1>3, <1>5, Relieved DEF Good
<1>7. LossIsTold(s.c, s.m)
    BY <1>2, <1>3, <1>5, SameView DEF Good, Follow
<1>8. Good(c, t)
    BY <1>1, <1>2, <1>6, <1>7, RequestLayoutsGood DEF Good, Follow, PairReaches, t
<1>. QED
    BY <1>1, <1>2, <1>8, CommitSafe DEF storeVars, TypesInv, Bounded

\* A call that is given up may still be carried out, and its client knows.
LEMMA TimesOutSafe ==
    ASSUME IInv, NEW c \in Clients, TimesOut(c)
    PROVE  IInv'
<1>1. PICK i \in DOMAIN calls :
          /\ calls[i].from = c /\ calls[i].fresh /\ calls[i].kind # "apply" /\ Context(c)
          /\ LET s == [Of(c) EXCEPT !.q[i].fresh = FALSE]
             IN Commit(c, Answered(c, s, calls[i], "Timeout", NoShown))
    BY DEF TimesOut
<1>. DEFINE o == Of(c)
            call == [calls[i] EXCEPT !.fresh = FALSE]
            q == [calls EXCEPT ![i] = call]
            s == [o EXCEPT !.q[i].fresh = FALSE]
            t == Answered(c, s, calls[i], "Timeout", NoShown)
<1>2. /\ Trouble(TRUE) /\ Commit(c, t)
      /\ UNCHANGED <<topic, disk, rt, owners, named, applied, wishes>>
    BY <1>1 DEF TimesOut
<1>3. /\ Good(c, o) /\ o \in Bundles /\ o.c = cl[c] /\ o.q = calls /\ o.m = mail[c]
      /\ calls \in Seq(Requests) /\ calls[i] \in Requests /\ CallIsTrue(calls[i])
    BY OfGood DEF Good, Weak, IInv, TypesInv
<1>4. call \in Requests /\ Fades(calls[i], call)
    BY <1>3, CallFades
<1>5. s = [o EXCEPT !.q = q]
    BY <1>3 DEF Bundles
<1>. HIDE DEF o, call, s, t
<1>6. /\ q \in Seq(Requests) /\ DOMAIN q = DOMAIN calls /\ q[i] = call
      /\ \A j \in DOMAIN calls : j # i => q[j] = calls[j]
    BY <1>3, <1>4
<1>. HIDE DEF q
<1>7. s \in Bundles /\ s.q = q /\ s.c = o.c /\ s.m = o.m
    BY <1>3, <1>5, <1>6 DEF Bundles
<1>8. \A j \in DOMAIN calls : Fades(calls[j], q[j])
    BY <1>4, <1>6 DEF Fades
<1>9. \A j \in DOMAIN q : CallIsTrue(q[j])
    BY <1>3, <1>6, <1>8 DEF Good, Weak, CallIsTrue, Fades
<1>10. Frame(c, q)
    BY <1>1, <1>3, <1>4, <1>6 DEF Frame, Fades
<1>11. FreshIsOwn(c, o.c, q, o.m)
    BY <1>3, <1>6, <1>8 DEF Good, Weak, ClientInv, FreshIsOwn, Fades
<1>12. OwnersInOrder(c, o.c, q, o.m)
    BY <1>3, <1>6, <1>8 DEF Good, Weak, ClientInv, OwnersInOrder, Fades
<1>13. OneChange(c, o.c, q, o.m)
    BY <1>3, <1>6, <1>8 DEF Good, Weak, ClientInv, OneChange, Mutation, Fades
<1>14. Good(c, s)
    BY <1>3, <1>7, <1>9, <1>10, <1>11, <1>12, <1>13 DEF Good, Weak, ClientInv
<1>15. NoShown \in Snaps
    BY DEF NoShown, Snaps, Places, Values
<1>16. IF Layouts THEN calls[i].kind \in {"read", "put", "delete"} ELSE calls[i].kind \in {"read", "set"}
    BY <1>1, <1>3 DEF CallIsTrue, Requests, Mutations
<1>17. TypesInv /\ Means
    BY DEF IInv
<1>18. Good(c, t)
    BY <1>3, <1>7, <1>14, <1>15, <1>16, <1>17, AnsweredGood DEF t
<1>19. Bounded'
    BY <1>2, <1>17, BoundsAreNaturals DEF TypesInv, Bounded, Trouble
<1>. QED
    BY <1>2, <1>18, <1>19, CommitSafe

\* What a client asks of the runtime from what it shows.
LEMMA WishIsTrue ==
    ASSUME IInv, NEW c \in Clients, Ready(c), Context(c),
           NEW call \in Requests, call.kind # "read", call.to = cl[c].owner,
           call.rev = cl[c].shown.rev, call.saw = cl[c].shown.val,
           Layouts => /\ call.kind # "set" /\ call.layout \in Entry /\ call.layout.dev = cl[c].shown.dev
                      /\ IF call.kind = "put" THEN call.layout.id \in 0 .. call.rev
                         ELSE call.layout \in cl[c].shown.val,
           ~Layouts => call.kind = "set" /\ \E p \in Pairs : call.pair = {p}
    PROVE  CallIsTrue(call)
<1>1. SaysSo(cl[c].owner, cl[c].shown)
    BY DEF IInv, ClientInv, ViewIsTrue
<1>2. PICK n \in named : /\ n.key = Key(cl[c].owner) /\ n.rev = cl[c].shown.rev
                         /\ cl[c].shown.val = Visible(n.val, cl[c].shown.dev)
    BY <1>1 DEF SaysSo, Ready
<1>3. call.to \in 1 .. owners
    BY DEF Context, IInv, TypesInv, Bounded
<1>4. CASE Layouts
    <2>1. call.saw = Visible(n.val, call.layout.dev)
        BY <1>2, <1>4
    <2>2. /\ call.kind \in {"delete", "apply"} => call.layout \in n.val
          /\ call.kind = "put" => call.layout.id \in 0 .. n.rev
        BY <1>2, <1>4 DEF Visible
    <2>. QED
        BY <1>2, <1>3, <1>4, <2>1, <2>2 DEF CallIsTrue
<1>5. CASE ~Layouts
    BY <1>2, <1>3, <1>5 DEF CallIsTrue, Visible
<1>. QED
    BY <1>4, <1>5

\* What a client shows are layouts of a device.
LEMMA ShownAreLayouts ==
    ASSUME IInv, NEW c \in Clients, Ready(c), Layouts
    PROVE  /\ cl[c].shown.dev \in Devices
           /\ \A e \in cl[c].shown.val :
                 e \in Entry /\ e.dev = cl[c].shown.dev /\ e.id \in 1 .. cl[c].shown.rev
<1>1. SaysSo(cl[c].owner, cl[c].shown)
    BY DEF IInv, ClientInv, ViewIsTrue
<1>2. PICK n \in named : n.rev = cl[c].shown.rev /\ cl[c].shown.val = Visible(n.val, cl[c].shown.dev)
    BY <1>1 DEF SaysSo, Ready
<1>3. n \in OnDisk
    BY DEF OnDisk
<1>4. \A e \in n.val : e \in Entry /\ e.id \in 1 .. n.rev
    BY <1>3 DEF IInv, Means, LayoutsMean
<1>. QED
    BY <1>1, <1>2, <1>4 DEF SaysSo, Ready, Visible

\* A change goes out and everything earlier is outdated.
LEMMA ChangeSafe ==
    ASSUME IInv, NEW c \in Clients, NEW call \in Requests, Change(c, call),
           call.from = c, call.to = cl[c].owner, CallIsTrue(call)
    PROVE  IInv'
<1>. DEFINE o == Of(c)
            kinds == IF Layouts THEN {"read", "put", "delete"} ELSE {"set"}
            a == Outdate(c, o, kinds)
            k == [a.c EXCEPT !.busy = TRUE]
            b == [a EXCEPT !.c.busy = TRUE]
            t == Sent(b, call)
<1>1. Wish /\ Ready(c) /\ Context(c) /\ Commit(c, t) /\ UNCHANGED <<storeVars, applied>>
    BY DEF Change
<1>2. Good(c, o) /\ o.c = cl[c] /\ TypesInv
    BY OfGood DEF IInv
<1>. HIDE DEF o, kinds
<1>3. Weak(c, a) /\ a.c = o.c /\ Stale(c, a, kinds) /\ Follow(a.c, a.m)
    BY <1>2, OutdateWeak DEF Good
<1>. HIDE DEF a
<1>4. a \in Bundles /\ a.c \in ClientStates
    BY <1>3 DEF Weak, Bundles
<1>5. /\ k \in ClientStates /\ k.owner = a.c.owner /\ k.dev = a.c.dev /\ k.shown = a.c.shown
      /\ k.last = a.c.last /\ k.busy /\ k.pending = a.c.pending
    BY <1>4 DEF ClientStates
<1>6. b = [a EXCEPT !.c = k]
    BY <1>4 DEF Bundles, ClientStates
<1>. HIDE DEF k, b, t
<1>7. b \in Bundles /\ b.q = a.q /\ b.m = a.m /\ b.c = k
    BY <1>4, <1>5, <1>6 DEF Bundles
<1>8. b.c.owner # 0
    BY <1>1, <1>2, <1>3, <1>5, <1>7 DEF Ready
<1>9. ViewIsTrue(b.c)
    BY <1>3, <1>5, <1>7, <1>8 DEF Weak, ClientInv, ViewIsTrue, SaysSo
<1>10. OneChange(c, b.c, b.q, b.m)
    BY <1>3, <1>5, <1>7 DEF Weak, ClientInv, OneChange
<1>11. Weak(c, b)
    BY <1>3, <1>5, <1>7, <1>9, <1>10, Reviewed
<1>12. Follow(b.c, b.m)
    BY <1>3, <1>5, <1>7, SameView
<1>13. Layouts => b.c.busy /\ Stale(c, b, {"read", "put", "delete"})
    BY <1>3, <1>5, <1>7 DEF Stale, kinds
<1>14. call.to = b.c.owner
    BY <1>2, <1>3, <1>5, <1>7
<1>15. Weak(c, t) /\ t.c = b.c /\ t.m = b.m
    BY <1>11, <1>13, <1>14, SentWeak DEF t
<1>16. Bounded'
    BY <1>1, <1>2, BoundsAreNaturals DEF TypesInv, Bounded, Wish, storeVars
<1>17. Good(c, t)
    BY <1>12, <1>15 DEF Good
<1>. QED
    BY <1>1, <1>16, <1>17, CommitSafe DEF storeVars

\* putSavedLayout names the revision and the layout that were shown.
LEMMA PutLayoutSafe ==
    ASSUME IInv, NEW c \in Clients, NEW n \in Names, PutLayout(c, n)
    PROVE  IInv'
<1>. DEFINE shown == cl[c].shown
            same == {e \in shown.val : e.name = n}
            new == [dev |-> shown.dev, name |-> n, id |-> 0, rev |-> 0, body |-> c]
            drafts == IF same = {} THEN {new} ELSE {[e EXCEPT !.body = c] : e \in same}
<1>1. PICK l \in drafts : Layouts /\ Change(c, [Blank(c, "put") EXCEPT !.layout = l])
    BY DEF PutLayout
<1>. DEFINE b == Blank(c, "put")
            call == [b EXCEPT !.layout = l]
<1>2. Ready(c) /\ Context(c)
    BY <1>1 DEF Change
<1>3. shown.dev \in Devices
      /\ \A e \in shown.val : e \in Entry /\ e.dev = shown.dev /\ e.id \in 1 .. shown.rev
    BY <1>1, <1>2, ShownAreLayouts
<1>4. l \in Entry /\ l.dev = shown.dev /\ l.id \in 0 .. shown.rev
    <2>0. shown.rev \in Nat
        BY DEF IInv, TypesInv, ClientStates, Snaps
    <2>. HIDE DEF shown
    <2>1. CASE same = {}
        BY <1>3, <2>0, <2>1 DEF Entry
    <2>2. CASE same # {}
        <3>1. PICK e \in same : l = [e EXCEPT !.body = c]
            BY <2>2
        <3>2. e \in Entry /\ e.dev = shown.dev /\ e.id \in 1 .. shown.rev
            BY <1>3
        <3>. QED
            BY <2>0, <3>1, <3>2 DEF Entry
    <2>. QED
        BY <2>1, <2>2
<1>5. /\ b \in Requests /\ b.kind = "put" /\ b.from = c /\ b.to = cl[c].owner
      /\ b.rev = shown.rev /\ b.saw = shown.val
    BY BlankOf DEF IInv, Mutations
<1>. HIDE DEF b, shown
<1>6. /\ call \in Requests /\ call.kind = "put" /\ call.from = c /\ call.to = cl[c].owner
      /\ call.rev = shown.rev /\ call.saw = shown.val /\ call.layout = l
    BY <1>4, <1>5 DEF Requests
<1>7. Change(c, call)
    BY <1>1 DEF b
<1>. HIDE DEF call
<1>8. CallIsTrue(call)
    BY <1>1, <1>2, <1>4, <1>6, WishIsTrue DEF shown
<1>. QED
    BY <1>6, <1>7, <1>8, ChangeSafe

\* So does deleteSavedLayout,
LEMMA DeleteLayoutSafe ==
    ASSUME IInv, NEW c \in Clients, NEW e \in cl[c].shown.val, DeleteLayout(c, e)
    PROVE  IInv'
<1>. DEFINE b == Blank(c, "delete")
            call == [b EXCEPT !.layout = e]
<1>1. Layouts /\ Change(c, call)
    BY DEF DeleteLayout
<1>2. Ready(c) /\ Context(c)
    BY <1>1 DEF Change
<1>3. e \in Entry /\ e.dev = cl[c].shown.dev
    BY <1>1, <1>2, ShownAreLayouts
<1>4. /\ b \in Requests /\ b.kind = "delete" /\ b.from = c /\ b.to = cl[c].owner
      /\ b.rev = cl[c].shown.rev /\ b.saw = cl[c].shown.val
    BY BlankOf DEF IInv, Mutations
<1>. HIDE DEF b
<1>5. /\ call \in Requests /\ call.kind = "delete" /\ call.from = c /\ call.to = cl[c].owner
      /\ call.rev = cl[c].shown.rev /\ call.saw = cl[c].shown.val /\ call.layout = e
    BY <1>3, <1>4 DEF Requests
<1>. HIDE DEF call
<1>6. CallIsTrue(call)
    BY <1>1, <1>2, <1>3, <1>5, WishIsTrue
<1>. QED
    BY <1>1, <1>5, <1>6, ChangeSafe

\* and setPresentationPreferences,
LEMMA SetPairSafe ==
    ASSUME IInv, NEW c \in Clients, NEW p \in Pairs, SetPair(c, p)
    PROVE  IInv'
<1>. DEFINE b == Blank(c, "set")
            call == [b EXCEPT !.pair = {p}]
<1>1. ~Layouts /\ Change(c, call)
    BY DEF SetPair
<1>2. Ready(c) /\ Context(c)
    BY <1>1 DEF Change
<1>3. /\ b \in Requests /\ b.kind = "set" /\ b.from = c /\ b.to = cl[c].owner
      /\ b.rev = cl[c].shown.rev /\ b.saw = cl[c].shown.val
    BY BlankOf DEF IInv, Mutations
<1>. HIDE DEF b
<1>4. /\ call \in Requests /\ call.kind = "set" /\ call.from = c /\ call.to = cl[c].owner
      /\ call.rev = cl[c].shown.rev /\ call.saw = cl[c].shown.val /\ call.pair = {p}
    BY <1>3 DEF Requests
<1>. HIDE DEF call
<1>5. CallIsTrue(call)
    BY <1>1, <1>2, <1>4, WishIsTrue
<1>. QED
    BY <1>1, <1>4, <1>5, ChangeSafe

\* and submitSavedLayoutDraft.
LEMMA ApplyLayoutSafe ==
    ASSUME IInv, NEW c \in Clients, NEW e \in cl[c].shown.val, ApplyLayout(c, e)
    PROVE  IInv'
<1>. DEFINE b == Blank(c, "apply")
            call == [b EXCEPT !.layout = e]
            t == Sent(Of(c), call)
<1>1. Layouts /\ Wish /\ Ready(c) /\ Context(c) /\ Commit(c, t) /\ UNCHANGED <<storeVars, applied>>
    BY DEF ApplyLayout
<1>2. e \in Entry /\ e.dev = cl[c].shown.dev
    BY <1>1, ShownAreLayouts
<1>3. /\ b \in Requests /\ b.kind = "apply" /\ b.from = c /\ b.to = cl[c].owner
      /\ b.rev = cl[c].shown.rev /\ b.saw = cl[c].shown.val
    BY BlankOf DEF IInv
<1>. HIDE DEF b
<1>4. /\ call \in Requests /\ call.kind = "apply" /\ call.from = c /\ call.to = cl[c].owner
      /\ call.rev = cl[c].shown.rev /\ call.saw = cl[c].shown.val /\ call.layout = e
    BY <1>2, <1>3 DEF Requests
<1>. HIDE DEF call
<1>5. CallIsTrue(call)
    BY <1>1, <1>2, <1>4, WishIsTrue
<1>6. Good(c, Of(c)) /\ Of(c).c = cl[c] /\ TypesInv
    BY OfGood DEF IInv
<1>7. Weak(c, t) /\ t.c = Of(c).c /\ t.m = Of(c).m
    BY <1>4, <1>5, <1>6, SentWeak DEF Good, Mutation, Mutations
<1>8. Good(c, t)
    BY <1>6, <1>7 DEF Good
<1>9. Bounded'
    BY <1>1, <1>6, BoundsAreNaturals DEF TypesInv, Bounded, Wish, storeVars
<1>. HIDE DEF t
<1>. QED
    BY <1>1, <1>8, <1>9, CommitSafe DEF storeVars

-----------------------------------------------------------------------------
(* What the runtime says *)

\* What was said stays true while revisions only gain meanings.
LEMMA StoreGrows ==
    ASSUME topic' = topic, named \subseteq named', owners \in Nat, owners' \in Nat, owners <= owners'
    PROVE  /\ \A call : CallIsTrue(call) => CallIsTrue(call)'
           /\ \A m : MailIsTrue(m) => MailIsTrue(m)'
           /\ \A k \in ClientStates : ViewIsTrue(k) => ViewIsTrue(k)'
           /\ \A c, k, q, m : OneChange(c, k, q, m) => OneChange(c, k, q, m)'
<1>1. Layouts' = Layouts
    BY DEF Layouts
<1>2. \A owner, x : SaysSo(owner, x) => SaysSo(owner, x)'
    BY DEF SaysSo, Key, Layouts, Visible
<1>3. \A call : CallIsTrue(call) => CallIsTrue(call)'
    BY DEF CallIsTrue, Layouts, Key, Visible
<1>4. \A m : MailIsTrue(m) => MailIsTrue(m)'
    BY <1>1, <1>2 DEF MailIsTrue, MessageIsTrue
<1>5. ASSUME NEW k \in ClientStates, ViewIsTrue(k)
      PROVE  ViewIsTrue(k)'
    BY <1>1, <1>2, <1>5 DEF ViewIsTrue, ClientStates
<1>6. \A c, k, q, m : OneChange(c, k, q, m) => OneChange(c, k, q, m)'
    BY <1>1 DEF OneChange
<1>. QED
    BY <1>3, <1>4, <1>5, <1>6

\* The part of a client's invariant that is about the order of calls and messages.
Ordered(c, k, q, m) == FreshIsOwn(c, k, q, m) /\ OwnersInOrder(c, k, q, m) /\ OneChange(c, k, q, m)

\* A message appended is the last one.
LEMMA HeardOf ==
    ASSUME NEW m \in Seq(Messages), NEW g \in Messages
    PROVE  LET n == Append(m, g)
           IN /\ n \in Seq(Messages) /\ Len(m) \in Nat
              /\ DOMAIN m = 1 .. Len(m) /\ DOMAIN n = 1 .. Len(m) + 1 /\ n[Len(m) + 1] = g
              /\ \A i \in DOMAIN m : i \in DOMAIN n /\ n[i] = m[i]
              /\ \A i \in DOMAIN n : (i \in DOMAIN m /\ n[i] = m[i]) \/ (i = Len(m) + 1 /\ n[i] = g)
<1>1. Append(m, g) \in Seq(Messages) /\ Len(m) \in Nat /\ DOMAIN m = 1 .. Len(m)
      /\ DOMAIN Append(m, g) = 1 .. Len(m) + 1
      /\ \A i \in 1 .. Len(m) + 1 : Append(m, g)[i] = IF i = Len(m) + 1 THEN g ELSE m[i]
    OBVIOUS
<1>. QED
    BY <1>1

\* A message comes in behind the others.
LEMMA HeardOrdered ==
    ASSUME NEW c, NEW k, NEW q, NEW m \in Seq(Messages), NEW g \in Messages, Ordered(c, k, q, m),
           g.kind = "answer" /\ g.call.fresh =>
              /\ g.call.to = k.owner
              /\ Layouts => \A i \in DOMAIN q : q[i].from = c /\ Mutation(q[i]) => q[i].to # k.owner,
           g.kind = "pair" => \A i \in DOMAIN m : m[i].kind # "owner",
           g.kind = "owner" =>
              /\ k.owner < g.owner
              /\ \A i \in DOMAIN m : m[i].kind \in {"owner", "pair"} => m[i].owner < g.owner
              /\ \A i \in DOMAIN q : q[i].from = c => q[i].to < g.owner
    PROVE  Ordered(c, k, q, Append(m, g))
<1>. DEFINE n == Append(m, g)
<1>1. /\ n \in Seq(Messages) /\ Len(m) \in Nat /\ DOMAIN m = 1 .. Len(m)
      /\ \A i \in DOMAIN m : i \in DOMAIN n /\ n[i] = m[i]
      /\ \A i \in DOMAIN n : (i \in DOMAIN m /\ n[i] = m[i]) \/ (i = Len(m) + 1 /\ n[i] = g)
    BY HeardOf
<1>. HIDE DEF n
<1>2. FreshIsOwn(c, k, q, n)
    BY <1>1 DEF Ordered, FreshIsOwn
<1>3. OwnersInOrder(c, k, q, n)
    <2>1. SUFFICES ASSUME NEW i \in DOMAIN n, n[i].kind = "owner"
                   PROVE  /\ k.owner < n[i].owner
                          /\ \A j \in DOMAIN n : n[j].kind = "owner" /\ i < j => n[i].owner < n[j].owner
                          /\ \A j \in DOMAIN n : n[j].kind = "pair" => n[j].owner < n[i].owner
                          /\ \A j \in DOMAIN q : q[j].from = c => q[j].to < n[i].owner
        BY DEF OwnersInOrder
    <2>2. CASE i \in DOMAIN m /\ n[i] = m[i]
        BY <1>1, <2>1, <2>2 DEF Ordered, OwnersInOrder
    <2>3. CASE i = Len(m) + 1 /\ n[i] = g
        BY <1>1, <2>1, <2>3
    <2>. QED
        BY <1>1, <2>2, <2>3
<1>4. OneChange(c, k, q, n)
    BY <1>1 DEF Ordered, OneChange
<1>. QED
    BY <1>2, <1>3, <1>4 DEF Ordered, n

\* What was to be told still is.
LEMMA HeardFollows ==
    ASSUME NEW m \in Seq(Messages), NEW g \in Messages
    PROVE  /\ LossComing(m) => LossComing(Append(m, g))
           /\ (\A i \in DOMAIN m : m[i].kind # "owner") /\ g.kind = "lost" => LossComing(Append(m, g))
           /\ ToBeTold(m) => ToBeTold(Append(m, g))
           /\ g.kind = "pair" /\ g.owner = rt.owner /\ g.snap.rev = rt.rev => ToBeTold(Append(m, g))
<1>. DEFINE n == Append(m, g)
<1>1. /\ n \in Seq(Messages) /\ Len(m) \in Nat /\ DOMAIN m = 1 .. Len(m)
      /\ Len(m) + 1 \in DOMAIN n /\ n[Len(m) + 1] = g
      /\ \A i \in DOMAIN m : i \in DOMAIN n /\ n[i] = m[i]
      /\ \A i \in DOMAIN n : (i \in DOMAIN m /\ n[i] = m[i]) \/ (i = Len(m) + 1 /\ n[i] = g)
    BY HeardOf
<1>. HIDE DEF n
<1>2. LossComing(m) => LossComing(n)
    BY <1>1 DEF LossComing
<1>3. (\A i \in DOMAIN m : m[i].kind # "owner") /\ g.kind = "lost" => LossComing(n)
    BY <1>1 DEF LossComing
<1>4. ToBeTold(m) => ToBeTold(n)
    BY <1>1 DEF ToBeTold
<1>5. g.kind = "pair" /\ g.owner = rt.owner /\ g.snap.rev = rt.rev => ToBeTold(n)
    BY <1>1 DEF ToBeTold
<1>. QED
    BY <1>2, <1>3, <1>4, <1>5 DEF n

\* A client of the runtime that runs is not told of another one.
LEMMA NoneAnnounced ==
    ASSUME IInv, NEW c \in Clients, cl[c].owner = rt.owner, rt.owner # 0
    PROVE  \A i \in DOMAIN mail[c] : mail[c][i].kind # "owner"
<1>1. owners \in Nat /\ rt.owner = owners
    BY DEF IInv, TypesInv, Bounded
<1>2. MailIsTrue(mail[c]) /\ OwnersInOrder(c, cl[c], calls, mail[c])
    BY DEF IInv, ClientInv
<1>. QED
    BY <1>1, <1>2 DEF MailIsTrue, MessageIsTrue, OwnersInOrder

\* The step of a runtime keeps the invariant when every part of it does.
LEMMA ServerSafe ==
    ASSUME IInv, cl' = cl, topic' = topic, named \subseteq named', owners <= owners',
           StoreTypes', Bounded', Means', AppliedAsSeen',
           calls' \in Seq(Requests), \A i \in DOMAIN calls' : CallIsTrue(calls'[i]),
           mail' \in [Clients -> Seq(Messages)],
           \A c \in Clients : /\ MailIsTrue(mail[c])' /\ Ordered(c, cl[c], calls', mail'[c])
                              /\ Follow(cl[c], mail[c])'
    PROVE  IInv'
<1>1. owners \in Nat /\ owners' \in Nat /\ cl \in [Clients -> ClientStates]
    BY DEF IInv, TypesInv, Bounded
<1>2. TypesInv'
    BY <1>1 DEF TypesInv
<1>3. \A i \in DOMAIN calls' : CallIsTrue(calls[i])'
    BY <1>1, StoreGrows
<1>4. ASSUME NEW c \in Clients
      PROVE  (ClientInv(c, cl[c], calls, mail[c]))'
    <2>0. PICK k, q, m : k = cl'[c] /\ q = calls' /\ m = mail'[c]
        OBVIOUS
    <2>1. k \in ClientStates /\ ViewIsTrue(k) /\ Ordered(c, k, q, m)
        BY <1>1, <2>0 DEF IInv, ClientInv
    <2>2. ViewIsTrue(k)' /\ OneChange(c, k, q, m)'
        BY <1>1, <2>1, StoreGrows DEF Ordered
    <2>. QED
        BY <2>0, <2>1, <2>2 DEF ClientInv, Ordered
<1>. QED
    BY <1>2, <1>3, <1>4 DEF IInv

\* A true message behind true ones.
LEMMA MailHeard ==
    ASSUME NEW m \in Seq(Messages), NEW g \in Messages, MailIsTrue(m)', MessageIsTrue(g)'
    PROVE  MailIsTrue(Append(m, g))'
BY HeardOf DEF MailIsTrue

\* Everyone who knew the runtime is told that it is gone.
LEMMA RuntimeDiesSafe ==
    ASSUME IInv, RuntimeDies
    PROVE  IInv'
<1>1. /\ rt.owner # 0 /\ Trouble(TRUE) /\ rt' = NoRuntime(rt.dev) /\ cl' = cl /\ calls' = calls
      /\ mail' = [c \in Clients |-> Append(mail[c], [kind |-> "lost"])]
      /\ UNCHANGED <<topic, disk, owners, named, applied, wishes>>
    BY DEF RuntimeDies, Die, Post
<1>2. /\ StoreTypes /\ Bounded /\ calls \in Seq(Requests) /\ mail \in [Clients -> Seq(Messages)]
      /\ Means /\ AppliedAsSeen /\ \A i \in DOMAIN calls : CallIsTrue(calls[i])
    BY DEF IInv, TypesInv
<1>3. StoreTypes'
    BY <1>1, <1>2 DEF StoreTypes, NoRuntime, Values, Places
<1>4. Bounded'
    BY <1>1, <1>2, BoundsAreNaturals DEF Bounded, Trouble, NoRuntime
<1>5. Means'
    <2>1. CASE Layouts
        BY <1>1, <1>2, <2>1 DEF Means, LayoutsMean, OnDisk, Layouts, NoRuntime
    <2>2. CASE ~Layouts
        BY <1>1, <1>2, <2>2 DEF Means, PairsMean, Layouts, NoRuntime, Bounded
    <2>. QED
        BY <2>1, <2>2
<1>6. [kind |-> "lost"] \in Messages
    BY DEF Messages
<1>7. mail' \in [Clients -> Seq(Messages)]
    BY <1>1, <1>2, <1>6
<1>8. ASSUME NEW c \in Clients
      PROVE  /\ MailIsTrue(mail[c])' /\ Ordered(c, cl[c], calls', mail'[c])
             /\ Follow(cl[c], mail[c])'
    <2>0. PICK g, m : g = [kind |-> "lost"] /\ m = mail[c]
        OBVIOUS
    <2>1. mail'[c] = Append(m, g) /\ m \in Seq(Messages) /\ g \in Messages /\ g.kind = "lost"
        BY <1>1, <1>2, <1>6, <2>0
    <2>2. MailIsTrue(m)'
        BY <1>1, <1>2, <2>0, StoreGrows DEF IInv, ClientInv, Bounded
    <2>3. MailIsTrue(Append(m, g))'
        BY <2>1, <2>2, MailHeard DEF MessageIsTrue
    <2>4. Ordered(c, cl[c], calls, Append(m, g))
        <3>1. Ordered(c, cl[c], calls, m)
            BY <2>0 DEF IInv, ClientInv, Ordered
        <3>. QED
            BY <2>1, <3>1, HeardOrdered
    <2>5. cl[c].owner # 0 => LossComing(Append(m, g))
        <3>1. CASE cl[c].owner = rt.owner
            BY <1>1, <2>0, <2>1, <3>1, NoneAnnounced, HeardFollows
        <3>2. CASE cl[c].owner # rt.owner
            BY <2>0, <2>1, <3>2, HeardFollows DEF IInv, Follow, LossIsTold
        <3>. QED
            BY <3>1, <3>2
    <2>6. Follow(cl[c], mail[c])'
        <3>1. LossComing(mail'[c])  \/ cl[c].owner = 0
            BY <2>1, <2>5
        <3>. QED
            BY <1>1, <3>1 DEF Follow, LossIsTold, LossComing, PairReaches, NoRuntime
    <2>. QED
        BY <1>1, <2>1, <2>3, <2>4, <2>6
<1>9. owners <= owners' /\ AppliedAsSeen'
    BY <1>1, <1>2 DEF Bounded, AppliedAsSeen
<1>. QED
    BY <1>1, <1>2, <1>3, <1>4, <1>5, <1>7, <1>8, <1>9, ServerSafe

\* The layouts of another device are shown to nobody yet.
LEMMA DeviceSwapsSafe ==
    ASSUME IInv, DeviceSwaps
    PROVE  IInv'
<1>1. PICK d \in Devices \cup {NoDevice} : Swap(d)
    BY DEF DeviceSwaps
<1>2. /\ Layouts /\ rt.owner # 0 /\ Trouble(TRUE) /\ rt' = [rt EXCEPT !.dev = d] /\ cl' = cl /\ calls' = calls
      /\ mail' = [c \in Clients |-> Append(mail[c], [kind |-> "device", dev |-> rt'.dev])]
      /\ UNCHANGED <<topic, disk, owners, named, applied, wishes>>
    BY <1>1 DEF DeviceSwaps, Swap, Post
<1>3. /\ StoreTypes /\ Bounded /\ calls \in Seq(Requests) /\ mail \in [Clients -> Seq(Messages)]
      /\ Means /\ AppliedAsSeen /\ \A i \in DOMAIN calls : CallIsTrue(calls[i])
    BY DEF IInv, TypesInv
<1>4. /\ rt' \in [owner : Nat, dev : Places, rev : Nat, val : Values, writes : BOOLEAN]
      /\ rt'.owner = rt.owner /\ rt'.rev = rt.rev /\ rt'.val = rt.val /\ rt'.writes = rt.writes /\ rt'.dev = d
    BY <1>2, <1>3 DEF StoreTypes, Places
<1>5. StoreTypes' /\ Bounded'
    BY <1>2, <1>3, <1>4, BoundsAreNaturals DEF StoreTypes, Bounded, Trouble
<1>6. Means'
    BY <1>2, <1>3, <1>4 DEF Means, LayoutsMean, OnDisk, Layouts, Meaning, Key
<1>7. [kind |-> "device", dev |-> d] \in Messages
    BY DEF Messages, Places
<1>8. mail' = [c \in Clients |-> Append(mail[c], [kind |-> "device", dev |-> d])]
    BY <1>2, <1>4
<1>9. mail' \in [Clients -> Seq(Messages)]
    BY <1>3, <1>7, <1>8
<1>10. ASSUME NEW c \in Clients
       PROVE  /\ MailIsTrue(mail[c])' /\ Ordered(c, cl[c], calls', mail'[c])
              /\ Follow(cl[c], mail[c])'
    <2>0. PICK g, m : g = [kind |-> "device", dev |-> d] /\ m = mail[c]
        OBVIOUS
    <2>1. mail'[c] = Append(m, g) /\ m \in Seq(Messages) /\ g \in Messages /\ g.kind = "device"
        BY <1>3, <1>7, <1>8, <2>0
    <2>2. MailIsTrue(m)'
        BY <1>2, <1>3, <2>0, StoreGrows DEF IInv, ClientInv, Bounded
    <2>3. MailIsTrue(Append(m, g))'
        BY <1>2, <2>1, <2>2, MailHeard DEF MessageIsTrue, Layouts
    <2>4. Ordered(c, cl[c], calls, Append(m, g))
        <3>1. Ordered(c, cl[c], calls, m)
            BY <2>0 DEF IInv, ClientInv, Ordered
        <3>. QED
            BY <2>1, <3>1, HeardOrdered
    <2>5. cl[c].owner # 0 /\ cl[c].owner # rt.owner => LossComing(Append(m, g))
        BY <2>0, <2>1, HeardFollows DEF IInv, Follow, LossIsTold
    <2>6. Follow(cl[c], mail[c])'
        <3>1. cl[c].owner # 0 /\ cl[c].owner # rt.owner => LossComing(mail'[c])
            BY <2>1, <2>5
        <3>. QED
            BY <1>2, <1>4, <3>1 DEF Follow, LossIsTold, LossComing, PairReaches, Layouts
    <2>. QED
        BY <1>2, <2>1, <2>3, <2>4, <2>6
<1>11. owners <= owners' /\ AppliedAsSeen'
    BY <1>2, <1>3 DEF Bounded, AppliedAsSeen
<1>. QED
    BY <1>2, <1>3, <1>5, <1>6, <1>9, <1>10, <1>11, ServerSafe

\* What a runtime reads is what was written, or nothing it will change.
LEMMA StartOf ==
    ASSUME StoreTypes, Bounded, Means, NEW fault \in Faults, Start(fault), wishes' = wishes
    PROVE  StoreTypes' /\ Bounded' /\ Means' /\ named \subseteq named' /\ rt'.owner = owners + 1
<1>1. /\ rt.owner = 0 /\ Trouble(fault # "none") /\ owners' = owners + 1
      /\ UNCHANGED <<topic, disk>>
    BY DEF Start
<1>2. CASE Layouts
    <2>1. /\ rt' = LoadedLayouts(owners + 1, fault)
          /\ named' = IF fault # "none" THEN named ELSE named \cup {Meaning(rt'.owner, rt'.rev, rt'.val)}
        BY <1>2 DEF Start
    <2>2. CASE fault = "none"
        <3>1. rt' = [owner |-> owners + 1, dev |-> rt.dev, rev |-> disk.rev, val |-> disk.val, writes |-> TRUE]
            BY <2>1, <2>2 DEF LoadedLayouts, LayoutsOpened
        <3>2. named' = named \cup {[key |-> 0, rev |-> disk.rev, val |-> disk.val]}
            BY <1>2, <2>1, <2>2, <3>1 DEF Meaning, Key
        <3>3. StoreTypes'
            BY <1>1, <3>1, <3>2 DEF StoreTypes, Bounded
        <3>4. OnDisk' = OnDisk
            BY <1>1, <3>2 DEF OnDisk
        <3>5. [key |-> 0, rev |-> disk.rev, val |-> disk.val] \in OnDisk
            BY DEF OnDisk
        <3>6. /\ \A n \in OnDisk :
                    /\ n.key = 0 /\ n.rev <= disk.rev
                    /\ \A e \in n.val : e \in Entry /\ e.id \in 1 .. n.rev /\ e.rev \in 1 .. n.rev
                    /\ \A e, f \in n.val : e.id = f.id => e = f
              /\ \A n, m \in OnDisk :
                    /\ n.rev = m.rev => n.val = m.val
                    /\ \A e \in n.val, f \in m.val : e.rev = f.rev => e = f
            BY <1>2 DEF Means, LayoutsMean
        <3>7. \A e \in disk.val : e \in Entry /\ e.id # 0 /\ e.rev # 0
            BY <3>5, <3>6 DEF StoreTypes
        <3>8. LayoutsMean'
            BY <1>1, <1>2, <3>1, <3>2, <3>4, <3>6, <3>7 DEF LayoutsMean, Meaning, Key, Layouts
        <3>9. Means'
            BY <1>1, <1>2, <3>8 DEF Means, Layouts
        <3>. QED
            BY <1>1, <3>1, <3>2, <3>3, <3>9, BoundsAreNaturals DEF Bounded, Trouble
    <2>3. CASE fault # "none"
        <3>1. /\ rt' = [owner |-> owners + 1, dev |-> rt.dev, rev |-> 0, val |-> {}, writes |-> FALSE]
              /\ named' = named
            BY <2>1, <2>3 DEF LoadedLayouts, LayoutsOpened, Faults
        <3>2. StoreTypes'
            BY <1>1, <3>1 DEF StoreTypes, Bounded, Values
        <3>3. Means'
            BY <1>1, <1>2, <3>1 DEF Means, LayoutsMean, OnDisk, Layouts
        <3>. QED
            BY <1>1, <3>1, <3>2, <3>3, BoundsAreNaturals DEF Bounded, Trouble
    <2>. QED
        BY <2>2, <2>3
<1>3. CASE ~Layouts
    <2>. DEFINE val == LoadedPair(fault)
    <2>1. /\ rt' = [owner |-> owners + 1, dev |-> rt.dev, rev |-> 1, val |-> val, writes |-> fault = "none"]
          /\ named' = named \cup {Meaning(rt'.owner, rt'.rev, rt'.val)}
        BY <1>3 DEF Start, LoadedPreferences
    <2>2. /\ \E p \in Pairs : val = {p}
          /\ PairsMean
        BY <1>3, DefaultsAreAPair DEF LoadedPair, Means, PairsMean
    <2>. HIDE DEF val
    <2>3. named' = named \cup {[key |-> owners + 1, rev |-> 1, val |-> val]}
        BY <1>3, <2>1 DEF Meaning, Key
    <2>4. StoreTypes'
        <3>1. val \in Values /\ owners + 1 \in Nat
            BY <2>2 DEF Values, Bounded
        <3>2. [key |-> owners + 1, rev |-> 1, val |-> val] \in [key : Nat, rev : Nat, val : Values]
            BY <3>1
        <3>3. named' \in SUBSET [key : Nat, rev : Nat, val : Values]
            BY <2>3, <3>2 DEF StoreTypes
        <3>4. rt' \in [owner : Nat, dev : Places, rev : Nat, val : Values, writes : BOOLEAN]
            BY <2>1, <3>1 DEF StoreTypes
        <3>. QED
            BY <1>1, <3>3, <3>4 DEF StoreTypes
    <2>5. Bounded'
        BY <1>1, <2>1, BoundsAreNaturals DEF Bounded, Trouble
    <2>6. PairsMean'
        <3>1. Meaning(rt.owner, rt.rev, rt.val)' \in named'
            BY <1>1, <1>3, <2>1, <2>3 DEF Meaning, Key, Layouts
        <3>2. \A n \in named' : n \in named \/ (n.key = owners + 1 /\ n.rev = 1 /\ n.val = val)
            BY <2>3
        <3>3. \A n \in named : n.key \in 1 .. owners /\ owners \in Nat
            BY <2>2 DEF PairsMean, Bounded
        <3>4. \A n \in named' : n.key \in 1 .. owners' /\ (n.key = rt'.owner => n.rev <= rt'.rev)
            BY <1>1, <2>1, <3>2, <3>3 DEF Bounded
        <3>5. ASSUME NEW n \in named', NEW m \in named', n.key = m.key, n.rev = m.rev
              PROVE  n.val = m.val
            <4>1. n \in named /\ m \in named => n.val = m.val
                BY <2>2, <3>5 DEF PairsMean
            <4>2. n \in named => n.key # owners + 1
                BY <3>3
            <4>3. m \in named => m.key # owners + 1
                BY <3>3
            <4>. QED
                BY <3>2, <3>5, <4>1, <4>2, <4>3
        <3>6. (\E p \in Pairs : disk.val = {p})' /\ (\E p \in Pairs : rt.val = {p})'
            BY <1>1, <2>1, <2>2 DEF PairsMean
        <3>7. \A n, m \in named' : n.key = m.key /\ n.rev = m.rev => n.val = m.val
            BY <3>5
        <3>. QED
            BY <3>1, <3>4, <3>6, <3>7 DEF PairsMean
    <2>7. Means'
        BY <1>1, <1>3, <2>6 DEF Means, Layouts
    <2>. QED
        BY <2>1, <2>3, <2>4, <2>5, <2>7
<1>. QED
    BY <1>2, <1>3

\* A new runtime is announced behind all that came from the ones before.
LEMMA RuntimeStartsSafe ==
    ASSUME IInv, RuntimeStarts
    PROVE  IInv'
<1>1. PICK fault \in Faults : Start(fault)
    BY DEF RuntimeStarts
<1>2. /\ owners' = owners + 1 /\ rt.owner = 0 /\ topic' = topic
      /\ mail' = [c \in Clients |-> Append(mail[c], [kind |-> "owner", owner |-> owners + 1])]
      /\ UNCHANGED <<calls, cl, applied, wishes>>
    BY <1>1 DEF RuntimeStarts, Start, Post
<1>3. /\ StoreTypes /\ Bounded /\ calls \in Seq(Requests) /\ mail \in [Clients -> Seq(Messages)]
      /\ Means /\ AppliedAsSeen /\ \A i \in DOMAIN calls : CallIsTrue(calls[i])
      /\ cl \in [Clients -> ClientStates] /\ owners \in Nat
    BY DEF IInv, TypesInv, Bounded
<1>4. StoreTypes' /\ Bounded' /\ Means' /\ named \subseteq named' /\ rt'.owner = owners + 1
    BY <1>1, <1>2, <1>3, StartOf
<1>5. [kind |-> "owner", owner |-> owners + 1] \in Messages
    BY <1>3 DEF Messages
<1>6. mail' \in [Clients -> Seq(Messages)]
    BY <1>2, <1>3, <1>5
<1>7. ASSUME NEW c \in Clients
      PROVE  /\ MailIsTrue(mail[c])' /\ Ordered(c, cl[c], calls', mail'[c])
             /\ Follow(cl[c], mail[c])'
    <2>0. PICK g, m : g = [kind |-> "owner", owner |-> owners + 1] /\ m = mail[c]
        OBVIOUS
    <2>1. /\ mail'[c] = Append(m, g) /\ m \in Seq(Messages) /\ g \in Messages
          /\ g.kind = "owner" /\ g.owner = owners + 1
        BY <1>2, <1>3, <1>5, <2>0
    <2>2. /\ MailIsTrue(m) /\ ViewIsTrue(cl[c]) /\ Ordered(c, cl[c], calls, m) /\ Follow(cl[c], m)
          /\ cl[c].owner \in Nat
        BY <1>3, <2>0 DEF IInv, ClientInv, Ordered, ClientStates
    <2>3. MailIsTrue(m)'
        BY <1>2, <1>3, <1>4, <2>2, StoreGrows
    <2>4. MailIsTrue(Append(m, g))'
        <3>1. g.owner \in 1 .. owners'
            BY <1>2, <1>3, <2>1
        <3>2. MessageIsTrue(g)'
            BY <2>1, <3>1 DEF MessageIsTrue
        <3>. QED
            BY <2>1, <2>3, <3>2, MailHeard
    <2>5. cl[c].owner < g.owner
        BY <1>3, <2>1, <2>2 DEF ViewIsTrue
    <2>6. Ordered(c, cl[c], calls, Append(m, g))
        <3>1. \A i \in DOMAIN m : m[i].kind \in {"owner", "pair"} => m[i].owner < g.owner
            BY <1>3, <2>1, <2>2 DEF MailIsTrue, MessageIsTrue
        <3>2. \A i \in DOMAIN calls : calls[i].from = c => calls[i].to < g.owner
            BY <1>3, <2>1 DEF CallIsTrue
        <3>. QED
            BY <2>1, <2>2, <2>5, <3>1, <3>2, HeardOrdered
    <2>7. cl[c].owner # 0 => LossComing(mail'[c])
        BY <1>2, <2>1, <2>2, HeardFollows DEF Follow, LossIsTold
    <2>8. cl[c].owner # rt'.owner
        BY <1>4, <2>1, <2>2, <2>5
    <2>9. Follow(cl[c], mail[c])'
        BY <1>2, <2>7, <2>8 DEF Follow, LossIsTold, LossComing, PairReaches
    <2>. QED
        BY <1>2, <2>1, <2>4, <2>6, <2>9
<1>8. owners <= owners' /\ AppliedAsSeen'
    BY <1>2, <1>3 DEF AppliedAsSeen
<1>. QED
    BY <1>2, <1>3, <1>4, <1>6, <1>7, <1>8, ServerSafe

-----------------------------------------------------------------------------
(* What the runtime accepts *)

\* What a verdict of ok says of the call, putV2, removeV2 and the others.
LEMMA Accepted ==
    ASSUME NEW call, NEW known, Verdict(call, known) = "ok"
    PROVE  /\ call.kind = "put" => Status(rt) = "Ready" /\ call.layout.dev = rt.dev /\ call.rev = rt.rev
           /\ call.kind = "delete" => /\ Status(rt) = "Ready" /\ call.rev = rt.rev
                                      /\ \E e \in rt.val : e.id = call.layout.id /\ e.dev = rt.dev
           /\ call.kind = "set" => call.rev = rt.rev /\ rt.writes
           /\ call.kind = "apply" =>
                 /\ Status(rt) = "Ready"
                 /\ \E e \in rt.val : e.id = call.layout.id /\ e.rev = call.layout.rev
<1>1. CASE call.kind = "put"
    BY <1>1 DEF Verdict, PutGate, PutVerdict
<1>2. CASE call.kind = "delete"
    BY <1>2 DEF Verdict, RemoveGate, RemoveVerdict, WithId
<1>3. CASE call.kind = "set"
    BY <1>3 DEF Verdict, SetVerdict
<1>4. CASE call.kind = "apply"
    BY <1>4 DEF Verdict, ApplyVerdict, MediaProof, WithId
<1>. QED
    BY <1>1, <1>2, <1>3, <1>4

\* The runtime a call reaches is the one its client saw the settings of.
LEMMA SeenIsNow ==
    ASSUME IInv, NEW call \in Requests, CallIsTrue(call), call.to = rt.owner
    PROVE  /\ rt.owner # 0
           /\ Layouts /\ Status(rt) = "Ready" =>
                 /\ rt.writes /\ rt.dev # NoDevice /\ disk.rev = rt.rev /\ disk.val = rt.val
                 /\ [key |-> 0, rev |-> rt.rev, val |-> rt.val] \in named
           /\ ~Layouts => [key |-> rt.owner, rev |-> rt.rev, val |-> rt.val] \in named
<1>1. rt.owner # 0
    BY DEF CallIsTrue, IInv, TypesInv, Bounded
<1>2. CASE Layouts
    <2>1. Status(rt) = "Ready" => rt.writes /\ rt.dev # NoDevice
        BY <1>2 DEF Status
    <2>. QED
        BY <1>1, <1>2, <2>1 DEF IInv, Means, LayoutsMean, Meaning, Key
<1>3. CASE ~Layouts
    BY <1>1, <1>3 DEF IInv, Means, PairsMean, Meaning, Key
<1>. QED
    BY <1>1, <1>2, <1>3

\* A change is accepted only from a client that saw what it replaces.
LEMMA ChangeIsSeen ==
    ASSUME IInv, NEW call \in Requests, CallIsTrue(call), call.to = rt.owner, call.kind \in Mutations,
           NEW known, Verdict(call, known) = "ok"
    PROVE  call.saw = Visible(rt.val, rt.dev)
<1>1. PICK n \in named :
          /\ n.key = Key(call.to) /\ n.rev = call.rev
          /\ call.saw = IF Layouts THEN Visible(n.val, call.layout.dev) ELSE n.val
          /\ call.kind \in {"delete", "apply"} => call.layout \in n.val
    BY DEF CallIsTrue, Mutations
<1>2. CASE Layouts
    <2>1. call.kind \in {"put", "delete"}
        BY <1>2 DEF CallIsTrue, Mutations
    <2>2. Status(rt) = "Ready" /\ call.rev = rt.rev
        BY <2>1, Accepted
    <2>3. [key |-> 0, rev |-> rt.rev, val |-> rt.val] \in named
        BY <1>2, <2>2, SeenIsNow
    <2>4. n.val = rt.val
        BY <1>1, <1>2, <2>2, <2>3 DEF IInv, Means, LayoutsMean, OnDisk
    <2>5. \A e, f \in rt.val : e.id = f.id => e = f
        BY <1>2, <2>3 DEF IInv, Means, LayoutsMean, OnDisk
    <2>6. call.layout.dev = rt.dev
        <3>1. CASE call.kind = "put"
            BY <3>1, Accepted
        <3>2. CASE call.kind = "delete"
            <4>1. PICK e \in rt.val : e.id = call.layout.id /\ e.dev = rt.dev
                BY <3>2, Accepted
            <4>. QED
                BY <1>1, <2>4, <2>5, <3>2, <4>1
        <3>. QED
            BY <2>1, <3>1, <3>2
    <2>. QED
        BY <1>1, <1>2, <2>4, <2>6
<1>3. CASE ~Layouts
    <2>1. call.kind = "set"
        BY <1>3 DEF CallIsTrue, Mutations
    <2>2. call.rev = rt.rev
        BY <2>1, Accepted
    <2>3. [key |-> rt.owner, rev |-> rt.rev, val |-> rt.val] \in named
        BY <1>3, SeenIsNow
    <2>4. n.val = rt.val
        BY <1>1, <1>3, <2>2, <2>3 DEF IInv, Means, PairsMean, Key
    <2>. QED
        BY <1>1, <1>3, <2>4 DEF Visible
<1>. QED
    BY <1>2, <1>3

\* A layout is accepted for Apply only as its client saw it.
LEMMA ApplyIsSeen ==
    ASSUME IInv, NEW call \in Requests, CallIsTrue(call), call.to = rt.owner, call.kind = "apply",
           NEW known, Verdict(call, known) = "ok"
    PROVE  call.layout = CHOOSE e \in WithId(call.layout.id) : TRUE
<1>1. PICK n \in named : call.layout \in n.val
    BY DEF CallIsTrue
<1>2. Layouts /\ Status(rt) = "Ready"
    BY Accepted DEF CallIsTrue
<1>3. [key |-> 0, rev |-> rt.rev, val |-> rt.val] \in named
    BY <1>2, SeenIsNow
<1>4. /\ \A e, f \in rt.val : e.id = f.id => e = f
      /\ \A e \in n.val, f \in rt.val : e.rev = f.rev => e = f
    BY <1>1, <1>2, <1>3 DEF IInv, Means, LayoutsMean, OnDisk
<1>5. PICK e \in rt.val : e.id = call.layout.id /\ e.rev = call.layout.rev
    BY Accepted
<1>6. e = call.layout
    BY <1>1, <1>4, <1>5
<1>7. WithId(call.layout.id) = {call.layout}
    BY <1>4, <1>5, <1>6 DEF WithId
<1>. QED
    BY <1>7

\* The layouts after a change: one is new, and it alone has the new revision.
LEMMA ChangedLayouts ==
    ASSUME IInv, Layouts, NEW call \in Requests, CallIsTrue(call), call.to = rt.owner,
           call.kind \in {"put", "delete"}, NEW known, Verdict(call, known) = "ok"
    PROVE  LET next == rt.rev + 1
               val == Changed(call)
           IN /\ \A e \in val : e \in Entry /\ e.id \in 1 .. next /\ e.rev \in 1 .. next
              /\ \A e, f \in val : e.id = f.id => e = f
              /\ \A e \in val : e \in rt.val \/ e.rev = next
              /\ \A e, f \in val : e.rev = next /\ f.rev = next => e = f
<1>. DEFINE next == rt.rev + 1
            val == Changed(call)
            l == call.layout
<1>1. Status(rt) = "Ready" /\ call.rev = rt.rev /\ rt.rev \in Nat
    BY Accepted DEF IInv, TypesInv, StoreTypes
<1>2. [key |-> 0, rev |-> rt.rev, val |-> rt.val] \in named
    BY <1>1, SeenIsNow
<1>3. /\ \A e \in rt.val : e \in Entry /\ e.id \in 1 .. rt.rev /\ e.rev \in 1 .. rt.rev
      /\ \A e, f \in rt.val : e.id = f.id => e = f
    BY <1>2 DEF IInv, Means, LayoutsMean, OnDisk
<1>4. \A e \in rt.val : e \in Entry /\ e.id \in 1 .. next /\ e.rev \in 1 .. next /\ e.rev # next
    BY <1>1, <1>3
<1>5. CASE call.kind = "delete"
    <2>1. val = rt.val \ WithId(l.id)
        BY <1>5 DEF Changed
    <2>. HIDE DEF val, next
    <2>. QED
        BY <1>3, <1>4, <2>1 DEF val, next
<1>6. CASE call.kind = "put"
    <2>. DEFINE new == [l EXCEPT !.rev = next, !.id = IF l.id = 0 THEN next ELSE @]
    <2>1. val = (rt.val \ WithId(l.id)) \cup {new}
        BY <1>6 DEF Changed, Stored
    <2>2. l \in Entry
        BY <1>6 DEF CallIsTrue
    <2>3. l.id \in 0 .. rt.rev
        BY <1>1, <1>6 DEF CallIsTrue
    <2>. DEFINE id == IF l.id = 0 THEN next ELSE l.id
    <2>4. new \in Entry /\ new.rev = next /\ new.id = IF l.id = 0 THEN next ELSE l.id
        <3>1. next \in Nat /\ id \in Nat
            BY <1>1, <2>3
        <3>2. new = [l EXCEPT !.rev = next, !.id = id]
            BY <2>2 DEF Entry
        <3>. HIDE DEF new, id, next, l
        <3>3. new \in Entry /\ new.rev = next /\ new.id = id
            BY <2>2, <3>1, <3>2 DEF Entry
        <3>. QED
            BY <3>3 DEF id
    <2>. HIDE DEF new
    <2>5. new.id \in 1 .. next /\ new.rev \in 1 .. next
        BY <1>1, <2>3, <2>4
    <2>6. \A e \in rt.val \ WithId(l.id) : e.id # new.id
        BY <1>1, <1>3, <2>4 DEF WithId
    <2>7. \A e \in val : (e \in rt.val /\ e \notin WithId(l.id)) \/ e = new
        BY <2>1
    <2>. HIDE DEF val, next, l
    <2>8. \A e \in val : e \in Entry /\ e.id \in 1 .. next /\ e.rev \in 1 .. next
        BY <1>4, <2>4, <2>5, <2>7
    <2>9. \A e, f \in val : e.id = f.id => e = f
        BY <1>3, <2>6, <2>7
    <2>10. /\ \A e \in val : e \in rt.val \/ e.rev = next
           /\ \A e, f \in val : e.rev = next /\ f.rev = next => e = f
        BY <1>4, <2>4, <2>7
    <2>. QED
        BY <2>8, <2>9, <2>10 DEF val, next
<1>. QED
    BY <1>5, <1>6

\* However a write of the layouts ends, revisions keep their meaning.
LEMMA LayoutsPersisted ==
    ASSUME IInv, Layouts, NEW call \in Requests, CallIsTrue(call), call.to = rt.owner,
           call.kind \in {"put", "delete"}, NEW known, Verdict(call, known) = "ok",
           NEW how \in Outcomes, Persist(rt.rev + 1, Changed(call), how)
    PROVE  /\ StoreTypes' /\ Means' /\ named \subseteq named'
           /\ rt'.owner = (IF how = "died" THEN 0 ELSE rt.owner)
           /\ how # "died" => rt'.dev = rt.dev
<1>. DEFINE next == rt.rev + 1
            val == Changed(call)
            now == [key |-> 0, rev |-> next, val |-> val]
<1>1. Status(rt) = "Ready" /\ StoreTypes /\ rt.rev \in Nat /\ next \in Nat /\ LayoutsMean
    BY Accepted DEF IInv, TypesInv, StoreTypes, Means
<1>2. rt.owner # 0 /\ disk.rev = rt.rev /\ disk.val = rt.val /\ rt.writes
    BY <1>1, SeenIsNow
<1>3. /\ \A e \in val : e \in Entry /\ e.id \in 1 .. next /\ e.rev \in 1 .. next
      /\ \A e, f \in val : e.id = f.id => e = f
      /\ \A e \in val : e \in rt.val \/ e.rev = next
      /\ \A e, f \in val : e.rev = next /\ f.rev = next => e = f
    BY ChangedLayouts
<1>4. val \in Values
    BY <1>3 DEF Values
<1>5. topic' = topic /\ Layouts'
    BY DEF Persist, Layouts
<1>6. PersistLayouts(next, val, how)
    BY DEF Persist
<1>. HIDE DEF val
<1>7. CASE how \notin Replaced
    <2>1. /\ disk' = disk /\ named' = named
          /\ \E b \in BOOLEAN : rt' = [rt EXCEPT !.writes = b] /\ (b => rt.writes)
        BY <1>6, <1>7 DEF PersistLayouts, Replaced, Outcomes
    <2>2. /\ rt' \in [owner : Nat, dev : Places, rev : Nat, val : Values, writes : BOOLEAN]
          /\ rt'.owner = rt.owner /\ rt'.dev = rt.dev /\ rt'.rev = rt.rev /\ rt'.val = rt.val
          /\ (rt'.writes => rt.writes)
        BY <1>1, <2>1 DEF StoreTypes
    <2>3. StoreTypes'
        BY <1>1, <1>5, <2>1, <2>2 DEF StoreTypes
    <2>4. LayoutsMean'
        BY <1>1, <1>5, <2>1, <2>2 DEF LayoutsMean, OnDisk, Meaning, Key
    <2>. QED
        BY <1>5, <1>7, <2>1, <2>2, <2>3, <2>4 DEF Means, Replaced
<1>8. CASE how \in Replaced
    <2>1. disk' = [rev |-> next, val |-> val] /\ named' = named \cup {now}
        BY <1>6, <1>8 DEF PersistLayouts, Meaning, Key
    <2>2. /\ rt' \in [owner : Nat, dev : Places, rev : Nat, val : Values, writes : BOOLEAN]
          /\ rt'.owner = IF how = "died" THEN 0 ELSE rt.owner
          /\ how # "died" => rt'.dev = rt.dev
          /\ how = "ok" => rt'.rev = next /\ rt'.val = val
          /\ how # "ok" => (rt'.owner = 0 \/ ~rt'.writes) /\ (rt'.val = rt.val \/ rt'.val = {})
        <3>1. CASE how = "ok"
            <4>1. rt' = [rt EXCEPT !.rev = next, !.val = val]
                BY <1>6, <3>1 DEF PersistLayouts
            <4>. HIDE DEF next
            <4>. QED
                BY <1>1, <1>4, <3>1, <4>1 DEF StoreTypes
        <3>2. CASE how = "died"
            <4>1. rt' = NoRuntime(rt.dev)
                BY <1>6, <3>2 DEF PersistLayouts
            <4>. QED
                BY <1>1, <3>2, <4>1 DEF StoreTypes, NoRuntime, Values
        <3>3. CASE how = "unknown"
            <4>1. rt' = [rt EXCEPT !.writes = FALSE]
                BY <1>6, <3>3 DEF PersistLayouts, Unconfirmed, StoreTypes
            <4>. QED
                BY <1>1, <3>3, <4>1 DEF StoreTypes
        <3>. QED
            BY <1>8, <3>1, <3>2, <3>3 DEF Replaced
    <2>3. StoreTypes'
        BY <1>1, <1>4, <1>5, <2>1, <2>2 DEF StoreTypes
    <2>4. OnDisk' = named \cup {now}
        BY <2>1 DEF OnDisk
    <2>5. \A n \in OnDisk' : n \in OnDisk \/ n = now
        BY <2>4 DEF OnDisk
    <2>6. \A n \in OnDisk :
              /\ n.key = 0 /\ n.rev < next
              /\ \A e \in n.val : e \in Entry /\ e.id \in 1 .. n.rev /\ e.rev \in 1 .. n.rev /\ e.rev # next
              /\ \A e, f \in n.val : e.id = f.id => e = f
        <3>1. \A n \in OnDisk : n.rev \in Nat
            BY <1>1 DEF OnDisk, StoreTypes
        <3>. QED
            BY <1>1, <1>2, <3>1 DEF LayoutsMean
    <2>7. \A n \in OnDisk' :
              /\ n.key = 0 /\ n.rev <= disk'.rev
              /\ \A e \in n.val : e \in Entry /\ e.id \in 1 .. n.rev /\ e.rev \in 1 .. n.rev
              /\ \A e, f \in n.val : e.id = f.id => e = f
        <3>1. \A n \in OnDisk : n.rev \in Nat
            BY <1>1 DEF OnDisk, StoreTypes
        <3>. HIDE DEF next
        <3>2. disk'.rev = next
            BY <2>1
        <3>3. ASSUME NEW n \in OnDisk
              PROVE  n.rev <= next
            BY <1>1, <2>6, <3>1
        <3>. QED
            BY <1>1, <1>3, <2>5, <2>6, <3>2, <3>3
    <2>8. [key |-> 0, rev |-> rt.rev, val |-> rt.val] \in OnDisk
        BY <1>2 DEF OnDisk
    <2>9. ASSUME NEW n \in OnDisk', NEW m \in OnDisk'
          PROVE  /\ n.rev = m.rev => n.val = m.val
                 /\ \A e \in n.val, f \in m.val : e.rev = f.rev => e = f
        <3>. HIDE DEF next
        <3>1. ASSUME NEW o \in OnDisk, NEW e \in val, NEW f \in o.val, e.rev = f.rev
              PROVE  e = f
            <4>1. e \in rt.val
                BY <1>3, <2>6, <3>1
            <4>. QED
                BY <1>1, <2>8, <3>1, <4>1 DEF LayoutsMean
        <3>2. \A e, f \in val : e.rev = f.rev => e = f
            <4>1. \A e, f \in rt.val : e.rev = f.rev => e = f
                BY <1>1, <2>8 DEF LayoutsMean
            <4>2. \A e \in rt.val : e.rev # next
                BY <2>6, <2>8
            <4>. QED
                BY <1>3, <4>1, <4>2
        <3>3. CASE n \in OnDisk /\ m \in OnDisk
            BY <1>1, <3>3 DEF LayoutsMean
        <3>4. CASE n \in OnDisk /\ m = now
            BY <1>1, <2>6, <3>1, <3>4
        <3>5. CASE n = now /\ m \in OnDisk
            BY <1>1, <2>6, <3>1, <3>5
        <3>6. CASE n = now /\ m = now
            BY <3>2, <3>6
        <3>. QED
            BY <2>5, <3>3, <3>4, <3>5, <3>6
    <2>10. \A e \in rt'.val : e \in Entry /\ e.id # 0 /\ e.rev # 0
        BY <1>1, <1>3, <2>2 DEF LayoutsMean
    <2>11. rt'.owner # 0 /\ rt'.writes =>
              disk'.rev = rt'.rev /\ disk'.val = rt'.val /\ Meaning(0, rt'.rev, rt'.val) \in named'
        <3>. HIDE DEF next
        <3>. QED
            BY <1>5, <2>1, <2>2 DEF Meaning, Key, Layouts
    <2>12. LayoutsMean'
        BY <1>5, <2>7, <2>9, <2>10, <2>11 DEF LayoutsMean, Meaning, Key, Layouts
    <2>. QED
        BY <1>5, <2>1, <2>2, <2>3, <2>12 DEF Means
<1>. QED
    BY <1>7, <1>8

\* However a write of the preferences ends, revisions keep their meaning.
LEMMA PairPersisted ==
    ASSUME IInv, ~Layouts, NEW call \in Requests, CallIsTrue(call), call.to = rt.owner,
           call.kind = "set", NEW known, Verdict(call, known) = "ok",
           NEW how \in Outcomes, Persist(rt.rev + 1, Changed(call), how)
    PROVE  /\ StoreTypes' /\ Means' /\ named \subseteq named'
           /\ rt'.owner = (IF how = "died" THEN 0 ELSE rt.owner)
           /\ how = "ok" => rt'.rev = rt.rev + 1
           /\ how # "ok" => rt' = rt \/ rt'.owner = 0
<1>. DEFINE next == rt.rev + 1
            val == call.pair
            now == [key |-> rt.owner, rev |-> next, val |-> val]
<1>1. /\ StoreTypes /\ rt.rev \in Nat /\ next \in Nat /\ rt.owner \in Nat /\ rt.owner # 0 /\ PairsMean
      /\ rt.owner = owners /\ owners \in Nat
    BY SeenIsNow DEF IInv, TypesInv, StoreTypes, Means, Bounded
<1>2. \E p \in Pairs : val = {p}
    BY DEF CallIsTrue
<1>3. val \in Values
    BY <1>2 DEF Values
<1>4. topic' = topic /\ Layouts' = Layouts /\ owners' = owners
    BY DEF Persist, Layouts
<1>5. PersistPair(next, val, how)
    BY DEF Persist, Changed
<1>. HIDE DEF val, next
<1>6. disk' \in [rev : Nat, val : Values] /\ \E p \in Pairs : disk'.val = {p}
    <2>1. disk' = disk \/ disk' = [disk EXCEPT !.val = val]
        BY <1>5 DEF PersistPair
    <2>. QED
        BY <1>1, <1>2, <1>3, <2>1 DEF StoreTypes, PairsMean
<1>7. CASE how = "ok"
    <2>1. rt' = [rt EXCEPT !.rev = next, !.val = val] /\ named' = named \cup {now}
        BY <1>5, <1>7 DEF PersistPair, Meaning, Key
    <2>2. /\ rt' \in [owner : Nat, dev : Places, rev : Nat, val : Values, writes : BOOLEAN]
          /\ rt'.owner = rt.owner /\ rt'.rev = next /\ rt'.val = val
        BY <1>1, <1>3, <2>1 DEF StoreTypes
    <2>3. StoreTypes'
        BY <1>1, <1>3, <1>4, <1>6, <2>1, <2>2 DEF StoreTypes
    <2>4. \A n \in named : n.rev \in Nat /\ n.key \in Nat /\ (n.key = rt.owner => n.rev <= rt.rev)
        BY <1>1 DEF StoreTypes, PairsMean
    <2>5. \A n \in named : n.key = rt.owner => n.rev < next
        BY <1>1, <2>4 DEF next
    <2>6. \A n \in named' : n.key \in 1 .. owners' /\ (n.key = rt'.owner => n.rev <= rt'.rev)
        <3>1. \A n \in named : n.key = rt.owner => n.rev <= next
            BY <1>1, <2>4 DEF next
        <3>. QED
            BY <1>1, <1>4, <2>1, <2>2, <3>1 DEF PairsMean
    <2>7. \A n, m \in named' : n.key = m.key /\ n.rev = m.rev => n.val = m.val
        BY <1>1, <2>1, <2>5 DEF PairsMean
    <2>8. Meaning(rt.owner, rt.rev, rt.val)' \in named'
        BY <1>4, <2>1, <2>2 DEF Meaning, Key
    <2>9. PairsMean'
        BY <1>2, <1>6, <2>2, <2>6, <2>7, <2>8 DEF PairsMean
    <2>. QED
        BY <1>4, <1>7, <2>1, <2>2, <2>3, <2>9 DEF Means, next
<1>8. CASE how # "ok"
    <2>1. named' = named /\ (rt' = IF how = "died" THEN NoRuntime(rt.dev) ELSE rt)
        BY <1>5, <1>8 DEF PersistPair
    <2>2. /\ rt' \in [owner : Nat, dev : Places, rev : Nat, val : Values, writes : BOOLEAN]
          /\ rt' = rt \/ rt'.owner = 0
          /\ rt'.owner = (IF how = "died" THEN 0 ELSE rt.owner)
        BY <1>1, <2>1 DEF StoreTypes, NoRuntime, Values
    <2>3. StoreTypes'
        BY <1>1, <1>4, <1>6, <2>1, <2>2 DEF StoreTypes
    <2>4. \A n \in named' : n.key \in 1 .. owners' /\ n.key # 0 /\ (n.key = rt'.owner => n.rev <= rt'.rev)
        BY <1>1, <1>4, <2>1, <2>2 DEF PairsMean
    <2>5. rt'.owner # 0 => Meaning(rt.owner, rt.rev, rt.val)' \in named' /\ \E p \in Pairs : rt'.val = {p}
        BY <1>1, <1>4, <2>1, <2>2 DEF PairsMean, Meaning, Key
    <2>6. PairsMean'
        BY <1>1, <1>6, <2>1, <2>4, <2>5 DEF PairsMean
    <2>. QED
        BY <1>4, <1>8, <2>1, <2>2, <2>3, <2>6 DEF Means
<1>. QED
    BY <1>7, <1>8

-----------------------------------------------------------------------------
(* The runtime handles the first call *)

\* The calls behind the first one.
LEMMA TailCalls ==
    ASSUME IInv, calls # <<>>, NEW q, q = Tail(calls), NEW call, call = Head(calls)
    PROVE  /\ call \in Requests /\ CallIsTrue(call)
           /\ q \in Seq(Requests) /\ \A i \in DOMAIN q : CallIsTrue(q[i])
           /\ \A c \in Clients : Ordered(c, cl[c], q, mail[c])
           /\ call.fresh /\ call.kind # "apply" =>
                 /\ call.to = cl[call.from].owner
                 /\ Layouts => \A i \in DOMAIN q : q[i].from = call.from /\ Mutation(q[i]) =>
                                                      q[i].to # cl[call.from].owner
<1>1. calls \in Seq(Requests)
    BY DEF IInv, TypesInv
<1>2. /\ q \in Seq(Requests) /\ call = calls[1] /\ 1 \in DOMAIN calls /\ call \in Requests
      /\ \A i \in DOMAIN q : i \in Nat \ {0} /\ i + 1 \in DOMAIN calls /\ q[i] = calls[i + 1]
    BY <1>1
<1>3. CallIsTrue(call) /\ \A i \in DOMAIN q : CallIsTrue(q[i])
    BY <1>2 DEF IInv
<1>4. ASSUME NEW c \in Clients
      PROVE  Ordered(c, cl[c], q, mail[c])
    <2>1. /\ FreshIsOwn(c, cl[c], calls, mail[c]) /\ OwnersInOrder(c, cl[c], calls, mail[c])
          /\ OneChange(c, cl[c], calls, mail[c])
        BY DEF IInv, ClientInv
    <2>2. FreshIsOwn(c, cl[c], q, mail[c])
        BY <1>2, <2>1 DEF FreshIsOwn
    <2>3. OwnersInOrder(c, cl[c], q, mail[c])
        BY <1>2, <2>1 DEF OwnersInOrder
    <2>4. OneChange(c, cl[c], q, mail[c])
        BY <1>2, <2>1 DEF OneChange
    <2>. QED
        BY <2>2, <2>3, <2>4 DEF Ordered
<1>5. ASSUME call.fresh, call.kind # "apply"
      PROVE  /\ call.to = cl[call.from].owner
             /\ Layouts => \A i \in DOMAIN q : q[i].from = call.from /\ Mutation(q[i]) =>
                                                  q[i].to # cl[call.from].owner
    <2>1. PICK c \in Clients : c = call.from
        BY <1>2 DEF Requests
    <2>2. FreshIsOwn(c, cl[c], calls, mail[c]) /\ OneChange(c, cl[c], calls, mail[c])
        BY DEF IInv, ClientInv
    <2>3. call.to = cl[c].owner
        BY <1>2, <1>5, <2>1, <2>2 DEF FreshIsOwn
    <2>4. ASSUME Layouts, NEW i \in DOMAIN q, q[i].from = c, Mutation(q[i]), q[i].to = cl[c].owner
          PROVE  FALSE
        <3>1. i + 1 <= 1
            BY <1>2, <1>5, <2>1, <2>2, <2>4 DEF OneChange
        <3>. QED
            BY <1>2, <3>1
    <2>. QED
        BY <2>1, <2>3, <2>4
<1>. QED
    BY <1>2, <1>3, <1>4, <1>5

\* A snapshot says what the runtime has.
LEMMA SnapshotSays ==
    ASSUME topic \in {"layouts", "preferences"}, topic' = topic, StoreTypes', Means', rt'.owner # 0,
           NEW x, x = Snapshot(rt'), NEW o, o = rt'.owner
    PROVE  x \in Snaps /\ x.rev = rt'.rev /\ SaysSo(o, x)' /\ (~Layouts => x.status = "Ready")
<1>1. Layouts' = Layouts
    BY DEF Layouts
<1>2. PICK r : r = rt'
    OBVIOUS
<1>3. r \in [owner : Nat, dev : Places, rev : Nat, val : Values, writes : BOOLEAN]
    BY <1>2 DEF StoreTypes
<1>4. /\ x.status = Status(r) /\ x.rev = r.rev /\ x.dev = r.dev
      /\ x.val = IF Status(r) = "Ready" THEN Visible(r.val, r.dev) ELSE {}
      /\ x = [status |-> Status(r), rev |-> r.rev, dev |-> r.dev,
              val |-> IF Status(r) = "Ready" THEN Visible(r.val, r.dev) ELSE {}]
    BY <1>2 DEF Snapshot
<1>5. Status(r) \in {"Ready", "Disconnected", "Unavailable"}
    BY DEF Status
<1>6. Visible(r.val, r.dev) \in Values
    BY <1>3 DEF Visible, Values
<1>7. x \in Snaps
    BY <1>3, <1>4, <1>5, <1>6 DEF Snaps, Values
<1>8. ASSUME x.status = "Ready"
      PROVE  /\ \E n \in named' : n.key = Key(o)' /\ n.rev = x.rev /\ x.val = Visible(n.val, x.dev)
             /\ Layouts => x.dev \in Devices
    <2>1. x.val = Visible(r.val, r.dev)
        BY <1>4, <1>8
    <2>2. CASE Layouts
        <3>1. r.dev # NoDevice /\ r.writes
            BY <1>4, <1>8, <2>2 DEF Status
        <3>2. [key |-> 0, rev |-> r.rev, val |-> r.val] \in named'
            BY <1>1, <1>2, <2>2, <3>1 DEF Means, LayoutsMean, Meaning, Key
        <3>3. Key(o)' = 0
            BY <1>1, <2>2 DEF Key
        <3>4. x.dev \in Devices
            BY <1>3, <1>4, <3>1 DEF Places
        <3>. DEFINE n == [key |-> 0, rev |-> r.rev, val |-> r.val]
        <3>5. n \in named' /\ n.key = Key(o)' /\ n.rev = x.rev /\ x.val = Visible(n.val, x.dev)
            BY <1>4, <2>1, <3>2, <3>3
        <3>. QED
            BY <3>4, <3>5
    <2>3. CASE ~Layouts
        <3>1. [key |-> o, rev |-> r.rev, val |-> r.val] \in named'
            BY <1>1, <1>2, <2>3 DEF Means, PairsMean, Meaning, Key
        <3>2. Key(o)' = o
            BY <1>1, <2>3 DEF Key
        <3>. DEFINE n == [key |-> o, rev |-> r.rev, val |-> r.val]
        <3>3. n \in named' /\ n.key = Key(o)' /\ n.rev = x.rev /\ x.val = Visible(n.val, x.dev)
            BY <1>4, <2>1, <2>3, <3>1, <3>2 DEF Visible
        <3>. QED
            BY <2>3, <3>3
    <2>. QED
        BY <2>2, <2>3
<1>9. \A v, d : Visible(v, d)' = Visible(v, d)
    BY <1>1 DEF Visible
<1>10. SaysSo(o, x)'
    BY <1>1, <1>8, <1>9 DEF SaysSo
<1>11. ~Layouts => x.status = "Ready"
    BY <1>4 DEF Status
<1>. QED
    BY <1>2, <1>4, <1>7, <1>10, <1>11

\* Every client hears of a change of the preferences, the one that called hears the answer.
LEMMA ToldSafe ==
    ASSUME IInv, calls # <<>>, NEW call, call = Head(calls), call.to = rt.owner, call.kind # "apply",
           topic' = topic, owners' = owners, named \subseteq named', StoreTypes', Means', cl' = cl,
           rt'.owner = rt.owner, NEW x, x = Snapshot(rt'),
           NEW error \in Errors, NEW announced \in BOOLEAN,
           announced => ~Layouts, ~announced => Layouts \/ rt' = rt,
           NEW c \in Clients,
           NEW heard, heard = (IF announced /\ cl[c].owner = rt.owner
                               THEN Append(mail[c], [kind |-> "pair", owner |-> rt.owner, snap |-> x])
                               ELSE mail[c]),
           NEW told, told = (IF c = call.from
                             THEN Append(heard, [kind |-> "answer", call |-> call, error |-> error, snap |-> x])
                             ELSE heard)
    PROVE  /\ told \in Seq(Messages) /\ MailIsTrue(told)'
           /\ Ordered(c, cl[c], Tail(calls), told) /\ LossIsTold(cl[c], told)' /\ PairReaches(cl[c], told)'
<1>. DEFINE pair == [kind |-> "pair", owner |-> rt.owner, snap |-> x]
            answer == [kind |-> "answer", call |-> call, error |-> error, snap |-> x]
<1>0. PICK q, k, m, o : q = Tail(calls) /\ k = cl[c] /\ m = mail[c] /\ o = rt.owner
    OBVIOUS
<1>1. /\ call \in Requests /\ CallIsTrue(call) /\ Ordered(c, k, q, m)
      /\ call.fresh => /\ call.to = cl[call.from].owner
                       /\ Layouts => \A i \in DOMAIN q : q[i].from = call.from /\ Mutation(q[i]) =>
                                                            q[i].to # cl[call.from].owner
    BY <1>0, TailCalls
<1>2. /\ o \in 1 .. owners /\ o # 0 /\ owners \in Nat /\ o = owners /\ rt'.owner = o
      /\ k \in ClientStates /\ m \in Seq(Messages) /\ MailIsTrue(m) /\ LossIsTold(k, m) /\ PairReaches(k, m)
      /\ topic \in {"layouts", "preferences"} /\ Layouts' = Layouts
    BY <1>0, <1>1 DEF IInv, TypesInv, Bounded, CallIsTrue, ClientInv, Follow, Layouts, StoreTypes
<1>3. x \in Snaps /\ x.rev = rt'.rev /\ SaysSo(o, x)' /\ (~Layouts => x.status = "Ready")
    BY <1>2, SnapshotSays
<1>4. /\ pair \in Messages /\ pair.kind = "pair" /\ pair.owner = o /\ pair.snap = x
      /\ answer \in Messages /\ answer.kind = "answer" /\ answer.call = call /\ answer.snap = x
    BY <1>0, <1>1, <1>2, <1>3 DEF Messages
<1>5. PICK p, a : p = pair /\ a = answer
    OBVIOUS
<1>. HIDE DEF pair, answer
<1>6. MailIsTrue(m)'
    BY <1>2, StoreGrows
<1>7. MessageIsTrue(a)'
    BY <1>1, <1>2, <1>3, <1>4, <1>5 DEF MessageIsTrue, CallIsTrue, Requests, Mutations
<1>8. ~Layouts => MessageIsTrue(p)'
    BY <1>2, <1>3, <1>4, <1>5 DEF MessageIsTrue
<1>9. heard = (IF announced /\ k.owner = o THEN Append(m, p) ELSE m)
    BY <1>0, <1>5 DEF pair
<1>10. told = (IF c = call.from THEN Append(heard, a) ELSE heard)
    BY <1>5 DEF answer
<1>11. /\ heard \in Seq(Messages) /\ MailIsTrue(heard)' /\ Ordered(c, k, q, heard)
       /\ LossComing(m) => LossComing(heard)
       /\ ToBeTold(m) => ToBeTold(heard)
       /\ announced /\ k.owner = o => \E i \in DOMAIN heard : heard[i] = p
    <2>1. CASE announced /\ k.owner = o
        <3>1. heard = Append(m, p) /\ ~Layouts /\ p \in Messages /\ p.kind = "pair"
            BY <1>4, <1>5, <1>9, <2>1
        <3>2. \A i \in DOMAIN m : m[i].kind # "owner"
            BY <1>0, <1>2, <2>1, NoneAnnounced
        <3>3. Ordered(c, k, q, heard)
            BY <1>1, <1>2, <3>1, <3>2, HeardOrdered
        <3>4. MailIsTrue(heard)'
            BY <1>2, <1>6, <1>8, <3>1, MailHeard
        <3>5. heard \in Seq(Messages) /\ \E i \in DOMAIN heard : heard[i] = p
            <4>0. m \in Seq(Messages) /\ p \in Messages /\ heard = Append(m, p)
                BY <1>2, <3>1
            <4>1. /\ heard \in Seq(Messages) /\ Len(m) \in Nat /\ DOMAIN heard = 1 .. Len(m) + 1
                  /\ heard[Len(m) + 1] = p
                BY ONLY <4>0, HeardOf
            <4>2. Len(m) + 1 \in DOMAIN heard
                BY <4>1
            <4>. QED
                BY <4>1, <4>2
        <3>. QED
            BY <1>2, <3>1, <3>3, <3>4, <3>5, HeardFollows
    <2>2. CASE ~(announced /\ k.owner = o)
        BY <1>1, <1>2, <1>6, <1>9, <2>2
    <2>. QED
        BY <2>1, <2>2
<1>12. /\ told \in Seq(Messages) /\ MailIsTrue(told)' /\ Ordered(c, k, q, told)
       /\ LossComing(m) => LossComing(told)
       /\ ToBeTold(m) => ToBeTold(told)
       /\ announced /\ k.owner = o => \E i \in DOMAIN told : told[i] = p
       /\ ~announced => \A i \in DOMAIN told : (i \in DOMAIN m /\ told[i] = m[i]) \/ told[i] = a
    <2>1. CASE c = call.from
        <3>1. told = Append(heard, a) /\ a \in Messages /\ a.kind = "answer" /\ a.call = call
            BY <1>4, <1>5, <1>10, <2>1
        <3>2. Ordered(c, k, q, told)
            <4>1. a.call.fresh =>
                    /\ a.call.to = k.owner
                    /\ Layouts => \A i \in DOMAIN q : q[i].from = c /\ Mutation(q[i]) => q[i].to # k.owner
                BY <1>0, <1>1, <2>1, <3>1
            <4>. QED
                BY <1>11, <3>1, <4>1, HeardOrdered
        <3>3. MailIsTrue(told)'
            BY <1>7, <1>11, <3>1, MailHeard
        <3>4. /\ told \in Seq(Messages)
              /\ \A i \in DOMAIN heard : i \in DOMAIN told /\ told[i] = heard[i]
              /\ \A i \in DOMAIN told : (i \in DOMAIN heard /\ told[i] = heard[i]) \/ told[i] = a
            BY <1>11, <3>1, HeardOf
        <3>5. (LossComing(m) => LossComing(told)) /\ (ToBeTold(m) => ToBeTold(told))
            BY <1>11, <3>1, HeardFollows
        <3>. QED
            BY <1>9, <1>11, <3>2, <3>3, <3>4, <3>5
    <2>2. CASE c # call.from
        BY <1>9, <1>10, <1>11, <2>2
    <2>. QED
        BY <2>1, <2>2
<1>13. LossIsTold(k, told)'
    BY <1>0, <1>2, <1>12 DEF LossIsTold, LossComing
<1>14. PairReaches(k, told)'
    <2>1. SUFFICES ASSUME ~Layouts, k.owner # 0, k.owner = o
                   PROVE  UpToDate(k)' \/ ToBeTold(told)' \/ NothingOld(k, told)'
        BY <1>2 DEF PairReaches
    <2>2. CASE announced
        <3>1. PICK i \in DOMAIN told : told[i] = p
            BY <1>12, <2>1, <2>2
        <3>. QED
            BY <1>2, <1>3, <1>4, <1>5, <3>1 DEF ToBeTold
    <2>3. CASE ~announced
        <3>1. rt' = rt
            BY <2>1, <2>3
        <3>2. UpToDate(k) \/ ToBeTold(m) \/ NothingOld(k, m)
            BY <1>0, <1>2, <2>1 DEF PairReaches
        <3>3. CASE UpToDate(k)
            BY <3>1, <3>3 DEF UpToDate
        <3>4. CASE ToBeTold(m)
            BY <1>12, <3>1, <3>4 DEF ToBeTold
        <3>5. CASE NothingOld(k, m)
            <4>1. NothingOld(k, told)
                BY <1>3, <1>4, <1>5, <1>12, <2>3, <3>1, <3>5 DEF NothingOld
            <4>. QED
                BY <3>1, <4>1 DEF NothingOld
        <3>. QED
            BY <3>2, <3>3, <3>4, <3>5
    <2>. QED
        BY <2>2, <2>3
<1>15. k = cl'[c]
    BY <1>0
<1>. QED
    BY <1>0, <1>12, <1>13, <1>14, <1>15

\* Handling a call keeps the invariant: it is refused, or it changes what its client saw.
LEMMA HandleSafe ==
    ASSUME IInv, NEW known \in BOOLEAN, NEW how \in Outcomes, Handle(known, how)
    PROVE  IInv'
<1>0. PICK call, q : call = Head(calls) /\ q = Tail(calls)
    OBVIOUS
<1>. DEFINE verdict == IF call.to # rt.owner THEN "gone" ELSE Verdict(call, known)
            change == verdict = "ok" /\ call.kind \in Mutations
            error == IF verdict \notin {"ok", "same"} THEN verdict
                     ELSE IF how = "unknown" THEN "CommitUnknown"
                     ELSE IF how # "ok" THEN "Unavailable" ELSE ""
            announced == change /\ how = "ok" /\ Announced(call)
<1>1. /\ calls # <<>> /\ calls' = q /\ UNCHANGED <<cl, wishes>> /\ Trouble(~known \/ how # "ok")
      /\ how = "ok" \/ change
      /\ IF change THEN Persist(rt.rev + 1, Changed(call), how)
         ELSE UNCHANGED <<topic, disk, rt, owners, named>>
      /\ applied' = IF call.kind = "apply" /\ verdict = "ok"
                    THEN [seen |-> call.layout, was |-> CHOOSE e \in WithId(call.layout.id) : TRUE]
                    ELSE applied
      /\ mail' = IF verdict = "gone" \/ call.kind = "apply" THEN mail
                 ELSE IF how = "died" THEN [c \in Clients |-> Append(mail[c], [kind |-> "lost"])]
                 ELSE Told(call, error, [owner |-> rt.owner, of |-> Snapshot(rt')], announced)
    BY <1>0 DEF Handle
<1>2. /\ StoreTypes /\ Bounded /\ mail \in [Clients -> Seq(Messages)]
      /\ Means /\ AppliedAsSeen /\ cl \in [Clients -> ClientStates]
    BY DEF IInv, TypesInv
<1>3. /\ call \in Requests /\ CallIsTrue(call) /\ call.to # 0
      /\ q \in Seq(Requests) /\ \A i \in DOMAIN q : CallIsTrue(q[i])
      /\ \A c \in Clients : Ordered(c, cl[c], q, mail[c])
    <2>1. /\ call \in Requests /\ CallIsTrue(call) /\ q \in Seq(Requests) /\ \A i \in DOMAIN q : CallIsTrue(q[i])
          /\ \A c \in Clients : Ordered(c, cl[c], q, mail[c])
        BY <1>0, <1>1, TailCalls
    <2>2. call.to # 0
        BY <1>2, <2>1 DEF CallIsTrue, Bounded
    <2>. QED
        BY <2>1, <2>2
<1>4. /\ StoreTypes' /\ Means' /\ named \subseteq named' /\ topic' = topic /\ owners' = owners
      /\ rt'.owner = (IF how = "died" THEN 0 ELSE rt.owner)
      /\ announced => ~Layouts /\ rt.owner # 0
      /\ ~announced => Layouts \/ rt'.owner = 0 \/ rt' = rt
      /\ change => rt.owner # 0 /\ call.to = rt.owner
    <2>1. CASE change
        <3>1. /\ call.to = rt.owner /\ call.kind \in Mutations /\ Verdict(call, known) = "ok"
              /\ Persist(rt.rev + 1, Changed(call), how)
            BY <1>1, <2>1
        <3>2. topic' = topic /\ owners' = owners
            BY <3>1 DEF Persist
        <3>3. CASE Layouts
            <4>1. call.kind \in {"put", "delete"}
                BY <1>3, <3>1, <3>3 DEF CallIsTrue, Mutations
            <4>2. StoreTypes' /\ Means' /\ named \subseteq named' /\ rt'.owner = (IF how = "died" THEN 0 ELSE rt.owner)
                BY <1>3, <3>1, <3>3, <4>1, LayoutsPersisted
            <4>. QED
                BY <1>3, <2>1, <3>1, <3>2, <3>3, <4>1, <4>2 DEF Announced
        <3>4. CASE ~Layouts
            <4>1. call.kind = "set"
                BY <1>3, <3>1, <3>4 DEF CallIsTrue, Mutations
            <4>2. /\ StoreTypes' /\ Means' /\ named \subseteq named'
                  /\ rt'.owner = (IF how = "died" THEN 0 ELSE rt.owner)
                  /\ how # "ok" => rt' = rt \/ rt'.owner = 0
                BY <1>3, <3>1, <3>4, <4>1, PairPersisted
            <4>. QED
                BY <1>3, <2>1, <3>1, <3>2, <3>4, <4>1, <4>2 DEF Announced
        <3>. QED
            BY <3>3, <3>4
    <2>2. CASE ~change
        <3>1. UNCHANGED <<topic, disk, rt, owners, named>> /\ how = "ok" /\ ~announced
            BY <1>1, <2>2
        <3>2. StoreTypes' /\ Means'
            BY <1>2, <3>1, StoreSame DEF StoreTypes
        <3>. QED
            BY <2>2, <3>1, <3>2
    <2>. QED
        BY <2>1, <2>2
<1>5. Bounded'
    <2>1. troubles' \in 0 .. MaxTroubles /\ troubles <= troubles' /\ (how # "ok" => troubles' = troubles + 1)
        <3>1. troubles \in Nat /\ troubles <= MaxTroubles
            BY <1>2, BoundsAreNaturals DEF Bounded
        <3>2. CASE ~known \/ how # "ok"
            <4>1. troubles < MaxTroubles /\ troubles' = troubles + 1
                BY <1>1, <3>2 DEF Trouble
            <4>. QED
                BY <3>1, <4>1, BoundsAreNaturals
        <3>3. CASE ~(~known \/ how # "ok")
            <4>1. troubles' = troubles
                BY <1>1, <3>3 DEF Trouble
            <4>. QED
                BY <3>1, <3>3, <4>1, BoundsAreNaturals
        <3>. QED
            BY <3>2, <3>3
    <2>2. /\ owners \in Nat /\ rt.owner \in {0, owners} /\ wishes \in 0 .. MaxWishes
          /\ owners <= troubles + 1 /\ (rt.owner = 0 => owners <= troubles)
          /\ troubles \in Nat
        BY <1>2, BoundsAreNaturals DEF Bounded
    <2>3. /\ owners' = owners /\ wishes' = wishes
          /\ rt'.owner = (IF how = "died" THEN 0 ELSE rt.owner)
        BY <1>1, <1>4
    <2>4. rt'.owner \in {0, owners'} /\ owners' \in Nat /\ wishes' \in 0 .. MaxWishes
        BY <2>2, <2>3
    <2>5. owners' <= troubles' + 1
        <3>1. troubles' \in Nat /\ troubles <= troubles' /\ owners' = owners
            BY <2>1, <2>3, BoundsAreNaturals
        <3>2. owners \in Nat /\ troubles \in Nat /\ owners <= troubles + 1
            BY <2>2
        <3>3. \A a, b, d \in Nat : a <= b + 1 /\ b <= d => a <= d + 1
            OBVIOUS
        <3>. QED
            BY <3>1, <3>2, <3>3
    <2>6. rt'.owner = 0 => owners' <= troubles'
        BY <2>1, <2>2, <2>3, BoundsAreNaturals
    <2>. QED
        BY <2>1, <2>4, <2>5, <2>6 DEF Bounded
<1>6. AppliedAsSeen'
    <2>1. CASE call.kind = "apply" /\ verdict = "ok"
        <3>1. call.to = rt.owner /\ Verdict(call, known) = "ok"
            BY <2>1
        <3>2. call.layout = CHOOSE e \in WithId(call.layout.id) : TRUE
            BY <1>3, <2>1, <3>1, ApplyIsSeen
        <3>. QED
            BY <1>1, <2>1, <3>2 DEF AppliedAsSeen
    <2>2. CASE ~(call.kind = "apply" /\ verdict = "ok")
        BY <1>1, <1>2, <2>2 DEF AppliedAsSeen
    <2>. QED
        BY <2>1, <2>2
<1>. HIDE DEF error, announced
<1>7. ASSUME NEW c \in Clients
      PROVE  /\ mail'[c] \in Seq(Messages) /\ MailIsTrue(mail[c])' /\ Ordered(c, cl[c], q, mail'[c])
             /\ Follow(cl[c], mail[c])'
    <2>0. PICK m, k : m = mail[c] /\ k = cl[c]
        OBVIOUS
    <2>1. /\ m \in Seq(Messages) /\ MailIsTrue(m)' /\ Ordered(c, k, q, m) /\ Follow(k, m) /\ k = cl'[c]
        BY <1>1, <1>2, <1>3, <1>4, <2>0, StoreGrows DEF IInv, ClientInv, Bounded
    <2>2. CASE verdict = "gone" \/ call.kind = "apply"
        <3>1. ~change
            BY <2>2 DEF Mutations
        <3>2. mail' = mail /\ UNCHANGED <<topic, disk, rt, owners, named>>
            BY <1>1, <2>2, <3>1
        <3>3. Follow(k, m)'
            BY <2>1, <3>2, StoreSame
        <3>. QED
            BY <1>1, <2>0, <2>1, <3>2, <3>3
    <2>3. CASE verdict # "gone" /\ call.kind # "apply" /\ how = "died"
        <3>0. PICK g : g = [kind |-> "lost"]
            OBVIOUS
        <3>1. mail'[c] = Append(m, g) /\ g \in Messages /\ g.kind = "lost"
            BY <1>1, <2>0, <2>3, <3>0 DEF Messages
        <3>2. MailIsTrue(Append(m, g))' /\ Append(m, g) \in Seq(Messages)
            BY <2>1, <3>1, MailHeard DEF MessageIsTrue
        <3>3. Ordered(c, k, q, Append(m, g))
            BY <2>1, <3>1, HeardOrdered
        <3>4. rt'.owner = 0 /\ change /\ rt.owner # 0
            BY <1>1, <1>4, <2>3
        <3>5. k.owner # 0 => LossComing(Append(m, g))
            <4>1. CASE k.owner = rt.owner
                <5>1. \A i \in DOMAIN m : m[i].kind # "owner"
                    BY <2>0, <3>4, <4>1, NoneAnnounced
                <5>. QED
                    BY <2>1, <3>1, <5>1, HeardFollows
            <4>2. CASE k.owner # rt.owner
                BY <2>1, <3>1, <4>2, HeardFollows DEF Follow, LossIsTold
            <4>. QED
                BY <4>1, <4>2
        <3>6. LossComing(mail'[c]) \/ k.owner = 0
            BY <3>1, <3>5
        <3>7. Follow(cl[c], mail[c])'
            BY <2>1, <3>4, <3>6 DEF Follow, LossIsTold, LossComing, PairReaches
        <3>. QED
            BY <2>0, <3>1, <3>2, <3>3, <3>7
    <2>4. CASE verdict # "gone" /\ call.kind # "apply" /\ how # "died"
        <3>0. PICK x, e, a : x = Snapshot(rt') /\ e = error /\ a = announced
            OBVIOUS
        <3>1. PICK heard, told :
                  /\ heard = IF a /\ k.owner = rt.owner
                             THEN Append(m, [kind |-> "pair", owner |-> rt.owner, snap |-> x]) ELSE m
                  /\ told = IF c = call.from
                            THEN Append(heard, [kind |-> "answer", call |-> call, error |-> e, snap |-> x])
                            ELSE heard
            OBVIOUS
        <3>2. mail' = Told(call, e, [owner |-> rt.owner, of |-> x], a)
            BY <1>1, <2>4, <3>0
        <3>3. mail'[c] = told
            BY <2>0, <3>1, <3>2 DEF Told
        <3>4. call.to = rt.owner
            BY <2>4
        <3>5. e \in Errors
            <4>1. Verdict(call, known) \in {"ok", "same", "Unavailable", "Invalid", "Conflict", "NameConflict", "Refused"}
                BY DEF Verdict, PutGate, PutVerdict, RemoveGate, RemoveVerdict, SetVerdict, ApplyVerdict
            <4>. QED
                BY <2>4, <3>0, <4>1 DEF error, Errors
        <3>6. a \in BOOLEAN
            BY <3>0 DEF announced, Announced
        <3>7. (a => ~Layouts) /\ (~a => Layouts \/ rt' = rt) /\ rt'.owner = rt.owner
            BY <1>3, <1>4, <2>4, <3>0, <3>4
        <3>8. /\ told \in Seq(Messages) /\ MailIsTrue(told)'
              /\ Ordered(c, cl[c], Tail(calls), told) /\ LossIsTold(cl[c], told)' /\ PairReaches(cl[c], told)'
            BY ZenonT(60), <1>0, <1>1, <1>4, <2>0, <2>4, <3>0, <3>1, <3>4, <3>5, <3>6, <3>7, ToldSafe
        <3>. QED
            BY <1>0, <3>3, <3>8 DEF Follow
    <2>. QED
        BY <2>2, <2>3, <2>4
<1>8. mail' \in [Clients -> Seq(Messages)]
    <2>1. mail' = [c \in Clients |-> mail'[c]]
        BY <1>1, <1>2 DEF Told
    <2>. QED
        BY <1>7, <2>1
<1>9. cl' = cl /\ owners <= owners'
    BY <1>1, <1>2, <1>4 DEF Bounded
<1>. QED
    BY <1>1, <1>3, <1>4, <1>5, <1>6, <1>7, <1>8, <1>9, ServerSafe

-----------------------------------------------------------------------------
(* The invariant and the properties *)

\* At first nobody knows anything.
LEMMA InitSafe ==
    ASSUME Init
    PROVE  IInv
<1>1. /\ topic \in {"layouts", "preferences"} /\ disk = [rev |-> 0, val |-> IF Layouts THEN {} ELSE {Defaults}]
      /\ owners = 0 /\ named = {} /\ troubles = 0 /\ wishes = 0 /\ calls = <<>>
      /\ mail = [c \in Clients |-> <<>>] /\ cl = [c \in Clients |-> NoClient]
      /\ applied.seen = applied.was
    BY DEF Init, StoreInit
<1>2. PICK d \in Devices : rt = NoRuntime(d)
    BY DEF Init, StoreInit
<1>3. StoreTypes
    <2>1. (IF Layouts THEN {} ELSE {Defaults}) \in Values
        BY DefaultsAreAPair DEF Values
    <2>2. disk \in [rev : Nat, val : Values]
        BY <1>1, <2>1
    <2>3. rt \in [owner : Nat, dev : Places, rev : Nat, val : Values, writes : BOOLEAN]
        BY <1>2 DEF NoRuntime, Places, Values
    <2>. QED
        BY <1>1, <2>2, <2>3 DEF StoreTypes
<1>4. Bounded
    BY <1>1, <1>2, BoundsAreNaturals DEF Bounded, NoRuntime
<1>5. NoClient \in ClientStates /\ NoClient.owner = 0 /\ ~NoClient.busy /\ ~NoClient.pending
      /\ NoClient.shown.status = "Unavailable" /\ NoClient.last.status = "Unavailable"
    BY DEF NoClient, ClientStates, NoShown, Snaps, Places, Values
<1>6. TypesInv
    BY <1>1, <1>3, <1>4, <1>5 DEF TypesInv
<1>7. Means
    <2>1. CASE Layouts
        BY <1>1, <1>2, <2>1 DEF Means, LayoutsMean, OnDisk, NoRuntime
    <2>2. CASE ~Layouts
        BY <1>1, <1>2, <2>2, DefaultsAreAPair DEF Means, PairsMean, NoRuntime
    <2>. QED
        BY <2>1, <2>2
<1>8. ASSUME NEW c \in Clients
      PROVE  ClientInv(c, cl[c], calls, mail[c]) /\ Follow(cl[c], mail[c])
    <2>1. DOMAIN calls = {} /\ DOMAIN mail[c] = {} /\ cl[c] = NoClient
        BY <1>1
    <2>2. MailIsTrue(mail[c]) /\ FreshIsOwn(c, cl[c], calls, mail[c]) /\ OwnersInOrder(c, cl[c], calls, mail[c])
          /\ OneChange(c, cl[c], calls, mail[c])
        BY <2>1 DEF MailIsTrue, FreshIsOwn, OwnersInOrder, OneChange
    <2>3. ViewIsTrue(cl[c])
        BY <1>1, <1>5, <2>1 DEF ViewIsTrue, SaysSo
    <2>4. Follow(cl[c], mail[c])
        BY <1>5, <2>1 DEF Follow, LossIsTold, PairReaches
    <2>. QED
        BY <2>2, <2>3, <2>4 DEF ClientInv
<1>. QED
    BY <1>1, <1>6, <1>7, <1>8 DEF IInv, AppliedAsSeen

\* Nothing happens.
LEMMA StutterSafe ==
    ASSUME IInv, UNCHANGED vars
    PROVE  IInv'
<1>1. /\ UNCHANGED <<topic, disk, rt, owners, named, troubles, calls, mail, cl, applied, wishes>>
    BY DEF vars, storeVars
<1>2. StoreTypes' /\ Bounded' /\ Means' /\ AppliedAsSeen'
    BY <1>1, StoreSame DEF IInv, TypesInv, StoreTypes, Bounded, AppliedAsSeen
<1>3. calls' \in Seq(Requests) /\ mail' \in [Clients -> Seq(Messages)] /\ owners <= owners'
      /\ \A i \in DOMAIN calls' : CallIsTrue(calls'[i])
    BY <1>1 DEF IInv, TypesInv, Bounded
<1>4. ASSUME NEW c \in Clients
      PROVE  /\ MailIsTrue(mail[c])' /\ Ordered(c, cl[c], calls', mail'[c])
             /\ Follow(cl[c], mail[c])'
    <2>1. PICK k, m : k = cl[c] /\ m = mail[c]
        OBVIOUS
    <2>2. MailIsTrue(m)' /\ Follow(k, m)'
        BY <1>1, <2>1, StoreSame DEF IInv, ClientInv
    <2>3. Ordered(c, cl[c], calls, mail[c])
        BY DEF IInv, ClientInv, Ordered
    <2>. QED
        BY <1>1, <2>1, <2>2, <2>3
<1>. QED
    BY <1>1, <1>2, <1>3, <1>4, ServerSafe

\* Every step keeps the invariant.
LEMMA StepSafe ==
    ASSUME IInv, [Next]_vars
    PROVE  IInv'
<1>1. ASSUME NEW c \in Clients, ClientStep(c)
      PROVE  IInv'
    <2>1. CASE Refresh(c)
        BY <2>1, RefreshSafe
    <2>2. CASE Later(c)
        BY <2>2, LaterSafe
    <2>3. CASE Deliver(c)
        BY <2>3, DeliverSafe
    <2>4. CASE TimesOut(c)
        BY <2>4, TimesOutSafe
    <2>5. CASE \E n \in Names : PutLayout(c, n)
        BY <2>5, PutLayoutSafe
    <2>6. CASE \E e \in cl[c].shown.val : Layouts /\ (DeleteLayout(c, e) \/ ApplyLayout(c, e))
        BY <2>6, DeleteLayoutSafe, ApplyLayoutSafe
    <2>7. CASE \E p \in Pairs : SetPair(c, p)
        BY <2>7, SetPairSafe
    <2>. QED
        BY <1>1, <2>1, <2>2, <2>3, <2>4, <2>5, <2>6, <2>7 DEF ClientStep
<1>2. CASE HandleNext
    BY <1>2, HandleSafe DEF HandleNext
<1>3. CASE RuntimeStarts
    BY <1>3, RuntimeStartsSafe
<1>4. CASE RuntimeDies
    BY <1>4, RuntimeDiesSafe
<1>5. CASE DeviceSwaps
    BY <1>5, DeviceSwapsSafe
<1>6. CASE UNCHANGED vars
    BY <1>6, StutterSafe
<1>. QED
    BY <1>1, <1>2, <1>3, <1>4, <1>5, <1>6 DEF Next

\* The invariant says all that OfferIsTrue does.
LEMMA InvariantSuffices ==
    ASSUME IInv
    PROVE  OfferIsTrue
<1>1. /\ StoreTypes /\ Bounded /\ Means /\ AppliedAsSeen /\ cl \in [Clients -> ClientStates]
      /\ calls \in Seq(Requests)
    BY DEF IInv, TypesInv
<1>2. \A c \in Clients : ViewIsTrue(cl[c]) /\ cl[c] \in ClientStates
    BY <1>1 DEF IInv, ClientInv
<1>3. TypeOK
    <2>1. topic \in {"layouts", "preferences"} /\ disk.rev \in Nat
        BY <1>1 DEF StoreTypes
    <2>2. /\ owners \in 0 .. MaxTroubles + 1 /\ rt.owner \in {0, owners}
          /\ wishes \in 0 .. MaxWishes /\ troubles \in 0 .. MaxTroubles
        BY <1>1, BoundsAreNaturals DEF Bounded
    <2>3. Layouts => \A e \in rt.val : e \in Entry /\ e.id # 0 /\ e.rev # 0
        BY <1>1 DEF Means, LayoutsMean
    <2>4. ~Layouts /\ rt.owner # 0 => \E p \in Pairs : rt.val = {p}
        BY <1>1 DEF Means, PairsMean
    <2>5. ASSUME NEW c \in Clients
          PROVE  /\ cl[c].owner \in 0 .. owners /\ cl[c].dev \in Devices \cup {NoDevice}
                 /\ cl[c].shown.status = "Ready" => cl[c].shown = cl[c].last \/ ~Layouts
                 /\ cl[c].pending => ~Layouts
        BY <1>1, <1>2 DEF ViewIsTrue, ClientStates, Places, Bounded
    <2>. QED
        BY <2>1, <2>2, <2>3, <2>4, <2>5 DEF TypeOK
<1>4. ReadyIsOnDisk
    BY <1>1 DEF ReadyIsOnDisk, Means, LayoutsMean
<1>5. ASSUME NEW c \in Clients, NEW n \in named, Ready(c), n.key = Key(cl[c].owner), n.rev = cl[c].shown.rev
      PROVE  cl[c].shown.val = Visible(n.val, cl[c].dev)
    <2>1. PICK m \in named : /\ m.key = Key(cl[c].owner) /\ m.rev = cl[c].shown.rev
                             /\ cl[c].shown.val = Visible(m.val, cl[c].shown.dev)
        BY <1>2, <1>5 DEF ViewIsTrue, SaysSo, Ready
    <2>2. CASE Layouts
        <3>1. m.val = n.val
            BY <1>1, <1>5, <2>1, <2>2 DEF Means, LayoutsMean, OnDisk
        <3>2. cl[c].shown.dev = cl[c].dev
            BY <1>2, <1>5, <2>2 DEF ViewIsTrue, Ready
        <3>. QED
            BY <2>1, <3>1, <3>2
    <2>3. CASE ~Layouts
        BY <1>1, <1>5, <2>1, <2>3 DEF Means, PairsMean, Visible
    <2>. QED
        BY <2>2, <2>3
<1>6. ASSUME NEW c \in Clients, ~Layouts, Ready(c), Context(c), mail[c] = <<>>
      PROVE  cl[c].shown.rev = rt.rev /\ cl[c].shown.val = rt.val
    <2>1. DOMAIN mail[c] = {}
        BY <1>6
    <2>2. UpToDate(cl[c])
        BY <1>6, <2>1 DEF IInv, Follow, PairReaches, UpToDate, ToBeTold, NothingOld, Ready, Context
    <2>3. PICK n \in named : /\ n.key = rt.owner /\ n.rev = rt.rev /\ cl[c].shown.val = n.val
        BY <1>2, <1>6, <2>2 DEF ViewIsTrue, SaysSo, Ready, Context, UpToDate, Key, Visible
    <2>4. n.val = rt.val
        BY <1>1, <1>6, <2>3 DEF Means, PairsMean, Meaning, Key, Context
    <2>. QED
        BY <2>2, <2>3, <2>4 DEF UpToDate
<1>7. NothingIsOnItsWay
    BY DEF NothingIsOnItsWay, IInv, ClientInv, OneChange, Mutation, Ready
<1>. QED
    BY <1>1, <1>3, <1>4, <1>5, <1>6, <1>7 DEF OfferIsTrue, ShownIsNamed, ShownIsCurrent

\* Only a call that was accepted changes the disk.
LEMMA StepIsSeen ==
    ASSUME IInv, [Next]_vars, disk' # disk
    PROVE  Head(calls).saw = Visible(rt.val, rt.dev)
<1>1. PICK known \in BOOLEAN, how \in Outcomes : Handle(known, how)
    <2>1. ASSUME NEW c \in Clients, ClientStep(c)
          PROVE  disk' = disk
        BY <2>1 DEF ClientStep, Refresh, Later, Deliver, TimesOut, PutLayout, DeleteLayout, ApplyLayout,
                    SetPair, Change, storeVars
    <2>2. CASE RuntimeStarts \/ RuntimeDies \/ DeviceSwaps
        BY <2>2 DEF RuntimeStarts, RuntimeDies, DeviceSwaps, Start, Die, Swap
    <2>. QED
        BY <2>1, <2>2 DEF Next, HandleNext, vars, storeVars
<1>2. PICK call, q : call = Head(calls) /\ q = Tail(calls)
    OBVIOUS
<1>3. /\ calls # <<>> /\ call.to = rt.owner /\ call.kind \in Mutations /\ Verdict(call, known) = "ok"
    BY <1>1, <1>2 DEF Handle
<1>4. call \in Requests /\ CallIsTrue(call)
    BY <1>2, <1>3, TailCalls
<1>. QED
    BY <1>2, <1>3, <1>4, ChangeIsSeen

\* What revisions mean, what is under way and what the clients know of it fit together: the
\* invariant the other two rest on.
THEOREM SettingsInvariant == Spec => []IInv
<1>1. Init => IInv
    BY InitSafe
<1>2. IInv /\ [Next]_vars => IInv'
    BY StepSafe
<1>. QED
    BY <1>1, <1>2, PTL DEF Spec

\* What a client offers its user is what the runtime has and the disk holds, whatever was
\* restarted, swapped, given up or overtaken in between.
THEOREM OfferAlwaysTrue == Spec => []OfferIsTrue
<1>1. IInv => OfferIsTrue
    BY InvariantSuffices
<1>. QED
    BY <1>1, SettingsInvariant, PTL

\* putV2, removeV2 and setPresentationPreferences replace only what the client was shown.
THEOREM NothingLostUnseen == Spec => NothingOverwrittenUnseen
<1>1. IInv /\ [Next]_vars => [disk' # disk => Head(calls).saw = Visible(rt.val, rt.dev)]_vars
    BY StepIsSeen
<1>2. Spec => [][Next]_vars
    BY PTL DEF Spec
<1>. QED
    BY <1>1, <1>2, SettingsInvariant, PTL DEF NothingOverwrittenUnseen
=============================================================================
