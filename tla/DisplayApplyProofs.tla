------------------------- MODULE DisplayApplyProofs -------------------------
(* Proofs about DisplayApply, for any number of applications, failing          *)
(* transfers, unanswered requests, events and keepalives: whatever is late or  *)
(* lost, an exchange ends with its own answer, and a verdict says what the     *)
(* display was asked for and did.                                              *)
EXTENDS DisplayApply, WellFoundedInduction, TLAPS

-----------------------------------------------------------------------------
(* Types *)

Bodies == {"configuration", "ack", "end", "pong", "event"}
Whats == {"none", "query", "config", "layout", "restart", "ping"}

Frames == [body : Bodies, track : Nat, ok : BOOLEAN, of : Nat, value : Nat]
Pieces == [part : {"head", "body"}, frame : Frames]
Requests == [what : Whats \ {"none"}, track : Nat, id : Nat, value : Nat]

Pipes ==
  [open : BOOLEAN, fatal : BOOLEAN, latched : BOOLEAN, arm : Arms, queue : Seq(Pieces),
   errors : 0 .. InputRetries, empties : 0 .. InputRetries, erred : BOOLEAN]

Calls ==
  [at : {"idle", "drain", "write", "wait", "optional", "done"},
   kind : {"none", "execute", "setter", "periodic"}, what : Whats, track : Nat, id : Nat,
   value : Nat, preserve : BOOLEAN, skipped : Nat, dropped : BOOLEAN, misses : Nat,
   ok : BOOLEAN, outcome : Outcomes, of : Nat, read : Nat]

Tasks ==
  [step : {"none", "preflight", "config", "layout", "restart", "readback"}, try : Nat,
   value : Nat, refused : BOOLEAN]

\* A closed pipe holds nothing.
Whole(u) == u \in Pipes /\ (u.open \/ u = ShutPipe(u))

Types ==
  /\ product \in {"pase", "turris"} /\ Whole(usb)
  /\ stream \in Seq(Pieces) /\ buffer \in Seq(Pieces) /\ (usb.open \/ buffer = << >>)
  /\ call \in Calls /\ serial \in Nat /\ cancelled \in BOOLEAN
  /\ todo \in Seq(Requests) /\ device \in Nat /\ spent \in [faults : Nat, extras : Nat]
  /\ task \in Tasks /\ verdicts \in [1 .. MaxApplies -> Verdicts]
  /\ offered \in [display : BOOLEAN, overlay : BOOLEAN, keepalive : BOOLEAN]

-----------------------------------------------------------------------------
(* The inductive invariant.  b, q and s are the receive buffer, the pipe's     *)
(* queue and what the device has sent; ts the requests it has not handled, ef  *)
(* what arrived; c is the call and t the application that runs.                *)

\* Every failure that the latch counts was paid for.
Counted(u, sp) == u.errors <= sp.faults /\ (u.latched => sp.faults >= InputRetries)

Of(s) == {s[i].frame : i \in DOMAIN s}
Flight(b, q, s) == Of(b) \cup Of(q) \cup Of(s)
Waiting(ts) == {ts[i] : i \in DOMAIN ts}

\* The device answers in the order of the requests, each at most once; what is of no
\* numbered request may be anywhere.
Before(f, g) == f.of = 0 \/ g.of = 0 \/ f.of < g.of \/ f = g
Sorted(s) == \A i, j \in DOMAIN s : i < j => Before(s[i].frame, s[j].frame)
Ahead(s, t) == \A f \in Of(s), g \in Of(t) : Before(f, g)

InOrder(b, q, s) ==
  /\ Sorted(b) /\ Sorted(q) /\ Sorted(s)
  /\ Ahead(b, q) /\ Ahead(b, s) /\ Ahead(q, s)

Precedes(m, n) == m = 0 \/ n = 0 \/ m < n
Queued(ts) == \A i, j \in DOMAIN ts : i < j => Precedes(ts[i].id, ts[j].id)
Unanswered(F, ts) == \A f \in F, r \in Waiting(ts) : Precedes(f.of, r.id)

\* An answer has the track id and number of its request, n at most; a pong of a keepalive
\* in flight and an event have none and refuse nothing.
HonestFrame(f, n, ef) ==
  /\ f.of = 0 => f.ok /\ f.track = Untracked
  /\ f.track >= FirstTrack => f.of = f.track
  /\ f.of <= n
  /\ f.value # 0 => <<"config", f.value>> \in ef

HonestRequest(r, n) ==
  /\ r.id = 0 => r.what = "ping" /\ r.track = Untracked /\ product = "pase"
  /\ r.track >= FirstTrack => r.id = r.track
  /\ r.id <= n
  /\ r.what = "config" => r.value # 0

\* The last number the device may have seen.
Top(c, n) == IF c.at \in {"drain", "write"} THEN n ELSE n + 1

Flowing ==
  /\ InOrder(buffer, usb.queue, stream) /\ Queued(todo)
  /\ Unanswered(Flight(buffer, usb.queue, stream), todo)
  /\ \A f \in Flight(buffer, usb.queue, stream) : HonestFrame(f, Top(call, serial), effects)
  /\ \A r \in Waiting(todo) : HonestRequest(r, Top(call, serial))
  /\ device # 0 => <<"config", device>> \in effects
  /\ call.read # 0 => <<"config", call.read>> \in effects

\* The call of each step of an application, and that of a keepalive.
What == [none |-> "ping", preflight |-> "query", config |-> "config", layout |-> "layout",
         restart |-> "restart", readback |-> "query"]
Kind == [none |-> "periodic", preflight |-> "execute", config |-> "execute",
         layout |-> "setter", restart |-> "execute", readback |-> "execute"]
Track(step, id) == IF step = "none" THEN Untracked ELSE IF step = "restart" THEN FileTrack ELSE id

Called(c, t, n) ==
  /\ c.what = What[t.step] /\ c.kind = Kind[t.step] /\ c.id = n + 1 /\ n # 0
  /\ c.at # "done" =>
       /\ c.track = Track(t.step, c.id) /\ c.read = 0
       /\ t.step = "config" \/ t.step = "layout" => c.value = t.value
  /\ c.at = "wait" => c.kind = "execute"
  /\ c.at = "optional" => c.kind # "execute"

Steps ==
  /\ IF call.at = "idle" THEN call = NoCall /\ task.step = "none" ELSE Called(call, task, serial)
  /\ task.step # "none" => task.value \in DOMAIN verdicts /\ verdicts[task.value] = "none"

\* What may still be in flight at each step: once a look at the display succeeded,
\* nothing that was refused before it, and no answer with the track id of file transfers.
Filed(x) == x.track = FileTrack

Looked(F, ts) == /\ \A f \in F : f.ok /\ ~Filed(f)
                 /\ \A r \in Waiting(ts) : r.id = 0

\* The request is this write of the configuration.
Writes(r, c, t) == r.id = c.id /\ r.what = "config" /\ r.value = t.value

Settled(F, ts, c, t) ==
  /\ t.step = "preflight" /\ c.at = "done" /\ c.ok => Looked(F, ts)
  /\ t.step = "config" => /\ \A f \in F : f.ok \/ f.of = c.id
                          /\ \A r \in Waiting(ts) : r.id = 0 \/ Writes(r, c, t)
  /\ t.step \in {"config", "layout"} => /\ \A f \in F : ~Filed(f)
                                        /\ \A r \in Waiting(ts) : ~Filed(r)
  /\ t.step = "restart" => /\ \A f \in F : Filed(f) => f.of = c.id
                           /\ \A r \in Waiting(ts) : Filed(r) => r.id = c.id

\* What the device was asked and did for application i.
Asked(i, ts) == \E r \in Waiting(ts) : r.what = "config" /\ r.value = i
Done(i, ef) == <<"config", i>> \in ef
Untouched(i, ts, ef) == ~Asked(i, ts) /\ ~Done(i, ef)

Clean == {"notStarted", "cancelled", "rejected"}

\* The write of a configuration, from its request to its outcome.
Writing(F, ts, ef, c, i) ==
  /\ c.at \in {"drain", "write"} => Untouched(i, ts, ef)
  /\ c.at = "wait" => /\ Asked(i, ts) => ~Done(i, ef)
                      /\ (\E f \in F : ~f.ok) => ~Done(i, ef)
  /\ c.at = "done" /\ c.outcome \in {"notSent", "cancelled", "rejected"} => Untouched(i, ts, ef)

LaidOut(i, ef) == <<"layout", i>> \in ef

\* What each verdict, and each step without one yet, says of the display.
Told(ts, ef, t, vs) ==
  /\ \A i \in DOMAIN vs : vs[i] \in Clean => Untouched(i, ts, ef)
  /\ \A i \in DOMAIN vs :
       vs[i] = "none" /\ (t.value = i => t.step \in {"none", "preflight"}) => Untouched(i, ts, ef)
  /\ \A i \in DOMAIN vs : vs[i] = "succeeded" => Done(i, ef) /\ LaidOut(i, ef)

Applied(F, ts, ef, c, t) ==
  /\ t.step = "config" => Writing(F, ts, ef, c, t.value)
  /\ t.step = "layout" /\ (c.at = "optional" \/ (c.at = "done" /\ c.ok)) => LaidOut(t.value, ef)
  /\ t.step \in {"restart", "readback"} /\ ~t.refused => LaidOut(t.value, ef)

InFlight == Flight(buffer, usb.queue, stream)

ApplyInvariant ==
  /\ Types /\ Counted(usb, spent) /\ Flowing /\ Steps /\ AnswerIsOwn
  /\ Settled(InFlight, todo, call, task)
  /\ Told(todo, effects, task, verdicts) /\ Applied(InFlight, todo, effects, call, task)

-----------------------------------------------------------------------------
(* Pieces in a row *)

\* A set of numbers has a least.
LEMMA Least ==
  ASSUME NEW S \in SUBSET Nat, S # {}
  PROVE  \E n \in S : \A m \in S : n <= m
<1> DEFINE R == {p \in Nat \X Nat : p[1] < p[2]}
<1>1. R = OpToRel(<, Nat)
    BY Zenon DEF OpToRel
<1>2. IsWellFoundedOn(R, Nat)
    BY <1>1, NatLessThanWellFounded, Zenon
<1> HIDE DEF R
<1>3. PICK x \in S : \A y \in S : <<y, x>> \notin R
    BY WFMin, <1>2
<1>4. ASSUME NEW y \in S PROVE x <= y
    <2>1. x \in Nat /\ y \in Nat /\ <<y, x>> \notin R
        BY <1>3
    <2> QED BY <2>1 DEF R
<1> QED BY <1>4

\* What comes before the first header is a part of what there is.
LEMMA LeadingIs ==
  ASSUME NEW b \in Seq(Pieces)
  PROVE  Leading(b) \in 0 .. Len(b)
<1>1. CASE \E i \in DOMAIN b : b[i].part = "head"
    <2> DEFINE Heads == {i \in DOMAIN b : b[i].part = "head"}
    <2>1. Heads \in SUBSET Nat /\ Heads # {}
        BY <1>1
    <2>2. PICK n \in Heads : \A m \in Heads : n <= m
        BY <2>1, Least
    <2>3. n \in DOMAIN b /\ b[n].part = "head" /\ \A j \in 1 .. (n - 1) : b[j].part # "head"
        BY <2>2
    <2> DEFINE first == CHOOSE i \in DOMAIN b : b[i].part = "head" /\
                          \A j \in 1 .. (i - 1) : b[j].part # "head"
    <2>4. first \in DOMAIN b
        BY <2>3
    <2>5. Leading(b) = first - 1
        BY <1>1 DEF Leading
    <2> QED BY <2>4, <2>5
<1>2. CASE ~\E i \in DOMAIN b : b[i].part = "head"
    BY <1>2 DEF Leading
<1> QED BY <1>1, <1>2

\* The frames of a sequence that became longer or shorter.
LEMMA Rows ==
  ASSUME NEW s \in Seq(Pieces), NEW t \in Seq(Pieces)
  PROVE  /\ \A f \in Of(s) : f \in Frames
         /\ s \o t \in Seq(Pieces) /\ Of(s \o t) = Of(s) \cup Of(t)
         /\ Sorted(s) /\ Sorted(t) /\ Ahead(s, t) => Sorted(s \o t)
         /\ Of(<< >>) = {} /\ Sorted(<< >>)
<1>1. \A f \in Of(s) : f \in Frames
    <2>1. \A i \in DOMAIN s : s[i] \in Pieces
        OBVIOUS
    <2>2. \A p \in Pieces : p.frame \in Frames
        BY DEF Pieces
    <2> QED BY <2>1, <2>2 DEF Of
<1>2. s \o t \in Seq(Pieces)
    OBVIOUS
<1>3. \A i \in DOMAIN (s \o t) : IF i \in DOMAIN s THEN (s \o t)[i] = s[i]
                                 ELSE i - Len(s) \in DOMAIN t /\ (s \o t)[i] = t[i - Len(s)]
    OBVIOUS
<1>4. Of(s \o t) \subseteq Of(s) \cup Of(t)
    BY <1>3 DEF Of
<1>5. Of(s) \subseteq Of(s \o t)
    <2>1. \A i \in DOMAIN s : i \in DOMAIN (s \o t) /\ (s \o t)[i] = s[i]
        OBVIOUS
    <2> QED BY <2>1 DEF Of
<1>6. Of(t) \subseteq Of(s \o t)
    <2>1. \A i \in DOMAIN t : i + Len(s) \in DOMAIN (s \o t) /\ (s \o t)[i + Len(s)] = t[i]
        OBVIOUS
    <2> QED BY <2>1 DEF Of
<1>7. ASSUME Sorted(s), Sorted(t), Ahead(s, t) PROVE Sorted(s \o t)
    <2> SUFFICES ASSUME NEW i \in DOMAIN (s \o t), NEW j \in DOMAIN (s \o t), i < j
                 PROVE  Before((s \o t)[i].frame, (s \o t)[j].frame)
        BY DEF Sorted
    <2>1. CASE j \in DOMAIN s
        <3>1. i \in DOMAIN s
            BY <2>1
        <3> QED BY <1>7, <1>3, <2>1, <3>1 DEF Sorted
    <2>2. CASE i \in DOMAIN s /\ j \notin DOMAIN s
        <3>1. s[i].frame \in Of(s) /\ t[j - Len(s)].frame \in Of(t)
            BY <1>3, <2>2 DEF Of
        <3> QED BY <1>7, <1>3, <2>2, <3>1 DEF Ahead
    <2>3. CASE i \notin DOMAIN s /\ j \notin DOMAIN s
        <3>1. i - Len(s) \in DOMAIN t /\ j - Len(s) \in DOMAIN t /\ i - Len(s) < j - Len(s)
            BY <1>3, <2>3
        <3> QED BY <1>7, <1>3, <2>3, <3>1 DEF Sorted
    <2> QED BY <2>1, <2>2, <2>3
<1>8. Of(<< >>) = {} /\ Sorted(<< >>)
    BY DEF Of, Sorted
<1> QED BY <1>1, <1>2, <1>4, <1>5, <1>6, <1>7, <1>8

\* What is left of a sequence when the first k are taken.
Rest(s, k) == SubSeq(s, k + 1, Len(s))

\* They are pieces of it, in the same order.
LEMMA RestOf ==
  ASSUME NEW s \in Seq(Pieces), NEW k \in 0 .. Len(s)
  PROVE  /\ Rest(s, k) \in Seq(Pieces) /\ Len(Rest(s, k)) = Len(s) - k
         /\ \A i \in DOMAIN Rest(s, k) : i + k \in DOMAIN s /\ Rest(s, k)[i] = s[i + k]
         /\ Of(Rest(s, k)) \subseteq Of(s)
         /\ Sorted(s) => Sorted(Rest(s, k))
<1>1. /\ Rest(s, k) \in Seq(Pieces) /\ Len(Rest(s, k)) = Len(s) - k
      /\ \A i \in DOMAIN Rest(s, k) : i + k \in DOMAIN s /\ Rest(s, k)[i] = s[i + k]
    BY DEF Rest
<1>2. Of(Rest(s, k)) \subseteq Of(s)
    BY <1>1 DEF Of
<1>3. ASSUME Sorted(s) PROVE Sorted(Rest(s, k))
    <2> SUFFICES ASSUME NEW i \in DOMAIN Rest(s, k), NEW j \in DOMAIN Rest(s, k), i < j
                 PROVE  Before(Rest(s, k)[i].frame, Rest(s, k)[j].frame)
        BY DEF Sorted
    <2>1. i + k \in DOMAIN s /\ j + k \in DOMAIN s /\ i + k < j + k
        BY <1>1
    <2> QED BY <1>1, <1>3, <2>1 DEF Sorted
<1> QED BY <1>1, <1>2, <1>3

\* What is left when the first piece is taken: what is behind it.
LEMMA TailOf ==
  ASSUME NEW s \in Seq(Pieces), s # << >>
  PROVE  /\ Tail(s) \in Seq(Pieces) /\ Of(Tail(s)) \subseteq Of(s)
         /\ Sorted(s) => Sorted(Tail(s)) /\ \A f \in Of(Tail(s)) : Before(Head(s).frame, f)
         /\ Head(s) \in Pieces /\ Head(s).frame \in Of(s)
<1>1. /\ Tail(s) \in Seq(Pieces) /\ Head(s) \in Pieces
      /\ \A i \in DOMAIN Tail(s) : i + 1 \in DOMAIN s /\ Tail(s)[i] = s[i + 1]
      /\ 1 \in DOMAIN s /\ Head(s) = s[1]
    OBVIOUS
<1>2. Of(Tail(s)) \subseteq Of(s) /\ Head(s).frame \in Of(s)
    BY <1>1 DEF Of
<1>3. ASSUME Sorted(s) PROVE Sorted(Tail(s))
    <2> SUFFICES ASSUME NEW i \in DOMAIN Tail(s), NEW j \in DOMAIN Tail(s), i < j
                 PROVE  Before(Tail(s)[i].frame, Tail(s)[j].frame)
        BY DEF Sorted
    <2>1. i + 1 \in DOMAIN s /\ j + 1 \in DOMAIN s /\ i + 1 < j + 1
        BY <1>1
    <2> QED BY <1>1, <1>3, <2>1 DEF Sorted
<1>4. ASSUME Sorted(s), NEW i \in DOMAIN Tail(s) PROVE Before(Head(s).frame, Tail(s)[i].frame)
    <2>1. i + 1 \in DOMAIN s /\ 1 \in DOMAIN s /\ 1 < i + 1
        BY <1>1
    <2> QED BY <1>1, <1>4, <2>1 DEF Sorted
<1> QED BY <1>1, <1>2, <1>3, <1>4 DEF Of

\* A piece at the end, and the order of the pieces that are left.
LEMMA AppendOf ==
  ASSUME NEW s \in Seq(Pieces), NEW x \in Pieces
  PROVE  /\ Append(s, x) \in Seq(Pieces) /\ Of(Append(s, x)) = Of(s) \cup {x.frame}
         /\ Sorted(s) /\ (\A f \in Of(s) : Before(f, x.frame)) => Sorted(Append(s, x))
<1>1. /\ Append(s, x) \in Seq(Pieces) /\ DOMAIN Append(s, x) = DOMAIN s \cup {Len(s) + 1}
      /\ \A i \in DOMAIN s : Append(s, x)[i] = s[i]
      /\ Append(s, x)[Len(s) + 1] = x
    OBVIOUS
<1>2. Of(Append(s, x)) = Of(s) \cup {x.frame}
    BY <1>1 DEF Of
<1>3. ASSUME Sorted(s), \A f \in Of(s) : Before(f, x.frame) PROVE Sorted(Append(s, x))
    <2> SUFFICES ASSUME NEW i \in DOMAIN Append(s, x), NEW j \in DOMAIN Append(s, x), i < j
                 PROVE  Before(Append(s, x)[i].frame, Append(s, x)[j].frame)
        BY DEF Sorted
    <2>1. i \in DOMAIN s /\ s[i].frame \in Of(s)
        BY <1>1 DEF Of
    <2> QED BY <1>1, <1>3, <2>1 DEF Sorted
<1> QED BY <1>1, <1>2, <1>3

-----------------------------------------------------------------------------
(* What is in flight becomes less *)

\* b1, q1 and s1 hold no more than b, q and s, and in the same order.
Later(b1, q1, s1, b, q, s) ==
  /\ b1 \in Seq(Pieces) /\ q1 \in Seq(Pieces) /\ s1 \in Seq(Pieces)
  /\ Flight(b1, q1, s1) \subseteq Flight(b, q, s)
  /\ InOrder(b, q, s) => InOrder(b1, q1, s1)

\* Less than less is less.
LEMMA LaterAgain ==
  ASSUME NEW b, NEW q, NEW s, NEW b1, NEW q1, NEW s1, NEW b2, NEW q2, NEW s2,
         Later(b1, q1, s1, b, q, s), Later(b2, q2, s2, b1, q1, s1)
  PROVE  Later(b2, q2, s2, b, q, s)
BY DEF Later

\* The ways in which pieces go from the device to the buffer, or are lost.
LEMMA LaterWays ==
  ASSUME NEW b \in Seq(Pieces), NEW q \in Seq(Pieces), NEW s \in Seq(Pieces)
  PROVE  /\ Later(b, q, s, b, q, s)
         /\ Later(<< >>, << >>, s, b, q, s)
         /\ Later(b \o q, << >>, s, b, q, s)
         /\ \A k \in 0 .. Len(b) : Later(Rest(b, k), q, s, b, q, s)
         /\ s # << >> => /\ Later(<< >>, << >>, Tail(s), b, q, s)
                         /\ Later(b, q, Tail(s), b, q, s)
                         /\ Later(b, Append(q, Head(s)), Tail(s), b, q, s)
<1>1. Later(b, q, s, b, q, s)
    BY DEF Later
<1>2. Later(<< >>, << >>, s, b, q, s)
    BY Rows DEF Later, Flight, InOrder, Ahead
<1>3. Later(b \o q, << >>, s, b, q, s)
    BY Rows DEF Later, Flight, InOrder, Ahead
<1>4. ASSUME NEW k \in 0 .. Len(b) PROVE Later(Rest(b, k), q, s, b, q, s)
    BY RestOf DEF Later, Flight, InOrder, Ahead
<1>5. ASSUME s # << >>
      PROVE  /\ Later(<< >>, << >>, Tail(s), b, q, s)
             /\ Later(b, q, Tail(s), b, q, s)
    BY <1>5, Rows, TailOf DEF Later, Flight, InOrder, Ahead
<1>6. ASSUME s # << >>, InOrder(b, q, s) PROVE InOrder(b, Append(q, Head(s)), Tail(s))
    <2>1. /\ Sorted(b) /\ Sorted(q) /\ Sorted(Tail(s))
          /\ \A f \in Of(Tail(s)) : Before(Head(s).frame, f)
          /\ Head(s).frame \in Of(s) /\ Head(s) \in Pieces /\ Of(Tail(s)) \subseteq Of(s)
        BY <1>6, TailOf DEF InOrder
    <2>2. Of(Append(q, Head(s))) = Of(q) \cup {Head(s).frame}
        BY <2>1, AppendOf
    <2>3. Sorted(Append(q, Head(s)))
        BY <1>6, <2>1, AppendOf DEF InOrder, Ahead
    <2> QED BY <1>6, <2>1, <2>2, <2>3 DEF InOrder, Ahead
<1>7. ASSUME s # << >> PROVE Later(b, Append(q, Head(s)), Tail(s), b, q, s)
    BY <1>6, <1>7, TailOf, AppendOf DEF Later, Flight
<1> QED BY <1>1, <1>2, <1>3, <1>4, <1>5, <1>7

-----------------------------------------------------------------------------
(* The pipe *)

\* A completion, or more, of the cost of n failures.
Counts(u1, u, n) ==
  /\ u1.errors <= u.errors + n
  /\ u1.latched => u.latched \/ u.errors + n >= InputRetries

\* A counter of failures grows by one at most and stops at its bound.
LEMMA RaisedIs ==
  ASSUME NEW n \in 0 .. InputRetries
  PROVE  Raised(n) \in 0 .. InputRetries /\ Raised(n) <= n + 1
                /\ (Raised(n) = InputRetries => n + 1 >= InputRetries)
BY InputRetriesAssumption DEF Raised

\* What a step of the pipe makes of it.
LEMMA PipeSteps ==
  ASSUME NEW u \in Pipes
  PROVE  /\ \A p \in Pieces, failed \in BOOLEAN :
               LET v == Delivered(u, p, failed)
               IN v \in Pipes /\ v.open = u.open /\ v.latched = u.latched /\ v.errors = 0
                    /\ v.queue = Append(u.queue, p)
         /\ LET v == FailedEmpty(u)
            IN v \in Pipes /\ v.open = u.open /\ Counts(v, u, IF u.arm = "idle" THEN 0 ELSE 1)
                 /\ v.queue = u.queue
         /\ LET v == EndedEmpty(u)
            IN v \in Pipes /\ v.open = u.open /\ v.latched = u.latched /\ v.errors <= u.errors
                 /\ v.queue = u.queue
         /\ LET v == Broken(u)
            IN v \in Pipes /\ v.open = u.open /\ v.latched = u.latched /\ v.errors = u.errors
                 /\ v.queue = u.queue
<1>0. InputRetries \in Nat \ {0}
    BY InputRetriesAssumption
<1>1. ASSUME NEW p \in Pieces, NEW failed \in BOOLEAN
      PROVE  LET v == Delivered(u, p, failed)
             IN v \in Pipes /\ v.open = u.open /\ v.latched = u.latched /\ v.errors = 0
                  /\ v.queue = Append(u.queue, p)
    <2>1. u.queue \in Seq(Pieces) /\ Append(u.queue, p) \in Seq(Pieces) /\ (u.erred \/ failed) \in BOOLEAN
        BY DEF Pipes
    <2>2. 0 \in 0 .. InputRetries
        BY <1>0
    <2> HIDE <1>0
    <2> QED BY <2>1, <2>2 DEF Delivered, Pipes, Arms
<1>2. LET v == FailedEmpty(u)
      IN v \in Pipes /\ v.open = u.open /\ Counts(v, u, IF u.arm = "idle" THEN 0 ELSE 1)
           /\ v.queue = u.queue
    <2>1. Raised(u.errors) \in 0 .. InputRetries /\ Raised(u.errors) <= u.errors + 1
             /\ (Raised(u.errors) = InputRetries => u.errors + 1 >= InputRetries)
        BY RaisedIs DEF Pipes
    <2>2. Raised(u.empties) \in 0 .. InputRetries
        BY RaisedIs DEF Pipes
    <2>3. (u.latched \/ Raised(u.errors) = InputRetries) \in BOOLEAN
        OBVIOUS
    <2>4. [u EXCEPT !.arm = "parked"] \in Pipes
        BY DEF Pipes, Arms
    <2>5. [u EXCEPT !.arm = "parked", !.erred = TRUE, !.errors = Raised(u.errors),
             !.empties = Raised(u.empties),
             !.latched = u.latched \/ Raised(u.errors) = InputRetries] \in Pipes
        BY <2>1, <2>2, <2>3 DEF Pipes, Arms
    <2>6. FailedEmpty(u) \in Pipes
        BY <2>4, <2>5 DEF FailedEmpty
    <2>7. FailedEmpty(u).open = u.open /\ FailedEmpty(u).queue = u.queue
        BY DEF FailedEmpty, Pipes
    <2>8. CASE u.arm = "idle"
        <3>1. FailedEmpty(u).errors = u.errors /\ FailedEmpty(u).latched = u.latched
            BY <2>8 DEF FailedEmpty, Pipes
        <3>2. u.errors \in Nat
            BY <1>0 DEF Pipes
        <3> QED BY <2>6, <2>7, <2>8, <3>1, <3>2 DEF Counts
    <2>9. CASE u.arm # "idle"
        <3>1. /\ FailedEmpty(u).errors = Raised(u.errors)
              /\ FailedEmpty(u).latched = (u.latched \/ Raised(u.errors) = InputRetries)
            BY <2>9 DEF FailedEmpty, Pipes
        <3> QED BY <2>1, <2>6, <2>7, <2>9, <3>1 DEF Counts
    <2> QED BY <2>8, <2>9
<1>3. LET v == EndedEmpty(u)
      IN v \in Pipes /\ v.open = u.open /\ v.latched = u.latched /\ v.errors <= u.errors
           /\ v.queue = u.queue
    <2>2. Raised(u.empties) \in 0 .. InputRetries
        BY RaisedIs DEF Pipes
    <2>3. 0 \in 0 .. InputRetries /\ 0 <= u.errors /\ u.errors <= u.errors
        BY <1>0 DEF Pipes
    <2>4. [u EXCEPT !.arm = "parked"] \in Pipes
        BY DEF Pipes, Arms
    <2>5. [u EXCEPT !.arm = "parked", !.errors = 0, !.empties = Raised(u.empties)] \in Pipes
        BY <2>2, <2>3 DEF Pipes, Arms
    <2>6. EndedEmpty(u) \in Pipes
        BY <2>4, <2>5 DEF EndedEmpty
    <2> QED BY <2>3, <2>6 DEF EndedEmpty, Pipes
<1>4. LET v == Broken(u)
      IN v \in Pipes /\ v.open = u.open /\ v.latched = u.latched /\ v.errors = u.errors
           /\ v.queue = u.queue
    BY <1>0 DEF Broken, Pipes, Arms
<1> QED BY <1>1, <1>2, <1>3, <1>4

\* Every completion of the IN transfer keeps the order of what is in flight, loses no more
\* than its cost allows the counters, and leaves an open pipe open.
Completed(c, u, s) ==
  /\ c.usb \in Pipes /\ c.usb.open = u.open /\ c.stream \in Seq(Pieces) /\ c.cost \in {0, 1}
  /\ Counts(c.usb, u, c.cost)
  /\ \A b \in Seq(Pieces) : Later(b, c.usb.queue, c.stream, b, u.queue, s)

\* So do all completions of an armed transfer.
LEMMA EveryCompletion ==
  ASSUME NEW u \in Pipes, stream \in Seq(Pieces), NEW c \in Completions(u)
  PROVE  Completed(c, u, stream)
<1>0. u.errors \in Nat /\ u.queue \in Seq(Pieces) /\ u.errors <= InputRetries
         /\ InputRetries \in Nat \ {0}
    BY InputRetriesAssumption DEF Pipes
<1>1. CASE \E failed \in BOOLEAN : /\ stream # << >> /\ c.usb = Delivered(u, Head(stream), failed)
             /\ c.stream = Tail(stream) /\ c.cost = IF failed THEN 1 ELSE 0
    <2>1. PICK failed \in BOOLEAN : /\ stream # << >>
             /\ c.usb = Delivered(u, Head(stream), failed)
             /\ c.stream = Tail(stream) /\ c.cost = IF failed THEN 1 ELSE 0
        BY <1>1
    <2>2. Head(stream) \in Pieces /\ Tail(stream) \in Seq(Pieces)
        BY <2>1, TailOf
    <2>3. c.usb \in Pipes /\ c.usb.open = u.open /\ c.usb.latched = u.latched
             /\ c.usb.errors = 0 /\ c.usb.queue = Append(u.queue, Head(stream))
        <3>1. LET v == Delivered(u, Head(stream), failed)
              IN v \in Pipes /\ v.open = u.open /\ v.latched = u.latched /\ v.errors = 0
                   /\ v.queue = Append(u.queue, Head(stream))
            BY <2>2, PipeSteps
        <3> QED BY <2>1, <3>1
    <2>4. Counts(c.usb, u, c.cost)
        BY <1>0, <2>1, <2>3 DEF Counts
    <2>5. \A b \in Seq(Pieces) : Later(b, c.usb.queue, c.stream, b, u.queue, stream)
        BY <1>0, <2>1, <2>3, LaterWays
    <2> QED BY <2>1, <2>2, <2>3, <2>4, <2>5 DEF Completed
<1>2. CASE /\ stream # << >> /\ c.usb = FailedEmpty(u) /\ c.stream = Tail(stream) /\ c.cost = 1
    <2>1. c.usb \in Pipes /\ c.usb.open = u.open /\ c.usb.queue = u.queue
             /\ Counts(c.usb, u, IF u.arm = "idle" THEN 0 ELSE 1)
        BY <1>2, PipeSteps
    <2>2. Counts(c.usb, u, 1)
        BY <1>0, <2>1 DEF Counts, Pipes
    <2> QED BY <1>0, <1>2, <2>1, <2>2, LaterWays, TailOf DEF Completed
<1>3. CASE c.usb = FailedEmpty(u) /\ c.stream = stream /\ c.cost = IF u.arm = "idle" THEN 0 ELSE 1
    <2>1. c.usb \in Pipes /\ c.usb.open = u.open /\ c.usb.queue = u.queue
             /\ Counts(c.usb, u, c.cost)
        BY <1>3, PipeSteps
    <2> QED BY <1>0, <1>3, <2>1, LaterWays DEF Completed
<1>4. CASE c.usb = EndedEmpty(u) /\ c.stream = stream /\ c.cost = IF u.arm = "idle" THEN 0 ELSE 1
    <2>1. c.usb \in Pipes /\ c.usb.open = u.open /\ c.usb.queue = u.queue
             /\ c.usb.latched = u.latched /\ c.usb.errors <= u.errors
        BY <1>4, PipeSteps
    <2>2. Counts(c.usb, u, c.cost)
        BY <1>0, <1>4, <2>1 DEF Counts, Pipes
    <2> QED BY <1>0, <1>4, <2>1, <2>2, LaterWays DEF Completed
<1>5. CASE c.usb = Broken(u) /\ c.stream = stream /\ c.cost = 1
    <2>1. c.usb \in Pipes /\ c.usb.open = u.open /\ c.usb.queue = u.queue
             /\ c.usb.latched = u.latched /\ c.usb.errors = u.errors
        BY <1>5, PipeSteps
    <2>2. Counts(c.usb, u, c.cost)
        BY <1>0, <1>5, <2>1 DEF Counts, Pipes
    <2> QED BY <1>0, <1>5, <2>1, <2>2, LaterWays DEF Completed
<1> QED BY <1>1, <1>2, <1>3, <1>4, <1>5 DEF Completions

\* The connection may be closed after it.
LEMMA CompletedShut ==
  ASSUME NEW c, NEW u \in Pipes, NEW s \in Seq(Pieces), Completed(c, u, s)
  PROVE  \A b \in Seq(Pieces) : Later(<< >>, << >>, c.stream, b, u.queue, s)
<1> SUFFICES ASSUME NEW b \in Seq(Pieces) PROVE Later(<< >>, << >>, c.stream, b, u.queue, s)
    OBVIOUS
<1>1. Later(b, c.usb.queue, c.stream, b, u.queue, s)
    BY DEF Completed
<1>2. Later(<< >>, << >>, c.stream, b, c.usb.queue, c.stream)
    BY LaterWays DEF Completed, Pipes
<1> QED BY <1>1, <1>2, LaterAgain

\* Arming and marking change nothing that is counted or queued.
LEMMA Arming ==
  ASSUME NEW u \in Pipes
  PROVE  /\ Armed(u) \in Pipes /\ Armed(u).open = u.open /\ Armed(u).queue = u.queue
         /\ Armed(u).errors = u.errors /\ Armed(u).latched = u.latched
         /\ \A k \in BOOLEAN : LET v == Rearmed(u, k)
              IN v \in Pipes /\ v.open = u.open /\ v.queue = u.queue
                   /\ v.errors = u.errors /\ v.latched = u.latched
         /\ LET v == Unmarked(u)
            IN v \in Pipes /\ v.open = u.open /\ v.queue = u.queue
                 /\ v.errors = u.errors /\ v.latched = u.latched
BY DEF Armed, Rearmed, Unmarked, Pipes, Arms

\* What a read brings: more for the buffer b, in order, or a failure after which the
\* connection is closed.
Brings(a) ==
  /\ a.ok \in BOOLEAN /\ a.got \in Seq(Pieces) /\ a.usb \in Pipes /\ a.stream \in Seq(Pieces)
  /\ a.cost \in {0, 1} /\ Counts(a.usb, usb, a.cost)
  /\ a.ok => a.usb.open
  /\ a.ok => \A b \in Seq(Pieces) : Later(b \o a.got, a.usb.queue, a.stream, b, usb.queue, stream)
  /\ \A b \in Seq(Pieces) : Later(<< >>, << >>, a.stream, b, usb.queue, stream)

\* The product keeps its IN pending, or does not.
LEMMA KeepIs == Keep \in BOOLEAN
BY DEF Keep

\* Taking what the pipe has queued.
LEMMA FetchedBrings ==
  ASSUME Whole(usb), stream \in Seq(Pieces), NEW u \in Pipes, u.open, NEW s, NEW n \in {0, 1},
         Completed([usb |-> u, stream |-> s, cost |-> n], usb, stream), NEW ok \in BOOLEAN
  PROVE  Brings([Fetched(u, s, n) EXCEPT !.ok = ok])
<1> DEFINE a == [Fetched(u, s, n) EXCEPT !.ok = ok]
<1>0. u.queue \in Seq(Pieces) /\ s \in Seq(Pieces) /\ usb.queue \in Seq(Pieces)
    BY DEF Completed, Pipes, Whole
<1> DEFINE v == [u EXCEPT !.queue = << >>]
<1>1. v \in Pipes /\ v.open /\ v.queue = << >> /\ v.errors = u.errors /\ v.latched = u.latched
    <2>1. << >> \in Seq(Pieces)
        OBVIOUS
    <2> QED BY <2>1 DEF Pipes
<1>2. /\ a.ok = ok /\ a.got = u.queue /\ a.stream = s /\ a.cost = n /\ a.usb = Rearmed(v, Keep)
    BY DEF Fetched
<1> HIDE DEF v
<1>3. /\ a.usb \in Pipes /\ a.usb.open /\ a.usb.queue = << >> /\ a.usb.errors = u.errors
      /\ a.usb.latched = u.latched
    BY SMTT(40), <1>1, <1>2, Arming, KeepIs
<1>4. Counts(a.usb, usb, a.cost)
    BY <1>2, <1>3 DEF Counts, Completed
<1>5. ASSUME NEW b \in Seq(Pieces) PROVE Later(b \o u.queue, << >>, s, b, usb.queue, stream)
    <2>1. Later(b, u.queue, s, b, usb.queue, stream)
        BY DEF Completed
    <2>2. Later(b \o u.queue, << >>, s, b, u.queue, s)
        BY <1>0, LaterWays
    <2> QED BY <2>1, <2>2, LaterAgain
<1>6. \A b \in Seq(Pieces) : Later(<< >>, << >>, s, b, usb.queue, stream)
    BY CompletedShut DEF Whole
<1> HIDE DEF a
<1>7. Brings(a)
    BY <1>0, <1>2, <1>3, <1>4, <1>5, <1>6 DEF Brings
<1> QED BY <1>7 DEF a

\* A pipe of which nothing was read.
LEMMA NothingCompleted ==
  ASSUME Whole(usb), stream \in Seq(Pieces), NEW u \in Pipes, u.open = usb.open, u.queue = usb.queue,
         u.errors = usb.errors, u.latched = usb.latched
  PROVE  Completed([usb |-> u, stream |-> stream, cost |-> 0], usb, stream)
<1>1. usb.queue \in Seq(Pieces) /\ usb.errors \in Nat
    BY InputRetriesAssumption DEF Whole, Pipes
<1> QED BY <1>1, LaterWays DEF Completed, Counts

\* A read that fails.
LEMMA FailingBrings ==
  ASSUME Whole(usb), stream \in Seq(Pieces), NEW u \in Pipes, NEW s, NEW n \in {0, 1},
         Completed([usb |-> u, stream |-> s, cost |-> n], usb, stream)
  PROVE  Brings(Failing(u, s, n))
<1>1. \A b \in Seq(Pieces) : Later(<< >>, << >>, s, b, usb.queue, stream)
    BY CompletedShut DEF Whole
<1> QED BY <1>1 DEF Brings, Failing, Completed

\* takeAvailable and readSome.
LEMMA AvailableBrings ==
  ASSUME Whole(usb), stream \in Seq(Pieces), NEW a \in TakeAvailable(usb)
  PROVE  Brings(a)
<1>0. usb \in Pipes /\ Armed(usb) \in Pipes
    BY Arming DEF Whole
<1>1. Completed([usb |-> usb, stream |-> stream, cost |-> 0], usb, stream)
    BY <1>0, NothingCompleted
<1>2. Completed([usb |-> Armed(usb), stream |-> stream, cost |-> 0], usb, stream)
    BY <1>0, Arming, NothingCompleted
<1>3. CASE a = Failing(usb, stream, 0)
    BY <1>0, <1>1, <1>3, FailingBrings
<1>4. CASE usb.queue # << >> /\ a = [Fetched(usb, stream, 0) EXCEPT !.ok = TRUE]
    <2>1. usb.open
        BY <1>4 DEF Whole, ShutPipe, Closed
    <2> QED BY <1>0, <1>1, <1>4, <2>1, FetchedBrings
<1>5. CASE CanArm(usb) /\ a = Fetched(Armed(usb), stream, 0)
    <2>1. Armed(usb).open
        BY <1>0, <1>5, Arming DEF CanArm
    <2>2. (~Armed(usb).fatal) \in BOOLEAN
        BY <1>0 DEF Pipes
    <2>3. a = [Fetched(Armed(usb), stream, 0) EXCEPT !.ok = ~Armed(usb).fatal]
        BY <1>5 DEF Fetched
    <2> QED BY <1>0, <1>2, <2>1, <2>2, <2>3, FetchedBrings
<1>6. CASE CanArm(usb) /\ \E c \in Completions(Armed(usb)) :
             \/ a = Failing(c.usb, c.stream, c.cost) \/ a = Fetched(c.usb, c.stream, c.cost)
    <2>1. PICK c \in Completions(Armed(usb)) :
             \/ a = Failing(c.usb, c.stream, c.cost) \/ a = Fetched(c.usb, c.stream, c.cost)
        BY <1>6
    <2>2. Completed(c, Armed(usb), stream)
        BY <1>0, EveryCompletion
    <2>3. Completed([usb |-> c.usb, stream |-> c.stream, cost |-> c.cost], usb, stream)
        BY <1>0, <2>2, Arming DEF Completed, Counts
    <2>4. c.usb \in Pipes /\ c.cost \in {0, 1} /\ c.usb.open
        BY <1>0, <1>6, <2>2, Arming DEF Completed, CanArm
    <2>5. CASE a = Failing(c.usb, c.stream, c.cost)
        BY <2>3, <2>4, <2>5, FailingBrings
    <2>6. CASE a = Fetched(c.usb, c.stream, c.cost)
        <3>1. a = [Fetched(c.usb, c.stream, c.cost) EXCEPT !.ok = ~c.usb.fatal]
            BY <2>6 DEF Fetched
        <3>2. (~c.usb.fatal) \in BOOLEAN
            BY <2>4 DEF Pipes
        <3> QED BY <2>3, <2>4, <3>1, <3>2, FetchedBrings
    <2> QED BY <2>1, <2>5, <2>6
<1> QED BY <1>3, <1>4, <1>5, <1>6 DEF TakeAvailable

\* readSome.
LEMMA SomeBrings ==
  ASSUME Whole(usb), stream \in Seq(Pieces), NEW a \in ReadSome(usb)
  PROVE  Brings(a)
<1>0. usb \in Pipes /\ Armed(usb) \in Pipes
    BY Arming DEF Whole
<1>1. Completed([usb |-> usb, stream |-> stream, cost |-> 0], usb, stream)
    BY <1>0, NothingCompleted
<1>2. Completed([usb |-> Armed(usb), stream |-> stream, cost |-> 0], usb, stream)
    BY <1>0, Arming, NothingCompleted
<1>3. CASE a = Failing(usb, stream, 0)
    BY <1>0, <1>1, <1>3, FailingBrings
<1>4. CASE usb.queue # << >> /\ a = [Fetched(usb, stream, 0) EXCEPT !.ok = TRUE]
    <2>1. usb.open
        BY <1>4 DEF Whole, ShutPipe, Closed
    <2> QED BY <1>0, <1>1, <1>4, <2>1, FetchedBrings
<1>5. CASE CanArm(usb) /\ a = [Fetched(Armed(usb), stream, 0) EXCEPT !.ok = TRUE]
    <2>1. Armed(usb).open
        BY <1>0, <1>5, Arming DEF CanArm
    <2> QED BY <1>0, <1>2, <1>5, <2>1, FetchedBrings
<1>6. CASE CanArm(usb) /\ \E c \in Completions(Armed(usb)) :
             \/ a = Failing(c.usb, c.stream, c.cost)
             \/ ~c.usb.fatal /\ a = Fetched(c.usb, c.stream, c.cost)
             \/ c.usb.queue = << >> /\ a = [ok |-> TRUE, got |-> << >>, usb |-> c.usb,
                                           stream |-> c.stream, cost |-> c.cost]
    <2>1. PICK c \in Completions(Armed(usb)) :
             \/ a = Failing(c.usb, c.stream, c.cost)
             \/ ~c.usb.fatal /\ a = Fetched(c.usb, c.stream, c.cost)
             \/ c.usb.queue = << >> /\ a = [ok |-> TRUE, got |-> << >>, usb |-> c.usb,
                                           stream |-> c.stream, cost |-> c.cost]
        BY <1>6
    <2>2. Completed(c, Armed(usb), stream)
        BY <1>0, EveryCompletion
    <2>3. Completed([usb |-> c.usb, stream |-> c.stream, cost |-> c.cost], usb, stream)
        BY <1>0, <2>2, Arming DEF Completed, Counts
    <2>4. c.usb \in Pipes /\ c.cost \in {0, 1} /\ c.usb.open
        BY <1>0, <1>6, <2>2, Arming DEF Completed, CanArm
    <2>5. CASE a = Failing(c.usb, c.stream, c.cost)
        BY <2>3, <2>4, <2>5, FailingBrings
    <2>6. CASE ~c.usb.fatal /\ a = Fetched(c.usb, c.stream, c.cost)
        <3>1. a = [Fetched(c.usb, c.stream, c.cost) EXCEPT !.ok = ~c.usb.fatal]
            BY <2>6 DEF Fetched
        <3>2. (~c.usb.fatal) \in BOOLEAN
            BY <2>4 DEF Pipes
        <3> QED BY <2>3, <2>4, <3>1, <3>2, FetchedBrings
    <2>7. CASE c.usb.queue = << >> /\ a = [ok |-> TRUE, got |-> << >>, usb |-> c.usb,
                                           stream |-> c.stream, cost |-> c.cost]
        <3>1. \A b \in Seq(Pieces) : b \o << >> = b
            OBVIOUS
        <3>2. \A b \in Seq(Pieces) : Later(<< >>, << >>, c.stream, b, usb.queue, stream)
            BY <1>0, <2>3, CompletedShut
        <3> QED BY <2>3, <2>4, <2>7, <3>1, <3>2 DEF Brings, Completed
    <2> QED BY <2>1, <2>5, <2>6, <2>7
<1>7. a = Failing(usb, stream, 0) \/ CanArm(usb) \/ usb.queue # << >>
    BY DEF ReadSome
<1> QED BY <1>3, <1>4, <1>5, <1>6, <1>7 DEF ReadSome

-----------------------------------------------------------------------------
(* What is taken from the receive buffer *)

\* f is the answer in one of the first n pieces of b, or one made of several of them.
Like(f, g) == f.of = g.of /\ f.track = g.track /\ f.value = g.value /\ f.ok \in BOOLEAN

Carries(f, b, n) ==
  \E k \in 1 .. n : /\ Like(f, b[k].frame) /\ (f.ok => b[k].frame.ok)
                    /\ ~f.ok => \E j \in 1 .. n : ~b[j].frame.ok

Takes(t, b) ==
  /\ t.status \in {"more", "frame"} /\ t.dropped \in BOOLEAN
  /\ \E n \in 0 .. Len(b) : t.rest = Rest(b, n) /\ (t.status = "frame" => Carries(t.frame, b, n))

\* What is left of what is left.
LEMMA RestAgain ==
  ASSUME NEW b \in Seq(Pieces), NEW m \in 0 .. Len(b), NEW n \in 0 .. (Len(b) - m)
  PROVE  /\ Rest(Rest(b, m), n) = Rest(b, m + n)
         /\ \A f : Carries(f, Rest(b, m), n) => Carries(f, b, m + n)
<1>1. /\ Rest(b, m) \in Seq(Pieces) /\ Len(Rest(b, m)) = Len(b) - m
      /\ \A i \in DOMAIN Rest(b, m) : i + m \in DOMAIN b /\ Rest(b, m)[i] = b[i + m]
    BY RestOf
<1>2. m + n \in 0 .. Len(b) /\ n \in 0 .. Len(Rest(b, m))
    BY <1>1
<1>3. /\ Rest(b, m + n) \in Seq(Pieces) /\ Len(Rest(b, m + n)) = Len(b) - (m + n)
      /\ \A i \in DOMAIN Rest(b, m + n) : Rest(b, m + n)[i] = b[i + (m + n)]
    BY <1>2, RestOf
<1>4. /\ Rest(Rest(b, m), n) \in Seq(Pieces) /\ Len(Rest(Rest(b, m), n)) = Len(b) - (m + n)
      /\ \A i \in DOMAIN Rest(Rest(b, m), n) :
            i + n \in DOMAIN Rest(b, m) /\ Rest(Rest(b, m), n)[i] = Rest(b, m)[i + n]
    <2> DEFINE r == Rest(b, m)
    <2>1. r \in Seq(Pieces) /\ n \in 0 .. Len(r) /\ Len(r) = Len(b) - m
        BY <1>1, <1>2
    <2> HIDE DEF r
    <2>2. /\ Rest(r, n) \in Seq(Pieces) /\ Len(Rest(r, n)) = Len(r) - n
          /\ \A i \in DOMAIN Rest(r, n) : i + n \in DOMAIN r /\ Rest(r, n)[i] = r[i + n]
        BY <2>1, RestOf
    <2>3. Len(Rest(r, n)) = Len(b) - (m + n)
        BY <2>1, <2>2
    <2> QED BY <2>2, <2>3 DEF r
<1>5. Rest(Rest(b, m), n) = Rest(b, m + n)
    <2> DEFINE s == Rest(Rest(b, m), n) 
               t == Rest(b, m + n)
    <2>1. s \in Seq(Pieces) /\ t \in Seq(Pieces) /\ Len(s) = Len(t)
        BY <1>3, <1>4
    <2>2. ASSUME NEW i \in 1 .. Len(s) PROVE s[i] = t[i]
        <3>1. s[i] = Rest(b, m)[i + n] /\ i + n \in DOMAIN Rest(b, m)
            BY <1>4
        <3>2. Rest(b, m)[i + n] = b[(i + n) + m]
            BY <1>1, <3>1
        <3>3. t[i] = b[i + (m + n)]
            <4>1. i \in DOMAIN t
                BY <2>1
            <4> QED BY <1>3, <4>1
        <3> QED BY <3>1, <3>2, <3>3
    <2> HIDE DEF s, t
    <2>3. s = t
        BY <2>1, <2>2
    <2> QED BY <2>3 DEF s, t
<1>6. ASSUME NEW f, Carries(f, Rest(b, m), n) PROVE Carries(f, b, m + n)
    <2>1. \A i \in 1 .. n : i + m \in 1 .. (m + n) /\ Rest(b, m)[i] = b[i + m]
        BY <1>1
    <2> QED BY <1>6, <2>1 DEF Carries
<1> QED BY <1>5, <1>6

\* What is taken from what is left.
LEMMA TakesAgain ==
  ASSUME NEW b \in Seq(Pieces), NEW n \in 0 .. Len(b), NEW t, Takes(t, Rest(b, n))
  PROVE  Takes(t, b)
<1>1. Rest(b, n) \in Seq(Pieces) /\ Len(Rest(b, n)) = Len(b) - n
    BY RestOf
<1>2. PICK k \in 0 .. (Len(b) - n) : t.rest = Rest(Rest(b, n), k)
             /\ (t.status = "frame" => Carries(t.frame, Rest(b, n), k))
    BY <1>1 DEF Takes
<1>3. n + k \in 0 .. Len(b)
    BY <1>2
<1>4. Rest(Rest(b, n), k) = Rest(b, n + k)
    BY RestAgain
<1>5. Carries(t.frame, Rest(b, n), k) => Carries(t.frame, b, n + k)
    BY RestAgain
<1> QED BY <1>2, <1>3, <1>4, <1>5 DEF Takes

\* The buffer from its first header on.
LEMMA SyncedIs ==
  ASSUME NEW b \in Seq(Pieces)
  PROVE  Leading(b) \in 0 .. Len(b) /\ Synced(b) = Rest(b, Leading(b))
BY LeadingIs DEF Synced, Rest

\* TakeFrame gives a frame of the buffer and what is behind it, or nothing.
LEMMA TakeFrameIs ==
  ASSUME NEW b \in Seq(Pieces), NEW d \in BOOLEAN
  PROVE  Takes(TakeFrame(b, d), b)
<1> DEFINE m == Leading(b)
           s == Synced(b)
           e == d \/ Len(s) < Len(b)
<1>1. m \in 0 .. Len(b) /\ s = Rest(b, m)
    BY SyncedIs
<1>2. /\ s \in Seq(Pieces) /\ Len(s) = Len(b) - m
      /\ \A i \in DOMAIN s : i + m \in DOMAIN b /\ s[i] = b[i + m]
    BY <1>1, RestOf
<1>3. CASE ~HasFrame(s)
    <2>1. TakeFrame(b, d) = NeedMore(s, e)
        BY <1>3 DEF TakeFrame
    <2> QED BY <1>1, <2>1 DEF Takes, NeedMore
<1>4. CASE HasFrame(s)
    <2>1. TakeFrame(b, d) = Ready(s[1].frame, SubSeq(s, 3, Len(s)), e)
        BY <1>4 DEF TakeFrame
    <2>2. Len(s) >= 2
        BY <1>4 DEF HasFrame
    <2>3. SubSeq(s, 3, Len(s)) = Rest(b, m + 2) /\ m + 2 \in 0 .. Len(b)
        <3>1. SubSeq(s, 3, Len(s)) = Rest(s, 2)
            BY DEF Rest
        <3>2. 2 \in 0 .. (Len(b) - m)
            BY <1>2, <2>2
        <3>3. Rest(Rest(b, m), 2) = Rest(b, m + 2)
            BY <1>1, <3>2, RestAgain
        <3> QED BY <1>1, <1>2, <2>2, <3>1, <3>3
    <2>4. Carries(s[1].frame, b, m + 2)
        <3>1. m + 1 \in 1 .. (m + 2) /\ s[1] = b[m + 1] /\ b[m + 1] \in Pieces
            <4>1. m \in Nat /\ 1 \in DOMAIN s /\ 1 + m = m + 1
                BY <1>1, <1>2, <2>2
            <4>2. m + 1 \in DOMAIN b /\ s[1] = b[m + 1]
                BY <1>2, <4>1
            <4>3. m + 1 \in 1 .. (m + 2)
                BY <4>1
            <4> QED BY <4>2, <4>3
        <3>2. s[1].frame.ok \in BOOLEAN
            BY <3>1 DEF Pieces, Frames
        <3> QED BY <3>1, <3>2 DEF Carries, Like
    <2> HIDE DEF m, s
    <2> QED BY <2>1, <2>3, <2>4 DEF Takes, Ready
<1> QED BY <1>3, <1>4

\* Payloads without headers make one answer, of the last of them.
LEMMA MergedCarries ==
  ASSUME NEW b \in Seq(Pieces), NEW n \in 1 .. Len(b)
  PROVE  /\ Carries(Merged(SubSeq(b, 1, n)), b, n)
         /\ n = Len(b) => Merged(SubSeq(b, 1, n)) = Merged(b)
<1> DEFINE a == SubSeq(b, 1, n)
<1>1. a \in Seq(Pieces) /\ Len(a) = n /\ \A i \in 1 .. n : a[i] = b[i]
    OBVIOUS
<1> HIDE DEF a
<1>2. Last(a) = b[n]
    BY <1>1 DEF Last
<1>3. b[n] \in Pieces
    OBVIOUS
<1> DEFINE g == b[n].frame
<1>4. g \in Frames
    BY <1>3 DEF Pieces
<1> DEFINE all == \A i \in DOMAIN a : a[i].frame.ok
<1>5. Merged(a) = [g EXCEPT !.ok = all]
    BY <1>2 DEF Merged
<1>6. PICK o \in BOOLEAN : o <=> all
    OBVIOUS
<1>7. Merged(a) = [g EXCEPT !.ok = o]
    <2>1. o = all
        BY <1>6
    <2> QED BY <1>5, <2>1
<1> HIDE DEF g, all
<1>8. Like(Merged(a), g) /\ Merged(a).ok = o
    BY <1>4, <1>7 DEF Like, Frames
<1>9. (o => g.ok) /\ (~o => \E j \in 1 .. n : ~b[j].frame.ok)
    BY <1>1, <1>6 DEF all, g
<1>10. Carries(Merged(a), b, n)
    BY <1>8, <1>9 DEF Carries, g
<1>11. n = Len(b) => a = b
    BY <1>1
<1> QED BY <1>10, <1>11 DEF a

\* TakeBuffered, with or without a payload that lost its header.
LEMMA TakeBufferedIs ==
  ASSUME NEW b \in Seq(Pieces), NEW c \in Calls, NEW e \in BOOLEAN
  PROVE  Takes(TakeBuffered(b, c, e), b)
<1> DEFINE n == Leading(b)
           lone == SubSeq(b, 1, n)
           t == TakeBuffered(b, c, e)
<1> SUFFICES Takes(t, b)
    OBVIOUS
<1>1. n \in 0 .. Len(b) /\ Synced(b) = Rest(b, n)
    BY SyncedIs
<1>2. c.dropped \in BOOLEAN
    BY DEF Calls
<1> HIDE DEF n
<1>3. CASE t = TakeFrame(b, c.dropped)
    BY <1>2, <1>3, TakeFrameIs
<1>4. CASE n # 0 /\ n = Len(b) /\ t = Ready(Merged(b), << >>, c.dropped)
    <2>1. Rest(b, n) = << >>
        BY <1>1, <1>4 DEF Rest
    <2>2. Carries(Merged(b), b, n)
        BY <1>1, <1>4, MergedCarries
    <2> HIDE DEF t
    <2> QED BY <1>1, <1>2, <1>4, <2>1, <2>2 DEF Takes, Ready
<1>5. CASE t = NeedMore(b, c.dropped)
    <2>1. Rest(b, 0) = b
        BY DEF Rest
    <2> HIDE DEF t
    <2> QED BY <1>2, <1>5, <2>1 DEF Takes, NeedMore
<1>6. CASE n # 0 /\ t = Ready(Merged(lone), Synced(b), c.dropped)
    <2>1. Carries(Merged(lone), b, n)
        BY <1>1, <1>6, MergedCarries
    <2> HIDE DEF t, lone
    <2> QED BY <1>1, <1>2, <1>6, <2>1 DEF Takes, Ready
<1>7. CASE t = TakeFrame(Synced(b), TRUE)
    <2>1. Rest(b, n) \in Seq(Pieces) /\ Len(Rest(b, n)) = Len(b) - n
        BY <1>1, RestOf
    <2>2. Takes(t, Rest(b, n))
        BY <1>1, <1>7, <2>1, TakeFrameIs
    <2> HIDE DEF t
    <2> QED BY <1>1, <2>2, TakesAgain
<1> QED BY <1>3, <1>4, <1>5, <1>6, <1>7 DEF TakeBuffered, n

\* The answer that is taken left the device before all that is left.
LEMMA TakenFirst ==
  ASSUME NEW b \in Seq(Pieces), NEW q \in Seq(Pieces), NEW s \in Seq(Pieces), InOrder(b, q, s),
         NEW t, Takes(t, b)
  PROVE  /\ Later(t.rest, q, s, b, q, s)
         /\ t.status = "frame" =>
              \E g \in Flight(b, q, s) :
                 /\ Like(t.frame, g) /\ (t.frame.ok => g.ok)
                 /\ ~t.frame.ok => \E h \in Flight(b, q, s) : ~h.ok
                 /\ \A h \in Flight(t.rest, q, s) : Before(g, h)
<1>1. PICK n \in 0 .. Len(b) : t.rest = Rest(b, n) /\ (t.status = "frame" => Carries(t.frame, b, n))
    BY DEF Takes
<1>2. Later(t.rest, q, s, b, q, s)
    BY <1>1, LaterWays
<1>3. ASSUME t.status = "frame"
      PROVE  \E g \in Flight(b, q, s) :
                 /\ Like(t.frame, g) /\ (t.frame.ok => g.ok)
                 /\ ~t.frame.ok => \E h \in Flight(b, q, s) : ~h.ok
                 /\ \A h \in Flight(t.rest, q, s) : Before(g, h)
    <2>1. PICK k \in 1 .. n : /\ Like(t.frame, b[k].frame) /\ (t.frame.ok => b[k].frame.ok)
                              /\ ~t.frame.ok => \E j \in 1 .. n : ~b[j].frame.ok
        BY <1>1, <1>3 DEF Carries
    <2>2. \A j \in 1 .. n : j \in DOMAIN b /\ b[j].frame \in Of(b)
        BY DEF Of
    <2>3. ASSUME NEW h \in Of(t.rest) PROVE Before(b[k].frame, h)
        <3>1. PICK i \in DOMAIN Rest(b, n) : h = Rest(b, n)[i].frame
            BY <1>1 DEF Of
        <3>2. i + n \in DOMAIN b /\ Rest(b, n)[i] = b[i + n] /\ k < i + n
            BY <1>1, <3>1, RestOf
        <3> QED BY <2>2, <3>1, <3>2 DEF InOrder, Sorted
    <2>4. \A h \in Of(q) \cup Of(s) : Before(b[k].frame, h)
        BY <2>2 DEF InOrder, Ahead
    <2>5. \A h \in Flight(t.rest, q, s) : Before(b[k].frame, h)
        BY <2>3, <2>4 DEF Flight
    <2> QED BY <2>1, <2>2, <2>5 DEF Flight
<1> QED BY <1>2, <1>3

-----------------------------------------------------------------------------
(* Steps of the host *)

\* The pipe, the stream and the buffer after a step that costs n failures.
Wired(n) ==
  /\ Whole(usb') /\ stream' \in Seq(Pieces) /\ buffer' \in Seq(Pieces)
  /\ usb'.open \/ buffer' = << >>
  /\ Counts(usb', usb, n)
  /\ Later(buffer', usb'.queue, stream', buffer, usb.queue, stream)

\* The fields of a pipe, and the bound of its counters.
LEMMA PipeNumbers ==
  ASSUME NEW u \in Pipes
  PROVE  u.errors \in Nat /\ u.queue \in Seq(Pieces) /\ u.open \in BOOLEAN /\ u.fatal \in BOOLEAN
           /\ u.latched \in BOOLEAN /\ u.erred \in BOOLEAN /\ InputRetries \in Nat \ {0}
BY InputRetriesAssumption DEF Pipes

\* The connection is closed.
LEMMA ShutWires ==
  ASSUME Types, NEW u \in Pipes, NEW s \in Seq(Pieces), NEW n \in {0, 1}, Counts(u, usb, n),
         \A b \in Seq(Pieces) : Later(<< >>, << >>, s, b, usb.queue, stream), Shut(u, s)
  PROVE  Wired(n)
<1>1. usb' = ShutPipe(u) /\ buffer' = << >> /\ stream' \in {s, Tail(s)}
         /\ (stream' = s \/ s # << >>)
    BY DEF Shut
<1>2. u.latched \in BOOLEAN /\ 0 \in 0 .. InputRetries /\ << >> \in Seq(Pieces)
         /\ usb.errors \in Nat /\ InputRetries \in Nat
    BY PipeNumbers, InputRetriesAssumption DEF Types, Whole
<1>3. /\ usb' \in Pipes /\ usb'.queue = << >> /\ usb'.errors = 0 /\ usb'.latched = u.latched
      /\ usb' = ShutPipe(usb')
    BY <1>1, <1>2 DEF ShutPipe, Closed, Pipes, Arms
<1>4. Counts(usb', usb, n)
    BY <1>2, <1>3 DEF Counts
<1>5. stream' \in Seq(Pieces) /\ Later(<< >>, << >>, stream', << >>, << >>, s)
    <2>1. Later(<< >>, << >>, s, << >>, << >>, s)
        BY <1>2, LaterWays
    <2>2. s # << >> => Tail(s) \in Seq(Pieces) /\ Later(<< >>, << >>, Tail(s), << >>, << >>, s)
        BY <1>2, LaterWays, TailOf
    <2>3. CASE stream' = s
        BY <2>1, <2>3
    <2>4. CASE stream' # s
        BY <1>1, <2>2, <2>4
    <2> QED BY <2>3, <2>4
<1>6. Later(<< >>, << >>, stream', buffer, usb.queue, stream)
    <2>1. Later(<< >>, << >>, s, buffer, usb.queue, stream)
        BY DEF Types
    <2> QED BY <1>5, <2>1, LaterAgain
<1> QED BY <1>1, <1>2, <1>3, <1>4, <1>5, <1>6 DEF Wired, Whole

\* A call ends, with the connection closed or as it is.
LEMMA EndWires ==
  ASSUME Types, NEW ok, NEW o, NEW shut \in BOOLEAN, End(ok, o, usb, stream, shut)
  PROVE  Wired(0) /\ call' = Returned(call, ok, o)
<1>0. usb \in Pipes /\ usb.queue \in Seq(Pieces) /\ usb.errors \in Nat /\ stream \in Seq(Pieces)
         /\ buffer \in Seq(Pieces)
    BY PipeNumbers DEF Types, Whole
<1>1. CASE shut
    <2>1. \A b \in Seq(Pieces) : Later(<< >>, << >>, stream, b, usb.queue, stream)
        BY <1>0, LaterWays
    <2>2. Counts(usb, usb, 0)
        BY <1>0 DEF Counts
    <2>3. Shut(usb, stream) /\ call' = Returned(call, ok, o)
        BY <1>1 DEF End
    <2> QED BY <1>0, <2>1, <2>2, <2>3, ShutWires
<1>2. CASE ~shut
    <2>1. usb' = Unmarked(usb) /\ stream' = stream /\ buffer' = buffer
             /\ call' = Returned(call, ok, o)
        BY <1>2 DEF End
    <2>2. /\ usb' \in Pipes /\ usb'.open = usb.open /\ usb'.queue = usb.queue
          /\ usb'.errors = usb.errors /\ usb'.latched = usb.latched
        BY <1>0, <2>1, Arming
    <2>3. Whole(usb')
        BY <2>1, <2>2 DEF Types, Whole, ShutPipe, Closed, Unmarked
    <2>4. Counts(usb', usb, 0)
        BY <1>0, <2>2 DEF Counts
    <2> QED BY <1>0, <2>1, <2>2, <2>3, <2>4, LaterWays DEF Wired, Types
<1> QED BY <1>1, <1>2

\* A call ends because a read failed.
LEMMA EndBringWires ==
  ASSUME Types, NEW a, Brings(a), NEW ok, NEW o, End(ok, o, a.usb, a.stream, TRUE)
  PROVE  Wired(a.cost) /\ call' = Returned(call, ok, o)
<1>1. Shut(a.usb, a.stream) /\ call' = Returned(call, ok, o)
    BY DEF End
<1> QED BY <1>1, ShutWires DEF Brings

\* What a read brought is appended to what is left of the buffer.
LEMMA BringWires ==
  ASSUME Types, NEW a, Brings(a), a.ok, NEW r \in Seq(Pieces),
         Later(r, usb.queue, stream, buffer, usb.queue, stream),
         usb' \in {a.usb, Unmarked(a.usb)}, stream' = a.stream, buffer' = r \o a.got
  PROVE  Wired(a.cost)
<1>1. /\ usb' \in Pipes /\ usb'.open = a.usb.open /\ usb'.queue = a.usb.queue
      /\ usb'.errors = a.usb.errors /\ usb'.latched = a.usb.latched
    BY Arming DEF Brings
<1>2. usb'.open
    BY <1>1 DEF Brings
<1>3. Later(buffer', usb'.queue, stream', buffer, usb.queue, stream)
    <2>1. Later(r \o a.got, a.usb.queue, a.stream, r, usb.queue, stream)
        BY DEF Brings
    <2> QED BY <1>1, <2>1, LaterAgain
<1>4. Counts(usb', usb, a.cost)
    BY <1>1 DEF Brings, Counts
<1> QED BY <1>1, <1>2, <1>3, <1>4 DEF Wired, Whole, Brings, Later

\* The latch stays earned.
LEMMA CountedKept ==
  ASSUME Types, Counted(usb, spent), NEW n \in {0, 1}, Wired(n), spent'.faults = spent.faults + n
  PROVE  Counted(usb', spent')
<1>1. usb.errors \in Nat /\ usb'.errors \in Nat /\ InputRetries \in Nat /\ spent.faults \in Nat
    BY PipeNumbers DEF Types, Wired, Whole
<1> QED BY <1>1 DEF Counted, Wired, Counts

-----------------------------------------------------------------------------
(* Requests in a row *)

\* Every request that waits is one.
LEMMA WaitingType ==
  ASSUME NEW ts \in Seq(Requests)
  PROVE  Waiting(ts) \subseteq Requests
BY DEF Waiting

\* One more request.
LEMMA QueueOf ==
  ASSUME NEW ts \in Seq(Requests), NEW r \in Requests
  PROVE  /\ Append(ts, r) \in Seq(Requests) /\ Waiting(Append(ts, r)) = Waiting(ts) \cup {r}
         /\ Queued(ts) /\ (\A x \in Waiting(ts) : Precedes(x.id, r.id)) => Queued(Append(ts, r))
         /\ Waiting(ts) \subseteq Requests
<1>1. /\ Append(ts, r) \in Seq(Requests) /\ DOMAIN Append(ts, r) = DOMAIN ts \cup {Len(ts) + 1}
      /\ \A i \in DOMAIN ts : Append(ts, r)[i] = ts[i]
      /\ Append(ts, r)[Len(ts) + 1] = r
    OBVIOUS
<1>2. Waiting(Append(ts, r)) = Waiting(ts) \cup {r}
    BY <1>1 DEF Waiting
<1>3. ASSUME Queued(ts), \A x \in Waiting(ts) : Precedes(x.id, r.id) PROVE Queued(Append(ts, r))
    <2> SUFFICES ASSUME NEW i \in DOMAIN Append(ts, r), NEW j \in DOMAIN Append(ts, r), i < j
                 PROVE  Precedes(Append(ts, r)[i].id, Append(ts, r)[j].id)
        BY DEF Queued
    <2>1. i \in DOMAIN ts /\ ts[i] \in Waiting(ts)
        BY <1>1 DEF Waiting
    <2> QED BY <1>1, <1>3, <2>1 DEF Queued
<1>4. Waiting(ts) \subseteq Requests
    BY DEF Waiting
<1> QED BY <1>1, <1>2, <1>3, <1>4

\* One request less.
LEMMA QueueTail ==
  ASSUME NEW ts \in Seq(Requests), ts # << >>
  PROVE  /\ Tail(ts) \in Seq(Requests) /\ Head(ts) \in Requests
         /\ Waiting(ts) = Waiting(Tail(ts)) \cup {Head(ts)}
         /\ Queued(ts) => Queued(Tail(ts)) /\ \A x \in Waiting(Tail(ts)) : Precedes(Head(ts).id, x.id)
<1>1. /\ Tail(ts) \in Seq(Requests) /\ Head(ts) \in Requests
      /\ \A i \in DOMAIN Tail(ts) : i + 1 \in DOMAIN ts /\ Tail(ts)[i] = ts[i + 1]
      /\ \A i \in DOMAIN ts : i = 1 \/ (i - 1 \in DOMAIN Tail(ts) /\ ts[i] = Tail(ts)[i - 1])
      /\ 1 \in DOMAIN ts /\ Head(ts) = ts[1]
    OBVIOUS
<1>2. Waiting(ts) \subseteq Waiting(Tail(ts)) \cup {Head(ts)}
    BY <1>1 DEF Waiting
<1>3. Waiting(Tail(ts)) \cup {Head(ts)} \subseteq Waiting(ts)
    BY <1>1 DEF Waiting
<1>4. ASSUME Queued(ts) PROVE Queued(Tail(ts))
    <2> SUFFICES ASSUME NEW i \in DOMAIN Tail(ts), NEW j \in DOMAIN Tail(ts), i < j
                 PROVE  Precedes(Tail(ts)[i].id, Tail(ts)[j].id)
        BY DEF Queued
    <2>1. i + 1 \in DOMAIN ts /\ j + 1 \in DOMAIN ts /\ i + 1 < j + 1
        BY <1>1
    <2> QED BY <1>1, <1>4, <2>1 DEF Queued
<1>5. ASSUME Queued(ts), NEW i \in DOMAIN Tail(ts) PROVE Precedes(Head(ts).id, Tail(ts)[i].id)
    <2>1. i + 1 \in DOMAIN ts /\ 1 < i + 1
        BY <1>1
    <2> QED BY <1>1, <1>5, <2>1 DEF Queued
<1> QED BY <1>1, <1>2, <1>3, <1>4, <1>5 DEF Waiting

-----------------------------------------------------------------------------
(* A step of the host that neither sends nor learns anything *)

\* An answer stays honest while requests and effects become more.
LEMMA HonestMore ==
  ASSUME NEW f \in Frames, NEW m \in Nat, NEW n \in Nat, m <= n, NEW ef, NEW eg, ef \subseteq eg,
         HonestFrame(f, m, ef)
  PROVE  HonestFrame(f, n, eg)
BY DEF HonestFrame, Frames

\* So does a request.
LEMMA HonestRequestMore ==
  ASSUME NEW r \in Requests, NEW m \in Nat, NEW n \in Nat, m <= n, HonestRequest(r, m)
  PROVE  HonestRequest(r, n)
BY DEF HonestRequest, Requests

\* The number of the last request.
LEMMA TopIs ==
  ASSUME NEW c \in Calls, NEW n \in Nat
  PROVE  Top(c, n) \in Nat /\ Top(c, n) <= n + 1
BY DEF Top

\* What is in flight are frames.
LEMMA FlightType ==
  ASSUME NEW b \in Seq(Pieces), NEW q \in Seq(Pieces), NEW s \in Seq(Pieces)
  PROVE  Flight(b, q, s) \subseteq Frames
BY Rows DEF Flight

\* What is in flight stays in order and honest.
LEMMA FlowingKept ==
  ASSUME Types, Flowing, NEW n, Wired(n), call' \in Calls, serial' \in Nat,
         Top(call, serial) <= Top(call', serial'), UNCHANGED <<product, far>>,
         call'.read # 0 => <<"config", call'.read>> \in effects
  PROVE  Flowing'
<1> DEFINE I == Flight(buffer, usb.queue, stream)
           J == Flight(buffer', usb'.queue, stream')
           m == Top(call, serial)
           k == Top(call', serial')
<1>1. m \in Nat /\ k \in Nat /\ m <= k
    BY TopIs DEF Types
<1>2. J \subseteq I /\ I \subseteq Frames /\ Waiting(todo) \subseteq Requests
    BY FlightType, PipeNumbers, QueueOf DEF Wired, Later, Types, Whole, Waiting
<1>3. InOrder(buffer', usb'.queue, stream')
    BY DEF Flowing, Wired, Later
<1> HIDE DEF I, J, m, k
<1>4. Unanswered(I, todo) /\ (\A f \in I : HonestFrame(f, m, effects))
         /\ \A r \in Waiting(todo) : HonestRequest(r, m)
    BY DEF Flowing, I, m
<1>5. Unanswered(J, todo)
    BY <1>2, <1>4 DEF Unanswered
<1>6. \A f \in J : HonestFrame(f, k, effects)
    BY <1>1, <1>2, <1>4, HonestMore
<1>7. \A r \in Waiting(todo) : HonestRequest(r, k)
    BY <1>1, <1>2, <1>4, HonestRequestMore
<1>8. todo' = todo /\ effects' = effects /\ device' = device /\ product' = product
    BY DEF far
<1>9. /\ InOrder(buffer', usb'.queue, stream') /\ Queued(todo') /\ Unanswered(J, todo')
      /\ \A f \in J : HonestFrame(f, k, effects')
      /\ \A r \in Waiting(todo') : HonestRequest(r, k)
      /\ device' # 0 => <<"config", device'>> \in effects'
      /\ call'.read # 0 => <<"config", call'.read>> \in effects'
    BY <1>3, <1>5, <1>6, <1>7, <1>8 DEF Flowing
<1> QED BY <1>8, <1>9 DEF Flowing, J, k, HonestRequest

\* What a call ends with.
LEMMA ReturnedIs ==
  ASSUME NEW c \in Calls, NEW ok \in BOOLEAN, NEW o \in Outcomes
  PROVE  /\ Returned(c, ok, o) \in Calls /\ Returned(c, ok, o).at = "done"
         /\ Returned(c, ok, o).kind = c.kind /\ Returned(c, ok, o).what = c.what
         /\ Returned(c, ok, o).id = c.id /\ Returned(c, ok, o).of = c.of
         /\ Returned(c, ok, o).read = c.read /\ Returned(c, ok, o).ok = ok
         /\ Returned(c, ok, o).outcome = o
<1>1. /\ c.kind \in {"none", "execute", "setter", "periodic"} /\ c.what \in Whats /\ c.id \in Nat
      /\ c.of \in Nat /\ c.read \in Nat
    BY DEF Calls
<1>2. NoCall \in Calls
    <2>1. 0 \in Nat /\ FALSE \in BOOLEAN /\ Untracked = 0 /\ "none" \in Whats /\ "notSent" \in Outcomes
        BY DEF Untracked, Whats, Outcomes
    <2> QED BY <2>1 DEF NoCall, Calls
<1> DEFINE r == [NoCall EXCEPT !.at = "done", !.kind = c.kind, !.what = c.what, !.id = c.id,
                               !.of = c.of, !.read = c.read, !.ok = ok, !.outcome = o]
<1>3. /\ r \in Calls /\ r.at = "done" /\ r.kind = c.kind /\ r.what = c.what /\ r.id = c.id
      /\ r.of = c.of /\ r.read = c.read /\ r.ok = ok /\ r.outcome = o
    BY <1>1, <1>2 DEF Calls
<1>4. Returned(c, ok, o) = r
    BY Zenon DEF Returned
<1> HIDE DEF r
<1> QED BY <1>3, <1>4

\* The call goes on, or ends without an answer.
GoesOn ==
  \/ call' = call
  \/ /\ call.at \in {"drain", "write", "wait", "optional"}
     /\ call'.at = call.at \/ (call.at = "drain" /\ call'.at = "write")
     /\ call'.kind = call.kind /\ call'.what = call.what /\ call'.track = call.track
     /\ call'.id = call.id /\ call'.value = call.value /\ call'.read = call.read

Silent(o) == o \in Outcomes \ {"acked", "rejected"}

Fails(o) ==
  /\ Silent(o) /\ call' = Returned(call, FALSE, o)
  /\ call.at \notin {"idle", "done"} /\ (call.at = "wait" => o \notin {"notSent", "cancelled"})

HostStays == UNCHANGED <<product, serial, cancelled, far, task, offered, verdicts>>

\* A call that goes on is still that of the application's step.
LEMMA GoesOnSteps ==
  ASSUME Types, Steps, GoesOn, UNCHANGED <<serial, task, verdicts>>
  PROVE  Steps'
<1>1. CASE call' = call
    BY <1>1 DEF Steps, Called
<1>2. CASE call' # call
    <2>1. /\ call.at \in {"drain", "write", "wait", "optional"}
          /\ call'.at = call.at \/ (call.at = "drain" /\ call'.at = "write")
          /\ call'.kind = call.kind /\ call'.what = call.what /\ call'.track = call.track
          /\ call'.id = call.id /\ call'.value = call.value /\ call'.read = call.read
        BY <1>2 DEF GoesOn
    <2>2. Called(call, task, serial)
        BY <2>1 DEF Steps
    <2>3. Called(call', task, serial)
        BY <2>1, <2>2 DEF Called
    <2> QED BY <2>1, <2>3 DEF Steps
<1> QED BY <1>1, <1>2

\* So is one that fails.
LEMMA FailsSteps ==
  ASSUME Types, Steps, NEW o, Fails(o), UNCHANGED <<serial, task, verdicts>>
  PROVE  Steps' /\ call'.at = "done" /\ ~call'.ok /\ call'.outcome = o /\ call'.id = call.id
            /\ call'.read = 0 /\ call' \in Calls
<1>1. Called(call, task, serial)
    BY DEF Steps, Fails
<1>2. /\ call' \in Calls /\ call'.at = "done" /\ call'.kind = call.kind /\ call'.what = call.what
      /\ call'.id = call.id /\ call'.read = call.read /\ call'.ok = FALSE /\ call'.outcome = o
    <2>1. call \in Calls /\ o \in Outcomes /\ FALSE \in BOOLEAN /\ call' = Returned(call, FALSE, o)
        BY DEF Types, Fails, Silent
    <2> QED BY <2>1, ReturnedIs
<1>3. Called(call', task, serial)
    BY <1>1, <1>2 DEF Called
<1> QED BY <1>1, <1>2, <1>3 DEF Steps, Called, Fails

\* Of what is in flight less remains to be said.
LEMMA SettledLess ==
  ASSUME NEW F, NEW G, G \subseteq F, NEW ts, NEW c, NEW d, NEW t, Settled(F, ts, c, t),
         c = d \/ (d.id = c.id /\ ~(d.at = "done" /\ d.ok))
  PROVE  Settled(G, ts, d, t)
BY DEF Settled, Looked, Writes

\* With less in flight the write of a configuration is told the same.
LEMMA WritingLess ==
  ASSUME NEW F, NEW G, G \subseteq F, NEW ts, NEW ef, NEW c, NEW i, Writing(F, ts, ef, c, i)
  PROVE  Writing(G, ts, ef, c, i)
BY DEF Writing

\* A call that goes on learns nothing.
LEMMA GoesOnApplied ==
  ASSUME NEW G, G \subseteq InFlight, Types, Steps, GoesOn,
         Applied(InFlight, todo, effects, call, task)
  PROVE  Applied(G, todo, effects, call', task)
<1>1. Applied(G, todo, effects, call, task)
    BY WritingLess DEF Applied
<1>2. CASE call' = call
    BY <1>1, <1>2
<1>3. CASE call' # call
    <2>1. /\ call.at \in {"drain", "write", "wait", "optional"}
          /\ call'.at = call.at \/ (call.at = "drain" /\ call'.at = "write")
        BY <1>3 DEF GoesOn
    <2> QED BY <1>1, <2>1 DEF Applied, Writing
<1> QED BY <1>2, <1>3

\* A call that fails has not learnt that the display refused or did anything.
LEMMA FailsApplied ==
  ASSUME NEW G, G \subseteq InFlight, Types, Steps, NEW o, Fails(o),
         UNCHANGED <<serial, task, verdicts>>,
         Applied(InFlight, todo, effects, call, task)
  PROVE  Applied(G, todo, effects, call', task)
<1>1. Applied(G, todo, effects, call, task)
    BY WritingLess DEF Applied
<1>2. call'.at = "done" /\ ~call'.ok /\ call'.outcome = o
    BY FailsSteps
<1>3. ASSUME task.step = "config" PROVE Writing(G, todo, effects, call', task.value)
    <2>1. call.kind = "execute" /\ call.at \in {"drain", "write", "wait"}
        <3>1. call.at \in {"drain", "write", "wait", "optional"}
            BY DEF Fails, Types, Calls
        <3> QED BY <1>3, <3>1 DEF Steps, Called, Kind
    <2>2. Writing(G, todo, effects, call, task.value)
        BY <1>1, <1>3 DEF Applied
    <2> QED BY <1>2, <2>1, <2>2 DEF Writing, Fails, Silent
<1> QED BY <1>1, <1>2, <1>3 DEF Applied

\* Such a step keeps the invariant.
LEMMA HostKept ==
  ASSUME ApplyInvariant, NEW n \in {0, 1}, Wired(n), call' \in Calls, HostStays,
         spent' \in [faults : Nat, extras : Nat], spent'.faults = spent.faults + n,
         GoesOn \/ \E o : Fails(o)
  PROVE  ApplyInvariant'
<1>0. Types /\ Counted(usb, spent) /\ Flowing /\ Steps /\ AnswerIsOwn
    BY DEF ApplyInvariant
<1>1. Types'
    BY <1>0 DEF Types, Wired, HostStays, far
<1>2. Counted(usb', spent')
    BY <1>0, CountedKept
<1>3. InFlight' \subseteq InFlight
    BY DEF InFlight, Wired, Later
<1>4. todo' = todo /\ effects' = effects /\ task' = task /\ verdicts' = verdicts
         /\ serial' = serial /\ device' = device /\ product' = product
    BY DEF HostStays, far
<1>5. Told(todo', effects', task', verdicts')
    BY <1>4 DEF ApplyInvariant
<1>6. serial \in Nat
    BY <1>0 DEF Types
<1>7. CASE GoesOn
    <2>1. Steps'
        BY <1>0, <1>4, <1>7, GoesOnSteps
    <2>2. AnswerIsOwn'
        BY <1>0, <1>7 DEF AnswerIsOwn, GoesOn
    <2>3. Flowing'
        <3>1. Top(call, serial) <= Top(call', serial')
            BY <1>4, <1>6, <1>7 DEF GoesOn, Top
        <3>2. call'.read = call.read
            BY <1>7 DEF GoesOn
        <3>3. serial' \in Nat /\ UNCHANGED <<product, far>>
            BY <1>4, <1>6 DEF HostStays
        <3> QED BY <1>0, <3>1, <3>2, <3>3, FlowingKept DEF Flowing
    <2>4. Settled(InFlight', todo', call', task')
        <3>1. call' = call \/ (call'.id = call.id /\ ~(call'.at = "done" /\ call'.ok))
            BY <1>7 DEF GoesOn
        <3> QED BY <1>3, <1>4, <3>1, SettledLess DEF ApplyInvariant
    <2>5. Applied(InFlight', todo', effects', call', task')
        BY <1>0, <1>3, <1>4, <1>7, GoesOnApplied DEF ApplyInvariant
    <2> QED BY <1>1, <1>2, <1>5, <2>1, <2>2, <2>3, <2>4, <2>5 DEF ApplyInvariant
<1>8. ASSUME NEW o, Fails(o) PROVE ApplyInvariant'
    <2>1. Steps' /\ call'.at = "done" /\ ~call'.ok /\ call'.outcome = o /\ call'.id = call.id
             /\ call'.read = 0
        BY <1>0, <1>4, <1>8, FailsSteps
    <2>2. AnswerIsOwn'
        BY <1>8, <2>1 DEF AnswerIsOwn, Fails, Silent
    <2>3. Flowing'
        <3>1. Top(call, serial) <= Top(call', serial')
            BY <1>4, <1>6, <2>1 DEF Top
        <3>3. serial' \in Nat /\ UNCHANGED <<product, far>>
            BY <1>4, <1>6 DEF HostStays
        <3> QED BY <1>0, <2>1, <3>1, <3>3, FlowingKept
    <2>4. Settled(InFlight', todo', call', task')
        BY <1>3, <1>4, <2>1, SettledLess DEF ApplyInvariant
    <2>5. Applied(InFlight', todo', effects', call', task')
        BY <1>0, <1>3, <1>4, <1>8, FailsApplied DEF ApplyInvariant
    <2> QED BY <1>1, <1>2, <1>5, <2>1, <2>2, <2>3, <2>4, <2>5 DEF ApplyInvariant
<1> QED BY <1>7, <1>8

-----------------------------------------------------------------------------
(* Before the request *)

\* What a failing transfer costs.
LEMMA SpentIs ==
  ASSUME Types, NEW n \in {0, 1}, Spend("faults", n)
  PROVE  spent' \in [faults : Nat, extras : Nat] /\ spent'.faults = spent.faults + n
BY DEF Types, Spend

\* The invariant's parts that most steps need.
LEMMA Parts ==
  ASSUME ApplyInvariant
  PROVE  /\ Types /\ call \in Calls /\ Whole(usb) /\ usb \in Pipes /\ usb.queue \in Seq(Pieces)
         /\ stream \in Seq(Pieces) /\ buffer \in Seq(Pieces)
         /\ InOrder(buffer, usb.queue, stream) /\ Steps
         /\ spent \in [faults : Nat, extras : Nat] /\ spent.faults = spent.faults + 0
BY PipeNumbers DEF ApplyInvariant, Types, Whole, Flowing

\* DrainFrame drops a stale frame.
LEMMA DrainFrameKeeps ==
  ASSUME ApplyInvariant, DrainFrame, UNCHANGED <<task, offered, verdicts>>
  PROVE  ApplyInvariant'
<1> DEFINE t == TakeFrame(buffer, FALSE)
<1>1. buffer' = t.rest /\ call' = call /\ usb' = usb /\ stream' = stream /\ spent' = spent
         /\ HostStays /\ t.status = "frame"
    BY DEF DrainFrame, HostStays
<1>2. Takes(t, buffer)
    BY Parts, TakeFrameIs
<1> HIDE DEF t
<1>3. Later(buffer', usb'.queue, stream', buffer, usb.queue, stream)
    BY <1>1, <1>2, Parts, TakenFirst
<1>4. Wired(0)
    <2>1. usb.open
        <3>1. PICK n \in 0 .. Len(buffer) : Carries(t.frame, buffer, n)
            BY <1>1, <1>2 DEF Takes
        <3>2. buffer # << >>
            BY <3>1 DEF Carries
        <3> QED BY <3>2, Parts DEF Types
    <2>2. Counts(usb, usb, 0)
        BY Parts, PipeNumbers DEF Counts
    <2> QED BY <1>1, <1>3, <2>1, <2>2, Parts DEF Wired, Later
<1> QED BY <1>1, <1>4, Parts, HostKept DEF GoesOn

\* What is left when payloads without their header are dropped.
LEMMA SyncedLater ==
  ASSUME NEW b \in Seq(Pieces), NEW q \in Seq(Pieces), NEW s \in Seq(Pieces)
  PROVE  Synced(b) \in Seq(Pieces) /\ Later(Synced(b), q, s, b, q, s)
<1>1. Leading(b) \in 0 .. Len(b) /\ Synced(b) = Rest(b, Leading(b))
    BY SyncedIs
<1>2. Rest(b, Leading(b)) \in Seq(Pieces)
    BY <1>1, RestOf
<1> QED BY <1>1, <1>2, LaterWays

\* DrainMore reads on, or fails before anything was sent.
LEMMA DrainMoreKeeps ==
  ASSUME ApplyInvariant, DrainMore, UNCHANGED <<task, offered, verdicts>>
  PROVE  ApplyInvariant'
<1>0. call.at = "drain" /\ HostStays
    BY DEF DrainMore, HostStays
<1>1. CASE cancelled
    <2>1. End(FALSE, "notSent", usb, stream, TRUE) /\ spent' = spent
        BY <1>1 DEF DrainMore
    <2>2. Wired(0) /\ call' = Returned(call, FALSE, "notSent")
        BY <2>1, Parts, EndWires
    <2>3. Fails("notSent") /\ call' \in Calls
        BY <1>0, <2>2, Parts, ReturnedIs DEF Fails, Silent, Outcomes
    <2> QED BY <1>0, <2>1, <2>2, <2>3, Parts, HostKept
<1>2. CASE ~cancelled
    <2>1. PICK a \in TakeAvailable(usb) : /\ Spend("faults", a.cost)
            /\ IF ~a.ok THEN End(FALSE, "notSent", a.usb, a.stream, TRUE)
               ELSE /\ usb' = Unmarked(a.usb)
                    /\ stream' = a.stream
                    /\ buffer' = Synced(buffer) \o a.got
                    /\ call' = [call EXCEPT !.at = IF a.got = << >> THEN "write" ELSE @]
        BY <1>2 DEF DrainMore
    <2>2. Brings(a) /\ a.cost \in {0, 1}
        BY Parts, AvailableBrings DEF Brings
    <2>3. spent' \in [faults : Nat, extras : Nat] /\ spent'.faults = spent.faults + a.cost
        BY <2>1, <2>2, Parts, SpentIs
    <2>4. CASE ~a.ok
        <3>1. Wired(a.cost) /\ call' = Returned(call, FALSE, "notSent")
            BY <2>1, <2>2, <2>4, Parts, EndBringWires
        <3>2. Fails("notSent") /\ call' \in Calls
            BY <1>0, <3>1, Parts, ReturnedIs DEF Fails, Silent, Outcomes
        <3> QED BY <1>0, <2>2, <2>3, <3>1, <3>2, HostKept
    <2>5. CASE a.ok
        <3>1. /\ Synced(buffer) \in Seq(Pieces)
              /\ Later(Synced(buffer), usb.queue, stream, buffer, usb.queue, stream)
            BY Parts, SyncedLater
        <3>2. Wired(a.cost)
            BY <2>1, <2>2, <2>5, <3>1, Parts, BringWires
        <3>3. GoesOn /\ call' \in Calls
            BY <1>0, <2>1, <2>5, Parts DEF GoesOn, Calls
        <3> QED BY <1>0, <2>2, <2>3, <3>2, <3>3, HostKept
    <2> QED BY <2>2, <2>4, <2>5 DEF Brings
<1> QED BY <1>1, <1>2

\* The buffer is forgotten.
LEMMA ForgetWires ==
  ASSUME Types, usb' = usb, stream' = stream, buffer' = << >>
  PROVE  Wired(0)
<1>1. usb.queue \in Seq(Pieces) /\ Counts(usb, usb, 0) /\ << >> \in Seq(Pieces)
    BY PipeNumbers DEF Types, Whole, Counts
<1>2. Rest(buffer, Len(buffer)) = << >> /\ Len(buffer) \in 0 .. Len(buffer)
    BY DEF Rest, Types
<1>3. Later(<< >>, usb.queue, stream, buffer, usb.queue, stream)
    BY <1>1, <1>2, LaterWays DEF Types
<1> QED BY <1>1, <1>3 DEF Wired, Types

\* DrainDeadline.
LEMMA DrainDeadlineKeeps ==
  ASSUME ApplyInvariant, DrainDeadline, UNCHANGED <<task, offered, verdicts>>
  PROVE  ApplyInvariant'
<1>1. call.at = "drain" /\ HostStays /\ spent' = spent /\ call' = [call EXCEPT !.at = "write"]
    BY DEF DrainDeadline, HostStays
<1>2. Wired(0)
    BY Parts, ForgetWires DEF DrainDeadline
<1>3. GoesOn /\ call' \in Calls
    BY <1>1, Parts DEF GoesOn, Calls
<1> QED BY <1>1, <1>2, <1>3, Parts, HostKept

-----------------------------------------------------------------------------
(* While an answer is awaited *)

\* A call ends with whatever outcome: what is left to show of it.
LEMMA EndsKept ==
  ASSUME ApplyInvariant, NEW n \in {0, 1}, Wired(n), HostStays,
         spent' \in [faults : Nat, extras : Nat], spent'.faults = spent.faults + n,
         call' \in Calls, call.at \in {"drain", "write", "wait", "optional"}, call'.at = "done",
         call'.kind = call.kind, call'.what = call.what, call'.id = call.id,
         call'.read # 0 => <<"config", call'.read>> \in effects, AnswerIsOwn',
         task.step = "preflight" /\ call'.ok => Looked(InFlight', todo),
         Applied(InFlight', todo, effects, call', task)
  PROVE  ApplyInvariant'
<1>0. Types /\ Counted(usb, spent) /\ Flowing /\ Steps
    BY DEF ApplyInvariant
<1>1. Types'
    BY <1>0 DEF Types, Wired, HostStays, far
<1>2. Counted(usb', spent')
    BY <1>0, CountedKept
<1>3. InFlight' \subseteq InFlight
    BY DEF InFlight, Wired, Later
<1>4. todo' = todo /\ effects' = effects /\ task' = task /\ verdicts' = verdicts
         /\ serial' = serial /\ device' = device /\ product' = product
    BY DEF HostStays, far
<1>5. Told(todo', effects', task', verdicts')
    BY <1>4 DEF ApplyInvariant
<1>6. Steps'
    <2>1. Called(call, task, serial)
        BY <1>0 DEF Steps
    <2>2. Called(call', task, serial)
        BY <2>1 DEF Called
    <2> QED BY <1>0, <1>4, <2>2 DEF Steps
<1>7. Flowing'
    <2>1. serial \in Nat
        BY <1>0 DEF Types
    <2>2. Top(call, serial) <= Top(call', serial')
        BY <1>4, <2>1 DEF Top
    <2>3. serial' \in Nat /\ UNCHANGED <<product, far>>
        BY <1>4, <2>1 DEF HostStays
    <2> QED BY <1>0, <2>2, <2>3, FlowingKept
<1>8. Settled(InFlight', todo', call', task')
    <2>1. Settled(InFlight, todo, call, task)
        BY DEF ApplyInvariant
    <2> QED BY <1>3, <1>4, <2>1 DEF Settled, Writes
<1> QED BY <1>1, <1>2, <1>4, <1>5, <1>6, <1>7, <1>8 DEF ApplyInvariant

\* The answer with the track id that is awaited is that of this very request, and nothing
\* the device was asked before is still in flight.
LEMMA AnswerOf ==
  ASSUME ApplyInvariant, call.at = "wait", NEW g \in InFlight, g.track = call.track
  PROVE  /\ g.of = call.id /\ g.of # 0 /\ g \in Frames
         /\ \A r \in Waiting(todo) : r.id = 0
         /\ \A h \in InFlight : Before(g, h) => h = g \/ h.of = 0
         /\ g.value # 0 => <<"config", g.value>> \in effects
<1>1. Called(call, task, serial) /\ serial \in Nat /\ serial # 0 /\ call.id = serial + 1
    BY DEF ApplyInvariant, Steps, Called, Types
<1>2. Top(call, serial) = serial + 1
    BY DEF Top
<1>3. HonestFrame(g, serial + 1, effects)
    BY <1>2 DEF ApplyInvariant, Flowing, InFlight
<1>4. InFlight \subseteq Frames
    BY Parts, FlightType DEF InFlight
<1>5. g.of = call.id
    <2>1. task.step \in {"preflight", "config", "restart", "readback"}
             /\ call.track = Track(task.step, call.id)
        <3>1. task.step \in {"none", "preflight", "config", "layout", "restart", "readback"}
            BY DEF ApplyInvariant, Types, Tasks
        <3> QED BY <1>1, <3>1 DEF Called, Kind
    <2>2. CASE task.step = "restart"
        <3>1. call.track = FileTrack
            BY <2>1, <2>2 DEF Track
        <3>2. Filed(g) => g.of = call.id
            BY <2>2 DEF ApplyInvariant, Settled
        <3> QED BY <3>1, <3>2 DEF Filed
    <2>3. CASE task.step # "restart"
        <3>1. call.track = call.id
            BY <2>1, <2>3 DEF Track
        <3>2. g.track >= FirstTrack => g.of = g.track
            BY <1>3 DEF HonestFrame
        <3> QED BY <1>1, <3>1, <3>2 DEF FirstTrack
    <2> QED BY <2>2, <2>3
<1>6. ASSUME NEW r \in Waiting(todo) PROVE r.id = 0
    <2>1. HonestRequest(r, serial + 1) /\ Precedes(g.of, r.id)
        BY <1>2 DEF ApplyInvariant, Flowing, Unanswered, InFlight
    <2>2. r.id \in Nat
        <3>1. r \in Requests
            BY WaitingType DEF ApplyInvariant, Types
        <3> QED BY <3>1 DEF Requests
    <2> QED BY <1>1, <1>5, <2>1, <2>2 DEF HonestRequest, Precedes
<1>7. ASSUME NEW h \in InFlight, Before(g, h) PROVE h = g \/ h.of = 0
    <2>1. HonestFrame(h, serial + 1, effects) /\ h.of \in Nat
        BY <1>2, <1>4 DEF ApplyInvariant, Flowing, InFlight, Frames
    <2> QED BY <1>1, <1>5, <1>7, <2>1 DEF HonestFrame, Before
<1> QED BY <1>1, <1>3, <1>4, <1>5, <1>6, <1>7 DEF HonestFrame

\* The call ends with the answer f, read from the buffer.
LEMMA AnsweredKept ==
  ASSUME ApplyInvariant, Wired(0), HostStays, spent' = spent, call.at = "wait",
         NEW f, NEW g \in InFlight, Like(f, g), f.ok => g.ok,
         ~f.ok => \E h \in InFlight : ~h.ok, \A h \in InFlight' : Before(g, h),
         f.track = call.track, NEW ok \in BOOLEAN, ok = f.ok,
         call' = Returned([call EXCEPT !.of = f.of, !.read = f.value], ok,
                          IF ok THEN "acked" ELSE "rejected")
  PROVE  ApplyInvariant'
<1>0. g.track = call.track /\ f.of = g.of /\ f.value = g.value
    BY DEF Like
<1>1. /\ g.of = call.id /\ g.of # 0 /\ g \in Frames
      /\ \A r \in Waiting(todo) : r.id = 0
      /\ \A h \in InFlight : Before(g, h) => h = g \/ h.of = 0
      /\ g.value # 0 => <<"config", g.value>> \in effects
    BY <1>0, AnswerOf
<1> DEFINE c == [call EXCEPT !.of = f.of, !.read = f.value]
           o == IF ok THEN "acked" ELSE "rejected"
<1>2. c \in Calls /\ c.kind = call.kind /\ c.what = call.what /\ c.id = call.id /\ c.of = g.of
         /\ c.read = g.value
    <2>1. g.of \in Nat /\ g.value \in Nat
        BY <1>1 DEF Frames
    <2> QED BY <1>0, <2>1, Parts DEF Calls
<1>3. o \in Outcomes
    BY DEF Outcomes
<1>4. call' = Returned(c, ok, o)
    OBVIOUS
<1> HIDE DEF c, o
<1>5. /\ call' \in Calls /\ call'.at = "done" /\ call'.kind = call.kind /\ call'.what = call.what
      /\ call'.id = call.id /\ call'.of = call.id /\ call'.read = g.value /\ call'.ok = ok
      /\ call'.outcome = o
    BY <1>1, <1>2, <1>3, <1>4, ReturnedIs
<1>6. AnswerIsOwn'
    BY <1>5 DEF AnswerIsOwn
<1>7. InFlight' \subseteq InFlight
    BY DEF InFlight, Wired, Later
<1>8. ASSUME task.step = "preflight", call'.ok PROVE Looked(InFlight', todo)
    <2>1. ASSUME NEW h \in InFlight' PROVE h.ok /\ ~Filed(h)
        <3>1. h = g \/ h.of = 0
            BY <1>1, <1>7
        <3>2. CASE h = g
            <4>1. call.track = call.id /\ call.id = serial + 1 /\ serial # 0 /\ serial \in Nat
                BY <1>8 DEF ApplyInvariant, Steps, Called, Track, Types
            <4>2. h.ok
                BY <1>5, <1>8, <3>2
            <4>3. h.track # 1
                BY <1>0, <3>2, <4>1
            <4> QED BY <4>2, <4>3 DEF Filed, FileTrack
        <3>3. CASE h.of = 0
            <4>1. HonestFrame(h, Top(call, serial), effects)
                BY <1>7 DEF ApplyInvariant, Flowing, InFlight
            <4> QED BY <3>3, <4>1 DEF HonestFrame, Filed, FileTrack, Untracked
        <3> QED BY <3>1, <3>2, <3>3
    <2> QED BY <1>1, <2>1 DEF Looked
<1>9. Applied(InFlight', todo, effects, call', task)
    <2>0. Applied(InFlight, todo, effects, call, task) /\ Steps
        BY DEF ApplyInvariant
    <2>1. ASSUME task.step = "config" PROVE Writing(InFlight', todo, effects, call', task.value)
        <3>1. Writing(InFlight, todo, effects, call, task.value)
            BY <2>0, <2>1 DEF Applied
        <3>2. ~Asked(task.value, todo)
            <4> SUFFICES ASSUME NEW r \in Waiting(todo), r.what = "config" PROVE FALSE
                BY DEF Asked
            <4>1. HonestRequest(r, Top(call, serial)) /\ r.id = 0
                BY <1>1 DEF ApplyInvariant, Flowing
            <4> QED BY <4>1 DEF HonestRequest
        <3>3. call'.outcome = "rejected" => ~ok
            BY <1>5 DEF o
        <3>4. ~ok => ~Done(task.value, effects)
            BY <3>1 DEF Writing
        <3>5. call'.outcome \notin {"notSent", "cancelled"}
            BY <1>5 DEF o
        <3> QED BY <1>5, <3>2, <3>3, <3>4, <3>5 DEF Writing, Untouched
    <2>2. task.step # "layout"
        BY <2>0 DEF Steps, Called, Kind
    <2> QED BY <2>0, <2>1, <2>2 DEF Applied
<1> QED BY <1>1, <1>5, <1>6, <1>8, <1>9, Parts, EndsKept

\* A setter or a keepalive was written whole: whatever comes of it then.
LEMMA OptionalEnds ==
  ASSUME ApplyInvariant, NEW n \in {0, 1}, Wired(n), HostStays,
         spent' \in [faults : Nat, extras : Nat], spent'.faults = spent.faults + n,
         call.at = "optional", call' \in Calls, call'.at = "done", call'.kind = call.kind,
         call'.what = call.what, call'.id = call.id, call'.read = call.read
  PROVE  ApplyInvariant'
<1>0. Steps /\ Flowing /\ task \in Tasks /\ Applied(InFlight, todo, effects, call, task)
    BY DEF ApplyInvariant, Types
<1>1. call.kind # "execute" /\ task.step \in {"none", "layout"}
    <2>1. Called(call, task, serial)
        BY <1>0 DEF Steps
    <2> QED BY <1>0, <2>1 DEF Called, Kind, Tasks
<1>2. AnswerIsOwn'
    BY <1>1 DEF AnswerIsOwn
<1>3. Applied(InFlight', todo, effects, call', task)
    BY <1>0, <1>1 DEF Applied
<1>4. call'.read # 0 => <<"config", call'.read>> \in effects
    BY <1>0 DEF Flowing
<1> QED BY <1>1, <1>2, <1>3, <1>4, EndsKept

\* Nothing of the connection changes but the buffer, from which t was taken.
LEMMA TakenWires ==
  ASSUME ApplyInvariant, NEW t, Takes(t, buffer), t.status = "frame", buffer' = t.rest,
         usb' \in {usb, Unmarked(usb)}, stream' = stream
  PROVE  Wired(0)
<1>1. /\ usb' \in Pipes /\ usb'.open = usb.open /\ usb'.queue = usb.queue
      /\ usb'.errors = usb.errors /\ usb'.latched = usb.latched
    BY Parts, Arming
<1>2. Later(buffer', usb'.queue, stream', buffer, usb.queue, stream)
    BY <1>1, Parts, TakenFirst
<1>3. usb.open
    <2>1. PICK n \in 0 .. Len(buffer) : Carries(t.frame, buffer, n)
        BY DEF Takes
    <2>2. buffer # << >>
        BY <2>1 DEF Carries
    <2> QED BY <2>2, Parts DEF Types
<1>4. Counts(usb', usb, 0)
    BY <1>1, Parts, PipeNumbers DEF Counts
<1> QED BY <1>1, <1>2, <1>3, <1>4, Parts DEF Wired, Whole, Later

\* The call fails and the connection is closed.
LEMMA EndFails ==
  ASSUME ApplyInvariant, HostStays, spent' = spent, NEW o, Silent(o),
         call.at \notin {"idle", "done"}, call.at = "wait" => o \notin {"notSent", "cancelled"},
         NEW shut \in BOOLEAN, End(FALSE, o, usb, stream, shut)
  PROVE  ApplyInvariant'
<1>1. Wired(0) /\ call' = Returned(call, FALSE, o)
    BY Parts, EndWires
<1>2. o \in Outcomes /\ FALSE \in BOOLEAN
    BY DEF Silent
<1>3. Fails(o) /\ call' \in Calls
    BY <1>1, <1>2, Parts, ReturnedIs DEF Fails
<1> QED BY <1>1, <1>3, Parts, HostKept

\* The connection failed while it was read.
LEMMA BringFails ==
  ASSUME ApplyInvariant, HostStays, NEW a, Brings(a), ~a.ok, Spend("faults", a.cost), NEW o, Silent(o),
         call.at \notin {"idle", "done"}, call.at = "wait" => o \notin {"notSent", "cancelled"},
         End(FALSE, o, a.usb, a.stream, TRUE)
  PROVE  ApplyInvariant'
<1>1. Wired(a.cost) /\ call' = Returned(call, FALSE, o)
    BY Parts, EndBringWires
<1>2. o \in Outcomes /\ FALSE \in BOOLEAN /\ a.cost \in {0, 1}
    BY DEF Silent, Brings
<1>3. Fails(o) /\ call' \in Calls
    BY <1>1, <1>2, Parts, ReturnedIs DEF Fails
<1>4. spent' \in [faults : Nat, extras : Nat] /\ spent'.faults = spent.faults + a.cost
    BY <1>2, Parts, SpentIs
<1> QED BY <1>1, <1>2, <1>3, <1>4, HostKept

\* Receive: the frame is skipped, refused, does not fit, or is the answer.
LEMMA ReceiveKeeps ==
  ASSUME ApplyInvariant, HostStays, spent' = spent, call.at = "wait", NEW t, Takes(t, buffer),
         t.status = "frame", Receive(t.frame, t.rest, t.dropped)
  PROVE  ApplyInvariant'
<1> DEFINE f == t.frame
<1>1. CASE Skips(call, f) /\ call.skipped < MaxSkipped
    <2>1. /\ call' = [call EXCEPT !.skipped = @ + 1, !.dropped = FALSE, !.misses = 0]
          /\ buffer' = t.rest /\ usb' = usb /\ stream' = stream
        BY <1>1 DEF Receive
    <2>2. Wired(0)
        BY <2>1, TakenWires
    <2>3. GoesOn /\ call' \in Calls
        <3>1. call.skipped + 1 \in Nat /\ 0 \in Nat /\ FALSE \in BOOLEAN
            BY Parts DEF Calls
        <3>2. call' \in Calls
            BY <2>1, <3>1, Parts DEF Calls
        <3>3. GoesOn
            BY <2>1, Parts DEF GoesOn, Calls
        <3> QED BY <3>2, <3>3
    <2> QED BY <2>2, <2>3, Parts, HostKept
<1>2. CASE End(FALSE, "invalid", usb, stream, TRUE)
    <2>1. Silent("invalid")
        BY DEF Silent, Outcomes
    <2> QED BY <1>2, <2>1, EndFails
<1>3. CASE \E ok \in BOOLEAN :
             /\ ~Skips(call, f) /\ ok = f.ok
             /\ call' = Returned([call EXCEPT !.of = f.of, !.read = f.value], ok,
                                 IF ok THEN "acked" ELSE "rejected")
             /\ buffer' = t.rest /\ usb' = Unmarked(usb) /\ stream' = stream
    <2>1. PICK ok \in BOOLEAN :
             /\ ~Skips(call, f) /\ ok = f.ok
             /\ call' = Returned([call EXCEPT !.of = f.of, !.read = f.value], ok,
                                 IF ok THEN "acked" ELSE "rejected")
             /\ buffer' = t.rest /\ usb' = Unmarked(usb) /\ stream' = stream
        BY <1>3
    <2>2. Wired(0)
        BY <2>1, TakenWires
    <2>3. PICK g \in InFlight :
             /\ Like(f, g) /\ (f.ok => g.ok) /\ (~f.ok => \E h \in InFlight : ~h.ok)
             /\ \A h \in Flight(t.rest, usb.queue, stream) : Before(g, h)
        <3>1. PICK g \in Flight(buffer, usb.queue, stream) :
                /\ Like(f, g) /\ (f.ok => g.ok)
                /\ ~f.ok => \E h \in Flight(buffer, usb.queue, stream) : ~h.ok
                /\ \A h \in Flight(t.rest, usb.queue, stream) : Before(g, h)
            BY Parts, TakenFirst
        <3> QED BY <3>1 DEF InFlight
    <2>4. InFlight' = Flight(t.rest, usb.queue, stream)
        BY <2>1, Parts, Arming DEF InFlight
    <2>5. f.track = call.track
        BY <2>1 DEF Skips
    <2> QED BY <2>1, <2>2, <2>3, <2>4, <2>5, AnsweredKept
<1>4. f.ok \in BOOLEAN
    <2>1. PICK n \in 0 .. Len(buffer) : Carries(f, buffer, n)
        BY DEF Takes
    <2> QED BY <2>1 DEF Carries, Like
<1> QED BY <1>1, <1>2, <1>3, <1>4 DEF Receive

\* WaitAnswer.
LEMMA WaitAnswerKeeps ==
  ASSUME ApplyInvariant, WaitAnswer, UNCHANGED <<task, offered, verdicts>>
  PROVE  ApplyInvariant'
<1> DEFINE t == TakeBuffered(buffer, call, usb.erred)
<1>0. call.at = "wait" /\ HostStays
    BY DEF WaitAnswer, HostStays
<1>1. Takes(t, buffer)
    BY Parts, PipeNumbers, TakeBufferedIs
<1>2. CASE cancelled
    <2>1. End(FALSE, "unknown", usb, stream, TRUE) /\ spent' = spent
        BY <1>2 DEF WaitAnswer
    <2>2. Silent("unknown")
        BY DEF Silent, Outcomes
    <2> QED BY <1>0, <2>1, <2>2, EndFails
<1>3. CASE ~cancelled /\ t.status = "frame"
    <2>1. Receive(t.frame, t.rest, t.dropped) /\ spent' = spent
        BY <1>3 DEF WaitAnswer
    <2> HIDE DEF t
    <2> QED BY <1>0, <1>1, <1>3, <2>1, ReceiveKeeps
<1>4. CASE ~cancelled /\ t.status # "frame"
    <2>1. PICK a \in ReadSome(usb) :
            /\ Spend("faults", a.cost)
            /\ IF ~a.ok THEN End(FALSE, "transport", a.usb, a.stream, TRUE)
               ELSE /\ usb' = a.usb /\ stream' = a.stream
                    /\ buffer' = t.rest \o a.got
                    /\ call' = [call EXCEPT !.dropped = t.dropped]
        BY <1>4 DEF WaitAnswer
    <2> HIDE DEF t
    <2>2. Brings(a) /\ a.cost \in {0, 1} /\ a.ok \in BOOLEAN
        BY Parts, SomeBrings DEF Brings
    <2>3. CASE ~a.ok
        <3>1. Silent("transport")
            BY DEF Silent, Outcomes
        <3> QED BY <1>0, <2>1, <2>2, <2>3, <3>1, BringFails
    <2>4. CASE a.ok
        <3>1. t.rest \in Seq(Pieces) /\ Later(t.rest, usb.queue, stream, buffer, usb.queue, stream)
            BY <1>1, Parts, TakenFirst DEF Later
        <3>2. Wired(a.cost)
            BY <2>1, <2>2, <2>4, <3>1, Parts, BringWires
        <3>3. GoesOn /\ call' \in Calls
            <4>1. call' = [call EXCEPT !.dropped = t.dropped]
                BY <2>1, <2>4
            <4>2. t.dropped \in BOOLEAN /\ call \in Calls /\ call.at \in {"drain", "write", "wait", "optional"}
                BY <1>0, <1>1, Parts DEF Takes
            <4> QED BY <4>1, <4>2 DEF GoesOn, Calls
        <3>4. spent' \in [faults : Nat, extras : Nat] /\ spent'.faults = spent.faults + a.cost
            BY <2>1, <2>2, Parts, SpentIs
        <3> QED BY <1>0, <2>2, <3>2, <3>3, <3>4, HostKept
    <2> QED BY <2>2, <2>3, <2>4
<1> QED BY <1>2, <1>3, <1>4

\* Deadline: the call ends without an answer.
LEMMA DeadlineKeeps ==
  ASSUME ApplyInvariant, Deadline, UNCHANGED <<task, offered, verdicts>>
  PROVE  ApplyInvariant'
<1>1. call.at = "wait" /\ HostStays /\ spent' = spent
    BY DEF Deadline, HostStays
<1>2. Silent("ackTimeout") /\ Silent("invalid")
    BY DEF Silent, Outcomes
<1>3. \E o \in {"ackTimeout", "invalid"}, shut \in BOOLEAN : End(FALSE, o, usb, stream, shut)
    <2>1. (~call.preserve) \in BOOLEAN /\ TRUE \in BOOLEAN
        OBVIOUS
    <2> QED BY <2>1, Zenon DEF Deadline
<1> QED BY <1>1, <1>2, <1>3, EndFails

-----------------------------------------------------------------------------
(* An answer that need not come *)

\* OptionalFrame.
LEMMA OptionalFrameKeeps ==
  ASSUME ApplyInvariant, OptionalFrame, UNCHANGED <<task, offered, verdicts>>
  PROVE  ApplyInvariant'
<1> DEFINE t == TakeFrame(buffer, FALSE)
           f == t.frame
           o == IF ~f.ok THEN "rejected"
                ELSE IF call.kind = "setter" /\ f.track = call.track THEN "acked" ELSE call.outcome
<1>0. call.at = "optional" /\ HostStays /\ spent' = spent /\ usb' = usb /\ stream' = stream
    BY DEF OptionalFrame, HostStays
<1>1. t.status = "frame" /\ buffer' = t.rest /\ call' = [Returned(call, f.ok, o) EXCEPT !.of = f.of]
    BY DEF OptionalFrame
<1>2. Takes(t, buffer)
    BY Parts, TakeFrameIs
<1>3. o \in Outcomes
    BY Parts DEF Outcomes, Calls
<1> HIDE DEF t, o
<1>4. f.ok \in BOOLEAN /\ f.of \in Nat
    <2>1. PICK n \in 0 .. Len(buffer) : Carries(f, buffer, n)
        BY <1>1, <1>2 DEF Takes
    <2>2. PICK k \in 1 .. n : Like(f, buffer[k].frame)
        BY <2>1 DEF Carries
    <2>3. buffer[k] \in Pieces
        BY Parts
    <2> QED BY <2>2, <2>3 DEF Like, Pieces, Frames
<1>5. Wired(0)
    BY <1>0, <1>1, <1>2, TakenWires
<1> DEFINE r == Returned(call, f.ok, o)
<1>6. /\ r \in Calls /\ r.at = "done" /\ r.kind = call.kind /\ r.what = call.what
      /\ r.id = call.id /\ r.read = call.read
    BY <1>3, <1>4, Parts, ReturnedIs
<1>7. call' = [r EXCEPT !.of = f.of]
    BY <1>1
<1> HIDE DEF r, f
<1>8. /\ call' \in Calls /\ call'.at = "done" /\ call'.kind = call.kind /\ call'.what = call.what
      /\ call'.id = call.id /\ call'.read = call.read
    BY <1>4, <1>6, <1>7 DEF Calls
<1> QED BY <1>0, <1>5, <1>8, Parts, OptionalEnds

\* OptionalMore.
LEMMA OptionalMoreKeeps ==
  ASSUME ApplyInvariant, OptionalMore, UNCHANGED <<task, offered, verdicts>>
  PROVE  ApplyInvariant'
<1>0. call.at = "optional" /\ HostStays
    BY DEF OptionalMore, HostStays
<1>1. call.outcome \in Outcomes
    BY Parts DEF Calls
<1> DEFINE Ended(c) == /\ c \in Calls /\ c.at = "done" /\ c.kind = call.kind
                       /\ c.what = call.what /\ c.id = call.id /\ c.read = call.read
<1>2. \A ok \in BOOLEAN, o \in Outcomes : Ended(Returned(call, ok, o))
    BY Parts, ReturnedIs
<1>3. {"unknown", "cancelled"} \subseteq Outcomes
    BY DEF Outcomes
<1>4. CASE cancelled
    <2>1. spent' = spent /\ \E ok \in BOOLEAN, o \in {"unknown", "cancelled"}, shut \in BOOLEAN :
                               End(ok, o, usb, stream, shut)
        BY <1>4 DEF OptionalMore
    <2>2. PICK ok \in BOOLEAN, o \in {"unknown", "cancelled"}, shut \in BOOLEAN :
                               End(ok, o, usb, stream, shut)
        BY <2>1
    <2>3. Wired(0) /\ call' = Returned(call, ok, o)
        BY <2>2, Parts, EndWires
    <2>4. Ended(call')
        BY <1>2, <1>3, <2>3
    <2> QED BY <1>0, <2>1, <2>3, <2>4, Parts, OptionalEnds
<1>5. CASE /\ call' = Returned(call, TRUE, call.outcome)
           /\ buffer' = << >> /\ usb' = usb /\ stream' = stream /\ spent' = spent
    <2>1. Wired(0)
        BY <1>5, Parts, ForgetWires
    <2>2. Ended(call')
        BY <1>1, <1>2, <1>5
    <2> QED BY <1>0, <1>5, <2>1, <2>2, Parts, OptionalEnds
<1>6. ASSUME NEW a \in TakeAvailable(usb), Spend("faults", a.cost),
             IF ~a.ok THEN End(FALSE, call.outcome, a.usb, a.stream, TRUE)
             ELSE /\ usb' = Unmarked(a.usb) /\ stream' = a.stream
                  /\ buffer' = Synced(buffer) \o a.got /\ UNCHANGED call
      PROVE  ApplyInvariant'
    <2>1. Brings(a) /\ a.cost \in {0, 1} /\ a.ok \in BOOLEAN
        BY Parts, AvailableBrings DEF Brings
    <2>2. spent' \in [faults : Nat, extras : Nat] /\ spent'.faults = spent.faults + a.cost
        BY <1>6, <2>1, Parts, SpentIs
    <2>3. CASE ~a.ok
        <3>1. Wired(a.cost) /\ call' = Returned(call, FALSE, call.outcome)
            BY <1>6, <2>1, <2>3, Parts, EndBringWires
        <3>2. Ended(call')
            BY <1>1, <1>2, <3>1
        <3> QED BY <1>0, <2>1, <2>2, <3>1, <3>2, OptionalEnds
    <2>4. CASE a.ok
        <3>1. /\ Synced(buffer) \in Seq(Pieces)
              /\ Later(Synced(buffer), usb.queue, stream, buffer, usb.queue, stream)
            BY Parts, SyncedLater
        <3>2. Wired(a.cost)
            BY <1>6, <2>1, <2>4, <3>1, Parts, BringWires
        <3>3. GoesOn /\ call' \in Calls
            BY <1>6, <2>4, Parts DEF GoesOn
        <3> QED BY <1>0, <2>1, <2>2, <3>2, <3>3, HostKept
    <2> QED BY <2>1, <2>3, <2>4
<1> QED BY <1>4, <1>5, <1>6 DEF OptionalMore

-----------------------------------------------------------------------------
(* A request reaches the display *)

\* One more request is behind all others and after every answer in flight.
LEMMA FlowingGrows ==
  ASSUME Types, Flowing, NEW n, Wired(n), call' \in Calls, serial' \in Nat,
         Top(call, serial) <= Top(call', serial'), product' = product, device' = device,
         effects \subseteq effects', NEW r \in Requests, todo' = Append(todo, r),
         \A x \in Waiting(todo) : Precedes(x.id, r.id), \A f \in InFlight : Precedes(f.of, r.id),
         HonestRequest(r, Top(call', serial')),
         call'.read # 0 => <<"config", call'.read>> \in effects'
  PROVE  Flowing'
<1> DEFINE I == Flight(buffer, usb.queue, stream)
           J == Flight(buffer', usb'.queue, stream')
           m == Top(call, serial)
           k == Top(call', serial')
<1>1. m \in Nat /\ k \in Nat /\ m <= k
    BY TopIs DEF Types
<1>2. J \subseteq I /\ I \subseteq Frames /\ Waiting(todo) \subseteq Requests
    BY FlightType, PipeNumbers, WaitingType DEF Wired, Later, Types, Whole
<1>3. InOrder(buffer', usb'.queue, stream')
    BY DEF Flowing, Wired, Later
<1>4. Waiting(todo') = Waiting(todo) \cup {r} /\ Queued(todo')
    BY QueueOf DEF Flowing, Types
<1>5. \A f \in I : Precedes(f.of, r.id)
    BY DEF InFlight
<1>6. HonestRequest(r, k)
    OBVIOUS
<1> HIDE DEF I, J, m, k
<1>7. Unanswered(I, todo) /\ (\A f \in I : HonestFrame(f, m, effects))
         /\ \A x \in Waiting(todo) : HonestRequest(x, m)
    BY DEF Flowing, I, m
<1>8. Unanswered(J, todo')
    BY <1>2, <1>4, <1>5, <1>7 DEF Unanswered
<1>9. \A f \in J : HonestFrame(f, k, effects')
    BY <1>1, <1>2, <1>7, HonestMore
<1>10. \A x \in Waiting(todo') : HonestRequest(x, k)
    <2>1. \A x \in Waiting(todo) : HonestRequest(x, k)
        BY <1>1, <1>2, <1>7, HonestRequestMore
    <2> QED BY <1>4, <1>6, <2>1
<1>11. device' # 0 => <<"config", device'>> \in effects'
    BY DEF Flowing
<1> QED BY <1>3, <1>4, <1>8, <1>9, <1>10, <1>11 DEF Flowing, J, k, HonestRequest

\* The request that is written, and its keepalives.
LEMMA RequestIs ==
  ASSUME ApplyInvariant, call.at = "write"
  PROVE  /\ Request(call) \in Requests /\ Request(call).id = serial + 1 /\ serial \in Nat \ {0}
         /\ Called(call, task, serial) /\ call.read = 0
         /\ Request(call).what = What[task.step] /\ Request(call).value = call.value
         /\ Request(call).track = Track(task.step, serial + 1)
         /\ task.step \in {"config", "layout"} => call.value = task.value /\ task.value \in Nat \ {0}
         /\ HonestRequest(Request(call), serial + 1)
<1>1. /\ Called(call, task, serial) /\ serial \in Nat \ {0} /\ task \in Tasks /\ call \in Calls
    BY DEF ApplyInvariant, Steps, Types, Called
<1>2. Request(call) = [what |-> call.what, track |-> call.track, id |-> call.id, value |-> call.value]
    BY DEF Request
<1>3. /\ call.what = What[task.step] /\ call.id = serial + 1 /\ call.read = 0
      /\ call.track = Track(task.step, serial + 1)
      /\ task.step \in {"config", "layout"} => call.value = task.value
    BY <1>1 DEF Called
<1>4. task.step \in {"none", "preflight", "config", "layout", "restart", "readback"}
    BY <1>1 DEF Tasks
<1>5. What[task.step] \in Whats \ {"none"}
    BY <1>4 DEF What, Whats
<1>6. task.step # "none" => task.value \in Nat \ {0}
    BY BoundsAssumption DEF ApplyInvariant, Steps, Types
<1>7. call.track \in Nat /\ call.value \in Nat
    BY <1>1 DEF Calls
<1>8. Request(call) \in Requests
    BY <1>1, <1>2, <1>3, <1>5, <1>7 DEF Requests
<1>9. HonestRequest(Request(call), serial + 1)
    <2>1. call.track >= FirstTrack => call.track = serial + 1
        BY <1>1, <1>3 DEF Track, Untracked, FileTrack, FirstTrack
    <2>2. call.what = "config" => call.value # 0
        BY <1>3, <1>4, <1>6 DEF What
    <2> QED BY <1>1, <1>2, <1>3, <2>1, <2>2 DEF HonestRequest
<1> QED BY <1>1, <1>2, <1>3, <1>6, <1>8, <1>9

\* The request has arrived; its call awaits an answer, or ends not knowing that it has.
LEMMA ArrivesKept ==
  ASSUME ApplyInvariant, call.at = "write", NEW n \in {0, 1}, Wired(n),
         spent' \in [faults : Nat, extras : Nat], spent'.faults = spent.faults + n,
         UNCHANGED <<product, serial, cancelled, device, task, offered, verdicts>>,
         todo' = Append(todo, Request(call)),
         effects' = IF Request(call).what = "layout"
                    THEN effects \cup {<<"layout", Request(call).value>>} ELSE effects,
         call' \in Calls, call'.kind = call.kind, call'.what = call.what, call'.id = call.id,
         call'.read = call.read,
         \/ /\ call'.at = IF call.kind = "execute" THEN "wait" ELSE "optional"
            /\ call'.track = call.track /\ call'.value = call.value
         \/ call'.at = "done" /\ ~call'.ok /\ call'.outcome \in {"partial", "unknown"}
  PROVE  ApplyInvariant'
<1> DEFINE r == Request(call)
<1>0. /\ r \in Requests /\ r.id = serial + 1 /\ serial \in Nat \ {0} /\ Called(call, task, serial)
      /\ r.what = What[task.step] /\ r.value = call.value /\ r.track = Track(task.step, serial + 1)
      /\ task.step \in {"config", "layout"} => call.value = task.value /\ task.value \in Nat \ {0}
      /\ HonestRequest(r, serial + 1) /\ call.read = 0
    BY RequestIs
<1>1. todo' = Append(todo, r)
         /\ effects' = IF r.what = "layout" THEN effects \cup {<<"layout", r.value>>} ELSE effects
    OBVIOUS
<1> HIDE DEF r
<1>2. /\ Types /\ Counted(usb, spent) /\ Flowing /\ Steps /\ todo \in Seq(Requests)
      /\ Settled(InFlight, todo, call, task) /\ Told(todo, effects, task, verdicts)
      /\ Applied(InFlight, todo, effects, call, task) /\ call.id = serial + 1
    BY <1>0 DEF ApplyInvariant, Types, Called
<1>3. Waiting(todo') = Waiting(todo) \cup {r} /\ todo' \in Seq(Requests)
    BY <1>0, <1>1, <1>2, QueueOf
<1>4. Types'
    BY <1>2, <1>3 DEF Types, Wired
<1>5. Counted(usb', spent')
    BY <1>2, CountedKept
<1>6. InFlight' \subseteq InFlight
    BY DEF InFlight, Wired, Later
<1>7. task' = task /\ verdicts' = verdicts /\ serial' = serial /\ device' = device /\ product' = product
    OBVIOUS
<1>8. Top(call, serial) = serial /\ Top(call', serial') = serial + 1
    BY <1>7 DEF Top
<1>9. Flowing'
    <2>1. \A x \in Waiting(todo) : Precedes(x.id, r.id)
        <3> SUFFICES ASSUME NEW x \in Waiting(todo) PROVE Precedes(x.id, r.id)
            OBVIOUS
        <3>1. HonestRequest(x, serial) /\ x \in Requests
            BY <1>2, <1>8, WaitingType DEF Flowing
        <3>2. x.id \in Nat /\ x.id <= serial
            BY <3>1 DEF HonestRequest, Requests
        <3> QED BY <1>0, <3>2 DEF Precedes
    <2>2. \A f \in InFlight : Precedes(f.of, r.id)
        <3> SUFFICES ASSUME NEW f \in InFlight PROVE Precedes(f.of, r.id)
            OBVIOUS
        <3>1. HonestFrame(f, serial, effects) /\ f \in Frames
            BY <1>2, <1>8, FlightType, Parts DEF Flowing, InFlight
        <3>2. f.of \in Nat /\ f.of <= serial
            BY <3>1 DEF HonestFrame, Frames
        <3> QED BY <1>0, <3>2 DEF Precedes
    <2>3. effects \subseteq effects' /\ serial' \in Nat /\ Top(call, serial) <= Top(call', serial')
        BY <1>0, <1>1, <1>7, <1>8
    <2>4. HonestRequest(r, Top(call', serial')) /\ call'.read = 0
        BY <1>0, <1>8
    <2> QED BY <1>0, <1>1, <1>2, <1>7, <2>1, <2>2, <2>3, <2>4, FlowingGrows
<1>10. Called(call', task, serial) /\ call'.at # "idle"
    BY <1>0 DEF Called
<1>11. Steps'
    BY <1>2, <1>7, <1>10 DEF Steps
<1>12. AnswerIsOwn'
    BY DEF AnswerIsOwn
<1>13. r.what = "config" <=> task.step = "config"
    BY <1>2 , <1>0 DEF What, Types, Tasks
<1>14. r.what = "layout" <=> task.step = "layout"
    BY <1>2, <1>0 DEF What, Types, Tasks
<1>15. Settled(InFlight', todo', call', task')
    <2>1. task.step = "config" => Writes(r, call', task)
        BY <1>0, <1>2, <1>13 DEF Writes
    <2>2. task.step \in {"config", "layout"} => ~Filed(r)
        BY <1>0 DEF Filed, Track, FileTrack
    <2>3. task.step = "preflight" => ~(call'.at = "done" /\ call'.ok)
        BY Zenon
    <2>4. call'.id = call.id /\ r.id = call.id
        BY <1>0, <1>2
    <2> QED BY <1>2, <1>3, <1>6, <1>7, <2>1, <2>2, <2>3, <2>4 DEF Settled, Writes
<1>16. \A i : Done(i, effects') <=> Done(i, effects)
    BY <1>1 DEF Done
<1>17. \A i : Asked(i, todo') <=> Asked(i, todo) \/ (task.step = "config" /\ i = task.value)
    BY <1>0, <1>3, <1>13 DEF Asked
<1>18. \A i : LaidOut(i, effects) => LaidOut(i, effects')
    BY <1>1 DEF LaidOut
<1>19. Told(todo', effects', task', verdicts')
    <2>1. task.step = "config" => verdicts[task.value] = "none"
        BY <1>2 DEF Steps
    <2> QED BY <1>2, <1>7, <1>16, <1>17, <1>18, <2>1 DEF Told, Untouched, Clean
<1>20. Applied(InFlight', todo', effects', call', task')
    <2>1. ASSUME task.step = "config" PROVE Writing(InFlight', todo', effects', call', task.value)
        <3>1. ~Done(task.value, effects)
            BY <1>2, <2>1 DEF Applied, Writing, Untouched
        <3>2. call'.at \notin {"drain", "write"}
            OBVIOUS
        <3> QED BY <1>16, <3>1, <3>2 DEF Writing
    <2>2. task.step = "layout" => LaidOut(task.value, effects')
        BY <1>0, <1>1, <1>14 DEF LaidOut
    <2> QED BY <1>2, <1>7, <1>18, <2>1, <2>2 DEF Applied
<1> QED BY <1>4, <1>5, <1>7, <1>9, <1>11, <1>12, <1>15, <1>19, <1>20 DEF ApplyInvariant

\* What a write leaves of the pipe.
LEMMA AfterWriteIs ==
  ASSUME NEW u \in Pipes, NEW how
  PROVE  LET v == AfterWrite(u, how)
             w == [v EXCEPT !.erred = FALSE]
         IN /\ v \in Pipes /\ v.open = u.open /\ v.queue = u.queue /\ v.errors = u.errors
            /\ v.latched = u.latched
            /\ w \in Pipes /\ w.open = u.open /\ w.queue = u.queue /\ w.errors = u.errors
            /\ w.latched = u.latched
<1> DEFINE a == Armed(u)
<1>1. /\ a \in Pipes /\ a.open = u.open /\ a.queue = u.queue /\ a.errors = u.errors
      /\ a.latched = u.latched
    BY Arming
<1>2. PICK b \in BOOLEAN : b <=> how = "unknown"
    OBVIOUS
<1>3. b = (how = "unknown")
    BY <1>2
<1>4. AfterWrite(u, how) = [a EXCEPT !.fatal = b]
    BY <1>3 DEF AfterWrite
<1> HIDE DEF a
<1> QED BY <1>1, <1>4 DEF Pipes

\* A write that ended somehow, and what is left of the connection.
LEMMA WriteWires ==
  ASSUME Types, usb.open, NEW how
  PROVE  /\ /\ usb' \in {AfterWrite(usb, how), [AfterWrite(usb, how) EXCEPT !.erred = FALSE]}
            /\ stream' = stream /\ buffer' = buffer
            => Wired(0)
         /\ \A o : End(FALSE, o, AfterWrite(usb, how), stream, TRUE) =>
                     Wired(1) /\ call' = Returned(call, FALSE, o)
<1> DEFINE u == AfterWrite(usb, how)
           w == [u EXCEPT !.erred = FALSE]
<1>0. /\ usb \in Pipes /\ usb.errors \in Nat /\ usb.queue \in Seq(Pieces) /\ stream \in Seq(Pieces)
      /\ buffer \in Seq(Pieces)
    BY PipeNumbers DEF Types, Whole
<1>1. /\ u \in Pipes /\ u.open = usb.open /\ u.queue = usb.queue /\ u.errors = usb.errors
      /\ u.latched = usb.latched
      /\ w \in Pipes /\ w.open = usb.open /\ w.queue = usb.queue /\ w.errors = usb.errors
      /\ w.latched = usb.latched
    BY <1>0, AfterWriteIs
<1> HIDE DEF u, w
<1>2. ASSUME usb' \in {u, w}, stream' = stream, buffer' = buffer PROVE Wired(0)
    <2>1. /\ usb' \in Pipes /\ usb'.open /\ usb'.queue = usb.queue /\ usb'.errors = usb.errors
          /\ usb'.latched = usb.latched
        BY <1>1, <1>2
    <2>2. Counts(usb', usb, 0)
        BY <1>0, <2>1 DEF Counts
    <2>3. Later(buffer', usb'.queue, stream', buffer, usb.queue, stream)
        BY <1>0, <1>2, <2>1, LaterWays
    <2> QED BY <1>0, <1>2, <2>1, <2>2, <2>3 DEF Wired, Whole
<1>3. ASSUME NEW o, End(FALSE, o, u, stream, TRUE) PROVE Wired(1) /\ call' = Returned(call, FALSE, o)
    <2>1. Counts(u, usb, 1)
        BY <1>0, <1>1 DEF Counts
    <2>2. \A b \in Seq(Pieces) : Later(<< >>, << >>, stream, b, usb.queue, stream)
        BY <1>0, LaterWays
    <2>3. Shut(u, stream) /\ call' = Returned(call, FALSE, o)
        BY <1>3 DEF End
    <2> QED BY <1>0, <1>1, <2>1, <2>2, <2>3, ShutWires
<1> QED BY <1>2, <1>3 DEF u, w

\* WriteRequest: the request arrives, does not, or may have.
LEMMA WriteRequestKeeps ==
  ASSUME ApplyInvariant, WriteRequest, UNCHANGED <<task, offered, verdicts>>
  PROVE  ApplyInvariant'
<1>0. call.at = "write" /\ UNCHANGED <<product, serial, cancelled, task, offered, verdicts>>
    BY DEF WriteRequest
<1>1. {"unknown", "partial", "cancelled", "notSent"} \subseteq Outcomes
    BY DEF Outcomes
<1>2. CASE ~MaySubmit(usb, cancelled)
    <2>1. End(FALSE, UnsentOutcome("none"), usb, stream, TRUE) /\ UNCHANGED <<far, spent>>
        BY <1>2 DEF WriteRequest
    <2>2. Silent(UnsentOutcome("none"))
        BY <1>1 DEF Silent, UnsentOutcome
    <2> QED BY <1>0, <2>1, <2>2, EndFails DEF HostStays
<1>3. CASE MaySubmit(usb, cancelled)
    <2>1. PICK how \in WriteEnds :
            /\ Spend("faults", IF how = "whole" THEN 0 ELSE 1)
            /\ Arrives(Request(call), how)
            /\ IF how = "whole"
               THEN /\ call' = [call EXCEPT !.at = IF call.kind = "execute" THEN "wait"
                                                   ELSE "optional",
                                            !.outcome = "unknown"]
                    /\ usb' = [AfterWrite(usb, how) EXCEPT !.erred = FALSE]
                    /\ UNCHANGED <<stream, buffer>>
               ELSE End(FALSE, UnsentOutcome(how), AfterWrite(usb, how), stream, TRUE)
        BY <1>3 DEF WriteRequest
    <2>2. PICK whole \in MayHaveArrived(how) :
            /\ todo' = IF whole THEN Append(todo, Request(call)) ELSE todo
            /\ effects' = IF whole /\ Request(call).what = "layout"
                          THEN effects \cup {<<"layout", Request(call).value>>} ELSE effects
            /\ UNCHANGED device
        BY <2>1 DEF Arrives
    <2>3. Types /\ usb.open /\ call \in Calls
        BY <1>3, Parts DEF MaySubmit
    <2>4. CASE how = "whole"
        <3>1. whole = TRUE
            BY <2>2, <2>4 DEF MayHaveArrived
        <3>2. Wired(0)
            BY <2>1, <2>3, <2>4, WriteWires
        <3>3. /\ call' \in Calls /\ call'.kind = call.kind /\ call'.what = call.what
              /\ call'.id = call.id /\ call'.read = call.read /\ call'.track = call.track
              /\ call'.value = call.value
              /\ call'.at = IF call.kind = "execute" THEN "wait" ELSE "optional"
            <4>1. call' = [call EXCEPT !.at = IF call.kind = "execute" THEN "wait" ELSE "optional",
                                       !.outcome = "unknown"]
                BY <2>1, <2>4
            <4>2. "unknown" \in Outcomes
                BY <1>1
            <4> QED BY <2>3, <4>1, <4>2 DEF Calls
        <3>4. spent' \in [faults : Nat, extras : Nat] /\ spent'.faults = spent.faults + 0
            BY <2>1, <2>4, Parts, SpentIs
        <3> QED BY <1>0, <2>2, <3>1, <3>2, <3>3, <3>4, ArrivesKept
    <2>5. CASE how # "whole"
        <3> DEFINE o == UnsentOutcome(how)
        <3>1. Wired(1) /\ call' = Returned(call, FALSE, o)
            BY <2>1, <2>3, <2>5, WriteWires
        <3>2. /\ o \in {"unknown", "partial", "notSent"}
              /\ how # "none" => o \in {"unknown", "partial"}
            BY <1>3, <2>5 DEF UnsentOutcome, MaySubmit, WriteEnds
        <3> HIDE DEF o
        <3>3. /\ call' \in Calls /\ call'.at = "done" /\ call'.kind = call.kind /\ ~call'.ok
              /\ call'.what = call.what /\ call'.id = call.id /\ call'.read = call.read
              /\ call'.outcome = o
            <4>1. o \in Outcomes /\ FALSE \in BOOLEAN
                BY <1>1, <3>2
            <4> QED BY ZenonT(60), <2>3, <3>1, <4>1, ReturnedIs
        <3>4. spent' \in [faults : Nat, extras : Nat] /\ spent'.faults = spent.faults + 1
            BY <2>1, <2>5, Parts, SpentIs
        <3>5. CASE ~whole
            <4>1. HostStays
                BY <1>0, <2>2, <3>5 DEF HostStays, far
            <4>2. Fails(o)
                BY <1>0, <1>1, <3>1, <3>2 DEF Fails, Silent
            <4> QED BY <3>1, <3>3, <3>4, <4>1, <4>2, HostKept
        <3>6. CASE whole
            <4>1. how # "none"
                BY <2>2, <3>6 DEF MayHaveArrived
            <4>2. /\ todo' = Append(todo, Request(call)) /\ device' = device
                  /\ effects' = IF Request(call).what = "layout"
                                THEN effects \cup {<<"layout", Request(call).value>>} ELSE effects
                BY <2>2, <3>6
            <4>3. call'.outcome \in {"partial", "unknown"}
                BY <3>2, <3>3, <4>1
            <4> QED BY <1>0, <3>1, <3>3, <3>4, <4>2, <4>3, ArrivesKept
        <3> QED BY <3>5, <3>6
    <2> QED BY <2>4, <2>5
<1> QED BY <1>2, <1>3

-----------------------------------------------------------------------------
(* A keepalive while an answer is awaited *)

InFlightKeepalive == [what |-> "ping", track |-> Untracked, id |-> 0, value |-> 0]

\* It is a request.
LEMMA KeepaliveIs == InFlightKeepalive \in Requests
BY DEF InFlightKeepalive, Requests, Whats, Untracked

\* It asks for nothing that the invariant speaks of.
LEMMA KeepaliveAlike ==
  ASSUME NEW ts \in Seq(Requests), NEW us, us = Append(ts, InFlightKeepalive), NEW F, NEW c, NEW t,
         NEW ef, NEW vs
  PROVE  /\ Settled(F, ts, c, t) => Settled(F, us, c, t)
         /\ Told(ts, ef, t, vs) => Told(us, ef, t, vs)
         /\ Applied(F, ts, ef, c, t) => Applied(F, us, ef, c, t)
<1>1. Waiting(us) = Waiting(ts) \cup {InFlightKeepalive}
    BY KeepaliveIs, QueueOf
<1>2. InFlightKeepalive.id = 0 /\ InFlightKeepalive.what # "config" /\ ~Filed(InFlightKeepalive)
    BY DEF InFlightKeepalive, Filed, FileTrack, Untracked
<1>3. \A i : Asked(i, us) <=> Asked(i, ts)
    BY <1>1, <1>2 DEF Asked
<1>4. Settled(F, ts, c, t) => Settled(F, us, c, t)
    BY <1>1, <1>2 DEF Settled, Looked
<1>5. Told(ts, ef, t, vs) => Told(us, ef, t, vs)
    BY <1>3 DEF Told, Untouched
<1>6. Applied(F, ts, ef, c, t) => Applied(F, us, ef, c, t)
    BY <1>3 DEF Applied, Writing, Untouched
<1> QED BY <1>4, <1>5, <1>6

\* A keepalive arrives.
LEMMA KeepaliveKept ==
  ASSUME ApplyInvariant, product = "pase", call.at = "wait", NEW n \in {0, 1}, Wired(n),
         spent' \in [faults : Nat, extras : Nat], spent'.faults = spent.faults + n,
         UNCHANGED <<product, serial, cancelled, device, effects, task, offered, verdicts>>,
         todo' = Append(todo, InFlightKeepalive), call' \in Calls, GoesOn \/ \E o : Fails(o)
  PROVE  ApplyInvariant'
<1>0. Types /\ Counted(usb, spent) /\ Flowing /\ Steps /\ AnswerIsOwn /\ todo \in Seq(Requests)
         /\ serial \in Nat
    BY DEF ApplyInvariant, Types
<1>1. Types'
    BY <1>0, KeepaliveIs, QueueOf DEF Types, Wired
<1>2. Counted(usb', spent')
    BY <1>0, CountedKept
<1>3. InFlight' \subseteq InFlight
    BY DEF InFlight, Wired, Later
<1>4. effects' = effects /\ task' = task /\ verdicts' = verdicts
         /\ serial' = serial /\ device' = device /\ product' = product
    OBVIOUS
<1>5. Told(todo', effects', task', verdicts')
    BY <1>0, <1>4, KeepaliveAlike DEF ApplyInvariant
<1>6. /\ Steps' /\ AnswerIsOwn' /\ call'.read = 0 /\ Top(call', serial') = serial + 1
      /\ call' = call \/ (call'.id = call.id /\ ~(call'.at = "done" /\ call'.ok))
      /\ Applied(InFlight', todo, effects, call', task)
    <2>1. call.read = 0
        BY <1>0 DEF Steps, Called
    <2>2. CASE GoesOn
        <3>1. Steps'
            BY <1>0, <1>4, <2>2, GoesOnSteps
        <3>2. AnswerIsOwn' /\ call'.read = 0 /\ Top(call', serial') = serial + 1
                 /\ (call' = call \/ (call'.id = call.id /\ ~(call'.at = "done" /\ call'.ok)))
            BY <1>0, <1>4, <2>1, <2>2 DEF AnswerIsOwn, GoesOn, Top
        <3>3. Applied(InFlight', todo, effects, call', task)
            BY <1>0, <1>3, <2>2, GoesOnApplied DEF ApplyInvariant
        <3> QED BY <3>1, <3>2, <3>3
    <2>3. ASSUME NEW o, Fails(o)
          PROVE  /\ Steps' /\ AnswerIsOwn' /\ call'.read = 0 /\ Top(call', serial') = serial + 1
                 /\ call'.id = call.id /\ ~(call'.at = "done" /\ call'.ok)
                 /\ Applied(InFlight', todo, effects, call', task)
        <3>1. Steps' /\ call'.at = "done" /\ ~call'.ok /\ call'.outcome = o /\ call'.id = call.id
                 /\ call'.read = 0
            BY <1>0, <1>4, <2>3, FailsSteps
        <3>2. AnswerIsOwn' /\ Top(call', serial') = serial + 1
            BY <1>4, <2>3, <3>1 DEF AnswerIsOwn, Fails, Silent, Top
        <3>3. Applied(InFlight', todo, effects, call', task)
            BY <1>0, <1>3, <1>4, <2>3, FailsApplied DEF ApplyInvariant
        <3> QED BY <3>1, <3>2, <3>3
    <2> QED BY <2>2, <2>3
<1>7. Flowing'
    <2>1. Top(call, serial) <= Top(call', serial')
        BY <1>0, <1>6 DEF Top
    <2>2. HonestRequest(InFlightKeepalive, Top(call', serial'))
        BY <1>0, <1>6 DEF HonestRequest, InFlightKeepalive, Untracked, FirstTrack
    <2>3. InFlightKeepalive.id = 0
        BY DEF InFlightKeepalive
    <2>4. /\ \A x \in Waiting(todo) : Precedes(x.id, InFlightKeepalive.id)
          /\ \A f \in InFlight : Precedes(f.of, InFlightKeepalive.id)
        BY <2>3 DEF Precedes
    <2>5. effects \subseteq effects' /\ serial' \in Nat
        BY <1>0, <1>4
    <2> QED BY <1>0, <1>4, <1>6, <2>1, <2>2, <2>4, <2>5, KeepaliveIs, FlowingGrows
<1>8. Settled(InFlight', todo', call', task')
    <2>1. Settled(InFlight', todo, call', task)
        BY <1>3, <1>6, SettledLess DEF ApplyInvariant
    <2> QED BY <1>0, <1>4, <2>1, KeepaliveAlike
<1>9. Applied(InFlight', todo', effects', call', task')
    BY <1>0, <1>4, <1>6, KeepaliveAlike
<1> QED BY <1>1, <1>2, <1>5, <1>6, <1>7, <1>8, <1>9 DEF ApplyInvariant

\* InFlightPing.
LEMMA InFlightPingKeeps ==
  ASSUME ApplyInvariant, InFlightPing, UNCHANGED <<task, offered, verdicts>>
  PROVE  ApplyInvariant'
<1>0. /\ call.at = "wait" /\ product = "pase"
      /\ UNCHANGED <<product, serial, cancelled, task, offered, verdicts>>
    BY DEF InFlightPing, Keep
<1>1. PICK how \in (IF MaySubmit(usb, cancelled) THEN WriteEnds ELSE {"none"}) :
          /\ spent' = [spent EXCEPT !.extras = @ + 1,
                                    !.faults = @ + (IF how = "whole" THEN 0 ELSE 1)]
          /\ Arrives(InFlightKeepalive, how)
          /\ IF how = "whole"
             THEN /\ call' = [call EXCEPT !.misses = 0]
                  /\ usb' = AfterWrite(usb, how) /\ UNCHANGED <<stream, buffer>>
             ELSE IF how = "none" /\ call.misses < MaxMisses
             THEN call' = [call EXCEPT !.misses = @ + 1] /\ UNCHANGED wire
             ELSE End(FALSE, "transport", usb, stream, TRUE)
    BY DEF InFlightPing, InFlightKeepalive
<1>2. PICK whole \in MayHaveArrived(how) :
            /\ todo' = IF whole THEN Append(todo, InFlightKeepalive) ELSE todo
            /\ effects' = effects /\ device' = device
    <2>1. InFlightKeepalive.what # "layout"
        BY DEF InFlightKeepalive
    <2> QED BY <1>1, <2>1 DEF Arrives
<1> DEFINE n == IF how = "whole" THEN 0 ELSE 1
<1>3. n \in {0, 1} /\ spent' \in [faults : Nat, extras : Nat] /\ spent'.faults = spent.faults + n
    <2>1. n \in {0, 1} /\ spent' = [spent EXCEPT !.extras = @ + 1, !.faults = @ + n]
        BY <1>1
    <2> HIDE DEF n
    <2>2. spent.faults \in Nat /\ spent.extras \in Nat /\ n \in Nat
        BY <2>1, Parts
    <2>3. spent.faults + n \in Nat /\ spent.extras + 1 \in Nat
        BY <2>2
    <2> QED BY <2>1, <2>3, Parts
<1>4. call' \in Calls /\ Wired(n) /\ (GoesOn \/ \E o : Fails(o))
    <2>1. CASE how = "whole"
        <3>1. call' = [call EXCEPT !.misses = 0] /\ usb' = AfterWrite(usb, how)
                 /\ UNCHANGED <<stream, buffer>>
            BY <1>1, <2>1
        <3>2. usb.open
            BY <2>1 DEF MaySubmit
        <3>3. Wired(0)
            BY <3>1, <3>2, Parts, WriteWires
        <3>4. call' \in Calls /\ GoesOn
            BY <1>0, <3>1, Parts DEF Calls, GoesOn
        <3> QED BY <2>1, <3>3, <3>4
    <2>2. CASE call' = [call EXCEPT !.misses = @ + 1] /\ UNCHANGED wire /\ n = 1
        <3>1. Wired(1)
            <4>1. Counts(usb, usb, 1)
                BY Parts, PipeNumbers DEF Counts
            <4> QED BY <2>2, <4>1, Parts, LaterWays DEF wire, Wired, Types
        <3>2. call.misses + 1 \in Nat
            BY Parts DEF Calls
        <3>3. call' \in Calls /\ GoesOn
            BY <1>0, <2>2, <3>2, Parts DEF Calls, GoesOn
        <3> QED BY <2>2, <3>1, <3>3
    <2>3. CASE End(FALSE, "transport", usb, stream, TRUE) /\ n = 1
        <3>1. Wired(0) /\ call' = Returned(call, FALSE, "transport")
            BY <2>3, Parts, EndWires
        <3>2. Wired(1)
            <4>1. usb.errors \in Nat /\ usb'.errors \in Nat /\ InputRetries \in Nat
                BY <3>1, Parts, PipeNumbers DEF Wired, Whole
            <4>2. Counts(usb', usb, 1)
                BY <3>1, <4>1 DEF Wired, Counts
            <4> QED BY <3>1, <4>2 DEF Wired
        <3>3. Silent("transport") /\ "transport" \in Outcomes /\ FALSE \in BOOLEAN
            BY DEF Silent, Outcomes
        <3>4. call' \in Calls /\ Fails("transport")
            BY <1>0, <3>1, <3>3, Parts, ReturnedIs DEF Fails
        <3> QED BY <2>3, <3>2, <3>4
    <2> QED BY <1>1, <2>1, <2>2, <2>3
<1> HIDE DEF n
<1>5. CASE whole
    <2>1. todo' = Append(todo, InFlightKeepalive)
        BY <1>2, <1>5
    <2> QED BY <1>0, <1>2, <1>3, <1>4, <2>1, KeepaliveKept
<1>6. CASE ~whole
    <2>1. HostStays
        BY <1>0, <1>2, <1>6 DEF HostStays, far
    <2> QED BY <1>3, <1>4, <2>1, HostKept
<1> QED BY <1>5, <1>6

-----------------------------------------------------------------------------
(* Between calls *)

\* IdleService: the pipe is served without a call.
LEMMA IdleServiceKeeps ==
  ASSUME ApplyInvariant, IdleService, UNCHANGED <<task, offered, verdicts>>
  PROVE  ApplyInvariant'
<1>0. usb.open /\ call' = call /\ buffer' = buffer /\ HostStays
    BY DEF IdleService, HostStays
<1>1. PICK c \in Completions(usb) : /\ Spend("faults", c.cost) /\ stream' = c.stream
                                    /\ usb' = Unmarked(Rearmed(c.usb, Keep))
    BY DEF IdleService
<1>2. Completed(c, usb, stream)
    BY Parts, EveryCompletion
<1>3. /\ c.usb \in Pipes /\ c.usb.open /\ c.stream \in Seq(Pieces) /\ c.cost \in {0, 1}
      /\ Counts(c.usb, usb, c.cost)
      /\ Later(buffer, c.usb.queue, c.stream, buffer, usb.queue, stream)
    BY <1>0, <1>2, Parts DEF Completed
<1>4. /\ usb' \in Pipes /\ usb'.open /\ usb'.queue = c.usb.queue /\ usb'.errors = c.usb.errors
      /\ usb'.latched = c.usb.latched
    BY <1>1, <1>3, Arming, KeepIs
<1>5. Counts(usb', usb, c.cost)
    BY <1>3, <1>4 DEF Counts
<1>6. Wired(c.cost)
    BY <1>0, <1>1, <1>3, <1>4, <1>5, Parts DEF Wired, Whole
<1>7. spent' \in [faults : Nat, extras : Nat] /\ spent'.faults = spent.faults + c.cost
    BY <1>1, <1>3, Parts, SpentIs
<1> QED BY <1>0, <1>3, <1>6, <1>7, Parts, HostKept DEF GoesOn

-----------------------------------------------------------------------------
(* The display *)

\* It sends a frame behind all that is in flight.
LEMMA Sends ==
  ASSUME NEW b \in Seq(Pieces), NEW q \in Seq(Pieces), NEW s \in Seq(Pieces), NEW f \in Frames,
         InOrder(b, q, s), \A g \in Flight(b, q, s) : Before(g, f)
  PROVE  /\ s \o Framed(f) \in Seq(Pieces) /\ InOrder(b, q, s \o Framed(f))
         /\ Flight(b, q, s \o Framed(f)) = Flight(b, q, s) \cup {f}
<1> DEFINE z == Framed(f)
<1>1. z \in Seq(Pieces) /\ DOMAIN z = {1, 2} /\ \A i \in DOMAIN z : z[i].frame = f
    BY DEF Framed, Pieces
<1> HIDE DEF z
<1>2. Of(z) = {f}
    BY <1>1 DEF Of
<1>3. Sorted(z)
    BY <1>1 DEF Sorted, Before
<1>4. Ahead(b, z) /\ Ahead(q, z) /\ Ahead(s, z)
    BY <1>2 DEF Ahead, Flight
<1>5. s \o z \in Seq(Pieces) /\ Of(s \o z) = Of(s) \cup {f} /\ Sorted(s \o z)
    BY <1>1, <1>2, <1>3, <1>4, Rows DEF InOrder
<1>6. Ahead(b, s \o z) /\ Ahead(q, s \o z)
    BY <1>2, <1>4, <1>5 DEF Ahead, InOrder
<1>7. InOrder(b, q, s \o z) /\ Flight(b, q, s \o z) = Flight(b, q, s) \cup {f}
    BY <1>5, <1>6 DEF InOrder, Flight
<1> QED BY <1>5, <1>7 DEF z

\* DeviceTalks: an event belongs to no request.
LEMMA DeviceTalksKeeps ==
  ASSUME ApplyInvariant, DeviceTalks, UNCHANGED <<task, offered, verdicts>>
  PROVE  ApplyInvariant'
<1> DEFINE f == [body |-> "event", track |-> Untracked, ok |-> TRUE, of |-> 0, value |-> 0]
<1>0. UNCHANGED <<product, usb, buffer, call, serial, cancelled, todo, device, effects, task, offered,
                  verdicts>>
    BY DEF DeviceTalks, far
<1>1. stream' = stream \o Framed(f) /\ spent' = [spent EXCEPT !["extras"] = @ + 1]
    BY DEF DeviceTalks, Spend
<1>2. f \in Frames /\ f.of = 0 /\ f.ok = TRUE /\ f.track = Untracked /\ f.value = 0
    BY DEF Frames, Bodies, Untracked
<1> HIDE DEF f
<1>3. \A g \in InFlight : Before(g, f)
    BY <1>2 DEF Before
<1>4. /\ stream' \in Seq(Pieces) /\ InOrder(buffer, usb.queue, stream')
      /\ InFlight' = InFlight \cup {f}
    BY <1>0, <1>1, <1>2, <1>3, Parts, Sends DEF InFlight
<1>5. Types /\ Flowing /\ Steps /\ AnswerIsOwn /\ Counted(usb, spent)
    BY DEF ApplyInvariant
<1>6. spent' \in [faults : Nat, extras : Nat] /\ spent'.faults = spent.faults
    BY <1>1, Parts
<1>7. Types'
    BY <1>0, <1>4, <1>5, <1>6 DEF Types
<1>8. Counted(usb', spent')
    BY <1>0, <1>5, <1>6 DEF Counted
<1>9. Flowing'
    <2> DEFINE m == Top(call, serial)
    <2>1. m \in Nat
        BY <1>5, TopIs DEF Types
    <2> HIDE DEF m
    <2>2. HonestFrame(f, m, effects)
        BY <1>2, <2>1 DEF HonestFrame, Untracked, FirstTrack
    <2>3. Unanswered(InFlight', todo)
        BY <1>2, <1>4, <1>5 DEF Flowing, Unanswered, Precedes, InFlight
    <2>4. \A g \in InFlight' : HonestFrame(g, m, effects)
        BY <1>4, <1>5, <2>2 DEF Flowing, InFlight, m
    <2> QED BY <1>0, <1>4, <1>5, <2>3, <2>4 DEF Flowing, InFlight, m, HonestRequest
<1>10. Steps' /\ AnswerIsOwn'
    BY <1>0, <1>5 DEF Steps, AnswerIsOwn
<1>11. f.ok /\ ~Filed(f)
    BY <1>2 DEF Filed, Untracked, FileTrack
<1>12. Settled(InFlight', todo', call', task')
    BY <1>0, <1>4, <1>11 DEF ApplyInvariant, Settled, Looked
<1>13. Applied(InFlight', todo', effects', call', task')
    BY <1>0, <1>4, <1>11 DEF ApplyInvariant, Applied, Writing
<1>14. Told(todo', effects', task', verdicts')
    BY <1>0 DEF ApplyInvariant
<1> QED BY <1>7, <1>8, <1>9, <1>10, <1>12, <1>13, <1>14 DEF ApplyInvariant

\* What the display does with a request.
Handled(r, ok, answers) ==
  /\ ok \/ (answers /\ (r.what = "ping" => product = "turris"))
  /\ device' = IF ok /\ r.what = "config" THEN r.value ELSE device
  /\ effects' = IF ok /\ r.what = "config" THEN effects \cup {<<"config", r.value>>} ELSE effects
  /\ stream' = IF answers THEN stream \o Framed(Frame(r, ok)) ELSE stream

\* Its answer, if it sends one, is of that request.
LEMMA AnswerIs ==
  ASSUME ApplyInvariant, NEW r \in Waiting(todo), NEW ok \in BOOLEAN
  PROVE  /\ Frame(r, ok) \in Frames /\ Frame(r, ok).of = r.id /\ Frame(r, ok).track = r.track
         /\ Frame(r, ok).ok = ok /\ (Frame(r, ok).value # 0 => Frame(r, ok).value = device)
         /\ r \in Requests /\ HonestRequest(r, Top(call, serial))
         /\ \A g \in InFlight : Before(g, Frame(r, ok))
<1>1. r \in Requests
    BY WaitingType DEF ApplyInvariant, Types
<1>2. r.what \in {"query", "config", "layout", "restart", "ping"} /\ r.id \in Nat /\ r.track \in Nat
    BY <1>1 DEF Requests, Whats
<1>3. Answer[r.what] \in Bodies
    BY <1>2 DEF Answer, Bodies
<1> DEFINE v == IF r.what = "query" THEN device ELSE 0
<1>4. v \in Nat /\ (v # 0 => v = device)
    BY DEF ApplyInvariant, Types
<1>5. Frame(r, ok) = [body |-> Answer[r.what], track |-> r.track, ok |-> ok, of |-> r.id, value |-> v]
    BY DEF Frame
<1> HIDE DEF v
<1> DEFINE f == Frame(r, ok)
<1>6. f \in Frames /\ f.of = r.id /\ f.track = r.track /\ f.ok = ok /\ (f.value # 0 => f.value = device)
    BY <1>2, <1>3, <1>4, <1>5 DEF Frames
<1> HIDE DEF f
<1>7. HonestRequest(r, Top(call, serial)) /\ Unanswered(InFlight, todo)
    BY DEF ApplyInvariant, Flowing, InFlight
<1>8. \A g \in InFlight : Before(g, f)
    BY <1>6, <1>7 DEF Unanswered, Precedes, Before
<1> QED BY <1>1, <1>6, <1>7, <1>8 DEF f

\* DeviceHandles: the oldest request is carried out, refused or answered late.
LEMMA DeviceHandlesKeeps ==
  ASSUME ApplyInvariant, DeviceHandles, UNCHANGED <<task, offered, verdicts>>
  PROVE  ApplyInvariant'
<1> DEFINE r == Head(todo)
<1>0. /\ UNCHANGED <<product, usb, buffer, call, serial, cancelled, task, offered, verdicts>>
      /\ todo # << >> /\ todo' = Tail(todo)
    BY DEF DeviceHandles
<1>1. PICK ok \in BOOLEAN, answers \in BOOLEAN :
         Handled(r, ok, answers) /\ \E k \in {0, 1} : Spend("extras", k)
    BY DEF DeviceHandles, Handled
<1>2. Types /\ Flowing /\ Steps /\ AnswerIsOwn /\ Counted(usb, spent)
         /\ Settled(InFlight, todo, call, task) /\ Told(todo, effects, task, verdicts)
         /\ Applied(InFlight, todo, effects, call, task) /\ todo \in Seq(Requests)
    BY DEF ApplyInvariant, Types
<1>3. /\ todo' \in Seq(Requests) /\ Waiting(todo) = Waiting(todo') \cup {r} /\ Queued(todo')
      /\ \A x \in Waiting(todo') : Precedes(r.id, x.id)
    BY <1>0, <1>2, QueueTail DEF Flowing
<1> HIDE DEF r
<1> DEFINE f == Frame(r, ok)
<1>4. /\ f \in Frames /\ f.of = r.id /\ f.track = r.track /\ f.ok = ok /\ (f.value # 0 => f.value = device)
      /\ r \in Requests /\ HonestRequest(r, Top(call, serial)) /\ \A g \in InFlight : Before(g, f)
    BY <1>3, AnswerIs
<1>5. f.of = 0 => f.ok /\ f.track = Untracked
    BY <1>1, <1>4 DEF Handled, HonestRequest
<1>6. /\ stream' \in Seq(Pieces) /\ InOrder(buffer, usb.queue, stream')
      /\ InFlight' = IF answers THEN InFlight \cup {f} ELSE InFlight
    <2>1. /\ stream \o Framed(f) \in Seq(Pieces) /\ InOrder(buffer, usb.queue, stream \o Framed(f))
          /\ Flight(buffer, usb.queue, stream \o Framed(f)) = InFlight \cup {f}
        BY <1>4, Parts, Sends DEF InFlight
    <2>2. stream' = IF answers THEN stream \o Framed(f) ELSE stream
        BY <1>1 DEF Handled
    <2>3. InFlight' = Flight(buffer, usb.queue, stream')
        BY <1>0 DEF InFlight
    <2> HIDE DEF f
    <2> QED BY <2>1, <2>2, <2>3, Parts DEF InFlight
<1> HIDE DEF f
<1>7. /\ answers \in BOOLEAN
      /\ effects' = IF ok /\ r.what = "config" THEN effects \cup {<<"config", r.value>>} ELSE effects
      /\ device' = IF ok /\ r.what = "config" THEN r.value ELSE device
    BY <1>1 DEF Handled
<1>8. spent' \in [faults : Nat, extras : Nat] /\ spent'.faults = spent.faults
    <2>1. PICK k \in {0, 1} : spent' = [spent EXCEPT !["extras"] = @ + k]
        BY <1>1 DEF Spend
    <2> QED BY <2>1, Parts
<1>9. Types'
    <2>1. device' \in Nat
        BY <1>2, <1>4, <1>7 DEF Types, Requests
    <2> QED BY <1>0, <1>2, <1>3, <1>6, <1>8, <2>1 DEF Types
<1>10. Counted(usb', spent')
    BY <1>0, <1>2, <1>8 DEF Counted
<1>11. Flowing'
    <2> DEFINE m == Top(call, serial)
    <2>1. m \in Nat
        BY <1>2, TopIs DEF Types
    <2> HIDE DEF m
    <2>2. HonestFrame(f, m, effects)
        BY <1>2, <1>4, <1>5 DEF HonestFrame, HonestRequest, Flowing, m
    <2>3. \A g \in InFlight : g \in Frames /\ HonestFrame(g, m, effects)
        BY <1>2, Parts, FlightType DEF Flowing, InFlight, m
    <2>4. effects \subseteq effects'
        BY <1>7
    <2>5. \A g \in InFlight' : HonestFrame(g, m, effects')
        <3>1. \A g \in InFlight \cup {f} : g \in Frames /\ HonestFrame(g, m, effects)
            BY <1>4, <2>2, <2>3
        <3>2. \A g \in InFlight \cup {f} : HonestFrame(g, m, effects')
            BY <2>1, <2>4, <3>1, HonestMore
        <3> QED BY <1>6, <3>2
    <2>6. Unanswered(InFlight', todo')
        BY <1>2, <1>3, <1>4, <1>6 DEF Flowing, Unanswered, InFlight
    <2>7. \A x \in Waiting(todo') : HonestRequest(x, m)
        BY <1>2, <1>3 DEF Flowing, m
    <2>8. device' # 0 => <<"config", device'>> \in effects'
        BY <1>2, <1>7 DEF Flowing
    <2>9. call'.read # 0 => <<"config", call'.read>> \in effects'
        BY <1>0, <1>2, <2>4 DEF Flowing
    <2> QED BY <1>0, <1>3, <1>6, <2>5, <2>6, <2>7, <2>8, <2>9
            DEF Flowing, InFlight, m, HonestRequest
<1>12. Steps' /\ AnswerIsOwn'
    BY <1>0, <1>2 DEF Steps, AnswerIsOwn
<1>13. Settled(InFlight', todo', call', task')
    <2>1. ASSUME task.step = "preflight", call.at = "done", call.ok PROVE Looked(InFlight', todo')
        <3>1. Looked(InFlight, todo)
            BY <1>2, <2>1 DEF Settled
        <3>2. r.id = 0
            BY <1>3, <3>1 DEF Looked
        <3>3. f.ok /\ ~Filed(f)
            BY <1>4, <1>5, <3>2 DEF Filed, FileTrack, Untracked
        <3> QED BY <1>3, <1>6, <3>1, <3>3 DEF Looked
    <2>2. ASSUME task.step = "config"
          PROVE  /\ \A g \in InFlight' : g.ok \/ g.of = call.id
                 /\ \A x \in Waiting(todo') : x.id = 0 \/ Writes(x, call, task)
        <3>1. /\ \A g \in InFlight : g.ok \/ g.of = call.id
              /\ \A x \in Waiting(todo) : x.id = 0 \/ Writes(x, call, task)
            BY <1>2, <2>2 DEF Settled
        <3>2. f.ok \/ f.of = call.id
            BY <1>3, <1>4, <1>5, <3>1 DEF Writes
        <3> QED BY <1>3, <1>6, <3>1, <3>2
    <2>3. ASSUME task.step \in {"config", "layout"}
          PROVE  /\ \A g \in InFlight' : ~Filed(g)
                 /\ \A x \in Waiting(todo') : ~Filed(x)
        <3>1. (\A g \in InFlight : ~Filed(g)) /\ \A x \in Waiting(todo) : ~Filed(x)
            BY <1>2, <2>3 DEF Settled
        <3> QED BY <1>3, <1>4, <1>6, <3>1 DEF Filed
    <2>4. ASSUME task.step = "restart"
          PROVE  /\ \A g \in InFlight' : Filed(g) => g.of = call.id
                 /\ \A x \in Waiting(todo') : Filed(x) => x.id = call.id
        <3>1. /\ \A g \in InFlight : Filed(g) => g.of = call.id
              /\ \A x \in Waiting(todo) : Filed(x) => x.id = call.id
            BY <1>2, <2>4 DEF Settled
        <3> QED BY <1>3, <1>4, <1>6, <3>1 DEF Filed
    <2>5. task' = task /\ call' = call
        BY <1>0
    <2> QED BY <2>1, <2>2, <2>3, <2>4, <2>5 DEF Settled
<1>14. \A i : Asked(i, todo') => Asked(i, todo)
    BY <1>3 DEF Asked
<1>15. \A i : Done(i, effects') => Done(i, effects) \/ (Asked(i, todo) /\ ok /\ r.what = "config" /\ i = r.value)
    BY <1>3, <1>7 DEF Done, Asked
<1>16. \A i : Untouched(i, todo, effects) => Untouched(i, todo', effects')
    BY <1>14, <1>15 DEF Untouched
<1>17. \A i : (Done(i, effects) => Done(i, effects')) /\ (LaidOut(i, effects) => LaidOut(i, effects'))
    BY <1>7 DEF Done, LaidOut
<1>18. Told(todo', effects', task', verdicts')
    BY <1>0, <1>2, <1>16, <1>17 DEF Told
<1>19. ASSUME task.step = "config" PROVE Writing(InFlight', todo', effects', call', task.value)
    <2> DEFINE i == task.value
    <2>1. Writing(InFlight, todo, effects, call, i)
        BY <1>2, <1>19 DEF Applied
    <2>2. ASSUME call.at = "wait"
          PROVE  /\ Asked(i, todo') => ~Done(i, effects')
                 /\ (\E g \in InFlight' : ~g.ok) => ~Done(i, effects')
        <3>1. /\ \A g \in InFlight : g.ok \/ g.of = call.id
              /\ \A x \in Waiting(todo) : x.id = 0 \/ Writes(x, call, task)
            BY <1>2, <1>19 DEF Settled
        <3>2. call.id \in Nat \ {0}
            BY <1>2, <2>2 DEF Steps, Called, Types
        <3>3. \A x \in Waiting(todo) : x.what = "config" => x.id = call.id
            <4>1. \A x \in Waiting(todo) : HonestRequest(x, Top(call, serial))
                BY <1>2 DEF Flowing
            <4> QED BY <3>1, <4>1 DEF Writes, HonestRequest
        <3>4. ASSUME Asked(i, todo') PROVE ~Done(i, effects')
            <4>1. PICK x \in Waiting(todo') : x.what = "config" /\ x.value = i
                BY <3>4 DEF Asked
            <4>2. x.id = call.id /\ Precedes(r.id, x.id)
                BY <1>3, <3>3, <4>1
            <4>3. r.what # "config"
                BY <1>3, <3>2, <3>3, <4>2 DEF Precedes
            <4>4. ~Done(i, effects)
                BY <1>14, <2>1, <2>2, <3>4 DEF Writing
            <4> QED BY <1>15, <4>3, <4>4
        <3>5. ASSUME NEW g \in InFlight', ~g.ok PROVE ~Done(i, effects')
            <4>1. CASE g \in InFlight
                <5>1. g.of = call.id /\ Precedes(g.of, r.id)
                    BY <1>2, <1>3, <3>1, <3>5, <4>1 DEF Flowing, Unanswered, InFlight
                <5>2. r.what # "config"
                    BY <1>3, <3>2, <3>3, <5>1 DEF Precedes
                <5>3. ~Done(i, effects)
                    BY <2>1, <2>2, <3>5, <4>1 DEF Writing
                <5> QED BY <1>15, <5>2, <5>3
            <4>2. CASE g = f
                <5>1. ~ok /\ r.id # 0
                    BY <1>4, <1>5, <3>5, <4>2
                <5>2. Asked(i, todo)
                    BY <1>3, <3>1, <5>1 DEF Writes, Asked
                <5>3. ~Done(i, effects)
                    BY <2>1, <2>2, <5>2 DEF Writing
                <5> QED BY <1>15, <5>1, <5>3
            <4> QED BY <1>6, <4>1, <4>2
        <3> QED BY <3>4, <3>5
    <2>3. call' = call
        BY <1>0
    <2> QED BY <1>16, <2>1, <2>2, <2>3 DEF Writing
<1>20. Applied(InFlight', todo', effects', call', task')
    <2>1. task' = task /\ call' = call
        BY <1>0
    <2> QED BY <1>2, <1>17, <1>19, <2>1 DEF Applied
<1> QED BY <1>9, <1>10, <1>11, <1>12, <1>13, <1>18, <1>20 DEF ApplyInvariant

-----------------------------------------------------------------------------
(* A call begins *)

\* It is drained first, or ends at once.
Begins(kind, what, track, value) ==
  /\ serial' = serial + 1 /\ call' \in Calls /\ call'.kind = kind /\ call'.what = what
  /\ call'.id = serial' + 1 /\ call'.read = 0
  /\ \/ /\ call'.at = "drain" /\ call'.value = value
        /\ call'.track = IF track = "own" THEN serial' + 1
                         ELSE IF track = "file" THEN FileTrack ELSE Untracked
     \/ call'.at = "done" /\ ~call'.ok /\ call'.outcome \in {"notSent", "cancelled"}

\* A connection that is opened anew holds nothing of the old one.
LEMMA OpenedWires ==
  ASSUME Types, ~IsOpen(usb), usb' = Opened(usb), buffer' = << >>, stream' \in {stream, Tail(stream)},
         stream' = stream \/ stream # << >>
  PROVE  Wired(0)
<1>0. /\ usb \in Pipes /\ usb.latched \in BOOLEAN /\ usb.errors \in Nat /\ InputRetries \in Nat
      /\ usb.queue \in Seq(Pieces) /\ stream \in Seq(Pieces) /\ buffer \in Seq(Pieces)
      /\ << >> \in Seq(Pieces)
    BY PipeNumbers DEF Types, Whole
<1>1. 0 \in 0 .. InputRetries
    BY <1>0
<1>2. usb' \in Pipes /\ usb'.open /\ usb'.queue = << >> /\ usb'.errors = 0 /\ usb'.latched = usb.latched
    BY <1>0, <1>1 DEF Opened, Closed, Pipes, Arms
<1>3. Counts(usb', usb, 0)
    BY <1>0, <1>2 DEF Counts
<1>4. stream' \in Seq(Pieces) /\ Later(<< >>, << >>, stream', buffer, usb.queue, stream)
    <2>1. CASE stream' = stream
        BY <1>0, <2>1, LaterWays
    <2>2. CASE stream' # stream
        <3>1. stream # << >> /\ stream' = Tail(stream)
            BY <2>2
        <3>2. Tail(stream) \in Seq(Pieces)
            BY <1>0, <3>1, TailOf
        <3>3. Later(<< >>, << >>, Tail(stream), buffer, usb.queue, stream)
            BY <1>0, <3>1, LaterWays
        <3> QED BY <3>1, <3>2, <3>3
    <2> QED BY <2>1, <2>2
<1> QED BY <1>0, <1>2, <1>3, <1>4 DEF Wired, Whole

\* Nothing of the connection changes.
LEMMA UnchangedWires ==
  ASSUME Types, UNCHANGED wire
  PROVE  Wired(0)
<1>1. /\ usb.queue \in Seq(Pieces) /\ usb.errors \in Nat /\ Counts(usb, usb, 0)
      /\ stream \in Seq(Pieces) /\ buffer \in Seq(Pieces)
    BY PipeNumbers DEF Types, Whole, Counts
<1> QED BY <1>1, LaterWays DEF wire, Wired, Types

\* Call over an open or a new connection.
LEMMA CallBegins ==
  ASSUME Types, NEW kind \in {"execute", "setter", "periodic"}, NEW what \in Whats, NEW track,
         NEW value \in Nat, NEW preserve \in BOOLEAN, Call(kind, what, track, value, preserve)
  PROVE  Wired(0) /\ Begins(kind, what, track, value)
<1> DEFINE k == IF track = "own" THEN serial + FirstTrack
                ELSE IF track = "file" THEN FileTrack ELSE Untracked
           c == [NoCall EXCEPT !.kind = kind, !.what = what, !.value = value,
                               !.preserve = preserve, !.id = serial + FirstTrack, !.track = k]
<1>1. k \in Nat /\ serial \in Nat /\ serial + FirstTrack = serial + 1 + 1
    BY DEF Types, FirstTrack, FileTrack, Untracked
<1>2. NoCall \in Calls /\ NoCall.read = 0
    <2>1. 0 \in Nat /\ FALSE \in BOOLEAN /\ Untracked = 0 /\ "none" \in Whats /\ "notSent" \in Outcomes
        BY DEF Untracked, Whats, Outcomes
    <2> QED BY <2>1 DEF NoCall, Calls
<1>3. /\ serial' = serial + 1
      /\ IF cancelled
        THEN call' = Returned(c, FALSE, "cancelled") /\ UNCHANGED wire
        ELSE \/ /\ call' = [c EXCEPT !.at = "drain"]
                /\ usb' = EnsuredOpen(usb)
                /\ buffer' = IF IsOpen(usb) THEN buffer ELSE << >>
                /\ stream' \in (IF usb.open /\ usb.fatal THEN Unread(usb) ELSE {stream})
             \/ /\ ~IsOpen(usb)
                /\ call' = Returned(c, FALSE, "notSent")
                /\ Shut(usb, stream)
    BY DEF Call
<1> HIDE DEF k
<1>4. /\ c \in Calls /\ c.kind = kind /\ c.what = what /\ c.value = value
      /\ c.id = serial + 1 + 1 /\ c.track = k /\ c.read = 0
    <2>1. serial + FirstTrack \in Nat
        BY <1>1
    <2> QED BY <1>1, <1>2, <2>1 DEF Calls
<1> HIDE DEF c
<1>5. "cancelled" \in Outcomes /\ "notSent" \in Outcomes /\ FALSE \in BOOLEAN
    BY DEF Outcomes
<1>6. CASE \E o \in {"notSent", "cancelled"} : call' = Returned(c, FALSE, o)
    <2>1. PICK o \in {"notSent", "cancelled"} : call' = Returned(c, FALSE, o)
        BY <1>6
    <2>2. /\ call' \in Calls /\ call'.at = "done" /\ call'.kind = kind /\ call'.what = what
          /\ call'.id = serial + 1 + 1 /\ call'.read = 0 /\ ~call'.ok /\ call'.outcome = o
        <3>1. c \in Calls /\ o \in Outcomes /\ FALSE \in BOOLEAN
            BY <1>4, <1>5
        <3>2. LET d == Returned(c, FALSE, o)
              IN /\ d \in Calls /\ d.at = "done" /\ d.kind = c.kind /\ d.what = c.what /\ d.id = c.id
                 /\ d.read = c.read /\ d.ok = FALSE /\ d.outcome = o
            BY ZenonT(60), <3>1, ReturnedIs
        <3> QED BY <1>4, <2>1, <3>2
    <2>3. Begins(kind, what, track, value)
        BY <1>3, <2>2 DEF Begins
    <2>4. Wired(0)
        <3>1. CASE UNCHANGED wire
            BY <3>1, UnchangedWires
        <3>2. CASE Shut(usb, stream)
            <4>1. Counts(usb, usb, 0) /\ \A b \in Seq(Pieces) : Later(<< >>, << >>, stream, b, usb.queue, stream)
                BY PipeNumbers, LaterWays DEF Types, Whole, Counts
            <4> QED BY <3>2, <4>1, ShutWires DEF Types, Whole
        <3>3. "drain" # "done" /\ c \in Calls
            BY <1>4
        <3>4. call'.at # "drain"
            BY <2>2
        <3>5. ~(call' = [c EXCEPT !.at = "drain"])
            BY <3>3, <3>4 DEF Calls
        <3> QED BY <1>3, <3>1, <3>2, <3>5
    <2> QED BY <2>3, <2>4
<1>7. CASE /\ call' = [c EXCEPT !.at = "drain"]
           /\ usb' = EnsuredOpen(usb)
           /\ buffer' = IF IsOpen(usb) THEN buffer ELSE << >>
           /\ stream' \in (IF usb.open /\ usb.fatal THEN Unread(usb) ELSE {stream})
    <2>1. /\ call' \in Calls /\ call'.at = "drain" /\ call'.kind = kind /\ call'.what = what
          /\ call'.id = serial + 1 + 1 /\ call'.read = 0 /\ call'.value = value /\ call'.track = k
        BY <1>4, <1>7 DEF Calls
    <2>2. k = IF track = "own" THEN serial + 1 + 1 ELSE IF track = "file" THEN FileTrack ELSE Untracked
        BY <1>1 DEF k
    <2>3. Begins(kind, what, track, value)
        BY <1>3, <2>1, <2>2 DEF Begins
    <2>4. CASE IsOpen(usb)
        <3>1. usb' = usb /\ buffer' = buffer /\ stream' = stream
            BY <1>7, <2>4 DEF EnsuredOpen, IsOpen
        <3> QED BY <2>3, <3>1, UnchangedWires DEF wire
    <2>5. CASE ~IsOpen(usb)
        <3>1. usb' = Opened(usb) /\ buffer' = << >> /\ stream' \in {stream, Tail(stream)}
                 /\ (stream' = stream \/ stream # << >>)
            BY <1>7, <2>5 DEF EnsuredOpen, Unread
        <3> QED BY <2>3, <2>5, <3>1, OpenedWires
    <2> QED BY <2>4, <2>5
<1> QED BY <1>3, <1>6, <1>7

\* What is the same at the beginning of every call.
LEMMA BeginsKept ==
  ASSUME ApplyInvariant, call.at \in {"idle", "done"}, Wired(0), NEW track, NEW value,
         Begins(Kind[task'.step], What[task'.step], track, value),
         UNCHANGED <<product, far, cancelled, verdicts>>, task' \in Tasks,
         offered' \in [display : BOOLEAN, overlay : BOOLEAN, keepalive : BOOLEAN],
         spent' \in [faults : Nat, extras : Nat], spent'.faults = spent.faults,
         track = (IF task'.step = "none" THEN "none" ELSE IF task'.step = "restart" THEN "file" ELSE "own"),
         task'.step \in {"config", "layout"} => value = task'.value,
         task'.step # "none" => task'.value \in DOMAIN verdicts /\ verdicts[task'.value] = "none",
         Settled(InFlight', todo, call', task'), Told(todo, effects, task', verdicts),
         Applied(InFlight', todo, effects, call', task')
  PROVE  ApplyInvariant'
<1>0. Types /\ Counted(usb, spent) /\ Flowing /\ serial \in Nat
    BY DEF ApplyInvariant, Types
<1>1. /\ serial' = serial + 1 /\ call' \in Calls /\ call'.kind = Kind[task'.step]
      /\ call'.what = What[task'.step] /\ call'.id = serial' + 1 /\ call'.read = 0
      /\ \/ /\ call'.at = "drain" /\ call'.value = value
            /\ call'.track = IF track = "own" THEN serial' + 1
                             ELSE IF track = "file" THEN FileTrack ELSE Untracked
         \/ call'.at = "done" /\ ~call'.ok /\ call'.outcome \in {"notSent", "cancelled"}
    BY DEF Begins
<1>2. Types'
    BY <1>0, <1>1 DEF Types, Wired, far
<1>3. Counted(usb', spent')
    BY <1>0, CountedKept, Parts
<1>4. Flowing'
    <2>1. Top(call, serial) <= Top(call', serial') /\ serial' \in Nat
        BY <1>0, <1>1 DEF Top
    <2>2. UNCHANGED <<product, far>> /\ (call'.read # 0 => <<"config", call'.read>> \in effects)
        BY <1>1
    <2> QED BY <1>0, <1>1, <2>1, <2>2, FlowingKept
<1>5. Called(call', task', serial')
    <2>1. call'.at # "done" => call'.track = Track(task'.step, call'.id)
        BY <1>1 DEF Track
    <2>2. serial' # 0
        BY <1>0, <1>1
    <2> QED BY <1>1, <2>1, <2>2 DEF Called
<1>6. Steps'
    BY <1>1, <1>5 DEF Steps
<1>7. AnswerIsOwn'
    BY <1>1 DEF AnswerIsOwn
<1>8. todo' = todo /\ effects' = effects /\ verdicts' = verdicts
    BY DEF far
<1> QED BY <1>2, <1>3, <1>4, <1>6, <1>7, <1>8 DEF ApplyInvariant

-----------------------------------------------------------------------------
(* Steps of an application *)

\* The application that runs has no verdict yet.
LEMMA TaskIs ==
  ASSUME ApplyInvariant
  PROVE  /\ task \in Tasks /\ offered \in [display : BOOLEAN, overlay : BOOLEAN, keepalive : BOOLEAN]
         /\ task.step # "none" =>
              /\ task.value \in DOMAIN verdicts /\ task.value \in Nat \ {0} /\ verdicts[task.value] = "none"
              /\ call.at # "idle" /\ Called(call, task, serial)
         /\ verdicts \in [1 .. MaxApplies -> Verdicts] /\ MaxApplies \in Nat
         /\ call.at = "idle" => task.step = "none"
BY BoundsAssumption DEF ApplyInvariant, Types, Steps

\* An application that has not asked for anything but looks has not touched the display.
LEMMA LookedOnly ==
  ASSUME ApplyInvariant, task.step = "preflight"
  PROVE  Untouched(task.value, todo, effects)
BY TaskIs DEF ApplyInvariant, Told

\* QueryAgain.
LEMMA QueryAgainKeeps ==
  ASSUME ApplyInvariant, QueryAgain
  PROVE  ApplyInvariant'
<1>1. /\ task.step \in {"preflight", "readback"} /\ call.at = "done"
      /\ task' = [task EXCEPT !.try = @ + 1]
      /\ Call("execute", "query", "own", 0, task.try + 1 < QueryAttempts)
      /\ UNCHANGED <<product, far, spent, cancelled, offered, verdicts>>
    BY DEF QueryAgain, Here, Ask, Fixed
<1>2. task' \in Tasks /\ task'.step = task.step /\ task'.value = task.value /\ task'.refused = task.refused
    <2>1. task.try + 1 \in Nat
        BY TaskIs DEF Tasks
    <2> QED BY <1>1, <2>1, TaskIs DEF Tasks
<1>3. Wired(0) /\ Begins("execute", "query", "own", 0)
    <2>1. "query" \in Whats /\ (task.try + 1 < QueryAttempts) \in BOOLEAN
        BY DEF Whats
    <2> QED BY <1>1, <2>1, Parts, CallBegins
<1>4. Kind[task'.step] = "execute" /\ What[task'.step] = "query"
    BY <1>1, <1>2 DEF Kind, What
<1>5. call'.at = "done" => ~call'.ok
    BY <1>3 DEF Begins
<1>6. Settled(InFlight', todo, call', task')
    BY <1>1, <1>2, <1>5 DEF Settled
<1>7. Told(todo, effects, task', verdicts)
    BY <1>2 DEF ApplyInvariant, Told
<1>8. Applied(InFlight', todo, effects, call', task')
    BY <1>1, <1>2 DEF ApplyInvariant, Applied
<1>9. /\ call.at \in {"idle", "done"} /\ spent' \in [faults : Nat, extras : Nat]
      /\ spent'.faults = spent.faults
      /\ offered' \in [display : BOOLEAN, overlay : BOOLEAN, keepalive : BOOLEAN]
      /\ "own" = (IF task'.step = "none" THEN "none" ELSE IF task'.step = "restart" THEN "file" ELSE "own")
      /\ task'.step \in {"config", "layout"} => 0 = task'.value
      /\ task'.step # "none" => task'.value \in DOMAIN verdicts /\ verdicts[task'.value] = "none"
    BY <1>1, <1>2, Parts, TaskIs
<1> QED BY <1>1, <1>2, <1>3, <1>4, <1>6, <1>7, <1>8, <1>9, BeginsKept

\* WriteConfig: after a look that succeeded nothing of an earlier write is in flight.
LEMMA WriteConfigKeeps ==
  ASSUME ApplyInvariant, WriteConfig
  PROVE  ApplyInvariant'
<1>1. /\ task.step = "preflight" /\ call.at = "done" /\ call.ok
      /\ task' = [task EXCEPT !.step = "config"]
      /\ Call("execute", "config", "own", task.value, Negotiates)
      /\ UNCHANGED <<product, far, spent, cancelled, offered, verdicts>>
    BY DEF WriteConfig, Here, Fixed
<1>2. task' \in Tasks /\ task'.step = "config" /\ task'.value = task.value /\ task'.refused = task.refused
    BY <1>1, TaskIs DEF Tasks
<1>3. Wired(0) /\ Begins("execute", "config", "own", task.value)
    <2>1. "config" \in Whats /\ Negotiates \in BOOLEAN /\ task.value \in Nat
        BY TaskIs DEF Whats, Negotiates, Tasks
    <2> QED BY <1>1, <2>1, Parts, CallBegins
<1>4. Kind[task'.step] = "execute" /\ What[task'.step] = "config"
    BY <1>2 DEF Kind, What
<1>5. InFlight' \subseteq InFlight /\ Looked(InFlight, todo)
    BY <1>1, <1>3 DEF InFlight, Wired, Later, ApplyInvariant, Settled
<1>6. Settled(InFlight', todo, call', task')
    <2>1. ASSUME NEW r \in Waiting(todo) PROVE r.id = 0 /\ ~Filed(r)
        <3>1. r.id = 0
            BY <1>5 DEF Looked
        <3>2. HonestRequest(r, Top(call, serial))
            BY DEF ApplyInvariant, Flowing
        <3> QED BY <3>1, <3>2 DEF HonestRequest, Filed, FileTrack, Untracked
    <2> QED BY <1>2, <1>5, <2>1 DEF Settled, Looked
<1>7. Told(todo, effects, task', verdicts)
    BY <1>1, <1>2 DEF ApplyInvariant, Told
<1>8. Applied(InFlight', todo, effects, call', task')
    <2>1. Untouched(task.value, todo, effects)
        BY <1>1, LookedOnly
    <2>2. call'.at \in {"drain", "done"}
        BY <1>3 DEF Begins
    <2> QED BY <1>2, <2>1, <2>2 DEF Applied, Writing
<1>9. /\ call.at \in {"idle", "done"} /\ spent' \in [faults : Nat, extras : Nat]
      /\ spent'.faults = spent.faults
      /\ offered' \in [display : BOOLEAN, overlay : BOOLEAN, keepalive : BOOLEAN]
      /\ "own" = (IF task'.step = "none" THEN "none" ELSE IF task'.step = "restart" THEN "file" ELSE "own")
      /\ task'.step \in {"config", "layout"} => task.value = task'.value
      /\ task'.step # "none" => task'.value \in DOMAIN verdicts /\ verdicts[task'.value] = "none"
    BY <1>1, <1>2, Parts, TaskIs
<1> QED BY <1>1, <1>2, <1>3, <1>4, <1>6, <1>7, <1>8, <1>9, BeginsKept

\* WriteLayout.
LEMMA WriteLayoutKeeps ==
  ASSUME ApplyInvariant, WriteLayout
  PROVE  ApplyInvariant'
<1>1. /\ task.step = "config" /\ call.at = "done"
      /\ task' = [task EXCEPT !.step = "layout"]
      /\ Call("setter", "layout", "own", task.value, FALSE)
      /\ UNCHANGED <<product, far, spent, cancelled, offered, verdicts>>
    BY DEF WriteLayout, Here, Fixed
<1>2. task' \in Tasks /\ task'.step = "layout" /\ task'.value = task.value
    BY <1>1, TaskIs DEF Tasks
<1>3. Wired(0) /\ Begins("setter", "layout", "own", task.value)
    <2>1. "layout" \in Whats /\ FALSE \in BOOLEAN /\ task.value \in Nat
        BY TaskIs DEF Whats, Tasks
    <2> QED BY <1>1, <2>1, Parts, CallBegins
<1>4. Kind[task'.step] = "setter" /\ What[task'.step] = "layout"
    BY <1>2 DEF Kind, What
<1>5. InFlight' \subseteq InFlight
    BY <1>3 DEF InFlight, Wired, Later
<1>6. Settled(InFlight', todo, call', task')
    BY <1>1, <1>2, <1>5 DEF ApplyInvariant, Settled
<1>7. Told(todo, effects, task', verdicts)
    BY <1>1, <1>2 DEF ApplyInvariant, Told
<1>8. Applied(InFlight', todo, effects, call', task')
    BY <1>2, <1>3 DEF Applied, Begins
<1>9. /\ call.at \in {"idle", "done"} /\ spent' \in [faults : Nat, extras : Nat]
      /\ spent'.faults = spent.faults
      /\ offered' \in [display : BOOLEAN, overlay : BOOLEAN, keepalive : BOOLEAN]
      /\ "own" = (IF task'.step = "none" THEN "none" ELSE IF task'.step = "restart" THEN "file" ELSE "own")
      /\ task'.step \in {"config", "layout"} => task.value = task'.value
      /\ task'.step # "none" => task'.value \in DOMAIN verdicts /\ verdicts[task'.value] = "none"
    BY <1>1, <1>2, Parts, TaskIs
<1> QED BY <1>1, <1>2, <1>3, <1>4, <1>6, <1>7, <1>8, <1>9, BeginsKept

\* The layout was written, or refused.
LEMMA LaidOutOr ==
  ASSUME ApplyInvariant, task.step = "layout", call.at = "done", call.ok
  PROVE  LaidOut(task.value, effects)
BY DEF ApplyInvariant, Applied

\* Activate: the readback, or the restart of the playback before it.
LEMMA ActivateKeeps ==
  ASSUME ApplyInvariant, Activate
  PROVE  ApplyInvariant'
<1>1. /\ task.step = "layout" /\ call.at = "done"
      /\ UNCHANGED <<product, far, spent, cancelled, verdicts>>
      /\ offered' = [offered EXCEPT !.overlay = @ /\ ~(Negotiates /\ ~call.ok)]
    BY DEF Activate, Here, Fixed
<1>2. offered' \in [display : BOOLEAN, overlay : BOOLEAN, keepalive : BOOLEAN]
    BY <1>1, TaskIs
<1>3. call.ok \in BOOLEAN /\ (~call.ok) \in BOOLEAN
    BY Parts DEF Calls
<1>4. Told(todo, effects, task, verdicts) /\ Settled(InFlight, todo, call, task)
    BY DEF ApplyInvariant
<1>5. CASE /\ task' = [task EXCEPT !.step = "restart", !.refused = ~call.ok]
           /\ Call("execute", "restart", "file", 0, TRUE)
    <2>1. /\ task' \in Tasks /\ task'.step = "restart" /\ task'.value = task.value
          /\ task'.refused = ~call.ok
        BY <1>3, <1>5, TaskIs DEF Tasks
    <2>2. Wired(0) /\ Begins("execute", "restart", "file", 0)
        <3>1. "restart" \in Whats /\ TRUE \in BOOLEAN
            BY DEF Whats
        <3> QED BY <1>5, <3>1, Parts, CallBegins
    <2>3. Kind[task'.step] = "execute" /\ What[task'.step] = "restart"
        BY <2>1 DEF Kind, What
    <2>4. InFlight' \subseteq InFlight
        BY <2>2 DEF InFlight, Wired, Later
    <2>5. Settled(InFlight', todo, call', task')
        BY <1>1, <1>4, <2>1, <2>4 DEF Settled
    <2>6. Told(todo, effects, task', verdicts)
        BY <1>1, <1>4, <2>1 DEF Told
    <2>7. Applied(InFlight', todo, effects, call', task')
        BY <1>1, <2>1, LaidOutOr DEF Applied
    <2>8. /\ call.at \in {"idle", "done"} /\ spent' \in [faults : Nat, extras : Nat]
          /\ spent'.faults = spent.faults
          /\ "file" = (IF task'.step = "none" THEN "none" ELSE IF task'.step = "restart" THEN "file"
                     ELSE "own")
          /\ task'.step \notin {"config", "layout"}
          /\ task'.step # "none" => task'.value \in DOMAIN verdicts /\ verdicts[task'.value] = "none"
        BY <1>1, <2>1, Parts, TaskIs
    <2> QED BY <1>1, <1>2, <2>1, <2>2, <2>3, <2>5, <2>6, <2>7, <2>8, BeginsKept
<1>6. CASE /\ task' = [task EXCEPT !.step = "readback", !.try = 1, !.refused = ~call.ok]
           /\ Call("execute", "query", "own", 0, 1 < QueryAttempts)
    <2>1. /\ task' \in Tasks /\ task'.step = "readback" /\ task'.value = task.value
          /\ task'.refused = ~call.ok
        BY <1>3, <1>6, TaskIs DEF Tasks
    <2>2. Wired(0) /\ Begins("execute", "query", "own", 0)
        <3>1. "query" \in Whats /\ (1 < QueryAttempts) \in BOOLEAN
            BY DEF Whats
        <3> QED BY <1>6, <3>1, Parts, CallBegins
    <2>3. Kind[task'.step] = "execute" /\ What[task'.step] = "query"
        BY <2>1 DEF Kind, What
    <2>5. Settled(InFlight', todo, call', task')
        BY <2>1 DEF Settled
    <2>6. Told(todo, effects, task', verdicts)
        BY <1>1, <1>4, <2>1 DEF Told
    <2>7. Applied(InFlight', todo, effects, call', task')
        BY <1>1, <2>1, LaidOutOr DEF Applied
    <2>8. /\ call.at \in {"idle", "done"} /\ spent' \in [faults : Nat, extras : Nat]
          /\ spent'.faults = spent.faults
          /\ "own" = (IF task'.step = "none" THEN "none" ELSE IF task'.step = "restart" THEN "file"
                     ELSE "own")
          /\ task'.step \notin {"config", "layout"}
          /\ task'.step # "none" => task'.value \in DOMAIN verdicts /\ verdicts[task'.value] = "none"
        BY <1>1, <2>1, Parts, TaskIs
    <2> QED BY <1>1, <1>2, <2>1, <2>2, <2>3, <2>5, <2>6, <2>7, <2>8, BeginsKept
<1> QED BY <1>5, <1>6 DEF Activate, Ask

\* Restarted: whatever came of the restart.
LEMMA RestartedKeeps ==
  ASSUME ApplyInvariant, Restarted
  PROVE  ApplyInvariant'
<1>1. /\ task.step = "restart" /\ call.at = "done"
      /\ task' = [task EXCEPT !.step = "readback", !.try = 1]
      /\ Call("execute", "query", "own", 0, 1 < QueryAttempts)
      /\ UNCHANGED <<product, far, spent, cancelled, offered, verdicts>>
    BY DEF Restarted, Here, Ask, Fixed
<1>2. task' \in Tasks /\ task'.step = "readback" /\ task'.value = task.value /\ task'.refused = task.refused
    BY <1>1, TaskIs DEF Tasks
<1>3. Wired(0) /\ Begins("execute", "query", "own", 0)
    <2>1. "query" \in Whats /\ (1 < QueryAttempts) \in BOOLEAN
        BY DEF Whats
    <2> QED BY <1>1, <2>1, Parts, CallBegins
<1>4. Kind[task'.step] = "execute" /\ What[task'.step] = "query"
    BY <1>2 DEF Kind, What
<1>6. Settled(InFlight', todo, call', task')
    BY <1>2 DEF Settled
<1>7. Told(todo, effects, task', verdicts)
    BY <1>1, <1>2 DEF ApplyInvariant, Told
<1>8. Applied(InFlight', todo, effects, call', task')
    BY <1>1, <1>2 DEF ApplyInvariant, Applied
<1>9. /\ call.at \in {"idle", "done"} /\ spent' \in [faults : Nat, extras : Nat]
      /\ spent'.faults = spent.faults
      /\ offered' \in [display : BOOLEAN, overlay : BOOLEAN, keepalive : BOOLEAN]
      /\ "own" = (IF task'.step = "none" THEN "none" ELSE IF task'.step = "restart" THEN "file" ELSE "own")
      /\ task'.step \in {"config", "layout"} => 0 = task'.value
      /\ task'.step # "none" => task'.value \in DOMAIN verdicts /\ verdicts[task'.value] = "none"
    BY <1>1, <1>2, Parts, TaskIs
<1> QED BY <1>1, <1>2, <1>3, <1>4, <1>6, <1>7, <1>8, <1>9, BeginsKept

-----------------------------------------------------------------------------
(* The end of an application *)

\* No application runs.
LEMMA NoTaskIs == NoTask \in Tasks /\ NoTask.step = "none"
BY DEF NoTask, Tasks

\* No call runs.
LEMMA NoCallIs == NoCall \in Calls /\ NoCall.at = "idle" /\ NoCall.read = 0
<1>1. 0 \in Nat /\ FALSE \in BOOLEAN /\ Untracked = 0 /\ "none" \in Whats /\ "notSent" \in Outcomes
    BY DEF Untracked, Whats, Outcomes
<1> QED BY <1>1 DEF NoCall, Calls

\* It ends with a verdict that is true of the display.
LEMMA VerdictKept ==
  ASSUME ApplyInvariant, call.at = "done", task.step # "none", NEW verdict \in Verdicts \ {"none"},
         Ends(verdict), Wired(0), UNCHANGED <<product, far, spent>>,
         offered' \in [display : BOOLEAN, overlay : BOOLEAN, keepalive : BOOLEAN],
         verdict \in Clean => Untouched(task.value, todo, effects),
         verdict = "succeeded" => Done(task.value, effects) /\ LaidOut(task.value, effects)
  PROVE  ApplyInvariant'
<1>0. Types /\ Counted(usb, spent) /\ Flowing /\ serial \in Nat /\ Told(todo, effects, task, verdicts)
    BY DEF ApplyInvariant, Types
<1>1. /\ task' = NoTask /\ verdicts' = [verdicts EXCEPT ![task.value] = verdict]
      /\ call' = NoCall /\ cancelled' = FALSE /\ serial' = serial
    BY DEF Ends
<1>2. verdicts' \in [1 .. MaxApplies -> Verdicts]
    BY <1>1, TaskIs
<1>3. Types'
    BY <1>0, <1>1, <1>2, NoTaskIs, NoCallIs DEF Types, Wired, far
<1>4. Counted(usb', spent')
    <2>1. spent'.faults = spent.faults + 0
        BY Parts
    <2> QED BY <1>0, <2>1, CountedKept
<1>5. Flowing'
    <2>1. Top(call, serial) <= Top(call', serial')
        BY <1>0, <1>1, NoCallIs DEF Top
    <2>2. call' \in Calls /\ call'.read = 0 /\ serial' \in Nat
        BY <1>0, <1>1, NoCallIs
    <2>3. UNCHANGED <<product, far>>
        OBVIOUS
    <2> QED BY <1>0, <2>1, <2>2, <2>3, FlowingKept
<1>6. Steps'
    BY <1>1, NoTaskIs, NoCallIs DEF Steps
<1>7. AnswerIsOwn'
    BY <1>1, NoCallIs DEF AnswerIsOwn
<1>8. Settled(InFlight', todo', call', task')
    BY <1>1, NoTaskIs DEF Settled
<1>9. Applied(InFlight', todo', effects', call', task')
    BY <1>1, NoTaskIs DEF Applied
<1>10. todo' = todo /\ effects' = effects
    BY DEF far
<1>11. Told(todo, effects, task', verdicts')
    <2>1. \A i \in DOMAIN verdicts' : i \in DOMAIN verdicts /\
             verdicts'[i] = IF i = task.value THEN verdict ELSE verdicts[i]
        BY <1>1
    <2> QED BY <1>0, <2>1 DEF Told
<1> QED BY <1>3, <1>4, <1>5, <1>6, <1>7, <1>8, <1>9, <1>10, <1>11 DEF ApplyInvariant

\* With its connection closed or open.
LEMMA EndingWires ==
  ASSUME Types, NEW verdict, EndsOpen(verdict) \/ EndsShut(verdict)
  PROVE  Wired(0) /\ Ends(verdict)
<1>1. CASE EndsOpen(verdict)
    BY <1>1, UnchangedWires DEF EndsOpen
<1>2. CASE EndsShut(verdict)
    <2>1. Shut(usb, stream) /\ Ends(verdict)
        BY <1>2 DEF EndsShut
    <2>2. /\ Counts(usb, usb, 0) /\ usb \in Pipes /\ stream \in Seq(Pieces)
          /\ \A b \in Seq(Pieces) : Later(<< >>, << >>, stream, b, usb.queue, stream)
        BY PipeNumbers, LaterWays DEF Types, Whole, Counts
    <2> QED BY <2>1, <2>2, ShutWires
<1> QED BY <1>1, <1>2

\* QueryFails: before the write the display is untouched, after it nothing is known.
LEMMA QueryFailsKeeps ==
  ASSUME ApplyInvariant, QueryFails
  PROVE  ApplyInvariant'
<1> DEFINE verdict == IF task.step = "readback" THEN "partialOrUnknown"
                      ELSE IF cancelled THEN "cancelled" ELSE "notStarted"
<1>1. /\ task.step \in {"preflight", "readback"} /\ call.at = "done"
      /\ EndsOpen(verdict) \/ EndsShut(verdict)
      /\ offered' = [offered EXCEPT !.display =
                       @ /\ ~(Negotiates /\ ~Retries /\ call.outcome = "rejected")]
      /\ UNCHANGED <<product, far, spent>>
    BY DEF QueryFails, Here, Fixed
<1>2. offered' \in [display : BOOLEAN, overlay : BOOLEAN, keepalive : BOOLEAN]
    BY <1>1, TaskIs
<1>3. /\ verdict \in Verdicts \ {"none"} /\ verdict # "succeeded"
      /\ verdict \in Clean => task.step = "preflight"
    BY <1>1 DEF Verdicts, Clean
<1> HIDE DEF verdict
<1>4. Wired(0) /\ Ends(verdict)
    BY <1>1, Parts, EndingWires
<1>5. verdict \in Clean => Untouched(task.value, todo, effects)
    BY <1>3, LookedOnly
<1> QED BY <1>1, <1>2, <1>3, <1>4, <1>5, VerdictKept

\* PreflightRefuses.
LEMMA PreflightRefusesKeeps ==
  ASSUME ApplyInvariant, PreflightRefuses
  PROVE  ApplyInvariant'
<1>1. /\ task.step = "preflight" /\ call.at = "done" /\ EndsOpen("rejected")
      /\ UNCHANGED <<product, far, spent, offered>>
    BY DEF PreflightRefuses, Here, Fixed
<1>2. Wired(0) /\ Ends("rejected")
    BY <1>1, Parts, EndingWires
<1>3. "rejected" \in Verdicts \ {"none"} /\ Untouched(task.value, todo, effects)
    BY <1>1, LookedOnly DEF Verdicts
<1> QED BY <1>1, <1>2, <1>3, TaskIs, VerdictKept

\* ConfigFails: the outcome of the write says whether it may have arrived.
LEMMA ConfigFailsKeeps ==
  ASSUME ApplyInvariant, ConfigFails
  PROVE  ApplyInvariant'
<1> DEFINE verdict == WriteVerdict(call.outcome)
<1>1. /\ task.step = "config" /\ call.at = "done"
      /\ EndsOpen(verdict) \/ EndsShut(verdict)
      /\ offered' = [offered EXCEPT !.display = @ /\ ~(Negotiates /\ call.outcome = "rejected")]
      /\ UNCHANGED <<product, far, spent>>
    BY DEF ConfigFails, Here, Fixed
<1>2. offered' \in [display : BOOLEAN, overlay : BOOLEAN, keepalive : BOOLEAN]
    BY <1>1, TaskIs
<1>3. /\ verdict \in Verdicts \ {"none"} /\ verdict # "succeeded"
      /\ verdict \in Clean => call.outcome \in {"notSent", "cancelled", "rejected"}
    BY DEF Verdicts, Clean, WriteVerdict
<1> HIDE DEF verdict
<1>4. Wired(0) /\ Ends(verdict)
    BY <1>1, Parts, EndingWires
<1>5. verdict \in Clean => Untouched(task.value, todo, effects)
    BY <1>1, <1>3 DEF ApplyInvariant, Applied, Writing
<1> QED BY <1>1, <1>2, <1>3, <1>4, <1>5, VerdictKept

\* ActivationFails.
LEMMA ActivationFailsKeeps ==
  ASSUME ApplyInvariant, ActivationFails
  PROVE  ApplyInvariant'
<1>1. /\ task.step = "layout" /\ call.at = "done" /\ EndsShut("partialOrUnknown")
      /\ UNCHANGED <<product, far, spent, offered>>
    BY DEF ActivationFails, Here, Fixed
<1>2. Wired(0) /\ Ends("partialOrUnknown")
    BY <1>1, Parts, EndingWires
<1>3. "partialOrUnknown" \in Verdicts \ {"none"} /\ "partialOrUnknown" \notin Clean
    BY DEF Verdicts, Clean
<1> QED BY <1>1, <1>2, <1>3, TaskIs, VerdictKept

\* Verify: the display shows what was asked for.
LEMMA VerifyKeeps ==
  ASSUME ApplyInvariant, Verify
  PROVE  ApplyInvariant'
<1>1. /\ task.step = "readback" /\ call.at = "done"
      /\ UNCHANGED <<product, far, spent, offered>>
    BY DEF Verify, Here, Fixed
<1>2. PICK verdict \in {"succeeded", "verificationFailed", "partialOrUnknown"} :
         EndsOpen(verdict) /\ (verdict = "succeeded" => Matches)
    BY DEF Verify
<1>3. Wired(0) /\ Ends(verdict)
    BY <1>2, Parts, EndingWires
<1>4. verdict \in Verdicts \ {"none"} /\ verdict \notin Clean
    BY DEF Verdicts, Clean
<1>5. verdict = "succeeded" => Done(task.value, effects) /\ LaidOut(task.value, effects)
    <2> SUFFICES ASSUME Matches PROVE Done(task.value, effects) /\ LaidOut(task.value, effects)
        BY <1>2
    <2>1. call.read = task.value /\ ~task.refused /\ task.value # 0
        BY <1>1, TaskIs DEF Matches
    <2>2. Done(task.value, effects)
        BY <2>1 DEF ApplyInvariant, Flowing, Done
    <2>3. LaidOut(task.value, effects)
        BY <1>1, <2>1 DEF ApplyInvariant, Applied
    <2> QED BY <2>2, <2>3
<1> QED BY <1>1, <1>3, <1>4, <1>5, TaskIs, VerdictKept

-----------------------------------------------------------------------------
(* Between applications *)

\* Apply: the next application begins with a look, or is refused.
LEMMA ApplyKeeps ==
  ASSUME ApplyInvariant, Apply
  PROVE  ApplyInvariant'
<1>0. /\ task.step = "none" /\ call.at = "idle"
      /\ UNCHANGED <<product, far, spent, cancelled, offered>>
    BY DEF Apply, Fixed
<1>1. PICK i \in DOMAIN verdicts :
       /\ verdicts[i] = "none"
       /\ \/ /\ task' = [NoTask EXCEPT !.step = "preflight", !.try = 1, !.value = i]
             /\ Call("execute", "query", "own", 0, 1 < QueryAttempts) /\ UNCHANGED verdicts
          \/ /\ verdicts' = [verdicts EXCEPT ![i] = "rejected"]
             /\ UNCHANGED <<task, call, serial, wire>>
    BY DEF Apply, Ask
<1>2. Told(todo, effects, task, verdicts) /\ i \in Nat
    BY TaskIs DEF ApplyInvariant
<1>3. CASE /\ task' = [NoTask EXCEPT !.step = "preflight", !.try = 1, !.value = i]
           /\ Call("execute", "query", "own", 0, 1 < QueryAttempts) /\ UNCHANGED verdicts
    <2>1. task' \in Tasks /\ task'.step = "preflight" /\ task'.value = i
        BY <1>2, <1>3, NoTaskIs DEF Tasks
    <2>2. Wired(0) /\ Begins("execute", "query", "own", 0)
        <3>1. "query" \in Whats /\ (1 < QueryAttempts) \in BOOLEAN
            BY DEF Whats
        <3> QED BY <1>3, <3>1, Parts, CallBegins
    <2>3. Kind[task'.step] = "execute" /\ What[task'.step] = "query"
        BY <2>1 DEF Kind, What
    <2>4. call'.at = "done" => ~call'.ok
        BY <2>2 DEF Begins
    <2>5. Settled(InFlight', todo, call', task')
        BY <2>1, <2>4 DEF Settled
    <2>6. Told(todo, effects, task', verdicts)
        BY <1>0, <1>2, <2>1 DEF Told
    <2>7. Applied(InFlight', todo, effects, call', task')
        BY <2>1 DEF Applied
    <2>8. /\ call.at \in {"idle", "done"} /\ spent' \in [faults : Nat, extras : Nat]
          /\ spent'.faults = spent.faults
          /\ offered' \in [display : BOOLEAN, overlay : BOOLEAN, keepalive : BOOLEAN]
          /\ "own" = (IF task'.step = "none" THEN "none" ELSE IF task'.step = "restart" THEN "file"
                     ELSE "own")
          /\ task'.step \notin {"config", "layout"}
          /\ task'.step # "none" => task'.value \in DOMAIN verdicts /\ verdicts[task'.value] = "none"
        BY <1>0, <1>1, <2>1, Parts, TaskIs
    <2>9. UNCHANGED <<product, far, cancelled, verdicts>>
        BY <1>0, <1>3
    <2> QED BY <2>1, <2>2, <2>3, <2>5, <2>6, <2>7, <2>8, <2>9, BeginsKept
<1>4. CASE /\ verdicts' = [verdicts EXCEPT ![i] = "rejected"]
           /\ UNCHANGED <<task, call, serial, wire>>
    <2>1. /\ product' = product /\ todo' = todo /\ device' = device /\ effects' = effects
          /\ spent' = spent /\ cancelled' = cancelled /\ offered' = offered /\ task' = task
          /\ call' = call /\ serial' = serial /\ usb' = usb /\ stream' = stream /\ buffer' = buffer
        BY <1>0, <1>4 DEF far, wire
    <2>2. verdicts' \in [1 .. MaxApplies -> Verdicts]
        BY <1>4, TaskIs DEF Verdicts
    <2>3. Untouched(i, todo, effects)
        BY <1>0, <1>1, <1>2 DEF Told
    <2>4. \A j \in DOMAIN verdicts' : j \in DOMAIN verdicts /\
             verdicts'[j] = IF j = i THEN "rejected" ELSE verdicts[j]
        BY <1>4
    <2>5. Told(todo', effects', task', verdicts')
        BY <1>0, <1>2, <2>1, <2>3, <2>4 DEF Told
    <2>6. Types' /\ Counted(usb', spent') /\ Flowing' /\ AnswerIsOwn'
             /\ Settled(InFlight', todo', call', task') /\ Applied(InFlight', todo', effects', call', task')
        BY <2>1, <2>2 DEF ApplyInvariant, Types, Flowing, AnswerIsOwn, InFlight, HonestRequest
    <2>7. Steps'
        BY <1>0, <2>1 DEF ApplyInvariant, Steps
    <2> QED BY <2>5, <2>6, <2>7 DEF ApplyInvariant
<1> QED BY <1>1, <1>3, <1>4

\* Ping.
LEMMA PingKeeps ==
  ASSUME ApplyInvariant, Ping
  PROVE  ApplyInvariant'
<1>1. /\ task.step = "none" /\ call.at = "idle" /\ spent' = [spent EXCEPT !["extras"] = @ + 1]
      /\ Call("periodic", "ping", "none", 0, FALSE)
      /\ UNCHANGED <<product, far, cancelled, task, offered, verdicts>>
    BY DEF Ping, Spend
<1>2. Wired(0) /\ Begins("periodic", "ping", "none", 0)
    <2>1. "ping" \in Whats /\ FALSE \in BOOLEAN
        BY DEF Whats
    <2> QED BY <1>1, <2>1, Parts, CallBegins
<1>3. task' = task /\ Kind[task'.step] = "periodic" /\ What[task'.step] = "ping"
    BY <1>1 DEF Kind, What
<1>4. Settled(InFlight', todo, call', task')
    BY <1>1, <1>3 DEF Settled
<1>5. Told(todo, effects, task', verdicts)
    BY <1>3 DEF ApplyInvariant
<1>6. Applied(InFlight', todo, effects, call', task')
    BY <1>1, <1>3 DEF Applied
<1>7. spent' \in [faults : Nat, extras : Nat] /\ spent'.faults = spent.faults
    BY <1>1, Parts
<1>8. /\ call.at \in {"idle", "done"} /\ task' \in Tasks
      /\ offered' \in [display : BOOLEAN, overlay : BOOLEAN, keepalive : BOOLEAN]
      /\ "none" = (IF task'.step = "none" THEN "none" ELSE IF task'.step = "restart" THEN "file"
                   ELSE "own")
      /\ task'.step \notin {"config", "layout"} /\ task'.step = "none"
      /\ UNCHANGED <<product, far, cancelled, verdicts>>
    BY <1>1, TaskIs
<1> QED BY <1>2, <1>3, <1>4, <1>5, <1>6, <1>7, <1>8, BeginsKept

\* PingDone.
LEMMA PingDoneKeeps ==
  ASSUME ApplyInvariant, PingDone
  PROVE  ApplyInvariant'
<1>1. /\ task.step = "none" /\ call.at = "done" /\ call' = NoCall
      /\ offered' = [offered EXCEPT !.keepalive =
                       @ /\ ~(Negotiates /\ call.outcome = "rejected")]
      /\ product' = product /\ todo' = todo /\ device' = device /\ effects' = effects
      /\ spent' = spent /\ cancelled' = cancelled /\ task' = task /\ verdicts' = verdicts
      /\ serial' = serial /\ usb' = usb /\ stream' = stream /\ buffer' = buffer
    BY DEF PingDone, Fixed, far, wire
<1>2. offered' \in [display : BOOLEAN, overlay : BOOLEAN, keepalive : BOOLEAN]
    BY <1>1, TaskIs
<1>3. Types'
    BY <1>1, <1>2, NoCallIs DEF ApplyInvariant, Types
<1>4. Flowing'
    <2>1. Top(call', serial') = Top(call, serial)
        BY <1>1, NoCallIs DEF Top
    <2> QED BY <1>1, <2>1, NoCallIs DEF ApplyInvariant, Flowing, HonestRequest
<1>5. Steps' /\ AnswerIsOwn'
    BY <1>1, NoCallIs DEF Steps, AnswerIsOwn
<1>6. Settled(InFlight', todo', call', task') /\ Applied(InFlight', todo', effects', call', task')
    BY <1>1 DEF Settled, Applied
<1>7. Told(todo', effects', task', verdicts') /\ Counted(usb', spent')
    BY <1>1 DEF ApplyInvariant
<1> QED BY <1>3, <1>4, <1>5, <1>6, <1>7 DEF ApplyInvariant

\* Nothing changes but the wish to stop.
LEMMA SameKeeps ==
  ASSUME ApplyInvariant, cancelled' \in BOOLEAN,
         UNCHANGED <<product, wire, call, serial, far, spent, task, offered, verdicts>>
  PROVE  ApplyInvariant'
<1>1. /\ product' = product /\ todo' = todo /\ device' = device /\ effects' = effects
      /\ spent' = spent /\ offered' = offered /\ task' = task /\ verdicts' = verdicts
      /\ call' = call /\ serial' = serial /\ usb' = usb /\ stream' = stream /\ buffer' = buffer
    BY DEF far, wire
<1>2. Types' /\ Counted(usb', spent')
    BY <1>1 DEF ApplyInvariant, Types
<1>3. Flowing'
    BY <1>1 DEF ApplyInvariant, Flowing, HonestRequest
<1>4. Steps' /\ AnswerIsOwn'
    BY <1>1 DEF ApplyInvariant, Steps, AnswerIsOwn
<1>5. /\ Settled(InFlight', todo', call', task') /\ Told(todo', effects', task', verdicts')
      /\ Applied(InFlight', todo', effects', call', task')
    BY <1>1 DEF ApplyInvariant, InFlight
<1> QED BY <1>2, <1>3, <1>4, <1>5 DEF ApplyInvariant

\* Cancel.
LEMMA CancelKeeps ==
  ASSUME ApplyInvariant, Cancel
  PROVE  ApplyInvariant'
BY SameKeeps DEF Cancel, Fixed

-----------------------------------------------------------------------------
(* The theorems *)

\* Nothing was asked yet.
LEMMA InitIs ==
  ASSUME Init
  PROVE  ApplyInvariant
<1>1. /\ product \in {"pase", "turris"} /\ usb = Closed /\ stream = << >> /\ buffer = << >>
      /\ call = NoCall /\ serial = 0 /\ cancelled = FALSE /\ todo = << >> /\ device = 0
      /\ effects = {} /\ spent = [faults |-> 0, extras |-> 0] /\ task = NoTask
      /\ offered \in [display : BOOLEAN, overlay : BOOLEAN, keepalive : {TRUE}]
      /\ verdicts = [i \in 1 .. MaxApplies |-> "none"]
    BY DEF Init, ChannelInit
<1>2. /\ usb \in Pipes /\ usb = ShutPipe(usb) /\ usb.queue = << >> /\ usb.errors = 0 /\ ~usb.latched
    <2>1. 0 \in 0 .. InputRetries /\ << >> \in Seq(Pieces)
        BY InputRetriesAssumption
    <2> QED BY <1>1, <2>1 DEF Closed, ShutPipe, Pipes, Arms
<1>3. Types
    <2>1. << >> \in Seq(Pieces) /\ << >> \in Seq(Requests)
        OBVIOUS
    <2>2. verdicts \in [1 .. MaxApplies -> Verdicts]
        BY <1>1 DEF Verdicts
    <2> QED BY <1>1, <1>2, <2>1, <2>2, NoCallIs, NoTaskIs DEF Types, Whole
<1>4. Counted(usb, spent)
    BY <1>1, <1>2 DEF Counted
<1>5. InFlight = {} /\ Waiting(todo) = {}
    BY <1>1, <1>2 DEF InFlight, Flight, Of, Waiting
<1>6. Flowing
    <2>1. InOrder(buffer, usb.queue, stream) /\ Queued(todo)
        BY <1>1, <1>2 DEF InOrder, Sorted, Ahead, Of, Queued
    <2> QED BY <1>1, <1>5, <2>1, NoCallIs DEF Flowing, Unanswered, InFlight
<1>7. Steps /\ AnswerIsOwn
    BY <1>1, NoCallIs, NoTaskIs DEF Steps, AnswerIsOwn
<1>8. Settled(InFlight, todo, call, task) /\ Applied(InFlight, todo, effects, call, task)
    BY <1>1, NoTaskIs DEF Settled, Applied
<1>9. Told(todo, effects, task, verdicts)
    <2>1. \A i : Untouched(i, todo, effects)
        BY <1>1, <1>5 DEF Untouched, Asked, Done
    <2>2. \A i \in DOMAIN verdicts : verdicts[i] = "none"
        BY <1>1
    <2> QED BY <2>1, <2>2 DEF Told
<1> QED BY <1>3, <1>4, <1>6, <1>7, <1>8, <1>9 DEF ApplyInvariant

\* Every step keeps the invariant.
LEMMA NextKeeps ==
  ASSUME ApplyInvariant, [Next]_vars
  PROVE  ApplyInvariant'
<1>1. CASE HostStep /\ UNCHANGED <<task, offered, verdicts>>
    BY <1>1, DrainFrameKeeps, DrainMoreKeeps, DrainDeadlineKeeps, WriteRequestKeeps, WaitAnswerKeeps,
       DeadlineKeeps, InFlightPingKeeps, OptionalFrameKeeps, OptionalMoreKeeps DEF HostStep
<1>2. CASE (IdleService \/ DeviceHandles \/ DeviceTalks) /\ UNCHANGED <<task, offered, verdicts>>
    BY <1>2, IdleServiceKeeps, DeviceHandlesKeeps, DeviceTalksKeeps
<1>3. CASE TaskStep
    BY <1>3, QueryAgainKeeps, QueryFailsKeeps, PreflightRefusesKeeps, WriteConfigKeeps,
       WriteLayoutKeeps, ConfigFailsKeeps, ActivateKeeps, ActivationFailsKeeps, RestartedKeeps,
       VerifyKeeps, PingDoneKeeps DEF TaskStep
<1>4. CASE Apply \/ Ping \/ Cancel
    BY <1>4, ApplyKeeps, PingKeeps, CancelKeeps
<1>5. CASE UNCHANGED vars
    <2>1. cancelled \in BOOLEAN
        BY DEF ApplyInvariant, Types
    <2> QED BY <1>5, <2>1, SameKeeps DEF vars, channelVars
<1> QED BY <1>1, <1>2, <1>3, <1>4, <1>5 DEF Next, ChannelNext

\* What is in flight stays in the order of the requests, each answer of its request, and
\* each step of an application knows what of it can still touch the display.
THEOREM ApplyInvariance == Spec => []ApplyInvariant
<1>1. Init => ApplyInvariant
    BY InitIs
<1>2. ApplyInvariant /\ [Next]_vars => ApplyInvariant'
    BY NextKeeps
<1> QED BY <1>1, <1>2, PTL DEF Spec

\* Every answer that ends an exchange is the device's answer to that very request, a closed
\* pipe holds nothing, and only failures while an answer was awaited give the input up.
\* (PrinterTransactionChannel::execute over UsbPrinterTransport.)
THEOREM ChannelAlwaysSound == Spec => []ChannelIsSound
<1>1. ApplyInvariant => ChannelIsSound
    <2> SUFFICES ASSUME ApplyInvariant PROVE ChannelIsSound
        OBVIOUS
    <2>1. Types /\ AnswerIsOwn /\ Counted(usb, spent)
        BY DEF ApplyInvariant
    <2>2. PipeTypeOK
        BY <2>1 DEF Types, Whole, Pipes, PipeTypeOK
    <2>3. TypeOK
        BY <2>1, <2>2 DEF TypeOK, Types, Calls, Tasks
    <2>4. LatchIsEarned
        BY <2>1 DEF LatchIsEarned, Counted
    <2> QED BY <2>1, <2>3, <2>4 DEF ChannelIsSound
<1> QED BY <1>1, ApplyInvariance, PTL

\* An application that is reported as not started, cancelled or rejected has not changed the
\* display's configuration, and never will.  (sendUserConfigWithOutcome's MutationOutcome.)
THEOREM CleanAlwaysUntouched == Spec => []CleanIsUntouched
<1>1. ApplyInvariant => CleanIsUntouched
    BY DEF ApplyInvariant, Told, Clean, Untouched, Done, CleanIsUntouched
<1> QED BY <1>1, ApplyInvariance, PTL

\* An application that is reported as succeeded was carried out, its layout included.
\* (applyPaseConfiguration.)
THEOREM SuccessAlwaysApplied == Spec => []SuccessIsApplied
<1>1. ApplyInvariant => SuccessIsApplied
    BY DEF ApplyInvariant, Told, Done, LaidOut, SuccessIsApplied
<1> QED BY <1>1, ApplyInvariance, PTL
=============================================================================
