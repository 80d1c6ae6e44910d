--------------------------- MODULE SharedSettings ---------------------------
(***************************************************************************)
(* Several windows and command lines (quick/runtimeclient.cpp) change the  *)
(* settings of one runtime over D-Bus.  A client names the revision it was *)
(* shown; after an answer it cannot use it asks again before it offers     *)
(* anything.  The preferences are announced by a signal, the layouts are   *)
(* not.                                                                    *)
(*                                                                         *)
(* Calls are handled in the order they were made and what comes back is    *)
(* delivered in order; `fresh' says that no later attempt of the client    *)
(* has made the answer unwanted.  The handshake of RuntimeClient is one    *)
(* step here.                                                              *)
(***************************************************************************)
EXTENDS SettingsStore, Sequences

CONSTANTS
    MaxWishes      \* changes, applications and refreshes the users ask for

ASSUME BoundsAreNaturals == MaxWishes \in Nat /\ MaxTroubles \in Nat /\ LayoutLimit \in Nat

VARIABLES
    calls,         \* not handled by the runtime yet
    mail,          \* [Clients -> what is on its way to the client]
    cl,            \* the clients
    applied,       \* history: the layout last accepted for Apply, as seen and as it was
    wishes         \* so far

vars == <<storeVars, calls, mail, cl, applied, wishes>>

Mutations == {"put", "delete", "set"}
NoLayout == [id |-> 0]
NoShown == [status |-> "Unavailable", rev |-> 0, dev |-> NoDevice, val |-> {}]

\* `busy' is savedLayoutsBusy_ or presentationPreferencesBusy_, `pending' a read of the
\* preferences, `later' a refresh the event loop has still to run.
NoClient == [owner |-> 0, dev |-> NoDevice, shown |-> NoShown, last |-> NoShown,
             busy |-> FALSE, pending |-> FALSE, later |-> FALSE]

TypeOK ==
    /\ topic \in {"layouts", "preferences"}
    /\ disk.rev \in Nat /\ owners \in 0 .. MaxTroubles + 1 /\ rt.owner \in {0, owners}
    /\ Layouts => \A e \in rt.val : e \in Entry /\ e.id # 0 /\ e.rev # 0
    /\ ~Layouts /\ rt.owner # 0 => \E p \in Pairs : rt.val = {p}
    /\ \A c \in Clients :
        /\ cl[c].owner \in 0 .. owners /\ cl[c].dev \in Devices \cup {NoDevice}
        /\ cl[c].shown.status = "Ready" => cl[c].shown = cl[c].last \/ ~Layouts
        /\ cl[c].pending => ~Layouts
    /\ wishes \in 0 .. MaxWishes /\ troubles \in 0 .. MaxTroubles

(***************************************************************************)
(* A client's steps work on a bundle of its state and the calls.           *)
(***************************************************************************)
Of(c) == [c |-> cl[c], q |-> calls, m |-> mail[c]]

Commit(c, s) ==
    /\ cl' = [cl EXCEPT ![c] = s.c] /\ calls' = s.q /\ mail' = [mail EXCEPT ![c] = s.m]

\* handshakeContextIsCurrent
Context(c) == cl[c].owner # 0 /\ rt.owner = cl[c].owner

Ready(c) == cl[c].owner # 0 /\ cl[c].shown.status = "Ready"

Outdated(c, kinds, calls_) ==
    [i \in DOMAIN calls_ |->
        IF calls_[i].from = c /\ calls_[i].kind \in kinds
        THEN [calls_[i] EXCEPT !.fresh = FALSE] ELSE calls_[i]]

\* A new attempt of these kinds: the answers of earlier ones are not wanted any more.
Outdate(c, s, kinds) ==
    [s EXCEPT !.q = Outdated(c, kinds, @),
              !.m = [i \in DOMAIN @ |-> IF @[i].kind = "answer" /\ @[i].call.kind \in kinds
                                        THEN [@[i] EXCEPT !.call.fresh = FALSE] ELSE @[i]]]

Blank(c, kind) ==
    [kind |-> kind, from |-> c, to |-> cl[c].owner, fresh |-> TRUE, check |-> FALSE,
     rev |-> cl[c].shown.rev, saw |-> cl[c].shown.val, layout |-> NoLayout, pair |-> {}]

Sent(s, call) == [s EXCEPT !.q = Append(@, call)]

Unavailable(s) == [s EXCEPT !.c.busy = FALSE, !.c.shown = NoShown]

\* clearSavedLayoutsState, clearPresentationPreferencesState
Cleared(c, s) ==
    LET t == Outdate(c, s, Mutations \cup {"read"})
    IN [t EXCEPT !.c.busy = FALSE, !.c.pending = FALSE, !.c.shown = NoShown, !.c.last = NoShown]

\* requestSavedLayouts
RequestLayouts(c, s) ==
    IF s.c.busy \/ s.c.owner = 0 \/ rt.owner # s.c.owner THEN s
    ELSE Sent([Outdate(c, s, {"read", "put", "delete"}) EXCEPT !.c.busy = TRUE],
              [Blank(c, "read") EXCEPT !.to = s.c.owner])

\* requestPresentationPreferences; `check' is its reconciliation.
RequestPair(c, s, check) ==
    IF s.c.owner = 0 \/ rt.owner # s.c.owner
    THEN IF check THEN [s EXCEPT !.c.busy = FALSE] ELSE s
    ELSE IF s.c.pending /\ ~check THEN s
    ELSE Sent([Outdate(c, s, {"read"}) EXCEPT !.c.pending = TRUE],
              [Blank(c, "read") EXCEPT !.to = s.c.owner, !.check = check])

\* savedLayoutsSnapshotIsValid
IsValid(snap) ==
    IF snap.status = "Ready"
    THEN StateIsValid(snap.rev, snap.val) /\ \A e \in snap.val : e.dev = snap.dev
    ELSE snap.val = {}

\* A snapshot of another device, one older than a confirmed one or one that gives its
\* revision another meaning is refused.
Usable(s, snap) ==
    /\ IsValid(snap)
    /\ snap.status = "Ready" =>
        /\ snap.dev = s.c.dev
        /\ s.c.last.status = "Ready" /\ s.c.last.dev = snap.dev =>
            snap.rev > s.c.last.rev \/ (snap.rev = s.c.last.rev /\ snap.val = s.c.last.val)

\* applySavedLayoutsSnapshot
ShowLayouts(s, snap) ==
    IF ~Usable(s, snap) THEN Unavailable(s)
    ELSE [s EXCEPT !.c.shown = snap, !.c.busy = FALSE,
                   !.c.last = IF snap.status = "Ready" THEN snap ELSE @]

\* applyPresentationPreferencesSnapshot
ShowPair(s, snap) ==
    IF s.c.shown.status = "Ready" /\ snap.rev <= s.c.shown.rev THEN s
    ELSE [s EXCEPT !.c.shown = snap]

(***************************************************************************)
(* What the users ask for                                                  *)
(***************************************************************************)
Wish == wishes < MaxWishes /\ wishes' = wishes + 1

\* refreshAll and the refresh of the layouts
Refresh(c) ==
    /\ Wish /\ Context(c) /\ ~cl[c].busy /\ ~cl[c].pending
    /\ Commit(c, IF Layouts THEN RequestLayouts(c, Of(c)) ELSE RequestPair(c, Of(c), FALSE))
    /\ UNCHANGED <<storeVars, applied>>

\* The refresh that a failure or a change of device has posted.
Later(c) ==
    /\ Layouts /\ cl[c].later
    /\ Commit(c, RequestLayouts(c, [Of(c) EXCEPT !.c.later = FALSE]))
    /\ UNCHANGED <<storeVars, applied, wishes>>

Change(c, call) ==
    /\ Wish /\ Ready(c) /\ ~cl[c].busy /\ Context(c)
    /\ Commit(c, Sent([Outdate(c, Of(c), IF Layouts THEN {"read", "put", "delete"} ELSE {"set"})
                       EXCEPT !.c.busy = TRUE], call))
    /\ UNCHANGED <<storeVars, applied>>

\* putSavedLayout: a layout of that name is overwritten, or there is none.
PutLayout(c, n) ==
    LET same == {e \in cl[c].shown.val : e.name = n}
    IN /\ Layouts
       /\ \E l \in IF same = {} THEN {[dev |-> cl[c].shown.dev, name |-> n, id |-> 0, rev |-> 0, body |-> c]}
                   ELSE {[e EXCEPT !.body = c] : e \in same} :
            Change(c, [Blank(c, "put") EXCEPT !.layout = l])

\* deleteSavedLayout
DeleteLayout(c, e) ==
    /\ Layouts /\ Change(c, [Blank(c, "delete") EXCEPT !.layout = e])

\* setPresentationPreferences
SetPair(c, p) ==
    /\ ~Layouts /\ {p} # cl[c].shown.val
    /\ Change(c, [Blank(c, "set") EXCEPT !.pair = {p}])

\* submitSavedLayoutDraft; RuntimeClient has what becomes of the submission.
ApplyLayout(c, e) ==
    /\ Layouts /\ Wish /\ Ready(c) /\ ~cl[c].busy /\ Context(c)
    /\ Commit(c, Sent(Of(c), [Blank(c, "apply") EXCEPT !.layout = e]))
    /\ UNCHANGED <<storeVars, applied>>

(***************************************************************************)
(* Answers and signals                                                     *)
(***************************************************************************)
\* savedLayoutMutationFailureAction
Reconciles == {"Conflict", "NameConflict", "Timeout"}
Keeps == {"Invalid"}

\* Mutant: what was confirmed stays on offer after any error
ChangeFailedKeeping(s, error) ==
    [s EXCEPT !.c.busy = FALSE, !.c.later = @ \/ error = "Timeout"]

ChangeFailed(s, error) ==
    IF error \in Keeps THEN [s EXCEPT !.c.busy = FALSE]
    ELSE [Unavailable(s) EXCEPT !.c.later = @ \/ error \in Reconciles]

\* unchangedSavedLayoutsArePreserved
Preserved(before, after, id) == {e \in before.val : e.id # id} \subseteq after.val

Follows(before, after) ==
    after.status = "Ready" /\ after.dev = before.dev /\ after.rev = before.rev + 1

\* savedLayoutPutReplyIsExact: a new layout is found by its name.
PutIsExact(before, l, after) ==
    LET stored == {e \in after.val : IF l.id = 0 THEN e.name = l.name ELSE e.id = l.id}
    IN /\ Follows(before, after) /\ Preserved(before, after, l.id)
       /\ Cardinality(after.val) = Cardinality(before.val) + IF l.id = 0 THEN 1 ELSE 0
       /\ \E e \in stored : stored = {e} /\ e.rev = after.rev /\ e.name = l.name /\ e.body = l.body

\* savedLayoutDeleteReplyIsExact
DeleteIsExact(before, id, after) ==
    /\ Follows(before, after) /\ Preserved(before, after, id)
    /\ Cardinality(after.val) + 1 = Cardinality(before.val)
    /\ ~\E e \in after.val : e.id = id

IsExact(s, call, snap) ==
    IF call.kind = "put" THEN PutIsExact(s.c.shown, call.layout, snap)
    ELSE DeleteIsExact(s.c.shown, call.layout.id, snap)

\* The answers of putSavedLayout and deleteSavedLayout
LayoutsChanged(s, call, error, snap) ==
    IF error # "" THEN ChangeFailed(s, error)
    ELSE IF ~IsValid(snap) \/ snap.dev # s.c.dev \/ ~IsExact(s, call, snap) THEN Unavailable(s)
    ELSE ShowLayouts(s, snap)

\* The answer of requestSavedLayouts
LayoutsRead(s, error, snap) ==
    IF error # "" THEN Unavailable(s) ELSE ShowLayouts([s EXCEPT !.c.busy = FALSE], snap)

\* The answer of setPresentationPreferences: an error or another pair is read again.
PairSet(c, s, call, error, snap) ==
    IF error # "" \/ snap.val # call.pair THEN RequestPair(c, s, TRUE)
    ELSE ShowPair([s EXCEPT !.c.busy = FALSE], snap)

\* The answer of requestPresentationPreferences
PairRead(s, call, error, snap) ==
    LET t == [s EXCEPT !.c.pending = FALSE, !.c.busy = @ /\ ~call.check]
    IN IF error # "" THEN t ELSE ShowPair(t, snap)

\* What the bus says of a call: its answer, an error of the runtime or a timeout.
Answered(c, s, call, error, snap) ==
    IF ~call.fresh \/ ~Context(c) THEN s
    ELSE CASE call.kind = "set" -> PairSet(c, s, call, error, snap)
           [] call.kind = "read" -> IF Layouts THEN LayoutsRead(s, error, snap) ELSE PairRead(s, call, error, snap)
           [] OTHER -> LayoutsChanged(s, call, error, snap)

\* onPresentationPreferencesChangedV1
PairAnnounced(c, s, g) == IF Context(c) /\ g.owner = s.c.owner THEN ShowPair(s, g.snap) ELSE s

\* The snapshot of the connection covers the changes of the device still on their way.
Covered(m) == [i \in DOMAIN m |-> IF m[i].kind = "device" THEN [kind |-> "covered"] ELSE m[i]]

\* startRuntimeCapabilitiesHandshake and that snapshot before it
Handshake(c, s, owner) ==
    IF rt.owner # owner THEN s
    ELSE LET t == [s EXCEPT !.c.owner = owner, !.c.dev = rt.dev, !.m = Covered(@)]
         IN IF Layouts THEN RequestLayouts(c, t) ELSE RequestPair(c, t, FALSE)

\* applyConnectionSnapshot
DeviceChanged(c, s, dev) ==
    IF ~Context(c) \/ dev = s.c.dev THEN s
    ELSE [Cleared(c, s) EXCEPT !.c.dev = dev, !.c.later = TRUE]

Deliver(c) ==
    /\ mail[c] # <<>>
    /\ LET g == Head(mail[c])
           s == [Of(c) EXCEPT !.m = Tail(@)]
       IN Commit(c,
            CASE g.kind = "answer" -> Answered(c, s, g.call, g.error, g.snap)
              [] g.kind = "lost" -> [Cleared(c, s) EXCEPT !.c.owner = 0, !.c.dev = NoDevice]
              [] g.kind = "owner" -> Handshake(c, s, g.owner)
              [] g.kind = "device" -> IF Layouts THEN DeviceChanged(c, s, g.dev) ELSE s
              [] g.kind = "pair" -> PairAnnounced(c, s, g)
              [] g.kind = "covered" -> s)
    /\ UNCHANGED <<storeVars, applied, wishes>>

\* The call is given up; it may still be handled.
TimesOut(c) ==
    /\ Trouble(TRUE)
    /\ \E i \in DOMAIN calls :
        /\ calls[i].from = c /\ calls[i].fresh /\ calls[i].kind # "apply" /\ Context(c)
        /\ LET s == [Of(c) EXCEPT !.q[i].fresh = FALSE]
           IN Commit(c, Answered(c, s, calls[i], "Timeout", NoShown))
    /\ UNCHANGED <<topic, disk, rt, owners, named, applied, wishes>>

(***************************************************************************)
(* The runtime                                                             *)
(***************************************************************************)
\* presentationPreferencesChanged is emitted before the answer is sent.
Announced(call) == call.kind = "set"

Told(call, error, snap, announced) ==
    [c \in Clients |->
        LET heard == IF announced /\ cl[c].owner = snap.owner
                     THEN Append(mail[c], [kind |-> "pair", owner |-> snap.owner, snap |-> snap.of])
                     ELSE mail[c]
        IN IF c = call.from
           THEN Append(heard, [kind |-> "answer", call |-> call, error |-> error, snap |-> snap.of])
           ELSE heard]

\* A call to a runtime that is gone is answered with an error nobody wants any more.
Handle(known, how) ==
    /\ calls # <<>>
    /\ LET call == Head(calls)
           verdict == IF call.to # rt.owner THEN "gone" ELSE Verdict(call, known)
           change == verdict = "ok" /\ call.kind \in Mutations
           next == rt.rev + 1
       IN /\ known \/ call.kind \in {"put", "apply"}
          /\ how = "ok" \/ change
          /\ IF change THEN Persist(next, Changed(call), how)
             ELSE UNCHANGED <<topic, disk, rt, owners, named>>
          /\ Trouble(~known \/ how # "ok")
          /\ applied' = IF call.kind = "apply" /\ verdict = "ok"
                        THEN [seen |-> call.layout, was |-> CHOOSE e \in WithId(call.layout.id) : TRUE]
                        ELSE applied
          /\ mail' = IF verdict = "gone" \/ call.kind = "apply" THEN mail
                     ELSE IF how = "died" THEN [c \in Clients |-> Append(mail[c], [kind |-> "lost"])]
                     ELSE Told(call,
                               IF verdict \notin {"ok", "same"} THEN verdict
                               ELSE IF how = "unknown" THEN "CommitUnknown"
                               ELSE IF how # "ok" THEN "Unavailable" ELSE "",
                               [owner |-> rt.owner, of |-> Snapshot(rt')],
                               change /\ how = "ok" /\ Announced(call))
    /\ calls' = Tail(calls)
    /\ UNCHANGED <<cl, wishes>>

Post(message) == mail' = [c \in Clients |-> Append(mail[c], message)]

RuntimeStarts ==
    /\ \E fault \in Faults : Start(fault)
    /\ Post([kind |-> "owner", owner |-> owners'])
    /\ UNCHANGED <<calls, cl, applied, wishes>>

RuntimeDies ==
    /\ Die /\ Post([kind |-> "lost"])
    /\ UNCHANGED <<calls, cl, applied, wishes>>

DeviceSwaps ==
    /\ Layouts /\ \E d \in Devices \cup {NoDevice} : Swap(d)
    /\ Post([kind |-> "device", dev |-> rt'.dev])
    /\ UNCHANGED <<calls, cl, applied, wishes>>

ClientStep(c) ==
    \/ Refresh(c) \/ Later(c) \/ Deliver(c) \/ TimesOut(c)
    \/ \E n \in Names : PutLayout(c, n)
    \/ \E e \in cl[c].shown.val : Layouts /\ (DeleteLayout(c, e) \/ ApplyLayout(c, e))
    \/ \E p \in Pairs : SetPair(c, p)

HandleNext == \E known \in BOOLEAN, how \in Outcomes : Handle(known, how)

Next ==
    \/ \E c \in Clients : ClientStep(c)
    \/ HandleNext \/ RuntimeStarts \/ RuntimeDies \/ DeviceSwaps

Init ==
    /\ StoreInit
    /\ calls = <<>> /\ mail = [c \in Clients |-> <<>>] /\ cl = [c \in Clients |-> NoClient]
    /\ applied = [seen |-> NoLayout, was |-> NoLayout]
    /\ wishes = 0

Spec == Init /\ [][Next]_vars

(***************************************************************************)
(* Properties                                                              *)
(***************************************************************************)
\* A change replaces only what its client was shown: nothing another client stored in
\* between is lost, whatever restarted or was repeated.
NothingOverwrittenUnseen ==
    [][disk' # disk => Head(calls).saw = Visible(rt.val, rt.dev)]_vars

\* Layouts the runtime offers are those of the file.
ReadyIsOnDisk ==
    Layouts /\ rt.owner # 0 /\ rt.writes => disk.rev = rt.rev /\ disk.val = rt.val

\* A revision never means two things to a client, and never those of another device.
ShownIsNamed ==
    \A c \in Clients, n \in named :
        Ready(c) /\ n.key = Key(cl[c].owner) /\ n.rev = cl[c].shown.rev =>
            cl[c].shown.val = Visible(n.val, cl[c].dev)

\* While a client offers its layouts for a change, no earlier change it gave up may still
\* be carried out.
NothingIsOnItsWay ==
    \A c \in Clients : Layouts /\ Ready(c) /\ ~cl[c].busy =>
        \A i \in DOMAIN calls : calls[i].from = c /\ calls[i].kind \in Mutations => calls[i].to # cl[c].owner

\* A client that has been told everything shows the pair the runtime uses.
ShownIsCurrent ==
    \A c \in Clients : ~Layouts /\ Ready(c) /\ Context(c) /\ mail[c] = <<>> =>
        cl[c].shown.rev = rt.rev /\ cl[c].shown.val = rt.val

\* A layout is accepted for Apply only as its client saw it.
AppliedAsSeen == applied.seen = applied.was

\* What a client offers its user is what the runtime has and the disk holds, and a change
\* or an application made from it is about that and nothing later.
OfferIsTrue ==
    TypeOK /\ ReadyIsOnDisk /\ ShownIsNamed /\ ShownIsCurrent /\ NothingIsOnItsWay /\ AppliedAsSeen
=============================================================================
