---------------------------- MODULE SettingsStore ----------------------------
(***************************************************************************)
(* The settings the runtime keeps for all its clients: the saved layouts   *)
(* (savedlayoutstore.cpp) and the presentation preferences                 *)
(* (runtimepresentationpreferencesstore.cpp), each a file replaced as a    *)
(* whole, a copy in memory and a revision that a change must name          *)
(* (devicemanager.cpp).  The layouts' revision is part of their file; the  *)
(* preferences' starts at one in every runtime.                            *)
(*                                                                         *)
(* Neither touches the other, so a behaviour is about one `topic'.  A      *)
(* layout is its scope, name, identity, revision and the client whose      *)
(* draft it holds; validation of a draft's fields is not modelled.         *)
(***************************************************************************)
EXTENDS Integers, FiniteSets

CONSTANTS
    Clients,
    Names,        \* of layouts, as case folding leaves them
    Devices,
    NoDevice,
    Pairs,        \* temperature unit and time format
    Defaults,
    LayoutLimit,  \* per device
    MaxTroubles   \* restarts, changes of device, failures and timeouts together

ASSUME DefaultsAreAPair == Defaults \in Pairs /\ NoDevice \notin Devices

VARIABLES
    topic,
    disk,         \* [rev, val]: the file
    rt,           \* [owner, dev, rev, val, writes]: the runtime, owner 0 when none runs
    owners,       \* runtimes started so far
    named,        \* history: what every revision stood for
    troubles      \* so far

storeVars == <<topic, disk, rt, owners, named, troubles>>

Trouble(happens) ==
    /\ ~happens \/ troubles < MaxTroubles
    /\ troubles' = IF happens THEN troubles + 1 ELSE troubles

Layouts == topic = "layouts"
Entry == [dev : Devices, name : Names, id : Nat, rev : Nat, body : Clients]

\* What a snapshot shows: the layouts of the connected device, or the pair.
Visible(val, dev) == IF Layouts THEN {e \in val : e.dev = dev} ELSE val

\* savedLayoutsSnapshotV2: Ready, Disconnected or Unavailable.
Status(r) ==
    IF ~Layouts THEN "Ready"
    ELSE IF r.dev = NoDevice THEN "Disconnected"
    ELSE IF r.writes THEN "Ready" ELSE "Unavailable"

Snapshot(r) ==
    LET status == Status(r)
    IN [status |-> status, rev |-> r.rev, dev |-> r.dev,
        val |-> IF status = "Ready" THEN Visible(r.val, r.dev) ELSE {}]

\* Revisions of the preferences are compared within one runtime only.
Key(owner) == IF Layouts THEN 0 ELSE owner
Meaning(owner, rev, val) == [key |-> Key(owner), rev |-> rev, val |-> val]

NoRuntime(dev) == [owner |-> 0, dev |-> dev, rev |-> 0, val |-> {}, writes |-> FALSE]

StoreInit ==
    /\ topic \in {"layouts", "preferences"}
    /\ disk = [rev |-> 0, val |-> IF Layouts THEN {} ELSE {Defaults}]
    /\ \E d \in Devices : rt = NoRuntime(d)
    /\ owners = 0 /\ named = {} /\ troubles = 0

(***************************************************************************)
(* load                                                                    *)
(***************************************************************************)
\* How a load may end: the path or the file is unsafe or cannot be read, its contents are
\* malformed, inconsistent or of a later format, or it is accepted.
Faults == {"none", "unsafe", "malformed"}

\* The layouts' file is opened without following links; owner, links and size are checked.
LayoutsOpened(fault) == fault # "unsafe"

\* A refused file gives no layouts and no writes until the next start.
LoadedLayouts(owner, fault) ==
    LET trusted == LayoutsOpened(fault) /\ fault # "malformed"
    IN [owner |-> owner, dev |-> rt.dev, rev |-> IF trusted THEN disk.rev ELSE 0,
        val |-> IF trusted THEN disk.val ELSE {}, writes |-> trusted]

\* The same checks for the preferences' file.
PairOpened(fault) == fault # "unsafe"

LoadedPair(fault) == IF PairOpened(fault) /\ fault # "malformed" THEN disk.val ELSE {Defaults}

\* loadRuntimePresentationPreferences
LoadedPreferences(owner, fault) ==
    [owner |-> owner, dev |-> rt.dev, rev |-> 1, val |-> LoadedPair(fault), writes |-> fault = "none"]

Start(fault) ==
    /\ rt.owner = 0 /\ Trouble(fault # "none")
    /\ owners' = owners + 1
    /\ rt' = IF Layouts THEN LoadedLayouts(owners + 1, fault) ELSE LoadedPreferences(owners + 1, fault)
    /\ named' = IF Layouts /\ fault # "none" THEN named
                ELSE named \cup {Meaning(rt'.owner, rt'.rev, rt'.val)}
    /\ UNCHANGED <<topic, disk>>

Die ==
    /\ rt.owner # 0 /\ Trouble(TRUE)
    /\ rt' = NoRuntime(rt.dev)
    /\ UNCHANGED <<topic, disk, owners, named>>

\* The device goes or another one comes; the session with it is part of the step.
Swap(d) ==
    /\ rt.owner # 0 /\ d # rt.dev /\ Trouble(TRUE)
    /\ rt' = [rt EXCEPT !.dev = d]
    /\ UNCHANGED <<topic, disk, owners, named>>

(***************************************************************************)
(* persist, and how it may end: "ok"; "failed" before the file was         *)
(* replaced; "unsafe", the directory cannot be used; "unknown", the file   *)
(* was replaced but could not be confirmed; "died", the runtime is gone    *)
(* once the file was replaced.                                             *)
(***************************************************************************)
Outcomes == {"ok", "failed", "unsafe", "unknown", "died"}
Replaced == {"ok", "unknown", "died"}

\* ensureDirectory and destinationPathIsSafe refuse the path; nothing is written.
PathRefused(how) == how = "unsafe"

\* The checks of the file and of its directory after the commit fail.
Unconfirmed(how) == how = "unknown"

\* The memory follows the file only when the commit was confirmed; when it was not, or the
\* path is refused, the layouts are closed until the next start.
PersistLayouts(rev, val, how) ==
    /\ disk' = IF how \in Replaced THEN [rev |-> rev, val |-> val] ELSE disk
    /\ rt' = CASE how = "ok" -> [rt EXCEPT !.rev = rev, !.val = val]
               [] how = "died" -> NoRuntime(rt.dev)
               [] OTHER -> [rt EXCEPT !.writes = @ /\ ~PathRefused(how) /\ ~Unconfirmed(how)]
    /\ named' = IF how \in Replaced THEN named \cup {Meaning(rt.owner, rev, val)} ELSE named

\* The preferences stay open whatever happened to their file.
PersistPair(rev, val, how) ==
    /\ disk' = IF how \in Replaced THEN [disk EXCEPT !.val = val] ELSE disk
    /\ rt' = CASE how = "ok" -> [rt EXCEPT !.rev = rev, !.val = val]
               [] how = "died" -> NoRuntime(rt.dev)
               [] OTHER -> rt
    /\ named' = IF how = "ok" THEN named \cup {Meaning(rt.owner, rev, val)} ELSE named

Persist(rev, val, how) ==
    /\ IF Layouts THEN PersistLayouts(rev, val, how) ELSE PersistPair(rev, val, how)
    /\ UNCHANGED <<topic, owners>>

(***************************************************************************)
(* The changes                                                             *)
(***************************************************************************)
WithId(id) == {e \in rt.val : e.id = id}

\* layoutNameKey and the limits of stateIsValid
SameKey(e, l) == e.name = l.name /\ e.dev = l.dev

StateIsValid(rev, val) ==
    /\ \A e \in val : e.rev \in 1 .. rev /\ Cardinality(Visible(val, e.dev)) <= LayoutLimit
    /\ \A e, f \in val : e = f \/ (e.id # f.id /\ e.rev # f.rev /\ ~SameKey(e, f))

\* buildSavedLayoutMediaProof; `known' says that the catalogue of the device has the media.
MediaProof(known) == Status(rt) = "Ready" /\ known

\* Mutant: only the revision of the record is compared
PutVerdictByRecord(call) ==
    LET l == call.layout
    IN IF \E e \in WithId(l.id) : e.rev # l.rev THEN "Conflict"
       ELSE IF \E e \in rt.val \ WithId(l.id) : SameKey(e, l) THEN "NameConflict"
       ELSE "ok"

\* putV2, in its order
PutVerdict(call) ==
    LET l == call.layout
        existing == WithId(l.id)
    IN IF call.rev # rt.rev THEN "Conflict"
       ELSE IF \E e \in existing : e.rev # l.rev THEN "Conflict"
       ELSE IF \E e \in existing : ~SameKey(e, l) THEN "Invalid"
       ELSE IF existing = {} /\ l.rev # 0 THEN "Conflict"
       ELSE IF \E e \in rt.val \ existing : SameKey(e, l) THEN "NameConflict"
       ELSE IF existing = {} /\ Cardinality(Visible(rt.val, l.dev)) >= LayoutLimit THEN "Invalid"
       ELSE "ok"

\* putSavedLayoutInternal
PutGate(call, known) ==
    IF Status(rt) # "Ready" THEN "Unavailable"
    ELSE IF call.layout.dev # rt.dev \/ ~MediaProof(known) THEN "Invalid"
    ELSE PutVerdict(call)

\* A new layout gets an identity of its own, every stored one the new revision.
Stored(l) ==
    LET next == rt.rev + 1
    IN (rt.val \ WithId(l.id)) \cup
       {[l EXCEPT !.rev = next, !.id = IF l.id = 0 THEN next ELSE @]}

\* removeV2
RemoveVerdict(call) ==
    IF call.rev # rt.rev THEN "Conflict"
    ELSE IF ~\E e \in WithId(call.layout.id) : e.dev = rt.dev THEN "Invalid"
    ELSE "ok"

\* deleteSavedLayoutInternal
RemoveGate(call) == IF Status(rt) # "Ready" THEN "Unavailable" ELSE RemoveVerdict(call)

\* setPresentationPreferences: the pair it has already is confirmed whatever the revision.
SetVerdict(call) ==
    IF call.pair = rt.val THEN "same"
    ELSE IF call.rev # rt.rev THEN "Conflict"
    ELSE IF ~rt.writes THEN "Unavailable"
    ELSE "ok"

\* queueSavedLayoutApplyInternal: the layout is the one of this device at that revision.
ApplyVerdict(call, known) ==
    IF /\ MediaProof(known)
       /\ \E e \in WithId(call.layout.id) : e.dev = rt.dev /\ e.rev = call.layout.rev
    THEN "ok" ELSE "Refused"

Verdict(call, known) ==
    CASE call.kind = "put" -> PutGate(call, known)
      [] call.kind = "delete" -> RemoveGate(call)
      [] call.kind = "set" -> SetVerdict(call)
      [] call.kind = "apply" -> ApplyVerdict(call, known)
      [] OTHER -> "same"

Changed(call) ==
    CASE call.kind = "put" -> Stored(call.layout)
      [] call.kind = "delete" -> rt.val \ WithId(call.layout.id)
      [] OTHER -> call.pair
===============================================================================
