----------------------------- MODULE RetryStore -----------------------------
(* How RetryCacheStore keeps the records of RetryRecord through crashes and   *)
(* failed writes.  Three things are on disk and each changes atomically, but  *)
(* only one at a time:                                                        *)
(*   canon  the manifest of this runtime (v11/retry-manifest.json);           *)
(*   root   its shadow, the one record an older runtime reads and obeys;      *)
(*   susp   the directory suspended-v10, where RetryCacheTransitionStore      *)
(*          keeps the shadow of the candidate while its retry owns root.      *)
(* A mutation is a plan, the sequence of its writes.  A crash leaves a prefix *)
(* of it on disk, and load() must find out from the three what to redo, what  *)
(* to undo and what has already happened.  Files are left out: a record       *)
(* stands for its media, and canon lists the lineages of media to delete.     *)
EXTENDS RetrySnapshot, Sequences

VARIABLES
    disk,     \* [canon, root, susp, ahead], see Written for ahead
    live,     \* the store in the process, see Lives
    todo,     \* the writes of the current mutation or recovery still to do
    closing,  \* the transfers whose end the current mutation has a proof of
    uid,      \* the last dispatch id on disk
    open,     \* transfers that may be half done on the device
    again     \* a recovery or a rollback was itself interrupted

vars == <<disk, live, todo, closing, uid, open, again>>

\* validating: load() waits for the files to be hashed before its last writes.
\* failed: writesBlocked_ after an error.  conflict: load() gave up.
Lives == {"down", "loading", "validating", "ready", "failed", "conflict"}

SuspPhases ==
    {"None", "Empty", "Protecting", "Protected", "RetirementRestorePending",
     "AcknowledgedSuccessPending", "Restored", "Superseded"}

Identity(x) == [op |-> x.op, disp |-> x.disp, lin |-> x.lin]

\* No directory, and a directory without its state file.
NoSusp == [phase |-> "None", back |-> None, disp |-> None]
EmptyDir == [NoSusp EXCEPT !.phase = "Empty"]

EmptyCanon == [cand |-> None, infl |-> None, trans |-> None, clean |-> {}]

\* The shadow of a candidate is the candidate itself.  That of a dispatch says
\* what an older runtime has to assume of it; progress is taken as zero, the
\* form that load() itself cannot tell from an armed dispatch.
ArmedShadow(d) == CandidateOf(d, "PartialOrUnknown", TRUE, TRUE)
CommittedShadow(d) == CandidateOf(d, "NotStarted", FALSE, FALSE)
FinalizationShadow(d) == CandidateOf(d, "FinalizationUnknown", TRUE, FALSE)

DispatchShadow(d) ==
    IF d.phase = "LocalCommitPending" THEN CommittedShadow(d) ELSE ArmedShadow(d)

ConservativeShadow(c) ==
    [c EXCEPT !.out = "PartialOrUnknown", !.recov = TRUE, !.fresh = TRUE]

-----------------------------------------------------------------------------
(* The protected transition *)

\* A transition protects the candidate of a retry, or the one record that is
\* about to be retired.
Single(s) == s.back.op = s.disp.op
SharedFiles(s) == s.back.lin = s.disp.lin

Protects(s, c, i) == Identity(s.back) = Identity(c) /\ s.disp = Identity(i)

RootIsDispatch(root, s) ==
    root # None /\ root.op = s.disp.op /\ root.lin = s.disp.lin

IsHardened(root, back) ==
    root # None /\ root = [back EXCEPT
        !.out = IF @ = "FinalizationUnknown" THEN "PartialOrUnknown" ELSE @,
        !.name = root.name, !.recov = FALSE, !.fresh = TRUE]

\* RetryCacheTransitionStore::inspect: what the directory and root say together.
InspectProtected(root, s) ==
    CASE root = None -> "Protected"
      [] root # None /\ root.op = s.back.op ->
             IF root = s.back THEN "Protected" ELSE "Conflict"
      [] OTHER ->
             IF RootIsDispatch(root, s) THEN "CurrentPreserved" ELSE "Conflict"

InspectRestoring(root, s) ==
    CASE root = None -> "Protected"
      [] root = s.back \/ IsHardened(root, s.back) -> "Restored"
      [] OTHER ->
             IF RootIsDispatch(root, s) THEN "CurrentPreserved" ELSE "Conflict"

InspectAcknowledged(root, s) ==
    CASE root = None ->
             IF SharedFiles(s) THEN "Superseded" ELSE "Protected"
      [] root = s.back /\ ~SharedFiles(s) -> "Restored"
      [] OTHER ->
             IF RootIsDispatch(root, s) THEN "CurrentPreserved" ELSE "Conflict"

Inspect(root, s) ==
    CASE s.phase = "None" -> "NoTransition"
      [] s.phase \in {"Empty", "Protecting"} -> "CleanupPending"
      [] s.phase = "Superseded" -> "Superseded"
      [] s.phase = "Restored" -> "Conflict"
      [] s.phase = "Protected" -> InspectProtected(root, s)
      [] s.phase = "RetirementRestorePending" -> InspectRestoring(root, s)
      [] s.phase = "AcknowledgedSuccessPending" -> InspectAcknowledged(root, s)

-----------------------------------------------------------------------------
(* Writes, and the plans that are made of them *)

Canon(c) == <<"canon", c>>
Root(r) == <<"root", r>>
RootAhead(r) == <<"ahead", r>>
Susp(s) == <<"susp", s>>

\* Each write replaces one of the three.  The shadow of an outcome with a text
\* or a progress of its own is ahead of canon until canon is written.
Written(d, w) ==
    CASE w[1] = "canon" -> [d EXCEPT !.canon = w[2], !.ahead = FALSE]
      [] w[1] = "root" -> [d EXCEPT !.root = w[2], !.ahead = FALSE]
      [] w[1] = "ahead" -> [d EXCEPT !.root = w[2], !.ahead = TRUE]
      [] w[1] = "susp" -> [d EXCEPT !.susp = w[2]]

\* protect(): the directory, its state, and the links, then the state again.
Protect(back, x) ==
    LET s == [phase |-> "Protecting", back |-> back, disp |-> Identity(x)]
    IN <<Susp(EmptyDir), Susp(s), Susp([s EXCEPT !.phase = "Protected"])>>

InPhase(s, phase) == <<Susp([s EXCEPT !.phase = phase])>>

\* cleanup(): an obsolete transition says so before its files are removed.
Shut(s) ==
    CASE s.phase = "None" -> <<>>
      [] s.phase = "Empty" -> <<Susp(NoSusp)>>
      [] s.phase = "Superseded" -> <<Susp(EmptyDir), Susp(NoSusp)>>
      [] OTHER -> InPhase(s, "Superseded") \o <<Susp(EmptyDir), Susp(NoSusp)>>

\* The last canonical write of a retirement lists the media to delete, the
\* next one forgets it.
Sweep(s, c) ==
    Shut(s) \o IF c.clean = {} THEN <<>> ELSE <<Canon([c EXCEPT !.clean = {}])>>

Finish(s, c) == <<Canon(c)>> \o Sweep(s, c)

Dropped(x) == [EmptyCanon EXCEPT !.clean = {x.lin}]

\* What is left of a candidate and its dispatch when the dispatch goes.
WithoutDispatch(c) ==
    [c EXCEPT !.infl = None,
              !.clean = IF c.infl.shared THEN {} ELSE {c.infl.lin}]

Only(c, n) ==
    [EmptyCanon EXCEPT !.cand = n,
         !.clean = IF c.cand = None \/ c.infl.shared THEN {} ELSE {c.cand.lin}]

\* armDispatch: the shadow is hardened before the canonical record says armed.
ArmPlan(d) ==
    LET i == d.canon.infl c == d.canon.cand
    IN (IF c = None THEN <<>> ELSE Protect(c, i)) \o
       <<Root(ArmedShadow(i)),
         Canon([d.canon EXCEPT !.infl.phase = "DispatchArmed"])>>

\* recordRetryableOutcome: a candidate n that older runtimes may act upon goes
\* to the shadow first, the look-only one to the canonical record.
OutcomePlan(d, n, shadow) ==
    LET c == Only(d.canon, n)
    IN IF FinalizationOnly(n) THEN <<Canon(c), shadow>> \o Sweep(d.susp, c)
                              ELSE <<shadow>> \o Finish(d.susp, c)

DeferPlan(d) ==
    LET n == CommittedShadow(d.canon.infl) IN OutcomePlan(d, n, Root(n))

\* beginLocalCommit: the canonical record first, so that the shadow becomes
\* permissive only when the upload is known to be complete.
\* Mutant: the shadow first.
LocalCommitPlanShadowFirst(d, i) ==
    <<Root(CommittedShadow(i)),
      Canon([d.canon EXCEPT !.infl = i, !.cand = IF d.canon.infl = None
                                                 THEN None ELSE @])>>

LocalCommitPlan(d, i) ==
    <<Canon([d.canon EXCEPT !.infl = i, !.cand = IF d.canon.infl = None
                                                 THEN None ELSE @]),
      Root(CommittedShadow(i))>>

\* retireSingleRecord: the shadow of the one record x is protected, unlinked,
\* and only then does the canonical record go.
RetireSingle(d, x, shadow) ==
    LET s == [phase |-> "AcknowledgedSuccessPending", back |-> shadow,
              disp |-> Identity(x)]
    IN (IF d.susp = NoSusp THEN Protect(shadow, x) ELSE <<>>) \o
       <<Susp(s), Root(None)>> \o Finish(s, Dropped(x))

TerminalRecord(d) == [d.canon EXCEPT !.infl.phase = "Terminal"]

\* retireDispatch of a dispatch that beside its candidate was not started: the
\* candidate gets its shadow back.  retireProven also resumes it.
RestorePlan(d) ==
    LET s == [d.susp EXCEPT !.phase = "RetirementRestorePending"]
    IN <<Susp(s), Root(d.canon.cand)>> \o Finish(s, WithoutDispatch(d.canon))

NotStartedPlan(d) ==
    LET i == d.canon.infl
    IN <<Canon(TerminalRecord(d))>> \o
       IF d.canon.cand = None THEN RetireSingle(d, i, ArmedShadow(i))
                              ELSE RestorePlan(d)

\* A proven success takes the candidate with it if it was its retry.
\* Mutant: the shadow goes before the transition tells why.
AcknowledgePlanRootFirst(d) ==
    LET i == d.canon.infl
        s == [d.susp EXCEPT !.phase = "AcknowledgedSuccessPending"]
    IN IF i.shared
       THEN <<Root(None), Susp(s)>> \o Finish(s, Dropped(i))
       ELSE <<Root(d.canon.cand), Susp(s)>> \o
            Finish(s, WithoutDispatch(d.canon))

AcknowledgePlan(d) ==
    LET i == d.canon.infl
        s == [d.susp EXCEPT !.phase = "AcknowledgedSuccessPending"]
    IN IF i.shared
       THEN <<Susp(s), Root(None)>> \o Finish(s, Dropped(i))
       ELSE <<Susp(s), Root(d.canon.cand)>> \o
            Finish(s, WithoutDispatch(d.canon))

VerifiedPlan(d) ==
    LET i == d.canon.infl
    IN CASE d.canon.cand # None -> AcknowledgePlan(d)
         [] d.canon.cand = None /\ i.phase = "ShadowMissingFence" ->
                Finish(d.susp, Dropped(i))
         [] OTHER -> RetireSingle(d, i, DispatchShadow(i))

\* commitCandidateTransition: the target is announced, shown, and adopted.
TransitionPlan(d, target) ==
    <<Canon([d.canon EXCEPT !.trans = target]), Root(target),
      Canon([d.canon EXCEPT !.cand = target, !.trans = None])>>

\* resolveShadowMissingFence after a reconnect: the candidate avoids the fenced
\* name, or the fenced dispatch becomes the candidate.
Reconnected(i) == CandidateOf(i, "PartialOrUnknown", FALSE, TRUE)

ReconnectPlan(d) ==
    LET c == d.canon.cand i == d.canon.infl
        h == HardenedCandidate(c, i)
        s == [d.susp EXCEPT !.phase = "RetirementRestorePending"]
    IN IF c = None
       THEN <<Canon([d.canon EXCEPT !.infl.phase = "ReconnectPending"]),
              Root(Reconnected(i)), Canon(Only(d.canon, Reconnected(i)))>>
       ELSE <<Susp(s), Root(h)>> \o
            Finish(s, [WithoutDispatch(d.canon) EXCEPT !.cand = h])

-----------------------------------------------------------------------------
(* load(): what a restarted process makes of the three *)

\* Its verdicts: some writes and another look, some writes and the end of the
\* validation, or the end.
Redo(p) == [live |-> "loading", todo |-> p]
Validate(p) ==
    [live |-> IF p = <<>> THEN "ready" ELSE "validating", todo |-> p]
Loaded == [live |-> "ready", todo |-> <<>>]
Conflict == [live |-> "conflict", todo |-> <<>>]

Demand(condition, verdict) == IF condition THEN verdict ELSE Conflict

\* The retry recorded its outcome; its protected predecessor is obsolete.
OutcomeWasRecorded(d) ==
    LET c == d.canon.cand s == d.susp
    IN /\ c # None /\ d.canon.infl = None
       /\ s.phase \in {"Protected", "Superseded"}
       /\ s.back.op # c.op /\ s.disp = Identity(c)
       /\ d.canon.clean = IF SharedFiles(s) THEN {} ELSE {s.back.lin}

FinishOutcome(d) ==
    LET c == d.canon.cand s == d.susp
    IN Demand(\/ d.root = c
              \/ /\ s.phase = "Protected" /\ FinalizationOnly(c)
                 /\ d.root = ConservativeShadow(c),
              Redo((IF d.root = c THEN <<>> ELSE <<Root(c)>>) \o Shut(s)))

\* Media may be deleted once the transition that led to it is recognised.
MayClean(d) ==
    LET c == d.canon.cand s == d.susp code == Inspect(d.root, s)
    IN \/ s = NoSusp
       \/ /\ c = None /\ d.canon.infl = None /\ d.root = None
          /\ code = "Superseded" /\ SharedFiles(s) /\ s.disp.lin \in d.canon.clean
       \/ /\ c # None /\ d.canon.infl = None /\ d.root = c
          /\ code \in {"Restored", "Superseded"}
          /\ Identity(s.back) = Identity(c)
          /\ s.disp.lin # c.lin /\ s.disp.lin \in d.canon.clean

\* The one record x is being retired, with the transition that says so.
MayRetireSingle(d, x, shadow) ==
    LET s == d.susp
    IN /\ s.phase \in {"Protected", "AcknowledgedSuccessPending"}
       /\ Protects(s, x, x) /\ s.back = shadow
       /\ Inspect(d.root, s) # "Conflict"
       /\ \/ d.root = shadow
          \/ d.root = None /\ s.phase = "AcknowledgedSuccessPending"

ResumeSingle(d) ==
    LET i == d.canon.infl c == d.canon.cand
    IN IF i = None
       THEN Demand(MayRetireSingle(d, c, c), Redo(RetireSingle(d, c, c)))
       ELSE Demand(/\ i.phase \in {"DispatchArmed", "LocalCommitPending",
                                   "Terminal"}
                   /\ MayRetireSingle(d, i, DispatchShadow(i)),
                   Redo(RetireSingle(d, i, DispatchShadow(i))))

\* A retirement beside the candidate, begun before the crash.
RetirementBegun(d) ==
    LET i == d.canon.infl p == d.susp.phase
    IN \/ i.phase = "Terminal"
       \/ /\ i.phase \in {"DispatchArmed", "LocalCommitPending",
                          "ShadowMissingFence"}
          /\ p = "AcknowledgedSuccessPending"
       \/ i.phase = "ShadowMissingFence" /\ p = "RetirementRestorePending"

ResumeRetirement(d) ==
    LET i == d.canon.infl c == d.canon.cand s == d.susp
        fence == i.phase = "ShadowMissingFence"
        mine == s.phase # "Superseded" /\ Protects(s, c, i) /\ s.back = c
    IN CASE i.phase = "Terminal" ->
             Demand(/\ mine /\ d.root \in {ArmedShadow(i), c}
                    /\ s.phase \in {"Protected", "RetirementRestorePending"},
                    Redo(RestorePlan(d)))
         [] s.phase = "AcknowledgedSuccessPending" ->
             Demand(/\ mine
                    /\ d.root \in IF fence THEN {None, c}
                                  ELSE {DispatchShadow(i),
                                        IF i.shared THEN None ELSE c},
                    Redo(AcknowledgePlan(d)))
         [] OTHER ->
             Demand(mine /\ d.root \in {None, HardenedCandidate(c, i)},
                    Redo(ReconnectPlan(d)))

\* A restart defers the local commit that it finds pending.
ResumeLocalCommit(d) ==
    LET i == d.canon.infl
        mine == IF d.canon.cand = None THEN d.susp = NoSusp
                ELSE /\ d.susp.phase = "Protected"
                     /\ Protects(d.susp, d.canon.cand, i)
    IN IF d.root = CommittedShadow(i)
       THEN Demand(mine, Redo(DeferPlan(d)))
       ELSE Demand(/\ mine
                   /\ d.root \in {None, ArmedShadow(i), FinalizationShadow(i)},
                   Redo(<<Root(CommittedShadow(i))>>))

\* The candidate got its shadow back and its dispatch is gone.
FinishRestore(d) ==
    LET c == d.canon.cand s == d.susp
    IN Demand(/\ \/ s.phase = "Superseded"
                 \/ /\ s.phase = "RetirementRestorePending"
                    /\ Inspect(d.root, s) = "Restored"
              /\ Identity(s.back) = Identity(c) /\ d.root = c
              /\ s.disp.op # c.op /\ s.disp.lin = c.lin,
              Redo(Shut(s)))

\* The transition that belongs to this candidate and this dispatch.
ProtectedPair(d) ==
    LET s == d.susp
    IN /\ s.phase = "Protected" /\ s.back = d.canon.cand
       /\ Protects(s, d.canon.cand, d.canon.infl)
       /\ Inspect(d.root, s) \in {"Protected", "CurrentPreserved"}

Fence(d) ==
    LET i == d.canon.infl
    IN Demand(IF d.canon.cand = None THEN d.susp = NoSusp ELSE ProtectedPair(d),
              IF i.phase = "ShadowMissingFence" THEN Loaded
              ELSE Validate(<<Canon([d.canon EXCEPT
                                        !.infl.phase = "ShadowMissingFence"])>>))

\* restore() of the transition store, then the dispatch that never started
\* goes.  A leftover of an earlier rollback is not recognised (8407-8433).
\* Mutant: the dispatch stays.
UndoPreparingKeepsIt(d) ==
    LET s == d.susp
    IN Demand(s = NoSusp \/ ProtectedPair(d), Redo(Shut(s)))

UndoPreparing(d) ==
    LET s == d.susp
        back == IF s = NoSusp THEN <<>>
                ELSE InPhase(s, "Restored") \o Shut([s EXCEPT !.phase = "Restored"])
    IN Demand(s = NoSusp \/ ProtectedPair(d),
              Redo(back \o <<Canon(WithoutDispatch(d.canon))>>))

\* The rest waits for the media to be hashed.  A dispatch that may have been
\* sent becomes a candidate; beside a candidate the coordinator does that,
\* unless the shadow is ahead: then the outcome was about to be recorded.
ValidateCandidate(d) ==
    LET c == d.canon.cand
    IN Demand(\/ d.root = c
              \/ FinalizationOnly(c) /\ d.root = ConservativeShadow(c),
              Validate(IF d.root = c THEN <<>> ELSE <<Root(c)>>))

\* Mutant: the restart counts as the reconnect.
ValidateDispatchAsReconnected(d) ==
    LET i == d.canon.infl
    IN Demand(d.root = ArmedShadow(i),
              Validate(<<Root(Reconnected(i)),
                         Canon(Only(d.canon, Reconnected(i)))>>))

ValidateDispatch(d) ==
    LET i == d.canon.infl
    IN Demand(d.root = ArmedShadow(i),
              Validate(<<Canon(Only(d.canon, ArmedShadow(i)))>>))

ValidateBoth(d) ==
    LET i == d.canon.infl
    IN Demand(d.root = ArmedShadow(i) /\ ProtectedPair(d),
              IF d.ahead
              THEN Redo(<<Canon(Only(d.canon, ArmedShadow(i)))>> \o
                        InPhase(d.susp, "Superseded"))
              ELSE Validate(IF i.phase = "PartialOrUnknown" THEN <<>>
                            ELSE <<Canon([d.canon EXCEPT
                                      !.infl.phase = "PartialOrUnknown"])>>))

\* A single record with a transition is being retired.  What is left of the
\* transition of a retirement that was given up is passed over.
RetiresSingle(d) ==
    \/ d.susp.phase \in {"Protected", "AcknowledgedSuccessPending"}
    \/ Inspect(d.root, d.susp) = "Conflict"

RecoverCandidate(d) ==
    IF d.susp = NoSusp THEN ValidateCandidate(d)
    ELSE IF RetiresSingle(d) THEN ResumeSingle(d) ELSE FinishRestore(d)

RecoverDispatch(d) ==
    LET i == d.canon.infl s == d.susp
    IN CASE i.phase = "ReconnectPending" /\ s = NoSusp ->
             Demand(d.root \in {None, Reconnected(i)}, Redo(ReconnectPlan(d)))
         [] s # NoSusp /\ RetiresSingle(d) -> ResumeSingle(d)
         [] i.phase = "Terminal" /\ s = NoSusp ->
             Demand(d.root = ArmedShadow(i), Redo(RetireSingle(d, i, d.root)))
         [] i.phase = "LocalCommitPending" /\ ~RetiresSingle(d) ->
             ResumeLocalCommit(d)
         [] i.phase = "Preparing" /\ ~RetiresSingle(d) ->
             IF d.root = None THEN Redo(<<Canon(Dropped(i))>>)
                              ELSE ValidateDispatch(d)
         [] i.phase \in {"DispatchArmed", "ShadowMissingFence"}
            /\ ~RetiresSingle(d) ->
             IF d.root = None THEN Fence(d) ELSE ValidateDispatch(d)
         [] OTHER -> Conflict

RecoverBoth(d) ==
    LET i == d.canon.infl s == d.susp
    IN CASE s # NoSusp /\ RetirementBegun(d) -> ResumeRetirement(d)
         [] i.phase = "LocalCommitPending" /\ ~RetirementBegun(d) ->
             ResumeLocalCommit(d)
         [] i.phase = "Preparing" /\ d.root = d.canon.cand -> UndoPreparing(d)
         [] d.root = None /\ i.phase \in {"DispatchArmed", "PartialOrUnknown",
                                         "ShadowMissingFence"}
            /\ ~RetirementBegun(d) -> Fence(d)
         [] d.root # None /\ d.root # d.canon.cand
            /\ i.phase \in {"Preparing", "DispatchArmed", "PartialOrUnknown"}
            /\ ~RetirementBegun(d) -> ValidateBoth(d)
         [] OTHER -> Conflict

RecoverTransition(d) ==
    Demand(d.susp = NoSusp /\ d.root \in {d.canon.cand, d.canon.trans},
           Redo(TransitionPlan(d, d.canon.trans)))

\* load() first undoes a transition that never protected anything and finishes
\* what needs no other record, then it turns to the records.
RecoverRecords(d) ==
    LET c == d.canon.cand i == d.canon.infl
    IN CASE d.canon.trans # None -> RecoverTransition(d)
         [] d.canon.trans = None /\ c # None /\ i = None -> RecoverCandidate(d)
         [] c = None /\ i # None -> RecoverDispatch(d)
         [] c # None /\ i # None -> RecoverBoth(d)
         [] c = None /\ i = None ->
             Demand(d.root = None /\ d.susp = NoSusp, Loaded)

Recovery(d) ==
    IF d.susp.phase \in {"Empty", "Protecting"} THEN Redo(Shut(d.susp))
    ELSE IF OutcomeWasRecorded(d) THEN FinishOutcome(d)
    ELSE IF d.canon.clean # {}
         THEN Demand(MayClean(d),
                     Redo(Shut(d.susp) \o
                          <<Canon([d.canon EXCEPT !.clean = {}])>>))
         ELSE RecoverRecords(d)

-----------------------------------------------------------------------------
(* What the three mean: the snapshot of RetryRecord *)

\* The rollback of a failed protect() is still to come.
GivenUp == live = "failed" /\ todo # <<>>

RetiringSingle ==
    /\ disk.susp.phase \in {"Protected", "AcknowledgedSuccessPending"}
    /\ Single(disk.susp) /\ ~GivenUp

Acknowledged ==
    disk.susp.phase = "AcknowledgedSuccessPending" \/ RetiringSingle

FenceLeft ==
    /\ disk.canon.infl.phase = "ShadowMissingFence"
    /\ disk.susp.phase = "RetirementRestorePending"

AbsCand ==
    LET c == disk.canon.cand i == disk.canon.infl
    IN CASE disk.canon.trans # None -> disk.canon.trans
         [] disk.canon.trans = None /\ i = None ->
             IF c # None /\ RetiringSingle THEN None ELSE c
         [] OTHER ->
             CASE Acknowledged /\ i.shared -> None
               [] i.phase = "ReconnectPending" -> Reconnected(i)
               [] FenceLeft -> HardenedCandidate(c, i)
               [] OTHER -> c

AbsInfl ==
    LET i == disk.canon.infl
    IN IF i = None \/ Acknowledged THEN None
       ELSE IF i.phase \in {"Terminal", "ReconnectPending"} \/ FenceLeft THEN None
       ELSE IF \/ i.phase = "PartialOrUnknown"
               \/ i.phase = "Preparing" /\ disk.root = ArmedShadow(i)
            THEN [i EXCEPT !.phase = "DispatchArmed"]
            ELSE i

AbsSnap ==
    LET named(records) == {x.lin : x \in records \ {None}}
        kept == named({disk.canon.cand, disk.canon.infl, disk.canon.trans})
                \cup disk.canon.clean
    IN [cand |-> AbsCand, infl |-> AbsInfl,
        clean |-> kept \ named({AbsCand, AbsInfl}) # {}]

Record == INSTANCE RetryRecord WITH snap <- AbsSnap

\* The forms that load() and the mutations leave behind.
AtRest(d) ==
    LET c == d.canon.cand i == d.canon.infl
        beside == IF c = None THEN d.susp = NoSusp
                  ELSE d.susp = [phase |-> "Protected", back |-> c,
                                 disp |-> Identity(i)]
    IN /\ d.canon.trans = None /\ d.canon.clean = {}
       /\ CASE i = None -> d.root = c /\ d.susp = NoSusp
            [] i # None /\ i.phase = "Preparing" ->
                   d.root = c /\ d.susp = NoSusp
            [] i # None /\ i.phase \in {"DispatchArmed", "PartialOrUnknown",
                                        "LocalCommitPending"} ->
                   d.root = DispatchShadow(i) /\ beside
            [] i # None /\ i.phase = "ShadowMissingFence" ->
                   d.root = None /\ beside
            [] OTHER -> FALSE

-----------------------------------------------------------------------------
(* The mutations *)

Init ==
    /\ disk = [canon |-> EmptyCanon, root |-> None, susp |-> NoSusp,
               ahead |-> FALSE]
    /\ live = "loading" /\ todo = <<>> /\ closing = {}
    /\ uid = 0 /\ open = {} /\ again = FALSE

Idle == live = "ready" /\ todo = <<>>

Begin(plan, closed) ==
    /\ todo' = plan /\ closing' = closed
    /\ UNCHANGED <<disk, live, uid, open, again>>

\* A mutation checks that the three are as it expects them.
Refuse ==
    /\ Idle /\ ~AtRest(disk)
    /\ live' = "failed"
    /\ UNCHANGED <<disk, todo, closing, uid, open, again>>

InflIn(phases) == disk.canon.infl # None /\ disk.canon.infl.phase \in phases

Prepare(op, dev) ==
    /\ CanPersistPrepared(AbsSnap, op) /\ Record!Quiet(AbsSnap) /\ uid < MaxUid
    /\ Begin(<<Canon(PersistPrepared(disk.canon, op, uid + 1, dev))>>, {})

Retry(op, dev) ==
    /\ disk.canon.cand # None /\ Record!Quiet(AbsSnap) /\ uid < MaxUid
    /\ disk.canon.cand.out # "NotStarted" => dev = disk.canon.cand.dev
    /\ \E name \in {disk.canon.cand.name, uid + 1} :
         /\ CanBeginRetry(AbsSnap, op, name)
         /\ Begin(<<Canon(BeginRetry(disk.canon, op, uid + 1, name, dev))>>, {})

Arm == InflIn({"Preparing"}) /\ Begin(ArmPlan(disk), {})

Transmit ==
    /\ Idle /\ InflIn({"DispatchArmed"})
    /\ open' = open \cup {Record!Transfer(disk.canon.infl)}
    /\ UNCHANGED <<disk, live, todo, closing, uid, again>>

\* The outcome of a dispatch may be one that its shadow does not show yet.
RecordTheOutcome(out) ==
    /\ InflIn({"DispatchArmed"}) /\ out # "NotStarted"
    /\ LET n == CandidateOf(disk.canon.infl, out, TRUE, out = "PartialOrUnknown")
       IN \E shadow \in {Root(n), RootAhead(n)} :
              Begin(OutcomePlan(disk, n, shadow), {})

\* After a restart the coordinator folds a dispatch beside a candidate.
ResolveRecoveredDispatch ==
    /\ InflIn({"PartialOrUnknown"})
    /\ LET n == ArmedShadow(disk.canon.infl)
       IN Begin(OutcomePlan(disk, n, Root(n)), {})

RetireNotStarted ==
    /\ InflIn({"DispatchArmed"})
    /\ Record!Transfer(disk.canon.infl) \notin open
    /\ Begin(NotStartedPlan(disk), {})

RetireVerified ==
    /\ InflIn({"DispatchArmed", "LocalCommitPending", "ShadowMissingFence"})
    /\ Begin(VerifiedPlan(disk), {Record!Transfer(disk.canon.infl)})

StartLocalCommit ==
    /\ CanBeginLocalCommit(AbsSnap) /\ ~InflIn({"PartialOrUnknown"})
    /\ LET i == BeginLocalCommit(disk.canon).infl
       IN Begin(LocalCommitPlan(disk, i), {Record!Transfer(i)})

DeferTheLocalCommit ==
    InflIn({"LocalCommitPending"}) /\ Begin(DeferPlan(disk), {})

OpenOn(dev) == {x \in open : x[1] = dev}

DropCandidate ==
    /\ CanClearCandidate(AbsSnap)
    /\ LET c == disk.canon.cand
       IN Begin(RetireSingle(disk, c, c), OpenOn(c.dev))

ReconnectedCandidate ==
    /\ CanResolveReconnect(AbsSnap)
    /\ Begin(TransitionPlan(disk, ResolveReconnect(disk.canon).cand),
             OpenOn(disk.canon.cand.dev))

NotFinalized ==
    /\ CanResolveFinalization(AbsSnap)
    /\ Begin(TransitionPlan(disk, ResolveFinalization(disk.canon).cand), {})

Remap(op) ==
    /\ CanClearCandidate(AbsSnap) /\ disk.canon.cand.op # op
    /\ Begin(TransitionPlan(disk, RemapCandidate(disk.canon, op).cand), {})

FenceReconnected ==
    /\ InflIn({"ShadowMissingFence"})
    /\ Begin(ReconnectPlan(disk), OpenOn(disk.canon.infl.dev))

-----------------------------------------------------------------------------
(* Writes, failed writes, crashes and restarts *)

\* What a step ends on disk, it ends on the device.
Close == open' = IF AbsSnap' = AbsSnap THEN open ELSE open \ closing

\* A store at rest owes nothing to an interrupted recovery.
Settle(interrupted) ==
    again' = (interrupted /\ ~(live' = "ready" /\ todo' = <<>> /\ AtRest(disk')))

\* A write allocates the id of the dispatch that it names.
Put(w) ==
    /\ disk' = Written(disk, w)
    /\ uid' = IF w[1] = "canon" /\ w[2].infl # None /\ w[2].infl.disp > uid
              THEN w[2].infl.disp ELSE uid

Write ==
    /\ todo # <<>>
    /\ Put(Head(todo)) /\ todo' = Tail(todo)
    /\ live' = IF live = "validating" /\ todo' = <<>> THEN "ready" ELSE live
    /\ Close
    /\ closing' = IF todo' = <<>> THEN {} ELSE closing
    /\ Settle(again)

Interrupted ==
    again \/ (live \in {"loading", "validating", "failed"} /\ todo # <<>>)

\* A write that fails may still have landed.  protect() removes what it began;
\* everything else is left to the next process.
Rollback(w) ==
    IF w[1] = "susp" /\ w[2].phase \in {"Protecting", "Protected"}
       /\ live # "failed"
    THEN Shut(w[2]) ELSE <<>>

Fail ==
    /\ todo # <<>>
    /\ \/ Put(Head(todo))
       \/ UNCHANGED <<disk, uid>>
    /\ live' = "failed" /\ todo' = Rollback(Head(todo))
    /\ Close /\ UNCHANGED closing
    /\ Settle(Interrupted)

Crash ==
    /\ live # "down"
    /\ live' = "down" /\ todo' = <<>> /\ UNCHANGED <<disk, uid>>
    /\ Close /\ closing' = {}
    /\ Settle(Interrupted)

Start ==
    /\ live = "down" /\ live' = "loading"
    /\ UNCHANGED <<disk, todo, closing, uid, open, again>>

Load ==
    /\ live = "loading" /\ todo = <<>>
    /\ live' = Recovery(disk).live /\ todo' = Recovery(disk).todo
    /\ UNCHANGED <<disk, closing, uid, open>>
    /\ Settle(again)

\* An older runtime runs for a while and deletes the shadow of an armed
\* dispatch.  Bound: it finds the store at rest.
Downgraded ==
    /\ live = "down" /\ AtRest(disk) /\ InflIn({"DispatchArmed"})
    /\ disk' = [disk EXCEPT !.root = None]
    /\ UNCHANGED <<live, todo, closing, uid, open, again>>

Mutate ==
    /\ Idle /\ AtRest(disk)
    /\ \/ \E op \in Ops, dev \in Devices : Prepare(op, dev) \/ Retry(op, dev)
       \/ Arm \/ ResolveRecoveredDispatch
       \/ \E out \in Outcomes : RecordTheOutcome(out)
       \/ RetireNotStarted \/ RetireVerified
       \/ StartLocalCommit \/ DeferTheLocalCommit
       \/ DropCandidate \/ ReconnectedCandidate \/ NotFinalized
       \/ \E op \in Ops : Remap(op)
       \/ FenceReconnected

Next ==
    \/ Mutate \/ Refuse \/ Transmit
    \/ Write \/ Fail \/ Crash \/ Start \/ Load \/ Downgraded

\* A process that runs does not stop: load() and the writes it decides on.
Spec == Init /\ [][Next]_vars /\ WF_vars(Load) /\ WF_vars(Write)

-----------------------------------------------------------------------------
(* Properties *)

\* The three, the store and its writes have their types.
TypeOK ==
    LET Record0 == {None} \cup Candidate
        Lineage == SUBSET Uids
    IN /\ disk.canon.cand \in Record0 /\ disk.canon.trans \in Record0
       /\ disk.canon.infl = None \/
          [disk.canon.infl EXCEPT !.phase = "Preparing"] \in Dispatch
       /\ disk.canon.clean \in Lineage
       /\ disk.root \in Record0 /\ disk.ahead \in BOOLEAN
       /\ disk.susp.phase \in SuspPhases
       /\ (disk.susp.back = None) <=> (disk.susp.phase \in {"None", "Empty"})
       /\ live \in Lives /\ uid \in 0 .. MaxUid /\ again \in BOOLEAN
       /\ open \subseteq Devices \X Uids /\ closing \subseteq Devices \X Uids

\* Through crashes, failed writes and their recovery the three on disk mean one
\* snapshot that changes as RetryRecord says: each mutation happens as a whole
\* and once, and a restart only does what a restart may do.
RefinesRecord == Record!Spec

\* load() understands whatever one crash, or one failed write with its
\* rollback, leaves behind: it gives up only where a recovery, or a rollback,
\* was interrupted in its turn.
OneFaultRecovers == live = "conflict" => again

\* When load() is done no mutation meets a state it refuses.
ReadyIsSettled == Idle => again \/ AtRest(disk)

\* Whatever older runtime starts between any two writes, it finds a transfer
\* that may be half done: as a record that demands recovery, or, where the
\* shadow is gone, this runtime still holds it as a dispatch.
ShadowCoversOpen ==
    \A x \in open :
        IF disk.root = None
        THEN InflIn({"DispatchArmed", "ShadowMissingFence"})
        ELSE Record!Transfer(disk.root) = x /\ disk.root.recov

\* Between mutations the three records fit together, and at every moment an older
\* runtime reads one that covers the open transfer.
StoreIsSound == TypeOK /\ ReadyIsSettled /\ ShadowCoversOpen

\* load() never goes round in a circle of writes that lead back to the start.
RecoveryEnds == live = "loading" ~> live # "loading"

=============================================================================
