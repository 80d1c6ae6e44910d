--------------------------- MODULE ReplaceJournal ---------------------------
(* The records of the replace journal and what the journal accepts.  Names,   *)
(* sizes and fingerprints never change during a replacement: a record keeps   *)
(* its stage, the five safety flags and the disposition.                      *)
EXTENDS Naturals

CONSTANT None

Stages == <<"Preflight", "Preparing", "Uploading", "UploadVerified", "Applying",
            "ApplyVerification", "ReferenceReconciliation", "DeleteIntentLinked",
            "Deleting", "DeleteReconciliation", "Terminal">>

Rank(stage) == CHOOSE n \in DOMAIN Stages : Stages[n] = stage

StageNames == {Stages[n] : n \in DOMAIN Stages}

Dispositions == {"OriginalRetained", "NewCopyReady", "Replaced", "PartialOrUnknown"}

\* upv uploadVerified, ams applyMayHaveStarted, apv applyVerified,
\* dil deleteIntentLinked, frs fileRemoveMayHaveStarted
JournalRecords ==
    [stage : StageNames, upv : BOOLEAN, ams : BOOLEAN, apv : BOOLEAN,
     dil : BOOLEAN, frs : BOOLEAN, disp : Dispositions]

NewRecord ==
    [stage |-> "Preflight", upv |-> FALSE, ams |-> FALSE, apv |-> FALSE,
     dil |-> FALSE, frs |-> FALSE, disp |-> "OriginalRetained"]

-----------------------------------------------------------------------------
(* What a record may claim *)

FlagsConsistent(r) ==
    /\ r.ams => r.upv
    /\ r.apv => r.ams
    /\ r.dil => r.upv /\ r.apv
    /\ r.frs => r.dil

StageMatchesFlags(r) ==
    /\ r.stage = "Terminal" => r.disp # "PartialOrUnknown"
    /\ Rank(r.stage) \in Rank("UploadVerified") .. Rank("DeleteReconciliation")
          => r.upv
    /\ Rank(r.stage) \in Rank("DeleteIntentLinked") .. Rank("DeleteReconciliation")
          => r.dil
    /\ r.frs => Rank(r.stage) >= Rank("Deleting")

DispositionProven(r) ==
    /\ r.disp = "OriginalRetained" => ~r.upv
    /\ r.disp = "NewCopyReady" => r.upv
    /\ r.disp = "Replaced" => r.stage = "Terminal" /\ r.frs /\ r.dil /\ r.apv /\ r.upv

ValidRecord(r) == FlagsConsistent(r) /\ StageMatchesFlags(r) /\ DispositionProven(r)

\* What a later record may say of the same replacement.
ValidTransition(cur, next) ==
    /\ cur.stage = "Terminal" => next = cur
    /\ Rank(next.stage) >= Rank(cur.stage)
    /\ cur.upv => next.upv
    /\ cur.ams => next.ams
    /\ cur.apv => next.apv
    /\ cur.dil => next.dil
    /\ cur.frs => next.frs
    /\ cur.disp = "Replaced" => next.disp = "Replaced"
    /\ cur.disp = "NewCopyReady" => next.disp # "OriginalRetained"

\* write() takes a valid record, over nothing or over one it may follow.
Accepts(cur, next) ==
    ValidRecord(next) /\ (cur = None \/ ValidTransition(cur, next))

\* Whether Apply or FileRemove may have happened without an answer: what
\* loadReplaceJournal() leaves to reconciliation.
OutcomeUnknown(r) == r.frs \/ (r.ams /\ ~r.apv)

=============================================================================
