-------------------------- MODULE FirmwareUpdater --------------------------
(* The updater, on its own thread: external programs run one after another,   *)
(* each step starting when the one before has ended.  A legacy package is     *)
(* pushed over adb and applied by the device's own recovery; a Rockchip       *)
(* bundle is written through the loader, and because the tool that writes     *)
(* cannot be told which device to write to, the identity of the one loader    *)
(* on the bus is confirmed before every write.  From the first command that   *)
(* changes the device the update is irreversible and is not cancelled.        *)
(*                                                                            *)
(* Two timers race the programs.  stepTimer_ ends an update whose program     *)
(* takes too long, but lets a program that may be changing the device run on, *)
(* and lets the search for the loader run on too while loaderPollTimer_ is    *)
(* armed to search again.  Only the end of the update stops that timer: it    *)
(* also goes off when the search has come to its end in the meantime and the  *)
(* writes have begun, kills the write and starts again from the search.       *)
(*                                                                            *)
(* The steps that only ask the device something are one step, Identify.       *)
EXTENDS Naturals, Sequences

CONSTANTS
    None,
    Units,      \* the displays that may be on the bench
    Partitions, \* how many partitions a bundle has
    MaxPolls    \* kLoaderPollMaxAttempts

ASSUME UpdaterAssumption ==
    None \notin Units /\ Units # {} /\ Partitions \in Nat \ {0} /\ MaxPolls \in Nat

VARIABLES
    upd,    \* the updater
    bench,  \* the display on the bench, and what each has been written
    events  \* what the firmware thread has told the bridge, in order

Ota == "LegacyAndroidOta"
Bundle == "RockchipBundle"
Packages == {Ota, Bundle}

Writes == {"WriteStartMarker", "UpgradeLoader", "WriteGpt", "FlashPartition",
           "WriteCompleteMarker", "RebootRockchip"}
Steps == {"Idle", "ExtractRockchipPackage", "Identify", "PushPackage", "VerifyRemote",
          "RebootRecovery", "RebootLoader", "DetectLoader", "ReadChipInfo",
          "ConfirmLoader"} \cup Writes

\* The program of the step has ended, runs with stepTimer_ set, or runs past it.
Runs == {"ended", "timed", "late"}

\* next is rockchipNextAction_, serial the device that adb has shown, loader the
\* identity that writes are confirmed against, parts the partitions to go, polls
\* loaderPollAttempts_ and poll that loaderPollTimer_ is armed, irr
\* irreversibleStarted_, cut that the display was taken away under the running
\* command, back (history) that the poll has sent the update back to the search
\* after it had taken a partition; pkg is the package and attempt the number of
\* the update.
Updaters ==
    [step : Steps, next : Writes \cup {None}, serial : Units \cup {None},
     loader : Units \cup {None}, parts : 0 .. Partitions, run : Runs,
     polls : 0 .. MaxPolls, poll : BOOLEAN, irr : BOOLEAN, cut : BOOLEAN,
     back : BOOLEAN, pkg : Packages \cup {None}, attempt : Nat]

Rest == [step |-> "Idle", next |-> None, serial |-> None, loader |-> None, parts |-> 0,
         run |-> "ended", polls |-> 0, poll |-> FALSE, irr |-> FALSE, cut |-> FALSE,
         back |-> FALSE, pkg |-> None, attempt |-> 0]

\* marker is the flag that the boot loader reads, the rest what has been written
\* since its start marker: then the update had from partitions to go, and had been
\* sent back or not.  unit is the display that is plugged in, and touched the last
\* update that may have changed one.
Markers == {"none", "updating", "complete"}
Displays ==
    [marker : Markers, loader : BOOLEAN, gpt : BOOLEAN, parts : 0 .. Partitions,
     from : 0 .. Partitions, back : BOOLEAN]
Benches == [unit : Units, display : [Units -> Displays], touched : Nat]
Untouched ==
    [marker |-> "none", loader |-> FALSE, gpt |-> FALSE, parts |-> 0,
     from |-> Partitions, back |-> FALSE]

\* An event: a result for the request id, or from the updater.
Event(kind, id, ok, pkg) == [kind |-> kind, id |-> id, ok |-> ok, pkg |-> pkg]
Finished(ok) == Event("finished", 0, ok, None)
IrreversibleStarted == Event("irreversible", 0, TRUE, None)

-----------------------------------------------------------------------------
\* fail() and complete(); irreversibleStarted_ stays until the next start.
Ended(ok) ==
    /\ upd' = [Rest EXCEPT !.irr = upd.irr]
    /\ events' = Append(events, Finished(ok))

Fail == Ended(FALSE) /\ UNCHANGED bench
Complete == Ended(TRUE) /\ UNCHANGED bench

\* startProgramStep
Launched(u, step) == [u EXCEPT !.step = step, !.run = "timed"]

Go(u, step) == upd' = Launched(u, step) /\ UNCHANGED <<bench, events>>

\* startProgramStep for the first command that changes the device: the program
\* runs, and is known to run, before irreversibleStarted is emitted.
GoIrreversible(u, step) ==
    /\ upd' = [Launched(u, step) EXCEPT !.irr = TRUE]
    /\ bench' = [bench EXCEPT !.touched = u.attempt]
    /\ events' = Append(events, IrreversibleStarted)

Begin(u, step) ==
    IF ~u.irr /\ step \in {"RebootRecovery", "WriteStartMarker"}
    THEN GoIrreversible(u, step)
    ELSE Go(u, step)

\* startLegacyAdbOta and startRockchipLoaderUpdate; good says that the package is
\* still the approved one and that the programs it needs are there.
StartUpdate(pkg, attempt, good) ==
    LET u == [Rest EXCEPT !.pkg = pkg, !.attempt = attempt, !.parts = Partitions]
    IN CASE upd.step # "Idle" -> UNCHANGED <<upd, bench, events>>
         [] upd.step = "Idle" /\ good ->
               Go(u, IF pkg = Ota THEN "Identify" ELSE "ExtractRockchipPackage")
         [] OTHER -> upd' = Rest /\ events' = Append(events, Finished(FALSE)) /\ UNCHANGED bench

\* isRockchipCancelLocked and the reboot into recovery
Locked == upd.step = "RebootRecovery" \/ (upd.pkg = Bundle /\ upd.irr)

CancelUpdate ==
    IF upd.step = "Idle" \/ Locked THEN UNCHANGED <<upd, bench, events>> ELSE Fail

\* scheduleLoaderPoll, with the program that has ended or goes on
ScheduleLoaderPoll(run) ==
    IF upd.polls >= MaxPolls THEN Fail
    ELSE upd' = [upd EXCEPT !.run = run, !.poll = TRUE] /\ UNCHANGED <<bench, events>>

Confirm(u, next) == Go([u EXCEPT !.next = next], "ConfirmLoader")

-----------------------------------------------------------------------------
(* A program ends: onProcessFinished, handleStepSuccess                       *)

Extracted == upd.step = "ExtractRockchipPackage" /\ Go(upd, "Identify")

\* adb shows the device; a bundle goes on to reboot it into the loader.
IdentifiedByAdb ==
    /\ upd.step = "Identify"
    /\ LET u == [upd EXCEPT !.serial = bench.unit]
       IN Go(u, IF u.pkg = Ota THEN "PushPackage" ELSE "RebootLoader")

\* adb shows none: a bundle looks for a loader that is there already.
NotSeenByAdb == upd.step = "Identify" /\ upd.pkg = Bundle /\ Go(upd, "DetectLoader")

\* adb is told the serial number.
Reachable == bench.unit = upd.serial

Pushed == upd.step = "PushPackage" /\ Reachable /\ Go(upd, "VerifyRemote")

RemoteVerified == upd.step = "VerifyRemote" /\ Reachable /\ Begin(upd, "RebootRecovery")

RecoveryRebooted == upd.step = "RebootRecovery" /\ Reachable /\ Complete

\* Also when adb reports an error.
LoaderRebooted == upd.step = "RebootLoader" /\ ScheduleLoaderPoll("ended")

\* Also when the tool fails, or ends with this answer after its time.
NoLoaderYet == upd.step = "DetectLoader" /\ ScheduleLoaderPoll("ended")

\* parseRockchipLoaderIdentity: one loader, the one that adb has shown if it did
LoaderFits(identity, required) == required = None \/ identity = required

LoaderDetected ==
    /\ upd.step = "DetectLoader"
    /\ IF LoaderFits(bench.unit, upd.serial)
       THEN Go([upd EXCEPT !.loader = bench.unit], "ReadChipInfo")
       ELSE Fail

ChipConfirmed == upd.step = "ReadChipInfo" /\ Confirm(upd, "WriteStartMarker")

\* sameRockchipIdentity
SameLoader(identity) == identity = upd.loader

LoaderConfirmed ==
    /\ upd.step = "ConfirmLoader"
    /\ IF SameLoader(bench.unit)
       THEN Begin([upd EXCEPT !.next = None, !.cut = FALSE], upd.next)
       ELSE Fail

\* What a write that succeeds leaves on a display.
Written(display, u) ==
    CASE u.step = "WriteStartMarker" ->
            [Untouched EXCEPT !.marker = "updating", !.from = u.parts, !.back = u.back]
      [] u.step = "UpgradeLoader" -> [display EXCEPT !.loader = TRUE]
      [] u.step = "WriteGpt" -> [display EXCEPT !.gpt = TRUE]
      [] u.step = "FlashPartition" -> [display EXCEPT !.parts = @ + 1]
      [] u.step = "WriteCompleteMarker" -> [display EXCEPT !.marker = "complete"]
      [] OTHER -> display

Stored == bench' = [bench EXCEPT !.display[bench.unit] = Written(@, upd)]

\* A write that fails or is killed may have been done.
PerhapsStored == UNCHANGED bench \/ (upd.step \in Writes /\ ~upd.cut /\ Stored)

\* confirmRockchipLoader and startNextRockchipFlashPartition: the write that is
\* confirmed after this one.
Following(u) ==
    CASE u.step = "WriteStartMarker" -> "UpgradeLoader"
      [] u.step = "UpgradeLoader" -> "WriteGpt"
      [] u.step = "WriteCompleteMarker" -> "RebootRockchip"
      [] u.step \in {"WriteGpt", "FlashPartition"} /\ u.parts > 0 -> "FlashPartition"
      [] OTHER -> "WriteCompleteMarker"

WriteDone ==
    /\ upd.step \in Writes /\ ~upd.cut
    /\ Stored
    /\ IF upd.step = "RebootRockchip" THEN Ended(TRUE)
       ELSE LET next == Following(upd)
            IN /\ upd' = [Launched(upd, "ConfirmLoader") EXCEPT
                             !.next = next,
                             !.parts = IF next = "FlashPartition" THEN @ - 1 ELSE @]
               /\ UNCHANGED events

\* A program fails, or shows what is not expected.
StepFails == upd.step \notin {"Idle", "RebootLoader"} /\ Ended(FALSE) /\ PerhapsStored

UpdaterStep ==
    /\ upd.run # "ended"
    /\ \/ Extracted \/ IdentifiedByAdb \/ NotSeenByAdb \/ Pushed \/ RemoteVerified
       \/ RecoveryRebooted \/ LoaderRebooted \/ NoLoaderYet \/ LoaderDetected
       \/ ChipConfirmed \/ LoaderConfirmed \/ WriteDone \/ StepFails

-----------------------------------------------------------------------------
(* The timers, and the bench                                                  *)

\* irreversibleCommandInFlight
MayNotBeStopped(step) == step \in Writes \cup {"RebootRecovery"}

\* onStepTimedOut
StepTimesOut ==
    /\ upd.run = "timed"
    /\ CASE upd.step = "DetectLoader" -> ScheduleLoaderPoll("late")
         [] MayNotBeStopped(upd.step) ->
               upd' = [upd EXCEPT !.run = "late"] /\ UNCHANGED <<bench, events>>
         [] OTHER -> Fail

\* loaderPollTimer_ goes off: whatever runs is killed.
LoaderPolled ==
    /\ upd.poll /\ upd.pkg = Bundle /\ upd.step # "Idle"
    /\ upd' = [Launched(upd, "DetectLoader") EXCEPT
                  !.poll = FALSE, !.polls = @ + 1, !.cut = FALSE,
                  !.back = @ \/ upd.parts < Partitions]
    /\ PerhapsStored
    /\ UNCHANGED events

\* A program that may not be stopped runs past its time; no timer is left.
Overdue == upd.run = "late" /\ MayNotBeStopped(upd.step)

\* Another display takes the place of the one on the bench, during an update: at
\* rest nothing tells displays apart.  A program that is writing has the device
\* open and will fail.
Swap ==
    /\ upd.step # "Idle"
    /\ \E u \in Units \ {bench.unit} : bench' = [bench EXCEPT !.unit = u]
    /\ upd' = [upd EXCEPT !.cut = (@ \/ upd.step \in Writes)]
    /\ UNCHANGED events

=============================================================================
