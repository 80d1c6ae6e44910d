----------------------------- MODULE DisplayApply -----------------------------
(***************************************************************************)
(* Applying a configuration to the display (paseconfigurationclient.cpp):  *)
(* a preflight read, the write of the user configuration, its activation   *)
(* by a layout, on the Turris a restart of the playback, and a readback    *)
(* that must show what was asked for.  Reads may be tried again; a write   *)
(* never is.  Keepalives are sent between applications.                    *)
(***************************************************************************)
EXTENDS TransactionChannel

CONSTANTS MaxApplies, QueryAttempts

ASSUME BoundsAssumption == MaxApplies \in Nat /\ QueryAttempts \in Nat

VARIABLES
  task,      \* the application that runs, and its step
  offered,   \* negotiated_: what this session still offers
  verdicts   \* the verdict each application was reported with

vars == <<channelVars, task, offered, verdicts>>

Negotiates == product = "turris"

NoTask == [step |-> "none", try |-> 0, value |-> 0, refused |-> FALSE]

Ask(try) == Call("execute", "query", "own", 0, try < QueryAttempts)

Ends(verdict) ==
  /\ task' = NoTask
  /\ verdicts' = [verdicts EXCEPT ![task.value] = verdict]
  /\ call' = NoCall /\ cancelled' = FALSE
  /\ UNCHANGED serial

EndsOpen(verdict) == Ends(verdict) /\ UNCHANGED wire
EndsShut(verdict) == Ends(verdict) /\ Shut(usb, stream)

Here(step) == task.step = step /\ call.at = "done"
Fixed == <<product, far, spent>>

(* applyPaseConfiguration: a session that no longer offers the display     *)
(* configuration, or the overlay, refuses at once; else the preflight read *)
(* begins.                                                                 *)
Apply ==
  /\ task.step = "none" /\ call.at = "idle"
  /\ \E i \in DOMAIN verdicts :
       /\ verdicts[i] = "none"
       /\ \A j \in 1..(i - 1) : verdicts[j] # "none"
       /\ IF offered.display /\ offered.overlay
          THEN /\ task' = [NoTask EXCEPT !.step = "preflight", !.try = 1, !.value = i]
               /\ Ask(1) /\ UNCHANGED verdicts
          ELSE /\ verdicts' = [verdicts EXCEPT ![i] = "rejected"]
               /\ UNCHANGED <<task, call, serial, wire>>
  /\ UNCHANGED <<Fixed, cancelled, offered>>

(* executeUserConfigurationQueryWithRetry: only a clean timeout is retried. *)
Retries == call.outcome = "ackTimeout" /\ task.try < QueryAttempts

QueryAgain ==
  /\ Here("preflight") \/ Here("readback")
  /\ ~call.ok /\ Retries /\ ~cancelled
  /\ task' = [task EXCEPT !.try = @ + 1]
  /\ Ask(task.try + 1)
  /\ UNCHANGED <<Fixed, cancelled, offered, verdicts>>

QueryFails ==
  /\ Here("preflight") \/ Here("readback")
  /\ ~call.ok /\ (~Retries \/ cancelled)
  /\ LET verdict == IF task.step = "readback" THEN "partialOrUnknown"
                    ELSE IF cancelled THEN "cancelled" ELSE "notStarted"
     IN IF Retries THEN EndsShut(verdict) ELSE EndsOpen(verdict)
  /\ offered' = [offered EXCEPT !.display =
                   @ /\ ~(Negotiates /\ ~Retries /\ call.outcome = "rejected")]
  /\ UNCHANGED Fixed

(* The preflight shows a configuration: the changed one is written.  The   *)
(* Turris may store it without an acknowledgement, so there a silence      *)
(* keeps the connection.                                                   *)
WriteConfig ==
  /\ Here("preflight") /\ call.ok
  /\ task' = [task EXCEPT !.step = "config"]
  /\ Call("execute", "config", "own", task.value, Negotiates)
  /\ UNCHANGED <<Fixed, cancelled, offered, verdicts>>

(* The configuration that was read may not allow the change.               *)
PreflightRefuses ==
  /\ Here("preflight") /\ call.ok
  /\ EndsOpen("rejected")
  /\ UNCHANGED <<Fixed, offered>>

Accepted == call.ok \/ (Negotiates /\ call.outcome = "ackTimeout")

(* activateAcceptedConfig: the layout is a setter.                         *)
WriteLayout ==
  /\ Here("config") /\ Accepted
  /\ task' = [task EXCEPT !.step = "layout"]
  /\ Call("setter", "layout", "own", task.value, FALSE)
  /\ UNCHANGED <<Fixed, cancelled, offered, verdicts>>

(* sendUserConfigWithOutcome: what a failed write says of the device.      *)
FullySent(outcome) == outcome \in {"unknown", "ackTimeout", "transport", "invalid"}

WriteVerdict(outcome) == CASE outcome = "notSent"   -> "notStarted"
                           [] outcome = "cancelled" -> "cancelled"
                           [] outcome = "rejected"  -> "rejected"
                           [] OTHER                 -> "partialOrUnknown"

ConfigFails ==
  /\ Here("config") /\ ~Accepted
  /\ IF FullySent(call.outcome) THEN EndsShut(WriteVerdict(call.outcome))
     ELSE EndsOpen(WriteVerdict(call.outcome))
  /\ offered' = [offered EXCEPT !.display = @ /\ ~(Negotiates /\ call.outcome = "rejected")]
  /\ UNCHANGED Fixed

(* The layout was written, or refused: the readback follows; when media    *)
(* was set on the Turris, after a restart of the playback, whose outcome   *)
(* does not matter.                                                        *)
Activated == call.ok \/ call.outcome = "rejected"

Activate ==
  /\ Here("layout") /\ Activated
  /\ offered' = [offered EXCEPT !.overlay = @ /\ ~(Negotiates /\ ~call.ok)]
  /\ \/ /\ Negotiates
        /\ task' = [task EXCEPT !.step = "restart", !.refused = ~call.ok]
        /\ Call("execute", "restart", "file", 0, TRUE)
     \/ /\ task' = [task EXCEPT !.step = "readback", !.try = 1, !.refused = ~call.ok]
        /\ Ask(1)
  /\ UNCHANGED <<Fixed, cancelled, verdicts>>

ActivationFails ==
  /\ Here("layout") /\ ~Activated
  /\ EndsShut("partialOrUnknown")
  /\ UNCHANGED <<Fixed, offered>>

Restarted ==
  /\ Here("restart")
  /\ task' = [task EXCEPT !.step = "readback", !.try = 1]
  /\ Ask(1)
  /\ UNCHANGED <<Fixed, cancelled, offered, verdicts>>

(* The readback's verdict; a state that cannot be decoded proves nothing.  *)
\* Mutant: the readback is not compared with what was asked for.
MatchesAnyway == ~task.refused
Matches == call.read = task.value /\ ~task.refused

Verify ==
  /\ Here("readback") /\ call.ok
  /\ \/ EndsOpen(IF Matches THEN "succeeded" ELSE "verificationFailed")
     \/ EndsOpen("partialOrUnknown")
  /\ UNCHANGED <<Fixed, offered>>

(* sendKeepalive between applications; on the Turris a refused one is not  *)
(* sent again.                                                             *)
Ping ==
  /\ task.step = "none" /\ call.at = "idle" /\ offered.keepalive
  /\ Within("extras", 1) /\ Spend("extras", 1)
  /\ Call("periodic", "ping", "none", 0, FALSE)
  /\ UNCHANGED <<product, far, cancelled, task, offered, verdicts>>

PingDone ==
  /\ task.step = "none" /\ call.at = "done"
  /\ call' = NoCall
  /\ offered' = [offered EXCEPT !.keepalive =
                   @ /\ ~(Negotiates /\ call.outcome = "rejected")]
  /\ UNCHANGED <<Fixed, wire, serial, cancelled, task, verdicts>>

(* The state of the device changed: the running application is cancelled.  *)
Cancel ==
  /\ task.step # "none" /\ ~cancelled
  /\ cancelled' = TRUE
  /\ UNCHANGED <<Fixed, wire, call, serial, task, offered, verdicts>>

Init ==
  /\ ChannelInit
  /\ task = NoTask
  /\ offered \in [display : BOOLEAN, overlay : BOOLEAN, keepalive : {TRUE}]
  /\ Negotiates \/ (offered.display /\ offered.overlay)
  /\ verdicts = [i \in 1..MaxApplies |-> "none"]

TaskStep == \/ QueryAgain \/ QueryFails \/ PreflightRefuses \/ WriteConfig \/ WriteLayout \/ ConfigFails
            \/ Activate \/ ActivationFails \/ Restarted \/ Verify \/ PingDone

Next == \/ ChannelNext /\ UNCHANGED <<task, offered, verdicts>>
        \/ TaskStep \/ Apply \/ Ping \/ Cancel

Spec == Init /\ [][Next]_vars

-----------------------------------------------------------------------------
Verdicts == {"none", "notStarted", "cancelled", "rejected", "partialOrUnknown",
             "verificationFailed", "succeeded"}

Outcomes == {"notSent", "cancelled", "partial", "ackTimeout", "transport", "invalid",
             "unknown", "rejected", "acked"}

(* Types, and the shape of the pipe: a closed one holds nothing, and the   *)
(* receive buffer never outlives its connection.                           *)
TypeOK ==
  /\ PipeTypeOK
  /\ call.at \in {"idle", "drain", "write", "wait", "optional", "done"}
  /\ call.outcome \in Outcomes
  /\ usb.open \/ buffer = << >>
  /\ verdicts \in [1..MaxApplies -> Verdicts]
  /\ task.step \in {"none", "preflight", "config", "layout", "restart", "readback"}

(* An answer that ends an exchange, as an acknowledgement or as a refusal, *)
(* is the device's answer to that very request, however many late answers, *)
(* lost headers and reopened connections came before it.  (execute and the *)
(* validator of answers without header.)                                   *)
AnswerIsOwn ==
  call.at = "done" /\ call.kind = "execute" /\ call.outcome \in {"acked", "rejected"}
    => call.of = call.id

(* The latch that gives the USB input up for good is set only by transfers *)
(* that failed while an answer was awaited, never by the ones the firmware *)
(* ends because the link is idle.  (inputTransferCompleted.)               *)
LatchIsEarned == usb.latched => spent.faults >= InputRetries

(* What the channel makes of the stream: each answer is of its request, and *)
(* nothing of an earlier connection or of an idle pipe counts for or        *)
(* against it.  (PrinterTransactionChannel::execute over UsbPrinterTransport.) *)
ChannelIsSound == TypeOK /\ AnswerIsOwn /\ LatchIsEarned

(* An application that is reported as not started, cancelled or rejected   *)
(* has not changed the display's configuration, and never will: only such  *)
(* a one may be repeated without a look at the device.                     *)
(* (sendUserConfigWithOutcome's MutationOutcome.)                          *)
CleanIsUntouched ==
  \A i \in DOMAIN verdicts :
    verdicts[i] \in {"notStarted", "cancelled", "rejected"}
      => <<"config", i>> \notin effects

(* An application that is reported as succeeded was carried out: the       *)
(* display took the configuration and received the layout that activates   *)
(* it.  (applyPaseConfiguration.)                                          *)
SuccessIsApplied ==
  \A i \in DOMAIN verdicts :
    verdicts[i] = "succeeded" => {<<"config", i>>, <<"layout", i>>} \subseteq effects
=============================================================================
