------------------------------- MODULE UsbPipe -------------------------------
(***************************************************************************)
(* The byte pipe to a printer-class display (usbprintertransport.cpp): one *)
(* claimed interface, one asynchronous OUT transfer while a request is     *)
(* written, and one IN transfer that is armed on request and, on the       *)
(* products that keep it pending, also between requests.                   *)
(*                                                                         *)
(* The device's answers travel as pieces, the header and the payload of a  *)
(* frame, because the device may end an IN transfer between the two; a     *)
(* failing transfer may lose a header.  This module holds what the pipe    *)
(* does with each completion; the transaction channel is built on it.      *)
(***************************************************************************)
EXTENDS Naturals, Sequences

CONSTANT InputRetries  \* completions without data before the pipe gives up

ASSUME InputRetriesAssumption == InputRetries \in Nat \ {0}

VARIABLES
  usb,      \* the host's side: the transport's own fields
  stream    \* pieces the device has queued for the host

(* How the IN transfer is armed: not at all, for an answer, or idly.       *)
Arms == {"parked", "request", "idle"}

Closed == [open |-> FALSE, fatal |-> FALSE, latched |-> FALSE, arm |-> "parked",
           queue |-> << >>, errors |-> 0, empties |-> 0, erred |-> FALSE]

(* Opening claims the interface and starts every counter anew, but for the *)
(* latch of a persistent input failure, which outlives the session.        *)
IsOpen(u) == u.open /\ ~u.fatal

Opened(u) == [Closed EXCEPT !.open = TRUE, !.latched = u.latched]

(* openEndpoint: an open pipe is used as it is; any other is closed first, *)
(* and the caller then forgets the bytes it had of the old stream.         *)
EnsuredOpen(u) == IF IsOpen(u) THEN u ELSE Opened(u)

ShutPipe(u) == [Closed EXCEPT !.latched = u.latched]

(* Cancelling an armed IN transfer may swallow the piece it was receiving. *)
Unread(u) == IF u.arm = "parked" \/ stream = << >> THEN {stream}
             ELSE {stream, Tail(stream)}

(* ensureInputActive: an IN that is pending idly now serves the request.   *)
Armed(u) == [u EXCEPT !.arm = "request"]

CanArm(u) == u.open /\ (u.arm # "parked" \/ ~u.fatal)

(* rearmIdleInput: after an exchange a product that keeps its IN pending   *)
(* leaves it armed, unless the session is failing.                         *)
Rearmed(u, keep) ==
  IF keep /\ u.open /\ ~u.fatal /\ ~u.latched /\ u.empties = 0
    THEN [u EXCEPT !.arm = "idle"] ELSE u

Raised(n) == IF n < InputRetries THEN n + 1 ELSE n

(***************************************************************************)
(* inputTransferCompleted, one operator per kind of completion.  Bytes     *)
(* reset the counters, also when the transfer failed after delivering      *)
(* them; an idle transfer that ends without bytes proves nothing.          *)
(***************************************************************************)
Delivered(u, piece, failed) ==
  [u EXCEPT !.arm = "parked", !.queue = Append(@, piece), !.errors = 0,
            !.empties = 0, !.erred = @ \/ failed]

FailedEmpty(u) ==
  IF u.arm = "idle" THEN [u EXCEPT !.arm = "parked"]
  ELSE [u EXCEPT !.arm = "parked", !.erred = TRUE, !.errors = Raised(@),
                 !.empties = Raised(@),
                 !.latched = @ \/ Raised(u.errors) = InputRetries]

EndedEmpty(u) ==
  IF u.arm = "idle" THEN [u EXCEPT !.arm = "parked"]
  ELSE [u EXCEPT !.arm = "parked", !.errors = 0, !.empties = Raised(@)]

Broken(u) == [u EXCEPT !.arm = "parked", !.fatal = TRUE]

(* Every way an armed IN transfer may end, with what it costs in faults;   *)
(* that the firmware ends an idle one is its normal behaviour.  A header   *)
(* may be lost with a failing transfer: its payload then arrives alone.    *)
Completions(u) ==
  IF u.arm = "parked" THEN {}
  ELSE (IF stream = << >> THEN {}
        ELSE {[usb |-> Delivered(u, Head(stream), failed), stream |-> Tail(stream),
               cost |-> IF failed THEN 1 ELSE 0] : failed \in BOOLEAN}
             \cup (IF Head(stream).part = "head"
                   THEN {[usb |-> FailedEmpty(u), stream |-> Tail(stream), cost |-> 1]}
                   ELSE {}))
       \cup {[usb |-> FailedEmpty(u), stream |-> stream,
              cost |-> IF u.arm = "idle" THEN 0 ELSE 1],
             [usb |-> EndedEmpty(u), stream |-> stream,
              cost |-> IF u.arm = "idle" THEN 0 ELSE 1],
             [usb |-> Broken(u), stream |-> stream, cost |-> 1]}

(* readSome gives up when too many transfers in a row brought nothing.     *)
InputIsSpent(u) == u.arm = "parked" /\ u.empties >= InputRetries

(***************************************************************************)
(* write: nothing is submitted to a pipe that is closed, broken or latched *)
(* or for a caller that is cancelled.  A submitted transfer ends whole, in *)
(* part, with nothing, or unknown when its cancellation does not complete. *)
(***************************************************************************)
MaySubmit(u, cancelled) == u.open /\ ~u.fatal /\ ~u.latched /\ ~cancelled

WriteEnds == {"whole", "part", "none", "unknown"}

AfterWrite(u, how) == [Armed(u) EXCEPT !.fatal = how = "unknown"]

(* What the device has of a request: a transfer reported as partial or     *)
(* unknown may have carried all of it.                                     *)
MayHaveArrived(how) == CASE how = "whole" -> {TRUE}
                         [] how = "none"  -> {FALSE}
                         [] OTHER         -> BOOLEAN

PipeTypeOK ==
  /\ usb.open \in BOOLEAN /\ usb.fatal \in BOOLEAN /\ usb.latched \in BOOLEAN
  /\ usb.arm \in Arms /\ usb.erred \in BOOLEAN
  /\ usb.errors \in 0..InputRetries /\ usb.empties \in 0..InputRetries
  /\ usb.open \/ usb = ShutPipe(usb)
=============================================================================
