-------------------------- MODULE TransactionChannel --------------------------
(***************************************************************************)
(* One ordered stream of requests to the display and one receive buffer    *)
(* (printertransactionchannel.cpp), over the pipe of UsbPipe.  A call      *)
(*   drains the answers still queued from earlier, optional exchanges,     *)
(*   writes its request in one OUT transfer,                               *)
(*   and, by its kind, waits for the answer with its own track id          *)
(*   ("execute"), or drains at most one answer that need not come          *)
(*   ("setter" with a track id, "periodic" without).                       *)
(* The worker thread runs one call at a time; the device handles requests  *)
(* in their order and answers some of them late, or never.                 *)
(*                                                                         *)
(* Times are left out: a deadline may pass whenever the host waits.        *)
(***************************************************************************)
EXTENDS UsbPipe, FiniteSets, SequencesExt

CONSTANTS MaxFaults,    \* failing USB transfers of a behaviour
          MaxExtras,    \* requests without answer, events and keepalives
          MaxSkipped,   \* kMaxSkippedResponseFrames
          MaxMisses     \* kMaxInFlightKeepaliveWriteRetries less one

VARIABLES
  product,    \* the product family the channel was made for
  buffer,     \* receiveBuffer_
  call,       \* the call that runs
  serial,     \* requests written so far; a tracked one has its own as track id
  cancelled,  \* the operation's context asks to stop
  todo,       \* requests the device has received and not handled
  device,     \* the configuration the device holds
  effects,    \* history: layouts that arrived, configurations carried out
  spent       \* faults and extras so far

wire == <<usb, stream, buffer>>
far == <<todo, device, effects>>
channelVars == <<product, wire, call, serial, cancelled, far, spent>>

Keep == product = "pase"    \* keepBulkInPending

(* The one track id all file-transfer requests of the Turris share.        *)
Untracked == 0
FileTrack == 1
FirstTrack == 2

Answer == [query |-> "configuration", config |-> "ack", layout |-> "ack",
           restart |-> "end", ping |-> "pong"]

NoCall == [at |-> "idle", kind |-> "none", what |-> "none", track |-> Untracked,
           id |-> 0, value |-> 0, preserve |-> FALSE, skipped |-> 0,
           dropped |-> FALSE, misses |-> 0, ok |-> FALSE, outcome |-> "notSent",
           of |-> 0, read |-> 0]

Spend(what, n) == spent' = [spent EXCEPT ![what] = @ + n]
Within(what, n) == spent[what] + n <= IF what = "faults" THEN MaxFaults ELSE MaxExtras

-----------------------------------------------------------------------------
(* The receive buffer. *)

Leading(b) == IF \E i \in DOMAIN b : b[i].part = "head"
              THEN (CHOOSE i \in DOMAIN b : b[i].part = "head" /\
                      \A j \in 1..(i - 1) : b[j].part # "head") - 1
              ELSE Len(b)

(* discardBytesBeforePlausibleFrame: payloads without their header go.     *)
Synced(b) == SubSeq(b, Leading(b) + 1, Len(b))

HasFrame(b) == Len(b) >= 2 /\ b[1].part = "head" /\ b[2].part = "body"

(* Payloads that lost their headers parse as one message, in which the     *)
(* last one's fields win and an error of any of them stays.                *)
Merged(b) == LET f == Last(b).frame
             IN [f EXCEPT !.ok = \A i \in DOMAIN b : b[i].frame.ok]

(* The validator of an answer without frame header: the very track id.     *)
Validated(b, c) == /\ b # << >>
                   /\ Merged(b).track = c.track
                   /\ Merged(b).body = Answer[c.what]

NeedMore(b, dropped) == [status |-> "more", rest |-> b, dropped |-> dropped]
Ready(f, b, dropped) == [status |-> "frame", frame |-> f, rest |-> b, dropped |-> dropped]

TakeFrame(b, dropped) ==
  LET s == Synced(b)
      d == dropped \/ Len(s) < Len(b)
  IN IF HasFrame(s) THEN Ready(s[1].frame, SubSeq(s, 3, Len(s)), d) ELSE NeedMore(s, d)

(* takeBufferedResponse: only after a failing IN transfer since the        *)
(* request may a payload without header be taken for its answer.           *)
TakeBuffered(b, c, eligible) ==
  LET n == Leading(b)
      lone == SubSeq(b, 1, n)
  IN IF ~eligible \/ n = 0 THEN TakeFrame(b, c.dropped)
     ELSE IF n = Len(b) /\ Validated(b, c) THEN Ready(Merged(b), << >>, c.dropped)
     ELSE IF ~HasFrame(Synced(b)) THEN NeedMore(b, c.dropped)
     ELSE IF Validated(lone, c) THEN Ready(Merged(lone), Synced(b), c.dropped)
     ELSE TakeFrame(Synced(b), TRUE)

-----------------------------------------------------------------------------
(* Reading from the pipe. *)

Fetched(u, s, cost) ==
  [ok |-> ~u.fatal, got |-> u.queue, usb |-> Rearmed([u EXCEPT !.queue = << >>], Keep),
   stream |-> s, cost |-> cost]
Failing(u, s, cost) == [ok |-> FALSE, got |-> << >>, usb |-> u, stream |-> s, cost |-> cost]

(* takeAvailable: what is queued, or one bounded probe of the IN.          *)
TakeAvailable(u) ==
  IF u.latched THEN {Failing(u, stream, 0)}
  ELSE IF u.queue # << >> THEN {[Fetched(u, stream, 0) EXCEPT !.ok = TRUE]}
  ELSE IF ~CanArm(u) THEN {Failing(u, stream, 0)}
  ELSE {Fetched(Armed(u), stream, 0)} \cup
       {IF c.usb.latched THEN Failing(c.usb, c.stream, c.cost)
        ELSE Fetched(c.usb, c.stream, c.cost) : c \in Completions(Armed(u))}

(* readSome: waits for bytes until its slice is over; transfers that bring *)
(* none are tried again until too many have ended so.                      *)
ReadSome(u) ==
  IF u.latched \/ (u.queue = << >> /\ (u.fatal \/ InputIsSpent(u) \/ ~CanArm(u)))
  THEN {Failing(u, stream, 0)}
  ELSE IF u.queue # << >> THEN {[Fetched(u, stream, 0) EXCEPT !.ok = TRUE]}
  ELSE {[Fetched(Armed(u), stream, 0) EXCEPT !.ok = TRUE]} \cup
       {IF c.usb.latched \/ c.usb.fatal THEN Failing(c.usb, c.stream, c.cost)
        ELSE IF c.usb.queue # << >> THEN Fetched(c.usb, c.stream, c.cost)
        ELSE [ok |-> TRUE, got |-> << >>, usb |-> c.usb, stream |-> c.stream, cost |-> c.cost]
        : c \in Completions(Armed(u))}

-----------------------------------------------------------------------------
(* The course of a call. *)

Shut(u, s) == /\ usb' = ShutPipe(u)
              /\ stream' \in (IF u.arm = "parked" \/ s = << >> THEN {s} ELSE {s, Tail(s)})
              /\ buffer' = << >>

Returned(c, ok, outcome) ==
  [NoCall EXCEPT !.at = "done", !.kind = c.kind, !.what = c.what, !.id = c.id,
                 !.of = c.of, !.read = c.read, !.ok = ok, !.outcome = outcome]

(* The count of failed transfers matters only while an answer is awaited.  *)
Unmarked(u) == [u EXCEPT !.erred = FALSE]

(* Whether a call ends with the connection closed.                         *)
End(ok, outcome, u, s, shut) ==
  /\ call' = Returned(call, ok, outcome)
  /\ IF shut THEN Shut(u, s) ELSE usb' = Unmarked(u) /\ stream' = s /\ buffer' = buffer

(* The entry of execute, writeTrackedOnly, writeOnly and sendPeriodicFrame: *)
(* a cancelled caller is told so; else the endpoint is opened.  Track ids  *)
(* are allocated one after another, file transfers may share one.          *)
Call(kind, what, track, value, preserve) ==
  LET c == [NoCall EXCEPT !.kind = kind, !.what = what, !.value = value,
                          !.preserve = preserve, !.id = serial + FirstTrack,
                          !.track = IF track = "own" THEN serial + FirstTrack
                                    ELSE IF track = "file" THEN FileTrack ELSE Untracked]
  IN /\ serial' = serial + 1
     /\ IF cancelled
        THEN call' = Returned(c, FALSE, "cancelled") /\ UNCHANGED wire
        ELSE \/ /\ call' = [c EXCEPT !.at = "drain"]
                /\ usb' = EnsuredOpen(usb)
                /\ buffer' = IF IsOpen(usb) THEN buffer ELSE << >>
                /\ stream' \in (IF usb.open /\ usb.fatal THEN Unread(usb) ELSE {stream})
             \/ /\ ~IsOpen(usb)
                /\ call' = Returned(c, FALSE, "notSent")
                /\ Shut(usb, stream)

(* drainKeepaliveResponses before a request: every complete frame is stale. *)
DrainFrame ==
  /\ call.at = "drain"
  /\ LET t == TakeFrame(buffer, FALSE)
     IN t.status = "frame" /\ buffer' = t.rest
  /\ UNCHANGED <<product, usb, stream, call, serial, cancelled, far, spent>>

DrainMore ==
  /\ call.at = "drain"
  /\ TakeFrame(buffer, FALSE).status = "more"
  /\ IF cancelled
     THEN End(FALSE, "notSent", usb, stream, TRUE) /\ UNCHANGED spent
     ELSE \E a \in TakeAvailable(usb) :
            /\ Within("faults", a.cost) /\ Spend("faults", a.cost)
            /\ IF ~a.ok THEN End(FALSE, "notSent", a.usb, a.stream, TRUE)
               ELSE /\ usb' = Unmarked(a.usb)
                    /\ stream' = a.stream
                    /\ buffer' = Synced(buffer) \o a.got
                    /\ call' = [call EXCEPT !.at = IF a.got = << >> THEN "write" ELSE @]
  /\ UNCHANGED <<product, serial, cancelled, far>>

(* The drain's own deadline forgets what the buffer still holds.           *)
DrainDeadline ==
  /\ call.at = "drain" /\ buffer # << >>
  /\ buffer' = << >> /\ call' = [call EXCEPT !.at = "write"]
  /\ UNCHANGED <<product, usb, stream, serial, cancelled, far, spent>>

(* writeAll and what each caller makes of its failure.                     *)
\* Mutant: a transfer whose end is not known counts as not sent.
UnsentOutcomeHopeful(how) == CASE how = "part" -> "partial"
                               [] OTHER -> IF cancelled THEN "cancelled" ELSE "notSent"
UnsentOutcome(how) == CASE how = "unknown" -> "unknown"
                        [] how = "part"    -> "partial"
                        [] OTHER           -> IF cancelled THEN "cancelled" ELSE "notSent"

Request(c) == [what |-> c.what, track |-> c.track, id |-> c.id, value |-> c.value]

Arrives(r, how) ==
  \E whole \in MayHaveArrived(how) :
     /\ todo' = IF whole THEN Append(todo, r) ELSE todo
     /\ effects' = IF whole /\ r.what = "layout" THEN effects \cup {<<"layout", r.value>>}
                   ELSE effects
     /\ UNCHANGED device

WriteRequest ==
  /\ call.at = "write"
  /\ IF ~MaySubmit(usb, cancelled)
     THEN /\ End(FALSE, UnsentOutcome("none"), usb, stream, TRUE)
          /\ UNCHANGED <<far, spent>>
     ELSE \E how \in WriteEnds :
            /\ Within("faults", IF how = "whole" THEN 0 ELSE 1)
            /\ Spend("faults", IF how = "whole" THEN 0 ELSE 1)
            /\ Arrives(Request(call), how)
            /\ IF how = "whole"
               THEN /\ call' = [call EXCEPT !.at = IF call.kind = "execute" THEN "wait"
                                                   ELSE "optional",
                                            !.outcome = "unknown"]
                    /\ usb' = [AfterWrite(usb, how) EXCEPT !.erred = FALSE]
                    /\ UNCHANGED <<stream, buffer>>
               ELSE End(FALSE, UnsentOutcome(how), AfterWrite(usb, how), stream, TRUE)
  /\ UNCHANGED <<product, serial, cancelled>>

(* The answer loop of execute.  A frame of another track id is skipped; a  *)
(* refusal keeps the connection; anything that does not fit closes it.     *)
\* Mutant: the track id of an answer is not compared.
SkipsOnlyEvents(c, f) == f.body = "event" \/ (f.body = "pong" /\ Answer[c.what] # "pong")
Skips(c, f) == f.body = "event" \/ (f.body = "pong" /\ Answer[c.what] # "pong")
               \/ f.track # c.track

Receive(f, rest, dropped) ==
  LET c == [call EXCEPT !.of = f.of, !.read = f.value]
  IN IF Skips(call, f)
     THEN IF call.skipped < MaxSkipped
          THEN /\ call' = [call EXCEPT !.skipped = @ + 1, !.dropped = FALSE, !.misses = 0]
               /\ buffer' = rest /\ UNCHANGED <<usb, stream>>
          ELSE End(FALSE, "invalid", usb, stream, TRUE)
     ELSE IF ~f.ok
     THEN /\ call' = Returned(c, FALSE, "rejected")
          /\ buffer' = rest /\ usb' = Unmarked(usb) /\ UNCHANGED stream
     ELSE IF f.body # Answer[call.what]
     THEN End(FALSE, "invalid", usb, stream, TRUE)
     ELSE /\ call' = Returned(c, TRUE, "acked")
          /\ buffer' = rest /\ usb' = Unmarked(usb) /\ UNCHANGED stream

WaitAnswer ==
  /\ call.at = "wait"
  /\ IF cancelled
     THEN End(FALSE, "unknown", usb, stream, TRUE) /\ UNCHANGED spent
     ELSE LET t == TakeBuffered(buffer, call, usb.erred)
          IN IF t.status = "frame"
             THEN Receive(t.frame, t.rest, t.dropped) /\ UNCHANGED spent
             ELSE \E a \in ReadSome(usb) :
                    /\ Within("faults", a.cost) /\ Spend("faults", a.cost)
                    /\ IF ~a.ok THEN End(FALSE, "transport", a.usb, a.stream, TRUE)
                       ELSE /\ usb' = a.usb /\ stream' = a.stream
                            /\ buffer' = t.rest \o a.got
                            /\ call' = [call EXCEPT !.dropped = t.dropped]
  /\ UNCHANGED <<product, serial, cancelled, far>>

(* The deadline while a frame is awaited: clean only with nothing buffered *)
(* and nothing dropped since the last one.  Between two frames it is seen  *)
(* before the buffer is looked at.                                         *)
Deadline ==
  /\ call.at = "wait" /\ ~cancelled
  /\ LET t == TakeBuffered(buffer, call, usb.erred)
         clean == t.rest = << >> /\ ~t.dropped
     IN \/ /\ t.status = "more"
           /\ IF clean THEN End(FALSE, "ackTimeout", usb, stream, ~call.preserve)
              ELSE End(FALSE, "invalid", usb, stream, TRUE)
        \/ /\ call.skipped > 0 /\ ~call.dropped
           /\ End(FALSE, "ackTimeout", usb, stream, ~call.preserve)
  /\ UNCHANGED <<product, serial, cancelled, far, spent>>

(* A keepalive that falls due while an answer is awaited.  Writes that     *)
(* moved nothing are tried again a few times; any other failure ends the   *)
(* call.                                                                   *)
InFlightPing ==
  /\ call.at = "wait" /\ ~cancelled /\ Keep
  /\ TakeBuffered(buffer, call, usb.erred).status = "more"
  /\ LET ping == [what |-> "ping", track |-> Untracked, id |-> 0, value |-> 0]
     IN \E how \in (IF MaySubmit(usb, cancelled) THEN WriteEnds ELSE {"none"}) :
          /\ Within("extras", 1) /\ Within("faults", IF how = "whole" THEN 0 ELSE 1)
          /\ spent' = [spent EXCEPT !.extras = @ + 1,
                                    !.faults = @ + (IF how = "whole" THEN 0 ELSE 1)]
          /\ Arrives(ping, how)
          /\ IF how = "whole"
             THEN /\ call' = [call EXCEPT !.misses = 0]
                  /\ usb' = AfterWrite(usb, how) /\ UNCHANGED <<stream, buffer>>
             ELSE IF how = "none" /\ call.misses < MaxMisses
             THEN call' = [call EXCEPT !.misses = @ + 1] /\ UNCHANGED wire
             ELSE End(FALSE, "transport", usb, stream, TRUE)
  /\ UNCHANGED <<product, serial, cancelled>>

(* drainKeepaliveResponses after a request whose answer is optional: the   *)
(* first complete frame ends it, an error in it is a refusal.              *)
OptionalFrame ==
  /\ call.at = "optional"
  /\ LET t == TakeFrame(buffer, FALSE)
         f == t.frame
         own == call.kind = "setter" /\ f.track = call.track
     IN /\ t.status = "frame"
        /\ buffer' = t.rest
        /\ call' = [Returned(call, f.ok, IF ~f.ok THEN "rejected"
                                         ELSE IF own THEN "acked" ELSE call.outcome)
                      EXCEPT !.of = f.of]
  /\ UNCHANGED <<product, usb, stream, serial, cancelled, far, spent>>

(* Nothing yet: wait on, give up at the drain's deadline and forget a      *)
(* fragment, or stop for a cancellation.  A setter that was written whole  *)
(* has been carried out as far as its caller can tell.                     *)
OptionalMore ==
  /\ call.at = "optional"
  /\ TakeFrame(buffer, FALSE).status = "more"
  /\ IF cancelled
     THEN /\ IF call.kind = "setter" THEN End(TRUE, "unknown", usb, stream, FALSE)
             ELSE End(FALSE, "cancelled", usb, stream, TRUE)
          /\ UNCHANGED spent
     ELSE \/ /\ call' = Returned(call, TRUE, call.outcome)
             /\ buffer' = << >> /\ UNCHANGED <<usb, stream, spent>>
          \/ \E a \in TakeAvailable(usb) :
               /\ Within("faults", a.cost) /\ Spend("faults", a.cost)
               /\ IF ~a.ok THEN End(FALSE, call.outcome, a.usb, a.stream, TRUE)
                  ELSE /\ usb' = Unmarked(a.usb) /\ stream' = a.stream
                       /\ buffer' = Synced(buffer) \o a.got /\ UNCHANGED call
  /\ UNCHANGED <<product, serial, cancelled, far>>

(* Between calls the idle watch serves the pipe on the same thread.        *)
IdleService ==
  /\ call.at = "idle" /\ usb.open
  /\ \E c \in Completions(usb) :
       /\ Within("faults", c.cost) /\ Spend("faults", c.cost)
       /\ usb' = Unmarked(Rearmed(c.usb, Keep)) /\ stream' = c.stream
  /\ UNCHANGED <<product, buffer, call, serial, cancelled, far>>

-----------------------------------------------------------------------------
(* The display. *)

Frame(r, ok) == [body |-> Answer[r.what], track |-> r.track, ok |-> ok, of |-> r.id,
                 value |-> IF r.what = "query" THEN device ELSE 0]
Framed(f) == <<[part |-> "head", frame |-> f], [part |-> "body", frame |-> f]>>

(* It handles its requests in order; it refuses some, a keepalive only     *)
(* where keepalives are negotiated, and leaves some without an answer: a   *)
(* setter's and a ping's answers are optional.                             *)
DeviceHandles ==
  /\ todo # << >>
  /\ LET r == Head(todo)
     IN \E ok \in BOOLEAN, answers \in BOOLEAN :
          /\ todo' = Tail(todo)
          /\ ok \/ (answers /\ (r.what = "ping" => product = "turris"))
          /\ LET silent == ~answers /\ r.what \in {"query", "config", "restart"}
             IN /\ silent => Within("extras", 1)
                /\ Spend("extras", IF silent THEN 1 ELSE 0)
          /\ device' = IF ok /\ r.what = "config" THEN r.value ELSE device
          /\ effects' = IF ok /\ r.what = "config" THEN effects \cup {<<"config", r.value>>}
                        ELSE effects
          /\ stream' = IF answers THEN stream \o Framed(Frame(r, ok)) ELSE stream
  /\ UNCHANGED <<product, usb, buffer, call, serial, cancelled>>

DeviceTalks ==
  /\ Within("extras", 1) /\ Spend("extras", 1)
  /\ stream' = stream \o Framed([body |-> "event", track |-> Untracked, ok |-> TRUE,
                                 of |-> 0, value |-> 0])
  /\ UNCHANGED <<product, usb, buffer, call, serial, cancelled, far>>

ChannelInit ==
  /\ product \in {"pase", "turris"}
  /\ usb = Closed /\ stream = << >> /\ buffer = << >>
  /\ call = NoCall /\ serial = 0 /\ cancelled = FALSE
  /\ todo = << >> /\ device = 0
  /\ effects = {}
  /\ spent = [faults |-> 0, extras |-> 0]

HostStep == \/ DrainFrame \/ DrainMore \/ DrainDeadline \/ WriteRequest \/ WaitAnswer \/ Deadline
            \/ InFlightPing \/ OptionalFrame \/ OptionalMore

ChannelNext == HostStep \/ IdleService \/ DeviceHandles \/ DeviceTalks
=============================================================================
