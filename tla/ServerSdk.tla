------------------------------- MODULE ServerSdk -------------------------------
(***************************************************************************)
(* The TypeScript server SDK around the consumers of events: a connection  *)
(* says hello and is authenticated, the device's registry names one        *)
(* connection, the frames of a connection are handled concurrently and     *)
(* acknowledged when their handler is done, a request that asks for more   *)
(* than an old device knows is held until the device said it can, and the  *)
(* server closes while all that goes on.                                   *)
(***************************************************************************)
EXTENDS Naturals, Sequences, FiniteSets, FiniteSetsExt

CONSTANTS MaxSockets, MaxFrames, MaxCalls

VARIABLES kind, handler, socks, devices, closing, busy, handled, told, calls, raised

vars == <<kind, handler, socks, devices, closing, busy, handled, told, calls, raised>>

(* kind: what crosses the connection: events of a workflow, finished runs, finished runs of a dispatch,    *)
(* or the application's requests; handler: whether the application handles what comes in itself; raised:   *)
(* history, the frames some handler of which failed.                                                       *)
Init ==
  /\ kind \in {"workflow", "run", "dispatch", "requests"} /\ handler \in BOOLEAN
  /\ socks = <<>> /\ devices = 0 /\ closing = "no"
  /\ busy = {} /\ handled = {} /\ told = {} /\ calls = <<>> /\ raised = {}

(* The device, which knows of the newer features or not, connects again when it lost its connection; the *)
(* server may not have seen that yet. A server that closes accepts no more.                               *)
Newest == Len(socks)
Connects(able) ==
  /\ Newest < MaxSockets /\ closing = "no" /\ (Newest > 0 => socks[Newest].left)
  /\ socks' = Append(socks, [hello |-> "asked", open |-> TRUE, left |-> FALSE, over |-> FALSE, able |-> able,
                             rank |-> 0, got |-> 0])
  /\ UNCHANGED <<kind, handler, devices, closing, busy, handled, told, calls, raised>>
Leaves(s) ==
  /\ ~ socks[s].left /\ socks' = [socks EXCEPT ![s].left = TRUE]
  /\ UNCHANGED <<kind, handler, devices, closing, busy, handled, told, calls, raised>>

(* connect.hello, once the application's authenticate has answered.                                       *)
Rank == Cardinality({s \in DOMAIN socks : socks[s].hello = "device"})
Hello(s, known) ==
  /\ socks[s].hello = "asked"
  /\ IF known /\ closing = "no" /\ socks[s].open
     THEN socks' = [socks EXCEPT ![s].hello = "device", ![s].rank = Rank + 1] /\ devices' = s
     ELSE socks' = [socks EXCEPT ![s].hello = "refused"] /\ UNCHANGED devices
  /\ UNCHANGED <<kind, handler, closing, busy, handled, told, calls, raised>>

(* The device sends what was not acknowledged on its connection, in order, and again from time to time; *)
(* of a workflow's events a number acknowledges all before it. Each frame is handled at once.             *)
Known(n) == n \in told \/ (kind = "workflow" /\ \E k \in told : k >= n)
Arrives(s, n) ==
  /\ kind # "requests" /\ s = Newest /\ ~ socks[s].left /\ socks[s].hello = "device" /\ socks[s].open /\ ~ socks[s].over
  /\ ~ Known(n) /\ [on |-> s, n |-> n] \notin busy
  /\ \A m \in 1 .. n - 1 : Known(m) \/ m <= socks[s].got
  /\ socks' = [socks EXCEPT ![s].got = Max({@, n})]
  /\ busy' = busy \cup {[on |-> s, n |-> n]}
  /\ UNCHANGED <<kind, handler, devices, closing, handled, told, calls, raised>>

(* _handleInbound: the handler ends, or fails; then the frame is acknowledged on its own connection. The *)
(* runs of a dispatch are left to the application when there is no handler.                               *)
Acknowledges == handler \/ kind # "dispatch"
Handles(f) ==
  /\ f \in busy /\ busy' = busy \ {f}
  /\ handled' = IF handler THEN handled \cup {f.n} ELSE handled
  /\ told' = IF Acknowledges /\ socks[f.on].open /\ ~ socks[f.on].left THEN told \cup {f.n} ELSE told
  /\ UNCHANGED <<kind, handler, socks, devices, closing, calls, raised>>
HandlerFails(f) ==
  /\ handler /\ f \in busy /\ busy' = busy \ {f} /\ raised' = raised \cup {f.n}
  /\ UNCHANGED <<kind, handler, socks, devices, closing, handled, told, calls>>

(* A request with pinned skills, or to provision a project: what it says is taken down, then device.info *)
(* is asked; the application may go on to change its object.                                              *)
Asks(s) ==
  /\ kind = "requests" /\ socks[s].hello = "device" /\ Len(calls) < MaxCalls
  /\ calls' = Append(calls, [on |-> s, asked |-> 1, object |-> 1, out |-> 0,
                             step |-> IF socks[s].over THEN "failed" ELSE "info"])
  /\ UNCHANGED <<kind, handler, socks, devices, closing, busy, handled, told, raised>>
Changes(c) ==
  /\ calls[c].step \in {"info", "told"} /\ calls[c].object = 1
  /\ calls' = [calls EXCEPT ![c].object = 2]
  /\ UNCHANGED <<kind, handler, socks, devices, closing, busy, handled, told, raised>>
InfoAnswered(c) ==
  /\ calls[c].step = "info" /\ socks[calls[c].on].open /\ ~ socks[calls[c].on].left
  /\ calls' = [calls EXCEPT ![c].step = "told"]
  /\ UNCHANGED <<kind, handler, socks, devices, closing, busy, handled, told, raised>>

(* requireSkillCapabilities has its answer: the request goes out to the same device, or is refused.      *)
Frozen(c) == calls[c].asked
Required(c) ==
  /\ calls[c].step = "told"
  /\ LET s == socks[calls[c].on]
     IN calls' = [calls EXCEPT ![c] =
                    IF ~ s.able THEN [@ EXCEPT !.step = "refused"]
                    ELSE IF s.over THEN [@ EXCEPT !.step = "failed"]
                    ELSE [@ EXCEPT !.step = "sent", !.out = Frozen(c)]]
  /\ UNCHANGED <<kind, handler, socks, devices, closing, busy, handled, told, raised>>
Answered(c) ==
  /\ calls[c].step = "sent" /\ socks[calls[c].on].open /\ ~ socks[calls[c].on].left
  /\ calls' = [calls EXCEPT ![c].step = "done"]
  /\ UNCHANGED <<kind, handler, socks, devices, closing, busy, handled, told, raised>>
TimesOut(c) ==
  /\ calls[c].step \in {"info", "sent"} /\ calls' = [calls EXCEPT ![c].step = "failed"]
  /\ UNCHANGED <<kind, handler, socks, devices, closing, busy, handled, told, raised>>

(* rejectAll *)
Reject(s) ==
  [c \in DOMAIN calls |->
     IF calls[c].on = s /\ calls[c].step \in {"info", "sent"} THEN [calls[c] EXCEPT !.step = "failed"] ELSE calls[c]]

(* A connection the device left, the application disconnects or the server terminates closes, and its    *)
(* close handler runs later.                                                                               *)
Closes(s) ==
  /\ socks[s].open /\ (socks[s].left \/ closing = "waiting")
  /\ socks' = [socks EXCEPT ![s].open = FALSE, ![s].left = TRUE]
  /\ UNCHANGED <<kind, handler, devices, closing, busy, handled, told, calls, raised>>
Disconnect(s) ==
  /\ socks[s].hello = "device" /\ ~ socks[s].over
  /\ calls' = Reject(s)
  /\ socks' = [socks EXCEPT ![s].open = FALSE, ![s].left = TRUE]
  /\ UNCHANGED <<kind, handler, devices, closing, busy, handled, told, raised>>
Gone(s) ==
  /\ ~ socks[s].open /\ ~ socks[s].over
  /\ socks' = [socks EXCEPT ![s].over = TRUE]
  /\ IF socks[s].hello = "device"
     THEN calls' = Reject(s) /\ devices' = IF devices = s THEN 0 ELSE devices
     ELSE UNCHANGED <<calls, devices>>
  /\ UNCHANGED <<kind, handler, closing, busy, handled, told, raised>>

(* PhononServer.close: every socket is terminated; when all their close handlers have run, it is closed. *)
Close ==
  /\ closing = "no" /\ closing' = "waiting"
  /\ UNCHANGED <<kind, handler, socks, devices, busy, handled, told, calls, raised>>
Closed ==
  /\ closing = "waiting" /\ \A s \in DOMAIN socks : socks[s].over
  /\ closing' = "done" /\ devices' = 0
  /\ UNCHANGED <<kind, handler, socks, busy, handled, told, calls, raised>>

Next ==
  \/ \E able \in BOOLEAN : Connects(able)
  \/ Close \/ Closed
  \/ \E s \in DOMAIN socks : \/ Leaves(s) \/ Closes(s) \/ Disconnect(s) \/ Gone(s)
                             \/ \E known \in BOOLEAN : Hello(s, known)
                             \/ \E n \in 1 .. MaxFrames : Arrives(s, n)
                             \/ Asks(s)
  \/ \E f \in busy : Handles(f) \/ HandlerFails(f)
  \/ \E c \in DOMAIN calls : InfoAnswered(c) \/ Required(c) \/ Answered(c) \/ TimesOut(c) \/ Changes(c)
Spec == Init /\ [][Next]_vars

(* The registry names a connection whose end was not handled yet, though an older one may end after it   *)
(* and authentication may end after either; when close has resolved, none.                                *)
RegistryIsLive ==
  /\ devices # 0 => socks[devices].hello = "device" /\ ~ socks[devices].over
  /\ closing = "done" => devices = 0 /\ \A s \in DOMAIN socks : socks[s].over

(* The connection that was authenticated last is found until its own end: that of another does not take    *)
(* it away, whichever of them the device opened first.                                                     *)
LatestIsFound ==
  \A s \in DOMAIN socks :
    socks[s].hello = "device" /\ socks[s].rank = Rank /\ ~ socks[s].over /\ closing # "done" => devices = s

(* What the application handles itself is acknowledged by its number once it was handled, on whatever    *)
(* connection; what such a number acknowledges with it was handled too, unless its own handler failed or  *)
(* still runs. The end of a dispatched run stays with the device until someone took it.                    *)
ToldWasHandled ==
  /\ handler => /\ told \subseteq handled
                /\ \A n \in 1 .. MaxFrames : Known(n) => n \in handled \cup raised \cup {f.n : f \in busy}
  /\ kind = "dispatch" /\ ~ handler => told = {}

(* An event of a workflow that the device forgets has been handled (setWorkflowEventHandler: the handler  *)
(* is awaited before the acknowledgement, so that it can persist the event first).                        *)
ForgottenWasHandled ==
  kind = "workflow" /\ handler => \A n \in 1 .. MaxFrames : Known(n) => n \in handled

(* A request that was held goes out as it was asked, to a device that said it can.                        *)
SentAsAsked == \A c \in DOMAIN calls : calls[c].out # 0 => calls[c].out = calls[c].asked /\ socks[calls[c].on].able

(* No request waits on a connection whose end was handled.                                                 *)
NoneWaits == \A c \in DOMAIN calls : calls[c].step \in {"info", "sent"} => ~ socks[calls[c].on].over
================================================================================
