----------------------------- MODULE PythonServer -----------------------------
(***************************************************************************)
(* The Python server SDK (sdk-python): each connection of a device has its *)
(* own peer and its own device object, the frames of a connection are      *)
(* handled one at a time, and one registry names the device's connection.  *)
(* The device sends its unacknowledged events again on a new connection,   *)
(* while the server may not have seen the old one close.                   *)
(***************************************************************************)
EXTENDS Naturals, Sequences, FiniteSets, SequencesExt

CONSTANTS MaxSockets, MaxEvents, MaxCalls

VARIABLES kind, socks, devices, calls, handled, acked, queued, session, raised

vars == <<kind, socks, devices, calls, handled, acked, queued, session, raised>>

(* kind: the events of the device, of a workflow (with a handler) or of a session (with a queue).      *)
(* raised: history, the events a handler of which raised.                                                 *)
Init ==
  /\ kind \in {"workflow", "stream"}
  /\ socks = <<>> /\ devices = 0 /\ calls = <<>>
  /\ handled = {} /\ acked = 0 /\ queued = <<>> /\ session = 0 /\ raised = {}

(* The device is on its newest connection. *)
Newest == Len(socks)
Set(s, field, v) == socks' = [socks EXCEPT ![s] = [@ EXCEPT ![field] = v]]

(* The device: a connection starts with hello; an event is sent in order, after what was acknowledged; *)
(* a session's events follow its creation.                                                               *)
Connects ==
  /\ Newest < MaxSockets
  /\ socks' = Append(socks, [open |-> TRUE, inbox |-> <<[m |-> "hello", n |-> 0]>>, busy |-> [m |-> "", n |-> 0],
                             device |-> FALSE, closed |-> FALSE, over |-> FALSE, sent |-> acked])
  /\ UNCHANGED <<kind, devices, calls, handled, acked, queued, session, raised>>
Emits ==
  LET s == Newest
  IN /\ s > 0 /\ socks[s].open /\ socks[s].device /\ socks[s].sent < MaxEvents
     /\ kind = "stream" => session # 0
     /\ socks' = [socks EXCEPT ![s].inbox = Append(@, [m |-> "event", n |-> socks[s].sent + 1]), ![s].sent = @ + 1]
     /\ UNCHANGED <<kind, devices, calls, handled, acked, queued, session, raised>>
Answers(c) ==
  /\ calls[c].step = "waiting" /\ calls[c].on = Newest /\ socks[Newest].open
  /\ calls' = [calls EXCEPT ![c].step = "answered"]
  /\ Set(Newest, "inbox", Append(socks[Newest].inbox, [m |-> "reply", n |-> c]))
  /\ UNCHANGED <<kind, devices, handled, acked, queued, session, raised>>

(* The network, or either end, closes a connection. *)
Closes(s) ==
  /\ socks[s].open /\ Set(s, "open", FALSE)
  /\ UNCHANGED <<kind, devices, calls, handled, acked, queued, session, raised>>

(* _on_connection: the next frame is taken when the one before has been handled; RpcPeer.handle drops   *)
(* it once the peer is closed, and a reply settles the call that is still pending.                        *)
Pending(c) == calls[c].step \in {"sending", "waiting", "answered"}
Frame(s) == Head(socks[s].inbox)
Idle(s) == socks[s].busy.m = "" /\ ~ socks[s].over
Take(s) ==
  /\ Idle(s) /\ socks[s].inbox # <<>>
  /\ LET f == Frame(s)
         r == Tail(socks[s].inbox)
         works == ~ socks[s].closed /\ (f.m = "hello" \/ (f.m = "event" /\ socks[s].device))
     IN /\ socks' = [socks EXCEPT ![s].inbox = r, ![s].busy = IF works THEN f ELSE @]
        /\ calls' = IF f.m = "reply" /\ ~ socks[s].closed /\ Pending(f.n)
                    THEN [calls EXCEPT ![f.n].step = "done"] ELSE calls
  /\ UNCHANGED <<kind, devices, handled, acked, queued, session, raised>>

Rest(s) == [socks EXCEPT ![s].busy = [m |-> "", n |-> 0]]

(* hello: the application's authenticate is awaited; the connection is registered whatever became of it. *)
Hello(s) ==
  /\ socks[s].busy.m = "hello"
  /\ \/ socks' = Rest(s) /\ UNCHANGED devices
     \/ socks' = [Rest(s) EXCEPT ![s].device = TRUE] /\ devices' = s
  /\ UNCHANGED <<kind, calls, handled, acked, queued, session, raised>>

(* _handle_inbound: the handler runs to its end, then the event is acknowledged, if the connection still *)
(* is there; a handler that raises acknowledges nothing.                                                   *)
Sends(s) == socks[s].open /\ ~ socks[s].closed
Waiting(s) == \E c \in DOMAIN calls : calls[c].by = s /\ Pending(c)
Handled(s) ==
  LET n == socks[s].busy.n
  IN /\ kind = "workflow" /\ socks[s].busy.m = "event" /\ ~ Waiting(s)
     /\ socks' = Rest(s)
     /\ \/ /\ handled' = handled \cup {n} /\ UNCHANGED raised
           /\ acked' = IF Sends(s) THEN Max({acked, n}) ELSE acked
        \/ raised' = raised \cup {n} /\ UNCHANGED <<handled, acked>>
     /\ UNCHANGED <<kind, devices, calls, queued, session>>

(* _on_stream: a session of this connection takes the event and acknowledges the newest it has seen; a    *)
(* session of another one does not know it.                                                                *)
Streams(s) ==
  LET n == socks[s].busy.n
  IN /\ kind = "stream" /\ socks[s].busy.m = "event" /\ socks' = Rest(s)
     /\ IF session # s THEN UNCHANGED <<acked, queued>>
        ELSE /\ queued' = Append(queued, n)
             /\ acked' = IF Sends(s) THEN Max({acked, n}) ELSE acked
     /\ UNCHANGED <<kind, devices, calls, handled, session, raised>>

(* request: by the application, on the device it found or kept; or by a handler, which waits for it.      *)
Request(s, by) ==
  /\ socks[s].device /\ Len(calls) < MaxCalls
  /\ calls' = Append(calls, [on |-> s, by |-> by, step |-> IF socks[s].closed THEN "failed" ELSE "sending"])
  /\ UNCHANGED <<kind, socks, devices, handled, acked, queued, session, raised>>
HandlerRequests(s) == kind = "workflow" /\ socks[s].busy.m = "event" /\ ~ Waiting(s) /\ Request(s, s)
Sent(c) ==
  /\ calls[c].step = "sending"
  /\ calls' = [calls EXCEPT ![c].step = IF socks[calls[c].on].open THEN "waiting" ELSE "failed"]
  /\ UNCHANGED <<kind, socks, devices, handled, acked, queued, session, raised>>
TimesOut(c) ==
  /\ Pending(c) /\ calls' = [calls EXCEPT ![c].step = "failed"]
  /\ UNCHANGED <<kind, socks, devices, handled, acked, queued, session, raised>>

(* create_session: its continuation registers the session with the device it was asked on. *)
Created(c) ==
  /\ kind = "stream" /\ calls[c].step = "done" /\ calls[c].by = 0 /\ session = 0
  /\ session' = calls[c].on
  /\ UNCHANGED <<kind, socks, devices, calls, handled, acked, queued, raised>>

(* reject_all *)
Reject(s) == [c \in DOMAIN calls |-> IF calls[c].on = s /\ Pending(c) THEN [calls[c] EXCEPT !.step = "failed"] ELSE calls[c]]

(* The read loop of a closed connection ends after its last frame; whoever is registered is removed.     *)
Ends(s) ==
  /\ Idle(s) /\ socks[s].inbox = <<>> /\ ~ socks[s].open
  /\ IF socks[s].device
     THEN /\ devices' = 0 /\ calls' = Reject(s)
          /\ socks' = [socks EXCEPT ![s].over = TRUE, ![s].closed = TRUE]
     ELSE Set(s, "over", TRUE) /\ UNCHANGED <<devices, calls>>
  /\ UNCHANGED <<kind, handled, acked, queued, session, raised>>

(* disconnect, by the application. *)
Disconnect(s) ==
  /\ socks[s].device /\ ~ socks[s].closed
  /\ socks' = [socks EXCEPT ![s].closed = TRUE, ![s].open = FALSE] /\ calls' = Reject(s)
  /\ UNCHANGED <<kind, devices, handled, acked, queued, session, raised>>

Next ==
  \/ Connects \/ Emits
  \/ \E s \in DOMAIN socks : Closes(s) \/ Take(s) \/ Hello(s) \/ Handled(s) \/ Streams(s) \/ Ends(s)
                             \/ Disconnect(s) \/ Request(s, 0) \/ HandlerRequests(s)
  \/ \E c \in DOMAIN calls : Answers(c) \/ Sent(c) \/ TimesOut(c) \/ Created(c)
Spec == Init /\ [][Next]_vars

(* The registered connection has not been torn down: what the application finds there can be called.     *)
RegisteredIsLive == devices # 0 => ~ socks[devices].over

(* No call waits on a peer that is closed; it would wait for its timer, ten minutes.                      *)
NoneWaitsOnClosed == \A c \in DOMAIN calls : Pending(c) => ~ socks[calls[c].on].closed

(* The event whose number the device was told has been handled to the end, and of those acknowledged     *)
(* with it none was passed over: each was handled, or its handler raised. A session's was queued, with    *)
(* all before.                                                                                             *)
AckedWasHandled ==
  IF kind = "workflow" THEN /\ acked # 0 => acked \in handled
                            /\ 1 .. acked \subseteq handled \cup raised
                       ELSE 1 .. acked \subseteq ToSet(queued)
=============================================================================
