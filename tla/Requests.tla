------------------------------ MODULE Requests ------------------------------
(***************************************************************************)
(* Requests of the server SDK to a device over sockets that come and go:   *)
(* one operation with a clientRequestId, called again after a timeout or a *)
(* lost socket, perhaps with another payload.  The server's peer numbers   *)
(* its requests anew on every socket.  On the device the two levels of     *)
(* IdempotencyStore (the map of promises, the table), its garbage          *)
(* collection, failed executions, failed writes and losses.               *)
(***************************************************************************)
EXTENDS Naturals, Sequences, FiniteSets

CONSTANTS
  Payloads,     \* what the operation may be called with
  MaxSockets,   \* bound: sockets
  MaxCalls,     \* bound: calls of the operation
  MaxLosses     \* bound: deaths of the device, and collections of the entry

VARIABLES
  peer,         \* the socket the runtime's peer is attached to, 0 when detached
  open,         \* the sockets the server holds open
  sockets,      \* sockets so far
  calls,        \* the server's calls: socket, id on it, payload, st (at the server), at (on the device)
  replies,      \* replies on their way to the server
  execs,        \* executions: payload, st, excused (history, see EffectOnce); any of them may
                \* have taken effect from its start
  mem,          \* IdempotencyStore.map: the execution of the entry, 0 for none
  table,        \* the idempotency table: the execution whose result it holds, 0 for none
  losses

vars == <<peer, open, sockets, calls, replies, execs, mem, table, losses>>

Ended(e, st, excused) == [execs EXCEPT ![e].st = st, ![e].excused = @ \/ excused]
Error == 0      \* the value of an error reply; a result is its execution

ReplyWhereAttached(cs, val) ==
  replies \union {[socket |-> peer, id |-> calls[c].id, val |-> val] : c \in {x \in cs : peer \in open}}
\* A reply goes out only over the socket its request came in on.
Reply(cs, val) ==
  replies \union {[socket |-> calls[c].socket, id |-> calls[c].id, val |-> val] :
                    c \in {x \in cs : peer = calls[x].socket /\ peer \in open}}
Answered(cs) == [c \in DOMAIN calls |-> IF c \in cs THEN [calls[c] EXCEPT !.at = "gone", !.exec = 0]
                                         ELSE calls[c]]
Waiting(e) == {c \in DOMAIN calls : calls[c].at = "running" /\ calls[c].exec = e}
------------------------------------------------------------------------------
Init ==
  /\ peer = 0 /\ open = {} /\ sockets = 0 /\ calls = <<>> /\ replies = {}
  /\ execs = <<>> /\ mem = 0 /\ table = 0 /\ losses = 0

\* The runtime's peer is detached from a lost socket, later attached to a new one.
Attach ==
  /\ peer = 0 /\ sockets < MaxSockets
  /\ sockets' = sockets + 1 /\ peer' = sockets' /\ open' = open \union {sockets'}
  /\ UNCHANGED <<calls, replies, execs, mem, table, losses>>
Detach ==
  /\ peer # 0 /\ peer' = 0
  /\ UNCHANGED <<open, sockets, calls, replies, execs, mem, table, losses>>
\* The server loses a socket, perhaps before or long after the device does.
ServerLoses(n) ==
  /\ n \in open /\ open' = open \ {n}
  /\ calls' = [c \in DOMAIN calls |-> IF calls[c].socket = n /\ calls[c].st = "pending"
                                        THEN [calls[c] EXCEPT !.st = "rejected"] ELSE calls[c]]
  /\ replies' = {m \in replies : m.socket # n}
  /\ UNCHANGED <<peer, sockets, execs, mem, table, losses>>

Call(n, payload) ==
  /\ n = sockets /\ n \in open /\ Len(calls) < MaxCalls
  /\ \A c \in DOMAIN calls : calls[c].payload = payload => calls[c].st = "rejected"
  /\ calls' = Append(calls, [socket |-> n, payload |-> payload, st |-> "pending", at |-> "wire",
                             exec |-> 0, val |-> 0,
                             id |-> 1 + Cardinality({c \in DOMAIN calls : calls[c].socket = n})])
  /\ UNCHANGED <<peer, open, sockets, replies, execs, mem, table, losses>>
\* A deadline ends the wait for the reply, not the execution.
TimesOut(c) ==
  /\ calls[c].st = "pending" /\ calls' = [calls EXCEPT ![c].st = "rejected"]
  /\ UNCHANGED <<peer, open, sockets, replies, execs, mem, table, losses>>

\* IdempotencyStore.run
Known == IF mem # 0 THEN mem ELSE table
Joins(c) == mem # 0 /\ execs[mem].st = "running"
Arrives(c) ==
  /\ calls[c].at = "wire" /\ peer = calls[c].socket
  /\ IF Known = 0
       THEN /\ execs' = Append(execs, [payload |-> calls[c].payload, st |-> "running",
                                       excused |-> FALSE])
            /\ mem' = Len(execs')
            /\ calls' = [calls EXCEPT ![c].at = "running", ![c].exec = mem']
            /\ UNCHANGED replies
       ELSE /\ IF execs[Known].payload # calls[c].payload
                 THEN calls' = Answered({c}) /\ replies' = Reply({c}, Error)
               ELSE IF Joins(c)
                 THEN calls' = [calls EXCEPT ![c].at = "running", ![c].exec = mem] /\ UNCHANGED replies
               ELSE calls' = Answered({c}) /\ replies' = Reply({c}, Known)
            /\ UNCHANGED <<execs, mem>>
  /\ UNCHANGED <<peer, open, sockets, table, losses>>
\* The result is written to the table before anyone is answered; a write that fails is ignored.
Finishes(e) ==
  /\ execs[e].st = "running"
  /\ \/ table' = e /\ execs' = Ended(e, "done", FALSE)
     \/ UNCHANGED table /\ execs' = Ended(e, "done", TRUE)
  /\ calls' = Answered(Waiting(e)) /\ replies' = Reply(Waiting(e), e)
  /\ UNCHANGED <<peer, open, sockets, mem, losses>>
\* A failure is not kept; it deletes the key's entry, also one that has replaced its own.
FailsAfter(e) ==
  /\ execs[e].st = "running" /\ mem' = 0
  /\ execs' = [x \in DOMAIN execs |-> IF x = mem /\ x # e /\ execs[x].st = "running"
                 THEN [execs[x] EXCEPT !.excused = TRUE] ELSE Ended(e, "failed", TRUE)[x]]
  /\ calls' = Answered(Waiting(e)) /\ replies' = Reply(Waiting(e), Error)
  /\ UNCHANGED <<peer, open, sockets, table, losses>>
\* Ten minutes old, or the oldest of five thousand: settled or not.
Collected ==
  /\ mem # 0 /\ mem' = 0
  /\ losses < MaxLosses /\ losses' = losses + 1
  /\ execs' = IF execs[mem].st = "running" THEN Ended(mem, "running", TRUE) ELSE execs
  /\ UNCHANGED <<peer, open, sockets, calls, replies, table>>
Crash ==
  /\ losses < MaxLosses /\ losses' = losses + 1
  /\ peer' = 0 /\ mem' = 0
  /\ execs' = [e \in DOMAIN execs |-> IF execs[e].st = "running"
                 THEN [execs[e] EXCEPT !.st = "dead", !.excused = TRUE] ELSE execs[e]]
  /\ calls' = Answered({c \in DOMAIN calls : calls[c].at = "running"})
  /\ UNCHANGED <<open, sockets, replies, table>>

\* The server's peer resolves whatever it holds under the reply's id.
Delivered(m) ==
  /\ replies' = replies \ {m}
  /\ calls' = [c \in DOMAIN calls |->
       IF m.socket \in open /\ calls[c].st = "pending" /\ calls[c].socket = m.socket /\ calls[c].id = m.id
         THEN [calls[c] EXCEPT !.st = IF m.val = Error THEN "rejected" ELSE "resolved", !.val = m.val]
         ELSE calls[c]]
  /\ UNCHANGED <<peer, open, sockets, execs, mem, table, losses>>

Next ==
  \/ Attach \/ Detach \/ Collected \/ Crash
  \/ \E n \in open : ServerLoses(n) \/ \E p \in Payloads : Call(n, p)
  \/ \E c \in DOMAIN calls : TimesOut(c) \/ Arrives(c)
  \/ \E e \in DOMAIN execs : Finishes(e) \/ FailsAfter(e)
  \/ \E m \in replies : Delivered(m)

Spec == Init /\ [][Next]_vars
------------------------------------------------------------------------------
(* An operation that is called again under its clientRequestId takes effect once, whatever sockets
   are lost and however late.  Excepted is a second execution after one that failed, was collected
   or displaced while it ran, died before its record, or whose record could not be written. *)
EffectOnce ==
  \A e, f \in DOMAIN execs :
    e < f => execs[e].excused

(* A call is answered with a result of its own operation and payload, never with the answer to a
   request of an earlier socket that bore the same number; and the result it is given is the one
   the operation's record holds, or will hold. *)
AnswersOwn ==
  \A c \in DOMAIN calls : calls[c].st = "resolved" =>
    LET e == execs[calls[c].val] IN
    /\ e.st = "done" /\ e.payload = calls[c].payload
    /\ table # calls[c].val => e.excused \/ execs[table].excused
=============================================================================
