---------------------------- MODULE Interactions ----------------------------
(***************************************************************************)
(* Questions an agent asks a human through the bridge of its session       *)
(* (agent-interaction-bridge.ts, interaction-receipts.ts, the peer of      *)
(* rpc.ts): local HTTP calls of the agent's process, bound to the turn     *)
(* that runs; a durable receipt per question; one request to the server    *)
(* that outlives its socket; an answer, a deadline, a cancel or the turn's *)
(* end, whichever is first; the agent's acknowledgement that it used the   *)
(* answer.  The continuation of a resolved promise runs before anything    *)
(* else, so an answer is written and handed on in one step.                *)
(***************************************************************************)
EXTENDS Naturals, Sequences, FiniteSets

CONSTANTS
  Questions,    \* requestIds
  MaxTurns,     \* bound: turns of the session
  MaxCalls,     \* bound: HTTP calls
  MaxSockets,   \* bound: sockets
  None          \* no answer

VARIABLES
  turn,         \* the session's turn: its number, whether it is live
  bridge,       \* generation; bound: the turn its handlers belong to; suspended
  https,        \* HTTP calls: kind, question, the turn and generation captured, at
  receipt,      \* interaction_receipts: state, the asking turn, the answer
  active,       \* questions somebody waits for: InteractionReceipts.active, RpcPeer.pending
  wire,         \* the socket the runtime has, sockets so far, where each question was sent
  delivered,    \* the answers each turn was handed: what it may acknowledge
  used          \* history: answers handed to an agent's process

vars == <<turn, bridge, https, receipt, active, wire, delivered, used>>

Answers == {"submit", "cancel", "timeout"}
StateOf(answer) == CASE answer = "submit" -> "delivered" [] answer = "cancel" -> "cancelled"
                     [] answer = "timeout" -> "timeout"
Blank == [st |-> "none", turn |-> 0, answer |-> None]
AdmittedWhileLive(h) == turn.live /\ ~bridge.suspended
\* The turn's callbacks are alive, and a call may still use the binding it was admitted under.
Admitted(h) == turn.live /\ ~bridge.suspended /\ bridge.bound = h.turn /\ bridge.gen = h.gen
Waiting(q) == {i \in DOMAIN https : https[i].at = "asking" /\ https[i].question = q}
Over == [kind |-> "over", question |-> None, turn |-> 0, gen |-> 0, at |-> "over"]
Ended(set) == [i \in DOMAIN https |-> IF i \in set THEN Over ELSE https[i]]
------------------------------------------------------------------------------
Init ==
  /\ turn = [n |-> 0, live |-> FALSE]
  /\ bridge = [gen |-> 0, bound |-> 0, suspended |-> TRUE]
  /\ https = <<>> /\ receipt = [q \in Questions |-> Blank] /\ active = {}
  /\ wire = [link |-> 1, sockets |-> 1, sent |-> [q \in Questions |-> 0]]
  /\ delivered = {} /\ used = {}

\* A turn binds the session's bridge to its own handlers; the listener and its token stay.
TurnStarts ==
  /\ ~turn.live /\ turn.n < MaxTurns
  /\ turn' = [n |-> turn.n + 1, live |-> TRUE]
  /\ bridge' = [bridge EXCEPT !.bound = turn'.n, !.suspended = FALSE]
  /\ UNCHANGED <<https, receipt, active, wire, delivered, used>>

\* The agent's process calls; what the call is bound to is read before its body.
Calls(kind, q) ==
  /\ turn.n > 0 /\ Len(https) < MaxCalls
  /\ https' = Append(https, [kind |-> kind, question |-> q, turn |-> bridge.bound,
                             gen |-> bridge.gen, at |-> "body"])
  /\ UNCHANGED <<turn, bridge, receipt, active, wire, delivered, used>>
Refuse(i) ==
  https' = Ended({i}) /\ UNCHANGED <<turn, bridge, receipt, active, wire, delivered, used>>

\* A question: the row is begun; one already answered is answered from it; one already asked is
\* joined; otherwise it is asked, on the socket or, without one, on the next.
Asks(i) ==
  LET h == https[i]  q == h.question
      row == IF receipt[q].st = "none" THEN [st |-> "pending", turn |-> h.turn, answer |-> None]
             ELSE receipt[q]
  IN /\ h.at = "body" /\ h.kind = "ask"
     /\ IF ~Admitted(h) THEN Refuse(i)
        ELSE IF row.turn # h.turn THEN Refuse(i)          \* interaction identity changed
        ELSE IF row.answer # None
          THEN /\ https' = Ended({i})
               /\ used' = used \union {[question |-> q, turn |-> h.turn, answer |-> row.answer]}
               /\ delivered' = IF row.answer = "submit" THEN delivered \union {<<h.turn, q>>} ELSE delivered
               /\ UNCHANGED <<turn, bridge, receipt, active, wire>>
        ELSE /\ https' = [https EXCEPT ![i].at = "asking"]
             /\ receipt' = [receipt EXCEPT ![q] = [row EXCEPT !.st = "pending"]]
             /\ active' = active \union {q}
             /\ wire' = IF q \in active THEN wire ELSE [wire EXCEPT !.sent[q] = wire.link]
             /\ UNCHANGED <<turn, bridge, delivered, used>>

\* The peer's request is resolved: the receipt is written; each call that waits is answered if
\* the binding it was admitted under is still the bridge's.
Resolved(q, answer) ==
  LET heard == {i \in Waiting(q) : Admitted(https[i])} IN
  /\ active' = active \ {q}
  /\ receipt' = [receipt EXCEPT ![q].st = StateOf(answer), ![q].answer = answer]
  /\ https' = Ended(Waiting(q))
  /\ used' = used \union {[question |-> q, turn |-> https[i].turn, answer |-> answer] : i \in heard}
  /\ delivered' = IF answer = "submit"
                  THEN delivered \union {<<https[i].turn, q>> : i \in heard} ELSE delivered
\* The human's answer, as the reply on the socket that carried the question or as
\* interaction.response on any later one; or interaction.cancel.
Answered(q, answer) ==
  /\ q \in active /\ wire.link # 0 /\ wire.sent[q] # 0
  /\ Resolved(q, answer) /\ UNCHANGED <<turn, bridge, wire>>
Deadline(q) ==
  /\ q \in active /\ Resolved(q, "timeout") /\ UNCHANGED <<turn, bridge, wire>>

\* The end of the turn aborts: its questions are cancelled, its binding is suspended.
TurnEnds ==
  LET cancelled == {q \in active : receipt[q].turn = turn.n} IN
  /\ turn.live /\ turn' = [turn EXCEPT !.live = FALSE]
  /\ bridge' = [bridge EXCEPT !.gen = @ + 1, !.suspended = TRUE]
  /\ active' = active \ cancelled
  /\ receipt' = [q \in Questions |-> IF q \in cancelled
                   THEN [receipt[q] EXCEPT !.st = "cancelled", !.answer = "cancel"] ELSE receipt[q]]
  /\ https' = Ended(UNION {Waiting(q) : q \in cancelled})
  /\ UNCHANGED <<wire, delivered, used>>

\* phonon_acknowledge_interaction: only of an answer that was handed to this turn.
Applies(i) ==
  LET h == https[i]  q == h.question IN
  /\ h.at = "body" /\ h.kind = "apply"
  /\ IF Admitted(h) /\ <<h.turn, q>> \in delivered /\ receipt[q].st \in {"delivered", "applied"}
       THEN /\ receipt' = [receipt EXCEPT ![q].st = "applied"] /\ https' = Ended({i})
            /\ UNCHANGED <<turn, bridge, active, wire, delivered, used>>
       ELSE Refuse(i)

\* A lost socket keeps the questions that wait; the next one carries them again.
Detach ==
  /\ wire.link # 0 /\ wire' = [wire EXCEPT !.link = 0]
  /\ UNCHANGED <<turn, bridge, https, receipt, active, delivered, used>>
Attach ==
  /\ wire.link = 0 /\ wire.sockets < MaxSockets
  /\ wire' = [link |-> wire.sockets + 1, sockets |-> wire.sockets + 1,
              sent |-> [q \in Questions |-> IF q \in active THEN wire.sockets + 1 ELSE wire.sent[q]]]
  /\ UNCHANGED <<turn, bridge, https, receipt, active, delivered, used>>
\* The process dies, the rows stay: the session's next turn is another one.
Crash ==
  /\ turn.n < MaxTurns
  /\ turn' = [turn EXCEPT !.live = FALSE]
  /\ bridge' = [gen |-> 0, bound |-> 0, suspended |-> TRUE]
  /\ https' = Ended(DOMAIN https) /\ active' = {} /\ delivered' = {}
  /\ wire' = [wire EXCEPT !.link = 0]
  /\ UNCHANGED <<receipt, used>>

Next ==
  \/ TurnStarts \/ TurnEnds \/ Detach \/ Attach \/ Crash
  \/ \E q \in Questions :
       \/ \E kind \in {"ask", "apply"} : Calls(kind, q)
       \/ \E answer \in {"submit", "cancel"} : Answered(q, answer)
       \/ Deadline(q)
  \/ \E i \in DOMAIN https : Asks(i) \/ Applies(i)

Spec == Init /\ [][Next]_vars
------------------------------------------------------------------------------
(* A question somebody waits for is before the human on the socket the device has now: no lost
   socket, and no moment without one, leaves it unasked. *)
WaitingIsAsked == \A q \in active : wire.link # 0 => wire.sent[q] = wire.link

(* A question is waited for only by the live turn that asked it: the end of a turn leaves no
   question behind, and no later turn takes one over. *)
WaitsForItsTurn ==
  /\ \A q \in active : turn.live /\ receipt[q].turn = turn.n /\ receipt[q].st = "pending"
  /\ \A i \in DOMAIN https : https[i].at = "asking" => https[i].question \in active /\ https[i].turn = turn.n

(* There is one answer to a question: what any process was handed, in the turn that asked, is what
   the receipt holds for good; and it counts as applied only if a submitted answer was handed out. *)
OneAnswer ==
  /\ \A u \in used : receipt[u.question].answer = u.answer /\ receipt[u.question].turn = u.turn
  /\ \A q \in Questions : receipt[q].st = "applied" =>
       [question |-> q, turn |-> receipt[q].turn, answer |-> "submit"] \in used
=============================================================================
