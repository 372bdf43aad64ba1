------------------------------ MODULE TurnInput ------------------------------
(***************************************************************************)
(* Ordinary input for a turn that is already running, over the boundaries  *)
(* of peer mail (current-turn-input.ts, peer-context-bridge.ts).  An input *)
(* waits for a model boundary; there it joins the batch behind the peer    *)
(* messages, if its scope still allows it.  The native side has the batch  *)
(* authorised, puts it before the model and reports it applied; only that  *)
(* report, in the live turn, tells the caller that the input was taken.    *)
(***************************************************************************)
EXTENDS Naturals, FiniteSets, Sequences

CONSTANTS MaxInputs, BatchLimit, MaxTurns, MaxAsks

VARIABLES turn, inputs, asks

vars == <<turn, inputs, asks>>

Inputs == 1 .. MaxInputs
NoInput == [turn |-> 0, st |-> "none", at |-> 0]

(* turn.scope: beforeApply of the callers would still pass (project authority, workflow, window). *)
Init ==
  /\ turn = [n |-> 1, live |-> TRUE, scope |-> TRUE]
  /\ inputs = [i \in Inputs |-> NoInput] /\ asks = <<>>

Live(b) == turn.live /\ turn.n = asks[b].turn
Waits(i) == inputs[i].st = "waiting"
To(b, step) == [asks EXCEPT ![b].step = step]

(* reject: the caller hears that its input was not confirmed. *)
Reject(S) == [i \in Inputs |-> IF i \in S /\ Waits(i) THEN [inputs[i] EXCEPT !.st = "rejected"] ELSE inputs[i]]

(* insert: admitted while the turn takes input; its number is the order of the pending map. *)
Insert ==
  /\ turn.live
  /\ \E i \in Inputs :
       /\ inputs[i] = NoInput /\ \A j \in 1 .. i - 1 : inputs[j] # NoInput
       /\ inputs' = [inputs EXCEPT ![i] = [turn |-> turn.n, st |-> "waiting", at |-> 0]]
  /\ UNCHANGED <<turn, asks>>

(* abort: the caller's signal. *)
GivesUp == /\ \E i \in Inputs : Waits(i) /\ inputs' = Reject({i})
           /\ UNCHANGED <<turn, asks>>

Revoke == turn.scope /\ turn' = [turn EXCEPT !.scope = FALSE] /\ UNCHANGED <<inputs, asks>>

(* prepare, until the peers' receiver answers; one boundary at a time. *)
Ask ==
  /\ turn.live /\ Len(asks) < MaxAsks
  /\ \A b \in DOMAIN asks : Live(b) => asks[b].step # "looking"
  /\ asks' = Append(asks, [turn |-> turn.n, step |-> "looking", batch |-> {}, meant |-> {}, peer |-> FALSE,
                           scope |-> TRUE])
  /\ UNCHANGED <<turn, inputs>>

(* prepare, after it: peers first, then the inputs not offered yet that the native budget and the   *)
(* batch have room for; one whose scope is gone is refused instead.                                  *)
Unoffered == {i \in Inputs : Waits(i) /\ inputs[i].at = 0}
First(S, k) == {i \in S : Cardinality({x \in S : x < i}) < k}
Prepare ==
  \E b \in DOMAIN asks :
    /\ asks[b].step = "looking"
    /\ \/ ~ Live(b) /\ asks' = To(b, "over") /\ UNCHANGED inputs
       \/ /\ Live(b)
          /\ \E peer, room \in BOOLEAN :
               LET batch == IF room THEN First(Unoffered, IF peer THEN BatchLimit - 1 ELSE BatchLimit) ELSE {} IN
               IF turn.scope
               THEN /\ inputs' = [i \in Inputs |-> IF i \in batch THEN [inputs[i] EXCEPT !.at = b] ELSE inputs[i]]
                    /\ asks' = [asks EXCEPT ![b].batch = batch, ![b].peer = peer,
                                            ![b].step = IF batch = {} THEN "over" ELSE "replied"]
               ELSE inputs' = Reject(IF room THEN Unoffered ELSE {}) /\ asks' = To(b, "over")
    /\ UNCHANGED turn

(* The native side drops a batch: its timeout, its abort, a change of its own context. *)
Leaves ==
  /\ \E b \in DOMAIN asks : asks[b].step \in {"replied", "allowed"} /\ asks' = To(b, "over")
  /\ UNCHANGED <<turn, inputs>>

(* matching: every input of the batch still waits, offered here, or was accepted here. *)
Matches(b) == Live(b) /\ \A i \in asks[b].batch : inputs[i].at = b /\ inputs[i].st \in {"waiting", "accepted"}

(* Whether the batch may have its effect: the scope of its inputs, and the peers' own receiver if a *)
(* peer message is in it.  A denial withdraws the inputs of the batch.                               *)
Allowed(b) == turn.scope
Authorize ==
  \E b \in DOMAIN asks :
    /\ asks[b].step = "replied"
    /\ \/ ~ Matches(b) /\ asks' = To(b, "over") /\ UNCHANGED inputs
       \/ /\ Matches(b) /\ Allowed(b)
          /\ asks' = [asks EXCEPT ![b].step = "allowed", ![b].meant = {i \in asks[b].batch : Waits(i)},
                                  ![b].scope = turn.scope]
          /\ UNCHANGED inputs
       \/ /\ Matches(b) /\ (~ Allowed(b) \/ asks[b].peer)
          /\ asks' = To(b, "over") /\ inputs' = Reject(asks[b].batch)
    /\ UNCHANGED turn

(* The batch goes into the request or the hook's output. *)
Shows == /\ \E b \in DOMAIN asks : asks[b].step = "allowed" /\ asks' = To(b, "shown")
         /\ UNCHANGED <<turn, inputs>>

(* observe or contextApplied: the callers hear it, unless something was withdrawn meanwhile. *)
Accept(b) == [i \in Inputs |-> IF i \in asks[b].batch THEN [inputs[i] EXCEPT !.st = "accepted"] ELSE inputs[i]]
Applied ==
  \E b \in DOMAIN asks :
    /\ asks[b].step = "shown"
    /\ \/ ~ Matches(b) /\ UNCHANGED inputs
       \/ Matches(b) /\ Allowed(b) /\ inputs' = Accept(b)
       \/ Matches(b) /\ (~ Allowed(b) \/ asks[b].peer) /\ inputs' = Reject(asks[b].batch)
    /\ asks' = To(b, "reported")
    /\ UNCHANGED turn

(* close: a final event, an abort or the end of the operation. *)
Closes == /\ turn.live /\ turn' = [turn EXCEPT !.live = FALSE]
          /\ inputs' = Reject(Inputs) /\ UNCHANGED asks
NextTurn == /\ ~ turn.live /\ turn.n < MaxTurns
            /\ turn' = [n |-> turn.n + 1, live |-> TRUE, scope |-> TRUE]
            /\ UNCHANGED <<inputs, asks>>

Next == Insert \/ GivesUp \/ Revoke \/ Ask \/ Prepare \/ Leaves \/ Authorize \/ Shows \/ Applied \/ Closes \/ NextTurn
Spec == Init /\ [][Next]_vars

WasShown(b) == asks[b].step \in {"shown", "reported"}

(* A caller hears that its input was taken only if it was put before the model, in the caller's turn. *)
TakenWasShown ==
  \A i \in Inputs : inputs[i].st = "accepted" =>
    \E b \in DOMAIN asks : i \in asks[b].batch /\ asks[b].step = "reported" /\ asks[b].turn = inputs[i].turn

(* An input is shown at one boundary, never again. *)
ShownOnce ==
  \A b, c \in DOMAIN asks : b # c /\ WasShown(b) /\ WasShown(c) => asks[b].batch \cap asks[c].batch = {}

(* What is shown was allowed with every caller still waiting and its scope still valid: an input that *)
(* was refused before is not slipped in with the rest of its batch.                                    *)
RefusedStaysOut ==
  \A b \in DOMAIN asks : WasShown(b) => asks[b].meant = asks[b].batch /\ asks[b].scope
=============================================================================
