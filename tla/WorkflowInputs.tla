--------------------------- MODULE WorkflowInputs ---------------------------
(***************************************************************************)
(* Inputs inserted into the running turn of a workflow's node.  The engine *)
(* writes a receipt before the adapter may give the input to the agent and *)
(* settles it afterwards; the caller asks again by the input's id, during  *)
(* the insertion, after the turn and after a crash.                        *)
(***************************************************************************)
EXTENDS Naturals, FiniteSets

CONSTANTS Inputs,     (* the ids the callers give their inputs *)
          Payloads,   (* what an input says *)
          MaxTurns,   (* turns of the node's session *)
          MaxCalls,   (* calls made to the engine *)
          MaxLosses,  (* deaths of the engine *)
          None

VARIABLES run,      (* the engine's run: in memory or not, its status and control epoch *)
          turn,     (* the turns of the session: none, open or over; one is open at a time *)
          calls,    (* the calls made, in order: what each carries and how far it is *)
          receipts, (* the store's receipts, by input id *)
          jobs,     (* inputs whose insertion this engine has under way *)
          applied,  (* what the agent was given, with the epoch and the receipt at that time *)
          losses

vars == <<run, turn, calls, receipts, jobs, applied, losses>>

Turns == 1 .. MaxTurns
Made == DOMAIN calls
Opened == {t \in Turns : turn[t] = "open"}

Init ==
  /\ run = [live |-> TRUE, status |-> "running", epoch |-> 1]
  /\ turn = [t \in Turns |-> IF t = 1 THEN "open" ELSE "none"]
  /\ calls = <<>> /\ receipts = [i \in Inputs |-> None]
  /\ jobs = {} /\ applied = {} /\ losses = 0

(* inputReceipt: an insertion that nobody has under way has an unknown outcome. *)
Receipt(i) ==
  IF receipts[i].state = "inserting" /\ i \notin jobs THEN "unknown" ELSE receipts[i].state

Active(epoch) == run.live /\ run.status = "running" /\ run.epoch = epoch
(* assertInsertionScope: the turn is open and the run is where the call found it. *)
InScope(c) == turn[c.turn] = "open" /\ Active(c.epoch)

Answered(answer, i, x, t) ==
  [id |-> i, payload |-> x, turn |-> t, epoch |-> run.epoch, step |-> "answered", answer |-> answer]

(* input: a receipt answers for itself; otherwise the input is for the open turn of this run. *)
Call(i, x, t) ==
  /\ run.live \/ receipts[i] # None
  /\ Cardinality(Made) < MaxCalls
  /\ calls' = [c \in Made \union {Cardinality(Made) + 1} |->
       IF c \in Made THEN calls[c]
       ELSE IF receipts[i] # None
            THEN Answered(IF receipts[i].payload = x THEN Receipt(i) ELSE "refused", i, x, t)
            ELSE IF Active(run.epoch) /\ turn[t] = "open"
                 THEN [Answered(None, i, x, t) EXCEPT !.step = "entered"]
                 ELSE Answered("refused", i, x, t)]
  /\ UNCHANGED <<run, turn, receipts, jobs, applied, losses>>

Refuse(n) ==
  /\ calls' = [calls EXCEPT ![n].step = "answered", ![n].answer = "refused"]
  /\ jobs' = jobs \ {calls[n].id}
  /\ UNCHANGED receipts

(* workflowInputReserve, in beforeInsertion. *)
Reserve(n) ==
  LET c == calls[n]
  IN  /\ c.step = "entered"
      /\ IF InScope(c) /\ receipts[c.id] = None
         THEN /\ receipts' = [receipts EXCEPT ![c.id] =
                                [payload |-> c.payload, turn |-> c.turn, state |-> "inserting"]]
              /\ jobs' = jobs \union {c.id}
              /\ calls' = [calls EXCEPT ![n].step = "reserved"]
         ELSE Refuse(n)
      /\ UNCHANGED <<run, turn, applied, losses>>

(* The turn closes before the insertion is settled: the race in send is lost. *)
TurnCloses(n) ==
  /\ calls[n].step = "entered" /\ turn[calls[n].turn] = "over"
  /\ Refuse(n) /\ UNCHANGED <<run, turn, applied, losses>>

(* workflowInputFinish: only what is still being inserted is settled, and by its own payload. *)
Finished(c, state) ==
  IF receipts[c.id] # None /\ receipts[c.id].state = "inserting" /\ receipts[c.id].payload = c.payload
  THEN [receipts EXCEPT ![c.id].state = state] ELSE receipts
Settle(n, step, state) ==
  LET c == calls[n]
  IN  /\ receipts' = Finished(c, state)
      /\ jobs' = jobs \ {c.id}
      /\ calls' = [calls EXCEPT ![n].step = step, ![n].answer = receipts'[c.id].state]

(* The adapter reaches a tool gap: beforeApply decides, then the agent is given the input. *)
Apply(n) ==
  LET c == calls[n]
  IN  /\ c.step \in {"reserved", "given up"} /\ InScope(c)
      /\ applied' = applied \union {[call |-> n, id |-> c.id, turn |-> c.turn, asked |-> c.epoch,
                                     epoch |-> run.epoch, state |-> receipts[c.id].state]}
      /\ calls' = [calls EXCEPT ![n].step = "applied"]
      /\ UNCHANGED <<run, turn, receipts, jobs, losses>>

(* beforeApply refuses, the authority of the project is gone, or the adapter cannot insert. *)
Fails(n) ==
  /\ calls[n].step \in {"reserved", "applied"}
  /\ Settle(n, "answered", "unknown") /\ UNCHANGED <<run, turn, applied, losses>>

(* The race is lost while the adapter still has the input: the caller is told, the adapter is not. *)
GivesUp(n) ==
  /\ calls[n].step \in {"reserved", "applied"} /\ turn[calls[n].turn] = "over"
  /\ Settle(n, IF calls[n].step = "reserved" THEN "given up" ELSE "answered", "unknown")
  /\ UNCHANGED <<run, turn, applied, losses>>

Inserted(n) ==
  /\ calls[n].step = "applied" /\ turn[calls[n].turn] = "open"
  /\ Settle(n, "answered", "inserted") /\ UNCHANGED <<run, turn, applied, losses>>

(* Pause, cancel and timeout first move the control boundary, then interrupt the session. *)
Pause ==
  /\ Active(run.epoch)
  /\ run' = [run EXCEPT !.status = "paused", !.epoch = @ + 1]
  /\ UNCHANGED <<turn, calls, receipts, jobs, applied, losses>>

TurnEnds(t) ==
  /\ turn[t] = "open" /\ turn' = [turn EXCEPT ![t] = "over"]
  /\ UNCHANGED <<run, calls, receipts, jobs, applied, losses>>

(* The node's next turn, or the first one after resume. *)
TurnStarts(t) ==
  /\ Opened = {} /\ turn[t] = "none" /\ t > 1 /\ turn[t - 1] = "over"
  /\ turn' = [turn EXCEPT ![t] = "open"]
  /\ run' = [run EXCEPT !.live = TRUE, !.status = "running"]
  /\ UNCHANGED <<calls, receipts, jobs, applied, losses>>

(* The engine dies with its calls and its agent; the next one finds the receipts. *)
Crash ==
  /\ losses < MaxLosses /\ losses' = losses + 1
  /\ run' = [run EXCEPT !.live = FALSE, !.status = "paused", !.epoch = @ + 1]
  /\ turn' = [t \in Turns |-> IF turn[t] = "open" THEN "over" ELSE turn[t]]
  /\ calls' = [n \in Made |-> IF calls[n].step = "answered" THEN calls[n]
                              ELSE [calls[n] EXCEPT !.step = "answered"]]
  /\ jobs' = {} /\ UNCHANGED <<receipts, applied>>

Next ==
  \/ \E i \in Inputs, x \in Payloads, t \in Turns : turn[t] # "none" /\ Call(i, x, t)
  \/ \E n \in Made : Reserve(n) \/ TurnCloses(n) \/ Apply(n) \/ Fails(n) \/ GivesUp(n) \/ Inserted(n)
  \/ \E t \in Turns : TurnEnds(t) \/ TurnStarts(t)
  \/ Pause \/ Crash

Spec == Init /\ [][Next]_vars

(* However often an input is sent, the agent is given it once: repeated calls of input, two at the *)
(* same time, a retry after a crash. *)
GivenOnce == \A a, b \in applied : a.id = b.id => a = b

(* The agent is only given an input whose receipt is open at that moment, by the run that accepted *)
(* it: what a caller was told has an unknown outcome is not carried out afterwards, and nothing *)
(* reaches a run that was paused or left in between. *)
GivenWhileOpen == \A a \in applied : a.state = "inserting" /\ a.epoch = a.asked

(* What input or its status answers: an inserted input was given to the agent in the turn it named, *)
(* with the payload asked for, and a call that was refused gave nothing. *)
ToldIsTrue ==
  /\ \A i \in Inputs : receipts[i] # None /\ receipts[i].state = "inserted" =>
       \E a \in applied : a.id = i /\ a.turn = receipts[i].turn
                          /\ calls[a.call].payload = receipts[i].payload
  /\ \A n \in Made : calls[n].answer = "refused" => \A a \in applied : a.call # n
=============================================================================
