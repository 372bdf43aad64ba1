------------------------------ MODULE CodexTurn ------------------------------
(***************************************************************************)
(* Turns of the Codex adapter over an app-server (codex-app-server.ts,     *)
(* codex-native-requests.ts, runAppServer): one process per turn, joined   *)
(* by two pipes.  The adapter binds the session's thread, starts one turn  *)
(* in it, steers inputs into that turn, and lets a human answer what the   *)
(* program asks.  The program is external: it may open another thread,     *)
(* announce its turn before or after the reply, drop an input it accepted, *)
(* withdraw a question, start a turn of its own, or die.                   *)
(***************************************************************************)
EXTENDS Naturals, Sequences

CONSTANTS
  MaxTurns,    \* bound: turns of the session
  Inputs,      \* inputs steered into a turn
  Questions    \* what the program asks
Foreign == MaxTurns + 1   \* a turn the program started by itself

VARIABLES
  thread,   \* the session's thread, 0 until one is bound
  turns,    \* how each turn ended: completed, or failed however it was cut
  chan,     \* the adapter's channel: step, native turn, original observed, ended, failed
  inputs,   \* insertAtToolGap: its turn, what is confirmed, and its state
  asked,    \* the questions as the adapter knows them
  native,   \* the program: live, its thread and turn, inputs it holds, what the agent was given
  up,       \* frames to the program
  down      \* frames to the adapter

vars == <<thread, turns, chan, inputs, asked, native, up, down>>

N == Len(turns)
Closed == [step |-> "closed", native |-> 0, observed |-> FALSE, ended |-> FALSE, failed |-> FALSE]
Nothing == [turn |-> 0, accepted |-> FALSE, observed |-> FALSE, st |-> "none"]
Working == chan.step # "closed" /\ ~ chan.failed

Init ==
  /\ thread = 0 /\ turns = <<>> /\ chan = Closed /\ up = <<>> /\ down = <<>>
  /\ inputs = [i \in Inputs |-> Nothing] /\ asked = [q \in Questions |-> "none"]
  /\ native = [live |-> FALSE, thread |-> 0, turn |-> 0, holds |-> {}, given |-> {}, waits |-> {},
               reported |-> {}, ran |-> {}]

(* send, up to thread/start or thread/resume. *)
Send ==
  /\ chan.step = "closed" /\ N < MaxTurns
  /\ turns' = Append(turns, "running") /\ chan' = [Closed EXCEPT !.step = "binding"]
  /\ native' = [native EXCEPT !.live = TRUE, !.thread = 0, !.turn = 0, !.holds = {}, !.waits = {}]
  /\ up' = <<[k |-> "thread", id |-> thread]>> /\ down' = <<>>
  /\ UNCHANGED <<thread, inputs, asked>>

(* What waits for the turn when it is over: insertions are refused, questions withdrawn. *)
Refused(is) == [i \in Inputs |-> IF is[i].st = "waiting" THEN [is[i] EXCEPT !.st = "refused"] ELSE is[i]]
Dropped(qs) == [q \in Questions |-> IF qs[q] = "open" THEN "dropped" ELSE qs[q]]
(* finish: the first outcome counts. *)
Outcome(t, status) == [t EXCEPT ![N] = IF @ = "running" THEN status ELSE @]
(* fail: the channel takes nothing more and writes nothing more; the process is told to stop. *)
Fail ==
  /\ chan' = [chan EXCEPT !.failed = TRUE] /\ turns' = Outcome(turns, "failed")
  /\ inputs' = Refused(inputs) /\ asked' = Dropped(asked)
Foul == Fail /\ UNCHANGED <<thread, up>>

(* bindThread and arm: only a turn in the session's own thread is started. *)
Bound(f) ==
  IF f.id = 0 \/ (thread # 0 /\ f.id # thread) THEN Foul
  ELSE /\ thread' = f.id /\ chan' = [chan EXCEPT !.step = "armed"]
       /\ up' = Append(up, [k |-> "start", id |-> 0]) /\ UNCHANGED <<turns, inputs, asked>>
(* acceptStart, from the notification or the reply. *)
Started(f) ==
  IF chan.native \notin {0, f.id} \/ chan.ended THEN Foul
  ELSE chan' = [chan EXCEPT !.native = f.id] /\ UNCHANGED <<thread, turns, inputs, asked, up>>
(* runAppServer looks at the reply only while the turn has no outcome. *)
Replied(f) ==
  IF turns[N] = "running" THEN Started(f) ELSE UNCHANGED <<thread, turns, chan, inputs, asked, up>>
Owns(f) == ~ chan.ended /\ chan.native # 0 /\ f.turn = chan.native
(* A user message of the turn: the original prompt, or an input that was steered. *)
Confirmed(i) == IF i.accepted /\ i.observed /\ i.st = "waiting" THEN [i EXCEPT !.st = "inserted"] ELSE i
Heard(f) ==
  /\ chan' = [chan EXCEPT !.observed = @ \/ (Owns(f) /\ f.id = 0)]
  /\ inputs' = IF Owns(f) /\ f.id # 0
               THEN [inputs EXCEPT ![f.id] = Confirmed([@ EXCEPT !.observed = TRUE])] ELSE inputs
  /\ UNCHANGED <<thread, turns, asked, up>>
Steered(f) ==
  /\ inputs' = [inputs EXCEPT ![f.id] =
       IF @.st # "waiting" THEN @
       ELSE IF f.turn # chan.native \/ chan.ended THEN [@ EXCEPT !.st = "refused"]
       ELSE Confirmed([@ EXCEPT !.accepted = TRUE])]
  /\ UNCHANGED <<thread, turns, chan, asked, up>>
Completes(f) ==
  IF f.id # chan.native \/ chan.ended THEN UNCHANGED <<thread, turns, chan, inputs, asked, up>>
  ELSE /\ chan' = [chan EXCEPT !.ended = TRUE] /\ turns' = Outcome(turns, f.status)
       /\ inputs' = Refused(inputs) /\ asked' = Dropped(asked) /\ UNCHANGED <<thread, up>>
(* handleRequest: a question outside the turn is refused at once. *)
Questioned(f) ==
  IF Owns(f) /\ asked[f.id] = "none"
  THEN asked' = [asked EXCEPT ![f.id] = "open"] /\ UNCHANGED <<thread, turns, chan, inputs, up>>
  ELSE up' = Append(up, [k |-> "answer", id |-> f.id]) /\ UNCHANGED <<thread, turns, chan, inputs, asked>>
Withdrawn(f) ==
  /\ asked' = [asked EXCEPT ![f.id] = IF @ = "open" THEN "dropped" ELSE @]
  /\ UNCHANGED <<thread, turns, chan, inputs, up>>

(* read, one frame. *)
Read ==
  /\ Working /\ down # <<>> /\ down' = Tail(down) /\ UNCHANGED native
  /\ LET f == Head(down)
     IN  CASE f.k = "thread" -> Bound(f) [] f.k = "started" -> Started(f) [] f.k = "reply" -> Replied(f)
           [] f.k = "user" -> Heard(f) [] f.k = "steered" -> Steered(f) [] f.k = "done" -> Completes(f)
           [] f.k = "ask" -> Questioned(f) [] f.k = "resolved" -> Withdrawn(f)

(* insert: while the original prompt is observed in the turn that runs. *)
Insert(i) ==
  /\ chan.step # "closed" /\ inputs[i].st = "none"
  /\ IF Working /\ chan.observed /\ ~ chan.ended
     THEN /\ inputs' = [inputs EXCEPT ![i] = [Nothing EXCEPT !.turn = N, !.st = "waiting"]]
          /\ up' = Append(up, [k |-> "steer", id |-> i, turn |-> chan.native])
     ELSE inputs' = [inputs EXCEPT ![i].st = "refused"] /\ UNCHANGED up
  /\ UNCHANGED <<thread, turns, chan, asked, native, down>>
(* The caller's signal, or thirty seconds without a reply. *)
GivesUp(i) ==
  /\ inputs[i].st = "waiting" /\ inputs' = [inputs EXCEPT ![i].st = "refused"]
  /\ UNCHANGED <<thread, turns, chan, asked, native, up, down>>
(* The human's decision, written only for a question that is still open in the live turn. *)
Answer(q) ==
  /\ asked[q] = "open" /\ Working /\ ~ chan.ended
  /\ asked' = [asked EXCEPT ![q] = "answered"] /\ up' = Append(up, [k |-> "answer", id |-> q])
  /\ UNCHANGED <<thread, turns, chan, inputs, native, down>>

(* Abort; the guard's half hour; a process that closed, a frame that cannot be read, a request   *)
(* without reply.                                                                                *)
Breaks == Working /\ Fail /\ UNCHANGED <<thread, native, up, down>>
(* close: the turn has an outcome; it is told when the process tree has stopped. *)
Over == turns[N] # "running"
Close ==
  /\ chan.step # "closed" /\ Over
  /\ chan' = Closed /\ native' = [native EXCEPT !.live = FALSE, !.turn = 0]
  /\ inputs' = Refused(inputs) /\ asked' = Dropped(asked) /\ up' = <<>> /\ down' = <<>>
  /\ UNCHANGED <<thread, turns>>

(* The program. *)
Tell(f) == down' = down \o f
Takes ==
  /\ native.live /\ up # <<>> /\ up' = Tail(up)
  /\ LET f == Head(up)
     IN  \/ /\ f.k = "thread"
            /\ \E id \in IF f.id = 0 THEN {N} ELSE {0, f.id, Foreign} :
                 Tell(<<[k |-> "thread", id |-> id]>>) /\ native' = [native EXCEPT !.thread = id]
         \/ /\ f.k = "start"
            /\ native' = [native EXCEPT !.turn = N, !.holds = {0}, !.ran = @ \union {native.thread}]
            /\ LET s == [k |-> "started", id |-> N]  r == [k |-> "reply", id |-> N]
               IN  Tell(<<s, r>>) \/ Tell(<<r, s>>)
         \/ /\ f.k = "steer" /\ LET ok == native.turn = f.turn
                IN  /\ Tell(<<[k |-> "steered", id |-> f.id, turn |-> IF ok THEN f.turn ELSE 0]>>)
                    /\ native' = IF ok THEN [native EXCEPT !.holds = @ \union {f.id}] ELSE native
         \/ /\ f.k = "answer" /\ UNCHANGED down
            /\ native' = [native EXCEPT !.waits = @ \ {f.id}]
  /\ UNCHANGED <<thread, turns, chan, inputs, asked>>
Program(n) == native.live /\ native' = n /\ UNCHANGED <<thread, turns, chan, inputs, asked, up>>
Uses(i) ==
  /\ i \in native.holds /\ native.turn = N
  /\ Tell(<<[k |-> "user", id |-> i, turn |-> N]>>)
  /\ Program([native EXCEPT !.holds = @ \ {i}, !.given = IF i = 0 THEN @ ELSE @ \union {<<i, N>>}])
Asks(q) ==
  /\ native.turn # 0 /\ asked[q] = "none" /\ \A f \in {down[j] : j \in DOMAIN down} : f.k # "ask"
  /\ Tell(<<[k |-> "ask", id |-> q, turn |-> native.turn]>>)
  /\ Program([native EXCEPT !.waits = @ \union {q}])
Withdraws(q) ==
  /\ q \in native.waits /\ Tell(<<[k |-> "resolved", id |-> q]>>)
  /\ Program([native EXCEPT !.waits = @ \ {q}])
EndsTurn ==
  /\ native.turn = N
  /\ \E status \in {"completed", "failed"}, again \in BOOLEAN :
       /\ Tell(<<[k |-> "done", id |-> N, status |-> status]>>
               \o IF again THEN <<[k |-> "started", id |-> Foreign]>> ELSE <<>>)
       /\ Program([native EXCEPT !.turn = IF again THEN Foreign ELSE 0, !.holds = {}, !.waits = {},
                                 !.reported = @ \union {<<N, status>>}])
ProgramDies ==
  Program([native EXCEPT !.live = FALSE, !.turn = 0, !.holds = {}]) /\ UNCHANGED down

Next ==
  \/ Send \/ Read \/ Breaks \/ Close \/ Takes \/ EndsTurn \/ ProgramDies
  \/ \E i \in Inputs : Insert(i) \/ GivesUp(i)
  \/ \E i \in Inputs \union {0} : Uses(i)
  \/ \E q \in Questions : Answer(q) \/ Asks(q) \/ Withdraws(q)

Spec == Init /\ [][Next]_vars

(* An input whose insertion is confirmed was given to the agent in the turn it was meant for; a reply *)
(* alone, or a message of another turn, confirms nothing. *)
InsertedWasGiven == \A i \in Inputs : inputs[i].st = "inserted" => <<i, inputs[i].turn>> \in native.given

(* Nobody waits for a turn that is over: when the channel failed, ended or closed, every insertion has *)
(* its answer and no question is left before the human. *)
NothingWaits ==
  chan.step = "closed" \/ chan.failed \/ chan.ended =>
    (\A i \in Inputs : inputs[i].st # "waiting") /\ (\A q \in Questions : asked[q] # "open")

(* All prompts of the session are given to one thread, whatever failed in between, and a turn is called *)
(* completed only when the program reported that turn as completed. *)
OwnTurn ==
  /\ \A a, b \in native.ran : a = b
  /\ \A n \in 1 .. N : turns[n] = "completed" => <<n, "completed">> \in native.reported
=============================================================================
