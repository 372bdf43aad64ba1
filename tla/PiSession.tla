----------------------------- MODULE PiSession -----------------------------
(***************************************************************************)
(* A session of the Pi adapter (adapters/pi.ts, pi-rpc.ts): one supervised *)
(* pi process per turn, which has to prove that it opened the session's    *)
(* conversation before it is given the input; its events; insertions into  *)
(* the turn that runs; interrupts, deadlines and model switches; and what  *)
(* the next turn may continue.  mode is "rpc" or, for an older pi, "json". *)
(* The process (pi itself) is external: it may open another conversation,  *)
(* refuse, fail, retry, or end at any moment, and its descendants may      *)
(* outlive it.                                                             *)
(***************************************************************************)
EXTENDS Naturals, Sequences, FiniteSets

CONSTANTS
  MaxTurns,     \* bound: turns
  MaxInserts,   \* bound: insertions, all of the same text
  MaxSwitches   \* bound: model switches
Other == 2      \* a conversation that is not the session's; the session's is 1, none is 0

VARIABLES
  mode,
  session,      \* fields of PiSession: current, started, native, target, pending, model, revision
  turn,         \* locals of run()
  trees,        \* the supervised process trees, one per turn: live, closed, conv, model, prompts
  insertions    \* of every turn: accepted, consumed, st; seen: pi has really consumed it

vars == <<mode, session, turn, trees, insertions>>

N == Len(trees)
Idle == [at |-> "idle", previous |-> 0, nativeModel |-> 0, revision |-> 0, terminal |-> "none",
         outcome |-> "none", tools |-> 0, chan |-> FALSE, started |-> FALSE, accepted |-> FALSE,
         observed |-> FALSE, settled |-> FALSE, stopped |-> FALSE, final |-> "none"]
Running == turn.at \notin {"idle", "over"}
\* native: the conversation and the model its last turn ran with
Nothing == [conv |-> 0, model |-> 0]

\* PiRpcChannel.close: what waits is rejected
Closed(ins) == [i \in DOMAIN ins |-> IF ins[i].st = "waiting" THEN [ins[i] EXCEPT !.st = "rejected"] ELSE ins[i]]
\* terminal is set, the channel closed, the tree told to stop
Stopping(t, terminal) == [t EXCEPT !.terminal = terminal, !.stopped = TRUE, !.chan = FALSE]
Stop(terminal) == turn' = Stopping(turn, terminal) /\ insertions' = Closed(insertions)

\* captureContinuation: only of a tree that has stopped; a damaged file leaves nothing to continue.
CapturedEarly(s, live) ==
  IF s.native # Nothing \/ s.target = 0 THEN {s}
  ELSE {[s EXCEPT !.target = 0, !.native = [conv |-> s.target, model |-> trees[N].model]],
        [s EXCEPT !.target = 0]}
Captured(s, live) ==
  IF s.native # Nothing \/ s.target = 0 \/ live THEN {s}
  ELSE {[s EXCEPT !.target = 0, !.native = [conv |-> s.target, model |-> trees[N].model]],
        [s EXCEPT !.target = 0]}
\* What the process said it had opened; an older pi may not have said so.
Named == (IF mode = "json" THEN {0} ELSE {})
         \cup (IF turn.previous \in {0, trees[N].conv} THEN {trees[N].conv} ELSE {})
\* finish(): one final; the session may continue what was prompted, or what it had.
Finished(status, live) ==
  LET t == turn
      freed == [session EXCEPT !.current = 0]
  IN /\ turn' = [t EXCEPT !.at = "over", !.final = status, !.chan = FALSE]
     /\ insertions' = Closed(insertions)
     /\ IF t.at = "sent"
          THEN \E named \in Named : \E s \in Captured([freed EXCEPT !.target = named], live) :
                 session' = IF s.native # Nothing /\ t.revision = s.revision THEN [s EXCEPT !.pending = FALSE] ELSE s
        ELSE IF t.previous # 0
          THEN \E kept \in {Nothing, [conv |-> t.previous, model |-> t.nativeModel]} :
                 session' = [freed EXCEPT !.native = kept]
        ELSE session' = [freed EXCEPT !.started = FALSE]
------------------------------------------------------------------------------
Init ==
  /\ mode \in {"rpc", "json"} /\ trees = <<>> /\ insertions = <<>> /\ turn = Idle
  /\ session = [current |-> 0, started |-> FALSE, native |-> Nothing, target |-> 0,
                pending |-> FALSE, model |-> 1, revision |-> 0]

\* send(): refused while a process is the session's, or where a conversation cannot be continued.
\* A process that continues one first has to report its guard.
Send ==
  /\ session.current = 0 /\ ~Running /\ N < MaxTurns
  /\ \E s \in Captured(session, N > 0 /\ trees[N].live), conv \in {1, Other} :
       LET n == N + 1
           model == IF s.native # Nothing /\ ~s.pending THEN s.native.model ELSE s.model
           t == [Idle EXCEPT !.previous = s.native.conv, !.nativeModel = s.native.model,
                             !.revision = s.revision, !.chan = mode = "rpc",
                             !.at = IF s.native # Nothing THEN "guarding" ELSE "asking"]
       IN IF s.native = Nothing /\ s.started THEN session' = s /\ UNCHANGED <<turn, trees>>
          ELSE /\ session' = [s EXCEPT !.current = n, !.started = TRUE, !.native = Nothing, !.target = 0]
               /\ turn' = t
               /\ trees' = Append(trees, [live |-> TRUE, closed |-> FALSE, conv |-> conv, model |-> model,
                                          switched |-> s.revision, prompts |-> 0])
  /\ UNCHANGED <<mode, insertions>>
\* The file the conversation was in has changed: the turn is refused.
Unverified ==
  /\ session.current = 0 /\ session.native # Nothing
  /\ session' = [session EXCEPT !.native = Nothing]
  /\ UNCHANGED <<mode, turn, trees, insertions>>

Guarded ==
  /\ turn.at = "guarding" /\ turn.terminal = "none"
  /\ turn' = [turn EXCEPT !.at = "asking"]
  /\ UNCHANGED <<mode, session, trees, insertions>>
Prompted == trees' = [trees EXCEPT ![N].prompts = @ + 1]
\* Identity of the RPC process (get_state), then the prompt; an older pi is just given it.
Identified ==
  /\ turn.at = "asking" /\ turn.terminal = "none" /\ ~trees[N].closed
  /\ IF mode = "rpc" /\ trees[N].conv # 1
       THEN Stop("failed") /\ UNCHANGED trees
       ELSE turn' = [turn EXCEPT !.at = "sent"] /\ Prompted /\ UNCHANGED insertions
  /\ UNCHANGED <<mode, session>>
\* The header line of an older pi names its conversation, after it has the prompt or before.
Header ==
  /\ mode = "json" /\ Running /\ ~trees[N].closed /\ turn.previous # 0 /\ trees[N].conv # turn.previous
  /\ Stop("failed") /\ UNCHANGED <<mode, session, trees>>

Sent == turn.at = "sent" /\ ~trees[N].closed
PromptAnswered(ok) ==
  /\ Sent /\ turn.chan /\ ~turn.accepted
  /\ IF ok THEN turn' = [turn EXCEPT !.accepted = TRUE] /\ UNCHANGED insertions ELSE Stop("failed")
  /\ UNCHANGED <<mode, session, trees>>
\* agent_start, then the prompt comes back as the first user message.
UserMessage ==
  /\ Sent /\ ~turn.observed /\ turn' = [turn EXCEPT !.observed = TRUE, !.started = TRUE]
  /\ UNCHANGED <<mode, session, trees, insertions>>
ToolEvent ==
  /\ Sent /\ turn.observed /\ turn' = [turn EXCEPT !.tools = 1 - @]
  /\ UNCHANGED <<mode, session, trees, insertions>>
\* message_end of the assistant: an error may be retried by an RPC process, ends an older one.
Assistant(reason) ==
  /\ Sent /\ turn.observed
  /\ CASE reason = "stop" -> turn' = [turn EXCEPT !.outcome = "completed"] /\ UNCHANGED insertions
       [] reason = "tool" -> turn' = [turn EXCEPT !.outcome = "none"] /\ UNCHANGED insertions
       [] reason = "aborted" -> Stop("interrupted")
       [] reason = "error" ->
            IF mode = "rpc" THEN turn' = [turn EXCEPT !.outcome = "failed"] /\ UNCHANGED insertions
            ELSE turn' = [Stopping(turn, "failed") EXCEPT !.outcome = "failed"] /\ insertions' = Closed(insertions)
  /\ UNCHANGED <<mode, session, trees>>
\* agent_settled: the first terminal state stands; an RPC process is told to close.
Settled(aborted) ==
  /\ Sent /\ turn.observed /\ ~turn.settled
  /\ turn' = [turn EXCEPT !.settled = TRUE, !.chan = FALSE,
       !.terminal = IF @ # "none" THEN @ ELSE IF aborted THEN "interrupted"
                    ELSE IF mode = "json" THEN "completed"
                    ELSE IF turn.outcome = "none" THEN "failed" ELSE turn.outcome]
  /\ insertions' = Closed(insertions)
  /\ UNCHANGED <<mode, session, trees>>

\* interrupt(), the abort signal and the turn's deadline override whatever was settled before.
Cut(terminal) == Running /\ Stop(terminal) /\ UNCHANGED <<mode, session, trees>>
StartupGuard ==
  /\ turn.at \in {"guarding", "asking"} /\ (mode = "rpc" \/ turn.previous # 0)
  /\ Stop("failed") /\ UNCHANGED <<mode, session, trees>>
ShutdownGuard ==
  /\ mode = "rpc" /\ Running /\ turn.settled /\ Stop("failed") /\ UNCHANGED <<mode, session, trees>>
\* Close is the end of the turn: complete only if everything says so.
Close(code) ==
  /\ Running /\ ~trees[N].closed
  /\ LET complete == /\ code = 0 /\ turn.terminal # "failed" /\ turn.at = "sent" /\ turn.tools = 0
                     /\ mode = "rpc" => turn.terminal = "completed" /\ turn.outcome = "completed"
         final == IF turn.terminal \in {"interrupted", "timeout"} THEN turn.terminal
                  ELSE IF complete THEN "completed" ELSE "failed"
     IN \E live \in BOOLEAN :
          trees' = [trees EXCEPT ![N].closed = TRUE, ![N].live = live] /\ Finished(final, live)
  /\ UNCHANGED mode
TreeStops(n) ==
  /\ trees[n].closed /\ trees[n].live /\ trees' = [trees EXCEPT ![n].live = FALSE]
  /\ UNCHANGED <<mode, session, turn, insertions>>

SwitchModel ==
  /\ session.revision < MaxSwitches
  /\ session' = [session EXCEPT !.model = @ + 1, !.pending = TRUE, !.revision = @ + 1]
  /\ UNCHANGED <<mode, turn, trees, insertions>>

\* PiRpcChannel.insert: only into an accepted prompt whose message was seen.
Insert ==
  /\ Len(insertions) < MaxInserts /\ Running /\ turn.chan /\ turn.started /\ turn.observed /\ turn.accepted
  /\ insertions' = Append(insertions, [turn |-> N, accepted |-> FALSE, consumed |-> FALSE,
                                       st |-> "waiting", seen |-> FALSE, answered |-> FALSE])
  /\ UNCHANGED <<mode, session, turn, trees>>
Completed(i) == [i EXCEPT !.st = IF @ = "waiting" /\ i.accepted /\ i.consumed THEN "resolved" ELSE @]
Steered(i, ok) ==
  /\ Sent /\ insertions[i].turn = N /\ ~insertions[i].answered
  /\ insertions' = [insertions EXCEPT ![i] =
       LET told == [@ EXCEPT !.answered = TRUE] IN
       IF told.st # "waiting" THEN told
       ELSE IF ok THEN Completed([told EXCEPT !.accepted = TRUE]) ELSE [told EXCEPT !.st = "rejected"]]
  /\ UNCHANGED <<mode, session, turn, trees>>
\* pi hands an insertion to its model and reports the text: the first that waits for it is credited.
Consumed(i) ==
  LET matching == {j \in DOMAIN insertions : insertions[j].st = "waiting" /\ ~insertions[j].consumed}
      first == CHOOSE j \in matching : \A k \in matching : j <= k
      seen == [insertions EXCEPT ![i].seen = TRUE]
  IN /\ Sent /\ insertions[i].turn = N /\ ~insertions[i].seen /\ ~turn.settled
     /\ insertions' = IF turn.chan /\ matching # {}
                        THEN [seen EXCEPT ![first] = Completed([@ EXCEPT !.consumed = TRUE])] ELSE seen
     /\ UNCHANGED <<mode, session, turn, trees>>
GivenUp(i) ==
  /\ insertions[i].st = "waiting" /\ insertions' = [insertions EXCEPT ![i].st = "rejected"]
  /\ UNCHANGED <<mode, session, turn, trees>>

Next ==
  \/ Send \/ Unverified \/ Guarded \/ Identified \/ Header \/ UserMessage \/ ToolEvent
  \/ \E ok \in BOOLEAN : PromptAnswered(ok) \/ Settled(ok)
  \/ \E reason \in {"stop", "tool", "aborted", "error"} : Assistant(reason)
  \/ \E terminal \in {"interrupted", "timeout"} : Cut(terminal)
  \/ StartupGuard \/ ShutdownGuard \/ SwitchModel \/ Insert
  \/ \E code \in {0, 1} : Close(code)
  \/ \E n \in DOMAIN trees : TreeStops(n)
  \/ \E i \in DOMAIN insertions : Consumed(i) \/ GivenUp(i) \/ \E ok \in BOOLEAN : Steered(i, ok)

Spec == Init /\ [][Next]_vars
------------------------------------------------------------------------------
(* The conversation is never replaced behind the user's back: an input goes to a process that has
   opened the session's conversation (an older pi reports too late, and its turn fails), at most
   once per turn, and no two trees that were given input work on it at the same time. *)
OneConversation ==
  /\ \A n \in DOMAIN trees : trees[n].prompts <= 1 /\ (mode = "rpc" /\ trees[n].prompts = 1 => trees[n].conv = 1)
  /\ Cardinality({n \in DOMAIN trees : trees[n].live /\ trees[n].prompts = 1}) <= 1

(* A turn that is reported complete was given its input and settled without an abort, with its last
   answer complete and no tool open; its final comes once its process is gone. *)
CompleteIsSettled ==
  turn.final = "completed" =>
    trees[N].prompts = 1 /\ turn.tools = 0 /\ (mode = "rpc" => turn.settled /\ turn.outcome = "completed")

(* The latest model switch reaches the next process that starts: no turn that began before it, and
   no continuation captured after it, takes it back. *)
SwitchReachesNext ==
  /\ Running /\ trees[N].switched > 0 => trees[N].model >= trees[N].switched + 1
  /\ session.revision > 0 /\ ~session.pending /\ session.native # Nothing =>
       session.native.model = session.model

(* An insertion is reported delivered only if pi accepted it and consumed its text, in the turn it
   was meant for; and a text once consumed vouches for one insertion. *)
DeliveredWasConsumed ==
  \A n \in DOMAIN trees :
    LET mine(P(_)) == Cardinality({i \in DOMAIN insertions : insertions[i].turn = n /\ P(insertions[i])})
        resolved(i) == i.st = "resolved"
        seen(i) == i.seen
    IN mine(resolved) <= mine(seen)
=============================================================================
