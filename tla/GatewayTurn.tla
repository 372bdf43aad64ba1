---------------------------- MODULE GatewayTurn ----------------------------
(***************************************************************************)
(* The turns of one OpenClaw session (adapters/openclaw-gateway.ts), the   *)
(* policy each of them binds at the Gateway (gateway-client.ts) and the    *)
(* plugin there that lets a run use tools only under it (openclaw-plugin,  *)
(* tool-policy.ts).  A turn observes the idle session, binds and confirms  *)
(* its policy, observes and confirms again, and then dispatches; it may be *)
(* cut at any moment, and the next begins while it still releases.  Sockets *)
(* are lost on either side first.  The Gateway itself (its runs, when they *)
(* register, end and report) is external.                                  *)
(***************************************************************************)
EXTENDS Naturals, Sequences, FiniteSets

CONSTANTS
  MaxTurns,     \* bound: turns
  MaxLosses,    \* bound: connections lost
  MaxInjects    \* bound: contexts injected

VARIABLES
  conn,         \* GatewayClient: the epoch it is connected with, 0 for none; epochs so far
  session,      \* GatewaySession: active, pending, injected, policy (policyRelease), detached
  turns,        \* sends: at, epoch (of the policy), aborted, dispatched, items, acked, leaf, final
                \* (completed, or failed however it was cut), ended
  cut,          \* interrupt(): the turn cut, at
  wire,         \* requests on their way, in order
  replies,      \* answers to chat.send and ends of runs, on their way
  gateway,      \* alive (epochs), leaf, binding (turn, owner), known (protected runs)
  runs          \* native runs by turn: none, accepted, running, stopping, over; told (its end reported)

vars == <<conn, session, turns, cut, wire, replies, gateway, runs>>
client == <<conn, session, turns, cut>>
native == <<gateway, runs>>

Request(kind, t, dispatched) ==
  [kind |-> kind, turn |-> t, epoch |-> conn.epoch, dispatched |-> dispatched, leaf |-> turns[t].leaf]
Asks(w, kind, t, dispatched) == wire' = Append(w, Request(kind, t, dispatched))
Awaiting == [history |-> {"observing", "verifying"}, bind |-> {"binding"},
             confirm |-> {"granting", "confirming"}, release |-> {"releasing"}]
Busy == {t \in DOMAIN runs : runs[t].st \in {"accepted", "running", "stopping"}}
------------------------------------------------------------------------------
Init ==
  /\ conn = [epoch |-> 1, epochs |-> 1]
  /\ session = [active |-> 0, pending |-> <<>>, injected |-> 0, policy |-> 0, detached |-> FALSE]
  /\ turns = <<>> /\ cut = [turn |-> 0, at |-> "none"] /\ wire = <<>> /\ replies = {}
  /\ gateway = [alive |-> {1}, leaf |-> 1, binding |-> [turn |-> 0, owner |-> 0], known |-> {}]
  /\ runs = [t \in 1..MaxTurns |-> [st |-> "none", told |-> FALSE]]

Connect ==
  /\ conn.epoch = 0
  /\ conn' = [epoch |-> conn.epochs + 1, epochs |-> conn.epochs + 1]
  /\ gateway' = [gateway EXCEPT !.alive = @ \union {conn'.epoch}]
  /\ UNCHANGED <<session, turns, cut, wire, replies, runs>>
\* onClose: whoever waits for a reply is rejected (Fails, CutFails).
Lose ==
  /\ conn.epoch # 0 /\ conn.epochs <= MaxLosses /\ conn' = [conn EXCEPT !.epoch = 0]
  /\ replies' = {m \in replies : m.epoch # conn.epoch}
  /\ UNCHANGED <<session, turns, cut, wire, gateway, runs>>

\* send(): the engine starts a turn when the last one is over, or cut and its interrupt settled.
Send ==
  LET last == Len(turns) IN
  /\ last < MaxTurns /\ conn.epoch # 0 /\ cut.at = "none" /\ ~session.detached
  /\ last > 0 => turns[last].at = "over" \/ turns[last].aborted
  /\ turns' = Append(turns, [at |-> "observing", epoch |-> 0, aborted |-> FALSE, dispatched |-> FALSE,
                             items |-> <<>>, acked |-> FALSE, leaf |-> 0, final |-> "none", ended |-> FALSE])
  /\ wire' = Append(wire, [kind |-> "history", turn |-> last + 1, epoch |-> conn.epoch,
                           dispatched |-> FALSE, leaf |-> 0])
  /\ UNCHANGED <<conn, session, cut, replies, native>>
Inject ==
  /\ session.injected < MaxInjects
  /\ session' = [session EXCEPT !.injected = @ + 1, !.pending = Append(@, session.injected + 1)]
  /\ UNCHANGED <<conn, turns, cut, wire, replies, native>>

\* finally: the policy is released on its own connection, if that is still the client's.
Releasing(w, t, r, s) ==
  /\ session' = [s EXCEPT !.policy = IF @ = t THEN 0 ELSE @]
  /\ IF r.epoch # 0 /\ conn.epoch = r.epoch
       THEN /\ turns' = [turns EXCEPT ![t] = [r EXCEPT !.at = "releasing"]]
            /\ Asks(w, "release", t, r.dispatched)
       ELSE turns' = [turns EXCEPT ![t] = [r EXCEPT !.at = "over"]] /\ wire' = w
Gone(w, t) == Releasing(w, t, [turns[t] EXCEPT !.final = IF @ = "none" THEN "failed" ELSE @], session)
Goes(w, t, r, kind) == turns' = [turns EXCEPT ![t] = r] /\ Asks(w, kind, t, FALSE) /\ UNCHANGED session

\* accept(): what the message carried is taken from the front of what is pending, once.
Accepted(t, s) ==
  IF turns[t].acked THEN s
  ELSE [s EXCEPT !.pending = SubSeq(@, 1 + Len(turns[t].items), Len(@))]

\* A reply to the request a turn waits for takes it to its next await.
Observed(w, t, ok) ==
  LET r == turns[t] IN
  IF ~ok THEN Gone(w, t)
  ELSE IF r.aborted
    THEN Releasing(w, t, [r EXCEPT !.leaf = gateway.leaf, !.final = "failed"], session)
  ELSE Goes(w, t, [r EXCEPT !.at = "binding", !.leaf = gateway.leaf, !.epoch = conn.epoch], "bind")
Bound(w, t, ok) ==
  IF ok THEN Goes(w, t, [turns[t] EXCEPT !.at = "granting"], "confirm") ELSE Gone(w, t)
Granted(w, t, ok) ==
  LET r == turns[t] IN
  IF ~ok \/ r.aborted THEN Gone(w, t)
  ELSE /\ turns' = [turns EXCEPT ![t] = [r EXCEPT !.at = "verifying", !.items = session.pending]]
       /\ session' = [session EXCEPT !.policy = t] /\ Asks(w, "history", t, FALSE)
Verified(w, t, ok) ==
  IF ok /\ gateway.leaf = turns[t].leaf THEN Goes(w, t, [turns[t] EXCEPT !.at = "confirming"], "confirm")
  ELSE Gone(w, t)
\* Nothing is awaited between the last confirmation and chat.send.
DispatchedUnchecked(w, t, ok) ==
  LET r == turns[t] IN
  IF ~ok THEN Gone(w, t)
  ELSE /\ turns' = [turns EXCEPT ![t] = [r EXCEPT !.at = "running", !.dispatched = TRUE]]
       /\ session' = [session EXCEPT !.active = t] /\ Asks(w, "send", t, FALSE)
Dispatched(w, t, ok) ==
  LET r == turns[t] IN
  IF ~ok \/ r.aborted THEN Gone(w, t)
  ELSE /\ turns' = [turns EXCEPT ![t] = [r EXCEPT !.at = "running", !.dispatched = TRUE]]
       /\ session' = [session EXCEPT !.active = t] /\ Asks(w, "send", t, FALSE)
\* The answer to chat.send comes when it comes, also to a turn that has ended.
SendAnswered(t, m) ==
  IF m.ok
    THEN turns' = [turns EXCEPT ![t].acked = TRUE] /\ session' = Accepted(t, session) /\ UNCHANGED wire
  ELSE IF turns[t].at = "running"
    THEN Releasing(wire, t, [turns[t] EXCEPT !.final = "failed"], [session EXCEPT !.active = 0])
  ELSE UNCHANGED <<turns, session, wire>>
Answered(w, t, kind, ok) ==
  IF turns[t].at \notin Awaiting[kind] THEN UNCHANGED <<turns, session>> /\ wire' = w
  ELSE CASE turns[t].at = "observing" -> Observed(w, t, ok)
         [] turns[t].at = "binding" -> Bound(w, t, ok)
         [] turns[t].at = "granting" -> Granted(w, t, ok)
         [] turns[t].at = "verifying" -> Verified(w, t, ok)
         [] turns[t].at = "confirming" -> Dispatched(w, t, ok)
         [] turns[t].at = "releasing" ->
              turns' = [turns EXCEPT ![t].at = "over"] /\ UNCHANGED session /\ wire' = w
ReceiveSent(m) ==
  /\ m.kind = "send" /\ m.epoch = conn.epoch /\ replies' = replies \ {m}
  /\ SendAnswered(m.turn, m) /\ UNCHANGED <<conn, cut, native>>

\* handleEvent: the end of a run is the end of its own turn only, if that is still the active one.
Event(m) ==
  /\ m.kind = "end" /\ m.epoch = conn.epoch /\ replies' = replies \ {m}
  /\ LET t == m.turn  r == [turns[t] EXCEPT !.ended = TRUE] IN
     IF session.active # t THEN turns' = [turns EXCEPT ![t] = r] /\ UNCHANGED <<session, wire>>
     ELSE Releasing(wire, t, [r EXCEPT !.final = IF m.ok THEN "completed" ELSE "failed", !.acked = TRUE],
                    [Accepted(t, session) EXCEPT !.active = 0])
  /\ UNCHANGED <<conn, cut, native>>

\* What a turn waits for is refused, lost with its socket or too late.
Fails(t) ==
  /\ turns[t].at \notin {"running", "over", "releasing"} /\ Gone(wire, t)
  /\ UNCHANGED <<conn, cut, replies, native>>
RunningFails(t) ==
  /\ turns[t].at = "running"
  /\ Releasing(wire, t, [turns[t] EXCEPT !.final = "failed"], [session EXCEPT !.active = 0])
  /\ UNCHANGED <<conn, cut, replies, native>>
GivesUp(t) ==
  /\ turns[t].at = "releasing" /\ turns' = [turns EXCEPT ![t].at = "over"]
  /\ UNCHANGED <<conn, session, cut, wire, replies, native>>

\* The engine cuts a turn: its signal first, then interrupt(), which releases the policy of a turn
\* that still prepares and then aborts the run.
Cut(t) ==
  LET r == [turns[t] EXCEPT !.aborted = TRUE] IN
  /\ t = Len(turns) /\ cut.at = "none" /\ ~session.detached /\ ~turns[t].aborted
  /\ turns[t].at \notin {"over", "releasing"}
  /\ IF turns[t].at = "running"
       THEN /\ Releasing(wire, t, [r EXCEPT !.final = "failed"], [session EXCEPT !.active = 0])
            /\ cut' = [turn |-> t, at |-> "abort"]
     ELSE /\ turns' = [turns EXCEPT ![t] = r] /\ UNCHANGED session
          /\ IF session.policy = t /\ conn.epoch = r.epoch
               THEN Asks(wire, "release", t, r.dispatched) /\ cut' = [turn |-> t, at |-> "releasing"]
               ELSE UNCHANGED wire /\ cut' = [turn |-> t, at |-> "abort"]
  /\ UNCHANGED <<conn, replies, native>>
\* After the release interrupt() looks for the run that is still open: the active one, or the last.
CutAborts ==
  LET open == {t \in DOMAIN turns : ~turns[t].ended /\ turns[t].leaf # 0} IN
  /\ cut.at = "abort"
  /\ IF open = {} THEN cut' = [turn |-> 0, at |-> "none"] /\ UNCHANGED wire
     ELSE LET t == IF session.active # 0 THEN session.active ELSE CHOOSE t \in open : \A u \in open : u <= t
          IN conn.epoch # 0 /\ Asks(wire, "abort", t, FALSE) /\ cut' = [turn |-> t, at |-> "aborting"]
  /\ UNCHANGED <<conn, session, turns, replies, native>>
\* A refused or late abort: the engine gives the session object up.
CutFails ==
  /\ \/ cut.at = "releasing" /\ cut' = [cut EXCEPT !.at = "abort"] /\ UNCHANGED session
     \/ cut.at \in {"abort", "aborting"} /\ cut' = [turn |-> 0, at |-> "none"]
        /\ session' = [session EXCEPT !.detached = TRUE]
  /\ UNCHANGED <<conn, turns, wire, replies, native>>
------------------------------------------------------------------------------
\* remove(): a binding that is retired takes its run's controller with it.
Retired(rs, t) == IF t # 0 /\ rs[t].st = "running" THEN [rs EXCEPT ![t].st = "stopping"] ELSE rs
NoBinding == [turn |-> 0, owner |-> 0]
\* release: a run that was never dispatched need not be known any longer.
Unregistered(t) == runs[t].st \in {"none", "accepted"}
ForgottenAlways(m) == IF Unregistered(m.turn) THEN gateway.known \ {m.turn} ELSE gateway.known
Forgotten(m) ==
  IF ~m.dispatched /\ Unregistered(m.turn) THEN gateway.known \ {m.turn} ELSE gateway.known
Effect(m, mine, ok) ==
  CASE m.kind \in {"history", "confirm"} -> UNCHANGED <<gateway, runs>>
    [] m.kind = "bind" ->
         /\ gateway' = IF ok THEN [gateway EXCEPT !.binding = [turn |-> m.turn, owner |-> m.epoch],
                                                  !.known = @ \union {m.turn}] ELSE gateway
         /\ UNCHANGED runs
    [] m.kind = "release" ->
         /\ gateway' = [gateway EXCEPT !.binding = IF mine THEN NoBinding ELSE @,
                          !.known = IF mine \/ gateway.binding.turn = 0 THEN Forgotten(m) ELSE @]
         /\ runs' = IF mine THEN Retired(runs, m.turn) ELSE runs
    [] m.kind = "send" ->
         /\ runs' = IF ok THEN [runs EXCEPT ![m.turn].st = "accepted"] ELSE runs
         /\ UNCHANGED gateway
    [] m.kind = "abort" ->
         /\ runs' = IF m.turn \in Busy THEN [runs EXCEPT ![m.turn].st = "stopping"] ELSE runs
         /\ UNCHANGED gateway
\* A request reaches the Gateway; its answer is received with it, or never, that of chat.send later.
Handle ==
  LET m == Head(wire)
      mine == gateway.binding = [turn |-> m.turn, owner |-> m.epoch]
      ok == CASE m.kind = "history" -> Busy = {}
              [] m.kind = "bind" -> gateway.binding.turn = 0 /\ m.turn \notin gateway.known
              [] m.kind = "confirm" -> mine
              [] m.kind = "send" -> Busy = {} /\ m.leaf = gateway.leaf
              [] m.kind \in {"release", "abort"} -> TRUE
      heard == conn.epoch = m.epoch
      step == cut.turn = m.turn /\ heard
  IN /\ wire # <<>> /\ m.epoch \in gateway.alive /\ Effect(m, mine, ok)
     /\ IF heard /\ m.kind \notin {"send", "abort"} THEN Answered(Tail(wire), m.turn, m.kind, ok)
        ELSE wire' = Tail(wire) /\ UNCHANGED <<session, turns>>
     /\ replies' = IF heard /\ m.kind = "send"
                     THEN replies \union {[kind |-> "send", turn |-> m.turn, epoch |-> m.epoch, ok |-> ok]}
                     ELSE replies
     /\ cut' = CASE step /\ m.kind = "release" /\ cut.at = "releasing" -> [cut EXCEPT !.at = "abort"]
                 [] step /\ m.kind = "abort" /\ cut.at = "aborting" -> [turn |-> 0, at |-> "none"]
                 [] OTHER -> cut
     /\ UNCHANGED <<conn>>
\* The Gateway notices a lost connection: what it authorised is retired.
Disconnected(e) ==
  /\ e \in gateway.alive /\ e # conn.epoch
  /\ gateway' = [gateway EXCEPT !.alive = @ \ {e},
                                !.binding = IF gateway.binding.owner = e THEN NoBinding ELSE @]
  /\ runs' = IF gateway.binding.owner = e THEN Retired(runs, gateway.binding.turn) ELSE runs
  /\ wire' = SelectSeq(wire, LAMBDA m : m.epoch # e)
  /\ UNCHANGED <<client, replies>>

Registers(t) ==
  /\ runs[t].st = "accepted" /\ runs' = [runs EXCEPT ![t].st = "running"]
  /\ UNCHANGED <<client, wire, replies, gateway>>
\* evaluate(): a tool of a protected run needs that run's binding.
Protected(t) == t \in gateway.known \/ gateway.binding.turn # 0
MayUseTools(t) == runs[t].st = "running" /\ (Protected(t) => gateway.binding.turn = t)
\* The end is visible before the run is settled, or with it.
Ends(t) ==
  /\ t \in Busy
  /\ LET told == ~runs[t].told /\ conn.epoch # 0 /\ conn.epoch \in gateway.alive IN
     /\ \E st \in {runs[t].st, "over"} :
          /\ ~runs[t].told \/ st = "over"
          /\ runs' = [runs EXCEPT ![t] = [st |-> st, told |-> TRUE]]
          /\ gateway' = IF st = "over" THEN [gateway EXCEPT !.leaf = @ + 1,
                                               !.binding = IF @.turn = t THEN NoBinding ELSE @] ELSE gateway
     /\ replies' = IF told THEN replies \union {[kind |-> "end", turn |-> t, epoch |-> conn.epoch,
                                                 ok |-> runs[t].st = "running"]} ELSE replies
  /\ UNCHANGED <<client, wire>>

Next ==
  \/ Connect \/ Lose \/ Send \/ Inject \/ CutAborts \/ CutFails \/ Handle
  \/ \E m \in replies : ReceiveSent(m) \/ Event(m)
  \/ \E t \in DOMAIN turns : Fails(t) \/ RunningFails(t) \/ GivesUp(t) \/ Cut(t)
  \/ \E e \in gateway.alive : Disconnected(e)
  \/ \E t \in DOMAIN runs : Registers(t) \/ Ends(t)

Spec == Init /\ [][Next]_vars
------------------------------------------------------------------------------
(* A run uses tools only under the policy its own turn bound, on the connection it was dispatched
   over, and never once that was released or lost: whatever was cut, and however late it registers. *)
ToolsAreGranted ==
  \A t \in DOMAIN runs : MayUseTools(t) =>
    gateway.binding = [turn |-> t, owner |-> turns[t].epoch] /\ turns[t].dispatched

(* A turn is completed by the end of its own run and no other, and what is given as proof that its
   native work stopped is that run's own report. *)
FinalIsOwn ==
  \A t \in DOMAIN turns : turns[t].final = "completed" \/ turns[t].ended => runs[t].told

(* Context that was injected waits until a message that carries it has reached the Gateway; only an
   item behind one that two acknowledged messages carried may be taken from the queue with it. *)
InjectedIsKept ==
  LET Carried(t) == {turns[t].items[i] : i \in DOMAIN turns[t].items}
      given == UNION {Carried(t) : t \in {u \in DOMAIN turns : runs[u].st # "none"}}
      waiting == {session.pending[i] : i \in DOMAIN session.pending}
  IN  \/ 1..session.injected \subseteq given \union waiting
      \/ \E s, t \in DOMAIN turns :
           s # t /\ turns[s].acked /\ turns[t].acked /\ Carried(s) \cap Carried(t) # {}
=============================================================================
