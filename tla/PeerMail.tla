------------------------------- MODULE PeerMail -------------------------------
(***************************************************************************)
(* How mail of other agents reaches a model that is already working        *)
(* (peer-context.ts, peer-context-reporter.ts).  Before a model call the   *)
(* native hook asks the bridge for messages; the turn's receiver reads one *)
(* page of the server's inbox, claims what fits in the journal, and the    *)
(* hook shows it to the model, under a check before and an observation     *)
(* with or after it.  The journal outlives turns and restarts; a reporter  *)
(* per connection tells the server how far each claimed message got.       *)
(***************************************************************************)
EXTENDS Naturals, FiniteSets, Sequences

CONSTANTS MaxMail, Large, PageLimit, BatchLimit, MaxTurns, MaxAsks, MaxLosses

VARIABLES mail, turn, asks, journal, flight, late, server, shown, losses

vars == <<mail, turn, asks, journal, flight, late, server, shown, losses>>

Messages == 1 .. MaxMail
Nothing == [at |-> "none"]
Unclaimed == [ask |-> 0, state |-> "none", synced |-> "none", retired |-> FALSE]
Rank(state) == CASE state = "none" -> 0 [] state = "offered" -> 1 [] state = "context_hook" -> 2
                 [] state = "provider_payload" -> 3

(* kind is the evidence of the turn's runtime: a hook that returns context,  *)
(* or a transport that sees the payload it submits.                          *)
Init ==
  /\ mail = [m \in Messages |-> "none"]
  /\ turn \in {[n |-> 1, live |-> TRUE, cursor |-> 0, kind |-> k] : k \in {"context_hook", "provider_payload"}}
  /\ asks = <<>> /\ journal = [m \in Messages |-> Unclaimed]
  /\ flight = Nothing /\ late = {}
  /\ server = [m \in Messages |-> "none"] /\ shown = <<>> /\ losses = 0

(* The server's inbox: messages come in order, and are acknowledged or expire. *)
Posted == {m \in Messages : mail[m] # "none"}
Post ==
  /\ Cardinality(Posted) < MaxMail
  /\ mail' = [mail EXCEPT ![Cardinality(Posted) + 1] = "stored"]
  /\ UNCHANGED <<turn, asks, journal, flight, late, server, shown, losses>>

Expires ==
  /\ \E m \in Posted : mail[m] = "stored" /\ losses < MaxLosses /\ mail' = [mail EXCEPT ![m] = "over"]
  /\ losses' = losses + 1
  /\ UNCHANGED <<turn, asks, journal, flight, late, server, shown>>

First(S, k) == {m \in S : Cardinality({x \in S : x < m}) < k}
Page == First({m \in Posted : m > turn.cursor}, PageLimit)
NextCursor == IF \E m \in Posted : m > turn.cursor /\ m \notin Page
              THEN CHOOSE m \in Page : \A x \in Page : x <= m ELSE 0

(* What is new on the page, what of it the budget has room for, what is taken. *)
New == {m \in Page : mail[m] = "stored" /\ journal[m] = Unclaimed}
Fits(budget) == CASE budget = "wide" -> New [] budget = "tight" -> New \ Large [] OTHER -> {}
Taken(budget) == First(Fits(budget), BatchLimit)

(* assertActive: the turn of the ask is the live one. *)
Live(b) == turn.live /\ turn.n = asks[b].turn
To(b, step) == [asks EXCEPT ![b].step = step]
Ended(b) == [asks EXCEPT ![b].step = "over", ![b].left = FALSE, ![b].budget = "used"]
Over(b) == asks' = Ended(b)

(* deliver: the native hook asks at a model boundary, one ask at a time. *)
Ask ==
  /\ turn.live /\ Len(asks) < MaxAsks
  /\ \A b \in DOMAIN asks : Live(b) => asks[b].step = "over" \/ (asks[b].left /\ asks[b].step # "looking")
  /\ \E budget \in {"wide", "tight"} :
       asks' = Append(asks, [turn |-> turn.n, kind |-> turn.kind, budget |-> budget, step |-> "looking",
                             batch |-> {}, left |-> FALSE])
  /\ UNCHANGED <<mail, turn, journal, flight, late, server, shown, losses>>

(* prepare, after the inbox answered: the cursor moves on unless something was deferred, and the *)
(* batch is what this call claimed.  The hook may be gone by now.                                 *)
Prepare ==
  \E b \in DOMAIN asks : asks[b].step = "looking" /\
    LET batch == Taken(asks[b].budget) IN
    /\ \/ (~ Live(b) \/ asks[b].left) /\ Over(b) /\ UNCHANGED <<turn, journal>>
       \/ /\ Live(b)
          /\ turn' = [turn EXCEPT !.cursor = IF New \ batch # {} THEN @ ELSE NextCursor]
          /\ journal' = [m \in Messages |-> IF m \in batch
                           THEN [Unclaimed EXCEPT !.ask = b, !.state = "offered"] ELSE journal[m]]
          /\ asks' = IF batch = {} THEN Ended(b)
                      ELSE [asks EXCEPT ![b].batch = batch, ![b].step = "replied", ![b].budget = "used"]
    /\ UNCHANGED <<mail, flight, late, server, shown, losses>>

(* The native side gives up on the answer: its timeout, its abort, a compaction. *)
Leaves ==
  /\ \E b \in DOMAIN asks : asks[b].step \in {"looking", "replied", "allowed"} /\ ~ asks[b].left
       /\ asks' = IF asks[b].step = "looking" THEN [asks EXCEPT ![b].left = TRUE] ELSE Ended(b)
  /\ UNCHANGED <<mail, turn, journal, flight, late, server, shown, losses>>

(* PeerContextJournal.observe: only rows this ask claimed, and never down from the payload. *)
Observed(b, evidence) ==
  [m \in Messages |-> IF journal[m].ask = b /\ m \in asks[b].batch /\ journal[m].state # "provider_payload"
     THEN [journal[m] EXCEPT !.state = evidence] ELSE journal[m]]

(* A transport is authorised before it submits; a hook observes before it returns, and one that *)
(* is refused may return its context all the same.                                               *)
Authorize ==
  \E b \in DOMAIN asks :
    /\ asks[b].step = "replied" /\ ~ asks[b].left
    /\ \/ Live(b) /\ asks[b].kind = "provider_payload" /\ asks' = To(b, "allowed") /\ UNCHANGED journal
       \/ Live(b) /\ asks[b].kind = "context_hook" /\ asks' = To(b, "allowed") /\ journal' = Observed(b, "context_hook")
       \/ ~ Live(b) /\ asks[b].kind = "context_hook" /\ asks' = To(b, "allowed") /\ UNCHANGED journal
       \/ ~ Live(b) /\ Over(b) /\ UNCHANGED journal
    /\ UNCHANGED <<mail, turn, flight, late, server, shown, losses>>

(* The batch is put before the model. *)
Shows ==
  \E b \in DOMAIN asks :
    /\ asks[b].step = "allowed"
    /\ shown' = Append(shown, b)
    /\ asks' = IF asks[b].kind = "provider_payload" THEN To(b, "sent") ELSE Ended(b)
    /\ UNCHANGED <<mail, turn, journal, flight, late, server, losses>>

(* The transport's receipt, refused once the turn is over. *)
Observe ==
  \E b \in DOMAIN asks :
    /\ asks[b].step = "sent"
    /\ journal' = IF Live(b) THEN Observed(b, "provider_payload") ELSE journal
    /\ Over(b)
    /\ UNCHANGED <<mail, turn, flight, late, server, shown, losses>>

(* The turn ends, by itself or with its daemon; the next has its own receiver. *)
TurnEnds == turn.live /\ turn' = [turn EXCEPT !.live = FALSE]
            /\ UNCHANGED <<mail, asks, journal, flight, late, server, shown, losses>>
NextTurn ==
  /\ ~ turn.live /\ turn.n < MaxTurns
  /\ turn' = [turn EXCEPT !.n = @ + 1, !.live = TRUE, !.cursor = 0]
  /\ UNCHANGED <<mail, asks, journal, flight, late, server, shown, losses>>

(* flush: a page of the rows whose state the server has not confirmed. *)
Pending == {m \in Messages : journal[m] # Unclaimed /\ ~ journal[m].retired /\ journal[m].synced # journal[m].state}
Flush ==
  /\ flight = Nothing /\ Pending # {}
  /\ flight' = [at |-> "sent", rows |-> [m \in Pending |-> journal[m].state], rejected |-> FALSE]
  /\ UNCHANGED <<mail, turn, asks, journal, late, server, shown, losses>>

(* The server keeps the furthest state it was told of, or does not know the delivery. *)
Raised(rows) == [m \in Messages |-> IF m \in DOMAIN rows /\ Rank(rows[m]) > Rank(server[m])
                   THEN rows[m] ELSE server[m]]
Arrives ==
  /\ \/ /\ flight.at = "sent"
        /\ \/ flight' = [flight EXCEPT !.at = "answered"] /\ server' = Raised(flight.rows)
           \/ flight' = [flight EXCEPT !.at = "answered", !.rejected = TRUE] /\ UNCHANGED server
        /\ UNCHANGED late
     \/ \E rows \in late : late' = late \ {rows} /\ server' = Raised(rows) /\ UNCHANGED flight
  /\ UNCHANGED <<mail, turn, asks, journal, shown, losses>>

(* confirmReport, with the state that was sent. *)
Confirm ==
  /\ flight.at = "answered"
  /\ journal' = [m \in Messages |-> IF m \in DOMAIN flight.rows
       THEN [journal[m] EXCEPT !.synced = flight.rows[m], !.retired = flight.rejected] ELSE journal[m]]
  /\ flight' = Nothing
  /\ UNCHANGED <<mail, turn, asks, late, server, shown, losses>>

(* The connection goes, and with it its reporter; the request may still reach the server. *)
Drops ==
  /\ flight # Nothing /\ losses < MaxLosses /\ losses' = losses + 1
  /\ flight' = Nothing
  /\ late' = IF flight.at = "sent" THEN late \cup {flight.rows} ELSE late
  /\ UNCHANGED <<mail, turn, asks, journal, server, shown>>

Next == Post \/ Expires \/ Ask \/ Prepare \/ Leaves \/ Authorize \/ Shows \/ Observe \/ TurnEnds \/ NextTurn
        \/ Flush \/ Arrives \/ Confirm \/ Drops
Spec == Init /\ [][Next]_vars

(* A message is put before a model at most once, whatever turns, timeouts and restarts lie between. *)
ShownOnce ==
  \A i, j \in DOMAIN shown : i # j => asks[shown[i]].batch \cap asks[shown[j]].batch = {}

(* A message counts as submitted only when its own boundary put it into a payload, and as seen by *)
(* a hook only when that boundary's hook was still there to take it.                              *)
EvidenceIsOwn ==
  \A m \in Messages : journal[m] # Unclaimed =>
    LET b == journal[m].ask IN
    /\ m \in asks[b].batch /\ Rank(journal[m].state) <= Rank(asks[b].kind)
    /\ journal[m].state = "provider_payload" => \E i \in DOMAIN shown : shown[i] = b

(* What the server was told is true, and a row counts as reported only in the state the server has. *)
ReportedIsTrue ==
  \A m \in Messages :
    /\ Rank(server[m]) <= Rank(journal[m].state)
    /\ journal[m].synced # "none" /\ ~ journal[m].retired => Rank(server[m]) >= Rank(journal[m].synced)

(* The cursor leaves nothing behind: a stored message before it has been claimed. *)
NothingSkipped ==
  turn.live => \A m \in Posted : m <= turn.cursor /\ mail[m] = "stored" => journal[m] # Unclaimed
=============================================================================
