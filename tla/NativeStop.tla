----------------------------- MODULE NativeStop -----------------------------
(***************************************************************************)
(* The stop of a native session's turn and its proof: SessionEngine's      *)
(* stopNative, nativeStopStatus and refreshDetachedStop, the parts of      *)
(* send, runTurn, reattach and dispose that mind a stop, the witnesses     *)
(* the store keeps of a disposed engine's sessions, and the proof of the   *)
(* cancelled workflow that asked for the stop.  What really runs is        *)
(* `native`; an adapter tells the end of a turn only when it has ended,    *)
(* or not at all.  Two engines may have the session open, one owns it.     *)
(***************************************************************************)
EXTENDS Naturals, FiniteSets

CONSTANTS Engines, MaxTurns, MaxLosses, None

VARIABLES
  rec,     \* an engine's record of the session, None while it has none
  job,     \* an engine's stop operation, until it wrote its result
  ask,     \* a nativeStopStatus or send that waits for an observation
  row,     \* the session's row, with the owner of its native side
  held,    \* store.pendingNativeStops: the witness left by a disposed engine
  turns,   \* each turn's promise in its engine
  native,  \* what each turn's adapter really does
  flow,    \* the cancelled workflow's proof for its target turn
  finals,  \* finals sent upstream for each turn
  losses

vars == <<rec, job, ask, row, held, turns, native, flow, finals, losses>>

T == 1 .. MaxTurns
Stop(t, state) == [turn |-> t, state |-> state]
Open(stop) == stop # None /\ stop.state # "confirmed"
Fresh == [detached |-> TRUE, owns |-> FALSE, stop |-> None, settled |-> FALSE, undispatched |-> FALSE,
          published |-> FALSE, current |-> None, status |-> "paused", started |-> None,
          terminal |-> {}, known |-> {}, cp |-> "none"]
Here(e) == rec[e] # None
Up(e) == Here(e) /\ rec[e].status # "closing"
Last == Cardinality({t \in T : turns[t] # None})
Settling(e) == Last # 0 /\ turns[Last].engine = e /\ turns[Last].call # "over"
OwnedElsewhere(e) == row.owner # None /\ row.owner # e /\ Here(row.owner)

Init ==
  /\ \E e \in Engines :
       /\ rec = [x \in Engines |-> IF x = e THEN [Fresh EXCEPT !.detached = FALSE, !.owns = TRUE,
                                                  !.status = "idle", !.cp = "settled"] ELSE None]
       /\ row = [stop |-> None, cp |-> "settled", owner |-> e]
  /\ job = [e \in Engines |-> None] /\ ask = [e \in Engines |-> None] /\ held = None
  /\ turns = [t \in T |-> None] /\ native = [t \in T |-> "none"] /\ flow = None
  /\ finals = [t \in T |-> 0] /\ losses = 0

(* persist: the row follows the record of its owner; an attached one captures its checkpoint. *)
Captured(r) ==
  [r EXCEPT !.cp = IF r.detached THEN @
                   ELSE IF r.status = "idle" /\ r.current = None THEN "settled" ELSE "unsettled"]
Persisted(e, r) ==
  LET c == IF r.owns THEN Captured(r) ELSE r
  IN  /\ rec' = [rec EXCEPT ![e] = c]
      /\ row' = IF r.owns THEN [row EXCEPT !.stop = c.stop, !.cp = c.cp] ELSE row
Idle(e) == ~ Open(rec[e].stop) /\ ~ OwnedElsewhere(e)

Send(e) ==
  /\ Up(e) /\ ~ rec[e].detached /\ Idle(e) /\ rec[e].status # "running" /\ Last < MaxTurns
  /\ Persisted(e, [rec[e] EXCEPT !.stop = None, !.settled = FALSE, !.published = FALSE,
                                 !.status = "running", !.current = Last + 1])
  /\ turns' = [turns EXCEPT ![Last + 1] = [engine |-> e, call |-> "preparing"]]
  /\ UNCHANGED <<job, ask, held, native, flow, finals, losses>>

DispatchWhileCurrent(e, t) == rec[e].current = t
(* What runTurn looks at before it gives the turn to the adapter. *)
MayDispatch(e, t) == rec[e].current = t /\ t \notin rec[e].terminal

Dispatch(e, t) ==
  /\ Up(e) /\ turns[t] = [engine |-> e, call |-> "preparing"] /\ MayDispatch(e, t)
  /\ turns' = [turns EXCEPT ![t].call = "sent"] /\ native' = [native EXCEPT ![t] = "working"]
  /\ rec' = [rec EXCEPT ![e].started = t, ![e].known = @ \union {t}]
  /\ UNCHANGED <<job, ask, row, held, flow, finals, losses>>

NativeEnds(t) ==
  /\ native[t] = "working" /\ native' = [native EXCEPT ![t] = "ended"]
  /\ UNCHANGED <<rec, job, ask, row, held, turns, flow, finals, losses>>

(* The adapter's send settles: after its turn's native end, or because the turn was aborted. *)
TurnOver(t) ==
  /\ turns[t] # None /\ turns[t].call # "over"
  /\ LET e == turns[t].engine  r == rec[e]
         mine == Up(e) /\ r.current = t
         aborted == IF mine THEN t \in r.terminal ELSE TRUE
     IN  /\ native[t] = "ended" \/ aborted \/ turns[t].call = "preparing"
         /\ finals' = [finals EXCEPT ![t] = @ + IF aborted THEN 0 ELSE 1]
         /\ IF mine
            THEN Persisted(e, IF r.stop # None /\ r.stop.turn = t
                              THEN [r EXCEPT !.settled = TRUE, !.current = None,
                                             !.status = IF Open(r.stop) THEN "paused" ELSE "idle"]
                              ELSE [r EXCEPT !.current = None, !.status = "idle",
                                             !.terminal = @ \union {t}])
            ELSE UNCHANGED <<rec, row>>
  /\ turns' = [turns EXCEPT ![t].call = "over"]
  /\ UNCHANGED <<job, ask, held, native, flow, losses>>

(* mergeNativeStop: a confirmed target stays confirmed. *)
Merged(f, stop) ==
  IF f = None \/ stop = None \/ f.state = "confirmed" \/ f.turn # stop.turn THEN f
  ELSE [f EXCEPT !.state = stop.state]

(* observeNativeStop: an adapter session knows the turns it was given itself. *)
Stopped(r, t) == t \in r.known /\ native[t] = "ended"

(* confirmNativeStop: the record, its row, the listeners, and the final the turn still owes. *)
Confirmed(e) ==
  LET r == rec[e]  s == Stop(r.stop.turn, "confirmed")
  IN  /\ Persisted(e, [r EXCEPT !.stop = s, !.status = "idle", !.current = None,
                                !.published = TRUE])
      /\ finals' = IF r.published THEN finals ELSE [finals EXCEPT ![s.turn] = @ + 1]
      /\ flow' = Merged(flow, s)
Unconfirmed(e) ==
  LET s == Stop(rec[e].stop.turn, "unknown")
  IN  Persisted(e, [rec[e] EXCEPT !.stop = s]) /\ flow' = Merged(flow, s) /\ finals' = finals

Undispatched(e, target) == target = rec[e].current /\ rec[e].started # target
Stopping(e, target) ==
  LET r == rec[e]
  IN  /\ Persisted(e, [r EXCEPT !.stop = Stop(target, "pending"), !.published = target \in r.terminal,
                                !.undispatched = Undispatched(e, target), !.status = "paused",
                                !.terminal = @ \union {target}, !.settled = ~ Settling(e)])
      /\ job' = [job EXCEPT ![e] = "settling"]
      /\ ask' = [ask EXCEPT ![e] = IF @ = None \/ @.kind # "live" THEN @
                                  ELSE [@ EXCEPT !.current = FALSE]]
Stoppable(e, target) ==
  /\ Up(e) /\ ~ rec[e].detached /\ Idle(e)
  /\ rec[e].current # None => rec[e].current = target

(* stopNative for the turn that runs, or one that is over. *)
StopTurn(e, t) ==
  /\ Stoppable(e, t) /\ turns[t] # None /\ (rec[e].stop # None => rec[e].stop.turn # t)
  /\ Stopping(e, t)
  /\ UNCHANGED <<held, turns, native, flow, finals, losses>>

(* cancelNative: the workflow records the stop it wants, then calls stopNative. *)
CancelWorkflow(e, t) ==
  /\ Up(e) /\ flow = None /\ turns[t] # None
  /\ IF Stoppable(e, t) /\ (rec[e].stop # None => rec[e].stop.turn # t)
     THEN Stopping(e, t) /\ flow' = [turn |-> t, state |-> "pending", attempt |-> FALSE]
     ELSE /\ flow' = Merged([turn |-> t, state |-> "unknown", attempt |-> FALSE], rec[e].stop)
          /\ UNCHANGED <<rec, row, job, ask>>
  /\ UNCHANGED <<held, turns, native, finals, losses>>

(* The stop operation: the turn's promise and the adapter's interrupt settle, then it looks. *)
Observes(e) == rec[e].settled \/ ~ Settling(e)
JobLooks(e) ==
  /\ Up(e) /\ job[e] = "settling" /\ ~ Settling(e)
  /\ IF ~ Open(rec[e].stop) THEN job' = [job EXCEPT ![e] = None] /\ UNCHANGED <<rec, row, finals, flow>>
     ELSE IF rec[e].undispatched THEN job' = [job EXCEPT ![e] = None] /\ Confirmed(e)
     ELSE job' = [job EXCEPT ![e] = "observing"] /\ UNCHANGED <<rec, row, finals, flow>>
  /\ UNCHANGED <<ask, held, turns, native, losses>>
JobEnds(e) ==
  /\ Up(e) /\ job[e] = "observing" /\ job' = [job EXCEPT ![e] = None]
  /\ IF Open(rec[e].stop)
     THEN /\ \/ Stopped(rec[e], rec[e].stop.turn) /\ Confirmed(e)
             \/ Unconfirmed(e)
          /\ ask' = [ask EXCEPT ![e] = IF @ = None \/ @.kind # "live" THEN @
                                  ELSE [@ EXCEPT !.current = FALSE]]
     ELSE UNCHANGED <<rec, row, finals, flow, ask>>
  /\ UNCHANGED <<held, turns, native, losses>>

(* nativeStopStatus of an attached session, as the workflow's reconciliation or a client asks it. *)
Ask(e) ==
  /\ Up(e) /\ ~ rec[e].detached /\ ask[e] = None /\ rec[e].stop # None
  /\ IF Open(rec[e].stop) /\ Observes(e)
     THEN IF rec[e].undispatched THEN Confirmed(e) /\ UNCHANGED ask
          ELSE /\ ask' = [ask EXCEPT ![e] = [kind |-> "live", current |-> TRUE]]
               /\ UNCHANGED <<rec, row, finals, flow>>
     ELSE /\ flow' = Merged(flow, rec[e].stop) /\ flow' # flow
          /\ UNCHANGED <<ask, rec, row, finals>>
  /\ UNCHANGED <<job, held, turns, native, losses>>
Told(e) ==
  /\ Up(e) /\ ask[e] # None /\ ask[e].kind = "live" /\ ask' = [ask EXCEPT ![e] = None]
  /\ \/ /\ ask[e].current /\ ~ rec[e].detached /\ Open(rec[e].stop)
        /\ Stopped(rec[e], rec[e].stop.turn) /\ Confirmed(e)
     \/ UNCHANGED <<rec, row, finals, flow>>
  /\ UNCHANGED <<job, held, turns, native, losses>>

(* refreshDetachedStop.  With a witness in the store it observes that; without one it looks the   *)
(* turn's end up in the native history and leaves a witness of its own.                            *)
Shown(e) == [rec EXCEPT ![e].stop = IF row.stop # None /\ ~ Open(row.stop) THEN row.stop ELSE @,
                        ![e].cp = IF row.stop # None /\ ~ Open(row.stop) THEN row.cp ELSE @]
Wanted == row.stop # None /\ (Open(row.stop) \/ row.cp # "settled")
Stale == held # None /\ (held.stop # row.stop \/ held.cp # row.cp)
AskDetached(e) ==
  /\ Up(e) /\ rec[e].detached /\ ask[e] = None /\ row.stop # None
  /\ rec' = Shown(e) /\ flow' = Merged(flow, Shown(e)[e].stop)
  /\ IF ~ Wanted THEN UNCHANGED <<ask, held>> /\ rec' # rec
     ELSE IF Stale THEN held' = None /\ UNCHANGED ask
     ELSE /\ ~ OwnedElsewhere(e) /\ UNCHANGED held
          /\ ask' = [ask EXCEPT ![e] = [kind |-> IF held = None THEN "history" ELSE "witness",
                                        stop |-> row.stop, cp |-> row.cp]]
  /\ UNCHANGED <<job, row, turns, native, finals, losses>>
Hinted(t) == \A u \in T : u > t => native[u] = "none"
Found(e) ==
  /\ Up(e) /\ ask[e] # None /\ ask[e].kind = "history"
  /\ \/ /\ Hinted(ask[e].stop.turn) /\ native[ask[e].stop.turn] = "ended" /\ rec[e].detached
        /\ held' = [stop |-> ask[e].stop, cp |-> ask[e].cp, from |-> None, known |-> T]
        /\ ask' = IF OwnedElsewhere(e) THEN [ask EXCEPT ![e] = None]
                  ELSE [ask EXCEPT ![e].kind = "witness"]
     \/ UNCHANGED held /\ ask' = [ask EXCEPT ![e] = None]
  /\ UNCHANGED <<rec, job, row, turns, native, flow, finals, losses>>

(* claimNativeSession: nobody else owns it, and the row is the one that was read. *)
Claimable(e, stop, cp) == ~ OwnedElsewhere(e) /\ row.stop = stop /\ row.cp = cp

(* The witness answers once the old engine's call is over and the turn has ended. *)
Witnessed(w) ==
  /\ Stopped(w, w.stop.turn) /\ (w.from # None => turns[w.stop.turn].call = "over")
Refreshed(e) ==
  /\ Up(e) /\ ask[e] # None /\ ask[e].kind = "witness" /\ ask' = [ask EXCEPT ![e] = None]
  /\ \/ /\ held # None /\ held.stop = ask[e].stop /\ held.cp = ask[e].cp /\ Witnessed(held)
        /\ rec[e].detached /\ ~ rec[e].owns /\ Claimable(e, ask[e].stop, ask[e].cp)
        /\ LET s == Stop(ask[e].stop.turn, "confirmed")
           IN  \E cp \in {"settled", ask[e].cp} :
                 /\ rec' = [rec EXCEPT ![e].stop = s, ![e].cp = cp]
                 /\ row' = [stop |-> s, cp |-> cp, owner |-> None]
                 /\ held' = IF cp = "settled" THEN None ELSE [held EXCEPT !.stop = s, !.cp = cp]
                 /\ flow' = Merged(flow, s)
     \/ UNCHANGED <<rec, row, held, flow>>
  /\ UNCHANGED <<job, turns, native, finals, losses>>

(* reattach: the stored stop must be confirmed and the stored checkpoint settled. *)
Reattach(e) ==
  /\ Up(e) /\ rec[e].detached /\ Idle(e) /\ ~ Open(row.stop) /\ row.cp = "settled"
  /\ Claimable(e, row.stop, row.cp)
  /\ LET r == [rec[e] EXCEPT !.detached = FALSE, !.owns = TRUE, !.status = "idle"]
     IN  /\ rec' = [rec EXCEPT ![e] = Captured(r)]
         /\ row' = [stop |-> r.stop, cp |-> Captured(r).cp, owner |-> e]
  /\ UNCHANGED <<job, ask, held, turns, native, flow, finals, losses>>

(* dispose: an open stop becomes unknown, the session is left detached, its adapter is stopped. *)
Dispose(e) ==
  /\ Up(e) /\ losses < MaxLosses /\ losses' = losses + 1
  /\ LET r == rec[e]
         s == IF Open(r.stop) THEN Stop(r.stop.turn, "unknown") ELSE r.stop
         c == Captured([r EXCEPT !.stop = s])
     IN  /\ rec' = [rec EXCEPT ![e] = [c EXCEPT !.status = "closing", !.current = None,
                                                !.detached = TRUE]]
         /\ row' = IF r.owns THEN [row EXCEPT !.stop = s, !.cp = c.cp] ELSE row
  /\ job' = [job EXCEPT ![e] = None] /\ ask' = [ask EXCEPT ![e] = None]
  /\ UNCHANGED <<held, turns, native, flow, finals>>
Disposed(e) ==
  /\ Here(e) /\ rec[e].status = "closing" /\ rec' = [rec EXCEPT ![e] = None]
  /\ IF rec[e].owns
     THEN \E seen \in BOOLEAN :
            /\ seen => Open(rec[e].stop) /\ Stopped(rec[e], rec[e].stop.turn) /\ ~ Settling(e)
            /\ LET s == IF seen THEN Stop(rec[e].stop.turn, "confirmed") ELSE rec[e].stop
                   cp == IF seen THEN "settled" ELSE rec[e].cp
               IN  /\ row' = [stop |-> s, cp |-> cp, owner |-> None]
                   /\ held' = IF s # None /\ (Open(s) \/ cp # "settled")
                              THEN [stop |-> s, cp |-> cp, from |-> e, known |-> rec[e].known]
                              ELSE held
     ELSE UNCHANGED <<row, held>>
  /\ UNCHANGED <<job, ask, turns, native, flow, finals, losses>>

(* restoreSessions: what was not confirmed is unknown to the next controller. *)
Restore(e) ==
  /\ ~ Here(e)
  /\ rec' = [rec EXCEPT ![e] = [Fresh EXCEPT !.cp = row.cp,
                !.stop = IF Open(row.stop) THEN Stop(row.stop.turn, "unknown") ELSE row.stop]]
  /\ UNCHANGED <<job, ask, row, held, turns, native, flow, finals, losses>>

Crash ==
  /\ losses < MaxLosses /\ losses' = losses + 1
  /\ rec' = [e \in Engines |-> None] /\ job' = [e \in Engines |-> None]
  /\ ask' = [e \in Engines |-> None] /\ held' = None
  /\ turns' = [t \in T |-> IF turns[t] = None THEN None ELSE [turns[t] EXCEPT !.call = "over"]]
  /\ UNCHANGED <<row, native, flow, finals>>

(* A new attempt of the workflow, which the engine refuses without a confirmed stop. *)
Attempt ==
  /\ flow # None /\ flow.state = "confirmed" /\ ~ flow.attempt /\ flow' = [flow EXCEPT !.attempt = TRUE]
  /\ UNCHANGED <<rec, job, ask, row, held, turns, native, finals, losses>>

Next ==
  \/ \E e \in Engines : Send(e) \/ JobLooks(e) \/ JobEnds(e) \/ Ask(e) \/ Told(e) \/ AskDetached(e)
                          \/ Found(e) \/ Refreshed(e) \/ Reattach(e) \/ Dispose(e) \/ Disposed(e)
                          \/ Restore(e)
  \/ \E e \in Engines, t \in T : Dispatch(e, t) \/ StopTurn(e, t) \/ CancelWorkflow(e, t)
  \/ \E t \in T : NativeEnds(t) \/ TurnOver(t)
  \/ Crash \/ Attempt
Spec == Init /\ [][Next]_vars

(* A stop that any engine, the row or the workflow calls confirmed names a turn that does not run,
   and a workflow's new attempt never runs beside the turn it replaces. *)
ProofIsTruth ==
  /\ \A e \in Engines : Here(e) /\ rec[e].stop # None /\ ~ Open(rec[e].stop) =>
       native[rec[e].stop.turn] # "working"
  /\ row.stop # None /\ ~ Open(row.stop) => native[row.stop.turn] # "working"
  /\ flow # None /\ (flow.state = "confirmed" \/ flow.attempt) =>
       native[flow.turn] # "working" /\ flow.state = "confirmed"

(* While the stored stop is not confirmed, no other turn of the session runs or is prepared, under
   whichever engine. *)
StopFences ==
  Open(row.stop) => \A t \in T \ {row.stop.turn} :
    native[t] # "working" /\ (turns[t] = None \/ turns[t].call = "over")

(* A turn has one final, also when its own end, its stop and the confirmation race. *)
OneFinal == \A t \in T : finals[t] <= 1
=============================================================================
