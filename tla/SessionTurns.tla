---------------------------- MODULE SessionTurns ----------------------------
(***************************************************************************)
(* One session of the SessionEngine (packages/core/src/session-engine.ts): *)
(* turns sent, queued, interrupted and drained; the session controls that  *)
(* must not overlap; the checkpoint that decides whether the native        *)
(* session may be adopted after a disposal or a crash.                     *)
(*                                                                         *)
(* The engine is single-threaded and every action here is the code between *)
(* two awaits.  What is awaited is a turn (phase), the operation that      *)
(* holds the session's control (op) and a compression; they interleave     *)
(* freely.  runTurn is a turn's own life: it prepares (skills, bridges,    *)
(* coordination), executes in the adapter, closes its bridges and settles. *)
(*                                                                         *)
(* Not modelled here: a stop of native workflow sessions (stopNative),     *)
(* insertion into a running turn, revoked project authority, and the order *)
(* of published events (Outbox).                                           *)
(***************************************************************************)
EXTENDS Integers, Sequences, SequencesExt, FiniteSets

CONSTANTS
  Turns,        \* turn identifiers, one for every send
  None,         \* no turn
  Observes,     \* the adapter implements observeSessionCheckpoint
  MaxControls   \* bound on interrupts, controls, compressions and restarts

ASSUME TurnsAssumption == /\ None \notin Turns
                          /\ Observes \in BOOLEAN
                          /\ MaxControls \in Nat

VARIABLES
  life,        \* "open", "closing" (dispose waits for compressions), "closed" (it waits
               \* for adapters) or "gone" (sessions released and cleared)
  status,      \* rec.status
  detached,    \* rec.detached
  current,     \* rec.currentTurnId
  queue,       \* rec.queue
  terminal,    \* rec.terminalTurns
  abortOf,     \* the turn whose AbortController is rec.abort
  settlement,  \* the turn of rec.turnSettlement
  owns,        \* rec.ownsNative
  known,       \* the live adapter session has a native identity to checkpoint
  ckpt,        \* rec.recoveryCheckpoint: "none", "unsettled" or "settled"
  row,         \* the sessions row: its status and checkpoint
  phase,       \* what became of every turn
  aborted,     \* turns whose AbortController fired
  op,          \* the awaited operation that set rec.controlOperation
  held,        \* store.activeSessionControls has the session
  lateOp,      \* an operation of a disposed engine is still awaited
  terminating, \* terminate awaits the interaction bridge and has not persisted yet
  compression, \* durable receipt: "none" (or settled), "running" or "unknown"
  compressing, \* its operation is still running
  finals,      \* history: final events published for a turn
  overtaken,   \* history: turns an interrupt aimed at another turn unseated
  ignored,     \* history: targets of interrupts the adapter ignored
  outlived,    \* history: turns at work when the session was recovered by observation
  controls     \* operations begun

recVars  == <<status, detached, current, queue, terminal, abortOf, settlement>>
ckptVars == <<owns, known, ckpt, row>>
ctlVars  == <<op, held, lateOp, terminating, compression, compressing>>
histVars == <<finals, overtaken, ignored, outlived>>
vars     == <<life, recVars, ckptVars, phase, aborted, ctlVars, histVars, controls>>

NoOp == [kind |-> "none", turn |-> None, target |-> None]
Await(kind, turn, target) == [kind |-> kind, turn |-> turn, target |-> target]

\* create: a live idle session, owned by this engine.
Init ==
  /\ life = "open" /\ status = "idle" /\ detached = FALSE
  /\ current = None /\ queue = <<>> /\ terminal = {}
  /\ abortOf = None /\ settlement = None
  /\ owns = TRUE /\ known = FALSE /\ ckpt = "none"
  /\ row = [status |-> "idle", ckpt |-> "none"]
  /\ phase = [t \in Turns |-> "new"]
  /\ aborted = {}
  /\ op = NoOp /\ held = FALSE /\ lateOp = FALSE /\ terminating = FALSE
  /\ compression = "none" /\ compressing = FALSE
  /\ finals = [t \in Turns |-> 0] /\ overtaken = {} /\ ignored = {} /\ outlived = {}
  /\ controls = 0

-----------------------------------------------------------------------------
\* The turn may be changing the native history.
Working(t) == phase[t] \in {"executing", "orphan"}

\* Mutant of Uncontrolled: only the record's own flag is consulted.
UncontrolledHere == op = NoOp /\ compression = "none"

\* assertCompressionIdle.
Uncontrolled == op = NoOp /\ ~held /\ compression = "none"

Open == life = "open" /\ status # "terminated"

\* captureCheckpoint, for a record that is in state st with current turn cur
\* while a control is held or not.
Captured(st, cur, controlled) ==
  IF ~known THEN "none"
  ELSE IF st = "idle" /\ cur = None /\ ~controlled THEN "settled" ELSE "unsettled"

\* Mutant of Save: the checkpoint is taken without regard to a current turn.
SaveSettled(st, cur, controlled, det) ==
  /\ ckpt' = IF owns' /\ ~det THEN Captured("idle", None, controlled) ELSE ckpt
  /\ row'  = IF owns' THEN [status |-> st, ckpt |-> ckpt'] ELSE row

\* persist: nothing without ownership; a detached record keeps its checkpoint.
Save(st, cur, controlled, det) ==
  /\ ckpt' = IF owns' /\ ~det THEN Captured(st, cur, controlled) ELSE ckpt
  /\ row'  = IF owns' THEN [status |-> st, ckpt |-> ckpt'] ELSE row

\* The record starts turn t (send's last part, runTurn's drain): the
\* checkpoint is invalidated before the adapter can work.
Launch(t, ph) ==
  /\ status'     = "running"
  /\ current'    = t
  /\ abortOf'    = t
  /\ settlement' = t
  /\ phase'      = [ph EXCEPT ![t] = "preparing"]
  /\ Save("running", t, FALSE, detached')

Idle(ph, controlled) ==
  /\ status'  = "idle"
  /\ current' = None
  /\ phase'   = ph
  /\ Save("idle", None, controlled, detached')

Begin(o) == op' = o /\ held' = TRUE /\ controls < MaxControls /\ controls' = controls + 1
Release  == op' = NoOp /\ held' = FALSE

-----------------------------------------------------------------------------
\* send, to an attached session that runs no turn.
SendStarts(t) ==
  /\ phase[t] = "new"
  /\ Open /\ Uncontrolled /\ ~detached
  /\ status # "running"
  /\ UNCHANGED <<detached, owns, known>>
  /\ Launch(t, phase)
  /\ UNCHANGED <<life, queue, terminal, aborted, ctlVars, histVars, controls>>

\* send with whenBusy "queue".
SendQueues(t) ==
  /\ phase[t] = "new"
  /\ Open /\ Uncontrolled /\ ~detached
  /\ status = "running"
  /\ queue' = Append(queue, t)
  /\ phase' = [phase EXCEPT ![t] = "queued"]
  /\ UNCHANGED <<life, status, detached, current, terminal, abortOf, settlement,
                 ckptVars, aborted, ctlVars, histVars, controls>>

\* interrupt up to the adapter's answer: the interrupted final is published,
\* then the turn aborted.
BeginInterrupt(t) ==
  /\ Begin(Await("interrupt", t, current))
  /\ IF current # None /\ current \notin terminal
     THEN /\ terminal' = terminal \cup {current}
          /\ finals'   = [finals EXCEPT ![current] = @ + 1]
     ELSE UNCHANGED <<terminal, finals>>
  /\ aborted' = aborted \cup ({abortOf} \ {None})
  /\ UNCHANGED <<life, status, detached, current, queue, abortOf, settlement, ckptVars,
                 lateOp, terminating, compression, compressing, overtaken, ignored, outlived>>

\* send with whenBusy "interrupt": the current turn is interrupted first.
SendInterrupts(t) ==
  /\ phase[t] = "new"
  /\ Open /\ Uncontrolled /\ ~detached
  /\ status = "running"
  /\ phase' = [phase EXCEPT ![t] = "waiting"]
  /\ BeginInterrupt(t)

\* session.interrupt, which drains the queue when it ends.  It asks neither
\* whether the session is terminated nor whether its engine is being disposed.
Interrupt ==
  /\ life # "gone" /\ Uncontrolled /\ ~detached
  /\ BeginInterrupt(None)
  /\ UNCHANGED phase

\* reattach goes as far as the adapter: the claim compares the row.
Claimable == /\ row.status \in {"idle", "paused"}
             /\ row.ckpt = "settled" \/ (row.ckpt = "none" /\ Observes)

\* send to a detached session: it is reattached first.
SendReattaches(t) ==
  /\ phase[t] = "new"
  /\ Open /\ Uncontrolled /\ detached /\ Claimable
  /\ Begin(Await("reattach", t, None))
  /\ phase' = [phase EXCEPT ![t] = "waiting"]
  /\ UNCHANGED <<life, recVars, ckptVars, aborted, lateOp, terminating, compression, compressing, histVars>>

\* session.recover of a detached session.
Recover ==
  /\ Open /\ Uncontrolled /\ detached /\ Claimable
  /\ Begin(Await("reattach", None, None))
  /\ UNCHANGED <<life, recVars, ckptVars, phase, aborted, lateOp, terminating, compression, compressing, histVars>>

-----------------------------------------------------------------------------
\* The adapter recovered the native session.  recover persists once more after
\* it released the control; a send and a drained message start their turn.
ReattachSucceeds ==
  /\ op.kind = "reattach" /\ life = "open"
  /\ detached' = FALSE /\ owns' = TRUE /\ known' = TRUE
  /\ Release
  /\ IF op.turn # None
     THEN Launch(op.turn, phase)
     ELSE Idle(phase, FALSE) /\ UNCHANGED <<abortOf, settlement>>
  /\ outlived' = IF row.ckpt = "none" THEN outlived \cup {t \in Turns : Working(t)} ELSE outlived
  /\ UNCHANGED <<life, queue, terminal, aborted, lateOp, terminating, compression, compressing, finals,
                 overtaken, ignored, controls>>

\* Observation or recovery failed, or the engine was disposed meanwhile: the
\* caller gets the error.  A message taken from the queue is not put back.
ReattachFails ==
  /\ op.kind = "reattach"
  /\ owns' = FALSE
  /\ Release
  /\ phase' = IF op.turn # None /\ phase[op.turn] = "waiting"
              THEN [phase EXCEPT ![op.turn] = "rejected"] ELSE phase
  /\ UNCHANGED <<life, recVars, known, ckpt, row, aborted, lateOp, terminating, compression, compressing,
                 histVars, controls>>

\* The adapter stopped the native work of the interrupted turn, if any.
Stopped(t) == IF t # None /\ phase[t] = "executing" THEN [phase EXCEPT ![t] = "closing"] ELSE phase

\* The interrupt of a send ends: the session's state is reset whatever turn is
\* current by now, and the send, resumed in the same microtask queue, starts its
\* turn on the same adapter session.
InterruptThenSend(stopped) ==
  /\ op.turn # None
  /\ Launch(op.turn, IF stopped THEN Stopped(op.target) ELSE phase)
  /\ Release
  /\ UNCHANGED queue

\* Mutant of InterruptThenDrain: an interrupt empties the queue.
InterruptDropsQueue(stopped) ==
  /\ op.turn = None
  /\ queue' = <<>>
  /\ Idle(IF stopped THEN Stopped(op.target) ELSE phase, TRUE)
  /\ Release
  /\ UNCHANGED <<abortOf, settlement>>

\* session.interrupt ends: the next queued message is started.  If the adapter
\* ignored the interrupt it waits for a reattachment, and is lost with an
\* exception when the checkpoint does not allow one.
InterruptThenDrain(stopped) ==
  /\ op.turn = None
  /\ IF queue # <<>>
     THEN /\ queue' = Tail(queue)
          /\ IF stopped
             THEN Launch(Head(queue), Stopped(op.target)) /\ Release
             ELSE /\ Idle(phase, TRUE)
                  /\ IF row'.ckpt = "settled" \/ (row'.ckpt = "none" /\ Observes)
                     THEN op' = Await("reattach", Head(queue), None) /\ UNCHANGED held
                     ELSE Release
                  /\ UNCHANGED <<abortOf, settlement>>
     ELSE /\ Idle(IF stopped THEN Stopped(op.target) ELSE phase, TRUE)
          /\ Release
          /\ UNCHANGED <<queue, abortOf, settlement>>

\* The adapter answered, failed or let the deadline pass.
InterruptEnds(stopped) ==
  /\ op.kind = "interrupt" /\ life = "open" /\ status # "terminated"
  /\ detached'  = (detached \/ ~stopped)
  /\ ignored'   = IF stopped THEN ignored ELSE ignored \cup {op.target}
  /\ overtaken' = overtaken \cup ({current} \ {None, op.target})
  /\ UNCHANGED <<owns, known>>
  /\ InterruptThenSend(stopped) \/ InterruptThenDrain(stopped)
  /\ UNCHANGED <<life, terminal, aborted, lateOp, terminating, compression, compressing, finals, outlived, controls>>

\* The engine is disposed or the session terminated by then: its state is left
\* alone.
InterruptTooLate ==
  /\ op.kind = "interrupt" /\ (life # "open" \/ status = "terminated")
  /\ Release
  /\ phase' = IF op.turn # None THEN [phase EXCEPT ![op.turn] = "rejected"] ELSE phase
  /\ UNCHANGED <<life, recVars, ckptVars, aborted, lateOp, terminating, compression, compressing, histVars, controls>>
-----------------------------------------------------------------------------
\* Turns.  A turn of a disposed engine publishes nothing and leaves the record
\* alone; once there is a new engine its phase is "orphan".
Publish(t) ==
  /\ t \notin terminal
  /\ terminal' = terminal \cup {t}
  /\ finals'   = [finals EXCEPT ![t] = @ + 1]

\* Preparation is done.  A turn that is no longer wanted ends here.
Dispatch(t) ==
  /\ phase[t] = "preparing"
  /\ IF t \in aborted \/ current # t \/ t \in terminal \/ life # "open"
     THEN phase' = [phase EXCEPT ![t] = "closing"] /\ UNCHANGED known
     ELSE phase' = [phase EXCEPT ![t] = "executing"] /\ known' \in {known, TRUE}
  /\ UNCHANGED <<life, recVars, owns, ckpt, row, aborted, ctlVars, histVars, controls>>

\* Mutant of AdapterFinal: a final of a turn that has one is published.
AdapterFinalAgain(t) ==
  /\ phase[t] = "executing"
  /\ life = "open"
  /\ terminal' = terminal \cup {t}
  /\ finals'   = [finals EXCEPT ![t] = @ + 1]
  /\ UNCHANGED <<life, status, detached, current, queue, abortOf, settlement, ckptVars, phase,
                 aborted, ctlVars, overtaken, ignored, outlived, controls>>

\* The adapter emits its final event; one that comes after another final is
\* dropped.
AdapterFinal(t) ==
  /\ phase[t] = "executing"
  /\ life = "open"
  /\ Publish(t)
  /\ UNCHANGED <<life, status, detached, current, queue, abortOf, settlement, ckptVars, phase,
                 aborted, ctlVars, overtaken, ignored, outlived, controls>>

\* The adapter's send resolves, after a final event or an abort.
AdapterReturns(t) ==
  /\ phase[t] = "executing"
  /\ t \in terminal \cup aborted \/ life # "open"
  /\ phase' = [phase EXCEPT ![t] = "closing"]
  /\ UNCHANGED <<life, recVars, ckptVars, aborted, ctlVars, histVars, controls>>

\* Preparation or the adapter's send throws: a failed final, if there is none.
TurnFails(t) ==
  /\ phase[t] \in {"preparing", "executing"}
  /\ phase' = [phase EXCEPT ![t] = "closing"]
  /\ IF life = "open" /\ t \notin terminal THEN Publish(t) ELSE UNCHANGED <<terminal, finals>>
  /\ UNCHANGED <<life, status, detached, current, queue, abortOf, settlement, ckptVars, aborted,
                 ctlVars, overtaken, ignored, outlived, controls>>

\* The promise of t's runTurn is settled once startTurn's clear has run.
Cleared(t) == IF settlement = t THEN None ELSE settlement

\* Mutant of SettleStale: the turn settles whether it is current or not.
SettleAnyway(t) ==
  /\ current # t
  /\ Idle([phase EXCEPT ![t] = "over"], op # NoOp)
  /\ settlement' = Cleared(t)
  /\ UNCHANGED <<queue, abortOf>>

\* The bridges of a turn are closed and it is not current any more: the race
\* guard of runTurn's finally leaves the record alone.
SettleStale(t) ==
  /\ current # t \/ status = "terminated" \/ life # "open"
  /\ phase'      = [phase EXCEPT ![t] = "over"]
  /\ settlement' = Cleared(t)
  /\ UNCHANGED <<status, current, queue, abortOf, ckpt, row>>

\* Mutant of SettleCurrent: what is queued stays queued.
SettleNoDrain(t) ==
  /\ current = t /\ status # "terminated" /\ life = "open"
  /\ Idle([phase EXCEPT ![t] = "over"], op # NoOp)
  /\ abortOf'    = None
  /\ settlement' = Cleared(t)
  /\ UNCHANGED queue

\* It is current: the session becomes idle or runs the next queued message.
SettleCurrent(t) ==
  /\ current = t /\ status # "terminated" /\ life = "open"
  /\ IF queue = <<>>
     THEN /\ Idle([phase EXCEPT ![t] = "over"], op # NoOp)
          /\ abortOf'    = None
          /\ settlement' = Cleared(t)
          /\ UNCHANGED queue
     ELSE /\ queue' = Tail(queue)
          /\ Launch(Head(queue), [phase EXCEPT ![t] = "over"])

Settle(t) ==
  /\ phase[t] = "closing"
  /\ UNCHANGED <<detached, owns, known>>
  /\ SettleStale(t) \/ SettleCurrent(t)
  /\ UNCHANGED <<life, terminal, aborted, ctlVars, histVars, controls>>

-----------------------------------------------------------------------------
\* Turns dropped with the queue.
Dropped == [t \in Turns |-> IF t \in Range(queue) THEN "dropped" ELSE phase[t]]

\* Mutant of Terminate: the current turn is not fenced.
TerminateUnfenced ==
  /\ life # "gone" /\ Uncontrolled
  /\ UNCHANGED <<terminal, aborted>>
  /\ queue'    = <<>>
  /\ phase'    = Dropped
  /\ status'   = "terminated"
  /\ current'  = None
  /\ terminating' = TRUE
  /\ UNCHANGED <<life, detached, abortOf, settlement, ckptVars, op, held, lateOp, compression,
                 compressing, histVars, controls>>

\* terminate up to the close of the interaction bridge, for a session in any
\* state: the record is fenced in memory.
Terminate ==
  /\ life # "gone" /\ Uncontrolled
  /\ terminal' = terminal \cup ({current} \ {None})
  /\ aborted'  = aborted \cup ({abortOf} \ {None})
  /\ queue'    = <<>>
  /\ phase'    = Dropped
  /\ status'   = "terminated"
  /\ current'  = None
  /\ terminating' = TRUE
  /\ UNCHANGED <<life, detached, abortOf, settlement, ckptVars, op, held, lateOp, compression,
                 compressing, histVars, controls>>

\* The bridge is closed: what the record is now is persisted, by its owner,
\* before the adapter is called.
TerminatePersists ==
  /\ terminating /\ terminating' = FALSE
  /\ UNCHANGED <<owns, known>>
  /\ Save(status, current, op # NoOp, detached)
  /\ UNCHANGED <<life, recVars, phase, aborted, op, held, lateOp, compression, compressing,
                 histVars, controls>>

\* switchModel needs an idle session, inject any attached one.
ControlBegins ==
  /\ Open /\ Uncontrolled /\ ~detached
  /\ Begin(Await("control", None, None))
  /\ UNCHANGED <<life, recVars, ckptVars, phase, aborted, lateOp, terminating, compression, compressing, histVars>>

\* Either ends with the control released and, unless the engine is disposed,
\* the state persisted.
ControlEnds ==
  /\ op.kind = "control"
  /\ Release
  /\ UNCHANGED <<owns, known>>
  /\ IF life = "open" THEN Save(status, current, FALSE, detached) ELSE UNCHANGED <<ckpt, row>>
  /\ UNCHANGED <<life, recVars, phase, aborted, lateOp, terminating, compression, compressing, histVars, controls>>

\* Mutant of CompressBegins: a turn may still be running.
CompressAnytime ==
  /\ Open /\ Uncontrolled /\ ~detached
  /\ controls < MaxControls /\ controls' = controls + 1
  /\ compression' = "running" /\ compressing' = TRUE
  /\ UNCHANGED <<life, recVars, ckptVars, phase, aborted, op, held, lateOp, terminating, histVars>>

\* compress: a durable receipt first.
CompressBegins ==
  /\ Open /\ Uncontrolled /\ ~detached
  /\ status = "idle" /\ current = None /\ settlement = None /\ queue = <<>>
  /\ controls < MaxControls /\ controls' = controls + 1
  /\ compression' = "running" /\ compressing' = TRUE
  /\ UNCHANGED <<life, recVars, ckptVars, phase, aborted, op, held, lateOp, terminating, histVars>>

\* It succeeds or fails before the adapter was called.
CompressEnds ==
  /\ compressing
  /\ compression' = "none" /\ compressing' = FALSE
  /\ UNCHANGED <<life, recVars, ckptVars, phase, aborted, op, held, lateOp, terminating, histVars, controls>>

\* Its outcome is unknown: the session is paused and stays blocked.
CompressUnknown ==
  /\ compressing
  /\ compression' = "unknown" /\ compressing' = FALSE
  /\ UNCHANGED <<owns, known>>
  /\ IF life = "open"
     THEN status' = "paused" /\ Save("paused", current, FALSE, detached)
     ELSE UNCHANGED <<status, ckpt, row>>
  /\ UNCHANGED <<life, detached, current, queue, terminal, abortOf, settlement, phase, aborted,
                 op, held, lateOp, terminating, histVars, controls>>

-----------------------------------------------------------------------------
\* dispose, up to its first await.
Dispose ==
  /\ life = "open"
  /\ controls < MaxControls /\ controls' = controls + 1
  /\ life' = "closing"
  /\ UNCHANGED <<recVars, ckptVars, phase, aborted, ctlVars, histVars>>

\* dispose goes on when the compressions settled or the deadline passed: the
\* record is checkpointed as it is found and, unless terminated, detached.
Disposed ==
  /\ life = "closing"
  /\ life'    = "closed"
  /\ queue'   = <<>>
  /\ phase'   = Dropped
  /\ aborted' = aborted \cup ({abortOf} \ {None})
  /\ abortOf' = None
  /\ IF status = "terminated"
     THEN UNCHANGED <<status, current, detached, ckpt, row>>
     ELSE /\ status' = "paused" /\ current' = None /\ detached' = TRUE
          /\ ckpt' = IF detached THEN ckpt ELSE Captured(status, current, op # NoOp)
          /\ row'  = IF owns THEN [status |-> "paused", ckpt |-> ckpt'] ELSE row
  /\ UNCHANGED <<terminal, settlement, owns, known, ctlVars, histVars, controls>>

\* The adapters and bridges are closed or the deadline passed: the native
\* session is released.  A terminate that still waits finds nothing to write.
Released ==
  /\ life = "closed"
  /\ life' = "gone" /\ owns' = FALSE
  /\ UNCHANGED <<recVars, known, ckpt, row, phase, aborted, ctlVars, histVars, controls>>

\* restoreSessions: a detached, paused record of what the row says; a session
\* whose row is terminated is not loaded.
Restored ==
  /\ life'       = "open"
  /\ status'     = IF row.status = "terminated" THEN "terminated" ELSE "paused"
  /\ detached'   = TRUE
  /\ current'    = None
  /\ queue'      = <<>>
  /\ terminal'   = {}
  /\ abortOf'    = None
  /\ settlement' = None
  /\ owns'       = FALSE
  /\ known'      = FALSE
  /\ ckpt'       = row.ckpt
  /\ UNCHANGED row
  /\ op'         = NoOp
  /\ terminating' = FALSE

Unwinding == [t \in Turns |->
  CASE phase[t] = "executing" -> "orphan"
    [] phase[t] \in {"preparing", "closing"} -> "over"
    [] OTHER -> phase[t]]

\* A new engine over the same store and process.  What the old one still
\* awaits goes on without it.
Reopen ==
  /\ life = "gone"
  /\ Restored
  /\ lateOp' = (lateOp \/ op # NoOp)
  /\ phase'  = [t \in Turns |-> IF op.turn = t THEN "dropped" ELSE Unwinding[t]]
  /\ UNCHANGED <<aborted, held, compression, compressing, histVars, controls>>

\* The old engine's operation ends: its control is released, nothing persisted.
LateOpEnds ==
  /\ lateOp
  /\ lateOp' = FALSE /\ held' = FALSE
  /\ UNCHANGED <<life, recVars, ckptVars, phase, aborted, op, terminating, compression, compressing, histVars, controls>>

\* The native work of a disposed engine's turn stops.
OrphanEnds(t) ==
  /\ phase[t] = "orphan"
  /\ phase' = [phase EXCEPT ![t] = "over"]
  /\ UNCHANGED <<life, recVars, ckptVars, aborted, ctlVars, histVars, controls>>

\* The process dies with everything it awaited; a new one restores.
Crash ==
  /\ controls < MaxControls /\ controls' = controls + 1
  /\ Restored
  /\ phase' = [t \in Turns |-> IF phase[t] = "new" THEN "new"
                               ELSE IF phase[t] \in {"over", "rejected"} THEN phase[t] ELSE "dropped"]
  /\ held' = FALSE /\ lateOp' = FALSE /\ compressing' = FALSE
  /\ UNCHANGED <<aborted, compression, histVars>>

-----------------------------------------------------------------------------
\* Turn ids are fresh names: which of the unused ones is taken does not matter.
Fresh(t) == phase[t] = "new" /\ t = CHOOSE u \in Turns : phase[u] = "new"

Send(t) == /\ Fresh(t)
           /\ \/ SendStarts(t) \/ SendQueues(t)
              \/ SendInterrupts(t) \/ SendReattaches(t)

TurnStep(t) == \/ Dispatch(t) \/ AdapterFinal(t) \/ AdapterReturns(t)
               \/ TurnFails(t) \/ Settle(t) \/ OrphanEnds(t)

OpStep == \/ ReattachSucceeds \/ ReattachFails
          \/ \E stopped \in BOOLEAN : InterruptEnds(stopped)
          \/ InterruptTooLate
          \/ ControlEnds
          \/ CompressEnds \/ CompressUnknown
          \/ LateOpEnds

Next ==
  \/ \E t \in Turns : Send(t) \/ TurnStep(t)
  \/ Interrupt
  \/ Recover
  \/ OpStep
  \/ Terminate \/ TerminatePersists
  \/ ControlBegins
  \/ CompressBegins
  \/ Dispose \/ Disposed \/ Released \/ Reopen
  \/ Crash

Spec == Init /\ [][Next]_vars

\* Adapters finish their turns, bridges close, interrupts and disposals have a
\* deadline.  Nothing is assumed of recoveries, controls and compressions.
Fairness ==
  /\ \A t \in Turns : /\ WF_vars(Dispatch(t)) /\ WF_vars(AdapterFinal(t))
                     /\ WF_vars(AdapterReturns(t)) /\ WF_vars(Settle(t))
  /\ WF_vars(\E stopped \in BOOLEAN : InterruptEnds(stopped))
  /\ WF_vars(Disposed)

FairSpec == Spec /\ Fairness

-----------------------------------------------------------------------------
Phases == {"new", "queued", "waiting", "preparing", "executing", "closing", "over",
           "orphan", "dropped", "rejected"}
Checkpoints == {"none", "unsettled", "settled"}
Ops == [kind : {"none", "interrupt", "reattach", "control"}, turn : Turns \cup {None},
        target : Turns \cup {None}]

TypeOK ==
  /\ life \in {"open", "closing", "closed", "gone"}
  /\ status \in {"idle", "running", "paused", "terminated"}
  /\ detached \in BOOLEAN
  /\ current \in Turns \cup {None}
  /\ queue \in Seq(Turns)
  /\ terminal \subseteq Turns
  /\ abortOf \in Turns \cup {None}
  /\ settlement \in Turns \cup {None}
  /\ owns \in BOOLEAN
  /\ known \in BOOLEAN
  /\ ckpt \in Checkpoints
  /\ row \in [status : {"idle", "running", "paused", "terminated"}, ckpt : Checkpoints]
  /\ phase \in [Turns -> Phases]
  /\ aborted \subseteq Turns
  /\ op \in Ops
  /\ held \in BOOLEAN
  /\ lateOp \in BOOLEAN
  /\ terminating \in BOOLEAN
  /\ compression \in {"none", "running", "unknown"}
  /\ compressing \in BOOLEAN
  /\ finals \in [Turns -> Nat]
  /\ overtaken \subseteq Turns
  /\ ignored \subseteq Turns \cup {None}
  /\ outlived \subseteq Turns
  /\ controls \in 0..MaxControls

Live(t)    == phase[t] \in {"preparing", "executing"}

\* Turns nothing is promised about: those unseated by an interrupt aimed at
\* another turn, those whose interrupt was ignored, and those still at work
\* when the session was recovered without a checkpoint.
Stray == overtaken \cup ignored \cup outlived

\* A turn has at most one final event, whoever ends it: the adapter, an error,
\* an interrupt (publish's and interrupt's use of terminalTurns).
FinalOnce == \A t \in Turns : finals[t] <= 1

\* A turn that was started and not ended is the session's current turn, and
\* the session reports running; a late settlement of an earlier turn does not
\* change that (the race guard in runTurn's finally).
LiveTurnIsCurrent ==
  life = "open" => \A t \in Turns :
    Live(t) /\ t \notin terminal \cup overtaken => current = t /\ status = "running"

\* A settled checkpoint in the store, which is what permits another engine to
\* adopt the native session, means that no turn is at work in it
\* (docs/SESSION_RECOVERY.md, Checkpoints).
CheckpointSound ==
  row.ckpt = "settled" => \A t \in Turns : Working(t) => t \in Stray

\* While a compression runs, or its outcome is unknown, no turn works on the
\* native history it rewrites, in this engine, an earlier or a later one.
CompressionExclusive ==
  compression # "none" => \A t \in Turns : Working(t) => t \in Stray

\* A control of a disposed engine that has not returned keeps the successor
\* from starting a turn or a control of its own (activeSessionControls).
SuccessorWaits ==
  lateOp => held /\ op = NoOp /\ \A t \in Turns : ~Live(t)

\* A terminated session has no turn that could still publish, start or wait (a
\* disposed engine publishes nothing anyway), and no operation that could start
\* one: an interrupt, which a terminated session admits, holds the control and
\* nothing else.  Once terminate has
\* persisted, the row of a session its engine owns stays terminated, whatever
\* settles, ends or is disposed afterwards.
TerminatedIsFenced ==
  status = "terminated" =>
    /\ queue = <<>>
    /\ op.kind \in {"none", "interrupt"} /\ op.turn = None
    /\ life = "open" => \A t \in Turns : Live(t) => t \in terminal \cup overtaken
    /\ owns /\ ~terminating => row.status = "terminated"

\* A queued message leaves the queue only to be started, or with the session
\* (docs/design.md section 4: messages are delivered or refused).
QueuedIsKept ==
  \A t \in Turns : phase[t] = "queued" => t \in Range(queue) \/ op.turn = t

\* That holds as long as the adapter obeys interrupts.
KeptWhileObeyed == ignored = {} => QueuedIsKept

\* A queued message is eventually started or dropped with its session.
QueueDrains ==
  \A t \in Turns : phase[t] = "queued" ~> (phase[t] # "queued" \/ Stray # {})

\* While a session is running a turn it says so, and which (docs/design.md D19).
RunningIsReported ==
  life = "open" => \A t \in Turns :
    Live(t) /\ t \notin terminal => current = t /\ status = "running"

-----------------------------------------------------------------------------
(***************************************************************************)
(* The inductive invariant from which the safety properties follow: first  *)
(* who holds what, then where native work can be.                          *)
(***************************************************************************)
Started == {"preparing", "executing", "closing"}
Gone    == {"over", "orphan", "dropped", "rejected"}

\* Who has a final event is fenced, unless nothing of it can publish any more.
Fenced == \A t \in Turns :
  /\ finals[t] <= 1
  /\ finals[t] = 1 =>
       \/ phase[t] \in Gone /\ t # current
       \/ phase[t] \in Started \cup Gone /\ t \in terminal

\* The current turn of an open engine is started, and the row knows.
CurrentStarted ==
  /\ life = "open" /\ current # None =>
       /\ phase[current] \in Started
       /\ status = "running" /\ row.status = "running"
       /\ owns /\ op.kind # "reattach"
  /\ current # None => phase[current] \in Started \cup Gone

\* Queued messages are waiting, each once, and none of them is in an operation.
QueueWaits ==
  /\ \A i \in 1..Len(queue) : phase[queue[i]] = "queued" /\ queue[i] # op.turn
  /\ \A i, j \in 1..Len(queue) : queue[i] = queue[j] => i = j

\* What an operation holds: the control, its message, its fenced target, and a
\* terminate its status.
OpHolds ==
  /\ op # NoOp => held
  /\ op.kind = "none" => op = NoOp
  /\ op.turn # None => phase[op.turn] \in {"waiting", "queued"}
  /\ op.kind = "interrupt" =>
       op.target \in terminal \cup {None} /\ (life = "open" => owns /\ ~detached)
  /\ op.kind = "reattach" /\ life = "open" => detached
  /\ terminating => status = "terminated" /\ compression = "none"

\* While an operation of a disposed engine lasts, this engine has no turn.
LateIdles == lateOp => \A t \in Turns : phase[t] \notin Started

\* A compression that began found the session idle and keeps it so.
CompressionWaits ==
  /\ compressing => compression = "running"
  /\ compression # "none" /\ life = "open" => current = None /\ op = NoOp

\* An attached session of an open engine is owned by it.
AttachedOwns == life = "open" /\ ~detached => owns

\* A turn at work is the current one, unless its session is terminated.
WorkIsCurrent == life \in {"open", "closing"} =>
  \A t \in Turns : phase[t] = "executing" /\ t \notin Stray => current = t \/ status = "terminated"

\* While a turn is at work, or may start to be, no checkpoint is settled.
WorkIsUnsettled ==
  /\ \A t \in Turns : phase[t] = "executing" /\ t \notin Stray => ckpt # "settled" /\ row.ckpt # "settled"
  /\ life = "open" /\ current # None => ckpt # "settled" /\ row.ckpt # "settled"
  /\ life = "open" /\ status = "running" => current # None
  /\ life = "open" /\ op.kind = "interrupt" /\ op.turn # None => ckpt # "settled"

\* Work of a disposed engine keeps the record detached and unsettled.
OrphanIsDetached ==
  /\ \A t \in Turns : phase[t] = "orphan" /\ t \notin Stray =>
       ckpt # "settled" /\ row.ckpt # "settled" /\ detached
  /\ life = "open" /\ op.kind = "reattach" => row.ckpt # "unsettled"

TurnInv == /\ TypeOK
           /\ Fenced
           /\ CurrentStarted
           /\ QueueWaits
           /\ OpHolds
           /\ LateIdles
           /\ CompressionWaits
           /\ AttachedOwns
           /\ LiveTurnIsCurrent
           /\ SuccessorWaits
           /\ TerminatedIsFenced
           /\ WorkIsCurrent
           /\ WorkIsUnsettled
           /\ OrphanIsDetached
           /\ CompressionExclusive
=============================================================================
