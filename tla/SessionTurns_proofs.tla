------------------------- MODULE SessionTurns_proofs -------------------------
(***************************************************************************)
(* Proofs about one session's turns, for every set of turns, adapters that *)
(* observe native history or do not, and any bound on interrupts, controls *)
(* and restarts: each part of TurnInv is preserved by every step, given    *)
(* the parts it leans on, and the properties the runs check follow.        *)
(***************************************************************************)
EXTENDS SessionTurns, TLAPS

\* What is left of a queue when its head is taken.
LEMMA QueueTail ==
  ASSUME queue \in Seq(Turns), queue # <<>>
  PROVE  /\ Tail(queue) \in Seq(Turns)
         /\ Head(queue) \in Turns
         /\ Len(queue) \in Nat \ {0}
         /\ Head(queue) = queue[1]
         /\ Len(Tail(queue)) = Len(queue) - 1
         /\ \A i \in 1..Len(Tail(queue)) : Tail(queue)[i] = queue[i + 1]
OBVIOUS

\* Every step keeps the types.
LEMMA TypeStep == TypeOK /\ [Next]_vars => TypeOK'
<1> SUFFICES ASSUME TypeOK, [Next]_vars PROVE TypeOK'
  OBVIOUS
<1> USE TurnsAssumption DEF TypeOK, Phases, Checkpoints, Ops
<1>1. ASSUME NEW t \in Turns, SendStarts(t) PROVE TypeOK'
  BY <1>1 DEF SendStarts, Launch, Save, Captured, histVars, ctlVars
<1>2. ASSUME NEW t \in Turns, SendQueues(t) PROVE TypeOK'
  BY <1>2 DEF SendQueues, ckptVars, ctlVars, histVars
<1>3. ASSUME NEW t \in Turns, SendInterrupts(t) PROVE TypeOK'
  <2>1. op' \in Ops
    BY <1>3 DEF SendInterrupts, BeginInterrupt, Begin, Await, ckptVars
  <2>2. finals' \in [Turns -> Nat]
    <3>1. finals' = finals \/ finals' = [finals EXCEPT ![current] = @ + 1]
      BY <1>3 DEF SendInterrupts, BeginInterrupt
    <3> QED
      BY <3>1
  <2>3. phase' \in [Turns -> Phases]
    BY <1>3 DEF SendInterrupts, BeginInterrupt, Begin, Await, ckptVars
  <2> QED
    BY <1>3, <2>1, <2>2, <2>3 DEF SendInterrupts, BeginInterrupt, Begin, Await, ckptVars
<1>4. ASSUME NEW t \in Turns, SendReattaches(t) PROVE TypeOK'
  BY <1>4 DEF SendReattaches, Begin, Await, Ops, recVars, ckptVars, histVars
<1>5. ASSUME NEW t \in Turns, Dispatch(t) PROVE TypeOK'
  <2>1. detached' \in BOOLEAN /\ owns' \in BOOLEAN /\ known' \in BOOLEAN
    BY <1>5 DEF Dispatch, recVars, ctlVars, histVars
  <2>2. phase' \in [Turns -> Phases]
    BY <1>5 DEF Dispatch, recVars, ctlVars, histVars
  <2> QED
    BY <1>5, <2>1, <2>2 DEF Dispatch, recVars, ctlVars, histVars
<1>6. ASSUME NEW t \in Turns, AdapterFinal(t) PROVE TypeOK'
  <2>1. finals' \in [Turns -> Nat]
    BY <1>6 DEF AdapterFinal, Publish, ckptVars, ctlVars
  <2> QED
    BY <1>6, <2>1 DEF AdapterFinal, Publish, ckptVars, ctlVars
<1>7. ASSUME NEW t \in Turns, AdapterReturns(t) PROVE TypeOK'
  BY <1>7 DEF AdapterReturns, recVars, ckptVars, ctlVars, histVars
<1>8. ASSUME NEW t \in Turns, TurnFails(t) PROVE TypeOK'
  <2>1. finals' \in [Turns -> Nat]
    <3>1. finals' = finals \/ finals' = [finals EXCEPT ![t] = @ + 1]
      BY <1>8 DEF TurnFails, Publish
    <3> QED
      BY <3>1
  <2>2. phase' \in [Turns -> Phases]
    BY <1>8 DEF TurnFails, Publish, ckptVars, ctlVars
  <2> QED
    BY <1>8, <2>1, <2>2, SMTT(40) DEF TurnFails, Publish, ckptVars, ctlVars
<1>9. ASSUME NEW t \in Turns, Settle(t) PROVE TypeOK'
  <2>1. queue' \in Seq(Turns)
    <3>1. queue' = queue \/ (queue # <<>> /\ queue' = Tail(queue))
      BY <1>9 DEF Settle, SettleStale, SettleCurrent
    <3> QED
      BY <3>1, QueueTail
  <2>2. phase' \in [Turns -> Phases]
    BY <1>9 DEF Settle, SettleStale, SettleCurrent, Cleared, Idle, Launch, Save, Captured, ctlVars, histVars
  <2>3. ckpt' \in Checkpoints /\ row' \in [status : {"idle", "running", "paused", "terminated"}, ckpt : Checkpoints]
    BY <1>9 DEF Settle, SettleStale, SettleCurrent, Cleared, Idle, Launch, Save, Captured, ctlVars, histVars
  <2>4. status' \in {"idle", "running", "paused", "terminated"} /\ current' \in Turns \cup {None}
    BY <1>9 DEF Settle, SettleStale, SettleCurrent, Cleared, Idle, Launch, Save, Captured, ctlVars, histVars
  <2> QED
    BY <1>9, <2>1, <2>2, <2>3, <2>4, SMTT(40)
       DEF Settle, SettleStale, SettleCurrent, Cleared, Idle, Launch, Save, Captured, ctlVars,
           histVars
<1>10. ASSUME NEW t \in Turns, OrphanEnds(t) PROVE TypeOK'
  BY <1>10 DEF OrphanEnds, recVars, ckptVars, ctlVars, histVars
<1>11. ASSUME Interrupt PROVE TypeOK'
  <2>1. op' \in Ops
    BY <1>11 DEF Interrupt, BeginInterrupt, Begin, Await, ckptVars
  <2>2. finals' \in [Turns -> Nat]
    <3>1. finals' = finals \/ finals' = [finals EXCEPT ![current] = @ + 1]
      BY <1>11 DEF Interrupt, BeginInterrupt
    <3> QED
      BY <3>1, SMTT(40)
  <2> QED
    BY <1>11, <2>1, <2>2 DEF Interrupt, BeginInterrupt, Begin, Await, ckptVars
<1>12. ASSUME Recover PROVE TypeOK'
  BY <1>12 DEF Recover, Begin, Await, recVars, ckptVars, histVars
<1>13. ASSUME ReattachSucceeds PROVE TypeOK'
  <2>1. phase' \in [Turns -> Phases]
    BY <1>13 DEF ReattachSucceeds, Release, Launch, Idle, Save, Captured, NoOp
  <2>2. ckpt' \in Checkpoints /\ row' \in [status : {"idle", "running", "paused", "terminated"}, ckpt : Checkpoints]
    BY <1>13 DEF ReattachSucceeds, Release, Launch, Idle, Save, Captured, NoOp
  <2>3. op' \in Ops
    BY <1>13 DEF ReattachSucceeds, Release, Launch, Idle, Save, Captured, NoOp
  <2>4. held' \in BOOLEAN /\ lateOp' \in BOOLEAN /\ compressing' \in BOOLEAN
    BY <1>13 DEF ReattachSucceeds, Release, Launch, Idle, Save, Captured, NoOp
  <2> QED
    BY <1>13, <2>1, <2>2, <2>3, <2>4, ZenonT(60) DEF ReattachSucceeds, Release, Launch, Idle, Save, Captured, NoOp
<1>14. ASSUME ReattachFails PROVE TypeOK'
  <2>1. phase' \in [Turns -> Phases]
    BY <1>14 DEF ReattachFails, Release, NoOp, recVars, histVars
  <2>2. op' \in Ops
    BY <1>14 DEF ReattachFails, Release, NoOp, recVars, histVars
  <2>3. held' \in BOOLEAN /\ lateOp' \in BOOLEAN /\ compressing' \in BOOLEAN
    BY <1>14 DEF ReattachFails, Release, NoOp, recVars, histVars
  <2>4. detached' \in BOOLEAN /\ owns' \in BOOLEAN /\ known' \in BOOLEAN
    BY <1>14 DEF ReattachFails, Release, NoOp, recVars, histVars
  <2> QED
    BY <1>14, <2>1, <2>2, <2>3, <2>4 DEF ReattachFails, Release, NoOp, recVars, histVars
<1>15. ASSUME NEW stopped \in BOOLEAN, InterruptEnds(stopped) PROVE TypeOK'
  <2>1. queue' \in Seq(Turns)
    <3>1. queue' = queue \/ (queue # <<>> /\ queue' = Tail(queue))
      BY <1>15 DEF InterruptEnds, InterruptThenSend, InterruptThenDrain
    <3> QED
      BY <3>1, QueueTail
  <2>2. phase' \in [Turns -> Phases]
    BY <1>15, ZenonT(60) DEF InterruptEnds, InterruptThenSend, InterruptThenDrain, Launch, Idle, Release, Save,
           Captured, Stopped, Await, NoOp
  <2>3. ckpt' \in Checkpoints /\ row' \in [status : {"idle", "running", "paused", "terminated"}, ckpt : Checkpoints]
    BY <1>15 DEF InterruptEnds, InterruptThenSend, InterruptThenDrain, Launch, Idle, Release, Save,
           Captured, Stopped, Await, NoOp
  <2>4. op' \in Ops
    BY <1>15 DEF InterruptEnds, InterruptThenSend, InterruptThenDrain, Launch, Idle, Release, Save,
           Captured, Stopped, Await, NoOp
  <2>5. status' \in {"idle", "running", "paused", "terminated"} /\ current' \in Turns \cup {None}
    BY <1>15 DEF InterruptEnds, InterruptThenSend, InterruptThenDrain, Launch, Idle, Release, Save,
           Captured, Stopped, Await, NoOp
  <2>6. detached' \in BOOLEAN /\ owns' \in BOOLEAN /\ known' \in BOOLEAN
    BY <1>15 DEF InterruptEnds, InterruptThenSend, InterruptThenDrain, Launch, Idle, Release, Save,
           Captured, Stopped, Await, NoOp
  <2>7. held' \in BOOLEAN /\ lateOp' \in BOOLEAN /\ compressing' \in BOOLEAN
    BY <1>15 DEF InterruptEnds, InterruptThenSend, InterruptThenDrain, Launch, Idle, Release, Save,
           Captured, Stopped, Await, NoOp
  <2> QED
    BY <1>15, <2>1, <2>2, <2>3, <2>4, <2>5, <2>6, <2>7
       DEF InterruptEnds, InterruptThenSend, InterruptThenDrain, Launch, Idle, Release, Save,
           Captured, Stopped, Await, NoOp
<1>16. ASSUME InterruptTooLate PROVE TypeOK'
  <2>1. phase' \in [Turns -> Phases]
    BY <1>16 DEF InterruptTooLate, Release, NoOp, recVars, ckptVars, histVars
  <2>2. op' \in Ops
    BY <1>16 DEF InterruptTooLate, Release, NoOp, recVars, ckptVars, histVars
  <2>3. held' \in BOOLEAN /\ lateOp' \in BOOLEAN /\ compressing' \in BOOLEAN
    BY <1>16 DEF InterruptTooLate, Release, NoOp, recVars, ckptVars, histVars
  <2> QED
    BY <1>16, <2>1, <2>2, <2>3 DEF InterruptTooLate, Release, NoOp, recVars, ckptVars, histVars
<1>17. ASSUME ControlEnds PROVE TypeOK'
  <2>1. ckpt' \in Checkpoints /\ row' \in [status : {"idle", "running", "paused", "terminated"}, ckpt : Checkpoints]
    BY <1>17 DEF ControlEnds, Release, NoOp, Save, Captured, recVars, histVars
  <2>2. op' \in Ops
    BY <1>17 DEF ControlEnds, Release, NoOp, Save, Captured, recVars, histVars
  <2>3. held' \in BOOLEAN /\ lateOp' \in BOOLEAN /\ compressing' \in BOOLEAN
    BY <1>17 DEF ControlEnds, Release, NoOp, Save, Captured, recVars, histVars
  <2> QED
    BY <1>17, <2>1, <2>2, <2>3 DEF ControlEnds, Release, NoOp, Save, Captured, recVars, histVars
<1>18. ASSUME CompressEnds PROVE TypeOK'
  <2>1. held' \in BOOLEAN /\ lateOp' \in BOOLEAN /\ compressing' \in BOOLEAN
    BY <1>18 DEF CompressEnds, recVars, ckptVars, histVars
  <2> QED
    BY <1>18, <2>1 DEF CompressEnds, recVars, ckptVars, histVars
<1>19. ASSUME CompressUnknown PROVE TypeOK'
  <2>1. ckpt' \in Checkpoints /\ row' \in [status : {"idle", "running", "paused", "terminated"}, ckpt : Checkpoints]
    BY <1>19 DEF CompressUnknown, Save, Captured, histVars
  <2>2. held' \in BOOLEAN /\ lateOp' \in BOOLEAN /\ compressing' \in BOOLEAN
    BY <1>19 DEF CompressUnknown, Save, Captured, histVars
  <2>3. status' \in {"idle", "running", "paused", "terminated"} /\ current' \in Turns \cup {None}
    BY <1>19 DEF CompressUnknown, Save, Captured, histVars
  <2> QED
    BY <1>19, <2>1, <2>2, <2>3 DEF CompressUnknown, Save, Captured, histVars
<1>20. ASSUME LateOpEnds PROVE TypeOK'
  <2>1. held' \in BOOLEAN /\ lateOp' \in BOOLEAN /\ compressing' \in BOOLEAN
    BY <1>20 DEF LateOpEnds, recVars, ckptVars, histVars
  <2> QED
    BY <1>20, <2>1 DEF LateOpEnds, recVars, ckptVars, histVars
<1>21. ASSUME Terminate PROVE TypeOK'
  BY <1>21 DEF Terminate, Dropped, ckptVars, histVars
<1>22. ASSUME ControlBegins PROVE TypeOK'
  BY <1>22 DEF ControlBegins, Begin, Await, recVars, ckptVars, histVars
<1>23. ASSUME CompressBegins PROVE TypeOK'
  BY <1>23 DEF CompressBegins, recVars, ckptVars, histVars
<1>24. ASSUME Dispose PROVE TypeOK'
  BY <1>24 DEF Dispose, recVars, ckptVars, ctlVars, histVars
<1>25. ASSUME Disposed PROVE TypeOK'
  <2>1. phase' \in [Turns -> Phases]
    BY <1>25 DEF Disposed, Dropped, Captured, ctlVars, histVars
  <2>2. ckpt' \in Checkpoints /\ row' \in [status : {"idle", "running", "paused", "terminated"}, ckpt : Checkpoints]
    BY <1>25 DEF Disposed, Dropped, Captured, ctlVars, histVars
  <2>3. detached' \in BOOLEAN /\ owns' \in BOOLEAN /\ known' \in BOOLEAN
    BY <1>25 DEF Disposed, Dropped, Captured, ctlVars, histVars
  <2>4. status' \in {"idle", "running", "paused", "terminated"} /\ current' \in Turns \cup {None}
    BY <1>25 DEF Disposed, Dropped, Captured, ctlVars, histVars
  <2> QED
    BY <1>25, <2>1, <2>2, <2>3, <2>4 DEF Disposed, Dropped, Captured, ctlVars, histVars
<1>26. ASSUME Reopen PROVE TypeOK'
  <2>1. phase' \in [Turns -> Phases]
    BY <1>26 DEF Reopen, Restored, Unwinding, NoOp, histVars
  <2>2. held' \in BOOLEAN /\ lateOp' \in BOOLEAN /\ compressing' \in BOOLEAN
    BY <1>26 DEF Reopen, Restored, Unwinding, NoOp, histVars
  <2>3. detached' \in BOOLEAN /\ owns' \in BOOLEAN /\ known' \in BOOLEAN
    BY <1>26 DEF Reopen, Restored, Unwinding, NoOp, histVars
  <2>4. op' \in Ops
    BY <1>26 DEF Reopen, Restored, Unwinding, NoOp, histVars
  <2>5. terminating' \in BOOLEAN /\ status' \in {"idle", "running", "paused", "terminated"}
    BY <1>26 DEF Reopen, Restored
  <2>6. row' = row /\ ckpt' \in Checkpoints
    BY <1>26 DEF Reopen, Restored
  <2> QED
    BY <1>26, <2>1, <2>2, <2>3, <2>4, <2>5, <2>6 DEF Reopen, Restored, histVars
<1>27. ASSUME Crash PROVE TypeOK'
  <2>1. phase' \in [Turns -> Phases]
    BY <1>27 DEF Crash, Restored, NoOp, histVars
  <2>2. held' \in BOOLEAN /\ lateOp' \in BOOLEAN /\ compressing' \in BOOLEAN
    BY <1>27 DEF Crash, Restored, NoOp, histVars
  <2>3. detached' \in BOOLEAN /\ owns' \in BOOLEAN /\ known' \in BOOLEAN
    BY <1>27 DEF Crash, Restored, NoOp, histVars
  <2>4. op' \in Ops
    BY <1>27 DEF Crash, Restored, NoOp, histVars
  <2>5. terminating' \in BOOLEAN /\ status' \in {"idle", "running", "paused", "terminated"}
    BY <1>27 DEF Crash, Restored
  <2>6. row' = row /\ ckpt' \in Checkpoints
    BY <1>27 DEF Crash, Restored
  <2> QED
    BY <1>27, <2>1, <2>2, <2>3, <2>4, <2>5, <2>6 DEF Crash, Restored, histVars
<1>28. ASSUME UNCHANGED vars PROVE TypeOK'
  BY <1>28 DEF vars, recVars, ckptVars, ctlVars, histVars
<1>29. ASSUME TerminatePersists PROVE TypeOK'
  <2>1. ckpt' \in Checkpoints /\ row' \in [status : {"idle", "running", "paused", "terminated"}, ckpt : Checkpoints]
    BY <1>29 DEF TerminatePersists, Save, Captured
  <2>2. terminating' \in BOOLEAN
    BY <1>29 DEF TerminatePersists
  <2> QED
    BY <1>29, <2>1, <2>2 DEF TerminatePersists, recVars, histVars
<1>30. ASSUME Released PROVE TypeOK'
  <2>1. owns' \in BOOLEAN
    BY <1>30 DEF Released
  <2> QED
    BY <1>30, <2>1 DEF Released, recVars, ctlVars, histVars
<1> QED
  BY <1>1, <1>2, <1>3, <1>4, <1>5, <1>6, <1>7, <1>8, <1>9, <1>10, <1>11, <1>12, <1>13, <1>14, <1>15,
     <1>16, <1>17, <1>18, <1>19, <1>20, <1>21, <1>22, <1>23, <1>24, <1>25, <1>26, <1>27, <1>28, <1>29, <1>30
     DEF Next, Send, TurnStep, OpStep

-----------------------------------------------------------------------------
\* A final is published only for a turn without one.
LEMMA FencedStep == TurnInv /\ TypeOK' /\ [Next]_vars => Fenced'
<1> SUFFICES ASSUME TypeOK, TypeOK', Fenced, CurrentStarted, QueueWaits, OpHolds, [Next]_vars PROVE Fenced'
  BY DEF TurnInv
<1> USE TurnsAssumption DEF Fenced, CurrentStarted, QueueWaits, OpHolds, Started, Gone
<1>1. ASSUME NEW t \in Turns, SendStarts(t) PROVE Fenced'
  BY <1>1 DEF TypeOK, Ops, Phases, SendStarts, Launch, Save, Captured, histVars, ctlVars
<1>2. ASSUME NEW t \in Turns, SendQueues(t) PROVE Fenced'
  BY <1>2 DEF TypeOK, Ops, Phases, SendQueues, ckptVars, ctlVars, histVars
<1>3. ASSUME NEW t \in Turns, SendInterrupts(t) PROVE Fenced'
  <2>1. phase' = [phase EXCEPT ![t] = "waiting"] /\ phase[t] = "new" /\ life = "open"
    BY <1>3 DEF SendInterrupts, Open
  <2>2. CASE current # None /\ current \notin terminal
    <3>1. terminal' = terminal \cup {current} /\ finals' = [finals EXCEPT ![current] = @ + 1]
      BY <1>3, <2>2 DEF SendInterrupts, BeginInterrupt
    <3>2. current \in Turns /\ phase[current] \in Started
      BY <2>1, <2>2 DEF TypeOK
    <3>3. finals[current] \in Nat /\ finals[current] <= 1 /\ finals[current] # 1
      BY <2>2, <3>2 DEF TypeOK
    <3>4. finals[current] = 0
      BY <3>3
    <3>5. current' = current /\ phase'[current] = phase[current]
      BY <1>3, <2>1, <2>2, <3>2 DEF SendInterrupts, BeginInterrupt
    <3>6. \A u \in Turns : u # current => finals'[u] = finals[u] /\ (u \in terminal <=> u \in terminal')
      BY <3>1, <3>2 DEF TypeOK
    <3>7. finals'[current] = 1 /\ current \in terminal'
      BY <3>1, <3>2, <3>4 DEF TypeOK
    <3>8. \A u \in Turns : phase[u] # "new" => phase'[u] = phase[u]
      BY <2>1 DEF TypeOK
    <3> QED
      BY <3>2, <3>5, <3>6, <3>7, <3>8
  <2>3. CASE ~(current # None /\ current \notin terminal)
    BY <1>3, <2>1, <2>3 DEF TypeOK, SendInterrupts, BeginInterrupt
  <2> QED
    BY <2>2, <2>3
<1>4. ASSUME NEW t \in Turns, SendReattaches(t) PROVE Fenced'
  BY <1>4 DEF TypeOK, Ops, Phases, SendReattaches, Begin, Await, Ops, recVars, ckptVars, histVars
<1>5. ASSUME NEW t \in Turns, Dispatch(t) PROVE Fenced'
  <2>1. \E ph \in {"closing", "executing"} : phase' = [phase EXCEPT ![t] = ph]
    BY <1>5 DEF Dispatch
  <2> QED
    BY <1>5, <2>1 DEF TypeOK, Ops, Dispatch, recVars, ctlVars, histVars
<1>6. ASSUME NEW t \in Turns, AdapterFinal(t) PROVE Fenced'
  BY <1>6 DEF TypeOK, Ops, Phases, AdapterFinal, Publish, ckptVars, ctlVars
<1>7. ASSUME NEW t \in Turns, AdapterReturns(t) PROVE Fenced'
  BY <1>7 DEF TypeOK, Ops, Phases, AdapterReturns, recVars, ckptVars, ctlVars, histVars
<1>8. ASSUME NEW t \in Turns, TurnFails(t) PROVE Fenced'
  BY <1>8 DEF TypeOK, Ops, Phases, TurnFails, Publish, ckptVars, ctlVars
<1>9. ASSUME NEW t \in Turns, Settle(t) PROVE Fenced'
  BY <1>9, SMTT(40) DEF TypeOK, Ops, Phases, Settle, SettleStale, SettleCurrent, Cleared, Idle, Launch, Save,
         Captured, ctlVars, histVars
<1>10. ASSUME NEW t \in Turns, OrphanEnds(t) PROVE Fenced'
  BY <1>10 DEF TypeOK, Ops, Phases, OrphanEnds, recVars, ckptVars, ctlVars, histVars
<1>11. ASSUME Interrupt PROVE Fenced'
  <2>1. phase' = phase
    BY <1>11 DEF Interrupt
  <2>2. CASE current # None /\ current \notin terminal
    <3>1. terminal' = terminal \cup {current} /\ finals' = [finals EXCEPT ![current] = @ + 1]
      BY <1>11, <2>2 DEF Interrupt, BeginInterrupt
    <3>2. current \in Turns /\ phase[current] \in Started \cup Gone
      BY <2>1, <2>2 DEF TypeOK
    <3>3. finals[current] \in Nat /\ finals[current] <= 1 /\ finals[current] # 1
      BY <2>2, <3>2 DEF TypeOK
    <3>4. finals[current] = 0
      BY <3>3
    <3>5. current' = current /\ phase'[current] = phase[current]
      BY <1>11, <2>1, <2>2, <3>2 DEF Interrupt, BeginInterrupt
    <3>6. \A u \in Turns : u # current => finals'[u] = finals[u] /\ (u \in terminal <=> u \in terminal')
      BY <3>1, <3>2 DEF TypeOK
    <3>7. finals'[current] = 1 /\ current \in terminal'
      BY <3>1, <3>2, <3>4 DEF TypeOK
    <3>8. \A u \in Turns : phase[u] # "new" => phase'[u] = phase[u]
      BY <2>1 DEF TypeOK
    <3> QED
      BY <3>2, <3>5, <3>6, <3>7, <3>8
  <2>3. CASE ~(current # None /\ current \notin terminal)
    BY <1>11, <2>1, <2>3 DEF TypeOK, Interrupt, BeginInterrupt
  <2> QED
    BY <2>2, <2>3
<1>12. ASSUME Recover PROVE Fenced'
  BY <1>12 DEF TypeOK, Ops, Phases, Recover, Begin, Await, recVars, ckptVars, histVars
<1>13. ASSUME ReattachSucceeds PROVE Fenced'
  BY <1>13 DEF TypeOK, Ops, Phases, ReattachSucceeds, Release, Launch, Idle, Save, Captured, NoOp
<1>14. ASSUME ReattachFails PROVE Fenced'
  BY <1>14 DEF TypeOK, Ops, Phases, ReattachFails, Release, NoOp, recVars, histVars
<1>15. ASSUME NEW stopped \in BOOLEAN, InterruptEnds(stopped) PROVE Fenced'
  <2>1. UNCHANGED <<finals, terminal>>
    BY <1>15 DEF InterruptEnds
  <2>2. DEFINE base == IF stopped THEN Stopped(op.target) ELSE phase
  <2>3. \A u \in Turns : base[u] = phase[u] \/ (phase[u] = "executing" /\ base[u] = "closing")
    BY DEF TypeOK, Stopped
  <2>4. base \in [Turns -> Phases]
    BY DEF TypeOK, Stopped, Phases
  <2>5. \/ phase' = base /\ current' = None
        \/ \E m \in Turns : /\ phase[m] \in {"waiting", "queued"} /\ current' = m
                           /\ phase' = [base EXCEPT ![m] = "preparing"]
    <3>1. CASE InterruptThenSend(stopped)
      BY <1>15, <3>1 DEF InterruptThenSend, Launch, TypeOK, Ops
    <3>2. CASE InterruptThenDrain(stopped)
      <4>1. CASE queue # <<>>
        <5>1. Head(queue) \in Turns /\ phase[Head(queue)] = "queued"
          BY <4>1, QueueTail DEF TypeOK
        <5>2. CASE stopped
          BY <3>2, <4>1, <5>1, <5>2 DEF InterruptThenDrain, Launch
        <5>3. CASE ~stopped
          BY <3>2, <4>1, <5>3 DEF InterruptThenDrain, Idle
        <5> QED
          BY <5>2, <5>3
      <4>2. CASE queue = <<>>
        BY <3>2, <4>2 DEF InterruptThenDrain, Idle
      <4> QED
        BY <4>1, <4>2
    <3> QED
      BY <1>15, <3>1, <3>2 DEF InterruptEnds
  <2> HIDE DEF base
  <2> QED
    <3>1. CASE phase' = base /\ current' = None
      BY <2>1, <2>3, <3>1 DEF TypeOK
    <3>2. ASSUME NEW m \in Turns, phase[m] \in {"waiting", "queued"}, current' = m,
                 phase' = [base EXCEPT ![m] = "preparing"]
          PROVE  Fenced'
      <4>1. finals[m] # 1
        BY <3>2
      <4>2. \A u \in Turns : u # m => phase'[u] = base[u]
        BY <2>4, <3>2
      <4> QED
        BY <2>1, <2>3, <3>2, <4>1, <4>2 DEF TypeOK
    <3> QED
      BY <2>5, <3>1, <3>2
<1>16. ASSUME InterruptTooLate PROVE Fenced'
  BY <1>16 DEF TypeOK, Ops, Phases, InterruptTooLate, Release, NoOp, recVars, ckptVars, histVars
<1>17. ASSUME ControlEnds PROVE Fenced'
  BY <1>17 DEF TypeOK, Ops, Phases, ControlEnds, Release, NoOp, Save, Captured, recVars, histVars
<1>18. ASSUME CompressEnds PROVE Fenced'
  BY <1>18 DEF TypeOK, Ops, Phases, CompressEnds, recVars, ckptVars, histVars
<1>19. ASSUME CompressUnknown PROVE Fenced'
  BY <1>19 DEF TypeOK, Ops, Phases, CompressUnknown, Save, Captured, histVars
<1>20. ASSUME LateOpEnds PROVE Fenced'
  BY <1>20 DEF TypeOK, Ops, Phases, LateOpEnds, recVars, ckptVars, histVars
<1>21. ASSUME Terminate PROVE Fenced'
  BY <1>21 DEF TypeOK, Ops, Phases, Terminate, Dropped, ckptVars, histVars
<1>22. ASSUME ControlBegins PROVE Fenced'
  BY <1>22 DEF TypeOK, Ops, Phases, ControlBegins, Begin, Await, recVars, ckptVars, histVars
<1>23. ASSUME CompressBegins PROVE Fenced'
  BY <1>23 DEF TypeOK, Ops, Phases, CompressBegins, recVars, ckptVars, histVars
<1>24. ASSUME Dispose PROVE Fenced'
  BY <1>24 DEF TypeOK, Ops, Phases, Dispose, recVars, ckptVars, ctlVars, histVars
<1>25. ASSUME Disposed PROVE Fenced'
  BY <1>25 DEF TypeOK, Ops, Phases, Disposed, Dropped, Captured, ctlVars, histVars
<1>26. ASSUME Reopen PROVE Fenced'
  BY <1>26 DEF TypeOK, Ops, Phases, Reopen, Restored, Unwinding, NoOp, histVars
<1>27. ASSUME Crash PROVE Fenced'
  <2>1. finals' = finals /\ current' = None
    BY <1>27 DEF Crash, Restored, histVars
  <2>2. \A u \in Turns : phase[u] # "new" => phase'[u] \in Gone
    BY <1>27 DEF Crash
  <2> QED
    BY <2>1, <2>2 DEF TypeOK
<1>28. ASSUME UNCHANGED vars PROVE Fenced'
  BY <1>28 DEF vars, recVars, ckptVars, ctlVars, histVars
<1>29. ASSUME TerminatePersists PROVE Fenced'
  BY <1>29 DEF TerminatePersists, Save, Captured, recVars, histVars
<1>30. ASSUME Released PROVE Fenced'
  BY <1>30 DEF Released, recVars, ctlVars, histVars
<1> QED
  BY <1>1, <1>2, <1>3, <1>4, <1>5, <1>6, <1>7, <1>8, <1>9, <1>10, <1>11, <1>12, <1>13, <1>14, <1>15,
     <1>16, <1>17, <1>18, <1>19, <1>20, <1>21, <1>22, <1>23, <1>24, <1>25, <1>26, <1>27, <1>28, <1>29, <1>30
     DEF Next, Send, TurnStep, OpStep

\* A turn becomes current by a launch, in a record that owns its session.
LEMMA CurrentStartedStep == TurnInv /\ TypeOK' /\ [Next]_vars => CurrentStarted'
<1> SUFFICES ASSUME TypeOK, TypeOK', CurrentStarted, Fenced, QueueWaits, OpHolds, CompressionWaits,
    AttachedOwns, [Next]_vars
    PROVE CurrentStarted'
  BY DEF TurnInv
<1> USE TurnsAssumption
    DEF CurrentStarted, Fenced, QueueWaits, OpHolds, CompressionWaits, AttachedOwns, Started, Gone,
        Open, Uncontrolled, Claimable
<1>1. ASSUME NEW t \in Turns, SendStarts(t) PROVE CurrentStarted'
  <2>1. status' = "running" /\ current' = t /\ op' = op /\ owns' = owns
    BY <1>1 DEF SendStarts, Launch, ctlVars
  <2>2. phase' = [phase EXCEPT ![t] = "preparing"] /\ owns /\ op = NoOp
    BY <1>1 DEF SendStarts, Launch
  <2>3. row'.status = "running"
    BY <2>1, <2>2, <1>1 DEF SendStarts, Launch, Save
  <2> QED
    BY <2>1, <2>2, <2>3 DEF TypeOK, NoOp
<1>2. ASSUME NEW t \in Turns, SendQueues(t) PROVE CurrentStarted'
  BY <1>2 DEF TypeOK, Ops, Phases, SendQueues, ckptVars, ctlVars, histVars
<1>3. ASSUME NEW t \in Turns, SendInterrupts(t) PROVE CurrentStarted'
  BY <1>3 DEF TypeOK, Ops, Phases, SendInterrupts, BeginInterrupt, Begin, Await, ckptVars
<1>4. ASSUME NEW t \in Turns, SendReattaches(t) PROVE CurrentStarted'
  BY <1>4 DEF TypeOK, Ops, Phases, SendReattaches, Begin, Await, Ops, recVars, ckptVars, histVars
<1>5. ASSUME NEW t \in Turns, Dispatch(t) PROVE CurrentStarted'
  <2>1. \E ph \in {"closing", "executing"} : phase' = [phase EXCEPT ![t] = ph]
    BY <1>5 DEF Dispatch
  <2> QED
    BY <1>5, <2>1 DEF TypeOK, Ops, Dispatch, recVars, ctlVars, histVars
<1>6. ASSUME NEW t \in Turns, AdapterFinal(t) PROVE CurrentStarted'
  BY <1>6 DEF TypeOK, Ops, Phases, AdapterFinal, Publish, ckptVars, ctlVars
<1>7. ASSUME NEW t \in Turns, AdapterReturns(t) PROVE CurrentStarted'
  BY <1>7 DEF TypeOK, Ops, Phases, AdapterReturns, recVars, ckptVars, ctlVars, histVars
<1>8. ASSUME NEW t \in Turns, TurnFails(t) PROVE CurrentStarted'
  BY <1>8 DEF TypeOK, Ops, Phases, TurnFails, Publish, ckptVars, ctlVars
<1>9. ASSUME NEW t \in Turns, Settle(t) PROVE CurrentStarted'
  BY <1>9 DEF TypeOK, Ops, Phases, Settle, SettleStale, SettleCurrent, Cleared, Idle, Launch, Save,
         Captured, ctlVars, histVars
<1>10. ASSUME NEW t \in Turns, OrphanEnds(t) PROVE CurrentStarted'
  BY <1>10 DEF TypeOK, Ops, Phases, OrphanEnds, recVars, ckptVars, ctlVars, histVars
<1>11. ASSUME Interrupt PROVE CurrentStarted'
  BY <1>11 DEF TypeOK, Ops, Phases, Interrupt, BeginInterrupt, Begin, Await, ckptVars
<1>12. ASSUME Recover PROVE CurrentStarted'
  BY <1>12 DEF TypeOK, Ops, Phases, Recover, Begin, Await, recVars, ckptVars, histVars
<1>13. ASSUME ReattachSucceeds PROVE CurrentStarted'
  BY <1>13 DEF TypeOK, Ops, Phases, ReattachSucceeds, Release, Launch, Idle, Save, Captured, NoOp
<1>14. ASSUME ReattachFails PROVE CurrentStarted'
  BY <1>14 DEF TypeOK, Ops, Phases, ReattachFails, Release, NoOp, recVars, histVars
<1>15. ASSUME NEW stopped \in BOOLEAN, InterruptEnds(stopped) PROVE CurrentStarted'
  BY <1>15
     DEF TypeOK, Ops, Phases, InterruptEnds, InterruptThenSend, InterruptThenDrain, Launch, Idle,
         Release, Save, Captured, Stopped, Await, NoOp
<1>16. ASSUME InterruptTooLate PROVE CurrentStarted'
  BY <1>16 DEF TypeOK, Ops, Phases, InterruptTooLate, Release, NoOp, recVars, ckptVars, histVars
<1>17. ASSUME ControlEnds PROVE CurrentStarted'
  BY <1>17 DEF TypeOK, Ops, Phases, ControlEnds, Release, NoOp, Save, Captured, recVars, histVars
<1>18. ASSUME CompressEnds PROVE CurrentStarted'
  BY <1>18 DEF TypeOK, Ops, Phases, CompressEnds, recVars, ckptVars, histVars
<1>19. ASSUME CompressUnknown PROVE CurrentStarted'
  BY <1>19 DEF TypeOK, Ops, Phases, CompressUnknown, Save, Captured, histVars
<1>20. ASSUME LateOpEnds PROVE CurrentStarted'
  BY <1>20 DEF TypeOK, Ops, Phases, LateOpEnds, recVars, ckptVars, histVars
<1>21. ASSUME Terminate PROVE CurrentStarted'
  BY <1>21 DEF TypeOK, Ops, Phases, Terminate, Dropped, ckptVars, histVars
<1>22. ASSUME ControlBegins PROVE CurrentStarted'
  BY <1>22 DEF TypeOK, Ops, Phases, ControlBegins, Begin, Await, recVars, ckptVars, histVars
<1>23. ASSUME CompressBegins PROVE CurrentStarted'
  BY <1>23 DEF TypeOK, Ops, Phases, CompressBegins, recVars, ckptVars, histVars
<1>24. ASSUME Dispose PROVE CurrentStarted'
  BY <1>24 DEF TypeOK, Ops, Phases, Dispose, recVars, ckptVars, ctlVars, histVars
<1>25. ASSUME Disposed PROVE CurrentStarted'
  BY <1>25 DEF TypeOK, Ops, Phases, Disposed, Dropped, Captured, ctlVars, histVars
<1>26. ASSUME Reopen PROVE CurrentStarted'
  BY <1>26 DEF TypeOK, Ops, Phases, Reopen, Restored, Unwinding, NoOp, histVars
<1>27. ASSUME Crash PROVE CurrentStarted'
  BY <1>27 DEF TypeOK, Ops, Phases, Crash, Restored, NoOp, histVars
<1>28. ASSUME UNCHANGED vars PROVE CurrentStarted'
  BY <1>28 DEF vars, recVars, ckptVars, ctlVars, histVars
<1>29. ASSUME TerminatePersists PROVE CurrentStarted'
  BY <1>29 DEF TerminatePersists, Save, Captured, recVars, histVars
<1>30. ASSUME Released PROVE CurrentStarted'
  BY <1>30 DEF Released, recVars, ctlVars, histVars
<1> QED
  BY <1>1, <1>2, <1>3, <1>4, <1>5, <1>6, <1>7, <1>8, <1>9, <1>10, <1>11, <1>12, <1>13, <1>14, <1>15,
     <1>16, <1>17, <1>18, <1>19, <1>20, <1>21, <1>22, <1>23, <1>24, <1>25, <1>26, <1>27, <1>28, <1>29, <1>30
     DEF Next, Send, TurnStep, OpStep

\* The queue holds waiting messages, each once.
LEMMA QueueWaitsStep == TurnInv /\ TypeOK' /\ [Next]_vars => QueueWaits'
<1> SUFFICES ASSUME TypeOK, TypeOK', QueueWaits, CurrentStarted, OpHolds, [Next]_vars PROVE QueueWaits'
  BY DEF TurnInv
<1> USE TurnsAssumption DEF QueueWaits, CurrentStarted, OpHolds, Started, Uncontrolled
<1>1. ASSUME NEW t \in Turns, SendStarts(t) PROVE QueueWaits'
  BY <1>1 DEF TypeOK, Ops, Phases, SendStarts, Launch, Save, Captured, histVars, ctlVars
<1>2. ASSUME NEW t \in Turns, SendQueues(t) PROVE QueueWaits'
  BY <1>2 DEF TypeOK, Ops, Phases, SendQueues, ckptVars, ctlVars, histVars
<1>3. ASSUME NEW t \in Turns, SendInterrupts(t) PROVE QueueWaits'
  <2>1. phase' = [phase EXCEPT ![t] = "waiting"] /\ queue' = queue /\ op'.turn = t /\ phase[t] = "new"
    BY <1>3 DEF SendInterrupts, BeginInterrupt, Begin, Await
  <2> QED
    BY <2>1, SMTT(40) DEF TypeOK
<1>4. ASSUME NEW t \in Turns, SendReattaches(t) PROVE QueueWaits'
  BY <1>4 DEF TypeOK, Ops, Phases, SendReattaches, Begin, Await, Ops, recVars, ckptVars, histVars
<1>5. ASSUME NEW t \in Turns, Dispatch(t) PROVE QueueWaits'
  <2>1. \E ph \in {"closing", "executing"} : phase' = [phase EXCEPT ![t] = ph]
    BY <1>5 DEF Dispatch
  <2> QED
    BY <1>5, <2>1 DEF TypeOK, Ops, Dispatch, recVars, ctlVars, histVars
<1>6. ASSUME NEW t \in Turns, AdapterFinal(t) PROVE QueueWaits'
  BY <1>6 DEF TypeOK, Ops, Phases, AdapterFinal, Publish, ckptVars, ctlVars
<1>7. ASSUME NEW t \in Turns, AdapterReturns(t) PROVE QueueWaits'
  BY <1>7 DEF TypeOK, Ops, Phases, AdapterReturns, recVars, ckptVars, ctlVars, histVars
<1>8. ASSUME NEW t \in Turns, TurnFails(t) PROVE QueueWaits'
  BY <1>8, SMTT(40) DEF TypeOK, Ops, Phases, TurnFails, Publish, ckptVars, ctlVars
<1>9. ASSUME NEW t \in Turns, Settle(t) PROVE QueueWaits'
  <2>1. CASE queue' = queue /\ phase' = [phase EXCEPT ![t] = "over"]
    BY <1>9, <2>1 DEF Settle, ctlVars, TypeOK
  <2>2. CASE queue # <<>> /\ queue' = Tail(queue)
             /\ phase' = [[phase EXCEPT ![t] = "over"] EXCEPT ![Head(queue)] = "preparing"]
    BY <1>9, <2>2, QueueTail, SMTT(40) DEF Settle, ctlVars, TypeOK
  <2> QED
    BY <1>9, <2>1, <2>2 DEF Settle, SettleStale, SettleCurrent, Idle, Launch
<1>10. ASSUME NEW t \in Turns, OrphanEnds(t) PROVE QueueWaits'
  BY <1>10 DEF TypeOK, Ops, Phases, OrphanEnds, recVars, ckptVars, ctlVars, histVars
<1>11. ASSUME Interrupt PROVE QueueWaits'
  BY <1>11, SMTT(40) DEF TypeOK, Ops, Phases, Interrupt, BeginInterrupt, Begin, Await, ckptVars
<1>12. ASSUME Recover PROVE QueueWaits'
  BY <1>12 DEF TypeOK, Ops, Phases, Recover, Begin, Await, recVars, ckptVars, histVars
<1>13. ASSUME ReattachSucceeds PROVE QueueWaits'
  BY <1>13 DEF TypeOK, Ops, Phases, ReattachSucceeds, Release, Launch, Idle, Save, Captured, NoOp
<1>14. ASSUME ReattachFails PROVE QueueWaits'
  BY <1>14 DEF TypeOK, Ops, Phases, ReattachFails, Release, NoOp, recVars, histVars
<1>15. ASSUME NEW stopped \in BOOLEAN, InterruptEnds(stopped) PROVE QueueWaits'
  <2>1. CASE InterruptThenSend(stopped)
    <3>1. queue' = queue /\ op.turn \in Turns
      BY <2>1 DEF InterruptThenSend, TypeOK, Ops
    <3>2. op'.turn = None
      BY <2>1 DEF InterruptThenSend, Release, NoOp
    <3>3. \A u \in Turns : phase[u] = "queued" /\ u # op.turn => phase'[u] = "queued"
      BY <2>1, <3>1 DEF InterruptThenSend, Launch, Stopped, TypeOK
    <3>4. \A i \in 1..Len(queue) : queue[i] \in Turns
      BY DEF TypeOK
    <3>5. \A i \in 1..Len(queue) : phase'[queue[i]] = "queued" /\ queue[i] # op'.turn
      BY <3>2, <3>3, <3>4
    <3> QED
      BY <3>1, <3>5
  <2>2. CASE InterruptThenDrain(stopped)
    <3>1. CASE queue # <<>>
      <4>1. queue' = Tail(queue)
        BY <2>2, <3>1 DEF InterruptThenDrain
      <4>2. op' = NoOp \/ op' = Await("reattach", Head(queue), None)
        BY <2>2, <3>1 DEF InterruptThenDrain, Release
      <4>3. \A u \in Turns : phase[u] = "queued" /\ u # Head(queue) => phase'[u] = "queued"
        <5>1. PICK f \in {phase, Stopped(op.target)} :
                 phase' = f \/ phase' = [f EXCEPT ![Head(queue)] = "preparing"]
          BY <2>2, <3>1 DEF InterruptThenDrain, Launch, Idle
        <5>2. \A u \in Turns : phase[u] = "queued" => Stopped(op.target)[u] = "queued"
          BY DEF Stopped, TypeOK
        <5>3. DOMAIN f = Turns
          BY <5>1 DEF Stopped, TypeOK
        <5>4. \A u \in Turns : phase[u] = "queued" => f[u] = "queued"
          BY <5>1, <5>2
        <5> QED
          BY <5>1, <5>3, <5>4
      <4>4. op'.turn \in {None, Head(queue)}
        BY <4>2 DEF NoOp, Await
      <4>5. \A i \in 1..Len(queue) : queue[i] \in Turns
        BY DEF TypeOK
      <4>6. \A i \in 1..Len(Tail(queue)) : Tail(queue)[i] # Head(queue)
        BY <3>1, QueueTail DEF TypeOK
      <4>7. \A i \in 1..Len(Tail(queue)) :
               phase'[Tail(queue)[i]] = "queued" /\ Tail(queue)[i] # op'.turn
        BY <3>1, <4>3, <4>4, <4>5, <4>6, QueueTail DEF TypeOK
      <4>8. \A i, j \in 1..Len(Tail(queue)) : Tail(queue)[i] = Tail(queue)[j] => i = j
        BY <3>1, QueueTail DEF TypeOK
      <4> QED
        BY <4>1, <4>7, <4>8
    <3>2. CASE queue = <<>>
      BY <2>2, <3>2 DEF InterruptThenDrain
    <3> QED
      BY <3>1, <3>2
  <2> QED
    BY <1>15, <2>1, <2>2 DEF InterruptEnds
<1>16. ASSUME InterruptTooLate PROVE QueueWaits'
  BY <1>16 DEF TypeOK, Ops, Phases, InterruptTooLate, Release, NoOp, recVars, ckptVars, histVars
<1>17. ASSUME ControlEnds PROVE QueueWaits'
  BY <1>17 DEF TypeOK, Ops, Phases, ControlEnds, Release, NoOp, Save, Captured, recVars, histVars
<1>18. ASSUME CompressEnds PROVE QueueWaits'
  BY <1>18 DEF TypeOK, Ops, Phases, CompressEnds, recVars, ckptVars, histVars
<1>19. ASSUME CompressUnknown PROVE QueueWaits'
  BY <1>19 DEF TypeOK, Ops, Phases, CompressUnknown, Save, Captured, histVars
<1>20. ASSUME LateOpEnds PROVE QueueWaits'
  BY <1>20 DEF TypeOK, Ops, Phases, LateOpEnds, recVars, ckptVars, histVars
<1>21. ASSUME Terminate PROVE QueueWaits'
  BY <1>21 DEF TypeOK, Ops, Phases, Terminate, Dropped, ckptVars, histVars
<1>22. ASSUME ControlBegins PROVE QueueWaits'
  BY <1>22 DEF TypeOK, Ops, Phases, ControlBegins, Begin, Await, recVars, ckptVars, histVars
<1>23. ASSUME CompressBegins PROVE QueueWaits'
  BY <1>23 DEF TypeOK, Ops, Phases, CompressBegins, recVars, ckptVars, histVars
<1>24. ASSUME Dispose PROVE QueueWaits'
  BY <1>24 DEF TypeOK, Ops, Phases, Dispose, recVars, ckptVars, ctlVars, histVars
<1>25. ASSUME Disposed PROVE QueueWaits'
  BY <1>25 DEF TypeOK, Ops, Phases, Disposed, Dropped, Captured, ctlVars, histVars
<1>26. ASSUME Reopen PROVE QueueWaits'
  BY <1>26 DEF TypeOK, Ops, Phases, Reopen, Restored, Unwinding, NoOp, histVars
<1>27. ASSUME Crash PROVE QueueWaits'
  BY <1>27 DEF TypeOK, Ops, Phases, Crash, Restored, NoOp, histVars
<1>28. ASSUME UNCHANGED vars PROVE QueueWaits'
  BY <1>28 DEF vars, recVars, ckptVars, ctlVars, histVars
<1>29. ASSUME TerminatePersists PROVE QueueWaits'
  BY <1>29 DEF TerminatePersists, Save, Captured, recVars, histVars
<1>30. ASSUME Released PROVE QueueWaits'
  BY <1>30 DEF Released, recVars, ctlVars, histVars
<1> QED
  BY <1>1, <1>2, <1>3, <1>4, <1>5, <1>6, <1>7, <1>8, <1>9, <1>10, <1>11, <1>12, <1>13, <1>14, <1>15,
     <1>16, <1>17, <1>18, <1>19, <1>20, <1>21, <1>22, <1>23, <1>24, <1>25, <1>26, <1>27, <1>28, <1>29, <1>30
     DEF Next, Send, TurnStep, OpStep

\* An operation holds the control and its message until it ends.
LEMMA OpHoldsStep == TurnInv /\ TypeOK' /\ [Next]_vars => OpHolds'
<1> SUFFICES ASSUME TypeOK, TypeOK', OpHolds, QueueWaits, AttachedOwns, SuccessorWaits,
    TerminatedIsFenced, CompressionWaits, [Next]_vars
    PROVE OpHolds'
  BY DEF TurnInv
<1> USE TurnsAssumption
    DEF OpHolds, QueueWaits, AttachedOwns, SuccessorWaits, TerminatedIsFenced, Open, Uncontrolled
<1>1. ASSUME NEW t \in Turns, SendStarts(t) PROVE OpHolds'
  BY <1>1 DEF TypeOK, Ops, Phases, SendStarts, Launch, Save, Captured, histVars, ctlVars
<1>2. ASSUME NEW t \in Turns, SendQueues(t) PROVE OpHolds'
  BY <1>2 DEF TypeOK, Ops, Phases, SendQueues, ckptVars, ctlVars, histVars
<1>3. ASSUME NEW t \in Turns, SendInterrupts(t) PROVE OpHolds'
  BY <1>3 DEF TypeOK, Ops, Phases, SendInterrupts, BeginInterrupt, Begin, Await, ckptVars
<1>4. ASSUME NEW t \in Turns, SendReattaches(t) PROVE OpHolds'
  BY <1>4 DEF TypeOK, Ops, Phases, SendReattaches, Begin, Await, Ops, recVars, ckptVars, histVars
<1>5. ASSUME NEW t \in Turns, Dispatch(t) PROVE OpHolds'
  <2>1. /\ \E ph \in {"closing", "executing"} : phase' = [phase EXCEPT ![t] = ph]
        /\ phase[t] = "preparing"
        /\ UNCHANGED <<life, status, detached, terminal, owns, op, held, terminating, compression>>
    BY <1>5 DEF Dispatch, recVars, ctlVars
  <2>2. op.turn # None => phase'[op.turn] = phase[op.turn]
    BY <2>1 DEF TypeOK
  <2> QED
    BY <2>1, <2>2
<1>6. ASSUME NEW t \in Turns, AdapterFinal(t) PROVE OpHolds'
  BY <1>6 DEF TypeOK, Ops, Phases, AdapterFinal, Publish, ckptVars, ctlVars
<1>7. ASSUME NEW t \in Turns, AdapterReturns(t) PROVE OpHolds'
  BY <1>7 DEF TypeOK, Ops, Phases, AdapterReturns, recVars, ckptVars, ctlVars, histVars
<1>8. ASSUME NEW t \in Turns, TurnFails(t) PROVE OpHolds'
  BY <1>8 DEF TypeOK, Ops, Phases, TurnFails, Publish, ckptVars, ctlVars
<1>9. ASSUME NEW t \in Turns, Settle(t) PROVE OpHolds'
  BY <1>9 DEF TypeOK, Ops, Phases, Settle, SettleStale, SettleCurrent, Cleared, Idle, Launch, Save,
         Captured, ctlVars, histVars
<1>10. ASSUME NEW t \in Turns, OrphanEnds(t) PROVE OpHolds'
  BY <1>10 DEF TypeOK, Ops, Phases, OrphanEnds, recVars, ckptVars, ctlVars, histVars
<1>11. ASSUME Interrupt PROVE OpHolds'
  BY <1>11 DEF TypeOK, Ops, Phases, Interrupt, BeginInterrupt, Begin, Await, ckptVars
<1>12. ASSUME Recover PROVE OpHolds'
  BY <1>12 DEF TypeOK, Ops, Phases, Recover, Begin, Await, recVars, ckptVars, histVars
<1>13. ASSUME ReattachSucceeds PROVE OpHolds'
  BY <1>13 DEF TypeOK, Ops, Phases, ReattachSucceeds, Release, Launch, Idle, Save, Captured, NoOp
<1>14. ASSUME ReattachFails PROVE OpHolds'
  BY <1>14 DEF TypeOK, Ops, Phases, ReattachFails, Release, NoOp, recVars, histVars
<1>15. ASSUME NEW stopped \in BOOLEAN, InterruptEnds(stopped) PROVE OpHolds'
  BY <1>15
     DEF TypeOK, Ops, Phases, InterruptEnds, InterruptThenSend, InterruptThenDrain, Launch, Idle,
         Release, Save, Captured, Stopped, Await, NoOp
<1>16. ASSUME InterruptTooLate PROVE OpHolds'
  BY <1>16 DEF TypeOK, Ops, Phases, InterruptTooLate, Release, NoOp, recVars, ckptVars, histVars
<1>17. ASSUME ControlEnds PROVE OpHolds'
  BY <1>17 DEF TypeOK, Ops, Phases, ControlEnds, Release, NoOp, Save, Captured, recVars, histVars
<1>18. ASSUME CompressEnds PROVE OpHolds'
  BY <1>18 DEF TypeOK, Ops, Phases, CompressEnds, recVars, ckptVars, histVars
<1>19. ASSUME CompressUnknown PROVE OpHolds'
  BY <1>19 DEF TypeOK, Ops, Phases, CompressUnknown, CompressionWaits, Save, Captured, histVars
<1>20. ASSUME LateOpEnds PROVE OpHolds'
  BY <1>20 DEF TypeOK, Ops, Phases, LateOpEnds, recVars, ckptVars, histVars
<1>21. ASSUME Terminate PROVE OpHolds'
  <2>1. /\ op = NoOp /\ UNCHANGED <<op, held, life, owns, detached>>
        /\ status' = "terminated" /\ compression = "none" /\ compression' = compression
    BY <1>21 DEF Terminate, ckptVars
  <2> QED
    BY <2>1 DEF NoOp
<1>22. ASSUME ControlBegins PROVE OpHolds'
  BY <1>22 DEF TypeOK, Ops, Phases, ControlBegins, Begin, Await, recVars, ckptVars, histVars
<1>23. ASSUME CompressBegins PROVE OpHolds'
  BY <1>23 DEF TypeOK, Ops, Phases, CompressBegins, recVars, ckptVars, histVars
<1>24. ASSUME Dispose PROVE OpHolds'
  BY <1>24 DEF TypeOK, Ops, Phases, Dispose, recVars, ckptVars, ctlVars, histVars
<1>25. ASSUME Disposed PROVE OpHolds'
  <2>1. /\ life' = "closed" /\ UNCHANGED <<op, held, terminal, terminating, compression>>
        /\ status = "terminated" => status' = status
    BY <1>25 DEF Disposed, ctlVars
  <2>2. op.turn # None => phase'[op.turn] = phase[op.turn]
    <3>1. op.turn # None => op.turn \in Turns /\ op.turn \notin Range(queue)
      BY DEF TypeOK, Ops, Range
    <3> QED
      BY <1>25, <3>1 DEF Disposed, Dropped
  <2> QED
    BY <2>1, <2>2
<1>26. ASSUME Reopen PROVE OpHolds'
  BY <1>26 DEF TypeOK, Ops, Phases, Reopen, Restored, Unwinding, NoOp, histVars
<1>27. ASSUME Crash PROVE OpHolds'
  BY <1>27 DEF TypeOK, Ops, Phases, Crash, Restored, NoOp, histVars
<1>28. ASSUME UNCHANGED vars PROVE OpHolds'
  BY <1>28 DEF vars, recVars, ckptVars, ctlVars, histVars
<1>29. ASSUME TerminatePersists PROVE OpHolds'
  BY <1>29 DEF TerminatePersists, Save, Captured, recVars, histVars
<1>30. ASSUME Released PROVE OpHolds'
  BY <1>30 DEF Released, recVars, ctlVars, histVars
<1> QED
  BY <1>1, <1>2, <1>3, <1>4, <1>5, <1>6, <1>7, <1>8, <1>9, <1>10, <1>11, <1>12, <1>13, <1>14, <1>15,
     <1>16, <1>17, <1>18, <1>19, <1>20, <1>21, <1>22, <1>23, <1>24, <1>25, <1>26, <1>27, <1>28, <1>29, <1>30
     DEF Next, Send, TurnStep, OpStep

\* Nothing starts while a compression is running or unconfirmed.
LEMMA CompressionWaitsStep == TurnInv /\ TypeOK' /\ [Next]_vars => CompressionWaits'
<1> SUFFICES ASSUME TypeOK, TypeOK', CompressionWaits, OpHolds, [Next]_vars PROVE CompressionWaits'
  BY DEF TurnInv
<1> USE TurnsAssumption DEF CompressionWaits, OpHolds, Open, Uncontrolled
<1>1. ASSUME NEW t \in Turns, SendStarts(t) PROVE CompressionWaits'
  BY <1>1 DEF TypeOK, Ops, Phases, SendStarts, Launch, Save, Captured, histVars, ctlVars
<1>2. ASSUME NEW t \in Turns, SendQueues(t) PROVE CompressionWaits'
  BY <1>2 DEF TypeOK, Ops, Phases, SendQueues, ckptVars, ctlVars, histVars
<1>3. ASSUME NEW t \in Turns, SendInterrupts(t) PROVE CompressionWaits'
  BY <1>3 DEF TypeOK, Ops, Phases, SendInterrupts, BeginInterrupt, Begin, Await, ckptVars
<1>4. ASSUME NEW t \in Turns, SendReattaches(t) PROVE CompressionWaits'
  BY <1>4 DEF TypeOK, Ops, Phases, SendReattaches, Begin, Await, Ops, recVars, ckptVars, histVars
<1>5. ASSUME NEW t \in Turns, Dispatch(t) PROVE CompressionWaits'
  BY <1>5 DEF TypeOK, Ops, Phases, Dispatch, recVars, ctlVars, histVars
<1>6. ASSUME NEW t \in Turns, AdapterFinal(t) PROVE CompressionWaits'
  BY <1>6 DEF TypeOK, Ops, Phases, AdapterFinal, Publish, ckptVars, ctlVars
<1>7. ASSUME NEW t \in Turns, AdapterReturns(t) PROVE CompressionWaits'
  BY <1>7 DEF TypeOK, Ops, Phases, AdapterReturns, recVars, ckptVars, ctlVars, histVars
<1>8. ASSUME NEW t \in Turns, TurnFails(t) PROVE CompressionWaits'
  BY <1>8 DEF TypeOK, Ops, Phases, TurnFails, Publish, ckptVars, ctlVars
<1>9. ASSUME NEW t \in Turns, Settle(t) PROVE CompressionWaits'
  BY <1>9 DEF TypeOK, Ops, Phases, Settle, SettleStale, SettleCurrent, Cleared, Idle, Launch, Save,
         Captured, ctlVars, histVars
<1>10. ASSUME NEW t \in Turns, OrphanEnds(t) PROVE CompressionWaits'
  BY <1>10 DEF TypeOK, Ops, Phases, OrphanEnds, recVars, ckptVars, ctlVars, histVars
<1>11. ASSUME Interrupt PROVE CompressionWaits'
  BY <1>11 DEF TypeOK, Ops, Phases, Interrupt, BeginInterrupt, Begin, Await, ckptVars
<1>12. ASSUME Recover PROVE CompressionWaits'
  BY <1>12 DEF TypeOK, Ops, Phases, Recover, Begin, Await, recVars, ckptVars, histVars
<1>13. ASSUME ReattachSucceeds PROVE CompressionWaits'
  BY <1>13 DEF TypeOK, Ops, Phases, ReattachSucceeds, Release, Launch, Idle, Save, Captured, NoOp
<1>14. ASSUME ReattachFails PROVE CompressionWaits'
  BY <1>14 DEF TypeOK, Ops, Phases, ReattachFails, Release, NoOp, recVars, histVars
<1>15. ASSUME NEW stopped \in BOOLEAN, InterruptEnds(stopped) PROVE CompressionWaits'
  BY <1>15
     DEF TypeOK, Ops, Phases, InterruptEnds, InterruptThenSend, InterruptThenDrain, Launch, Idle,
         Release, Save, Captured, Stopped, Await, NoOp
<1>16. ASSUME InterruptTooLate PROVE CompressionWaits'
  BY <1>16 DEF TypeOK, Ops, Phases, InterruptTooLate, Release, NoOp, recVars, ckptVars, histVars
<1>17. ASSUME ControlEnds PROVE CompressionWaits'
  BY <1>17 DEF TypeOK, Ops, Phases, ControlEnds, Release, NoOp, Save, Captured, recVars, histVars
<1>18. ASSUME CompressEnds PROVE CompressionWaits'
  BY <1>18 DEF TypeOK, Ops, Phases, CompressEnds, recVars, ckptVars, histVars
<1>19. ASSUME CompressUnknown PROVE CompressionWaits'
  BY <1>19 DEF TypeOK, Ops, Phases, CompressUnknown, Save, Captured, histVars
<1>20. ASSUME LateOpEnds PROVE CompressionWaits'
  BY <1>20 DEF TypeOK, Ops, Phases, LateOpEnds, recVars, ckptVars, histVars
<1>21. ASSUME Terminate PROVE CompressionWaits'
  BY <1>21 DEF TypeOK, Ops, Phases, Terminate, Dropped, ckptVars, histVars
<1>22. ASSUME ControlBegins PROVE CompressionWaits'
  BY <1>22 DEF TypeOK, Ops, Phases, ControlBegins, Begin, Await, recVars, ckptVars, histVars
<1>23. ASSUME CompressBegins PROVE CompressionWaits'
  BY <1>23 DEF TypeOK, Ops, Phases, CompressBegins, recVars, ckptVars, histVars
<1>24. ASSUME Dispose PROVE CompressionWaits'
  BY <1>24 DEF TypeOK, Ops, Phases, Dispose, recVars, ckptVars, ctlVars, histVars
<1>25. ASSUME Disposed PROVE CompressionWaits'
  BY <1>25 DEF TypeOK, Ops, Phases, Disposed, Dropped, Captured, ctlVars, histVars
<1>26. ASSUME Reopen PROVE CompressionWaits'
  BY <1>26 DEF TypeOK, Ops, Phases, Reopen, Restored, Unwinding, NoOp, histVars
<1>27. ASSUME Crash PROVE CompressionWaits'
  BY <1>27 DEF TypeOK, Ops, Phases, Crash, Restored, NoOp, histVars
<1>28. ASSUME UNCHANGED vars PROVE CompressionWaits'
  BY <1>28 DEF vars, recVars, ckptVars, ctlVars, histVars
<1>29. ASSUME TerminatePersists PROVE CompressionWaits'
  BY <1>29 DEF TerminatePersists, Save, Captured, recVars, histVars
<1>30. ASSUME Released PROVE CompressionWaits'
  BY <1>30 DEF Released, recVars, ctlVars, histVars
<1> QED
  BY <1>1, <1>2, <1>3, <1>4, <1>5, <1>6, <1>7, <1>8, <1>9, <1>10, <1>11, <1>12, <1>13, <1>14, <1>15,
     <1>16, <1>17, <1>18, <1>19, <1>20, <1>21, <1>22, <1>23, <1>24, <1>25, <1>26, <1>27, <1>28, <1>29, <1>30
     DEF Next, Send, TurnStep, OpStep

\* Only a detached record is without ownership.
LEMMA AttachedOwnsStep == TurnInv /\ TypeOK' /\ [Next]_vars => AttachedOwns'
<1> SUFFICES ASSUME TypeOK, TypeOK', AttachedOwns, OpHolds, [Next]_vars PROVE AttachedOwns'
  BY DEF TurnInv
<1> USE TurnsAssumption DEF AttachedOwns, OpHolds, Open, Uncontrolled
<1>1. ASSUME NEW t \in Turns, SendStarts(t) PROVE AttachedOwns'
  BY <1>1 DEF TypeOK, Ops, Phases, SendStarts, Launch, Save, Captured, histVars, ctlVars
<1>2. ASSUME NEW t \in Turns, SendQueues(t) PROVE AttachedOwns'
  BY <1>2 DEF TypeOK, Ops, Phases, SendQueues, ckptVars, ctlVars, histVars
<1>3. ASSUME NEW t \in Turns, SendInterrupts(t) PROVE AttachedOwns'
  BY <1>3 DEF TypeOK, Ops, Phases, SendInterrupts, BeginInterrupt, Begin, Await, ckptVars
<1>4. ASSUME NEW t \in Turns, SendReattaches(t) PROVE AttachedOwns'
  BY <1>4 DEF TypeOK, Ops, Phases, SendReattaches, Begin, Await, Ops, recVars, ckptVars, histVars
<1>5. ASSUME NEW t \in Turns, Dispatch(t) PROVE AttachedOwns'
  BY <1>5 DEF TypeOK, Ops, Phases, Dispatch, recVars, ctlVars, histVars
<1>6. ASSUME NEW t \in Turns, AdapterFinal(t) PROVE AttachedOwns'
  BY <1>6 DEF TypeOK, Ops, Phases, AdapterFinal, Publish, ckptVars, ctlVars
<1>7. ASSUME NEW t \in Turns, AdapterReturns(t) PROVE AttachedOwns'
  BY <1>7 DEF TypeOK, Ops, Phases, AdapterReturns, recVars, ckptVars, ctlVars, histVars
<1>8. ASSUME NEW t \in Turns, TurnFails(t) PROVE AttachedOwns'
  BY <1>8 DEF TypeOK, Ops, Phases, TurnFails, Publish, ckptVars, ctlVars
<1>9. ASSUME NEW t \in Turns, Settle(t) PROVE AttachedOwns'
  BY <1>9 DEF TypeOK, Ops, Phases, Settle, SettleStale, SettleCurrent, Cleared, Idle, Launch, Save,
         Captured, ctlVars, histVars
<1>10. ASSUME NEW t \in Turns, OrphanEnds(t) PROVE AttachedOwns'
  BY <1>10 DEF TypeOK, Ops, Phases, OrphanEnds, recVars, ckptVars, ctlVars, histVars
<1>11. ASSUME Interrupt PROVE AttachedOwns'
  BY <1>11 DEF TypeOK, Ops, Phases, Interrupt, BeginInterrupt, Begin, Await, ckptVars
<1>12. ASSUME Recover PROVE AttachedOwns'
  BY <1>12 DEF TypeOK, Ops, Phases, Recover, Begin, Await, recVars, ckptVars, histVars
<1>13. ASSUME ReattachSucceeds PROVE AttachedOwns'
  BY <1>13 DEF TypeOK, Ops, Phases, ReattachSucceeds, Release, Launch, Idle, Save, Captured, NoOp
<1>14. ASSUME ReattachFails PROVE AttachedOwns'
  BY <1>14 DEF TypeOK, Ops, Phases, ReattachFails, Release, NoOp, recVars, histVars
<1>15. ASSUME NEW stopped \in BOOLEAN, InterruptEnds(stopped) PROVE AttachedOwns'
  BY <1>15
     DEF TypeOK, Ops, Phases, InterruptEnds, InterruptThenSend, InterruptThenDrain, Launch, Idle,
         Release, Save, Captured, Stopped, Await, NoOp
<1>16. ASSUME InterruptTooLate PROVE AttachedOwns'
  BY <1>16 DEF TypeOK, Ops, Phases, InterruptTooLate, Release, NoOp, recVars, ckptVars, histVars
<1>17. ASSUME ControlEnds PROVE AttachedOwns'
  BY <1>17 DEF TypeOK, Ops, Phases, ControlEnds, Release, NoOp, Save, Captured, recVars, histVars
<1>18. ASSUME CompressEnds PROVE AttachedOwns'
  BY <1>18 DEF TypeOK, Ops, Phases, CompressEnds, recVars, ckptVars, histVars
<1>19. ASSUME CompressUnknown PROVE AttachedOwns'
  BY <1>19 DEF TypeOK, Ops, Phases, CompressUnknown, Save, Captured, histVars
<1>20. ASSUME LateOpEnds PROVE AttachedOwns'
  BY <1>20 DEF TypeOK, Ops, Phases, LateOpEnds, recVars, ckptVars, histVars
<1>21. ASSUME Terminate PROVE AttachedOwns'
  BY <1>21 DEF TypeOK, Ops, Phases, Terminate, Dropped, ckptVars, histVars
<1>22. ASSUME ControlBegins PROVE AttachedOwns'
  BY <1>22 DEF TypeOK, Ops, Phases, ControlBegins, Begin, Await, recVars, ckptVars, histVars
<1>23. ASSUME CompressBegins PROVE AttachedOwns'
  BY <1>23 DEF TypeOK, Ops, Phases, CompressBegins, recVars, ckptVars, histVars
<1>24. ASSUME Dispose PROVE AttachedOwns'
  BY <1>24 DEF TypeOK, Ops, Phases, Dispose, recVars, ckptVars, ctlVars, histVars
<1>25. ASSUME Disposed PROVE AttachedOwns'
  BY <1>25 DEF TypeOK, Ops, Phases, Disposed, Dropped, Captured, ctlVars, histVars
<1>26. ASSUME Reopen PROVE AttachedOwns'
  BY <1>26 DEF TypeOK, Ops, Phases, Reopen, Restored, Unwinding, NoOp, histVars
<1>27. ASSUME Crash PROVE AttachedOwns'
  BY <1>27 DEF TypeOK, Ops, Phases, Crash, Restored, NoOp, histVars
<1>28. ASSUME UNCHANGED vars PROVE AttachedOwns'
  BY <1>28 DEF vars, recVars, ckptVars, ctlVars, histVars
<1>29. ASSUME TerminatePersists PROVE AttachedOwns'
  BY <1>29 DEF TerminatePersists, Save, Captured, recVars, histVars
<1>30. ASSUME Released PROVE AttachedOwns'
  BY <1>30 DEF Released, recVars, ctlVars, histVars
<1> QED
  BY <1>1, <1>2, <1>3, <1>4, <1>5, <1>6, <1>7, <1>8, <1>9, <1>10, <1>11, <1>12, <1>13, <1>14, <1>15,
     <1>16, <1>17, <1>18, <1>19, <1>20, <1>21, <1>22, <1>23, <1>24, <1>25, <1>26, <1>27, <1>28, <1>29, <1>30
     DEF Next, Send, TurnStep, OpStep

\* A live turn is the current one unless it is fenced or overtaken.
LEMMA LiveTurnIsCurrentStep == TurnInv /\ TypeOK' /\ [Next]_vars => LiveTurnIsCurrent'
<1> SUFFICES ASSUME TypeOK, TypeOK', LiveTurnIsCurrent, CurrentStarted, OpHolds, CompressionWaits,
    AttachedOwns, [Next]_vars
    PROVE LiveTurnIsCurrent'
  BY DEF TurnInv
<1> USE TurnsAssumption
    DEF LiveTurnIsCurrent, CurrentStarted, OpHolds, CompressionWaits, AttachedOwns, Live, Started,
        Open, Uncontrolled
<1>1. ASSUME NEW t \in Turns, SendStarts(t) PROVE LiveTurnIsCurrent'
  BY <1>1 DEF TypeOK, Ops, Phases, SendStarts, Launch, Save, Captured, histVars, ctlVars
<1>2. ASSUME NEW t \in Turns, SendQueues(t) PROVE LiveTurnIsCurrent'
  BY <1>2 DEF TypeOK, Ops, Phases, SendQueues, ckptVars, ctlVars, histVars
<1>3. ASSUME NEW t \in Turns, SendInterrupts(t) PROVE LiveTurnIsCurrent'
  BY <1>3 DEF TypeOK, Ops, Phases, SendInterrupts, BeginInterrupt, Begin, Await, ckptVars
<1>4. ASSUME NEW t \in Turns, SendReattaches(t) PROVE LiveTurnIsCurrent'
  BY <1>4 DEF TypeOK, Ops, Phases, SendReattaches, Begin, Await, Ops, recVars, ckptVars, histVars
<1>5. ASSUME NEW t \in Turns, Dispatch(t) PROVE LiveTurnIsCurrent'
  <2>1. \E ph \in {"closing", "executing"} : phase' = [phase EXCEPT ![t] = ph]
    BY <1>5 DEF Dispatch
  <2> QED
    BY <1>5, <2>1 DEF TypeOK, Ops, Dispatch, recVars, ctlVars, histVars
<1>6. ASSUME NEW t \in Turns, AdapterFinal(t) PROVE LiveTurnIsCurrent'
  BY <1>6 DEF TypeOK, Ops, Phases, AdapterFinal, Publish, ckptVars, ctlVars
<1>7. ASSUME NEW t \in Turns, AdapterReturns(t) PROVE LiveTurnIsCurrent'
  BY <1>7 DEF TypeOK, Ops, Phases, AdapterReturns, recVars, ckptVars, ctlVars, histVars
<1>8. ASSUME NEW t \in Turns, TurnFails(t) PROVE LiveTurnIsCurrent'
  BY <1>8 DEF TypeOK, Ops, Phases, TurnFails, Publish, ckptVars, ctlVars
<1>9. ASSUME NEW t \in Turns, Settle(t) PROVE LiveTurnIsCurrent'
  BY <1>9 DEF TypeOK, Ops, Phases, Settle, SettleStale, SettleCurrent, Cleared, Idle, Launch, Save,
         Captured, ctlVars, histVars
<1>10. ASSUME NEW t \in Turns, OrphanEnds(t) PROVE LiveTurnIsCurrent'
  BY <1>10 DEF TypeOK, Ops, Phases, OrphanEnds, recVars, ckptVars, ctlVars, histVars
<1>11. ASSUME Interrupt PROVE LiveTurnIsCurrent'
  BY <1>11 DEF TypeOK, Ops, Phases, Interrupt, BeginInterrupt, Begin, Await, ckptVars
<1>12. ASSUME Recover PROVE LiveTurnIsCurrent'
  BY <1>12 DEF TypeOK, Ops, Phases, Recover, Begin, Await, recVars, ckptVars, histVars
<1>13. ASSUME ReattachSucceeds PROVE LiveTurnIsCurrent'
  BY <1>13 DEF TypeOK, Ops, Phases, ReattachSucceeds, Release, Launch, Idle, Save, Captured, NoOp
<1>14. ASSUME ReattachFails PROVE LiveTurnIsCurrent'
  BY <1>14 DEF TypeOK, Ops, Phases, ReattachFails, Release, NoOp, recVars, histVars
<1>15. ASSUME NEW stopped \in BOOLEAN, InterruptEnds(stopped) PROVE LiveTurnIsCurrent'
  BY <1>15
     DEF TypeOK, Ops, Phases, InterruptEnds, InterruptThenSend, InterruptThenDrain, Launch, Idle,
         Release, Save, Captured, Stopped, Await, NoOp
<1>16. ASSUME InterruptTooLate PROVE LiveTurnIsCurrent'
  BY <1>16 DEF TypeOK, Ops, Phases, InterruptTooLate, Release, NoOp, recVars, ckptVars, histVars
<1>17. ASSUME ControlEnds PROVE LiveTurnIsCurrent'
  BY <1>17 DEF TypeOK, Ops, Phases, ControlEnds, Release, NoOp, Save, Captured, recVars, histVars
<1>18. ASSUME CompressEnds PROVE LiveTurnIsCurrent'
  BY <1>18 DEF TypeOK, Ops, Phases, CompressEnds, recVars, ckptVars, histVars
<1>19. ASSUME CompressUnknown PROVE LiveTurnIsCurrent'
  BY <1>19 DEF TypeOK, Ops, Phases, CompressUnknown, Save, Captured, histVars
<1>20. ASSUME LateOpEnds PROVE LiveTurnIsCurrent'
  BY <1>20 DEF TypeOK, Ops, Phases, LateOpEnds, recVars, ckptVars, histVars
<1>21. ASSUME Terminate PROVE LiveTurnIsCurrent'
  BY <1>21 DEF TypeOK, Ops, Phases, Terminate, Dropped, ckptVars, histVars
<1>22. ASSUME ControlBegins PROVE LiveTurnIsCurrent'
  BY <1>22 DEF TypeOK, Ops, Phases, ControlBegins, Begin, Await, recVars, ckptVars, histVars
<1>23. ASSUME CompressBegins PROVE LiveTurnIsCurrent'
  BY <1>23 DEF TypeOK, Ops, Phases, CompressBegins, recVars, ckptVars, histVars
<1>24. ASSUME Dispose PROVE LiveTurnIsCurrent'
  BY <1>24 DEF TypeOK, Ops, Phases, Dispose, recVars, ckptVars, ctlVars, histVars
<1>25. ASSUME Disposed PROVE LiveTurnIsCurrent'
  BY <1>25 DEF TypeOK, Ops, Phases, Disposed, Dropped, Captured, ctlVars, histVars
<1>26. ASSUME Reopen PROVE LiveTurnIsCurrent'
  BY <1>26 DEF TypeOK, Ops, Phases, Reopen, Restored, Unwinding, NoOp, histVars
<1>27. ASSUME Crash PROVE LiveTurnIsCurrent'
  BY <1>27 DEF TypeOK, Ops, Phases, Crash, Restored, NoOp, histVars
<1>28. ASSUME UNCHANGED vars PROVE LiveTurnIsCurrent'
  BY <1>28 DEF vars, recVars, ckptVars, ctlVars, histVars
<1>29. ASSUME TerminatePersists PROVE LiveTurnIsCurrent'
  BY <1>29 DEF TerminatePersists, Save, Captured, recVars, histVars
<1>30. ASSUME Released PROVE LiveTurnIsCurrent'
  BY <1>30 DEF Released, recVars, ctlVars, histVars
<1> QED
  BY <1>1, <1>2, <1>3, <1>4, <1>5, <1>6, <1>7, <1>8, <1>9, <1>10, <1>11, <1>12, <1>13, <1>14, <1>15,
     <1>16, <1>17, <1>18, <1>19, <1>20, <1>21, <1>22, <1>23, <1>24, <1>25, <1>26, <1>27, <1>28, <1>29, <1>30
     DEF Next, Send, TurnStep, OpStep

\* A late operation of a disposed engine keeps everything else out.
LEMMA SuccessorWaitsStep == TurnInv /\ TypeOK' /\ [Next]_vars => SuccessorWaits'
<1> SUFFICES ASSUME TypeOK, TypeOK', SuccessorWaits, OpHolds, LateIdles, [Next]_vars PROVE SuccessorWaits'
  BY DEF TurnInv
<1> USE TurnsAssumption DEF SuccessorWaits, OpHolds, LateIdles, Live, Open, Uncontrolled, Started
<1>1. ASSUME NEW t \in Turns, SendStarts(t) PROVE SuccessorWaits'
  BY <1>1 DEF TypeOK, Ops, Phases, SendStarts, Launch, Save, Captured, histVars, ctlVars
<1>2. ASSUME NEW t \in Turns, SendQueues(t) PROVE SuccessorWaits'
  BY <1>2 DEF TypeOK, Ops, Phases, SendQueues, ckptVars, ctlVars, histVars
<1>3. ASSUME NEW t \in Turns, SendInterrupts(t) PROVE SuccessorWaits'
  BY <1>3 DEF TypeOK, Ops, Phases, SendInterrupts, BeginInterrupt, Begin, Await, ckptVars
<1>4. ASSUME NEW t \in Turns, SendReattaches(t) PROVE SuccessorWaits'
  BY <1>4 DEF TypeOK, Ops, Phases, SendReattaches, Begin, Await, Ops, recVars, ckptVars, histVars
<1>5. ASSUME NEW t \in Turns, Dispatch(t) PROVE SuccessorWaits'
  <2>1. \E ph \in {"closing", "executing"} : phase' = [phase EXCEPT ![t] = ph]
    BY <1>5 DEF Dispatch
  <2> QED
    BY <1>5, <2>1 DEF TypeOK, Ops, Dispatch, recVars, ctlVars, histVars
<1>6. ASSUME NEW t \in Turns, AdapterFinal(t) PROVE SuccessorWaits'
  BY <1>6 DEF TypeOK, Ops, Phases, AdapterFinal, Publish, ckptVars, ctlVars
<1>7. ASSUME NEW t \in Turns, AdapterReturns(t) PROVE SuccessorWaits'
  BY <1>7 DEF TypeOK, Ops, Phases, AdapterReturns, recVars, ckptVars, ctlVars, histVars
<1>8. ASSUME NEW t \in Turns, TurnFails(t) PROVE SuccessorWaits'
  BY <1>8 DEF TypeOK, Ops, Phases, TurnFails, Publish, ckptVars, ctlVars
<1>9. ASSUME NEW t \in Turns, Settle(t) PROVE SuccessorWaits'
  BY <1>9 DEF TypeOK, Ops, Phases, Settle, SettleStale, SettleCurrent, Cleared, Idle, Launch, Save,
         Captured, ctlVars, histVars
<1>10. ASSUME NEW t \in Turns, OrphanEnds(t) PROVE SuccessorWaits'
  BY <1>10 DEF TypeOK, Ops, Phases, OrphanEnds, recVars, ckptVars, ctlVars, histVars
<1>11. ASSUME Interrupt PROVE SuccessorWaits'
  BY <1>11 DEF TypeOK, Ops, Phases, Interrupt, BeginInterrupt, Begin, Await, ckptVars
<1>12. ASSUME Recover PROVE SuccessorWaits'
  BY <1>12 DEF TypeOK, Ops, Phases, Recover, Begin, Await, recVars, ckptVars, histVars
<1>13. ASSUME ReattachSucceeds PROVE SuccessorWaits'
  BY <1>13 DEF TypeOK, Ops, Phases, ReattachSucceeds, Release, Launch, Idle, Save, Captured, NoOp
<1>14. ASSUME ReattachFails PROVE SuccessorWaits'
  BY <1>14 DEF TypeOK, Ops, Phases, ReattachFails, Release, NoOp, recVars, histVars
<1>15. ASSUME NEW stopped \in BOOLEAN, InterruptEnds(stopped) PROVE SuccessorWaits'
  BY <1>15
     DEF TypeOK, Ops, Phases, InterruptEnds, InterruptThenSend, InterruptThenDrain, Launch, Idle,
         Release, Save, Captured, Stopped, Await, NoOp
<1>16. ASSUME InterruptTooLate PROVE SuccessorWaits'
  BY <1>16 DEF TypeOK, Ops, Phases, InterruptTooLate, Release, NoOp, recVars, ckptVars, histVars
<1>17. ASSUME ControlEnds PROVE SuccessorWaits'
  BY <1>17 DEF TypeOK, Ops, Phases, ControlEnds, Release, NoOp, Save, Captured, recVars, histVars
<1>18. ASSUME CompressEnds PROVE SuccessorWaits'
  BY <1>18 DEF TypeOK, Ops, Phases, CompressEnds, recVars, ckptVars, histVars
<1>19. ASSUME CompressUnknown PROVE SuccessorWaits'
  BY <1>19 DEF TypeOK, Ops, Phases, CompressUnknown, Save, Captured, histVars
<1>20. ASSUME LateOpEnds PROVE SuccessorWaits'
  BY <1>20 DEF TypeOK, Ops, Phases, LateOpEnds, recVars, ckptVars, histVars
<1>21. ASSUME Terminate PROVE SuccessorWaits'
  BY <1>21 DEF TypeOK, Ops, Phases, Terminate, Dropped, ckptVars, histVars
<1>22. ASSUME ControlBegins PROVE SuccessorWaits'
  BY <1>22 DEF TypeOK, Ops, Phases, ControlBegins, Begin, Await, recVars, ckptVars, histVars
<1>23. ASSUME CompressBegins PROVE SuccessorWaits'
  BY <1>23 DEF TypeOK, Ops, Phases, CompressBegins, recVars, ckptVars, histVars
<1>24. ASSUME Dispose PROVE SuccessorWaits'
  BY <1>24 DEF TypeOK, Ops, Phases, Dispose, recVars, ckptVars, ctlVars, histVars
<1>25. ASSUME Disposed PROVE SuccessorWaits'
  BY <1>25 DEF TypeOK, Ops, Phases, Disposed, Dropped, Captured, ctlVars, histVars
<1>26. ASSUME Reopen PROVE SuccessorWaits'
  BY <1>26 DEF TypeOK, Ops, Phases, Reopen, Restored, Unwinding, NoOp, histVars
<1>27. ASSUME Crash PROVE SuccessorWaits'
  BY <1>27 DEF TypeOK, Ops, Phases, Crash, Restored, NoOp, histVars
<1>28. ASSUME UNCHANGED vars PROVE SuccessorWaits'
  BY <1>28 DEF vars, recVars, ckptVars, ctlVars, histVars
<1>29. ASSUME TerminatePersists PROVE SuccessorWaits'
  BY <1>29 DEF TerminatePersists, Save, Captured, recVars, histVars
<1>30. ASSUME Released PROVE SuccessorWaits'
  BY <1>30 DEF Released, recVars, ctlVars, histVars
<1> QED
  BY <1>1, <1>2, <1>3, <1>4, <1>5, <1>6, <1>7, <1>8, <1>9, <1>10, <1>11, <1>12, <1>13, <1>14, <1>15,
     <1>16, <1>17, <1>18, <1>19, <1>20, <1>21, <1>22, <1>23, <1>24, <1>25, <1>26, <1>27, <1>28, <1>29, <1>30
     DEF Next, Send, TurnStep, OpStep

\* A terminated session has nothing live.
LEMMA TerminatedIsFencedStep == TurnInv /\ TypeOK' /\ [Next]_vars => TerminatedIsFenced'
<1> SUFFICES ASSUME TypeOK, TypeOK', TerminatedIsFenced, LiveTurnIsCurrent, OpHolds,
    CompressionWaits, [Next]_vars
    PROVE TerminatedIsFenced'
  BY DEF TurnInv
<1> USE TurnsAssumption
    DEF TerminatedIsFenced, LiveTurnIsCurrent, OpHolds, CompressionWaits, Live, Open, Uncontrolled
<1>1. ASSUME NEW t \in Turns, SendStarts(t) PROVE TerminatedIsFenced'
  BY <1>1 DEF TypeOK, Ops, Phases, SendStarts, Launch, Save, Captured, histVars, ctlVars
<1>2. ASSUME NEW t \in Turns, SendQueues(t) PROVE TerminatedIsFenced'
  BY <1>2 DEF TypeOK, Ops, Phases, SendQueues, ckptVars, ctlVars, histVars
<1>3. ASSUME NEW t \in Turns, SendInterrupts(t) PROVE TerminatedIsFenced'
  BY <1>3 DEF TypeOK, Ops, Phases, SendInterrupts, BeginInterrupt, Begin, Await, ckptVars
<1>4. ASSUME NEW t \in Turns, SendReattaches(t) PROVE TerminatedIsFenced'
  BY <1>4 DEF TypeOK, Ops, Phases, SendReattaches, Begin, Await, Ops, recVars, ckptVars, histVars
<1>5. ASSUME NEW t \in Turns, Dispatch(t) PROVE TerminatedIsFenced'
  <2>1. \E ph \in {"closing", "executing"} : phase' = [phase EXCEPT ![t] = ph]
    BY <1>5 DEF Dispatch
  <2> QED
    BY <1>5, <2>1 DEF TypeOK, Ops, Dispatch, recVars, ctlVars, histVars
<1>6. ASSUME NEW t \in Turns, AdapterFinal(t) PROVE TerminatedIsFenced'
  BY <1>6 DEF TypeOK, Ops, Phases, AdapterFinal, Publish, ckptVars, ctlVars
<1>7. ASSUME NEW t \in Turns, AdapterReturns(t) PROVE TerminatedIsFenced'
  BY <1>7 DEF TypeOK, Ops, Phases, AdapterReturns, recVars, ckptVars, ctlVars, histVars
<1>8. ASSUME NEW t \in Turns, TurnFails(t) PROVE TerminatedIsFenced'
  BY <1>8 DEF TypeOK, Ops, Phases, TurnFails, Publish, ckptVars, ctlVars
<1>9. ASSUME NEW t \in Turns, Settle(t) PROVE TerminatedIsFenced'
  BY <1>9 DEF TypeOK, Ops, Phases, Settle, SettleStale, SettleCurrent, Cleared, Idle, Launch, Save,
         Captured, ctlVars, histVars
<1>10. ASSUME NEW t \in Turns, OrphanEnds(t) PROVE TerminatedIsFenced'
  BY <1>10 DEF TypeOK, Ops, Phases, OrphanEnds, recVars, ckptVars, ctlVars, histVars
<1>11. ASSUME Interrupt PROVE TerminatedIsFenced'
  BY <1>11 DEF TypeOK, Ops, Phases, Interrupt, BeginInterrupt, Begin, Await, ckptVars
<1>12. ASSUME Recover PROVE TerminatedIsFenced'
  BY <1>12 DEF TypeOK, Ops, Phases, Recover, Begin, Await, recVars, ckptVars, histVars
<1>13. ASSUME ReattachSucceeds PROVE TerminatedIsFenced'
  BY <1>13 DEF TypeOK, Ops, Phases, ReattachSucceeds, Release, Launch, Idle, Save, Captured, NoOp
<1>14. ASSUME ReattachFails PROVE TerminatedIsFenced'
  BY <1>14 DEF TypeOK, Ops, Phases, ReattachFails, Release, NoOp, recVars, histVars
<1>15. ASSUME NEW stopped \in BOOLEAN, InterruptEnds(stopped) PROVE TerminatedIsFenced'
  BY <1>15
     DEF TypeOK, Ops, Phases, InterruptEnds, InterruptThenSend, InterruptThenDrain, Launch, Idle,
         Release, Save, Captured, Stopped, Await, NoOp
<1>16. ASSUME InterruptTooLate PROVE TerminatedIsFenced'
  BY <1>16 DEF TypeOK, Ops, Phases, InterruptTooLate, Release, NoOp, recVars, ckptVars, histVars
<1>17. ASSUME ControlEnds PROVE TerminatedIsFenced'
  BY <1>17 DEF TypeOK, Ops, Phases, ControlEnds, Release, NoOp, Save, Captured, recVars, histVars
<1>18. ASSUME CompressEnds PROVE TerminatedIsFenced'
  BY <1>18 DEF TypeOK, Ops, Phases, CompressEnds, recVars, ckptVars, histVars
<1>19. ASSUME CompressUnknown PROVE TerminatedIsFenced'
  BY <1>19 DEF TypeOK, Ops, Phases, CompressUnknown, Save, Captured, histVars
<1>20. ASSUME LateOpEnds PROVE TerminatedIsFenced'
  BY <1>20 DEF TypeOK, Ops, Phases, LateOpEnds, recVars, ckptVars, histVars
<1>21. ASSUME Terminate PROVE TerminatedIsFenced'
  <2>1. op' = NoOp /\ life' = life /\ overtaken' = overtaken /\ queue' = <<>> /\ terminating'
        /\ terminal' = terminal \cup ({current} \ {None})
    BY <1>21 DEF Terminate, histVars
  <2>2. \A u \in Turns : Live(u)' => Live(u)
    BY <1>21 DEF Terminate, Dropped
  <2> QED
    BY <2>1, <2>2 DEF NoOp
<1>22. ASSUME ControlBegins PROVE TerminatedIsFenced'
  BY <1>22 DEF TypeOK, Ops, Phases, ControlBegins, Begin, Await, recVars, ckptVars, histVars
<1>23. ASSUME CompressBegins PROVE TerminatedIsFenced'
  BY <1>23 DEF TypeOK, Ops, Phases, CompressBegins, recVars, ckptVars, histVars
<1>24. ASSUME Dispose PROVE TerminatedIsFenced'
  BY <1>24 DEF TypeOK, Ops, Phases, Dispose, recVars, ckptVars, ctlVars, histVars
<1>25. ASSUME Disposed PROVE TerminatedIsFenced'
  BY <1>25 DEF TypeOK, Ops, Phases, Disposed, Dropped, Captured, ctlVars, histVars
<1>26. ASSUME Reopen PROVE TerminatedIsFenced'
  BY <1>26 DEF TypeOK, Ops, Phases, Reopen, Restored, Unwinding, NoOp, histVars
<1>27. ASSUME Crash PROVE TerminatedIsFenced'
  BY <1>27 DEF TypeOK, Ops, Phases, Crash, Restored, NoOp, histVars
<1>28. ASSUME UNCHANGED vars PROVE TerminatedIsFenced'
  BY <1>28 DEF vars, recVars, ckptVars, ctlVars, histVars
<1>29. ASSUME TerminatePersists PROVE TerminatedIsFenced'
  BY <1>29 DEF TerminatePersists, Save, Captured, recVars, histVars
<1>30. ASSUME Released PROVE TerminatedIsFenced'
  BY <1>30 DEF Released, recVars, ctlVars, histVars
<1> QED
  BY <1>1, <1>2, <1>3, <1>4, <1>5, <1>6, <1>7, <1>8, <1>9, <1>10, <1>11, <1>12, <1>13, <1>14, <1>15,
     <1>16, <1>17, <1>18, <1>19, <1>20, <1>21, <1>22, <1>23, <1>24, <1>25, <1>26, <1>27, <1>28, <1>29, <1>30
     DEF Next, Send, TurnStep, OpStep

\* No turn starts while an operation of a disposed engine lasts.
LEMMA LateIdlesStep == TurnInv /\ TypeOK' /\ [Next]_vars => LateIdles'
<1> SUFFICES ASSUME TypeOK, TypeOK', LateIdles, OpHolds, SuccessorWaits, [Next]_vars PROVE LateIdles'
  BY DEF TurnInv
<1> USE TurnsAssumption DEF LateIdles, OpHolds, SuccessorWaits, Started, Open, Uncontrolled
<1>1. ASSUME NEW t \in Turns, SendStarts(t) PROVE LateIdles'
  BY <1>1 DEF TypeOK, Ops, Phases, SendStarts, Launch, Save, Captured, histVars, ctlVars
<1>2. ASSUME NEW t \in Turns, SendQueues(t) PROVE LateIdles'
  BY <1>2 DEF TypeOK, Ops, Phases, SendQueues, ckptVars, ctlVars, histVars
<1>3. ASSUME NEW t \in Turns, SendInterrupts(t) PROVE LateIdles'
  BY <1>3 DEF TypeOK, Ops, Phases, SendInterrupts, BeginInterrupt, Begin, Await, ckptVars
<1>4. ASSUME NEW t \in Turns, SendReattaches(t) PROVE LateIdles'
  BY <1>4 DEF TypeOK, Ops, Phases, SendReattaches, Begin, Await, Ops, recVars, ckptVars, histVars
<1>5. ASSUME NEW t \in Turns, Dispatch(t) PROVE LateIdles'
  <2>1. \E ph \in {"closing", "executing"} : phase' = [phase EXCEPT ![t] = ph]
    BY <1>5 DEF Dispatch
  <2> QED
    BY <1>5, <2>1 DEF TypeOK, Ops, Dispatch, recVars, ctlVars, histVars
<1>6. ASSUME NEW t \in Turns, AdapterFinal(t) PROVE LateIdles'
  BY <1>6 DEF TypeOK, Ops, Phases, AdapterFinal, Publish, ckptVars, ctlVars
<1>7. ASSUME NEW t \in Turns, AdapterReturns(t) PROVE LateIdles'
  BY <1>7 DEF TypeOK, Ops, Phases, AdapterReturns, recVars, ckptVars, ctlVars, histVars
<1>8. ASSUME NEW t \in Turns, TurnFails(t) PROVE LateIdles'
  BY <1>8 DEF TypeOK, Ops, Phases, TurnFails, Publish, ckptVars, ctlVars
<1>9. ASSUME NEW t \in Turns, Settle(t) PROVE LateIdles'
  BY <1>9 DEF TypeOK, Ops, Phases, Settle, SettleStale, SettleCurrent, Cleared, Idle, Launch, Save,
         Captured, ctlVars, histVars
<1>10. ASSUME NEW t \in Turns, OrphanEnds(t) PROVE LateIdles'
  BY <1>10 DEF TypeOK, Ops, Phases, OrphanEnds, recVars, ckptVars, ctlVars, histVars
<1>11. ASSUME Interrupt PROVE LateIdles'
  BY <1>11 DEF TypeOK, Ops, Phases, Interrupt, BeginInterrupt, Begin, Await, ckptVars
<1>12. ASSUME Recover PROVE LateIdles'
  BY <1>12 DEF TypeOK, Ops, Phases, Recover, Begin, Await, recVars, ckptVars, histVars
<1>13. ASSUME ReattachSucceeds PROVE LateIdles'
  BY <1>13 DEF TypeOK, Ops, Phases, ReattachSucceeds, Release, Launch, Idle, Save, Captured, NoOp
<1>14. ASSUME ReattachFails PROVE LateIdles'
  BY <1>14 DEF TypeOK, Ops, Phases, ReattachFails, Release, NoOp, recVars, histVars
<1>15. ASSUME NEW stopped \in BOOLEAN, InterruptEnds(stopped) PROVE LateIdles'
  BY <1>15
     DEF TypeOK, Ops, Phases, InterruptEnds, InterruptThenSend, InterruptThenDrain, Launch, Idle,
         Release, Save, Captured, Stopped, Await, NoOp
<1>16. ASSUME InterruptTooLate PROVE LateIdles'
  BY <1>16 DEF TypeOK, Ops, Phases, InterruptTooLate, Release, NoOp, recVars, ckptVars, histVars
<1>17. ASSUME ControlEnds PROVE LateIdles'
  BY <1>17 DEF TypeOK, Ops, Phases, ControlEnds, Release, NoOp, Save, Captured, recVars, histVars
<1>18. ASSUME CompressEnds PROVE LateIdles'
  BY <1>18 DEF TypeOK, Ops, Phases, CompressEnds, recVars, ckptVars, histVars
<1>19. ASSUME CompressUnknown PROVE LateIdles'
  BY <1>19 DEF TypeOK, Ops, Phases, CompressUnknown, Save, Captured, histVars
<1>20. ASSUME LateOpEnds PROVE LateIdles'
  BY <1>20 DEF TypeOK, Ops, Phases, LateOpEnds, recVars, ckptVars, histVars
<1>21. ASSUME Terminate PROVE LateIdles'
  BY <1>21 DEF TypeOK, Ops, Phases, Terminate, Dropped, ckptVars, histVars
<1>22. ASSUME ControlBegins PROVE LateIdles'
  BY <1>22 DEF TypeOK, Ops, Phases, ControlBegins, Begin, Await, recVars, ckptVars, histVars
<1>23. ASSUME CompressBegins PROVE LateIdles'
  BY <1>23 DEF TypeOK, Ops, Phases, CompressBegins, recVars, ckptVars, histVars
<1>24. ASSUME Dispose PROVE LateIdles'
  BY <1>24 DEF TypeOK, Ops, Phases, Dispose, recVars, ckptVars, ctlVars, histVars
<1>25. ASSUME Disposed PROVE LateIdles'
  BY <1>25 DEF TypeOK, Ops, Phases, Disposed, Dropped, Captured, ctlVars, histVars
<1>26. ASSUME Reopen PROVE LateIdles'
  BY <1>26 DEF TypeOK, Ops, Phases, Reopen, Restored, Unwinding, NoOp, histVars
<1>27. ASSUME Crash PROVE LateIdles'
  BY <1>27 DEF TypeOK, Ops, Phases, Crash, Restored, NoOp, histVars
<1>28. ASSUME UNCHANGED vars PROVE LateIdles'
  BY <1>28 DEF vars, recVars, ckptVars, ctlVars, histVars
<1>29. ASSUME TerminatePersists PROVE LateIdles'
  BY <1>29 DEF TerminatePersists, Save, Captured, recVars, histVars
<1>30. ASSUME Released PROVE LateIdles'
  BY <1>30 DEF Released, recVars, ctlVars, histVars
<1> QED
  BY <1>1, <1>2, <1>3, <1>4, <1>5, <1>6, <1>7, <1>8, <1>9, <1>10, <1>11, <1>12, <1>13, <1>14, <1>15,
     <1>16, <1>17, <1>18, <1>19, <1>20, <1>21, <1>22, <1>23, <1>24, <1>25, <1>26, <1>27, <1>28, <1>29, <1>30
     DEF Next, Send, TurnStep, OpStep

\* Work begins in the current turn and outlives it only as a stray.
LEMMA WorkIsCurrentStep == TurnInv /\ TypeOK' /\ [Next]_vars => WorkIsCurrent'
<1> SUFFICES ASSUME TypeOK, TypeOK', WorkIsCurrent, CurrentStarted, OpHolds, LiveTurnIsCurrent,
    TerminatedIsFenced, CompressionExclusive, CompressionWaits, [Next]_vars
    PROVE WorkIsCurrent'
  BY DEF TurnInv
<1> USE TurnsAssumption
    DEF WorkIsCurrent, CurrentStarted, OpHolds, LiveTurnIsCurrent, TerminatedIsFenced,
        CompressionExclusive, CompressionWaits, Stray, Live, Working, Open, Uncontrolled, Started
<1>1. ASSUME NEW t \in Turns, SendStarts(t) PROVE WorkIsCurrent'
  BY <1>1 DEF TypeOK, Ops, Phases, SendStarts, Launch, Save, Captured, histVars, ctlVars
<1>2. ASSUME NEW t \in Turns, SendQueues(t) PROVE WorkIsCurrent'
  BY <1>2 DEF TypeOK, Ops, Phases, SendQueues, ckptVars, ctlVars, histVars
<1>3. ASSUME NEW t \in Turns, SendInterrupts(t) PROVE WorkIsCurrent'
  BY <1>3 DEF TypeOK, Ops, Phases, SendInterrupts, BeginInterrupt, Begin, Await, ckptVars
<1>4. ASSUME NEW t \in Turns, SendReattaches(t) PROVE WorkIsCurrent'
  BY <1>4 DEF TypeOK, Ops, Phases, SendReattaches, Begin, Await, Ops, recVars, ckptVars, histVars
<1>5. ASSUME NEW t \in Turns, Dispatch(t) PROVE WorkIsCurrent'
  <2>1. CASE phase' = [phase EXCEPT ![t] = "closing"]
    BY <1>5, <2>1 DEF TypeOK, Dispatch, recVars, ctlVars, histVars
  <2>2. CASE phase' = [phase EXCEPT ![t] = "executing"] /\ current = t /\ life = "open"
    BY <1>5, <2>2 DEF TypeOK, Dispatch, recVars, ctlVars, histVars
  <2> QED
    BY <1>5, <2>1, <2>2 DEF Dispatch
<1>6. ASSUME NEW t \in Turns, AdapterFinal(t) PROVE WorkIsCurrent'
  BY <1>6 DEF TypeOK, Ops, Phases, AdapterFinal, Publish, ckptVars, ctlVars
<1>7. ASSUME NEW t \in Turns, AdapterReturns(t) PROVE WorkIsCurrent'
  BY <1>7 DEF TypeOK, Ops, Phases, AdapterReturns, recVars, ckptVars, ctlVars, histVars
<1>8. ASSUME NEW t \in Turns, TurnFails(t) PROVE WorkIsCurrent'
  BY <1>8 DEF TypeOK, Ops, Phases, TurnFails, Publish, ckptVars, ctlVars
<1>9. ASSUME NEW t \in Turns, Settle(t) PROVE WorkIsCurrent'
  BY <1>9 DEF TypeOK, Ops, Phases, Settle, SettleStale, SettleCurrent, Cleared, Idle, Launch, Save,
         Captured, ctlVars, histVars
<1>10. ASSUME NEW t \in Turns, OrphanEnds(t) PROVE WorkIsCurrent'
  BY <1>10 DEF TypeOK, Ops, Phases, OrphanEnds, recVars, ckptVars, ctlVars, histVars
<1>11. ASSUME Interrupt PROVE WorkIsCurrent'
  BY <1>11 DEF TypeOK, Ops, Phases, Interrupt, BeginInterrupt, Begin, Await, ckptVars
<1>12. ASSUME Recover PROVE WorkIsCurrent'
  BY <1>12 DEF TypeOK, Ops, Phases, Recover, Begin, Await, recVars, ckptVars, histVars
<1>13. ASSUME ReattachSucceeds PROVE WorkIsCurrent'
  BY <1>13 DEF TypeOK, Ops, Phases, ReattachSucceeds, Release, Launch, Idle, Save, Captured, NoOp
<1>14. ASSUME ReattachFails PROVE WorkIsCurrent'
  BY <1>14 DEF TypeOK, Ops, Phases, ReattachFails, Release, NoOp, recVars, histVars
<1>15. ASSUME NEW stopped \in BOOLEAN, InterruptEnds(stopped) PROVE WorkIsCurrent'
  BY <1>15
     DEF TypeOK, Ops, Phases, InterruptEnds, InterruptThenSend, InterruptThenDrain, Launch, Idle,
         Release, Save, Captured, Stopped, Await, NoOp
<1>16. ASSUME InterruptTooLate PROVE WorkIsCurrent'
  BY <1>16 DEF TypeOK, Ops, Phases, InterruptTooLate, Release, NoOp, recVars, ckptVars, histVars
<1>17. ASSUME ControlEnds PROVE WorkIsCurrent'
  BY <1>17 DEF TypeOK, Ops, Phases, ControlEnds, Release, NoOp, Save, Captured, recVars, histVars
<1>18. ASSUME CompressEnds PROVE WorkIsCurrent'
  BY <1>18 DEF TypeOK, Ops, Phases, CompressEnds, recVars, ckptVars, histVars
<1>19. ASSUME CompressUnknown PROVE WorkIsCurrent'
  BY <1>19 DEF TypeOK, Ops, Phases, CompressUnknown, Save, Captured, histVars
<1>20. ASSUME LateOpEnds PROVE WorkIsCurrent'
  BY <1>20 DEF TypeOK, Ops, Phases, LateOpEnds, recVars, ckptVars, histVars
<1>21. ASSUME Terminate PROVE WorkIsCurrent'
  BY <1>21 DEF TypeOK, Ops, Phases, Terminate, Dropped, ckptVars, histVars
<1>22. ASSUME ControlBegins PROVE WorkIsCurrent'
  BY <1>22 DEF TypeOK, Ops, Phases, ControlBegins, Begin, Await, recVars, ckptVars, histVars
<1>23. ASSUME CompressBegins PROVE WorkIsCurrent'
  BY <1>23 DEF TypeOK, Ops, Phases, CompressBegins, recVars, ckptVars, histVars
<1>24. ASSUME Dispose PROVE WorkIsCurrent'
  BY <1>24 DEF TypeOK, Ops, Phases, Dispose, recVars, ckptVars, ctlVars, histVars
<1>25. ASSUME Disposed PROVE WorkIsCurrent'
  BY <1>25 DEF TypeOK, Ops, Phases, Disposed, Dropped, Captured, ctlVars, histVars
<1>26. ASSUME Reopen PROVE WorkIsCurrent'
  BY <1>26 DEF TypeOK, Ops, Phases, Reopen, Restored, Unwinding, NoOp, histVars
<1>27. ASSUME Crash PROVE WorkIsCurrent'
  BY <1>27 DEF TypeOK, Ops, Phases, Crash, Restored, NoOp, histVars
<1>28. ASSUME UNCHANGED vars PROVE WorkIsCurrent'
  BY <1>28 DEF vars, recVars, ckptVars, ctlVars, histVars
<1>29. ASSUME TerminatePersists PROVE WorkIsCurrent'
  BY <1>29 DEF TerminatePersists, Save, Captured, recVars, histVars
<1>30. ASSUME Released PROVE WorkIsCurrent'
  BY <1>30 DEF Released, recVars, ctlVars, histVars
<1> QED
  BY <1>1, <1>2, <1>3, <1>4, <1>5, <1>6, <1>7, <1>8, <1>9, <1>10, <1>11, <1>12, <1>13, <1>14, <1>15,
     <1>16, <1>17, <1>18, <1>19, <1>20, <1>21, <1>22, <1>23, <1>24, <1>25, <1>26, <1>27, <1>28, <1>29, <1>30
     DEF Next, Send, TurnStep, OpStep

\* A checkpoint is settled only when the session is idle, and then no turn is at work.
LEMMA WorkIsUnsettledStep == TurnInv /\ TypeOK' /\ [Next]_vars => WorkIsUnsettled'
<1> SUFFICES ASSUME TypeOK, TypeOK', WorkIsUnsettled, WorkIsCurrent, CurrentStarted, OpHolds,
    AttachedOwns, CompressionWaits, TerminatedIsFenced, [Next]_vars
    PROVE WorkIsUnsettled'
  BY DEF TurnInv
<1> USE TurnsAssumption
    DEF WorkIsUnsettled, WorkIsCurrent, CurrentStarted, OpHolds, AttachedOwns, CompressionWaits,
        TerminatedIsFenced, Stray, Open, Uncontrolled, Started
<1>1. ASSUME NEW t \in Turns, SendStarts(t) PROVE WorkIsUnsettled'
  BY <1>1 DEF TypeOK, Ops, Phases, SendStarts, Launch, Save, Captured, histVars, ctlVars
<1>2. ASSUME NEW t \in Turns, SendQueues(t) PROVE WorkIsUnsettled'
  BY <1>2 DEF TypeOK, Ops, Phases, SendQueues, ckptVars, ctlVars, histVars
<1>3. ASSUME NEW t \in Turns, SendInterrupts(t) PROVE WorkIsUnsettled'
  BY <1>3 DEF TypeOK, Ops, Phases, SendInterrupts, BeginInterrupt, Begin, Await, ckptVars
<1>4. ASSUME NEW t \in Turns, SendReattaches(t) PROVE WorkIsUnsettled'
  BY <1>4 DEF TypeOK, Ops, Phases, SendReattaches, Begin, Await, Ops, recVars, ckptVars, histVars
<1>5. ASSUME NEW t \in Turns, Dispatch(t) PROVE WorkIsUnsettled'
  <2>1. CASE phase' = [phase EXCEPT ![t] = "closing"]
    BY <1>5, <2>1 DEF TypeOK, Dispatch, recVars, ctlVars, histVars
  <2>2. CASE phase' = [phase EXCEPT ![t] = "executing"] /\ current = t /\ life = "open"
    BY <1>5, <2>2 DEF TypeOK, Dispatch, recVars, ctlVars, histVars
  <2> QED
    BY <1>5, <2>1, <2>2 DEF Dispatch
<1>6. ASSUME NEW t \in Turns, AdapterFinal(t) PROVE WorkIsUnsettled'
  BY <1>6 DEF TypeOK, Ops, Phases, AdapterFinal, Publish, ckptVars, ctlVars
<1>7. ASSUME NEW t \in Turns, AdapterReturns(t) PROVE WorkIsUnsettled'
  BY <1>7 DEF TypeOK, Ops, Phases, AdapterReturns, recVars, ckptVars, ctlVars, histVars
<1>8. ASSUME NEW t \in Turns, TurnFails(t) PROVE WorkIsUnsettled'
  BY <1>8 DEF TypeOK, Ops, Phases, TurnFails, Publish, ckptVars, ctlVars
<1>9. ASSUME NEW t \in Turns, Settle(t) PROVE WorkIsUnsettled'
  <2>1. UNCHANGED <<life, op, owns, known, detached, overtaken, ignored, outlived>> /\ phase[t] = "closing"
    BY <1>9 DEF Settle, ctlVars, histVars
  <2>2. CASE SettleStale(t)
    BY <2>1, <2>2 DEF SettleStale, TypeOK
  <2>3. CASE SettleCurrent(t) /\ queue = <<>>
    <3>1. phase' = [phase EXCEPT ![t] = "over"] /\ status' = "idle" /\ current' = None
      BY <2>3 DEF SettleCurrent, Idle
    <3>2. current = t /\ status # "terminated" /\ life = "open" /\ op.kind # "reattach"
      BY <2>3 DEF SettleCurrent, TypeOK, NoOp
    <3>3. \A u \in Turns : phase[u] = "executing" => u \in Stray
      <4>1. \A u \in Turns : phase[u] = "executing" /\ u \notin Stray => u = t
        BY <3>2
      <4> QED
        BY <2>1, <4>1
    <3>4. op # NoOp => ckpt' # "settled"
      BY <2>1, <2>3 DEF SettleCurrent, Idle, Save, Captured, CurrentStarted
    <3> QED
      BY <2>1, <3>1, <3>2, <3>3, <3>4 DEF TypeOK, NoOp
  <2>4. CASE SettleCurrent(t) /\ queue # <<>>
    <3>1. Head(queue) \in Turns
      BY <2>4, QueueTail DEF TypeOK
    <3>2. ckpt' # "settled" /\ row'.ckpt # "settled"
      BY <2>1, <2>4 DEF SettleCurrent, Launch, Save, Captured, TypeOK
    <3>3. phase' = [[phase EXCEPT ![t] = "over"] EXCEPT ![Head(queue)] = "preparing"]
          /\ current' = Head(queue)
      BY <2>4 DEF SettleCurrent, Launch
    <3> QED
      BY <2>1, <3>1, <3>2, <3>3 DEF TypeOK
  <2> QED
    BY <1>9, <2>2, <2>3, <2>4 DEF Settle
<1>10. ASSUME NEW t \in Turns, OrphanEnds(t) PROVE WorkIsUnsettled'
  BY <1>10 DEF TypeOK, Ops, Phases, OrphanEnds, recVars, ckptVars, ctlVars, histVars
<1>11. ASSUME Interrupt PROVE WorkIsUnsettled'
  BY <1>11 DEF TypeOK, Ops, Phases, Interrupt, BeginInterrupt, Begin, Await, ckptVars
<1>12. ASSUME Recover PROVE WorkIsUnsettled'
  BY <1>12 DEF TypeOK, Ops, Phases, Recover, Begin, Await, recVars, ckptVars, histVars
<1>13. ASSUME ReattachSucceeds PROVE WorkIsUnsettled'
  BY <1>13 DEF TypeOK, Ops, Phases, ReattachSucceeds, Release, Launch, Idle, Save, Captured, NoOp
<1>14. ASSUME ReattachFails PROVE WorkIsUnsettled'
  BY <1>14 DEF TypeOK, Ops, Phases, ReattachFails, Release, NoOp, recVars, histVars
<1>15. ASSUME NEW stopped \in BOOLEAN, InterruptEnds(stopped) PROVE WorkIsUnsettled'
  <2>1. life = "open" /\ life' = "open" /\ op.kind = "interrupt" /\ owns /\ owns'
    BY <1>15 DEF InterruptEnds
  <2>2. ~detached /\ (detached' <=> ~stopped) /\ op'.kind # "interrupt" /\ status # "terminated"
    <3>1. ~detached /\ status # "terminated"
      BY <1>15, <2>1 DEF InterruptEnds
    <3>2. detached' <=> ~stopped
      BY <1>15, <3>1 DEF InterruptEnds
    <3>3. op' = NoOp \/ op' = Await("reattach", Head(queue), None)
      BY <1>15 DEF InterruptEnds, InterruptThenSend, InterruptThenDrain, Release
    <3> QED
      BY <3>1, <3>2, <3>3 DEF NoOp, Await
  <2>5. Save("running", current', FALSE, detached') \/ Save("idle", None, TRUE, detached')
    BY <1>15 DEF InterruptEnds, InterruptThenSend, InterruptThenDrain, Launch, Idle
  <2>3. CASE stopped
    <3>1. ckpt' # "settled" /\ row'.ckpt # "settled"
      BY <2>1, <2>2, <2>3, <2>5 DEF Save, Captured
    <3>2. status' = "running" => current' # None
      <4>1. CASE status' = "running"
        <5>1. \/ current' = op.turn /\ op.turn # None
              \/ queue # <<>> /\ current' = Head(queue)
          BY <1>15, <4>1 DEF InterruptEnds, InterruptThenSend, InterruptThenDrain, Launch, Idle
        <5> QED
          BY <5>1, QueueTail DEF TypeOK
      <4> QED
        BY <4>1
    <3> QED
      BY <2>1, <2>2, <3>1, <3>2
  <2>4. CASE ~stopped
    <3>1. \A u \in Turns : phase'[u] = "executing" => u \in Stray'
      <4>1. \A u \in Turns : phase'[u] = "executing" => phase[u] = "executing"
        BY <1>15, <2>4, ZenonT(60) DEF TypeOK, Ops, InterruptEnds, InterruptThenSend, InterruptThenDrain, Launch, Idle
      <4>2. \A u \in Turns : phase[u] = "executing" /\ u \notin Stray => u = current
        BY <2>1, <2>2
      <4>3. current \in Turns => current \in Stray'
        BY <1>15, <2>4 DEF InterruptEnds
      <4>4. Stray \subseteq Stray'
        BY <1>15 DEF InterruptEnds
      <4> QED
        BY <4>1, <4>2, <4>3, <4>4
    <3>2. ckpt' = ckpt /\ row'.ckpt = ckpt
      <4>1. detached'
        BY <2>2, <2>4
      <4>2. ckpt' = ckpt
        BY <2>5, <4>1 DEF Save
      <4>3. row' = [status |-> "running", ckpt |-> ckpt'] \/ row' = [status |-> "idle", ckpt |-> ckpt']
        BY <2>1, <2>5 DEF Save
      <4> QED
        BY <4>2, <4>3
    <3>3. CASE InterruptThenSend(stopped)
      <4>1. op.turn # None /\ current' = op.turn
        BY <3>3 DEF InterruptThenSend, Launch
      <4> QED
        BY <2>1, <2>2, <3>1, <3>2, <4>1
    <3>4. CASE InterruptThenDrain(stopped)
      <4>1. current' = None /\ status' = "idle"
        BY <2>4, <3>4 DEF InterruptThenDrain, Idle
      <4> QED
        BY <2>1, <2>2, <3>1, <4>1
    <3> QED
      BY <1>15, <3>3, <3>4 DEF InterruptEnds
  <2> QED
    BY <2>3, <2>4
<1>16. ASSUME InterruptTooLate PROVE WorkIsUnsettled'
  BY <1>16 DEF TypeOK, Ops, Phases, InterruptTooLate, Release, NoOp, recVars, ckptVars, histVars
<1>17. ASSUME ControlEnds PROVE WorkIsUnsettled'
  BY <1>17 DEF TypeOK, Ops, Phases, ControlEnds, Release, NoOp, Save, Captured, recVars, histVars
<1>18. ASSUME CompressEnds PROVE WorkIsUnsettled'
  BY <1>18 DEF TypeOK, Ops, Phases, CompressEnds, recVars, ckptVars, histVars
<1>19. ASSUME CompressUnknown PROVE WorkIsUnsettled'
  BY <1>19 DEF TypeOK, Ops, Phases, CompressUnknown, Save, Captured, histVars
<1>20. ASSUME LateOpEnds PROVE WorkIsUnsettled'
  BY <1>20 DEF TypeOK, Ops, Phases, LateOpEnds, recVars, ckptVars, histVars
<1>21. ASSUME Terminate PROVE WorkIsUnsettled'
  BY <1>21 DEF TypeOK, Ops, Phases, Terminate, Dropped, ckptVars, histVars
<1>22. ASSUME ControlBegins PROVE WorkIsUnsettled'
  BY <1>22 DEF TypeOK, Ops, Phases, ControlBegins, Begin, Await, recVars, ckptVars, histVars
<1>23. ASSUME CompressBegins PROVE WorkIsUnsettled'
  BY <1>23 DEF TypeOK, Ops, Phases, CompressBegins, recVars, ckptVars, histVars
<1>24. ASSUME Dispose PROVE WorkIsUnsettled'
  BY <1>24 DEF TypeOK, Ops, Phases, Dispose, recVars, ckptVars, ctlVars, histVars
<1>25. ASSUME Disposed PROVE WorkIsUnsettled'
  BY <1>25 DEF TypeOK, Ops, Phases, Disposed, Dropped, Captured, ctlVars, histVars
<1>26. ASSUME Reopen PROVE WorkIsUnsettled'
  BY <1>26 DEF TypeOK, Ops, Phases, Reopen, Restored, Unwinding, NoOp, histVars
<1>27. ASSUME Crash PROVE WorkIsUnsettled'
  BY <1>27 DEF TypeOK, Ops, Phases, Crash, Restored, NoOp, histVars
<1>28. ASSUME UNCHANGED vars PROVE WorkIsUnsettled'
  BY <1>28 DEF vars, recVars, ckptVars, ctlVars, histVars
<1>29. ASSUME TerminatePersists PROVE WorkIsUnsettled'
  <2>1. UNCHANGED <<life, status, current, detached, op, phase, overtaken, ignored, outlived>>
    BY <1>29 DEF TerminatePersists, recVars, histVars
  <2>2. Save(status, current, op # NoOp, detached)
    BY <1>29 DEF TerminatePersists
  <2>3. status = "terminated" /\ ckpt' \in {ckpt, "none", "unsettled"}
    BY <1>29, <2>2 DEF TerminatePersists, Save, Captured
  <2>4. row'.ckpt \in {row.ckpt, ckpt'}
    BY <2>2 DEF Save, TypeOK
  <2> QED
    BY <2>1, <2>3, <2>4 DEF TypeOK
<1>30. ASSUME Released PROVE WorkIsUnsettled'
  BY <1>30 DEF Released, recVars, ctlVars, histVars
<1> QED
  BY <1>1, <1>2, <1>3, <1>4, <1>5, <1>6, <1>7, <1>8, <1>9, <1>10, <1>11, <1>12, <1>13, <1>14, <1>15,
     <1>16, <1>17, <1>18, <1>19, <1>20, <1>21, <1>22, <1>23, <1>24, <1>25, <1>26, <1>27, <1>28, <1>29, <1>30
     DEF Next, Send, TurnStep, OpStep

\* Nobody attaches over work that is not done, unless by observation.
LEMMA OrphanIsDetachedStep == TurnInv /\ TypeOK' /\ [Next]_vars => OrphanIsDetached'
<1> SUFFICES ASSUME TypeOK, TypeOK', OrphanIsDetached, WorkIsUnsettled, WorkIsCurrent,
    CurrentStarted, OpHolds, AttachedOwns, CompressionWaits,
    TerminatedIsFenced, [Next]_vars
    PROVE OrphanIsDetached'
  BY DEF TurnInv
<1> USE TurnsAssumption
    DEF OrphanIsDetached, WorkIsUnsettled, WorkIsCurrent, CurrentStarted, OpHolds, AttachedOwns,
        CompressionWaits, Stray, Working, Open, Uncontrolled, Claimable
<1>1. ASSUME NEW t \in Turns, SendStarts(t) PROVE OrphanIsDetached'
  BY <1>1 DEF TypeOK, Ops, Phases, SendStarts, Launch, Save, Captured, histVars, ctlVars
<1>2. ASSUME NEW t \in Turns, SendQueues(t) PROVE OrphanIsDetached'
  BY <1>2 DEF TypeOK, Ops, Phases, SendQueues, ckptVars, ctlVars, histVars
<1>3. ASSUME NEW t \in Turns, SendInterrupts(t) PROVE OrphanIsDetached'
  BY <1>3 DEF TypeOK, Ops, Phases, SendInterrupts, BeginInterrupt, Begin, Await, ckptVars
<1>4. ASSUME NEW t \in Turns, SendReattaches(t) PROVE OrphanIsDetached'
  BY <1>4 DEF TypeOK, Ops, Phases, SendReattaches, Begin, Await, Ops, recVars, ckptVars, histVars
<1>5. ASSUME NEW t \in Turns, Dispatch(t) PROVE OrphanIsDetached'
  <2>1. CASE phase' = [phase EXCEPT ![t] = "closing"]
    BY <1>5, <2>1 DEF TypeOK, Dispatch, recVars, ctlVars, histVars
  <2>2. CASE phase' = [phase EXCEPT ![t] = "executing"] /\ current = t /\ life = "open"
    BY <1>5, <2>2 DEF TypeOK, Dispatch, recVars, ctlVars, histVars
  <2> QED
    BY <1>5, <2>1, <2>2 DEF Dispatch
<1>6. ASSUME NEW t \in Turns, AdapterFinal(t) PROVE OrphanIsDetached'
  BY <1>6 DEF TypeOK, Ops, Phases, AdapterFinal, Publish, ckptVars, ctlVars
<1>7. ASSUME NEW t \in Turns, AdapterReturns(t) PROVE OrphanIsDetached'
  BY <1>7 DEF TypeOK, Ops, Phases, AdapterReturns, recVars, ckptVars, ctlVars, histVars
<1>8. ASSUME NEW t \in Turns, TurnFails(t) PROVE OrphanIsDetached'
  BY <1>8 DEF TypeOK, Ops, Phases, TurnFails, Publish, ckptVars, ctlVars
<1>9. ASSUME NEW t \in Turns, Settle(t) PROVE OrphanIsDetached'
  BY <1>9 DEF TypeOK, Ops, Phases, Settle, SettleStale, SettleCurrent, Cleared, Idle, Launch, Save,
         Captured, ctlVars, histVars
<1>10. ASSUME NEW t \in Turns, OrphanEnds(t) PROVE OrphanIsDetached'
  BY <1>10 DEF TypeOK, Ops, Phases, OrphanEnds, recVars, ckptVars, ctlVars, histVars
<1>11. ASSUME Interrupt PROVE OrphanIsDetached'
  BY <1>11 DEF TypeOK, Ops, Phases, Interrupt, BeginInterrupt, Begin, Await, ckptVars
<1>12. ASSUME Recover PROVE OrphanIsDetached'
  BY <1>12 DEF TypeOK, Ops, Phases, Recover, Begin, Await, recVars, ckptVars, histVars
<1>13. ASSUME ReattachSucceeds PROVE OrphanIsDetached'
  <2>1. op'.kind = "none" /\ op.kind = "reattach" /\ life = "open"
    BY <1>13 DEF ReattachSucceeds, Release, NoOp
  <2>2. \A u \in Turns : phase'[u] = "orphan" => phase[u] = "orphan"
    BY <1>13 DEF ReattachSucceeds, Launch, Idle, TypeOK, Ops
  <2>3. overtaken' = overtaken /\ ignored' = ignored /\ outlived \subseteq outlived'
    BY <1>13 DEF ReattachSucceeds
  <2>4. row.ckpt = "none" => \A u \in Turns : phase[u] = "orphan" => u \in outlived'
    BY <1>13 DEF ReattachSucceeds
  <2>5. row.ckpt = "settled" => \A u \in Turns : phase[u] = "orphan" => u \in Stray
    BY DEF TypeOK
  <2>6. row.ckpt \in {"none", "settled"}
    BY <2>1 DEF TypeOK, Checkpoints
  <2> QED
    BY <2>1, <2>2, <2>3, <2>4, <2>5, <2>6
<1>14. ASSUME ReattachFails PROVE OrphanIsDetached'
  BY <1>14 DEF TypeOK, Ops, Phases, ReattachFails, Release, NoOp, recVars, histVars
<1>15. ASSUME NEW stopped \in BOOLEAN, InterruptEnds(stopped) PROVE OrphanIsDetached'
  BY <1>15
     DEF TypeOK, Ops, Phases, InterruptEnds, InterruptThenSend, InterruptThenDrain, Launch, Idle,
         Release, Save, Captured, Stopped, Await, NoOp
<1>16. ASSUME InterruptTooLate PROVE OrphanIsDetached'
  BY <1>16 DEF TypeOK, Ops, Phases, InterruptTooLate, Release, NoOp, recVars, ckptVars, histVars
<1>17. ASSUME ControlEnds PROVE OrphanIsDetached'
  BY <1>17 DEF TypeOK, Ops, Phases, ControlEnds, Release, NoOp, Save, Captured, recVars, histVars
<1>18. ASSUME CompressEnds PROVE OrphanIsDetached'
  BY <1>18 DEF TypeOK, Ops, Phases, CompressEnds, recVars, ckptVars, histVars
<1>19. ASSUME CompressUnknown PROVE OrphanIsDetached'
  <2>1. op' = op /\ life' = life /\ phase' = phase /\ detached' = detached
        /\ UNCHANGED <<overtaken, ignored, outlived>>
    BY <1>19 DEF CompressUnknown, histVars
  <2>2. life = "open" => op = NoOp
    BY <1>19 DEF CompressUnknown
  <2>3. (detached => ckpt' = ckpt /\ row'.ckpt \in {row.ckpt, ckpt})
    BY <1>19 DEF CompressUnknown, Save, TypeOK
  <2> QED
    BY <2>1, <2>2, <2>3 DEF NoOp
<1>20. ASSUME LateOpEnds PROVE OrphanIsDetached'
  BY <1>20 DEF TypeOK, Ops, Phases, LateOpEnds, recVars, ckptVars, histVars
<1>21. ASSUME Terminate PROVE OrphanIsDetached'
  <2>1. op = NoOp /\ UNCHANGED <<op, life, detached, overtaken, ignored, outlived>>
    BY <1>21 DEF Terminate, ctlVars, histVars
  <2>2. \A u \in Turns : phase'[u] = "orphan" => phase[u] = "orphan"
    BY <1>21 DEF Terminate, Dropped
  <2>3. (detached => ckpt' = ckpt /\ row'.ckpt \in {row.ckpt, ckpt})
    BY <1>21 DEF Terminate, ckptVars
  <2> QED
    BY <2>1, <2>2, <2>3 DEF NoOp
<1>22. ASSUME ControlBegins PROVE OrphanIsDetached'
  BY <1>22 DEF TypeOK, Ops, Phases, ControlBegins, Begin, Await, recVars, ckptVars, histVars
<1>23. ASSUME CompressBegins PROVE OrphanIsDetached'
  BY <1>23 DEF TypeOK, Ops, Phases, CompressBegins, recVars, ckptVars, histVars
<1>24. ASSUME Dispose PROVE OrphanIsDetached'
  BY <1>24 DEF TypeOK, Ops, Phases, Dispose, recVars, ckptVars, ctlVars, histVars
<1>25. ASSUME Disposed PROVE OrphanIsDetached'
  BY <1>25 DEF TypeOK, Ops, Phases, Disposed, Dropped, Captured, ctlVars, histVars
<1>26. ASSUME Reopen PROVE OrphanIsDetached'
  BY <1>26 DEF TypeOK, Ops, Phases, Reopen, Restored, Unwinding, NoOp, histVars
<1>27. ASSUME Crash PROVE OrphanIsDetached'
  BY <1>27 DEF TypeOK, Ops, Phases, Crash, Restored, NoOp, histVars
<1>28. ASSUME UNCHANGED vars PROVE OrphanIsDetached'
  BY <1>28 DEF vars, recVars, ckptVars, ctlVars, histVars
<1>29. ASSUME TerminatePersists PROVE OrphanIsDetached'
  <2>1. op' = op /\ life' = life /\ phase' = phase /\ detached' = detached
        /\ UNCHANGED <<overtaken, ignored, outlived>>
    BY <1>29 DEF TerminatePersists, recVars, histVars
  <2>2. Save(status, current, op # NoOp, detached) /\ owns' = owns
    BY <1>29 DEF TerminatePersists
  <2>3. (detached => ckpt' = ckpt /\ row'.ckpt \in {row.ckpt, ckpt})
    BY <2>1, <2>2 DEF Save, TypeOK
  <2>4. op.kind # "reattach"
    BY <1>29 DEF TerminatePersists, TerminatedIsFenced
  <2> QED
    BY <2>1, <2>3, <2>4
<1>30. ASSUME Released PROVE OrphanIsDetached'
  BY <1>30 DEF Released, recVars, ctlVars, histVars
<1> QED
  BY <1>1, <1>2, <1>3, <1>4, <1>5, <1>6, <1>7, <1>8, <1>9, <1>10, <1>11, <1>12, <1>13, <1>14, <1>15,
     <1>16, <1>17, <1>18, <1>19, <1>20, <1>21, <1>22, <1>23, <1>24, <1>25, <1>26, <1>27, <1>28, <1>29, <1>30
     DEF Next, Send, TurnStep, OpStep

\* A compression begins when nothing is at work, and nothing starts under it.
LEMMA CompressionExclusiveStep == TurnInv /\ TypeOK' /\ [Next]_vars => CompressionExclusive'
<1> SUFFICES ASSUME TypeOK, TypeOK', CompressionExclusive, WorkIsCurrent, OrphanIsDetached,
    CurrentStarted, CompressionWaits, [Next]_vars
    PROVE CompressionExclusive'
  BY DEF TurnInv
<1> USE TurnsAssumption
    DEF CompressionExclusive, WorkIsCurrent, OrphanIsDetached, CurrentStarted, CompressionWaits,
        Stray, Working, Open, Uncontrolled
<1>1. ASSUME NEW t \in Turns, SendStarts(t) PROVE CompressionExclusive'
  BY <1>1 DEF TypeOK, Ops, Phases, SendStarts, Launch, Save, Captured, histVars, ctlVars
<1>2. ASSUME NEW t \in Turns, SendQueues(t) PROVE CompressionExclusive'
  BY <1>2 DEF TypeOK, Ops, Phases, SendQueues, ckptVars, ctlVars, histVars
<1>3. ASSUME NEW t \in Turns, SendInterrupts(t) PROVE CompressionExclusive'
  BY <1>3 DEF TypeOK, Ops, Phases, SendInterrupts, BeginInterrupt, Begin, Await, ckptVars
<1>4. ASSUME NEW t \in Turns, SendReattaches(t) PROVE CompressionExclusive'
  BY <1>4 DEF TypeOK, Ops, Phases, SendReattaches, Begin, Await, Ops, recVars, ckptVars, histVars
<1>5. ASSUME NEW t \in Turns, Dispatch(t) PROVE CompressionExclusive'
  <2>1. CASE phase' = [phase EXCEPT ![t] = "closing"]
    BY <1>5, <2>1 DEF TypeOK, Dispatch, recVars, ctlVars, histVars
  <2>2. CASE phase' = [phase EXCEPT ![t] = "executing"] /\ current = t /\ life = "open"
    BY <1>5, <2>2 DEF TypeOK, Dispatch, recVars, ctlVars, histVars
  <2> QED
    BY <1>5, <2>1, <2>2 DEF Dispatch
<1>6. ASSUME NEW t \in Turns, AdapterFinal(t) PROVE CompressionExclusive'
  BY <1>6 DEF TypeOK, Ops, Phases, AdapterFinal, Publish, ckptVars, ctlVars
<1>7. ASSUME NEW t \in Turns, AdapterReturns(t) PROVE CompressionExclusive'
  BY <1>7 DEF TypeOK, Ops, Phases, AdapterReturns, recVars, ckptVars, ctlVars, histVars
<1>8. ASSUME NEW t \in Turns, TurnFails(t) PROVE CompressionExclusive'
  BY <1>8 DEF TypeOK, Ops, Phases, TurnFails, Publish, ckptVars, ctlVars
<1>9. ASSUME NEW t \in Turns, Settle(t) PROVE CompressionExclusive'
  BY <1>9 DEF TypeOK, Ops, Phases, Settle, SettleStale, SettleCurrent, Cleared, Idle, Launch, Save,
         Captured, ctlVars, histVars
<1>10. ASSUME NEW t \in Turns, OrphanEnds(t) PROVE CompressionExclusive'
  BY <1>10 DEF TypeOK, Ops, Phases, OrphanEnds, recVars, ckptVars, ctlVars, histVars
<1>11. ASSUME Interrupt PROVE CompressionExclusive'
  BY <1>11 DEF TypeOK, Ops, Phases, Interrupt, BeginInterrupt, Begin, Await, ckptVars
<1>12. ASSUME Recover PROVE CompressionExclusive'
  BY <1>12 DEF TypeOK, Ops, Phases, Recover, Begin, Await, recVars, ckptVars, histVars
<1>13. ASSUME ReattachSucceeds PROVE CompressionExclusive'
  BY <1>13 DEF TypeOK, Ops, Phases, ReattachSucceeds, Release, Launch, Idle, Save, Captured, NoOp
<1>14. ASSUME ReattachFails PROVE CompressionExclusive'
  BY <1>14 DEF TypeOK, Ops, Phases, ReattachFails, Release, NoOp, recVars, histVars
<1>15. ASSUME NEW stopped \in BOOLEAN, InterruptEnds(stopped) PROVE CompressionExclusive'
  BY <1>15
     DEF TypeOK, Ops, Phases, InterruptEnds, InterruptThenSend, InterruptThenDrain, Launch, Idle,
         Release, Save, Captured, Stopped, Await, NoOp
<1>16. ASSUME InterruptTooLate PROVE CompressionExclusive'
  BY <1>16 DEF TypeOK, Ops, Phases, InterruptTooLate, Release, NoOp, recVars, ckptVars, histVars
<1>17. ASSUME ControlEnds PROVE CompressionExclusive'
  BY <1>17 DEF TypeOK, Ops, Phases, ControlEnds, Release, NoOp, Save, Captured, recVars, histVars
<1>18. ASSUME CompressEnds PROVE CompressionExclusive'
  BY <1>18 DEF TypeOK, Ops, Phases, CompressEnds, recVars, ckptVars, histVars
<1>19. ASSUME CompressUnknown PROVE CompressionExclusive'
  BY <1>19 DEF TypeOK, Ops, Phases, CompressUnknown, Save, Captured, histVars
<1>20. ASSUME LateOpEnds PROVE CompressionExclusive'
  BY <1>20 DEF TypeOK, Ops, Phases, LateOpEnds, recVars, ckptVars, histVars
<1>21. ASSUME Terminate PROVE CompressionExclusive'
  BY <1>21 DEF TypeOK, Ops, Phases, Terminate, Dropped, ckptVars, histVars
<1>22. ASSUME ControlBegins PROVE CompressionExclusive'
  BY <1>22 DEF TypeOK, Ops, Phases, ControlBegins, Begin, Await, recVars, ckptVars, histVars
<1>23. ASSUME CompressBegins PROVE CompressionExclusive'
  BY <1>23 DEF TypeOK, Ops, Phases, CompressBegins, recVars, ckptVars, histVars
<1>24. ASSUME Dispose PROVE CompressionExclusive'
  BY <1>24 DEF TypeOK, Ops, Phases, Dispose, recVars, ckptVars, ctlVars, histVars
<1>25. ASSUME Disposed PROVE CompressionExclusive'
  BY <1>25 DEF TypeOK, Ops, Phases, Disposed, Dropped, Captured, ctlVars, histVars
<1>26. ASSUME Reopen PROVE CompressionExclusive'
  BY <1>26 DEF TypeOK, Ops, Phases, Reopen, Restored, Unwinding, NoOp, histVars
<1>27. ASSUME Crash PROVE CompressionExclusive'
  BY <1>27 DEF TypeOK, Ops, Phases, Crash, Restored, NoOp, histVars
<1>28. ASSUME UNCHANGED vars PROVE CompressionExclusive'
  BY <1>28 DEF vars, recVars, ckptVars, ctlVars, histVars
<1>29. ASSUME TerminatePersists PROVE CompressionExclusive'
  BY <1>29 DEF TerminatePersists, Save, Captured, recVars, histVars
<1>30. ASSUME Released PROVE CompressionExclusive'
  BY <1>30 DEF Released, recVars, ctlVars, histVars
<1> QED
  BY <1>1, <1>2, <1>3, <1>4, <1>5, <1>6, <1>7, <1>8, <1>9, <1>10, <1>11, <1>12, <1>13, <1>14, <1>15,
     <1>16, <1>17, <1>18, <1>19, <1>20, <1>21, <1>22, <1>23, <1>24, <1>25, <1>26, <1>27, <1>28, <1>29, <1>30
     DEF Next, Send, TurnStep, OpStep

-----------------------------------------------------------------------------
\* The invariant holds in a new session.
LEMMA InitInv == Init => TurnInv
<1> SUFFICES ASSUME Init PROVE TurnInv
  OBVIOUS
<1> USE TurnsAssumption DEF Init, NoOp
<1>1. TypeOK
  <2>1. queue \in Seq(Turns) /\ phase \in [Turns -> Phases] /\ finals \in [Turns -> Nat]
    BY DEF Phases
  <2>2. op \in Ops /\ row \in [status : {"idle", "running", "paused", "terminated"}, ckpt : Checkpoints]
    BY DEF Ops, Checkpoints
  <2>3. owns \in BOOLEAN /\ known \in BOOLEAN /\ detached \in BOOLEAN
        /\ held \in BOOLEAN /\ lateOp \in BOOLEAN /\ compressing \in BOOLEAN
        /\ terminating \in BOOLEAN
    OBVIOUS
  <2> QED
    BY <2>1, <2>2, <2>3 DEF TypeOK, Checkpoints
<1>2. Fenced /\ CurrentStarted /\ QueueWaits /\ OpHolds /\ LateIdles
  BY DEF Fenced, CurrentStarted, QueueWaits, OpHolds, LateIdles
<1>3. CompressionWaits /\ AttachedOwns /\ LiveTurnIsCurrent /\ SuccessorWaits /\ TerminatedIsFenced
  BY DEF CompressionWaits, AttachedOwns, LiveTurnIsCurrent, SuccessorWaits, TerminatedIsFenced, Live
<1>4. WorkIsCurrent /\ WorkIsUnsettled /\ OrphanIsDetached /\ CompressionExclusive
  BY DEF WorkIsCurrent, WorkIsUnsettled, OrphanIsDetached, CompressionExclusive, Working
<1> QED
  BY <1>1, <1>2, <1>3, <1>4 DEF TurnInv

\* Every step keeps the invariant.
LEMMA StepInv == TurnInv /\ [Next]_vars => TurnInv'
<1> SUFFICES ASSUME TurnInv, [Next]_vars PROVE TurnInv'
  OBVIOUS
<1>1. TypeOK'
  BY TypeStep DEF TurnInv
<1>2. Fenced' /\ CurrentStarted' /\ QueueWaits' /\ OpHolds' /\ LateIdles'
  BY <1>1, FencedStep, CurrentStartedStep, QueueWaitsStep, OpHoldsStep, LateIdlesStep
<1>3. CompressionWaits' /\ AttachedOwns' /\ LiveTurnIsCurrent' /\ SuccessorWaits' /\ TerminatedIsFenced'
  BY <1>1, CompressionWaitsStep, AttachedOwnsStep, LiveTurnIsCurrentStep, SuccessorWaitsStep,
     TerminatedIsFencedStep
<1>4. WorkIsCurrent' /\ WorkIsUnsettled' /\ OrphanIsDetached' /\ CompressionExclusive'
  BY <1>1, WorkIsCurrentStep, WorkIsUnsettledStep, OrphanIsDetachedStep, CompressionExclusiveStep
<1> QED
  BY <1>1, <1>2, <1>3, <1>4 DEF TurnInv

\* TurnInv holds in every state of a session (SessionEngine).
THEOREM TurnsInvariant == Spec => []TurnInv
BY InitInv, StepInv, PTL DEF Spec

\* A turn has at most one final event (publish and interrupt over terminalTurns).
THEOREM OneFinal == Spec => []FinalOnce
<1>1. TurnInv => FinalOnce
  BY DEF TurnInv, Fenced, FinalOnce
<1> QED
  BY <1>1, TurnsInvariant, PTL

\* A live turn that nothing fenced or unseated is the reported current turn.
THEOREM LiveIsCurrent == Spec => []LiveTurnIsCurrent
<1>1. TurnInv => LiveTurnIsCurrent
  BY DEF TurnInv
<1> QED
  BY <1>1, TurnsInvariant, PTL

\* A settled checkpoint in the store means that no turn is at work.
THEOREM SettledIsIdle == Spec => []CheckpointSound
<1>1. TurnInv => CheckpointSound
  BY DEF TurnInv, WorkIsUnsettled, OrphanIsDetached, CheckpointSound, Working
<1> QED
  BY <1>1, TurnsInvariant, PTL

\* A compression and a turn are never at work on the same native history.
THEOREM CompressionAlone == Spec => []CompressionExclusive
<1>1. TurnInv => CompressionExclusive
  BY DEF TurnInv
<1> QED
  BY <1>1, TurnsInvariant, PTL

\* A control of a disposed engine keeps its successor from starting anything.
THEOREM SuccessorsWait == Spec => []SuccessorWaits
<1>1. TurnInv => SuccessorWaits
  BY DEF TurnInv
<1> QED
  BY <1>1, TurnsInvariant, PTL

\* A terminated session has nothing that could publish, start or wait.
THEOREM TerminatedIsQuiet == Spec => []TerminatedIsFenced
<1>1. TurnInv => TerminatedIsFenced
  BY DEF TurnInv
<1> QED
  BY <1>1, TurnsInvariant, PTL
-----------------------------------------------------------------------------
(***************************************************************************)
(* The queue.  While every interrupt was obeyed a queued message is in the *)
(* queue itself: only the drain after an ignored interrupt takes one out   *)
(* without starting it.                                                    *)
(***************************************************************************)
Queued(t) == \E i \in 1..Len(queue) : queue[i] = t

QueuedIsListed ==
  /\ ignored = {} => \A t \in Turns : phase[t] = "queued" => Queued(t)
  /\ life \in {"closed", "gone"} => queue = <<>>

\* A step that leaves the queue alone and queues nothing.
LEMMA QueueStays ==
  ASSUME QueuedIsListed, queue' = queue, ignored' = {} => ignored = {},
         life' \in {"closed", "gone"} => life \in {"closed", "gone"},
         \A t \in Turns : phase'[t] = "queued" => phase[t] = "queued"
  PROVE  QueuedIsListed'
BY DEF QueuedIsListed, Queued

\* A step that starts the message at the head.
LEMMA HeadLeaves ==
  ASSUME TypeOK, QueuedIsListed, queue # <<>>, queue' = Tail(queue), ignored' = {} => ignored = {},
         life' = life,
         \A t \in Turns : phase'[t] = "queued" => phase[t] = "queued" /\ t # Head(queue)
  PROVE  QueuedIsListed'
<1> SUFFICES ASSUME ignored' = {}, NEW t \in Turns, phase'[t] = "queued" PROVE Queued(t)'
  BY DEF QueuedIsListed
<1>1. PICK i \in 1..Len(queue) : queue[i] = t
  BY DEF QueuedIsListed, Queued
<1>2. i # 1
  BY <1>1, QueueTail DEF TypeOK
<1>3. i - 1 \in 1..Len(Tail(queue)) /\ Tail(queue)[i - 1] = t
  BY <1>1, <1>2, QueueTail DEF TypeOK
<1> QED
  BY <1>3 DEF Queued

\* What makes it inductive: a message that was queued and not started is in the queue.
LEMMA QueuedIsListedStep == TurnInv /\ TypeOK' /\ QueuedIsListed /\ [Next]_vars => QueuedIsListed'
<1> SUFFICES ASSUME TypeOK, TypeOK', OpHolds, QueuedIsListed, [Next]_vars PROVE QueuedIsListed'
  BY DEF TurnInv
<1> USE TurnsAssumption
<1>1. ASSUME NEW t \in Turns, SendQueues(t) PROVE QueuedIsListed'
  <2>1. queue' = Append(queue, t) /\ phase' = [phase EXCEPT ![t] = "queued"] /\ ignored' = ignored
    BY <1>1 DEF SendQueues, histVars
  <2>2. queue \in Seq(Turns) /\ phase \in [Turns -> Phases]
    BY DEF TypeOK
  <2>3. /\ Len(queue') = Len(queue) + 1 /\ queue'[Len(queue) + 1] = t
        /\ \A i \in 1..Len(queue) : queue'[i] = queue[i]
    BY <2>1, <2>2
  <2>4. Queued(t)' /\ \A u \in Turns : Queued(u) => Queued(u)'
    BY <2>2, <2>3 DEF Queued
  <2>5. \A u \in Turns : phase'[u] = "queued" => u = t \/ phase[u] = "queued"
    BY <2>1, <2>2
  <2>6. life' = "open"
    BY <1>1 DEF SendQueues, Open
  <2> QED
    BY <2>1, <2>4, <2>5, <2>6 DEF QueuedIsListed
<1>2. ASSUME NEW t \in Turns, Settle(t) PROVE QueuedIsListed'
  <2>1. CASE queue' = queue /\ phase' = [phase EXCEPT ![t] = "over"]
    BY <1>2, <2>1, QueueStays DEF Settle, histVars, TypeOK
  <2>2. CASE queue # <<>> /\ queue' = Tail(queue)
             /\ phase' = [[phase EXCEPT ![t] = "over"] EXCEPT ![Head(queue)] = "preparing"]
    BY <1>2, <2>2, HeadLeaves, QueueTail DEF Settle, histVars, TypeOK
  <2> QED
    BY <1>2, <2>1, <2>2 DEF Settle, SettleStale, SettleCurrent, Idle, Launch
<1>3. ASSUME NEW stopped \in BOOLEAN, InterruptEnds(stopped) PROVE QueuedIsListed'
  <2>1. (ignored' = {} => stopped /\ ignored = {}) /\ life = "open" /\ life' = life
    BY <1>3 DEF InterruptEnds
  <2>2. CASE InterruptThenSend(stopped)
    <3>1. op.turn \in Turns
      BY <2>2 DEF InterruptThenSend, TypeOK, Ops
    <3>2. queue' = queue /\ \A u \in Turns : phase'[u] = "queued" => phase[u] = "queued"
      BY <2>2, <3>1 DEF InterruptThenSend, Launch, Stopped, TypeOK
    <3> QED
      BY <2>1, <3>2, QueueStays
  <2>3. CASE InterruptThenDrain(stopped) /\ queue # <<>> /\ stopped
    <3>1. queue' = Tail(queue) /\ phase' = [Stopped(op.target) EXCEPT ![Head(queue)] = "preparing"]
      BY <2>3 DEF InterruptThenDrain, Launch
    <3>2. \A u \in Turns : phase'[u] = "queued" => phase[u] = "queued" /\ u # Head(queue)
      BY <3>1, <2>3, QueueTail DEF Stopped, TypeOK
    <3> QED
      BY <2>1, <2>3, <3>1, <3>2, HeadLeaves
  <2>4. CASE InterruptThenDrain(stopped) /\ queue = <<>>
    <3>1. queue' = queue /\ \A u \in Turns : phase'[u] = "queued" => phase[u] = "queued"
      BY <2>4 DEF InterruptThenDrain, Idle, Stopped, TypeOK
    <3> QED
      BY <2>1, <3>1, QueueStays
  <2>5. CASE ~stopped
    BY <2>1, <2>5 DEF QueuedIsListed
  <2> QED
    BY <1>3, <2>2, <2>3, <2>4, <2>5 DEF InterruptEnds
<1>4. ASSUME Terminate \/ Disposed PROVE QueuedIsListed'
  <2>1. phase' = Dropped /\ ignored' = ignored
    BY <1>4 DEF Terminate, Disposed, histVars
  <2>2. \A t \in Turns : Queued(t) => t \in Range(queue)
    BY DEF Queued, Range, TypeOK
  <2>3. queue' = <<>> /\ \A t \in Turns : phase'[t] = "queued" => ~(t \in Range(queue)) /\ phase[t] = "queued"
    BY <1>4, <2>1 DEF Dropped, Terminate, Disposed
  <2> QED
    BY <2>1, <2>2, <2>3 DEF QueuedIsListed
<1>5. ASSUME Reopen PROVE QueuedIsListed'
  <2>1. queue = <<>> /\ queue' = <<>> /\ life' = "open" /\ ignored' = ignored
    BY <1>5 DEF Reopen, Restored, histVars, QueuedIsListed
  <2>2. \A t \in Turns : phase'[t] = "queued" => phase[t] = "queued"
    BY <1>5 DEF Reopen, Unwinding
  <2> QED
    BY <2>1, <2>2 DEF QueuedIsListed, Queued
<1>6. ASSUME Crash PROVE QueuedIsListed'
  BY <1>6 DEF Crash, Restored, QueuedIsListed
<1>7. ASSUME NEW t \in Turns, SendStarts(t) PROVE QueuedIsListed'
  BY <1>7, QueueStays DEF SendStarts, Launch, histVars, TypeOK
<1>8. ASSUME NEW t \in Turns, SendInterrupts(t) PROVE QueuedIsListed'
  BY <1>8, QueueStays DEF SendInterrupts, BeginInterrupt, TypeOK
<1>9. ASSUME NEW t \in Turns, SendReattaches(t) PROVE QueuedIsListed'
  BY <1>9, QueueStays DEF SendReattaches, recVars, histVars, TypeOK
<1>10. ASSUME NEW t \in Turns, Dispatch(t) PROVE QueuedIsListed'
  <2>1. \E ph \in {"closing", "executing"} : phase' = [phase EXCEPT ![t] = ph]
    BY <1>10 DEF Dispatch
  <2> QED
    BY <1>10, <2>1, QueueStays DEF Dispatch, recVars, histVars, TypeOK
<1>11. ASSUME NEW t \in Turns, AdapterFinal(t) \/ AdapterReturns(t) \/ TurnFails(t) \/ OrphanEnds(t)
       PROVE  QueuedIsListed'
  <2>1. phase' = phase \/ \E ph \in {"closing", "over"} : phase' = [phase EXCEPT ![t] = ph]
    BY <1>11 DEF AdapterFinal, AdapterReturns, TurnFails, OrphanEnds
  <2>2. queue' = queue /\ ignored' = ignored /\ life' = life
    BY <1>11 DEF AdapterFinal, AdapterReturns, TurnFails, OrphanEnds, recVars, histVars
  <2> QED
    BY <2>1, <2>2, QueueStays DEF TypeOK
<1>12. ASSUME Interrupt \/ Recover \/ ControlBegins \/ CompressBegins \/ Dispose \/ Released
       PROVE  QueuedIsListed'
  BY <1>12, QueueStays DEF Interrupt, BeginInterrupt, Recover, ControlBegins, CompressBegins, Dispose,
                           Released, recVars, histVars
<1>13. ASSUME \/ ControlEnds \/ CompressEnds \/ CompressUnknown \/ LateOpEnds
              \/ TerminatePersists \/ UNCHANGED vars
       PROVE  QueuedIsListed'
  BY <1>13, QueueStays DEF TerminatePersists, ControlEnds, CompressEnds, CompressUnknown, LateOpEnds, vars,
                           recVars, histVars
<1>14. ASSUME ReattachSucceeds \/ ReattachFails \/ InterruptTooLate PROVE QueuedIsListed'
  <2>1. queue' = queue /\ ignored' = ignored /\ life' = life
    BY <1>14 DEF ReattachSucceeds, ReattachFails, InterruptTooLate, recVars, histVars
  <2>2. \A u \in Turns : phase'[u] = "queued" => phase[u] = "queued"
    BY <1>14, ZenonT(60) DEF ReattachSucceeds, ReattachFails, InterruptTooLate, Launch, Idle, TypeOK, Ops
  <2> QED
    BY <2>1, <2>2, QueueStays
<1> QED
  BY <1>1, <1>2, <1>3, <1>4, <1>5, <1>6, <1>7, <1>8, <1>9, <1>10, <1>11, <1>12, <1>13, <1>14
     DEF Next, Send, TurnStep, OpStep

\* As long as the adapter obeys interrupts a queued message leaves the queue only
\* to be started or with its session (send, runTurn's drain, interrupt, terminate).
THEOREM QueuedWaits == Spec => []KeptWhileObeyed
<1>1. Init => QueuedIsListed
  BY DEF Init, QueuedIsListed
<1>2. TurnInv /\ TurnInv' /\ QueuedIsListed /\ [Next]_vars => QueuedIsListed'
  BY QueuedIsListedStep DEF TurnInv
<1>3. TurnInv /\ QueuedIsListed => KeptWhileObeyed
  <2> SUFFICES ASSUME TypeOK, QueuedIsListed PROVE KeptWhileObeyed
    BY DEF TurnInv
  <2>1. \A t \in Turns : Queued(t) => t \in Range(queue)
    BY DEF Queued, Range, TypeOK
  <2> QED
    BY <2>1 DEF QueuedIsListed, KeptWhileObeyed, QueuedIsKept
<1> QED
  BY <1>1, <1>2, <1>3, TurnsInvariant, PTL DEF Spec
=============================================================================
