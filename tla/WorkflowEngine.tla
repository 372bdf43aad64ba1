--------------------------- MODULE WorkflowEngine ---------------------------
(***************************************************************************)
(* One workflow of one tenant and the workflow engines that may execute it *)
(* (packages/core/src/workflow-engine.ts).  A checkpoint row in SQLite     *)
(* carries the state, the owner's lease and its epoch; an engine keeps a   *)
(* run object in memory, executes its nodes through the session engine and *)
(* writes the object back at every boundary.  Engines die, are disposed,   *)
(* lose their lease and take each other's runs over; servers pause,        *)
(* resume, cancel; every await of an executor is a window in which all of  *)
(* this may happen.                                                        *)
(*                                                                         *)
(* A run object is created by run, resume, cancel or recover and has at    *)
(* most one executor, so objects and executors share the index x.  The     *)
(* control epoch of an object only matters as "unchanged since its         *)
(* executor started": the field open.  Plans without worktrees and         *)
(* branches: resolveExecution then neither waits nor changes anything.     *)
(***************************************************************************)
EXTENDS Naturals, Sequences, FiniteSets

CONSTANTS
  Engines,     \* workflow engines of the tenant (one per connection runtime)
  Home,        \* the one that accepts the workflow (they are alike until then)
  Nodes,       \* nodes of the plan
  Lead,        \* the executor of a graph, the chairman of a discussion
  Deps,        \* the prerequisites of each node of a DAG
  Plans,       \* the plans considered: mode, failure policy, maxParallel, manual
               \* (a Dev run: continued by hand), maxIterations or maxRounds
  Decisions,   \* the directives an executor's answer may parse to
  MaxRuns,     \* bound: run objects alive at a time
  MaxCalls,    \* bound: controls, disposals, crashes and lapses of the lease
  Named,       \* nodes that a resume may ask to run again
  None,        \* no owner
  Gone         \* an owner that exists no more (owner ids are never used again)

ASSUME PlanAssumption ==
  /\ Home \in Engines
  /\ MaxRuns \in Nat /\ MaxCalls \in Nat
  /\ None \notin Engines /\ Gone \notin Engines /\ None # Gone
  /\ Lead \in Nodes
  /\ Named \subseteq Nodes
  /\ Deps \in [Nodes -> SUBSET Nodes]
  /\ Plans \subseteq [mode : {"dag", "graph", "discussion"},
                      policy : {"fail_workflow", "skip_dependents", "continue"},
                      parallel : Nat \ {0}, manual : BOOLEAN, rounds : Nat \ {0}]
  /\ "done" \notin Nodes /\ "review" \notin Nodes
  /\ Decisions \subseteq Seq((Nodes \ {Lead}) \cup {"done", "review"})
  /\ \A dirs \in Decisions : \A i, j \in DOMAIN dirs : dirs[i] = dirs[j] => i = j

VARIABLES
  plan,    \* the plan of the workflow
  row,     \* its checkpoint row
  exec,    \* run objects with their executors, by index
  runs,    \* the object each engine has in its table, 0 if none
  up,      \* life of each engine
  calls,   \* controls and failures so far
  overwritten  \* history: an old run object was written over a newer checkpoint

vars == <<plan, row, exec, runs, up, calls, overwritten>>

Others == Nodes \ {Lead}
Terminal == {"completed", "failed", "cancelled", "timeout"}
Free == [eng |-> None]
Runs == 1..MaxRuns
Live == {x \in Runs : exec[x] # Free}

Least(a, b) == IF a < b THEN a ELSE b

Cursor0 ==
  [round |-> IF plan.mode = "discussion" THEN 1 ELSE 0,
   phase |-> IF plan.mode = "discussion" THEN "participants" ELSE "executor",
   dirs |-> <<>>, spoke |-> {}, verdict |-> "none"]

Idle == [n \in Nodes |-> "none"]

-----------------------------------------------------------------------------
(* The lease and the fences *)

\* isWorkflowOwner, and the WHERE clause of every write.
Owns(o) == row.owner = o.eng /\ row.epoch = o.epoch

\* What assertCurrent demands of an execution.
Current(o) ==
  /\ up[o.eng] = "up"
  /\ Owns(o)
  /\ o.open
  /\ o.status = "running"

Finalizes(e) == \E x \in Live : exec[x].eng = e /\ exec[x].fin

\* Mutant of Claimable: the lease of a dead owner is waited for in vain.
ClaimableIfFree(e) == row.owner \in {None, e}

\* An engine that ended, finalizers included, left the lease to run out.
Claimable(e) == row.owner \in {None, Gone, e} \/ row.lapsed

\* The row as claimWorkflow leaves it for engine e.
Claimed(e) ==
  [row EXCEPT !.epoch = IF row.owner = e THEN @ ELSE @ + 1, !.owner = e, !.lapsed = FALSE]

\* upsertWorkflow: the whole object goes into the row.
Written(o, r) ==
  [r EXCEPT !.status = o.status, !.nodes = o.nodes, !.cursor = o.cursor, !.lapsed = FALSE]

Released(r) == [r EXCEPT !.owner = None, !.epoch = @ + 1, !.lapsed = FALSE]

Orphaned(r, e) == IF r.owner = e THEN [r EXCEPT !.owner = Gone] ELSE r

\* Mutant of Saved: the write does not compare owner and epoch.
SavedAnyway(o) ==
  IF up[o.eng] = "up" \/ Finalizes(o.eng) THEN Written(o, row) ELSE row

\* persist: refused when somebody else owns the row, and switched off in a
\* disposed engine that ends no finalizer.
Saved(o) ==
  IF Owns(o) /\ (up[o.eng] = "up" \/ Finalizes(o.eng)) THEN Written(o, row) ELSE row

\* emit: a disposed engine says nothing more; the event carries the whole object.
Emitted(o) == IF Owns(o) /\ up[o.eng] = "up" THEN Written(o, row) ELSE row

\* assertCurrent renews the lease whatever it decides then.
Renewed(o) == IF Owns(o) THEN [row EXCEPT !.lapsed = FALSE] ELSE row

\* resolveNodeWaiter: what waits for a turn's result ends; what waits for the
\* session engine to create or send goes on.
Unwaited(task) == [n \in Nodes |-> IF task[n] \in {"create", "send"} THEN task[n] ELSE "none"]

\* The object is not the one its engine works with, and ends no cancel or timeout.
Old(x) == runs[exec[x].eng] # x /\ ~exec[x].fin

Checkpoint(r) == <<r.status, r.nodes, r.cursor>>

\* Nobody claimed the workflow since o gave its lease back.
Untouched(o) == row.owner = None /\ row.epoch = o.epoch + 1

\* The control epoch moves on: the executor will stop at its next fence.
Fenced(o) ==
  [o EXCEPT !.open = FALSE, !.pc = IF @ = "review" THEN @ ELSE "over", !.task = Unwaited(@)]

Recast(nodes, from, to) == [n \in Nodes |-> IF nodes[n] \in from THEN to ELSE nodes[n]]

\* Objects that nobody refers to any more are garbage.
Reaped(ex, rs) ==
  [x \in Runs |->
     IF /\ ex[x] # Free /\ ex[x].pc = "over" /\ ex[x].task = Idle /\ ~ex[x].fin
        /\ x \notin {rs[e] : e \in Engines}
     THEN Free ELSE ex[x]]

-----------------------------------------------------------------------------
(* What an executor does between two awaits.  The operators below give the *)
(* object after the synchronous code that starts at a loop head.           *)

\* executeNode up to its first await, for a set of nodes started together.
Begin(o, S) ==
  [o EXCEPT !.nodes = [n \in Nodes |-> IF n \in S THEN "running" ELSE @[n]],
            !.task  = [n \in Nodes |-> IF n \in S THEN "create" ELSE "none"],
            !.pc    = "batch"]

At(o, pc) == [o EXCEPT !.pc = pc, !.task = Idle]

\* --- DAG

Settled(nodes) ==
  {n \in Nodes : \/ nodes[n] \in {"completed", "skipped"}
                 \/ nodes[n] = "failed" /\ plan.policy # "fail_workflow"}

Ready(nodes) == {n \in Nodes \ Settled(nodes) : Deps[n] \subseteq Settled(nodes)}

ToSkip(nodes) ==
  {n \in Ready(nodes) : /\ plan.policy # "continue"
                        /\ \E d \in Deps[n] : nodes[d] \in {"failed", "skipped"}}

Runnable(nodes) == Ready(nodes) \ ToSkip(nodes)

Batches(S) == {B \in SUBSET S : Cardinality(B) = Least(plan.parallel, Cardinality(S))}

NextBatch(o) == {[Begin(o, B) EXCEPT !.todo = o.todo \ B] : B \in Batches(o.todo)}

\* A round that runs nothing only skips, and makes ready only nodes that the next
\* round skips in turn: in the end all that was left is skipped.
DagRound(o) ==
  LET skipped == IF Runnable(o.nodes) = {} THEN Nodes \ Settled(o.nodes) ELSE ToSkip(o.nodes)
      p == [o EXCEPT !.nodes = [n \in Nodes |-> IF n \in skipped THEN "skipped" ELSE @[n]],
                     !.todo = Runnable(o.nodes)]
  IN  IF p.todo = {} THEN {At(p, "done")} ELSE NextBatch(p)

\* --- graph

Unhandled(c) == {i \in DOMAIN c.dirs : c.dirs[i] \notin c.spoke}

First(c) == c.dirs[CHOOSE i \in Unhandled(c) : \A j \in Unhandled(c) : i <= j]

\* Mutant of GraphRound: no limit on the iterations.
GraphRoundUnbounded(o) ==
  LET c == o.cursor IN
  IF c.phase = "executor" THEN Begin(o, {Lead})
  ELSE IF Unhandled(c) = {}
       THEN Begin([o EXCEPT !.cursor = [Cursor0 EXCEPT !.round = c.round + 1]], {Lead})
  ELSE IF First(c) = "done" THEN At(o, "closing")
  ELSE IF First(c) = "review" THEN At(o, "review")
  ELSE Begin(o, {First(c)})

\* The loop of executeGraph, entered with what the checkpoint says.
GraphRound(o) ==
  LET c == o.cursor IN
  IF c.phase = "executor" THEN Begin(o, {Lead})
  ELSE IF c.round >= plan.rounds THEN At(o, "fail")
  ELSE IF Unhandled(c) = {}
       THEN IF c.verdict = "on"
            THEN Begin([o EXCEPT !.cursor = [Cursor0 EXCEPT !.round = c.round + 1]], {Lead})
            ELSE At(o, "fail")
  ELSE IF First(c) = "done" THEN At(o, "closing")
  ELSE IF First(c) = "review" THEN At(o, "review")
  ELSE Begin(o, {First(c)})

\* The executor answered: a done directive anywhere ends the loop at once.
Decided(o, dirs) ==
  LET p == [o EXCEPT !.cursor.phase = "directives", !.cursor.dirs = dirs] IN
  IF \E i \in DOMAIN dirs : dirs[i] = "done" THEN At(p, "closing")
  ELSE IF dirs = <<>> THEN At(p, "fail")
  ELSE GraphRound(p)

Handled(o, d) == [o EXCEPT !.cursor.spoke = @ \cup {d}]

\* A worker, or a reviewer who rejects, has something for the executor to read.
Reported(o, d) == [Handled(o, d) EXCEPT !.cursor.verdict = "on"]

\* --- discussion

\* The chairman decides, or a speaker votes.
Judged(o, v) == [o EXCEPT !.cursor.verdict = v]

DiscussionRound(o) ==
  LET c == o.cursor  missing == Others \ c.spoke IN
  IF c.phase = "participants" /\ missing # {}
  THEN {Begin(o, B) : B \in Batches(missing)}
  ELSE IF c.verdict = "none" THEN {Begin([o EXCEPT !.cursor.phase = "chairman"], {Lead})}
  ELSE IF c.verdict = "end" \/ c.round >= plan.rounds
  THEN {At([o EXCEPT !.cursor.phase = "chairman"], "closing")}
  ELSE {Begin([o EXCEPT !.cursor = [Cursor0 EXCEPT !.round = c.round + 1]], B) : B \in Batches(Others)}

Proceed(o) ==
  CASE plan.mode = "dag" -> DagRound(o)
    [] plan.mode = "graph" -> {GraphRound(o)}
    [] plan.mode = "discussion" -> DiscussionRound(o)

\* execute's end and fail: the last status, with the lease released after it.
Ended(o) ==
  CASE o.pc = "done" -> [At(o, "over") EXCEPT !.status = "completed"]
    [] o.pc = "fail" -> [At(o, "over") EXCEPT !.status = "failed"]
    [] OTHER -> o

Stored(o, r) ==
  IF o.pc \in {"done", "fail"} THEN Released(Written(Ended(o), r)) ELSE Written(o, r)

\* Object x becomes o, and o is written into row r.
Becomes(x, o, r) ==
  /\ exec' = Reaped([exec EXCEPT ![x] = Ended(o)], runs)
  /\ row' = Stored(o, r)
  /\ UNCHANGED overwritten

-----------------------------------------------------------------------------
(* Starting a run *)

\* Mutant of Object: the mode's cursor is not taken from the row.
ObjectRewound(e, r) ==
  [eng |-> e, epoch |-> r.epoch, open |-> TRUE, status |-> r.status, nodes |-> r.nodes,
   cursor |-> Cursor0, pc |-> "over", task |-> Idle, todo |-> {}, fin |-> FALSE]

\* restoreRow, or the new run.
Object(e, r) ==
  [eng |-> e, epoch |-> r.epoch, open |-> TRUE, status |-> r.status, nodes |-> r.nodes,
   cursor |-> r.cursor, pc |-> "over", task |-> Idle, todo |-> {}, fin |-> FALSE]

FreeRun(x) == exec[x] = Free /\ \A y \in Runs : y < x => exec[y] # Free

Called == calls < MaxCalls /\ calls' = calls + 1

\* startExecution: executeWithTimeout and execute run up to the first await.
Launch(e, x, o, r) ==
  /\ runs' = [runs EXCEPT ![e] = x]
  /\ \E p \in Proceed([o EXCEPT !.status = "running"]) :
       /\ exec' = Reaped([exec EXCEPT ![x] = Ended(p)], [runs EXCEPT ![e] = x])
       /\ row' = Stored(p, r)

\* workflow.run.
Run(e, x) ==
  /\ e = Home /\ up[e] = "up" /\ row.status = "none" /\ FreeRun(x)
  /\ LET r == [row EXCEPT !.owner = e] IN Launch(e, x, Object(e, r), r)
  /\ UNCHANGED <<plan, up, calls, overwritten>>

\* Mutant of Recover: it does not look whether the workflow runs here already.
RecoverAgain(e, x) ==
  /\ up[e] = "up" /\ FreeRun(x)
  /\ row.status \in {"queued", "running"}
  /\ Claimable(e)
  /\ LET o == Object(e, Claimed(e)) IN
     IF plan.manual
     THEN LET p == [o EXCEPT !.status = "paused", !.open = FALSE,
                             !.nodes = Recast(@, {"running"}, "paused")]
          IN  /\ runs' = [runs EXCEPT ![e] = x]
              /\ exec' = [exec EXCEPT ![x] = p]
              /\ row' = Released(Written(p, Claimed(e)))
     ELSE Launch(e, x, [o EXCEPT !.nodes = Recast(@, {"running", "paused"}, "pending")],
                 Claimed(e))
  /\ UNCHANGED <<plan, up, calls, overwritten>>

\* recover: a queued or running checkpoint that nobody owns is claimed and
\* continued, or parked when the run asks for a manual continuation.
Recover(e, x) ==
  /\ up[e] = "up" /\ runs[e] = 0 /\ FreeRun(x)
  /\ row.status \in {"queued", "running"}
  /\ Claimable(e)
  /\ LET o == Object(e, Claimed(e)) IN
     IF plan.manual
     THEN LET p == [o EXCEPT !.status = "paused", !.open = FALSE,
                             !.nodes = Recast(@, {"running"}, "paused")]
          IN  /\ runs' = [runs EXCEPT ![e] = x]
              /\ exec' = [exec EXCEPT ![x] = p]
              /\ row' = Released(Written(p, Claimed(e)))
     ELSE Launch(e, x, [o EXCEPT !.nodes = Recast(@, {"running", "paused"}, "pending")],
                 Claimed(e))
  /\ UNCHANGED <<plan, up, calls, overwritten>>

\* The plan or its project is no longer valid here: the workflow fails.
RecoverFails(e) ==
  /\ up[e] = "up" /\ runs[e] = 0 /\ Called
  /\ row.status \in {"queued", "running"} /\ Claimable(e) /\ ~plan.manual
  /\ row' = Released([Claimed(e) EXCEPT !.status = "failed"])
  /\ UNCHANGED <<plan, exec, runs, up, overwritten>>

\* The nodes a resume strategy starts again.
Rerun(strategy, nodes) ==
  CASE strategy = "continue" -> {n \in Nodes : nodes[n] \in {"paused", "running", "cancelled"}}
    [] strategy = "failed_node" ->
         {n \in Nodes : nodes[n] \in {"failed", "cancelled", "running", "paused"}}
    [] strategy = "last_success_dependents" -> {n \in Nodes : nodes[n] # "completed"}
    [] OTHER -> {strategy} \cup {n \in Nodes : nodes[n] # "completed"}

Strategies == {"continue", "failed_node", "last_success_dependents"} \cup Named

\* workflow.resume: a new object from the row, under the same epoch when this
\* engine still owns the workflow.  Nobody asks whether the old object's
\* executor has come to its end.
Resume(e, x, strategy) ==
  /\ up[e] = "up" /\ FreeRun(x) /\ Called
  /\ ~Finalizes(e)
  /\ row.status \in {"paused", "failed", "timeout", "cancelled"}
  /\ Claimable(e)
  /\ LET o == Object(e, Claimed(e)) IN
     Launch(e, x,
            [o EXCEPT !.nodes = Recast([n \in Nodes |-> IF n \in Rerun(strategy, @)
                                                        THEN "pending" ELSE @[n]],
                                       {"running", "paused"}, "pending"),
                      !.cursor = IF strategy = "continue" THEN @ ELSE Cursor0],
            Claimed(e))
  /\ UNCHANGED <<plan, up, overwritten>>

-----------------------------------------------------------------------------
(* The awaits of an executor.  Each action is the code between one await   *)
(* and the next.                                                           *)

Task(x, n, phase) == x \in Live /\ exec[x].task[n] = phase

\* A continuation finds its execution fenced and throws.
Stops(x, o, r) ==
  /\ exec' = Reaped([exec EXCEPT ![x] = [o EXCEPT !.open = @ /\ Owns(o), !.pc = "over"]], runs)
  /\ row' = r
  /\ overwritten' = (overwritten \/ (Old(x) /\ Checkpoint(r) # Checkpoint(row)))

\* Mutant of Advances: the fence is not looked at after the write.
AdvancesUnfenced(x, n, from, to) ==
  /\ Task(x, n, from)
  /\ LET o == exec[x] IN
     exec' = [exec EXCEPT ![x].task[n] = to] /\ row' = Saved(o)
  /\ UNCHANGED <<plan, runs, up, calls, overwritten>>

\* The session exists, or the turn was accepted: the object is written before
\* anybody looks at the fence.  (A fenced executor whose turn was accepted
\* waits for its end, ignores it, and stops; here it stops at once.)
Advances(x, n, from, to) ==
  /\ Task(x, n, from)
  /\ LET o == exec[x] IN
     IF Current(o) THEN Becomes(x, [o EXCEPT !.task[n] = to], row)
                   ELSE Stops(x, [o EXCEPT !.task[n] = "none"], Saved(o))
  /\ UNCHANGED <<plan, runs, up, calls>>

Created(x, n) == Advances(x, n, "create", "send")

Sent(x, n) == Advances(x, n, "send", "turn")

\* A node of a graph, or the chairman, ends: the executor goes on.
After(o, n, ok) ==
  LET done == [o EXCEPT !.nodes[n] = IF ok THEN "completed" ELSE "failed", !.task = Idle] IN
  IF ~ok THEN {At(done, "fail")}
  ELSE IF plan.mode = "discussion"
  THEN UNION {DiscussionRound(Judged(done, v)) : v \in {"on", "end"}}
  ELSE IF n = Lead THEN {Decided(done, dirs) : dirs \in Decisions}
  ELSE {GraphRound(Reported(done, n))}

\* A node of a batch ends and waits for the others: its own checkpoint first.
Joins(o, n, ok) ==
  LET p == [o EXCEPT !.nodes[n] = IF ok THEN "completed" ELSE "failed"] IN
  IF plan.mode = "dag" THEN {[p EXCEPT !.task[n] = IF ok THEN "ok" ELSE "err"]}
  ELSE IF ok \/ plan.policy = "continue"
  THEN {[Handled(p, n) EXCEPT !.task[n] = "ok", !.cursor.verdict = v]
          : v \in {p.cursor.verdict} \cup (IF ok THEN {"end"} ELSE {})}
  ELSE {[p EXCEPT !.task[n] = "err"]}

InBatch(n) == plan.mode = "dag" \/ (plan.mode = "discussion" /\ n # Lead)

\* executeNode returns or throws: after the turn's result, or because the
\* session engine refused to create or to send.
NodeEnds(x, n, ok) ==
  /\ \E phase \in IF ok THEN {"turn"} ELSE {"create", "send", "turn"} : Task(x, n, phase)
  /\ LET o == exec[x] IN
     IF Current(o)
     THEN \E p \in (IF InBatch(n) THEN Joins(o, n, ok) ELSE After(o, n, ok)) : Becomes(x, p, row)
     ELSE Stops(x, [o EXCEPT !.task[n] = "none"], Renewed(o))
  /\ UNCHANGED <<plan, runs, up, calls>>

\* Promise.allSettled of a batch returns.
BatchEnds(x) ==
  /\ x \in Live /\ exec[x].pc = "batch"
  /\ \A n \in Nodes : exec[x].task[n] \in {"none", "ok", "err"}
  /\ LET o == exec[x]
         failed == \E n \in Nodes : o.task[n] = "err"
         p == [o EXCEPT !.task = Idle]
     IN  IF ~Current(o)
         THEN Stops(x, p, Renewed(o))
         ELSE IF failed /\ (plan.mode = "discussion" \/ plan.policy = "fail_workflow")
         THEN Becomes(x, At(p, "fail"), row)
         ELSE \E q \in (IF p.todo # {} THEN NextBatch(p) ELSE Proceed(p)) : Becomes(x, q, row)
  /\ UNCHANGED <<plan, runs, up, calls>>

\* The human review is answered, times out or fails; its outcome is emitted
\* before anybody looks at the fence.
ReviewEnds(x, approved) ==
  /\ x \in Live /\ exec[x].pc = "review"
  /\ LET o == exec[x] IN
     IF Current(o)
     THEN Becomes(x, IF approved THEN At(Handled(o, "review"), "closing")
                     ELSE GraphRound(Reported(o, "review")), row)
     ELSE Stops(x, o, Emitted(o))
  /\ UNCHANGED <<plan, runs, up, calls>>

\* cleanupPersistent of a graph or a discussion returns: the workflow completes.
CloseEnds(x) ==
  /\ x \in Live /\ exec[x].pc = "closing"
  /\ LET o == exec[x] IN
     IF Current(o)
     THEN Becomes(x, At(o, "done"), row)
     ELSE Stops(x, o, Renewed(o))
  /\ UNCHANGED <<plan, runs, up, calls>>

-----------------------------------------------------------------------------
(* Controls *)

Unended == {"pending", "running", "paused"}

\* Mutant of Pause: nothing is written.
PauseUnsaved(e) ==
  /\ up[e] = "up" /\ runs[e] # 0 /\ Called
  /\ LET x == runs[e]
         o == exec[x]
     IN  /\ o.status \notin Terminal \cup {"paused"}
         /\ exec' = [exec EXCEPT ![x] = [Fenced(o) EXCEPT !.status = "paused"]]
  /\ UNCHANGED <<plan, row, runs, up, overwritten>>

\* workflow.pause.
Pause(e) ==
  /\ up[e] = "up" /\ runs[e] # 0 /\ Called
  /\ LET x == runs[e]
         o == exec[x]
         p == [Fenced(o) EXCEPT !.status = "paused", !.nodes = Recast(@, {"running"}, "paused")]
     IN  /\ o.status \notin Terminal \cup {"paused"}
         /\ exec' = [exec EXCEPT ![x] = p]
         /\ row' = Saved(p)
  /\ UNCHANGED <<plan, runs, up, overwritten>>

\* The head of cancel and of finalizeTimeout: the terminal fence is committed
\* before any adapter is touched.  Without the lease the write is refused and
\* the call fails, with the object already changed.
Finalized(o, status) ==
  [Fenced(o) EXCEPT !.status = status, !.nodes = Recast(@, Unended, "cancelled"), !.fin = TRUE]

\* workflow.cancel of a run this engine has in its table.
Cancel(e) ==
  /\ up[e] = "up" /\ runs[e] # 0 /\ Called
  /\ LET x == runs[e]  p == Finalized(exec[x], "cancelled") IN
     /\ exec[x].status \notin Terminal
     /\ exec' = [exec EXCEPT ![x] = [p EXCEPT !.fin = Owns(p)]]
     /\ row' = Saved(p)
  /\ UNCHANGED <<plan, runs, up, overwritten>>

\* workflow.cancel of a run known from the store only.
CancelStored(e, x) ==
  /\ up[e] = "up" /\ runs[e] = 0 /\ FreeRun(x) /\ Called
  /\ row.status \notin Terminal \cup {"none"}
  /\ Claimable(e)
  /\ LET p == Finalized(Object(e, Claimed(e)), "cancelled") IN
     /\ exec' = [exec EXCEPT ![x] = p]
     /\ row' = Written(p, Claimed(e))
  /\ runs' = [runs EXCEPT ![e] = x]
  /\ UNCHANGED <<plan, up, overwritten>>

\* The total deadline of the execution passes.
TimesOut(x) ==
  /\ x \in Live /\ exec[x].pc # "over" /\ Called
  /\ LET o == exec[x]  p == Finalized(o, "timeout") IN
     /\ up[o.eng] = "up" /\ o.open /\ o.status = "running"
     /\ exec' = [exec EXCEPT ![x] = [p EXCEPT !.fin = Owns(p)]]
     /\ row' = Saved(p)
  /\ UNCHANGED <<plan, runs, up, overwritten>>

\* The sessions were terminated, or two seconds passed: the finalizer writes
\* the cleaned resources and gives the lease back.
FinalizerEnds(x) ==
  /\ x \in Live /\ exec[x].fin
  /\ LET o == exec[x] IN
     /\ exec' = Reaped([exec EXCEPT ![x].fin = FALSE], runs)
     /\ row' = IF Owns(o) THEN Released(Written(o, row)) ELSE row
  /\ UNCHANGED <<plan, runs, up, calls, overwritten>>

\* workflow.artifact.register: an engine that no longer owns the workflow takes
\* the lease for the event, and the event's write carries its whole object,
\* whatever the row says by now.
RegisterArtifact(e) ==
  /\ up[e] = "up" /\ runs[e] # 0 /\ Called
  /\ LET x == runs[e]  o == exec[x] IN
     IF Owns(o)
     THEN row' = Written(o, row) /\ UNCHANGED <<exec, overwritten>>
     ELSE /\ Claimable(e)
          /\ row' = Released(Written(o, Claimed(e)))
          /\ exec' = [exec EXCEPT ![x].epoch = Claimed(e).epoch]
          /\ overwritten' = (overwritten \/ ~Untouched(o))
  /\ UNCHANGED <<plan, runs, up>>

-----------------------------------------------------------------------------
(* Engines *)

\* The lease timer.
Renew(e) ==
  /\ up[e] = "up" /\ runs[e] # 0
  /\ LET x == runs[e]  o == exec[x] IN
     /\ o.status \notin Terminal \/ o.fin
     /\ IF Owns(o) THEN row.lapsed ELSE o.open
     /\ row' = IF Owns(o) THEN [row EXCEPT !.lapsed = FALSE] ELSE row
     /\ exec' = [exec EXCEPT ![x].open = @ /\ Owns(o)]
  /\ UNCHANGED <<plan, runs, up, calls, overwritten>>

\* The lease runs out although its owner lives: its timers were held up.
Lapse ==
  /\ row.owner # None /\ ~row.lapsed /\ Called
  /\ row' = [row EXCEPT !.lapsed = TRUE]
  /\ UNCHANGED <<plan, exec, runs, up, overwritten>>

Start(e) ==
  /\ up[e] = "down"
  /\ \A x \in Live : exec[x].eng # e
  /\ up' = [up EXCEPT ![e] = "up"]
  /\ UNCHANGED <<plan, row, exec, runs, calls, overwritten>>

\* The object that dispose leaves in the store: a run in progress is queued for
\* the next engine, or parked when it asks for a manual continuation.
Parked(o) ==
  IF o.status \in Terminal \cup {"paused"} THEN o
  ELSE [o EXCEPT !.status = IF plan.manual THEN "paused" ELSE "queued",
                 !.nodes = Recast(@, {"running"}, "pending")]

\* The second half of dispose: park, release, forget.  Finalizers that linger
\* keep the lease.
DisposeEnds(e) ==
  /\ row' = IF Finalizes(e) THEN row
            ELSE IF runs[e] # 0 /\ Owns(exec[runs[e]])
            THEN LET o == exec[runs[e]]  p == Parked(o) IN
                 Released(IF p = o THEN row ELSE Written(p, row))
            ELSE Orphaned(row, e)
  /\ exec' = [x \in Runs |-> IF x \in Live /\ exec[x].eng = e /\ ~exec[x].fin
                             THEN Free ELSE exec[x]]
  /\ runs' = [runs EXCEPT ![e] = 0]
  /\ up' = [up EXCEPT ![e] = "down"]

\* dispose: finalizers of this engine are given time; without one the call
\* runs through.
Dispose(e) ==
  /\ up[e] = "up" /\ Called
  /\ IF Finalizes(e)
     THEN up' = [up EXCEPT ![e] = "closing"] /\ UNCHANGED <<row, exec, runs>>
     ELSE DisposeEnds(e)
  /\ UNCHANGED <<plan, overwritten>>

\* The finalizers ended, or their time is over and they linger.
DisposeReturns(e) ==
  /\ up[e] = "closing"
  /\ DisposeEnds(e)
  /\ UNCHANGED <<plan, calls, overwritten>>

\* The process of engine e dies.
Crash(e) ==
  /\ up[e] # "down" \/ Finalizes(e)
  /\ Called
  /\ exec' = [x \in Runs |-> IF x \in Live /\ exec[x].eng = e THEN Free ELSE exec[x]]
  /\ runs' = [runs EXCEPT ![e] = 0]
  /\ up' = [up EXCEPT ![e] = "down"]
  /\ row' = Orphaned(row, e)
  /\ UNCHANGED <<plan, overwritten>>

-----------------------------------------------------------------------------

Init ==
  /\ plan \in Plans
  /\ row = [status |-> "none", nodes |-> [n \in Nodes |-> "pending"], cursor |-> Cursor0,
            owner |-> None, epoch |-> 0, lapsed |-> FALSE]
  /\ exec = [x \in Runs |-> Free]
  /\ runs = [e \in Engines |-> 0]
  /\ up = [e \in Engines |-> "up"]
  /\ calls = 0
  /\ overwritten = FALSE

\* What an execution does by itself.
Continues(x) ==
  \/ \E n \in Nodes : Created(x, n) \/ Sent(x, n) \/ \E ok \in BOOLEAN : NodeEnds(x, n, ok)
  \/ BatchEnds(x)
  \/ \E approved \in BOOLEAN : ReviewEnds(x, approved)
  \/ CloseEnds(x)
  \/ FinalizerEnds(x)

Control(e) ==
  \/ Pause(e) \/ Cancel(e) \/ RegisterArtifact(e)
  \/ \E x \in Runs : CancelStored(e, x) \/ \E s \in Strategies : Resume(e, x, s)

\* What happens without anybody's doing: executions go on, timers fire, the
\* client starts a new engine.
Work ==
  \/ \E x \in Runs : Continues(x)
  \/ \E e \in Engines :
       \/ \E x \in Runs : Recover(e, x)
       \/ Renew(e) \/ Start(e) \/ DisposeReturns(e)

Next ==
  \/ Work
  \/ \E e \in Engines :
       \/ \E x \in Runs : Run(e, x)
       \/ RecoverFails(e) \/ Control(e) \/ Dispose(e) \/ Crash(e)
  \/ \E x \in Runs : TimesOut(x)
  \/ Lapse

\* Turns end, calls of the session engine return or throw, reviews have a local
\* deadline, and the lease timer runs: the tenant's engines do not all stop
\* for ever while there is something to do.
Fairness == WF_vars(Work)

Spec == Init /\ [][Next]_vars /\ Fairness

-----------------------------------------------------------------------------
(* Properties *)

\* However engines lose their lease, take over, pause and resume: at most one
\* execution of the workflow passes the fence (claimWorkflow, assertCurrent;
\* docs/L3_ORCHESTRATION.md, Recovery).
AtMostOne ==
  \A x, y \in Live :
    Current(exec[x]) /\ Current(exec[y]) /\ exec[x].pc # "over" /\ exec[y].pc # "over" => x = y

\* That holds until an old run object is written over a newer checkpoint, by a
\* session creation that outlasted pause and resume or by the registration of
\* an artifact: what the row says is then nobody's state.
OneExecutor == overwritten \/ AtMostOne

LeasesWork ==
  \A e \in Engines :
    row.owner = e /\ up[e] = "up" /\ row.status \in {"queued", "running"} =>
      \E x \in Live : exec[x].eng = e /\ Current(exec[x]) /\ exec[x].pc # "over"

\* A running workflow that an engine holds under its lease is being executed
\* there: a lease that is renewed for nobody's work would keep every successor
\* away (renewLeases, recover).  Until an old object was written over a newer one.
LeaseIsWork == overwritten \/ LeasesWork

\* What makes the properties of the lease inductive, as long as no old object was
\* written over a newer one.  Of the objects that hold the lease only the one in
\* its engine's table still executes, the others are spent: they wait for a
\* session, a turn or a review, and can only write.  The row has the status of
\* the object in the table; it works exactly as long as it says that it runs; a
\* finalizer of an engine keeps that engine from taking the lease anew.
Fields == {"eng", "epoch", "open", "status", "nodes", "cursor", "pc", "task", "todo", "fin"}

Spent(o) == o.status # "running" /\ ~o.fin

ObjectsOK ==
  \A x \in Live : LET o == exec[x] IN
    /\ DOMAIN o = Fields
    /\ o.eng \in Engines /\ o.epoch \in Nat
    /\ o.open \in BOOLEAN /\ o.fin \in BOOLEAN
    /\ o.status \in {"running", "paused"} \cup Terminal
    /\ o.pc \in {"batch", "review", "closing", "over"}
    /\ o.pc \in {"batch", "closing"} => o.status = "running"

TablesOK ==
  /\ plan \in Plans
  /\ DOMAIN exec = Runs
  /\ DOMAIN row = {"status", "nodes", "cursor", "owner", "epoch", "lapsed"}
  /\ row.epoch \in Nat
  /\ runs \in [Engines -> Runs \cup {0}]
  /\ up \in [Engines -> {"up", "closing", "down"}]
  /\ row.status = "none" => Live = {}
  /\ \A e \in Engines :
       /\ runs[e] # 0 => runs[e] \in Live /\ exec[runs[e]].eng = e
       /\ up[e] = "up" /\ runs[e] = 0 => \A x \in Live : exec[x].eng # e
       /\ up[e] = "down" => runs[e] = 0

\* An epoch is granted once: who has the row's epoch holds the lease.
EpochsOK ==
  \A x \in Live :
    /\ exec[x].epoch <= row.epoch
    /\ exec[x].epoch = row.epoch => row.owner = exec[x].eng

OwnersOK ==
  \A x \in Live : LET o == exec[x] IN
    Owns(o) =>
      /\ IF up[o.eng] = "down" THEN o.fin ELSE runs[o.eng] = x \/ Spent(o)
      /\ runs[o.eng] = x \/ o.fin => row.status = o.status
      /\ up[o.eng] = "up" /\ o.status = "running" => o.open /\ o.pc # "over"

FinalizersOK ==
  /\ \A x \in Live : exec[x].fin =>
       /\ exec[x].status \in Terminal
       /\ up[exec[x].eng] # "down" => runs[exec[x].eng] = x
       /\ row.owner = exec[x].eng => Owns(exec[x])
  /\ \A e \in Engines : row.owner = e /\ up[e] = "down" => Finalizes(e)

\* An object that gave the lease back with a terminal state still has that state.
ReleasedOK ==
  \A e \in Engines :
    /\ runs[e] # 0 /\ row.owner = None /\ row.epoch = exec[runs[e]].epoch + 1
    /\ row.status \in Terminal
    => row.status = exec[runs[e]].status

FenceInv == /\ TablesOK
            /\ ObjectsOK
            /\ EpochsOK
            /\ OwnersOK
            /\ FinalizersOK
            /\ ReleasedOK
            /\ LeasesWork

\* What makes a checkpoint a boundary: the object in the table of the owner, or
\* with its finalizer, has what the row has; what waits for a session, a turn or
\* its batch is not done; what gave the lease back no longer runs.
NodeStates == {"pending", "running", "paused", "completed", "failed", "skipped", "cancelled"}

Cursors ==
  [round : Nat, phase : {"executor", "directives", "participants", "chairman"},
   dirs : Seq(Others \cup {"done", "review"}), spoke : SUBSET (Others \cup {"review"}),
   verdict : {"none", "on", "end"}]

Busy == {"create", "send", "turn"}

Formed(o) ==
  /\ o.nodes \in [Nodes -> NodeStates] /\ o.cursor \in Cursors
  /\ o.task \in [Nodes -> Busy \cup {"none", "ok", "err"}]
  /\ o.todo \subseteq Nodes /\ (plan.mode # "dag" => o.todo = {})
  /\ \A n \in Nodes : o.task[n] \in Busy => o.nodes[n] # "completed"
  /\ \A n \in o.todo : o.task[n] = "none" /\ o.nodes[n] # "completed"
  /\ o.pc = "review" => plan.mode = "graph"

FormsOK ==
  /\ row.nodes \in [Nodes -> NodeStates] /\ row.cursor \in Cursors
  /\ \A x \in Live : Formed(exec[x])

AgreesOK ==
  \A x \in Live : LET o == exec[x] IN
    Owns(o) /\ (runs[o.eng] = x \/ o.fin) => row.nodes = o.nodes /\ row.cursor = o.cursor

StoppedOK ==
  row.owner = None => \A e \in Engines :
    runs[e] # 0 /\ row.epoch = exec[runs[e]].epoch + 1 =>
      exec[runs[e]].status # "running" /\ row.status \notin {"queued", "running"}

OneFinalizer ==
  \A x, y \in Live : exec[x].fin /\ exec[y].fin /\ exec[x].eng = exec[y].eng => x = y

CheckpointInv == FenceInv /\ FormsOK /\ AgreesOK /\ StoppedOK /\ OneFinalizer

\* What the row says is done in this round: nodes of a DAG, targets and the
\* executor of a graph, speakers and the chairman of a discussion.
Done(r) ==
  CASE plan.mode = "dag" -> {n \in Nodes : r.nodes[n] = "completed"}
    [] plan.mode = "graph" ->
         r.cursor.spoke \cup (IF r.cursor.phase = "directives" THEN {Lead} ELSE {})
    [] OTHER -> r.cursor.spoke \cup (IF r.cursor.verdict \in {"on", "end"} THEN {Lead} ELSE {})

Enters(n, phase) == \E x \in Runs : ~Task(x, n, phase) /\ Task(x, n, phase)'

\* A checkpoint in progress never loses what it records as done, and what it
\* records is not started again: not by the execution that did it, not by the
\* engine that recovers it (the target, speaker and node boundaries), until an
\* old object was written over a newer checkpoint.
NothingRepeated ==
  [][ row.status \in {"queued", "running"} =>
        \/ overwritten'
        \/ row'.cursor.round = row.cursor.round + 1
        \/ /\ row'.cursor.round = row.cursor.round
           /\ Done(row) \subseteq Done(row)'
           /\ \A n \in Done(row) \cap Nodes : ~Enters(n, "create") ]_vars

\* A terminal state is left only by an explicit resume, and a completed workflow
\* never, whatever late executors, finalizers and old owners still do, short of
\* writing an old object over a newer checkpoint (persist in executeNode,
\* artifactRegister).
TerminalHolds ==
  [][ row.status \in Terminal /\ row'.status # row.status /\ ~overwritten' =>
        /\ row.status # "completed"
        /\ \E e \in Engines, x \in Runs, s \in Strategies : Resume(e, x, s) ]_vars

\* A turn is sent only while the store says that the workflow runs, and under
\* this engine's lease: the fence after every await (assertCurrent).  Until an
\* old object was written over a newer checkpoint.
FencedSends ==
  [][ \A x \in Runs, n \in Nodes :
        ~Task(x, n, "send") /\ Task(x, n, "send")' =>
          overwritten' \/ (row'.status = "running" /\ row'.owner = exec[x].eng) ]_vars

\* A completed workflow stays completed: resume refuses it
\* (docs/L3_ORCHESTRATION.md, Resume).
CompletedStays == [][row.status = "completed" => row'.status = "completed"]_vars

\* A workflow in progress settles or is parked, through any crash, disposal or
\* loss of the lease: some engine comes to recover it.
NothingStranded ==
  row.status \in {"queued", "running"} ~> (row.status \notin {"queued", "running"} \/ overwritten)
=============================================================================
