----------------------------- MODULE Scheduler -----------------------------
(***************************************************************************)
(* One cron schedule of one tenant, its runs, and the scheduler engines    *)
(* that fire and execute them (packages/core/src/scheduler-engine.ts, the  *)
(* schedules and runs of store.ts).  The device is authoritative: the      *)
(* schedule row carries the cursor to the next occurrence, a run row the   *)
(* state of one occurrence with its owner's lease and epoch.  A run wraps  *)
(* one session or one workflow, or is a dispatch: an occurrence that the   *)
(* server executes and resolves.                                           *)
(*                                                                         *)
(* An engine is a clock (dispatch occurrences only, before the device is   *)
(* connected), the scheduler of a connection, or the scheduler of a        *)
(* connection whose socket is gone.  Engines crash, are handed over, are   *)
(* disposed and lose leases while launches and executions are under way.   *)
(*                                                                         *)
(* Time is counted in half ticks: occurrence k of the cron expression is   *)
(* due at 2k, and 2k-1 stands for the second before it, in which a timer   *)
(* may already fire (onCronFire tolerates 1000 ms).  The number of retries *)
(* is part of the schedule and not changed by its updates.                 *)
(***************************************************************************)
EXTENDS Naturals, Sequences, FiniteSets, Functions, FiniteSetsExt, SequencesExt

CONSTANTS
  Engines,    \* scheduler engines that serve the tenant
  Schedules,  \* the schedules considered: kind, overlap, tries, catchUp, expires; the
              \* engines that serve each; and three bounds: its last occurrence, its runs,
              \* and the requests of the server and failures there may be
  Overlaps,   \* the overlap policies an update may set
  Endings,    \* how executions end: completed, failed, timeout, cancelled
  MaxRuns,    \* bound: run rows
  Cap,        \* active runs of a dispatch schedule (32 in the code)
  None,       \* no owner
  Gone        \* an owner that exists no more (owner ids are never used again)

ASSUME SchedulerAssumption ==
  /\ MaxRuns \in Nat \ {0} /\ Cap \in Nat \ {0}
  /\ Schedules \subseteq [kind : {"session", "workflow", "dispatch"},
                          overlap : {"skip", "queue", "allow"}, tries : Nat \ {0},
                          catchUp : BOOLEAN, expires : Nat, engines : SUBSET Engines, last : Nat,
                          runs : 1..MaxRuns, budget : Nat]
  /\ Endings \subseteq {"completed", "failed", "timeout", "cancelled"}
  /\ Overlaps \subseteq {"skip", "queue", "allow"}
  /\ {None, Gone} \cap Engines = {} /\ None # Gone

VARIABLES
  now,     \* half ticks
  sched,   \* the schedule row
  row,     \* the run rows
  eng,     \* life of each engine: down, clock, up, offline, or absent for good
  timer,   \* the cron timer of each engine: when it is due, 0 if not armed
  rt,      \* the run objects in the memory of each engine
  queue,   \* the runs each engine holds back
  work,    \* the executions of each run, by attempt
  told,    \* run.finished notices under way: <<engine, run>>
  cut,     \* engines without a timer for the schedule as it is now, until they arm one again:
           \* the store refused the receipt of their last firing, that firing found the
           \* schedule disabled, or another engine served the update
  blamed,  \* runs failed by the late refusal of an earlier attempt's prompt
  strayed, \* a living engine lost a lease, or heard the end of a run it does not own
  owed,    \* occurrences that became due while an engine kept the clock
  calls    \* requests and failures there may still be

vars == <<now, sched, row, eng, timer, rt, queue, work, told, cut, blamed, strayed, owed, calls>>

\* What one step of an engine reads and writes.
World == [sched |-> sched, row |-> row, eng |-> eng, timer |-> timer, rt |-> rt,
          queue |-> queue, work |-> work, told |-> told, cut |-> cut, blamed |-> blamed]

Becomes(w) ==
  \E v \in {w} :
    /\ sched' = v.sched /\ row' = v.row /\ eng' = v.eng /\ timer' = v.timer /\ rt' = v.rt
    /\ queue' = v.queue /\ work' = v.work /\ told' = v.told /\ cut' = v.cut /\ blamed' = v.blamed

Runs == 1..MaxRuns
Attempts == 1..sched.tries + 1    \* there may be tries; one attempt too many would show
Terminal == {"success", "failed", "timeout", "cancelled", "skipped"}
Active == {"pending", "running"}

NoRow == [st |-> "none", ph |-> "none", att |-> 0, own |-> None, ep |-> 0, lapsed |-> FALSE,
          wf |-> 0, rev |-> 0, acked |-> FALSE, tick |-> 0, early |-> FALSE]
NoRun == [ep |-> 0, ph |-> "none", map |-> 0]
NoWork == [st |-> "none", host |-> None, open |-> FALSE, arm |-> FALSE]

Here(w, e, r) == w.rt[e][r].ph # "none"
Objects(w, e) == {r \in Runs : Here(w, e, r)}
Fresh(w) == {r \in 1..w.sched.runs : w.row[r].st = "none"}
Doing == {"creating", "alive"}

\* SelectSeq(q, LAMBDA r : r \in S), in a form that can be reasoned about.
KeepIf(q, r, S) == IF r \in S THEN Append(q, r) ELSE q
Keep(q, S) ==
  LET kept[i \in 0..Len(q)] == IF i = 0 THEN <<>> ELSE KeepIf(kept[i - 1], q[i], S)
  IN kept[Len(q)]

\* Each run of e in the domain of v goes its own way, as v says of it.
Each(w, e, v) ==
  LET S == DOMAIN v IN
  [w EXCEPT !.row = [r \in Runs |-> IF r \in S THEN v[r].row[r] ELSE @[r]],
            !.work = [r \in Runs |-> IF r \in S THEN v[r].work[r] ELSE @[r]],
            !.rt[e] = [r \in Runs |-> IF r \in S THEN v[r].rt[e][r] ELSE @[r]],
            !.queue[e] = Keep(@, {r \in Runs : r \in S => Here(v[r], e, r)}),
            !.told = @ \cup UNION {v[r].told : r \in S}]

\* nextCronAfter: the first occurrence strictly later.
NextTick(t) == 2 * (t \div 2 + 1)

-----------------------------------------------------------------------------
(* Ownership of a run *)

\* Mutant of Owned: writes are not fenced by owner and epoch.
OwnedAlways(w, e, r) == TRUE

\* upsertRun's WHERE clause: the row still names this owner and this epoch.
Owned(w, e, r) == w.row[r].own = e /\ w.row[r].ep = w.rt[e][r].ep

Forget(w, e, r) == [w EXCEPT !.rt[e][r] = NoRun, !.queue[e] = Keep(@, Runs \ {r})]

\* assertRunOwner and renewRunLeases: an owner renews, a loser forgets its object.
Checked(w, e, r) ==
  IF Owned(w, e, r) THEN [w EXCEPT !.row[r].lapsed = FALSE] ELSE Forget(w, e, r)

\* upsertRun: the WHERE clause drops the write of an engine that lost the run.
Stored(w, e, r, new) == IF Owned(w, e, r) THEN [w EXCEPT !.row[r] = [new EXCEPT !.lapsed = FALSE]] ELSE w

\* releaseRun
Released(w, e, r) ==
  IF Owned(w, e, r) THEN [w EXCEPT !.row[r] = [@ EXCEPT !.own = None, !.ep = w.row[r].ep + 1, !.lapsed = FALSE]] ELSE w

\* safeEmit of run.finished: lost without a socket.
Emitted(w, e, r) == IF w.eng[e] = "up" THEN [w EXCEPT !.told = @ \cup {<<e, r>>}] ELSE w

\* cancelExecution, and the terminate or cancel of a failed attempt: best effort,
\* refused by a workflow engine that does not own the workflow.
Stop(w, e, r) ==
  LET a == w.rt[e][r].map IN
  IF a # 0 /\ w.work[r][a].st \in Doing /\ w.work[r][a].host \in {e, None}
    THEN [w EXCEPT !.work[r][a].st = "cancelled"]
    ELSE w

-----------------------------------------------------------------------------
(* The end of a run and of an attempt *)

HasActive(w, e) == \E r \in Runs : w.rt[e][r].ph \notin {"none", "queued"}

\* finishRun, but for the drain of the queue.  Of a run that ended, only the outcome,
\* the receipt and the occurrence are read again.
Settled(w, e, r, st) ==
  IF ~Here(w, e, r) THEN w
  ELSE LET over == [NoRow EXCEPT !.st = st, !.acked = w.row[r].acked,
                                 !.tick = w.row[r].tick, !.early = w.row[r].early]
       IN Forget(IF Owned(w, e, r) THEN Emitted([w EXCEPT !.row[r] = over], e, r) ELSE w, e, r)

\* failAttempt, but for the drain: the resource is given up, then a retry or the end.
Failed(w, e, r) ==
  IF ~Here(w, e, r) \/ ~Owned(w, e, r) THEN Checked(w, e, r)
  ELSE LET s == Stop(w, e, r)
       IN IF w.row[r].att < w.sched.tries
            THEN [s EXCEPT !.row[r] = [@ EXCEPT !.st = "pending", !.ph = "retry_wait", !.wf = 0, !.lapsed = FALSE],
                           !.rt[e][r] = [@ EXCEPT !.ph = "retry_wait", !.map = 0]]
            ELSE Settled(s, e, r, "failed")

\* launchAttempt up to its first await: the attempt is on record before anything starts.
Attempted(w, e, r) ==
  [w EXCEPT !.row[r] = [@ EXCEPT !.st = "pending", !.ph = "launching", !.att = w.row[r].att + 1,
                                 !.wf = 0, !.lapsed = FALSE],
            !.rt[e][r] = [@ EXCEPT !.ph = "launching", !.map = 0]]

\* An execution belongs to the attempt; a dispatch is executed by the server.
Running(w, e, r, a) ==
  Stored([w EXCEPT !.rt[e][r] = [@ EXCEPT !.ph = "running", !.map = a]], e, r,
         [w.row[r] EXCEPT !.st = "running", !.ph = "running", !.wf = a])

Started(w, e, r) ==
  LET a == w.row[r].att
  IN CASE w.sched.kind = "dispatch" ->
            IF w.row[r].rev # w.sched.rev THEN Failed(w, e, r) ELSE Running(w, e, r, 0)
       [] w.sched.kind = "workflow" ->
            Running([w EXCEPT !.work[r][a] = [NoWork EXCEPT !.st = "alive", !.host = e]], e, r, a)
       [] OTHER -> [w EXCEPT !.work[r][a] = [NoWork EXCEPT !.st = "creating", !.host = e]]

\* launchAttempt without the drain that a failure or a cancellation ends with.
Launched(w, e, r) ==
  IF ~Here(w, e, r) \/ ~Owned(w, e, r) THEN Checked(w, e, r)
  ELSE IF ~w.sched.live \/ ~w.sched.on THEN Settled(w, e, r, "cancelled")
  ELSE Started(Attempted(w, e, r), e, r)

\* drainQueue: the oldest run held back starts unless another is active; one that
\* ends at once drains again, one that is not owned any more ends the drain.
DrainStep(s, e, r) ==
  LET p == [s.w EXCEPT !.queue[e] = Keep(@, Runs \ {r})] IN
  IF ~s.go \/ HasActive(s.w, e) THEN [w |-> s.w, go |-> FALSE]
  ELSE IF p.rt[e][r].ph # "queued" THEN [w |-> p, go |-> s.go]
  ELSE [w |-> Launched(p, e, r), go |-> Owned(p, e, r)]

DrainSteps(w, e) ==
  LET held == w.queue[e]
      at[i \in 0..Len(held)] ==
        IF i = 0 THEN [w |-> w, go |-> TRUE] ELSE DrainStep(at[i - 1], e, held[i])
  IN at

Drained(w, e) == IF w.eng[e] = "down" THEN w ELSE DrainSteps(w, e)[Len(w.queue[e])].w

Finish(w, e, r, st) == IF Here(w, e, r) THEN Drained(Settled(w, e, r, st), e) ELSE w
Fail(w, e, r) ==
  LET s == Failed(w, e, r) IN IF Here(w, e, r) /\ Owned(w, e, r) /\ ~Here(s, e, r) THEN Drained(s, e) ELSE s
Launch(w, e, r) ==
  LET s == Launched(w, e, r) IN IF Owned(w, e, r) /\ ~Here(s, e, r) THEN Drained(s, e) ELSE s

\* cancelQueued
QueueCancelled(w, e) ==
  Each(w, e, [r \in {q \in Runs : w.rt[e][q].ph = "queued"} |-> Settled(w, e, r, "cancelled")])

-----------------------------------------------------------------------------
(* The clock *)

\* armCron
Armed(w, e) ==
  IF w.eng[e] = "down" \/ (w.eng[e] = "clock" /\ w.sched.kind # "dispatch") THEN w
  ELSE [w EXCEPT !.timer[e] = w.sched.next, !.cut = @ \ {e}]

\* The end of a firing, after the launch it awaited.
Rearmed(w, e) ==
  IF w.sched.live /\ w.sched.on THEN Armed(w, e) ELSE [w EXCEPT !.cut = @ \cup {e}]

\* Mutant of Received: the receipt is stored, the cursor is not.
ReceivedOnly(w, e, r, ph, tick, early, next) ==
  [w EXCEPT !.row[r] = [NoRow EXCEPT !.st = IF ph = "skipped" THEN "skipped" ELSE "pending",
                                     !.ph = IF ph = "skipped" THEN "none" ELSE ph,
                                     !.own = IF ph = "skipped" THEN None ELSE e,
                                     !.rev = w.sched.rev, !.tick = tick, !.early = early],
            !.rt[e][r] = IF ph = "skipped" THEN NoRun ELSE [NoRun EXCEPT !.ph = ph],
            !.queue[e] = IF ph = "queued" THEN Append(@, r) ELSE @]

\* createRuntime and persistSkipped: for an occurrence the receipt and the cursor
\* are one transaction (acceptCronRun).
Received(w, e, r, ph, tick, early, next) ==
  [w EXCEPT !.row[r] = [NoRow EXCEPT !.st = IF ph = "skipped" THEN "skipped" ELSE "pending",
                                     !.ph = IF ph = "skipped" THEN "none" ELSE ph,
                                     !.own = IF ph = "skipped" THEN None ELSE e,
                                     !.rev = w.sched.rev, !.tick = tick, !.early = early],
            !.sched.next = next,
            !.rt[e][r] = IF ph = "skipped" THEN NoRun ELSE [NoRun EXCEPT !.ph = ph],
            !.queue[e] = IF ph = "queued" THEN Append(@, r) ELSE @]

ActiveRows(w) == {r \in Runs : w.row[r].st \in Active}

\* launchRun, once admitted.
Accepted(w, e, r, tick, early, next) ==
  LET busy == HasActive(w, e)
      take(ph) == Received(w, e, r, ph, tick, early, next)
  IN IF \/ w.sched.kind = "dispatch" /\ Cardinality(ActiveRows(w)) >= Cap
        \/ busy /\ w.sched.overlap = "skip"
       THEN Emitted(take("skipped"), e, r)
     ELSE IF busy /\ w.sched.overlap = "queue" THEN take("queued")
     ELSE Launch(take("launching"), e, r)

Expired(w) == w.sched.kind = "dispatch" /\ w.sched.expires <= now

\* update with enabled = FALSE
Disabled(w, e) ==
  QueueCancelled([w EXCEPT !.sched.on = FALSE, !.sched.next = 0, !.timer[e] = 0, !.cut = @ \cup {e}], e)

Denied(w, e) == w.eng[e] = "offline" /\ w.sched.kind # "dispatch"

\* Mutant of Cursor: a late timer skips the occurrences it slept over.
CursorPastNow(w, down) == NextTick(now)

\* Every occurrence of a clock that kept running is owed, so the cursor of a dispatch
\* moves by one; after a time without process (down), and for all other schedules, it
\* moves past now.
Cursor(w, down) ==
  IF w.sched.kind = "dispatch" /\ ~down THEN w.sched.next + 2 ELSE NextTick(now)

\* One turn of the loop in onCronFire.
Fired(w, e, down) ==
  LET s == [w EXCEPT !.timer[e] = 0]
      tick == s.sched.next
      next == Cursor(s, down)
      r == Min(Fresh(s))
      f == Accepted(s, e, r, tick, now < tick, next)
      a == f.row[r].att
  IN IF ~s.sched.live \/ ~s.sched.on THEN [s EXCEPT !.cut = @ \cup {e}]
     ELSE IF tick > now + 1 THEN Armed(s, e)
     ELSE IF Expired(s) THEN Rearmed(Disabled(s, e), e)
     ELSE IF Denied(s, e) THEN Armed([s EXCEPT !.sched.next = next], e)
     ELSE IF a # 0 /\ f.work[r][a].st = "creating"
            THEN [f EXCEPT !.work[r][a].arm = TRUE]
            ELSE Rearmed(f, e)

\* restoreCron: occurrences missed while the process was down are caught up once or
\* skipped; a clock that was handed over live owes them all.
Restored(w, e, live) ==
  IF ~w.sched.live \/ ~w.sched.on \/ (w.eng[e] = "clock" /\ w.sched.kind # "dispatch")
    THEN [w EXCEPT !.cut = IF w.sched.live /\ w.sched.on THEN @ ELSE @ \cup {e}]
  ELSE IF w.sched.next <= now
    THEN IF ~live /\ ~w.sched.catchUp THEN Armed([w EXCEPT !.sched.next = NextTick(now)], e)
         ELSE IF Fresh(w) = {} THEN Armed(w, e)    \* the bound on runs
         ELSE Fired(w, e, ~live)
  ELSE Armed(w, e)

-----------------------------------------------------------------------------
(* Runs without an owner *)

\* claimRun: a released run, or one whose owner's lease has run out.
Claimable(w, e, r) == w.row[r].own \in {None, e} \/ w.row[r].lapsed

Claimed(w, e, r) ==
  LET ep == w.row[r].ep + (IF w.row[r].own = e THEN 0 ELSE 1)
  IN [w EXCEPT !.row[r] = [@ EXCEPT !.own = e, !.ep = ep, !.lapsed = FALSE],
               !.rt[e][r] = [NoRun EXCEPT !.ep = ep]]

\* The workflow a run row names, or the newest one whose metadata name the run.
Workflow(w, r) ==
  LET known == {a \in DOMAIN w.work[r] : w.work[r][a].st # "none"}
  IN IF w.sched.kind # "workflow" THEN 0
     ELSE IF w.row[r].wf # 0 THEN w.row[r].wf
     ELSE IF known = {} THEN 0 ELSE Max(known)

Outcome(st) == CASE st = "completed" -> "success" [] OTHER -> st

Object(w, e, r, ph, a) == [w EXCEPT !.rt[e][r] = [@ EXCEPT !.ph = ph, !.map = a]]

\* A claimed run that is not continued: finishRecoveredRun and the audit of the rest.
Closed(w, e, r, st) == Settled(Object(w, e, r, "running", 0), e, r, st)

Adopted(w, e, r) ==
  LET c == Claimed(w, e, r)
      a == Workflow(c, r)
      st == c.work[r][a].st
  IN CASE c.sched.kind = "dispatch" ->
            IF c.row[r].ph = "queued"
              THEN [Object(c, e, r, "queued", 0) EXCEPT !.queue[e] = Append(@, r)]
              ELSE Running(Object(c, e, r, "running", 0), e, r, 0)
       [] c.sched.kind # "dispatch" /\ c.row[r].ph = "retry_wait" -> Object(c, e, r, "retry_wait", 0)
       [] c.sched.kind # "dispatch" /\ c.row[r].ph # "retry_wait" /\ a # 0 ->
            (CASE st \in Doing -> Running(c, e, r, a)
               [] st = "failed" -> Fail(Object(c, e, r, "running", a), e, r)
               [] OTHER -> Closed(c, e, r, Outcome(st)))
       [] OTHER -> Closed(c, e, r, IF c.row[r].st = "running" THEN "failed" ELSE "cancelled")

\* reconcileOrphanedRuns, one run after the other.
ReconcileStep(w, e, r) ==
  IF /\ r \in ActiveRows(w) /\ ~Here(w, e, r) /\ Claimable(w, e, r)
     /\ (w.eng[e] = "clock" => w.sched.kind = "dispatch")
    THEN Adopted(w, e, r)
    ELSE w

ReconcileSteps(w, e) ==
  LET at[r \in 0..MaxRuns] == IF r = 0 THEN w ELSE ReconcileStep(at[r - 1], e, r) IN at

Reconciled(w, e) == Drained(ReconcileSteps(w, e)[MaxRuns], e)

\* renewRunLeases
Renewed(w, e) == Each(w, e, [r \in Objects(w, e) |-> Checked(w, e, r)])

\* The executions an engine leaves behind: sessions end with it, workflows wait for
\* an engine that recovers them.
Left(w, e) ==
  LET left(x) == IF x.host # e THEN x
                 ELSE IF w.sched.kind = "workflow" THEN [x EXCEPT !.host = None]
                 ELSE [x EXCEPT !.st = IF @ \in Doing THEN "gone" ELSE @, !.open = FALSE, !.arm = FALSE]
  IN [w EXCEPT !.work = [r \in Runs |-> [a \in DOMAIN w.work[r] |-> left(w.work[r][a])]]]

\* retireRuntime
RetiredRun(w, e, r) ==
  IF \/ w.sched.kind = "dispatch" \/ w.rt[e][r].ph = "retry_wait"
     \/ w.sched.kind = "workflow" /\ w.rt[e][r].map # 0
    THEN Forget(Released(w, e, r), e, r)
  ELSE IF w.rt[e][r].ph = "queued" THEN Settled(w, e, r, "cancelled")
  ELSE Settled(Stop(w, e, r), e, r, "failed")

\* dispose: every object is retired, and the timers end.
Retired(w, e) ==
  LET quiet == [w EXCEPT !.eng[e] = "down", !.timer[e] = 0, !.cut = @ \ {e}]
  IN Left(Each(quiet, e, [r \in Objects(w, e) |-> RetiredRun(quiet, e, r)]), e)

\* Mutant of Replayed: what was lost with the socket is not told again.
ReplayedNothing(w, e) == w

\* replayUnacked
Replayed(w, e) ==
  [w EXCEPT !.told = @ \cup {<<e, r>> : r \in {q \in Runs : w.row[q].st \in Terminal /\ ~w.row[q].acked}}]

-----------------------------------------------------------------------------
(* Time *)

Tick ==
  /\ now <= 2 * sched.last
  /\ now' = now + 1
  /\ owed' = IF /\ now' % 2 = 0
                /\ \E e \in Engines : timer[e] # 0
                /\ sched.kind = "dispatch" /\ sched.on /\ sched.live /\ now' < sched.expires
             THEN owed \cup {now'}
             ELSE owed
  /\ UNCHANGED <<sched, row, eng, timer, rt, queue, work, told, cut, blamed, strayed, calls>>

\* An occurrence is owed no more once the server, a failure or a cold start intervenes.
Step(w) ==
  /\ UNCHANGED now
  /\ Becomes(w)
  /\ owed' = IF sched'.on /\ sched'.live THEN owed ELSE {}

Free(w) == UNCHANGED <<strayed, calls>> /\ Step(w)

Call(w) ==
  /\ calls > 0
  /\ calls' = calls - 1
  /\ UNCHANGED <<now, strayed>>
  /\ Becomes(w)
  /\ owed' = {}

Alive(e) == eng[e] \notin {"down", "absent"}

\* The timer's callback.
Due(e) == Alive(e) /\ timer[e] # 0 /\ timer[e] <= now + 1 /\ Fresh(World) # {}

Fire(e) == Due(e) /\ Free(Fired(World, e, FALSE))

Admitted(e) ==
  /\ Due(e) /\ sched.live /\ sched.on /\ sched.next <= now + 1
  /\ ~Expired(World) /\ ~Denied(World, e)

\* The store refuses the receipt: the firing ends and nothing arms the timer again.
FireFails(e) ==
  /\ Admitted(e)
  /\ Call([World EXCEPT !.timer[e] = 0, !.cut = @ \cup {e}])

-----------------------------------------------------------------------------
(* Executions *)

\* Mutant of LaunchOver: the firing ends without arming the timer.
LaunchOverUnarmed(w, e, r, a) ==
  IF w.work[r][a].arm THEN [w EXCEPT !.work[r][a].arm = FALSE] ELSE w

\* The end of the launch that a firing awaited.
LaunchOver(w, e, r, a) ==
  IF w.work[r][a].arm THEN Rearmed([w EXCEPT !.work[r][a].arm = FALSE], e) ELSE w

\* The session exists: its run may be gone by now.
Created(e, r, a) ==
  /\ work[r][a].st = "creating" /\ work[r][a].host = e
  /\ \E w \in {World} :
       Free(IF Here(w, e, r)
              THEN Running([w EXCEPT !.work[r][a].st = "alive", !.work[r][a].open = TRUE], e, r, a)
              ELSE LaunchOver([w EXCEPT !.work[r][a].st = "gone"], e, r, a))

CreateFails(e, r, a) ==
  /\ work[r][a].st = "creating" /\ work[r][a].host = e
  /\ Call(LaunchOver(Fail([World EXCEPT !.work[r][a].st = "gone"], e, r), e, r, a))

\* send returns; the session may have ended, or been interrupted, before that.
Sent(e, r, a) ==
  /\ work[r][a].open /\ work[r][a].host = e
  /\ \E w \in {[World EXCEPT !.work[r][a].open = FALSE]} : Free(LaunchOver(w, e, r, a))

\* The catch block looks at the run, not at the attempt whose prompt was refused.
SendFails(e, r, a) ==
  /\ work[r][a].open /\ work[r][a].host = e
  /\ LET st == IF work[r][a].st = "alive" THEN "gone" ELSE work[r][a].st
         s == [World EXCEPT !.work[r][a] = [@ EXCEPT !.open = FALSE, !.st = st],
                            !.blamed = IF row[r].own = e /\ a # row[r].att THEN @ \cup {r} ELSE @]
     IN Call(LaunchOver(Fail(s, e, r), e, r, a))

RetryDue(e, r) ==
  /\ Alive(e) /\ rt[e][r].ph = "retry_wait"
  /\ \E w \in {World} : Free(Launch(w, e, r))

\* onStreamEvent and onWorkflowEvent: only the scheduler beside the engine that
\* executes hears of the end, and only a mapped run is concerned.
Heard(w, e, r, a, st) ==
  IF ~Here(w, e, r) \/ w.rt[e][r].map # a THEN w
  ELSE IF ~Owned(w, e, r) THEN Checked(w, e, r)
  ELSE IF st = "failed" THEN Fail(w, e, r)
  ELSE Finish(w, e, r, Outcome(st))

WorkEnds(e, r, a, st) ==
  /\ work[r][a].st = "alive" /\ work[r][a].host = e
  /\ sched.kind = "session" => st \in {"completed", "failed"}
  /\ UNCHANGED calls
  /\ strayed' = (strayed \/ (row[r].st \in Active /\ ~Owned(World, e, r)))
  /\ \E w \in {[World EXCEPT !.work[r][a].st = st]} : Step(Heard(w, e, r, a, st))

\* The workflow engine of a connection takes over a workflow nobody executes.
WorkflowRecovers(e, r, a) ==
  /\ eng[e] \in {"up", "offline"}
  /\ work[r][a].st = "alive" /\ work[r][a].host = None
  /\ Free([World EXCEPT !.work[r][a].host = e])

-----------------------------------------------------------------------------
(* Leases *)

\* The lease timer: renewRunLeases, then reconcileOrphanedRuns.
Settling(e) ==
  \/ \E r \in Runs : IF Here(World, e, r) THEN ~Owned(World, e, r) \/ row[r].lapsed
                     ELSE row[r].st \in Active /\ Claimable(World, e, r)
  \/ queue[e] # <<>> /\ ~HasActive(World, e)

Reconcile(e) ==
  /\ Alive(e) /\ Settling(e)
  /\ \E s \in {Renewed(World, e)} : \E w \in {Reconciled(s, e)} : w # World /\ Free(w)

RunsOut(r) ==
  /\ row[r].own = Gone /\ ~row[r].lapsed
  /\ Free([World EXCEPT !.row[r].lapsed = TRUE])

Lapse(r) ==
  /\ row[r].own \in Engines /\ ~row[r].lapsed
  /\ calls > 0 /\ calls' = calls - 1
  /\ strayed' = TRUE
  /\ Step([World EXCEPT !.row[r].lapsed = TRUE])

-----------------------------------------------------------------------------
(* Lives of an engine *)

\* startDispatchClock, before every attempt to connect.
StartClock(e) ==
  /\ eng[e] = "down"
  /\ UNCHANGED <<now, strayed, calls>>
  /\ \E w \in {Reconciled([World EXCEPT !.eng[e] = "clock"], e)} : Becomes(Restored(w, e, FALSE))
  /\ owed' = {}

\* handoffDispatchClock, then start and replayUnacked of the connection's scheduler.
Connect(e) ==
  /\ eng[e] = "clock"
  /\ \E s \in {[Retired(World, e) EXCEPT !.eng[e] = "up"]} : \E w \in {Reconciled(s, e)} :
       \E q \in {Restored(w, e, sched.kind = "dispatch")} : Free(Replayed(q, e))

SocketLost(e) ==
  /\ eng[e] = "up"
  /\ calls > 0 /\ calls' = calls - 1
  /\ Step([World EXCEPT !.eng[e] = "offline", !.told = {n \in @ : n[1] # e}])
  /\ UNCHANGED strayed

\* transportReconnected
Reconnect(e) ==
  /\ eng[e] = "offline"
  /\ LET due == sched.kind = "dispatch" /\ sched.live /\ sched.on /\ sched.next <= now
     IN \E s \in {[World EXCEPT !.eng[e] = "up"]} :
          \E w \in {IF due /\ Fresh(s) # {} THEN Fired(s, e, FALSE) ELSE s} : Free(Replayed(w, e))

\* The client is closed, or the connection fails before it is published.
Dispose(e) ==
  /\ eng[e] \in {"up", "offline"}
  /\ Call([Retired(World, e) EXCEPT !.told = {n \in @ : n[1] # e}])

Dead(w, e) ==
  LET s == [Left(w, e) EXCEPT !.eng[e] = "down", !.timer[e] = 0, !.queue[e] = <<>>,
                              !.rt[e] = [r \in Runs |-> NoRun], !.cut = @ \ {e},
                              !.told = {n \in @ : n[1] # e}]
  IN [s EXCEPT !.row = [r \in Runs |-> IF s.row[r].own = e THEN [s.row[r] EXCEPT !.own = Gone] ELSE s.row[r]]]

Crash(e) == Alive(e) /\ Call(Dead(World, e))

\* The process dies between the record of an attempt and its workflow, or just after.
DiesLaunching(w, e, r, made) ==
  LET s == Attempted(w, e, r)
      a == s.row[r].att
  IN Dead(IF made THEN [s EXCEPT !.work[r][a] = [NoWork EXCEPT !.st = "alive", !.host = e]] ELSE s, e)

CrashInLaunch(e, made) ==
  /\ sched.kind = "workflow"
  /\ \/ /\ Admitted(e) /\ ~HasActive(World, e)
        /\ LET r == Min(Fresh(World))
           IN Call(DiesLaunching(Received(World, e, r, "launching", sched.next, now < sched.next, NextTick(now)),
                                 e, r, made))
     \/ /\ sched.live /\ sched.on
        /\ \E r \in Runs : /\ rt[e][r].ph = "retry_wait" /\ Owned(World, e, r)
                           /\ Call(DiesLaunching(World, e, r, made))

-----------------------------------------------------------------------------
(* Requests of the server *)

Trigger(e) ==
  /\ eng[e] = "up" /\ sched.live /\ sched.on /\ Fresh(World) # {}
  /\ Call(IF Expired(World) THEN Disabled(World, e)
          ELSE Accepted(World, e, Min(Fresh(World)), 0, FALSE, sched.next))

\* The timers of other engines stay as they are.
Update(e, on, overlap, redefine) ==
  /\ eng[e] = "up" /\ sched.live
  /\ redefine => sched.kind = "dispatch"
  /\ LET s == [World EXCEPT !.sched.on = on, !.sched.overlap = overlap,
                            !.sched.rev = IF redefine THEN @ + 1 ELSE @,
                            !.sched.next = IF on THEN NextTick(now) ELSE 0,
                            !.timer[e] = 0, !.cut = Engines]
         q == IF on /\ overlap = "queue" THEN s ELSE QueueCancelled(s, e)
     IN Call(IF on THEN Armed(q, e) ELSE q)

Delete(e) ==
  /\ eng[e] = "up" /\ sched.live
  /\ LET s == Each(World, e, [r \in Objects(World, e) |->
                               Settled(Stop(World, e, r), e, r, "cancelled")])
     IN Call([s EXCEPT !.timer[e] = 0, !.sched.live = FALSE])

\* cancel, and the timer of armRunTimeout.
Ended(w, e, r, st) == IF Owned(w, e, r) THEN Finish(Stop(w, e, r), e, r, st) ELSE Checked(w, e, r)

Cancel(e, r) == eng[e] = "up" /\ Here(World, e, r) /\ Call(Ended(World, e, r, "cancelled"))

TimesOut(e, r) ==
  /\ Alive(e) /\ sched.kind # "dispatch" /\ rt[e][r].ph = "running"
  /\ Call(Ended(World, e, r, "timeout"))

\* resolve: a run that is still held back can only be cancelled.
Resolve(e, r) ==
  /\ eng[e] = "up" /\ sched.kind = "dispatch" /\ Here(World, e, r)
  /\ \E w \in {World} : Free(Ended(w, e, r, IF rt[e][r].ph = "queued" THEN "cancelled" ELSE "success"))

Ack(e, r) ==
  /\ <<e, r>> \in told /\ eng[e] = "up"
  /\ Free([World EXCEPT !.row[r].acked = TRUE, !.told = @ \ {<<e, r>>}])

-----------------------------------------------------------------------------
Init ==
  /\ now = 0 /\ owed = {} /\ strayed = FALSE
  /\ \E s \in Schedules :
       /\ calls = s.budget
       /\ eng = [e \in Engines |-> IF e \in s.engines THEN "down" ELSE "absent"]
       /\ sched = [live |-> TRUE, on |-> TRUE, kind |-> s.kind, overlap |-> s.overlap, tries |-> s.tries,
                   catchUp |-> s.catchUp, expires |-> s.expires, rev |-> 0, next |-> 2,
                   last |-> s.last, runs |-> s.runs]
  /\ row = [r \in Runs |-> NoRow]
  /\ timer = [e \in Engines |-> 0]
  /\ rt = [e \in Engines |-> [r \in Runs |-> NoRun]]
  /\ queue = [e \in Engines |-> <<>>]
  /\ work = [r \in Runs |-> [a \in Attempts |-> NoWork]]
  /\ told = {} /\ cut = {} /\ blamed = {}

\* What happens by itself: timers of the leases and retries, awaits that return,
\* executions that end, the device reconnects, the server answers.
Work ==
  \/ \E r \in Runs : RunsOut(r)
  \/ \E e \in Engines, r \in Runs : RetryDue(e, r) \/ Ack(e, r) \/ Resolve(e, r)
  \/ \E e \in Engines, r \in Runs, a \in Attempts : Created(e, r, a) \/ Sent(e, r, a) \/ WorkflowRecovers(e, r, a)
  \/ \E e \in Engines, r \in Runs, a \in Attempts, st \in Endings : WorkEnds(e, r, a, st)
  \/ \E e \in Engines : StartClock(e) \/ Connect(e) \/ Reconnect(e) \/ Reconcile(e)

Next ==
  \/ Work
  \/ Tick
  \/ \E e \in Engines : Fire(e) \/ FireFails(e) \/ SocketLost(e) \/ Dispose(e) \/ Crash(e) \/ Trigger(e) \/ Delete(e)
  \/ \E e \in Engines, made \in BOOLEAN : CrashInLaunch(e, made)
  \/ \E e \in Engines, on, redefine \in BOOLEAN, overlap \in Overlaps : Update(e, on, overlap, redefine)
  \/ \E r \in Runs : Lapse(r)
  \/ \E e \in Engines, r \in Runs : Cancel(e, r) \/ TimesOut(e, r)
  \/ \E e \in Engines, r \in Runs, a \in Attempts : CreateFails(e, r, a) \/ SendFails(e, r, a)

Spec == Init /\ [][Next]_vars

-----------------------------------------------------------------------------
(* Properties *)

\* An occurrence of the cron expression becomes at most one run, whatever engines,
\* catch-ups, reconnections and handovers fire it (the receipt and the cursor are
\* one transaction); except when a timer fired in the second before it was due.
OccurrenceOnce ==
  \A r, q \in Runs : r < q /\ row[r].tick # 0 /\ row[r].tick = row[q].tick => row[r].early

\* An occurrence of a dispatch that became due while an engine kept the clock is
\* recorded or still to be: the handover to a connection, a lost socket and late
\* timers lose none.
TicksAreOwed ==
  \A t \in owed : sched.next <= t \/ \E r \in Runs : row[r].tick = t

\* A run that ended keeps its outcome: no late answer, lease or takeover changes it.
SettledStays == [][\A r \in Runs : row[r].st \in Terminal => row'[r].st = row[r].st]_vars

\* A run never has two executions under way; except when the prompt of an attempt that
\* had ended was refused so late that the refusal failed the attempt after it.
OneExecution ==
  \A r \in Runs \ blamed : \A a, b \in DOMAIN work[r] :
    work[r][a].st \in Doing /\ work[r][b].st \in Doing => a = b

\* The engines whose clock is for this schedule, and those of them that await the launch
\* their firing started.
Serving == {e \in Engines : Alive(e) /\ (eng[e] = "clock" => sched.kind = "dispatch")}
Awaits(e) == \E r \in Runs, a \in Attempts :
  work[r][a].host = e /\ work[r][a].arm /\ (work[r][a].st = "creating" \/ work[r][a].open)

\* An engine that serves the enabled schedule wakes no later than the next occurrence, or
\* awaits the launch its firing started (armCron at the end of every firing and of every
\* launch it awaited), with the three exceptions of cut: the store refused the receipt of
\* its last firing, and onCronFire threw before it armed the timer; that firing found the
\* schedule disabled; or another engine served the update of the schedule, which arms the
\* timer of that engine only.
ClockRuns ==
  sched.live /\ sched.on =>
    \A e \in Serving \ cut : Awaits(e) \/ (timer[e] # 0 /\ timer[e] <= sched.next)

\* While the process is up every due tick of a dispatch is accepted, so some living engine
\* has a timer for the next one, or awaits a launch: what L4_SCHEDULING.md says of the
\* retained clock. No engine has one after the store refused a receipt.
ClockNeverStops ==
  sched.live /\ sched.on /\ Serving # {} =>
    \E e \in Serving : Awaits(e) \/ (timer[e] # 0 /\ timer[e] <= sched.next)

\* No run is forgotten: once nothing is left that happens by itself (engines connected,
\* no retry, lease or await outstanding, no execution under way, no notice in flight),
\* every run has ended and the server has acknowledged its end; unless an engine lost
\* a lease while it lived, or a run's workflow executed beside an engine that does
\* not own the run.
Quiet ==
  /\ told = {}
  /\ \A e \in Engines : eng[e] \in {"up", "absent"}
  /\ \A r \in Runs : row[r].own = Gone => row[r].lapsed
  /\ \A e \in Serving : ~Settling(e) /\ \A r \in Runs : /\ rt[e][r].ph # "retry_wait"
                                                        /\ sched.kind = "dispatch" => ~Here(World, e, r)
  /\ \A r \in Runs, a \in Attempts : ~work[r][a].open /\ work[r][a].st \notin Doing

NoneForgotten == Quiet /\ ~strayed => \A r \in Runs : row[r].st # "none" => row[r].acked
=============================================================================
