------------------------ MODULE WorkflowEngine_proofs ------------------------
(***************************************************************************)
(* What the lease of a workflow guarantees, for any plan, any number of    *)
(* engines and run objects, and any interleaving of controls, disposals,   *)
(* crashes and lapses of the lease: at most one execution passes the       *)
(* fence, a lease that is held is worked for, a terminal state is left by  *)
(* a resume only, and a turn is sent only while the store says that the    *)
(* workflow runs under the sender's lease.  All of it holds until an old   *)
(* run object is written over a newer checkpoint, which the variable       *)
(* overwritten records: by a session creation that outlasted a pause and   *)
(* a resume, or by the registration of an artifact.                        *)
(*                                                                         *)
(* The proof follows who may write the row.  Every action is one of a few  *)
(* kinds: a step of one object under an unchanged lease (KeepsLease), a    *)
(* release (Releases), a new object under a lease just granted (Grants) or *)
(* granted and given back (GrantsBriefly); the rest ends an engine.        *)
(*                                                                         *)
(* The second half proves that nothing the checkpoint records as done is   *)
(* lost or done again.  First what the synchronous code does to an object: *)
(* it goes on from where the object stood (Onward).  Then what a step does *)
(* to the row: it is left alone (Fades), written by the owner whose object *)
(* agreed with it (Writes), or given back by one that has stopped (Frees). *)
(***************************************************************************)
EXTENDS WorkflowEngine, WellFoundedInduction, TLAPS

Same(p, o) == /\ DOMAIN p = Fields
              /\ p.eng = o.eng /\ p.epoch = o.epoch /\ p.open = o.open
              /\ p.status = o.status /\ p.fin = o.fin

\* The executor of the object is at its end, and no finalizer is at work.
Quiet(o) == o.pc = "over" /\ o.task = Idle /\ ~o.fin

Heads == {"batch", "review", "closing", "done", "fail"}

\* Nothing is being sent: the nodes of a new batch are being created.
Ahead(p) == p.pc \in Heads /\ \A n \in Nodes : p.task[n] # "send"

Shaped(o) == /\ DOMAIN o = Fields
             /\ o.eng \in Engines /\ o.epoch \in Nat
             /\ o.open \in BOOLEAN /\ o.fin \in BOOLEAN
             /\ o.status \in {"running", "paused"} \cup Terminal
             /\ o.pc \in {"batch", "review", "closing", "over"}
             /\ o.pc \in {"batch", "closing"} => o.status = "running"

-----------------------------------------------------------------------------
(***************************************************************************)
(* What the synchronous code between two awaits does to an object: it      *)
(* stays with its engine and lease, and is at a loop head.                 *)
(***************************************************************************)
LEMMA BeginSame ==
  ASSUME NEW o, DOMAIN o = Fields, NEW S
  PROVE  Same(Begin(o, S), o) /\ Ahead(Begin(o, S))
BY DEF Same, Begin, Fields, Ahead, Heads

\* An object that goes to another place in the code keeps its engine and lease.
LEMMA AtSame ==
  ASSUME NEW o, DOMAIN o = Fields, NEW pc
  PROVE  Same(At(o, pc), o) /\ At(o, pc).pc = pc /\ (pc \in Heads => Ahead(At(o, pc)))
BY DEF Same, At, Fields, Ahead, Idle

\* To keep one's engine and lease is transitive.
LEMMA SameTransitive ==
  ASSUME NEW o, NEW p, NEW q, Same(p, o), Same(q, p)
  PROVE  Same(q, o)
BY DEF Same

\* A new batch starts with the creation of its nodes' sessions.
LEMMA NextBatchHeads ==
  ASSUME NEW o, DOMAIN o = Fields, NEW p \in NextBatch(o)
  PROVE  Same(p, o) /\ Ahead(p)
<1>1. PICK B \in Batches(o.todo) : p = [Begin(o, B) EXCEPT !.todo = o.todo \ B]
  BY DEF NextBatch
<1>2. Same(Begin(o, B), o) /\ Ahead(Begin(o, B))
  BY BeginSame
<1> QED
  BY <1>1, <1>2 DEF Same, Fields, Ahead, Begin

\* A round of executeDag ends at a loop head.
LEMMA DagHeads ==
  ASSUME NEW o, DOMAIN o = Fields, NEW p \in DagRound(o)
  PROVE  Same(p, o) /\ Ahead(p)
<1> DEFINE skipped == IF Runnable(o.nodes) = {} THEN Nodes \ Settled(o.nodes) ELSE ToSkip(o.nodes)
           q == [o EXCEPT !.nodes = [n \in Nodes |-> IF n \in skipped THEN "skipped" ELSE @[n]],
                          !.todo = Runnable(o.nodes)]
<1>1. Same(q, o) /\ DOMAIN q = Fields
  BY DEF Same, Fields
<1>2. p \in (IF q.todo = {} THEN {At(q, "done")} ELSE NextBatch(q))
  BY DEF DagRound
<1> HIDE DEF q
<1>3. CASE p = At(q, "done")
  BY <1>1, <1>3, AtSame, SameTransitive DEF Heads
<1>4. CASE p \in NextBatch(q)
  BY <1>1, <1>4, NextBatchHeads, SameTransitive DEF Heads
<1> QED
  BY <1>2, <1>3, <1>4

\* A round of executeGraph ends at a loop head.
LEMMA GraphHeads ==
  ASSUME NEW o, DOMAIN o = Fields
  PROVE  Same(GraphRound(o), o) /\ Ahead(GraphRound(o))
<1>1. \A p, S : DOMAIN p = Fields /\ Same(p, o) => Same(Begin(p, S), o) /\ Ahead(Begin(p, S))
  BY BeginSame, SameTransitive DEF Heads
<1>2. \A pc \in Heads : Same(At(o, pc), o) /\ Ahead(At(o, pc))
  BY AtSame
<1>3. Same(o, o)
  BY DEF Same
<1> DEFINE q == [o EXCEPT !.cursor = [Cursor0 EXCEPT !.round = o.cursor.round + 1]]
<1>4. DOMAIN q = Fields /\ Same(q, o)
  BY DEF Same, Fields
<1>5. \/ \E S : GraphRound(o) = Begin(o, S) \/ GraphRound(o) = Begin(q, S)
      \/ \E pc \in Heads : GraphRound(o) = At(o, pc)
  BY DEF GraphRound, Heads
<1> HIDE DEF q
<1> QED
  BY <1>1, <1>2, <1>3, <1>4, <1>5

\* A round of executeDiscussion ends at a loop head.
LEMMA DiscussionHeads ==
  ASSUME NEW o, DOMAIN o = Fields, NEW p \in DiscussionRound(o)
  PROVE  Same(p, o) /\ Ahead(p)
<1>1. \A q, S : DOMAIN q = Fields /\ Same(q, o) => Same(Begin(q, S), o) /\ Ahead(Begin(q, S))
  BY BeginSame, SameTransitive DEF Heads
<1> DEFINE chairman == [o EXCEPT !.cursor.phase = "chairman"]
           next == [o EXCEPT !.cursor = [Cursor0 EXCEPT !.round = o.cursor.round + 1]]
<1>2. /\ DOMAIN o = Fields /\ Same(o, o)
      /\ DOMAIN chairman = Fields /\ Same(chairman, o)
      /\ DOMAIN next = Fields /\ Same(next, o)
  BY DEF Same, Fields
<1>3. \/ \E S : p = Begin(o, S) \/ p = Begin(chairman, S) \/ p = Begin(next, S)
      \/ p = At(chairman, "closing")
  <2> DEFINE verdict == o.cursor.verdict
  <2>1. CASE o.cursor.phase = "participants" /\ Others \ o.cursor.spoke # {}
    BY <2>1 DEF DiscussionRound
  <2>2. CASE ~ (o.cursor.phase = "participants" /\ Others \ o.cursor.spoke # {})
    <3>1. CASE verdict = "none"
      BY <2>2, <3>1 DEF DiscussionRound
    <3>2. CASE verdict # "none" /\ (verdict = "end" \/ o.cursor.round >= plan.rounds)
      BY <2>2, <3>2 DEF DiscussionRound
    <3>3. CASE verdict # "none" /\ ~(verdict = "end" \/ o.cursor.round >= plan.rounds)
      BY <2>2, <3>3 DEF DiscussionRound
    <3> QED
      BY <3>1, <3>2, <3>3
  <2> QED
    BY <2>1, <2>2
<1>4. Same(At(chairman, "closing"), o) /\ Ahead(At(chairman, "closing"))
  <2> HIDE DEF chairman
  <2> QED
    BY <1>2, AtSame, SameTransitive DEF Heads
<1> HIDE DEF chairman, next
<1> QED
  BY <1>1, <1>2, <1>3, <1>4

\* Whatever the mode, a round ends at a loop head.
LEMMA ProceedHeads ==
  ASSUME plan \in Plans, NEW o, DOMAIN o = Fields, NEW p \in Proceed(o)
  PROVE  Same(p, o) /\ Ahead(p)
<1>1. plan.mode \in {"dag", "graph", "discussion"}
  BY PlanAssumption
<1>2. CASE plan.mode = "dag"
  BY <1>2, DagHeads DEF Proceed
<1>3. CASE plan.mode = "graph"
  BY <1>3, GraphHeads DEF Proceed
<1>4. CASE plan.mode = "discussion"
  BY <1>4, DiscussionHeads DEF Proceed
<1> QED
  BY <1>1, <1>2, <1>3, <1>4

\* The lead's decision is followed up to a loop head.
LEMMA DecidedHeads ==
  ASSUME NEW o, DOMAIN o = Fields, NEW dirs
  PROVE  Same(Decided(o, dirs), o) /\ Ahead(Decided(o, dirs))
<1> DEFINE p == [o EXCEPT !.cursor.phase = "directives", !.cursor.dirs = dirs]
<1>1. DOMAIN p = Fields /\ Same(p, o)
  BY DEF Same, Fields
<1>2. Decided(o, dirs) = IF \E i \in DOMAIN dirs : dirs[i] = "done" THEN At(p, "closing")
                         ELSE IF dirs = <<>> THEN At(p, "fail") ELSE GraphRound(p)
  BY DEF Decided
<1> HIDE DEF p
<1>3. \A pc \in Heads : Same(At(p, pc), o) /\ Ahead(At(p, pc))
  BY <1>1, AtSame, SameTransitive
<1>4. Same(GraphRound(p), o) /\ Ahead(GraphRound(p))
  BY <1>1, GraphHeads, SameTransitive
<1> QED
  BY <1>2, <1>3, <1>4 DEF Heads

\* A target's report to the lead keeps its object's engine and lease.
LEMMA ReportedSame ==
  ASSUME NEW o, DOMAIN o = Fields, NEW d
  PROVE  /\ DOMAIN Handled(o, d) = Fields /\ Same(Handled(o, d), o) /\ Handled(o, d).pc = o.pc
         /\ DOMAIN Reported(o, d) = Fields /\ Same(Reported(o, d), o)
BY DEF Handled, Reported, Same, Fields

\* What follows a node's end in a graph or discussion ends at a loop head.
LEMMA AfterHeads ==
  ASSUME NEW o, DOMAIN o = Fields, NEW n, NEW ok, NEW p \in After(o, n, ok)
  PROVE  Same(p, o) /\ Ahead(p)
<1> DEFINE done == [o EXCEPT !.nodes[n] = IF ok THEN "completed" ELSE "failed", !.task = Idle]
<1>1. DOMAIN done = Fields /\ Same(done, o)
  BY DEF Same, Fields
<1>2. ASSUME NEW v
      PROVE  DOMAIN Judged(done, v) = Fields /\ Same(Judged(done, v), o)
  BY DEF Judged, Same, Fields
<1>3. \/ p = At(done, "fail")
      \/ \E dirs \in Decisions : p = Decided(done, dirs)
      \/ p = GraphRound(Reported(done, n))
      \/ \E v \in {"on", "end"} : p \in DiscussionRound(Judged(done, v))
  <2>1. CASE ~ok
    BY <2>1 DEF After
  <2>2. CASE ok /\ plan.mode = "discussion"
    <3>1. p \in UNION {DiscussionRound(Judged(done, v)) : v \in {"on", "end"}}
      BY <2>2 DEF After
    <3> QED
      BY <3>1
  <2>3. CASE ok /\ plan.mode # "discussion" /\ n = Lead
    BY <2>3 DEF After
  <2>4. CASE ok /\ plan.mode # "discussion" /\ n # Lead
    BY <2>4 DEF After
  <2> QED
    BY <2>1, <2>2, <2>3, <2>4
<1> HIDE DEF done
<1>4. CASE p = At(done, "fail")
  BY <1>1, <1>4, AtSame, SameTransitive DEF Heads
<1>5. ASSUME NEW dirs \in Decisions, p = Decided(done, dirs) PROVE Same(p, o) /\ Ahead(p)
  BY <1>1, <1>5, DecidedHeads, SameTransitive
<1>6. CASE p = GraphRound(Reported(done, n))
  <2>1. DOMAIN Reported(done, n) = Fields /\ Same(Reported(done, n), done)
    BY <1>1, ReportedSame
  <2>2. Same(p, Reported(done, n)) /\ Ahead(p)
    BY <1>6, <2>1, GraphHeads
  <2> QED
    BY <1>1, <2>1, <2>2, SameTransitive
<1>7. ASSUME NEW v, p \in DiscussionRound(Judged(done, v))
      PROVE  Same(p, o) /\ Ahead(p)
  <2>1. PICK q : q = Judged(done, v)
    OBVIOUS
  <2>2. DOMAIN q = Fields /\ Same(q, o) /\ p \in DiscussionRound(q)
    BY <1>2, <1>7, <2>1
  <2> QED
    BY <2>2, DiscussionHeads, SameTransitive
<1> QED
  BY <1>3, <1>4, <1>5, <1>6, <1>7

\* A speaker that ends beside others leaves its object where it is.
LEMMA JoinsSame ==
  ASSUME NEW o, DOMAIN o = Fields, NEW n, NEW ok, NEW p \in Joins(o, n, ok)
  PROVE  Same(p, o) /\ p.pc = o.pc
<1> DEFINE r == [o EXCEPT !.nodes[n] = IF ok THEN "completed" ELSE "failed"]
<1>1. DOMAIN r = Fields /\ Same(r, o) /\ r.pc = o.pc
  BY DEF Same, Fields
<1>2. \/ \E t : p = [r EXCEPT !.task[n] = t]
      \/ \E v : p = [Handled(r, n) EXCEPT !.task[n] = "ok", !.cursor.verdict = v]
  <2>1. CASE plan.mode = "dag"
    BY <2>1 DEF Joins
  <2>2. CASE plan.mode # "dag" /\ (ok \/ plan.policy = "continue")
    <3>1. p \in {[Handled(r, n) EXCEPT !.task[n] = "ok", !.cursor.verdict = v]
                   : v \in {r.cursor.verdict} \cup (IF ok THEN {"end"} ELSE {})}
      BY <2>2 DEF Joins
    <3> QED
      BY <3>1
  <2>3. CASE plan.mode # "dag" /\ ~ (ok \/ plan.policy = "continue")
    BY <2>3 DEF Joins
  <2> QED
    BY <2>1, <2>2, <2>3
<1> HIDE DEF r
<1>3. DOMAIN Handled(r, n) = Fields /\ Same(Handled(r, n), o) /\ Handled(r, n).pc = o.pc
  BY <1>1, ReportedSame, SameTransitive
<1> QED
  BY <1>1, <1>2, <1>3 DEF Same, Fields

\* What garbage collection takes away never acts again.
LEMMA ReapedQuiet ==
  ASSUME NEW ex, NEW rs
  PROVE  /\ DOMAIN Reaped(ex, rs) = Runs
         /\ \A x \in Runs : \/ Reaped(ex, rs)[x] = ex[x]
                            \/ /\ Reaped(ex, rs)[x] = Free
                               /\ ex[x] # Free /\ Quiet(ex[x])
                               /\ \A e \in Engines : rs[e] # x
BY DEF Reaped, Quiet

-----------------------------------------------------------------------------
(***************************************************************************)
(* The kinds of steps.  Object x becomes q; other objects stay or, quiet   *)
(* and forgotten, are collected.                                           *)
(***************************************************************************)
Collected(x, o) == exec'[x] = Free /\ Quiet(o) /\ \A e \in Engines : runs'[e] # x

Moves(x, q) ==
  /\ DOMAIN exec' = Runs
  /\ exec'[x] = q \/ Collected(x, q)
  /\ \A y \in Runs \ {x} : exec'[y] = exec[y] \/ (y \in Live /\ Collected(y, exec[y]))

\* A well-formed object is not a free slot.
LEMMA ShapedLive ==
  ASSUME NEW o, Shaped(o)
  PROVE  o # Free
BY PlanAssumption DEF Shaped, Free

\* A step of object x under a lease that does not change hands.
LEMMA KeepsLease ==
  ASSUME FenceInv, NEW x \in Live, NEW q, Moves(x, q), UNCHANGED <<plan, runs, up>>,
         Shaped(q), q.eng = exec[x].eng, q.epoch = exec[x].epoch,
         DOMAIN row' = DOMAIN row, row'.owner = row.owner, row'.epoch = row.epoch,
         row'.status # row.status => /\ row'.status # "none"
                                     /\ Owns(exec[x]) /\ runs[q.eng] = x,
         Owns(exec[x]) => /\ IF up[q.eng] = "down" THEN q.fin ELSE runs[q.eng] = x \/ Spent(q)
                          /\ runs[q.eng] = x \/ q.fin => row'.status = q.status
                          /\ up[q.eng] = "up" /\ q.status = "running" => q.open /\ q.pc # "over",
         exec[x].fin /\ row.owner = q.eng => q.fin,
         q.fin => /\ q.status \in Terminal
                  /\ up[q.eng] # "down" => runs[q.eng] = x
                  /\ row.owner = q.eng => Owns(exec[x]),
         exec[x].status \in Terminal => q.status = exec[x].status
  PROVE  FenceInv'
<1>1. /\ q # Free /\ x \in Runs /\ exec[x] # Free /\ q.eng \in Engines
      /\ q.fin \in BOOLEAN /\ q.status \in {"running", "paused"} \cup Terminal
  BY ShapedLive DEF Live, Shaped
<1>2. \A y \in Live' : y \in Live /\ exec'[y] = IF y = x THEN q ELSE exec[y]
  BY <1>1 DEF Moves, Collected, Live
<1>3. \A y \in Live : y \in Live' \/ (Quiet(IF y = x THEN q ELSE exec[y]) /\ \A e \in Engines : runs[e] # y)
  BY <1>1, <1>2 DEF Moves, Collected, Live
<1>4. TablesOK /\ ObjectsOK /\ EpochsOK /\ OwnersOK /\ FinalizersOK /\ ReleasedOK /\ LeasesWork
  BY DEF FenceInv
<1>5. TablesOK'
  <2>1. row'.status # "none"
    BY <1>4 DEF TablesOK
  <2>2. row'.epoch \in Nat /\ DOMAIN exec' = Runs /\ plan' \in Plans
    BY <1>4 DEF TablesOK, Moves
  <2>3. ASSUME NEW e \in Engines
        PROVE  /\ runs[e] # 0 => runs[e] \in Live' /\ exec'[runs[e]].eng = e
               /\ up[e] = "up" /\ runs[e] = 0 => \A y \in Live' : exec'[y].eng # e
               /\ up[e] = "down" => runs[e] = 0
    BY <1>2, <1>3, <1>4 DEF TablesOK
  <2> QED
    BY <1>4, <2>1, <2>2, <2>3 DEF TablesOK
<1>6. ObjectsOK'
  BY <1>2, <1>4 DEF ObjectsOK, Shaped
<1>7. EpochsOK'
  BY <1>2, <1>4 DEF EpochsOK
<1>8. \A y \in Live' : Owns(exec[y])' => Owns(exec[y])
  BY <1>2 DEF Owns
<1>9. OwnersOK'
  <2> SUFFICES ASSUME NEW y \in Live', Owns(exec[y])'
               PROVE  /\ IF up[exec'[y].eng] = "down" THEN exec'[y].fin
                         ELSE runs[exec'[y].eng] = y \/ Spent(exec'[y])
                      /\ runs[exec'[y].eng] = y \/ exec'[y].fin => row'.status = exec'[y].status
                      /\ up[exec'[y].eng] = "up" /\ exec'[y].status = "running" =>
                           exec'[y].open /\ exec'[y].pc # "over"
    BY DEF OwnersOK, Spent
  <2>1. y \in Live /\ Owns(exec[y])
    BY <1>2, <1>8
  <2>2. CASE y = x
    BY <1>2, <2>1, <2>2
  <2>3. CASE y # x
    <3>1. exec'[y] = exec[y] /\ exec[y].eng \in Engines
      BY <1>2, <1>4, <2>1, <2>3 DEF ObjectsOK
    <3>2. /\ IF up[exec[y].eng] = "down" THEN exec[y].fin ELSE runs[exec[y].eng] = y \/ Spent(exec[y])
          /\ runs[exec[y].eng] = y \/ exec[y].fin => row.status = exec[y].status
          /\ up[exec[y].eng] = "up" /\ exec[y].status = "running" => exec[y].open /\ exec[y].pc # "over"
      BY <1>4, <2>1 DEF OwnersOK
    <3>3. runs[exec[y].eng] = y \/ exec[y].fin => row'.status = row.status
      <4> SUFFICES ASSUME runs[exec[y].eng] = y \/ exec[y].fin, row'.status # row.status PROVE FALSE
        OBVIOUS
      <4>1. exec[y].eng = q.eng /\ runs[q.eng] = x
        BY <2>1 DEF Owns
      <4>2. exec[y].fin /\ up[q.eng] # "down"
        BY <1>1, <1>4, <2>3, <4>1, PlanAssumption DEF TablesOK, Live, Runs
      <4> QED
        BY <1>4, <2>1, <2>3, <4>1, <4>2 DEF FinalizersOK
    <3> QED
      BY <3>1, <3>2, <3>3
  <2> QED
    BY <2>2, <2>3
<1>10. FinalizersOK'
  <2>1. ASSUME NEW y \in Live', exec'[y].fin
        PROVE  /\ exec'[y].status \in Terminal
               /\ up[exec'[y].eng] # "down" => runs[exec'[y].eng] = y
               /\ row.owner = exec'[y].eng => Owns(exec[y])'
    BY <1>2, <1>4, <2>1 DEF FinalizersOK, Owns
  <2>2. ASSUME NEW e \in Engines, row.owner = e, up[e] = "down"
        PROVE  \E y \in Live' : exec'[y].eng = e /\ exec'[y].fin
    <3>1. PICK y \in Live : exec[y].eng = e /\ exec[y].fin
      BY <1>4, <2>2 DEF FinalizersOK, Finalizes
    <3>2. ~ Quiet(IF y = x THEN q ELSE exec[y])
      BY <2>2, <3>1 DEF Quiet
    <3>3. y \in Live'
      BY <1>3, <3>1, <3>2
    <3>4. exec'[y].eng = e /\ exec'[y].fin
      BY <1>2, <2>2, <3>1, <3>3
    <3> QED
      BY <3>3, <3>4
  <2> QED
    BY <2>1, <2>2 DEF FinalizersOK, Finalizes, Terminal
<1>11. ReleasedOK'
  <2> SUFFICES ASSUME NEW e \in Engines, runs[e] # 0, row.owner = None,
                      row.epoch = exec'[runs[e]].epoch + 1, row'.status \in Terminal
               PROVE  row'.status = exec'[runs[e]].status
    BY DEF ReleasedOK, Terminal
  <2>1. row'.status = row.status
    BY <1>1, PlanAssumption DEF Owns
  <2>2. runs[e] \in Live'
    BY <1>5 DEF TablesOK
  <2>3. row.status = exec[runs[e]].status
    BY <1>2, <1>4, <2>1, <2>2 DEF ReleasedOK
  <2> QED
    BY <1>2, <2>1, <2>2, <2>3
<1>12. LeasesWork'
  <2> SUFFICES ASSUME NEW e \in Engines, row.owner = e, up[e] = "up",
                      row'.status \in {"queued", "running"}
               PROVE  \E y \in Live' : exec'[y].eng = e /\ Current(exec[y])' /\ exec'[y].pc # "over"
    BY DEF LeasesWork
  <2>1. ASSUME Owns(exec[x]), runs[e] = x, exec[x].eng = e
        PROVE  \E y \in Live' : exec'[y].eng = e /\ Current(exec[y])' /\ exec'[y].pc # "over"
    <3>1. q.status = "running" /\ q.open /\ q.pc # "over" /\ q.eng = e
      BY <1>1, <2>1 DEF Terminal
    <3>2. x \in Live'
      BY <1>3, <2>1
    <3>3. exec'[x] = q
      BY <1>2, <3>2
    <3>4. Current(exec[x])'
      BY <2>1, <3>1, <3>3 DEF Current, Owns
    <3> QED
      BY <3>1, <3>2, <3>3, <3>4
  <2>2. CASE row'.status # row.status
    <3>1. Owns(exec[x]) /\ runs[exec[x].eng] = x
      BY <2>2
    <3> QED
      BY <2>1, <3>1 DEF Owns
  <2>3. CASE row'.status = row.status
    <3>1. PICK y \in Live : exec[y].eng = e /\ Current(exec[y]) /\ exec[y].pc # "over"
      BY <1>4, <2>3 DEF LeasesWork
    <3>2. ~ Quiet(exec[y]) /\ Owns(exec[y]) /\ runs[e] = y
      BY <1>4, <3>1 DEF Quiet, Spent, Current, OwnersOK
    <3>3. CASE y = x
      BY <2>1, <3>1, <3>2, <3>3
    <3>4. CASE y # x
      <4>1. y \in Live' /\ exec'[y] = exec[y]
        BY <1>2, <1>3, <3>2, <3>4
      <4> QED
        BY <3>1, <4>1 DEF Current, Owns
    <3> QED
      BY <3>3, <3>4
  <2> QED
    BY <2>2, <2>3
<1> QED
  BY <1>5, <1>6, <1>7, <1>9, <1>10, <1>11, <1>12 DEF FenceInv

\* Object x, which holds the lease, gives it back with its last state.
LEMMA Releases ==
  ASSUME FenceInv, NEW x \in Live, NEW q, Moves(x, q), UNCHANGED <<plan, runs, up>>,
         Shaped(q), q.eng = exec[x].eng, q.epoch = exec[x].epoch, Owns(exec[x]),
         runs[q.eng] = x \/ up[q.eng] = "down",
         DOMAIN row' = DOMAIN row, row'.owner = None, row'.epoch = row.epoch + 1,
         row'.status = q.status,
         q.fin => q.status \in Terminal /\ (up[q.eng] # "down" => runs[q.eng] = x)
  PROVE  FenceInv'
<1>1. /\ q # Free /\ x \in Runs /\ exec[x] # Free /\ q.eng \in Engines
      /\ q.status \in {"running", "paused"} \cup Terminal
  BY ShapedLive DEF Live, Shaped
<1>2. \A y \in Live' : y \in Live /\ exec'[y] = IF y = x THEN q ELSE exec[y]
  BY <1>1 DEF Moves, Collected, Live
<1>3. \A y \in Live : y \in Live' \/ (Quiet(IF y = x THEN q ELSE exec[y]) /\ \A e \in Engines : runs[e] # y)
  BY <1>1, <1>2 DEF Moves, Collected, Live
<1>4. TablesOK /\ ObjectsOK /\ EpochsOK /\ OwnersOK /\ FinalizersOK /\ ReleasedOK
  BY DEF FenceInv
<1>5. TablesOK'
  <2>1. row'.status # "none"
    BY <1>1 DEF Terminal
  <2>2. row'.epoch \in Nat /\ DOMAIN exec' = Runs /\ plan' \in Plans
    BY <1>4 DEF TablesOK, Moves
  <2>3. ASSUME NEW e \in Engines
        PROVE  /\ runs[e] # 0 => runs[e] \in Live' /\ exec'[runs[e]].eng = e
               /\ up[e] = "up" /\ runs[e] = 0 => \A y \in Live' : exec'[y].eng # e
               /\ up[e] = "down" => runs[e] = 0
    BY <1>2, <1>3, <1>4 DEF TablesOK
  <2> QED
    BY <1>4, <2>1, <2>2, <2>3 DEF TablesOK
<1>6. ObjectsOK'
  BY <1>2, <1>4 DEF ObjectsOK, Shaped
<1>7. \A y \in Live' : exec'[y].epoch < row'.epoch
  <2> SUFFICES ASSUME NEW y \in Live' PROVE exec'[y].epoch < row.epoch + 1
    OBVIOUS
  <2>1. exec'[y].epoch = exec[y].epoch /\ exec[y].epoch <= row.epoch /\ exec[y].epoch \in Nat
    BY <1>2, <1>4 DEF EpochsOK, ObjectsOK
  <2> QED
    BY <1>4, <2>1 DEF TablesOK
<1>8. EpochsOK' /\ OwnersOK'
  <2>1. \A y \in Live' : exec'[y].epoch \in Nat /\ exec'[y].epoch # row'.epoch /\ exec'[y].epoch <= row'.epoch
    BY <1>5, <1>6, <1>7 DEF TablesOK, ObjectsOK
  <2> QED
    BY <2>1 DEF EpochsOK, OwnersOK, Owns
<1>9. FinalizersOK'
  <2>1. ASSUME NEW y \in Live', exec'[y].fin
        PROVE  /\ exec'[y].status \in Terminal
               /\ up[exec'[y].eng] # "down" => runs[exec'[y].eng] = y
               /\ exec'[y].eng # None
    BY <1>2, <1>4, <1>6, <2>1, PlanAssumption DEF FinalizersOK, ObjectsOK
  <2> QED
    BY <2>1, PlanAssumption DEF FinalizersOK, Terminal
<1>10. ReleasedOK'
  <2> SUFFICES ASSUME NEW e \in Engines, runs[e] # 0, row'.epoch = exec'[runs[e]].epoch + 1
               PROVE  row'.status = exec'[runs[e]].status
    BY DEF ReleasedOK, Terminal
  <2>1. runs[e] \in Live' /\ exec'[runs[e]].eng = e
    BY <1>5 DEF TablesOK
  <2>2. exec[runs[e]].epoch = row.epoch /\ exec[runs[e]].eng = e /\ runs[e] \in Live
    BY <1>2, <1>4, <2>1 DEF TablesOK, ObjectsOK
  <2>3. row.owner = e
    BY <1>4, <2>2 DEF EpochsOK
  <2>4. runs[e] = x
    BY <1>4, <2>3 DEF Owns, TablesOK
  <2> QED
    BY <1>2, <2>1, <2>4
<1>11. LeasesWork'
  BY PlanAssumption DEF LeasesWork
<1> QED
  BY <1>5, <1>6, <1>8, <1>9, <1>10, <1>11 DEF FenceInv

\* The epoch under which engine e is granted the lease.
Granted(e, g) == \/ g = IF row.owner = e THEN row.epoch ELSE row.epoch + 1
                 \/ row.status = "none" /\ g = row.epoch

\* Who has the granted epoch already is an object of the same engine that held
\* the lease.
LEMMA GrantedOnce ==
  ASSUME FenceInv, NEW e, NEW g, Granted(e, g)
  PROVE  /\ g \in Nat
         /\ \A y \in Live : exec[y].epoch <= g
         /\ \A y \in Live : exec[y].epoch = g => exec[y].eng = e /\ Owns(exec[y])
<1>1. /\ row.epoch \in Nat
      /\ row.status = "none" => Live = {}
      /\ \A y \in Live : /\ exec[y].epoch \in Nat /\ exec[y].epoch <= row.epoch
                         /\ exec[y].epoch = row.epoch => row.owner = exec[y].eng
  BY DEF FenceInv, TablesOK, ObjectsOK, EpochsOK
<1> QED
  BY <1>1 DEF Granted, Owns

\* Engine e gets a new object, now in its table.
LEMMA Enlists ==
  ASSUME FenceInv, NEW e \in Engines, up[e] = "up", NEW x \in Runs, exec[x] = Free, NEW q,
         Moves(x, q), runs' = [runs EXCEPT ![e] = x], UNCHANGED <<plan, up>>,
         Shaped(q), q.eng = e,
         DOMAIN row' = DOMAIN row, row'.epoch \in Nat, row'.status = q.status
  PROVE  /\ q # Free /\ q.status \in {"running", "paused"} \cup Terminal /\ q.epoch \in Nat
         /\ runs'[e] = x /\ \A d \in Engines \ {e} : runs'[d] = runs[d]
         /\ x \in Live' /\ exec'[x] = q
         /\ \A y \in Live' \ {x} : y \in Live /\ exec'[y] = exec[y]
         /\ \A y \in Live : y \in Live' \/ (Quiet(exec[y]) /\ \A d \in Engines : runs'[d] # y)
         /\ TablesOK' /\ ObjectsOK'
<1>1. q # Free /\ q.status \in {"running", "paused"} \cup Terminal /\ q.epoch \in Nat
  BY ShapedLive DEF Shaped
<1>2. TablesOK /\ ObjectsOK
  BY DEF FenceInv
<1>3. runs'[e] = x /\ \A d \in Engines \ {e} : runs'[d] = runs[d]
  BY <1>2 DEF TablesOK
<1>4. x \in Live' /\ exec'[x] = q
  BY <1>1, <1>3 DEF Moves, Collected, Live
<1>5. \A y \in Live' \ {x} : y \in Live /\ exec'[y] = exec[y]
  BY DEF Moves, Collected, Live
<1>6. \A y \in Live : y \in Live' \/ (Quiet(exec[y]) /\ \A d \in Engines : runs'[d] # y)
  BY <1>4 DEF Moves, Collected, Live
<1>7. x # 0
  BY PlanAssumption DEF Runs
<1>8. TablesOK'
  <2>1. row'.status # "none"
    BY <1>1 DEF Terminal
  <2>2. DOMAIN exec' = Runs /\ plan' \in Plans /\ runs' \in [Engines -> Runs \cup {0}]
    BY <1>1, <1>2 DEF TablesOK, Moves
  <2>3. ASSUME NEW d \in Engines
        PROVE  /\ runs'[d] # 0 => runs'[d] \in Live' /\ exec'[runs'[d]].eng = d
               /\ up[d] = "up" /\ runs'[d] = 0 => \A y \in Live' : exec'[y].eng # d
               /\ up[d] = "down" => runs'[d] = 0
    <3>1. CASE d = e
      BY <1>3, <1>4, <1>7, <3>1
    <3>2. CASE d # e
      <4>1. runs'[d] = runs[d]
        BY <1>3, <3>2
      <4>2. runs[d] # 0 => runs[d] \in Live /\ exec[runs[d]].eng = d /\ runs[d] # x
        BY <1>2 DEF TablesOK, Live
      <4>3. runs[d] # 0 => runs[d] \in Live' /\ exec'[runs[d]].eng = d
        BY <1>5, <1>6, <4>1, <4>2
      <4>4. up[d] = "up" /\ runs[d] = 0 => \A y \in Live' : exec'[y].eng # d
        BY <1>2, <1>4, <1>5, <3>2 DEF TablesOK
      <4> QED
        BY <1>2, <4>1, <4>3, <4>4 DEF TablesOK
    <3> QED
      BY <3>1, <3>2
  <2> QED
    BY <1>2, <2>1, <2>2, <2>3 DEF TablesOK
<1>9. ObjectsOK'
  <2>1. \A y \in Live' : y = x \/ (y \in Live /\ exec'[y] = exec[y])
    BY <1>5
  <2> QED
    BY <1>2, <1>4, <2>1 DEF ObjectsOK, Shaped
<1> QED
  BY <1>1, <1>3, <1>4, <1>5, <1>6, <1>8, <1>9

\* Engine e gets the lease for a new object.
LEMMA Grants ==
  ASSUME FenceInv, NEW e \in Engines, up[e] = "up", NEW x \in Runs, exec[x] = Free, NEW q,
         Moves(x, q), runs' = [runs EXCEPT ![e] = x], UNCHANGED <<plan, up>>,
         Shaped(q), q.eng = e, Granted(e, q.epoch),
         DOMAIN row' = DOMAIN row, row'.owner = e, row'.epoch = q.epoch, row'.status = q.status,
         \A y \in Live : exec[y].eng = e => ~exec[y].fin /\ (Owns(exec[y]) => Spent(exec[y])),
         q.status = "running" => q.open /\ q.pc # "over",
         q.fin => q.status \in Terminal
  PROVE  FenceInv'
<1>1. ObjectsOK /\ OwnersOK /\ FinalizersOK
  BY DEF FenceInv
<1>2. q.epoch \in Nat /\ row'.epoch \in Nat
  BY DEF Shaped
<1>3. /\ q # Free /\ q.status \in {"running", "paused"} \cup Terminal /\ q.epoch \in Nat
      /\ runs'[e] = x /\ \A d \in Engines \ {e} : runs'[d] = runs[d]
      /\ x \in Live' /\ exec'[x] = q
      /\ \A y \in Live' \ {x} : y \in Live /\ exec'[y] = exec[y]
      /\ \A y \in Live : y \in Live' \/ (Quiet(exec[y]) /\ \A d \in Engines : runs'[d] # y)
      /\ TablesOK' /\ ObjectsOK'
  BY <1>2, Enlists
<1>5. /\ \A y \in Live : exec[y].epoch <= q.epoch
      /\ \A y \in Live : exec[y].epoch = q.epoch => exec[y].eng = e /\ Owns(exec[y])
  BY GrantedOnce
<1>6. EpochsOK'
  BY <1>2, <1>3, <1>5 DEF EpochsOK
<1>7. \A y \in Live' \ {x} : Owns(exec[y])' => exec[y].eng = e /\ Owns(exec[y])
  BY <1>3, <1>5 DEF Owns
<1>8. OwnersOK'
  <2> SUFFICES ASSUME NEW y \in Live', Owns(exec[y])'
               PROVE  /\ IF up[exec'[y].eng] = "down" THEN exec'[y].fin
                         ELSE runs'[exec'[y].eng] = y \/ Spent(exec'[y])
                      /\ runs'[exec'[y].eng] = y \/ exec'[y].fin => row'.status = exec'[y].status
                      /\ up[exec'[y].eng] = "up" /\ exec'[y].status = "running" =>
                           exec'[y].open /\ exec'[y].pc # "over"
    BY DEF OwnersOK, Spent
  <2>1. CASE y = x
    BY <1>3, <2>1
  <2>2. CASE y # x
    <3>1. exec'[y] = exec[y] /\ y \in Live /\ exec[y].eng = e /\ Owns(exec[y])
      BY <1>3, <1>7, <2>2
    <3>2. ~exec[y].fin /\ Spent(exec[y])
      BY <3>1
    <3>3. exec[y].status = "running" => exec[y].open /\ exec[y].pc # "over"
      BY <1>1, <3>1 DEF OwnersOK
    <3> QED
      BY <1>3, <2>2, <3>1, <3>2, <3>3
  <2> QED
    BY <2>1, <2>2
<1>9. FinalizersOK'
  <2>1. ASSUME NEW y \in Live', exec'[y].fin
        PROVE  /\ exec'[y].status \in Terminal
               /\ up[exec'[y].eng] # "down" => runs'[exec'[y].eng] = y
               /\ row'.owner = exec'[y].eng => Owns(exec[y])'
    <3>1. CASE y = x
      BY <1>3, <2>1, <3>1 DEF Owns
    <3>2. CASE y # x
      <4>1. y \in Live /\ exec'[y] = exec[y] /\ exec[y].fin /\ exec[y].eng # e /\ exec[y].eng \in Engines
        BY <1>1, <1>3, <2>1, <3>2 DEF ObjectsOK
      <4> QED
        BY <1>1, <1>3, <4>1 DEF FinalizersOK
    <3> QED
      BY <3>1, <3>2
  <2> QED
    BY <2>1 DEF FinalizersOK, Terminal
<1>10. ReleasedOK'
  BY PlanAssumption DEF ReleasedOK
<1>11. LeasesWork'
  <2> SUFFICES ASSUME q.status \in {"queued", "running"}
               PROVE  \E y \in Live' : exec'[y].eng = e /\ Current(exec[y])' /\ exec'[y].pc # "over"
    BY DEF LeasesWork
  <2>1. q.status = "running"
    BY <1>3 DEF Terminal
  <2>2. Current(exec[x])'
    BY <1>3, <2>1 DEF Current, Owns
  <2> QED
    BY <1>3, <2>1, <2>2
<1> QED
  BY <1>3, <1>6, <1>8, <1>9, <1>10, <1>11 DEF FenceInv

\* Engine e gets the lease for a new object and gives it back in the same step.
LEMMA GrantsBriefly ==
  ASSUME FenceInv, NEW e \in Engines, up[e] = "up", NEW x \in Runs, exec[x] = Free, NEW q,
         Moves(x, q), runs' = [runs EXCEPT ![e] = x], UNCHANGED <<plan, up>>,
         Shaped(q), q.eng = e, Granted(e, q.epoch),
         DOMAIN row' = DOMAIN row, row'.owner = None, row'.epoch = q.epoch + 1,
         row'.status = q.status,
         \A y \in Live : exec[y].eng = e => ~exec[y].fin,
         ~q.fin
  PROVE  FenceInv'
<1>1. ObjectsOK /\ FinalizersOK
  BY DEF FenceInv
<1>2. q.epoch \in Nat /\ row'.epoch \in Nat
  BY DEF Shaped
<1>3. /\ q # Free /\ q.status \in {"running", "paused"} \cup Terminal /\ q.epoch \in Nat
      /\ runs'[e] = x /\ \A d \in Engines \ {e} : runs'[d] = runs[d]
      /\ x \in Live' /\ exec'[x] = q
      /\ \A y \in Live' \ {x} : y \in Live /\ exec'[y] = exec[y]
      /\ \A y \in Live : y \in Live' \/ (Quiet(exec[y]) /\ \A d \in Engines : runs'[d] # y)
      /\ TablesOK' /\ ObjectsOK'
  BY <1>2, Enlists, ZenonT(60)
<1>5. /\ \A y \in Live : exec[y].epoch <= q.epoch
      /\ \A y \in Live : exec[y].epoch = q.epoch => exec[y].eng = e
  BY GrantedOnce
<1>6. \A y \in Live' : exec'[y].epoch \in Nat /\ exec'[y].epoch <= q.epoch
  BY <1>2, <1>3, <1>5 DEF ObjectsOK
<1>7. EpochsOK' /\ OwnersOK'
  <2>1. \A y \in Live' : exec'[y].epoch <= row'.epoch /\ exec'[y].epoch # row'.epoch
    BY <1>2, <1>6
  <2> QED
    BY <2>1 DEF EpochsOK, OwnersOK, Owns
<1>8. FinalizersOK'
  <2>1. ASSUME NEW y \in Live', exec'[y].fin
        PROVE  /\ exec'[y].status \in Terminal
               /\ up[exec'[y].eng] # "down" => runs'[exec'[y].eng] = y
               /\ exec'[y].eng # None
    <3>1. y \in Live /\ exec'[y] = exec[y] /\ exec[y].fin /\ exec[y].eng # e /\ exec[y].eng \in Engines
      BY <1>1, <1>3, <2>1 DEF ObjectsOK
    <3> QED
      BY <1>1, <1>3, <3>1, PlanAssumption DEF FinalizersOK
  <2> QED
    BY <2>1, PlanAssumption DEF FinalizersOK, Terminal
<1>9. ReleasedOK'
  <2> SUFFICES ASSUME NEW d \in Engines, runs'[d] # 0, row'.epoch = exec'[runs'[d]].epoch + 1
               PROVE  row'.status = exec'[runs'[d]].status
    BY DEF ReleasedOK, Terminal
  <2>1. runs'[d] \in Live' /\ exec'[runs'[d]].eng = d
    BY <1>3 DEF TablesOK
  <2>2. exec'[runs'[d]].epoch = q.epoch
    BY <1>2, <1>6, <2>1
  <2>3. d = e
    BY <1>3, <1>5, <2>1, <2>2
  <2> QED
    BY <1>3, <2>3
<1>10. LeasesWork'
  BY PlanAssumption DEF LeasesWork
<1> QED
  BY <1>3, <1>7, <1>8, <1>9, <1>10 DEF FenceInv

-----------------------------------------------------------------------------
(***************************************************************************)
(* What every step is shown to do: it keeps the invariant; it leaves a     *)
(* terminal state alone; it starts to send under the lease only.           *)
(***************************************************************************)
Settles == row.status \in Terminal => row'.status = row.status

SendsFenced ==
  \A y \in Runs, m \in Nodes :
    ~Task(y, m, "send") /\ Task(y, m, "send")' => row'.status = "running" /\ row'.owner = exec[y].eng

Sound == FenceInv' /\ Settles /\ SendsFenced

\* An action that changes one object alone moves it.
LEMMA MovesPlain ==
  ASSUME FenceInv, NEW x \in Runs, NEW q, exec' = [exec EXCEPT ![x] = q]
  PROVE  Moves(x, q)
BY DEF FenceInv, TablesOK, Moves

\* An action that changes one object and collects the quiet ones moves it.
LEMMA MovesReaped ==
  ASSUME FenceInv, NEW x \in Runs, NEW q, q # Free,
         exec' = Reaped([exec EXCEPT ![x] = q], runs')
  PROVE  Moves(x, q)
<1>1. PICK ex : ex = [exec EXCEPT ![x] = q]
  OBVIOUS
<1>2. ex[x] = q /\ \A y \in Runs \ {x} : ex[y] = exec[y]
  BY <1>1 DEF FenceInv, TablesOK
<1>3. /\ DOMAIN exec' = Runs
      /\ \A y \in Runs : \/ exec'[y] = ex[y]
                         \/ /\ exec'[y] = Free
                            /\ ex[y] # Free /\ Quiet(ex[y])
                            /\ \A e \in Engines : runs'[e] # y
  <2>1. PICK rs : rs = runs'
    OBVIOUS
  <2>2. exec' = Reaped(ex, rs)
    BY <1>1, <2>1
  <2>3. /\ DOMAIN Reaped(ex, rs) = Runs
        /\ \A y \in Runs : \/ Reaped(ex, rs)[y] = ex[y]
                           \/ /\ Reaped(ex, rs)[y] = Free
                              /\ ex[y] # Free /\ Quiet(ex[y])
                              /\ \A e \in Engines : rs[e] # y
    BY ReapedQuiet
  <2> QED
    BY <2>1, <2>2, <2>3
<1>4. exec'[x] = q \/ Collected(x, q)
  BY <1>2, <1>3 DEF Collected
<1>5. ASSUME NEW y \in Runs \ {x}
      PROVE  exec'[y] = exec[y] \/ (y \in Live /\ Collected(y, exec[y]))
  BY <1>2, <1>3 DEF Collected, Live
<1> QED
  BY <1>3, <1>4, <1>5 DEF Moves

\* An object that moves alone enters "send" alone.
LEMMA OneSends ==
  ASSUME NEW x \in Runs, NEW q, Moves(x, q),
         \/ \A m \in Nodes : q.task[m] = "send" => x \in Live /\ exec[x].task[m] = "send"
         \/ row'.status = "running" /\ row'.owner = exec[x].eng
  PROVE  SendsFenced
<1> SUFFICES ASSUME NEW y \in Runs, NEW m \in Nodes, ~Task(y, m, "send"), Task(y, m, "send")'
             PROVE  row'.status = "running" /\ row'.owner = exec[y].eng
  BY DEF SendsFenced
<1>1. exec'[y] # Free /\ exec'[y].task[m] = "send"
  BY DEF Task, Live
<1>2. CASE y # x
  <2>1. exec'[y] = exec[y]
    BY <1>1, <1>2 DEF Moves, Collected
  <2> QED
    BY <1>1, <2>1 DEF Task, Live
<1>3. CASE y = x
  <2>1. exec'[y] = q
    BY <1>1, <1>3 DEF Moves, Collected
  <2> QED
    BY <1>1, <1>3, <2>1 DEF Task
<1> QED
  BY <1>2, <1>3

\* An object whose execution passes the fence is the one in its engine's table.
LEMMA CurrentIsListed ==
  ASSUME FenceInv, NEW x \in Live, Current(exec[x])
  PROVE  /\ Shaped(exec[x]) /\ exec[x].pc # "over" /\ ~exec[x].fin /\ exec[x].status = "running"
         /\ Owns(exec[x]) /\ up[exec[x].eng] = "up" /\ runs[exec[x].eng] = x
         /\ row.status = "running"
<1>1. Shaped(exec[x])
  BY DEF FenceInv, ObjectsOK, Shaped
<1>2. exec[x].status = "running" /\ Owns(exec[x]) /\ up[exec[x].eng] = "up"
  BY DEF Current
<1>3. ~exec[x].fin
  BY <1>2 DEF FenceInv, FinalizersOK, Terminal
<1>4. exec[x].pc # "over" /\ (runs[exec[x].eng] = x \/ Spent(exec[x]))
  BY <1>2 DEF FenceInv, OwnersOK
<1>5. runs[exec[x].eng] = x
  BY <1>2, <1>4 DEF Spent
<1>6. row.status = "running"
  BY <1>2, <1>5 DEF FenceInv, OwnersOK
<1> QED
  BY <1>1, <1>2, <1>3, <1>4, <1>5, <1>6

\* An execution that passes the fence goes on, or ends and gives the lease back.
LEMMA Goes ==
  ASSUME FenceInv, NEW x \in Live, Current(exec[x]), NEW p, Same(p, exec[x]), p.pc \in Heads,
         Becomes(x, p, row), UNCHANGED <<plan, runs, up>>
  PROVE  Sound
<1>1. /\ Shaped(exec[x]) /\ ~exec[x].fin /\ exec[x].status = "running"
      /\ Owns(exec[x]) /\ up[exec[x].eng] = "up" /\ runs[exec[x].eng] = x
      /\ row.status = "running"
  BY CurrentIsListed
<1>2. Settles
  BY <1>1 DEF Settles, Terminal
<1>3. x \in Runs /\ DOMAIN row = {"status", "nodes", "cursor", "owner", "epoch", "lapsed"}
  BY DEF Live, FenceInv, TablesOK
<1>4. PICK q : q = Ended(p)
  OBVIOUS
<1>5. exec' = Reaped([exec EXCEPT ![x] = q], runs')
  BY <1>4 DEF Becomes
<1>6. CASE p.pc \in {"batch", "review", "closing"}
  <2>1. q = p
    BY <1>4, <1>6 DEF Ended
  <2>2. Shaped(q)
    BY <1>1, <1>6, <2>1 DEF Same, Shaped
  <2>3. Moves(x, q)
    BY <1>3, <1>5, <2>2, ShapedLive, MovesReaped
  <2>4. row' = Written(p, row)
    BY <1>6 DEF Becomes, Stored
  <2>5. /\ DOMAIN row' = DOMAIN row /\ row'.owner = row.owner /\ row'.epoch = row.epoch
        /\ row'.status = q.status
    BY <1>3, <2>1, <2>4 DEF Written
  <2>6. q.eng = exec[x].eng /\ q.epoch = exec[x].epoch /\ q.status = "running" /\ ~q.fin /\ q.open
    BY <1>1, <2>1 DEF Same, Current
  <2>7. FenceInv'
    BY <1>1, <1>6, <2>1, <2>2, <2>3, <2>5, <2>6, KeepsLease DEF Terminal
  <2>8. SendsFenced
    BY <1>1, <1>3, <2>3, <2>5, <2>6, OneSends DEF Owns
  <2> QED
    BY <1>2, <2>7, <2>8 DEF Sound
<1>7. CASE p.pc \in {"done", "fail"}
  <2>1. /\ DOMAIN q = Fields /\ q.eng = p.eng /\ q.epoch = p.epoch /\ q.open = p.open
        /\ q.fin = p.fin /\ q.status \in {"completed", "failed"}
        /\ q.pc = "over" /\ q.task = Idle
    BY <1>4, <1>7 DEF Ended, At, Same, Fields
  <2>2. Shaped(q) /\ q.eng = exec[x].eng /\ q.epoch = exec[x].epoch /\ ~q.fin
    BY <1>1, <2>1 DEF Same, Shaped, Terminal
  <2>3. Moves(x, q)
    BY <1>3, <1>5, <2>2, ShapedLive, MovesReaped
  <2>4. row' = Released(Written(q, row))
    BY <1>4, <1>7 DEF Becomes, Stored
  <2>5. /\ DOMAIN row' = DOMAIN row /\ row'.owner = None /\ row'.epoch = row.epoch + 1
        /\ row'.status = q.status
    BY <1>3, <2>4 DEF Written, Released
  <2>6. FenceInv'
    BY <1>1, <2>2, <2>3, <2>5, Releases
  <2>7. SendsFenced
    BY <1>3, <2>1, <2>3, OneSends DEF Idle
  <2> QED
    BY <1>2, <2>6, <2>7 DEF Sound
<1> QED
  BY <1>6, <1>7 DEF Heads

\* An execution that the fence stops writes, at most, what the row says already, if
\* no old object is written over a newer checkpoint.
LEMMA Halts ==
  ASSUME FenceInv, ~overwritten', NEW x \in Live, ~Current(exec[x]), NEW o, Same(o, exec[x]),
         \A m \in Nodes : o.task[m] = "send" => exec[x].task[m] = "send",
         NEW r, Stops(x, o, r), UNCHANGED <<plan, runs, up>>,
         r \in {Saved(exec[x]), Emitted(exec[x]), Renewed(exec[x])}
  PROVE  Sound
<1>1. Shaped(exec[x]) /\ exec[x].eng \in Engines
  BY DEF FenceInv, ObjectsOK, Shaped
<1>2. Owns(exec[x]) =>
        /\ IF up[exec[x].eng] = "down" THEN exec[x].fin ELSE runs[exec[x].eng] = x \/ Spent(exec[x])
        /\ runs[exec[x].eng] = x \/ exec[x].fin => row.status = exec[x].status
        /\ up[exec[x].eng] = "up" => exec[x].status # "running"
  BY DEF FenceInv, OwnersOK, Current
<1>3. exec[x].fin => /\ exec[x].status \in Terminal
                     /\ up[exec[x].eng] # "down" => runs[exec[x].eng] = x
                     /\ row.owner = exec[x].eng => Owns(exec[x])
  BY DEF FenceInv, FinalizersOK
<1>4. x \in Runs /\ DOMAIN row = {"status", "nodes", "cursor", "owner", "epoch", "lapsed"}
  BY DEF Live, FenceInv, TablesOK
<1>5. PICK q : q = [o EXCEPT !.open = @ /\ Owns(o), !.pc = "over"]
  OBVIOUS
<1>6. exec' = Reaped([exec EXCEPT ![x] = q], runs') /\ row' = r
  BY <1>5 DEF Stops
<1>7. /\ Shaped(q) /\ q.eng = exec[x].eng /\ q.epoch = exec[x].epoch /\ q.status = exec[x].status
      /\ q.fin = exec[x].fin /\ q.task = o.task
  BY <1>1, <1>5 DEF Same, Shaped, Fields
<1>8. Moves(x, q)
  BY <1>4, <1>6, <1>7, ShapedLive, MovesReaped
<1>9. /\ DOMAIN row' = DOMAIN row /\ row'.owner = row.owner /\ row'.epoch = row.epoch
      /\ row'.status = row.status
  <2>1. /\ DOMAIN row' = DOMAIN row /\ row'.owner = row.owner /\ row'.epoch = row.epoch
        /\ row'.status = row.status \/ (Owns(exec[x]) /\ row'.status = exec[x].status)
    BY <1>4, <1>6 DEF Saved, Emitted, Renewed, Written
  <2>2. CASE Old(x)
    BY <1>6, <2>1, <2>2 DEF Stops, Checkpoint
  <2>3. CASE ~Old(x)
    BY <1>2, <2>1, <2>3 DEF Old
  <2> QED
    BY <2>1, <2>2, <2>3
<1>10. Spent(exec[x]) => Spent(q)
  BY <1>7 DEF Spent
<1>11. FenceInv'
  BY <1>1, <1>2, <1>3, <1>7, <1>8, <1>9, <1>10, KeepsLease
<1>12. SendsFenced
  BY <1>4, <1>7, <1>8, OneSends
<1> QED
  BY <1>9, <1>11, <1>12 DEF Sound, Settles

-----------------------------------------------------------------------------
(* The awaits of an executor *)

\* The invariant gives every live object its form.
LEMMA LiveShaped ==
  ASSUME FenceInv, NEW x \in Live
  PROVE  Shaped(exec[x]) /\ DOMAIN exec[x] = Fields
BY DEF FenceInv, ObjectsOK, Shaped

\* A node that goes on to its send or its turn keeps the fence.
LEMMA AdvancesStep ==
  ASSUME FenceInv, ~overwritten', NEW x, NEW n \in Nodes, NEW from \in {"create", "send"}, NEW to,
         Advances(x, n, from, to)
  PROVE  Sound
<1>1. x \in Live /\ exec[x].task[n] = from /\ UNCHANGED <<plan, runs, up>>
  BY DEF Advances, Task
<1>2. Shaped(exec[x]) /\ DOMAIN exec[x] = Fields
  BY <1>1, LiveShaped
<1>3. CASE Current(exec[x])
  <2>1. PICK p : p = [exec[x] EXCEPT !.task[n] = to]
    OBVIOUS
  <2>2. Becomes(x, p, row)
    BY <1>3, <2>1 DEF Advances
  <2>3. Same(p, exec[x]) /\ p.pc = exec[x].pc
    BY <1>2, <2>1 DEF Same, Fields
  <2>4. p.pc \in Heads
    BY <1>1, <1>3, <2>3, CurrentIsListed DEF Heads, Shaped
  <2> QED
    BY <1>1, <1>3, <2>2, <2>3, <2>4, Goes
<1>4. CASE ~Current(exec[x])
  <2>1. PICK p : p = [exec[x] EXCEPT !.task[n] = "none"]
    OBVIOUS
  <2>2. Stops(x, p, Saved(exec[x]))
    BY <1>4, <2>1 DEF Advances
  <2>3. Same(p, exec[x])
    BY <1>2, <2>1 DEF Same, Fields
  <2>4. \A m \in Nodes : p.task[m] = "send" => exec[x].task[m] = "send"
    BY <1>2, <2>1 DEF Fields
  <2> QED
    BY <1>1, <1>4, <2>2, <2>3, <2>4, Halts
<1> QED
  BY <1>3, <1>4

\* A node's end, with the round behind it, keeps the fence.
LEMMA NodeEndsStep ==
  ASSUME FenceInv, ~overwritten', NEW x, NEW n \in Nodes, NEW ok \in BOOLEAN, NodeEnds(x, n, ok)
  PROVE  Sound
<1>1. x \in Live /\ exec[x].task[n] # "none" /\ UNCHANGED <<plan, runs, up>>
  BY DEF NodeEnds, Task
<1>2. Shaped(exec[x]) /\ DOMAIN exec[x] = Fields
  BY <1>1, LiveShaped
<1>3. CASE Current(exec[x])
  <2>1. PICK p \in (IF InBatch(n) THEN Joins(exec[x], n, ok) ELSE After(exec[x], n, ok)) :
          Becomes(x, p, row)
    BY <1>3 DEF NodeEnds
  <2>2. Same(p, exec[x]) /\ (p.pc = exec[x].pc \/ p.pc \in Heads)
    BY <1>2, <2>1, JoinsSame, AfterHeads DEF Ahead
  <2>3. p.pc \in Heads
    BY <1>1, <1>3, <2>2, CurrentIsListed DEF Heads, Shaped
  <2> QED
    BY <1>1, <1>3, <2>1, <2>2, <2>3, Goes
<1>4. CASE ~Current(exec[x])
  <2>1. PICK p : p = [exec[x] EXCEPT !.task[n] = "none"]
    OBVIOUS
  <2>2. Stops(x, p, Renewed(exec[x]))
    BY <1>4, <2>1 DEF NodeEnds
  <2>3. Same(p, exec[x])
    BY <1>2, <2>1 DEF Same, Fields
  <2>4. \A m \in Nodes : p.task[m] = "send" => exec[x].task[m] = "send"
    BY <1>2, <2>1 DEF Fields
  <2> QED
    BY <1>1, <1>4, <2>2, <2>3, <2>4, Halts
<1> QED
  BY <1>3, <1>4

\* The end of a batch keeps the fence.
LEMMA BatchEndsStep ==
  ASSUME FenceInv, ~overwritten', NEW x, BatchEnds(x)
  PROVE  Sound
<1>1. x \in Live /\ exec[x].pc = "batch" /\ UNCHANGED <<plan, runs, up>>
  BY DEF BatchEnds
<1>2. Shaped(exec[x]) /\ DOMAIN exec[x] = Fields /\ plan \in Plans
  BY <1>1, LiveShaped DEF FenceInv, TablesOK
<1>3. PICK p : p = [exec[x] EXCEPT !.task = Idle]
  OBVIOUS
<1>4. Same(p, exec[x]) /\ DOMAIN p = Fields /\ \A m \in Nodes : p.task[m] # "send"
  BY <1>2, <1>3 DEF Same, Fields, Idle
<1>5. CASE Current(exec[x])
  <2>1. \/ Becomes(x, At(p, "fail"), row)
        \/ \E q \in NextBatch(p) \cup Proceed(p) : Becomes(x, q, row)
    BY <1>3, <1>5 DEF BatchEnds
  <2>2. PICK q : Becomes(x, q, row) /\ (q = At(p, "fail") \/ q \in NextBatch(p) \/ q \in Proceed(p))
    BY <2>1
  <2>3. Same(q, p) /\ q.pc \in Heads
    BY <1>2, <1>4, <2>2, AtSame, NextBatchHeads, ProceedHeads DEF Ahead, Heads
  <2> QED
    BY <1>1, <1>4, <1>5, <2>2, <2>3, SameTransitive, Goes
<1>6. CASE ~Current(exec[x])
  <2>1. Stops(x, p, Renewed(exec[x]))
    BY <1>3, <1>6 DEF BatchEnds
  <2> QED
    BY <1>1, <1>4, <1>6, <2>1, Halts
<1> QED
  BY <1>5, <1>6

\* The end of a human review keeps the fence.
LEMMA ReviewEndsStep ==
  ASSUME FenceInv, ~overwritten', NEW x, NEW approved \in BOOLEAN, ReviewEnds(x, approved)
  PROVE  Sound
<1>1. x \in Live /\ exec[x].pc = "review" /\ UNCHANGED <<plan, runs, up>>
  BY DEF ReviewEnds
<1>2. DOMAIN exec[x] = Fields
  BY <1>1, LiveShaped
<1>3. CASE Current(exec[x])
  <2>1. PICK p : /\ Becomes(x, p, row)
                 /\ p = IF approved THEN At(Handled(exec[x], "review"), "closing")
                        ELSE GraphRound(Reported(exec[x], "review"))
    BY <1>3 DEF ReviewEnds
  <2>2. /\ DOMAIN Handled(exec[x], "review") = Fields /\ Same(Handled(exec[x], "review"), exec[x])
        /\ DOMAIN Reported(exec[x], "review") = Fields /\ Same(Reported(exec[x], "review"), exec[x])
    BY <1>2, ReportedSame
  <2>3. CASE approved
    <3>1. Same(p, Handled(exec[x], "review")) /\ p.pc \in Heads
      BY <2>1, <2>2, <2>3, AtSame DEF Heads
    <3> QED
      BY <1>1, <1>3, <2>1, <2>2, <3>1, SameTransitive, Goes
  <2>4. CASE ~approved
    <3>1. Same(p, Reported(exec[x], "review")) /\ p.pc \in Heads
      BY <2>1, <2>2, <2>4, GraphHeads DEF Ahead
    <3> QED
      BY <1>1, <1>3, <2>1, <2>2, <3>1, SameTransitive, Goes
  <2> QED
    BY <2>3, <2>4
<1>4. CASE ~Current(exec[x])
  <2>1. Stops(x, exec[x], Emitted(exec[x])) /\ Same(exec[x], exec[x])
    BY <1>1, <1>2, <1>4 DEF ReviewEnds, Same
  <2> QED
    BY <1>1, <1>4, <2>1, Halts
<1> QED
  BY <1>3, <1>4

\* The cleanup at a graph's end keeps the fence.
LEMMA CloseEndsStep ==
  ASSUME FenceInv, ~overwritten', NEW x, CloseEnds(x)
  PROVE  Sound
<1>1. x \in Live /\ exec[x].pc = "closing" /\ UNCHANGED <<plan, runs, up>>
  BY DEF CloseEnds
<1>2. DOMAIN exec[x] = Fields
  BY <1>1, LiveShaped
<1>3. CASE Current(exec[x])
  <2>1. Becomes(x, At(exec[x], "done"), row)
    BY <1>3 DEF CloseEnds
  <2>2. Same(At(exec[x], "done"), exec[x]) /\ At(exec[x], "done").pc \in Heads
    BY <1>2, AtSame DEF Heads
  <2> QED
    BY <1>1, <1>3, <2>1, <2>2, Goes
<1>4. CASE ~Current(exec[x])
  <2>1. Stops(x, exec[x], Renewed(exec[x])) /\ Same(exec[x], exec[x])
    BY <1>1, <1>2, <1>4 DEF CloseEnds, Same
  <2> QED
    BY <1>1, <1>4, <2>1, Halts
<1> QED
  BY <1>3, <1>4

\* The finalizer of the owner releases the lease with the state that the row has.
LEMMA FinalizerEndsStep ==
  ASSUME FenceInv, NEW x, FinalizerEnds(x)
  PROVE  Sound
<1>1. x \in Live /\ x \in Runs /\ exec[x].fin /\ UNCHANGED <<plan, runs, up>>
  BY DEF FinalizerEnds, Live
<1>2. Shaped(exec[x]) /\ DOMAIN row = {"status", "nodes", "cursor", "owner", "epoch", "lapsed"}
  BY <1>1, LiveShaped DEF FenceInv, TablesOK
<1>3. /\ exec[x].status \in Terminal
      /\ up[exec[x].eng] # "down" => runs[exec[x].eng] = x
      /\ row.owner = exec[x].eng => Owns(exec[x])
  BY <1>1 DEF FenceInv, FinalizersOK
<1>4. PICK q : q = [exec[x] EXCEPT !.fin = FALSE]
  OBVIOUS
<1>5. /\ Shaped(q) /\ q.eng = exec[x].eng /\ q.epoch = exec[x].epoch /\ q.status = exec[x].status
      /\ ~q.fin /\ q.task = exec[x].task
  BY <1>2, <1>4 DEF Shaped, Fields
<1>6. exec' = Reaped([exec EXCEPT ![x] = q], runs')
  BY <1>1, <1>4 DEF FinalizerEnds
<1>7. Moves(x, q)
  BY <1>1, <1>5, <1>6, ShapedLive, MovesReaped
<1>8. SendsFenced
  BY <1>1, <1>5, <1>7, OneSends
<1>9. CASE Owns(exec[x])
  <2>1. row' = Released(Written(exec[x], row))
    BY <1>9 DEF FinalizerEnds
  <2>2. /\ DOMAIN row' = DOMAIN row /\ row'.owner = None /\ row'.epoch = row.epoch + 1
        /\ row'.status = q.status
    BY <1>2, <1>5, <2>1 DEF Written, Released
  <2>3. runs[q.eng] = x \/ up[q.eng] = "down"
    BY <1>3, <1>5
  <2>4. row.status = exec[x].status
    BY <1>1, <1>9 DEF FenceInv, OwnersOK
  <2>5. FenceInv'
    BY <1>1, <1>5, <1>7, <1>9, <2>2, <2>3, Releases
  <2> QED
    BY <1>5, <1>8, <2>2, <2>4, <2>5 DEF Sound, Settles
<1>10. CASE ~Owns(exec[x])
  <2>1. row' = row
    BY <1>10 DEF FinalizerEnds
  <2>2. FenceInv'
    BY <1>1, <1>3, <1>5, <1>7, <1>10, <2>1, KeepsLease
  <2> QED
    BY <1>8, <2>1, <2>2 DEF Sound, Settles
<1> QED
  BY <1>9, <1>10

\* Every continuation of an executor keeps the fence.
LEMMA ContinuesStep ==
  ASSUME FenceInv, ~overwritten', NEW x \in Runs, Continues(x)
  PROVE  Sound
<1>1. ASSUME NEW n \in Nodes, Created(x, n) \/ Sent(x, n) PROVE Sound
  BY <1>1, AdvancesStep DEF Created, Sent
<1>2. ASSUME NEW n \in Nodes, NEW ok \in BOOLEAN, NodeEnds(x, n, ok) PROVE Sound
  BY <1>2, NodeEndsStep
<1> QED
  BY <1>1, <1>2, BatchEndsStep, ReviewEndsStep, CloseEndsStep, FinalizerEndsStep DEF Continues

-----------------------------------------------------------------------------
(* Starting a run *)

Fresh(e, o) == /\ DOMAIN o = Fields
               /\ o.eng = e /\ o.open = TRUE /\ o.fin = FALSE /\ o.pc = "over" /\ o.task = Idle

\* The row under engine e's lease, with object o's epoch.
Leased(e, o, r) == DOMAIN r = DOMAIN row /\ r.owner = e /\ r.epoch = o.epoch /\ Granted(e, o.epoch)

\* The old objects of engine e stay out of the way of a new one.
Vacant(e) == \A y \in Live : exec[y].eng = e => ~exec[y].fin /\ (Owns(exec[y]) => Spent(exec[y]))

\* A new object under a lease just granted keeps the fence.
LEMMA LaunchStep ==
  ASSUME FenceInv, NEW e \in Engines, up[e] = "up", NEW x \in Runs, exec[x] = Free,
         NEW o, Fresh(e, o), NEW r, Leased(e, o, r), Vacant(e),
         Launch(e, x, o, r), UNCHANGED <<plan, up>>
  PROVE  FenceInv' /\ SendsFenced
<1>1. o.epoch \in Nat /\ plan \in Plans
      /\ DOMAIN row = {"status", "nodes", "cursor", "owner", "epoch", "lapsed"}
  BY GrantedOnce DEF Leased, FenceInv, TablesOK
<1>2. PICK o1 : o1 = [o EXCEPT !.status = "running"]
  OBVIOUS
<1>3. PICK p \in Proceed(o1) : /\ exec' = Reaped([exec EXCEPT ![x] = Ended(p)], [runs EXCEPT ![e] = x])
                               /\ row' = Stored(p, r)
  BY <1>2 DEF Launch
<1>4. runs' = [runs EXCEPT ![e] = x]
  BY DEF Launch
<1>5. /\ DOMAIN o1 = Fields /\ o1.eng = e /\ o1.epoch = o.epoch /\ o1.open = TRUE
      /\ o1.fin = FALSE /\ o1.status = "running"
  BY <1>2 DEF Fresh, Fields
<1>6. Same(p, o1) /\ Ahead(p)
  BY <1>1, <1>5, ProceedHeads
<1>7. PICK q : q = Ended(p)
  OBVIOUS
<1>8. exec' = Reaped([exec EXCEPT ![x] = q], runs')
  BY <1>3, <1>4, <1>7
<1>9. CASE p.pc \in {"batch", "review", "closing"}
  <2>1. q = p
    BY <1>7, <1>9 DEF Ended
  <2>2. /\ Shaped(q) /\ q.eng = e /\ q.epoch = o.epoch /\ q.open /\ ~q.fin /\ q.status = "running"
        /\ q.pc # "over" /\ \A m \in Nodes : q.task[m] # "send"
    BY <1>1, <1>5, <1>6, <1>9, <2>1 DEF Same, Shaped, Ahead
  <2>3. Moves(x, q)
    BY <1>8, <2>2, ShapedLive, MovesReaped
  <2>4. row' = Written(p, r)
    BY <1>3, <1>9 DEF Stored
  <2>5. DOMAIN row' = DOMAIN row /\ row'.owner = e /\ row'.epoch = q.epoch /\ row'.status = q.status
    BY <1>1, <2>1, <2>2, <2>4 DEF Written, Leased
  <2>6. FenceInv'
    BY <1>4, <2>2, <2>3, <2>5, Grants DEF Leased, Vacant
  <2>7. SendsFenced
    BY <2>2, <2>3, OneSends
  <2> QED
    BY <2>6, <2>7
<1>10. CASE p.pc \in {"done", "fail"}
  <2>1. /\ DOMAIN q = Fields /\ q.eng = p.eng /\ q.epoch = p.epoch /\ q.open = p.open
        /\ q.fin = p.fin /\ q.status \in {"completed", "failed"}
        /\ q.pc = "over" /\ q.task = Idle
    BY <1>6, <1>7, <1>10 DEF Ended, At, Same, Fields
  <2>2. Shaped(q) /\ q.eng = e /\ q.epoch = o.epoch /\ ~q.fin
    BY <1>1, <1>5, <1>6, <2>1 DEF Same, Shaped, Terminal
  <2>3. Moves(x, q)
    BY <1>8, <2>2, ShapedLive, MovesReaped
  <2>4. row' = Released(Written(q, r))
    BY <1>3, <1>7, <1>10 DEF Stored
  <2>5. DOMAIN row' = DOMAIN row /\ row'.owner = None /\ row'.epoch = q.epoch + 1 /\ row'.status = q.status
    BY <1>1, <2>2, <2>4 DEF Written, Released, Leased
  <2>6. FenceInv'
    BY <1>4, <2>2, <2>3, <2>5, GrantsBriefly DEF Leased, Vacant
  <2>7. SendsFenced
    BY <2>1, <2>3, OneSends DEF Idle
  <2> QED
    BY <2>6, <2>7
<1> QED
  BY <1>6, <1>9, <1>10 DEF Ahead, Heads

\* An object made from a row has the row's epoch and status and has sent nothing.
LEMMA ObjectFresh ==
  ASSUME NEW e, NEW r
  PROVE  /\ Fresh(e, Object(e, r)) /\ Object(e, r).epoch = r.epoch /\ Object(e, r).status = r.status
BY DEF Fresh, Object, Fields

\* A claim grants the lease for an object made from the claimed row.
LEMMA ClaimedLeased ==
  ASSUME FenceInv, NEW e, NEW o, o.epoch = Claimed(e).epoch
  PROVE  Leased(e, o, Claimed(e)) /\ Claimed(e).status = row.status
BY DEF Leased, Claimed, Granted, FenceInv, TablesOK

\* An engine without the workflow in its table has no object of it.
LEMMA UnlistedVacant ==
  ASSUME FenceInv, NEW e \in Engines, up[e] = "up", runs[e] = 0
  PROVE  Vacant(e) /\ \A y \in Live : exec[y].eng # e
BY DEF FenceInv, TablesOK, Vacant

\* workflow.run keeps the fence.
LEMMA RunStep ==
  ASSUME FenceInv, NEW e \in Engines, NEW x \in Runs, Run(e, x)
  PROVE  Sound
<1>1. /\ up[e] = "up" /\ row.status = "none" /\ exec[x] = Free /\ Live = {}
      /\ UNCHANGED <<plan, up>>
  BY DEF Run, FreeRun, FenceInv, TablesOK
<1>2. PICK r : r = [row EXCEPT !.owner = e]
  OBVIOUS
<1>3. PICK o : o = Object(e, r)
  OBVIOUS
<1>4. Launch(e, x, o, r)
  BY <1>2, <1>3 DEF Run
<1>5. Fresh(e, o) /\ Leased(e, o, r)
  BY <1>1, <1>2, <1>3, ObjectFresh DEF Leased, Granted, FenceInv, TablesOK
<1>6. Vacant(e)
  BY <1>1 DEF Vacant
<1>7. FenceInv' /\ SendsFenced
  BY <1>1, <1>4, <1>5, <1>6, LaunchStep
<1> QED
  BY <1>1, <1>7 DEF Sound, Settles, Terminal

\* recover keeps the fence.
LEMMA RecoverStep ==
  ASSUME FenceInv, NEW e \in Engines, NEW x \in Runs, Recover(e, x)
  PROVE  Sound
<1>1. /\ up[e] = "up" /\ runs[e] = 0 /\ exec[x] = Free /\ row.status \in {"queued", "running"}
      /\ UNCHANGED <<plan, up>>
  BY DEF Recover, FreeRun
<1>2. Vacant(e) /\ \A y \in Live : exec[y].eng # e
  BY <1>1, UnlistedVacant
<1>3. Settles
  BY <1>1 DEF Settles, Terminal
<1>4. PICK o : o = Object(e, Claimed(e))
  OBVIOUS
<1>5. Fresh(e, o) /\ o.epoch = Claimed(e).epoch
  BY <1>4, ObjectFresh
<1>6. CASE plan.manual
  <2>1. PICK q : q = [o EXCEPT !.status = "paused", !.open = FALSE,
                               !.nodes = Recast(@, {"running"}, "paused")]
    OBVIOUS
  <2>2. runs' = [runs EXCEPT ![e] = x] /\ exec' = [exec EXCEPT ![x] = q]
        /\ row' = Released(Written(q, Claimed(e)))
    BY <1>4, <1>6, <2>1 DEF Recover
  <2>3. Leased(e, o, Claimed(e)) /\ o.epoch \in Nat
    BY <1>5, ClaimedLeased, GrantedOnce DEF Leased
  <2>4. /\ Shaped(q) /\ q.eng = e /\ q.epoch = o.epoch /\ q.status = "paused" /\ ~q.fin
        /\ q.task = Idle
    BY <1>5, <2>1, <2>3 DEF Fresh, Shaped, Fields
  <2>5. DOMAIN row = {"status", "nodes", "cursor", "owner", "epoch", "lapsed"}
    BY DEF FenceInv, TablesOK
  <2>6. DOMAIN row' = DOMAIN row /\ row'.owner = None /\ row'.epoch = q.epoch + 1 /\ row'.status = q.status
    BY <2>2, <2>3, <2>4, <2>5 DEF Released, Written, Leased
  <2>7. Moves(x, q)
    BY <2>2, MovesPlain
  <2>8. FenceInv'
    BY <1>1, <1>2, <2>2, <2>3, <2>4, <2>6, <2>7, GrantsBriefly DEF Leased
  <2>9. SendsFenced
    BY <2>4, <2>7, OneSends DEF Idle
  <2> QED
    BY <1>3, <2>8, <2>9 DEF Sound
<1>7. CASE ~plan.manual
  <2>1. PICK q : q = [o EXCEPT !.nodes = Recast(@, {"running", "paused"}, "pending")]
    OBVIOUS
  <2>2. Launch(e, x, q, Claimed(e))
    BY <1>4, <1>7, <2>1 DEF Recover
  <2>3. Fresh(e, q) /\ q.epoch = Claimed(e).epoch
    BY <1>5, <2>1 DEF Fresh, Fields
  <2>4. FenceInv' /\ SendsFenced
    BY <1>1, <1>2, <2>2, <2>3, ClaimedLeased, LaunchStep
  <2> QED
    BY <1>3, <2>4 DEF Sound
<1> QED
  BY <1>6, <1>7

\* What the engine still has of a workflow that is parked or has ended is spent.
LEMMA ResumeStep ==
  ASSUME FenceInv, NEW e \in Engines, NEW x \in Runs, NEW strategy, Resume(e, x, strategy)
  PROVE  FenceInv' /\ SendsFenced
<1>1. /\ up[e] = "up" /\ exec[x] = Free /\ ~Finalizes(e)
      /\ row.status \in {"paused", "failed", "timeout", "cancelled"}
      /\ UNCHANGED <<plan, up>>
  BY DEF Resume, FreeRun
<1>2. ASSUME NEW y \in Live, exec[y].eng = e
      PROVE  ~exec[y].fin /\ (Owns(exec[y]) => Spent(exec[y]))
  <2>1. ~exec[y].fin
    BY <1>1, <1>2 DEF Finalizes
  <2>2. CASE Owns(exec[y])
    <3>1. runs[e] = y \/ Spent(exec[y])
      BY <1>1, <1>2, <2>2 DEF FenceInv, OwnersOK
    <3>2. CASE runs[e] = y
      BY <1>1, <1>2, <2>1, <2>2, <3>2 DEF FenceInv, OwnersOK, Spent
    <3> QED
      BY <2>1, <3>1, <3>2
  <2> QED
    BY <2>1, <2>2
<1>3. PICK o : o = Object(e, Claimed(e))
  OBVIOUS
<1>4. PICK q : q = [o EXCEPT !.nodes = Recast([n \in Nodes |-> IF n \in Rerun(strategy, @)
                                                               THEN "pending" ELSE @[n]],
                                              {"running", "paused"}, "pending"),
                             !.cursor = IF strategy = "continue" THEN @ ELSE Cursor0]
  OBVIOUS
<1>5. Launch(e, x, q, Claimed(e))
  BY <1>3, <1>4 DEF Resume
<1>6. Fresh(e, q) /\ q.epoch = Claimed(e).epoch
  <2>1. Fresh(e, o) /\ o.epoch = Claimed(e).epoch
    BY <1>3, ObjectFresh
  <2> QED
    BY <1>4, <2>1 DEF Fresh, Fields
<1>7. Vacant(e)
  BY <1>2 DEF Vacant
<1> QED
  BY <1>1, <1>5, <1>6, <1>7, ClaimedLeased, LaunchStep

\* A cancel of a row without an object keeps the fence.
LEMMA CancelStoredStep ==
  ASSUME FenceInv, NEW e \in Engines, NEW x \in Runs, CancelStored(e, x)
  PROVE  Sound
<1>1. /\ up[e] = "up" /\ runs[e] = 0 /\ exec[x] = Free /\ row.status \notin Terminal
      /\ UNCHANGED <<plan, up>> /\ runs' = [runs EXCEPT ![e] = x]
  BY DEF CancelStored, FreeRun
<1>2. Vacant(e) /\ \A y \in Live : exec[y].eng # e
  BY <1>1, UnlistedVacant
<1>3. PICK o : o = Object(e, Claimed(e))
  OBVIOUS
<1>4. PICK q : q = Finalized(o, "cancelled")
  OBVIOUS
<1>5. exec' = [exec EXCEPT ![x] = q] /\ row' = Written(q, Claimed(e))
  BY <1>3, <1>4 DEF CancelStored
<1>6. Fresh(e, o) /\ Leased(e, o, Claimed(e)) /\ o.epoch \in Nat
  BY <1>3, ObjectFresh, ClaimedLeased, GrantedOnce DEF Leased
<1>7. /\ Shaped(q) /\ q.eng = e /\ q.epoch = o.epoch /\ q.status = "cancelled"
      /\ q.task = Unwaited(Idle)
  BY <1>4, <1>6 DEF Finalized, Fenced, Fresh, Shaped, Fields, Terminal
<1>8. DOMAIN row = {"status", "nodes", "cursor", "owner", "epoch", "lapsed"}
  BY DEF FenceInv, TablesOK
<1>9. DOMAIN row' = DOMAIN row /\ row'.owner = e /\ row'.epoch = q.epoch /\ row'.status = q.status
  BY <1>5, <1>6, <1>7, <1>8 DEF Written, Leased
<1>10. Moves(x, q)
  BY <1>5, MovesPlain
<1>11. FenceInv'
  BY <1>1, <1>2, <1>6, <1>7, <1>9, <1>10, Grants DEF Leased, Terminal
<1>12. SendsFenced
  BY <1>7, <1>10, OneSends DEF Idle, Unwaited
<1> QED
  BY <1>1, <1>11, <1>12 DEF Sound, Settles

-----------------------------------------------------------------------------
(* Controls *)

\* An object in a table: what it says of itself the invariant relates to the row.
LEMMA Listed ==
  ASSUME FenceInv, NEW e \in Engines, runs[e] # 0
  PROVE  LET x == runs[e] IN
         /\ x \in Live /\ x \in Runs /\ Shaped(exec[x]) /\ DOMAIN exec[x] = Fields /\ exec[x].eng = e
         /\ Owns(exec[x]) => row.status = exec[x].status
         /\ exec[x].fin => exec[x].status \in Terminal /\ (row.owner = e => Owns(exec[x]))
         /\ DOMAIN row = {"status", "nodes", "cursor", "owner", "epoch", "lapsed"}
<1>1. runs[e] \in Live /\ exec[runs[e]].eng = e
  BY DEF FenceInv, TablesOK
<1>2. Shaped(exec[runs[e]]) /\ DOMAIN exec[runs[e]] = Fields
  BY <1>1, LiveShaped
<1> QED
  BY <1>1, <1>2 DEF Live, FenceInv, OwnersOK, FinalizersOK, TablesOK

\* A fence falls: the object changes its status, and the row with it under the lease.
LEMMA FenceFalls ==
  ASSUME FenceInv, NEW x \in Live, up[exec[x].eng] = "up", exec[x].status \notin Terminal,
         runs[exec[x].eng] = x \/ exec[x].status = "running",
         NEW q, exec' = [exec EXCEPT ![x] = q], UNCHANGED <<plan, runs, up>>,
         Shaped(q), q.eng = exec[x].eng, q.epoch = exec[x].epoch, q.status # "running",
         q.task = Unwaited(exec[x].task),
         q.fin => q.status \in Terminal /\ Owns(exec[x]),
         row' = IF Owns(exec[x]) THEN Written(q, row) ELSE row
  PROVE  Sound
<1>1. x \in Runs /\ DOMAIN row = {"status", "nodes", "cursor", "owner", "epoch", "lapsed"}
  BY DEF Live, FenceInv, TablesOK
<1>2. ~exec[x].fin
  BY DEF FenceInv, FinalizersOK
<1>3. Moves(x, q)
  BY <1>1, MovesPlain
<1>4. Owns(exec[x]) => row.status = exec[x].status /\ runs[exec[x].eng] = x
  BY DEF FenceInv, OwnersOK, Spent
<1>5. /\ DOMAIN row' = DOMAIN row /\ row'.owner = row.owner /\ row'.epoch = row.epoch
      /\ row'.status = IF Owns(exec[x]) THEN q.status ELSE row.status
  BY <1>1 DEF Written
<1>6. q.status # "none"
  BY DEF Shaped, Terminal
<1>7. FenceInv'
  BY <1>2, <1>3, <1>4, <1>5, <1>6, KeepsLease
<1>8. SendsFenced
  BY <1>1, <1>3, OneSends DEF Unwaited
<1> QED
  BY <1>4, <1>5, <1>7, <1>8 DEF Sound, Settles

\* persist writes the row exactly if the object owns it.
LEMMA SavedUp ==
  ASSUME NEW o, NEW p, NEW q, up[o.eng] = "up",
         p.eng = o.eng, p.epoch = o.epoch, q.status = p.status, q.nodes = p.nodes, q.cursor = p.cursor
  PROVE  /\ Saved(p) = IF Owns(o) THEN Written(q, row) ELSE row
         /\ Owns(p) = Owns(o)
BY DEF Saved, Owns, Written

\* pause keeps the fence.
LEMMA PauseStep ==
  ASSUME FenceInv, NEW e \in Engines, Pause(e)
  PROVE  Sound
<1>1. PICK x : x = runs[e]
  OBVIOUS
<1>2. /\ runs[e] # 0 /\ up[e] = "up" /\ exec[x].status \notin Terminal /\ UNCHANGED <<plan, runs, up>>
  BY <1>1 DEF Pause
<1>3. x \in Live /\ Shaped(exec[x]) /\ DOMAIN exec[x] = Fields /\ exec[x].eng = e
  BY <1>1, <1>2, Listed
<1>4. PICK q : q = [Fenced(exec[x]) EXCEPT !.status = "paused",
                                           !.nodes = Recast(@, {"running"}, "paused")]
  OBVIOUS
<1>5. exec' = [exec EXCEPT ![x] = q] /\ row' = Saved(q)
  BY <1>1, <1>4 DEF Pause
<1>6. /\ Shaped(q) /\ q.eng = e /\ q.epoch = exec[x].epoch /\ q.status = "paused"
      /\ q.task = Unwaited(exec[x].task) /\ q.fin = exec[x].fin
  BY <1>3, <1>4 DEF Fenced, Shaped, Fields
<1>7. ~q.fin
  BY <1>2, <1>3, <1>6 DEF FenceInv, FinalizersOK
<1>8. row' = IF Owns(exec[x]) THEN Written(q, row) ELSE row
  BY <1>2, <1>3, <1>5, <1>6, SavedUp
<1> QED
  BY <1>1, <1>2, <1>3, <1>5, <1>6, <1>7, <1>8, FenceFalls

\* Cancel and the deadline: the terminal fence, with a finalizer if the engine
\* holds the lease.
LEMMA FinalizedStep ==
  ASSUME FenceInv, NEW x \in Live, up[exec[x].eng] = "up", exec[x].status \notin Terminal,
         runs[exec[x].eng] = x \/ exec[x].status = "running",
         NEW status \in {"cancelled", "timeout"},
         NEW p, p = Finalized(exec[x], status),
         exec' = [exec EXCEPT ![x] = [p EXCEPT !.fin = Owns(p)]], row' = Saved(p),
         UNCHANGED <<plan, runs, up>>
  PROVE  Sound
<1>1. Shaped(exec[x])
  BY LiveShaped
<1>2. PICK q : q = [p EXCEPT !.fin = Owns(p)]
  OBVIOUS
<1>3. /\ DOMAIN p = Fields /\ p.eng = exec[x].eng /\ p.epoch = exec[x].epoch /\ p.open = FALSE
      /\ p.task = Unwaited(exec[x].task) /\ p.status = status /\ p.pc \in {"review", "over"}
  BY <1>1 DEF Finalized, Fenced, Shaped, Fields
<1>4. /\ DOMAIN q = Fields /\ q.eng = p.eng /\ q.epoch = p.epoch /\ q.open = FALSE
      /\ q.task = p.task /\ q.status = p.status /\ q.pc = p.pc
      /\ q.nodes = p.nodes /\ q.cursor = p.cursor
  BY <1>2, <1>3 DEF Fields
<1>5. q.fin = Owns(p)
  BY <1>2, <1>3 DEF Fields
<1>6. q.fin \in BOOLEAN /\ (q.fin => Owns(exec[x]))
  BY <1>3, <1>5 DEF Owns
<1>7. Shaped(q) /\ q.status \in Terminal /\ q.status # "running"
  BY <1>1, <1>3, <1>4, <1>6 DEF Shaped, Terminal
<1>8. row' = IF Owns(exec[x]) THEN Written(q, row) ELSE row
  BY <1>3, <1>4, SavedUp
<1>9. q.eng = exec[x].eng /\ q.epoch = exec[x].epoch /\ q.task = Unwaited(exec[x].task)
  BY <1>3, <1>4
<1>10. exec' = [exec EXCEPT ![x] = q]
  BY <1>2
<1> QED
  BY <1>6, <1>7, <1>8, <1>9, <1>10, FenceFalls

\* cancel of an object keeps the fence.
LEMMA CancelStep ==
  ASSUME FenceInv, NEW e \in Engines, Cancel(e)
  PROVE  Sound
<1>1. PICK x : x = runs[e]
  OBVIOUS
<1>2. /\ runs[e] # 0 /\ up[e] = "up" /\ exec[x].status \notin Terminal /\ UNCHANGED <<plan, runs, up>>
  BY <1>1 DEF Cancel
<1>3. x \in Live /\ exec[x].eng = e
  BY <1>1, <1>2, Listed
<1>4. PICK p : p = Finalized(exec[x], "cancelled")
  OBVIOUS
<1>5. exec' = [exec EXCEPT ![x] = [p EXCEPT !.fin = Owns(p)]] /\ row' = Saved(p)
  BY <1>1, <1>4 DEF Cancel
<1> QED
  BY <1>1, <1>2, <1>3, <1>4, <1>5, FinalizedStep

\* The workflow's timeout keeps the fence.
LEMMA TimesOutStep ==
  ASSUME FenceInv, NEW x \in Runs, TimesOut(x)
  PROVE  Sound
<1>1. /\ x \in Live /\ exec[x].pc # "over" /\ up[exec[x].eng] = "up" /\ exec[x].status = "running"
      /\ UNCHANGED <<plan, runs, up>>
  BY DEF TimesOut
<1>2. PICK p : p = Finalized(exec[x], "timeout")
  OBVIOUS
<1>3. exec' = [exec EXCEPT ![x] = [p EXCEPT !.fin = Owns(p)]] /\ row' = Saved(p)
  BY <1>2 DEF TimesOut
<1> QED
  BY <1>1, <1>2, <1>3, FinalizedStep DEF Terminal

\* The lease timer finds the lease lost, or renews it.
LEMMA RenewStep ==
  ASSUME FenceInv, NEW e \in Engines, Renew(e)
  PROVE  Sound
<1>1. PICK x : x = runs[e]
  OBVIOUS
<1>2. runs[e] # 0 /\ up[e] = "up" /\ UNCHANGED <<plan, runs, up>>
  BY DEF Renew
<1>3. /\ x \in Live /\ x \in Runs /\ Shaped(exec[x]) /\ DOMAIN exec[x] = Fields /\ exec[x].eng = e
      /\ Owns(exec[x]) => row.status = exec[x].status
      /\ exec[x].fin => exec[x].status \in Terminal /\ (row.owner = e => Owns(exec[x]))
      /\ DOMAIN row = {"status", "nodes", "cursor", "owner", "epoch", "lapsed"}
  BY <1>1, <1>2, Listed
<1>4. PICK q : q = [exec[x] EXCEPT !.open = @ /\ Owns(exec[x])]
  OBVIOUS
<1>5. exec' = [exec EXCEPT ![x] = q] /\ row' = IF Owns(exec[x]) THEN [row EXCEPT !.lapsed = FALSE] ELSE row
  BY <1>1, <1>4 DEF Renew
<1>6. /\ Shaped(q) /\ q.eng = e /\ q.epoch = exec[x].epoch /\ q.status = exec[x].status
      /\ q.fin = exec[x].fin /\ q.task = exec[x].task /\ q.pc = exec[x].pc
      /\ Owns(exec[x]) => q.open = exec[x].open
  BY <1>3, <1>4 DEF Shaped, Fields
<1>7. /\ DOMAIN row' = DOMAIN row /\ row'.owner = row.owner /\ row'.epoch = row.epoch
      /\ row'.status = row.status
  BY <1>3, <1>5
<1>8. Moves(x, q)
  BY <1>3, <1>5, MovesPlain
<1>9. Owns(exec[x]) /\ exec[x].status = "running" => exec[x].open /\ exec[x].pc # "over"
  BY <1>2, <1>3 DEF FenceInv, OwnersOK
<1>10. FenceInv'
  BY <1>1, <1>2, <1>3, <1>6, <1>7, <1>8, <1>9, KeepsLease
<1>11. SendsFenced
  BY <1>3, <1>6, <1>8, OneSends
<1> QED
  BY <1>7, <1>10, <1>11 DEF Sound, Settles

\* Without moving an object nothing is sent.
LEMMA NobodySends ==
  ASSUME \A y \in Runs : exec'[y] = Free \/ (exec'[y].task = exec[y].task /\ y \in Live)
  PROVE  SendsFenced
BY DEF SendsFenced, Task, Live

\* The engine that claimed the row only to fail the workflow.
LEMMA RecoverFailsStep ==
  ASSUME FenceInv, NEW e \in Engines, RecoverFails(e)
  PROVE  Sound
<1>1. /\ up[e] = "up" /\ runs[e] = 0 /\ row.status \in {"queued", "running"}
      /\ UNCHANGED <<plan, exec, runs, up>>
      /\ row' = Released([Claimed(e) EXCEPT !.status = "failed"])
  BY DEF RecoverFails
<1>2. \A y \in Live : exec[y].eng # e
  BY <1>1, UnlistedVacant
<1>3. PICK g : g = Claimed(e).epoch
  OBVIOUS
<1>4. /\ DOMAIN row' = DOMAIN row /\ row'.owner = None /\ row'.epoch = g + 1 /\ row'.status = "failed"
      /\ Granted(e, g)
  BY <1>1, <1>3 DEF Claimed, Released, Granted, FenceInv, TablesOK
<1>5. /\ g \in Nat
      /\ \A y \in Live : exec[y].epoch <= g
      /\ \A y \in Live : exec[y].epoch = g => exec[y].eng = e
  BY <1>4, GrantedOnce
<1>6. TablesOK /\ ObjectsOK /\ FinalizersOK /\ Live' = Live
  BY <1>1 DEF FenceInv, Live
<1>7. \A y \in Live : exec[y].epoch \in Nat /\ exec[y].epoch < g /\ exec[y].eng \in Engines
  BY <1>2, <1>5, <1>6 DEF ObjectsOK
<1>8. TablesOK' /\ ObjectsOK'
  BY <1>1, <1>4, <1>5, <1>6 DEF TablesOK, ObjectsOK
<1>9. EpochsOK' /\ OwnersOK'
  <2>1. \A y \in Live : exec[y].epoch <= row'.epoch /\ exec[y].epoch # row'.epoch
    BY <1>4, <1>5, <1>7
  <2> QED
    BY <1>1, <1>6, <2>1 DEF EpochsOK, OwnersOK, Owns
<1>10. FinalizersOK'
  BY <1>1, <1>4, <1>6, <1>7, PlanAssumption DEF FinalizersOK
<1>11. ReleasedOK'
  <2>1. \A d \in Engines : runs[d] # 0 => exec[runs[d]].epoch < g /\ exec[runs[d]].epoch \in Nat
    BY <1>6, <1>7 DEF TablesOK
  <2> QED
    BY <1>1, <1>4, <1>5, <2>1 DEF ReleasedOK
<1>12. LeasesWork'
  BY <1>4, PlanAssumption DEF LeasesWork
<1>13. SendsFenced
  BY <1>1, NobodySends DEF Live
<1> QED
  BY <1>1, <1>8, <1>9, <1>10, <1>11, <1>12, <1>13 DEF FenceInv, Sound, Settles, Terminal

\* The event of an artifact writes the whole object: under the lease what the row
\* has already; otherwise what the engine released, if nobody claimed it since.
LEMMA RegisterArtifactStep ==
  ASSUME FenceInv, ~overwritten', NEW e \in Engines, RegisterArtifact(e)
  PROVE  Sound
<1>1. PICK x : x = runs[e]
  OBVIOUS
<1>2. runs[e] # 0 /\ up[e] = "up" /\ UNCHANGED <<plan, runs, up>>
  BY DEF RegisterArtifact
<1>3. /\ x \in Live /\ x \in Runs /\ Shaped(exec[x]) /\ DOMAIN exec[x] = Fields /\ exec[x].eng = e
      /\ Owns(exec[x]) => row.status = exec[x].status
      /\ exec[x].fin => exec[x].status \in Terminal /\ (row.owner = e => Owns(exec[x]))
      /\ DOMAIN row = {"status", "nodes", "cursor", "owner", "epoch", "lapsed"}
  BY <1>1, <1>2, Listed
<1>4. TablesOK /\ ObjectsOK /\ EpochsOK /\ OwnersOK /\ FinalizersOK /\ ReleasedOK
  BY DEF FenceInv
<1>5. CASE Owns(exec[x])
  <2>1. row' = Written(exec[x], row) /\ exec' = exec
    BY <1>1, <1>5 DEF RegisterArtifact
  <2>2. /\ DOMAIN row' = DOMAIN row /\ row'.owner = row.owner /\ row'.epoch = row.epoch
        /\ row'.status = row.status /\ row.status = exec[x].status
    BY <1>3, <1>5, <2>1 DEF Written
  <2>3. Moves(x, exec[x])
    BY <1>4, <2>1 DEF Moves, TablesOK
  <2>4. up[e] = "up" /\ exec[x].status = "running" => exec[x].open /\ exec[x].pc # "over"
    BY <1>3, <1>4, <1>5 DEF OwnersOK
  <2>5. FenceInv'
    BY <1>1, <1>2, <1>3, <1>5, <2>2, <2>3, <2>4, KeepsLease
  <2>6. SendsFenced
    BY <1>3, <2>3, OneSends
  <2> QED
    BY <2>2, <2>5, <2>6 DEF Sound, Settles
<1>6. CASE ~Owns(exec[x])
  <2>1. /\ row.owner = None /\ row.epoch = exec[x].epoch + 1
        /\ row' = Released(Written(exec[x], Claimed(e)))
        /\ exec' = [exec EXCEPT ![x].epoch = Claimed(e).epoch]
    BY <1>1, <1>6 DEF RegisterArtifact, Untouched
  <2>2. /\ row.epoch \in Nat /\ e # None
        /\ Claimed(e).epoch = row.epoch + 1
    BY <1>3, <1>4, <2>1, PlanAssumption DEF TablesOK, Claimed
  <2>3. /\ DOMAIN row' = DOMAIN row /\ row'.owner = None /\ row'.epoch = row.epoch + 2
        /\ row'.status = exec[x].status
    <3>1. PICK r : r = Written(exec[x], Claimed(e))
      OBVIOUS
    <3>2. DOMAIN r = DOMAIN row /\ r.epoch = row.epoch + 1 /\ r.status = exec[x].status
      BY <1>3, <2>2, <3>1 DEF Written, Claimed
    <3>3. row' = [r EXCEPT !.owner = None, !.epoch = @ + 1, !.lapsed = FALSE]
      BY <2>1, <3>1 DEF Released
    <3> QED
      BY <1>3, <2>2, <3>2, <3>3
  <2>4. PICK q : q = [exec[x] EXCEPT !.epoch = row.epoch + 1]
    OBVIOUS
  <2>5. exec' = [exec EXCEPT ![x] = q]
    BY <2>1, <2>2, <2>4
  <2>6. /\ Shaped(q) /\ q.eng = e /\ q.epoch = row.epoch + 1 /\ q.status = exec[x].status
        /\ q.fin = exec[x].fin /\ q.task = exec[x].task /\ q # Free
    <3>1. PICK g \in Nat : g = row.epoch + 1
      BY <2>2
    <3>2. q = [exec[x] EXCEPT !.epoch = g]
      BY <2>4, <3>1
    <3>3. /\ Shaped(q) /\ q.eng = e /\ q.epoch = g /\ q.status = exec[x].status
          /\ q.fin = exec[x].fin /\ q.task = exec[x].task
      BY <1>3, <3>2 DEF Shaped, Fields
    <3> QED
      BY <3>1, <3>3, ShapedLive
  <2>7. /\ exec'[x] = q /\ \A y \in Runs \ {x} : exec'[y] = exec[y]
        /\ DOMAIN exec' = Runs /\ Live' = Live
    BY <1>3, <1>4, <2>5, <2>6 DEF TablesOK, Live
  <2>8. TablesOK'
    <3>1. \A d \in Engines : /\ runs[d] # 0 => runs[d] \in Live' /\ exec'[runs[d]].eng = d
                             /\ up[d] = "up" /\ runs[d] = 0 => \A y \in Live' : exec'[y].eng # d
                             /\ up[d] = "down" => runs[d] = 0
      BY <1>2, <1>3, <1>4, <2>6, <2>7 DEF TablesOK, Live
    <3>2. row'.status # "none" /\ row'.epoch \in Nat
      BY <1>3, <2>2, <2>3 DEF Shaped, Terminal
    <3> QED
      BY <1>2, <1>4, <2>3, <2>7, <3>1, <3>2 DEF TablesOK
  <2>9. ObjectsOK'
    <3>1. ASSUME NEW y \in Live' PROVE Shaped(exec'[y])
      BY <2>6, <2>7, LiveShaped DEF Live
    <3> QED
      BY <3>1 DEF ObjectsOK, Shaped
  <2>10. \A y \in Live' : exec'[y].epoch \in Nat /\ exec'[y].epoch < row'.epoch
    <3>1. \A y \in Live : exec[y].epoch \in Nat /\ exec[y].epoch <= row.epoch
      BY <1>4 DEF ObjectsOK, EpochsOK
    <3>2. \A y \in Live' : y \in Live /\ exec'[y].epoch = IF y = x THEN row.epoch + 1 ELSE exec[y].epoch
      BY <2>6, <2>7 DEF Live
    <3> QED
      BY <2>2, <2>3, <3>1, <3>2
  <2>11. EpochsOK' /\ OwnersOK'
    <3>1. \A y \in Live' : exec'[y].epoch <= row'.epoch /\ exec'[y].epoch # row'.epoch
      BY <2>2, <2>3, <2>10
    <3> QED
      BY <3>1 DEF EpochsOK, OwnersOK, Owns
  <2>12. FinalizersOK'
    <3>1. ASSUME NEW y \in Live', exec'[y].fin
          PROVE  /\ exec'[y].status \in Terminal
                 /\ up[exec'[y].eng] # "down" => runs[exec'[y].eng] = y
                 /\ exec'[y].eng # None
      BY <1>2, <1>3, <1>4, <2>6, <2>7, <2>9, <3>1, PlanAssumption DEF FinalizersOK, ObjectsOK, Live
    <3> QED
      BY <1>2, <2>3, <3>1, PlanAssumption DEF FinalizersOK, Terminal
  <2>13. ReleasedOK'
    <3> SUFFICES ASSUME NEW d \in Engines, runs[d] # 0, row'.epoch = exec'[runs[d]].epoch + 1
                 PROVE  row'.status = exec'[runs[d]].status
      BY <1>2 DEF ReleasedOK, Terminal
    <3>1. runs[d] \in Live
      BY <1>4 DEF TablesOK
    <3>2. exec[runs[d]].epoch <= row.epoch /\ exec[runs[d]].epoch \in Nat
      BY <1>4, <3>1 DEF EpochsOK, ObjectsOK
    <3>3. CASE runs[d] = x
      BY <2>3, <2>6, <2>7, <3>3
    <3>4. CASE runs[d] # x
      BY <2>2, <2>3, <2>7, <3>1, <3>2, <3>4 DEF Live
    <3> QED
      BY <3>3, <3>4
  <2>14. LeasesWork'
    BY <2>3, PlanAssumption DEF LeasesWork
  <2>15. SendsFenced
    BY <1>3, <2>5, <2>6, MovesPlain, OneSends
  <2>16. Settles
    BY <1>1, <1>2, <1>4, <2>1, <2>3 DEF Settles, ReleasedOK
  <2> QED
    BY <2>8, <2>9, <2>11, <2>12, <2>13, <2>14, <2>15, <2>16 DEF FenceInv, Sound
<1> QED
  BY <1>5, <1>6

-----------------------------------------------------------------------------
(* Engines *)

\* A lease that runs out keeps the fence.
LEMMA LapseStep ==
  ASSUME FenceInv, Lapse
  PROVE  Sound
<1>1. /\ row' = [row EXCEPT !.lapsed = TRUE] /\ UNCHANGED <<plan, exec, runs, up>>
      /\ DOMAIN row = {"status", "nodes", "cursor", "owner", "epoch", "lapsed"}
  BY DEF Lapse, FenceInv, TablesOK
<1>2. /\ DOMAIN row' = DOMAIN row /\ row'.owner = row.owner /\ row'.epoch = row.epoch
      /\ row'.status = row.status /\ Live' = Live
  BY <1>1 DEF Live
<1>3. \A y \in Live : Owns(exec[y])' <=> Owns(exec[y])
  BY <1>1, <1>2 DEF Owns
<1>4. \A y \in Live : Current(exec[y])' <=> Current(exec[y])
  BY <1>1, <1>3 DEF Current
<1>5. TablesOK' /\ ObjectsOK' /\ EpochsOK'
  BY <1>1, <1>2 DEF FenceInv, TablesOK, ObjectsOK, EpochsOK
<1>6. OwnersOK'
  BY <1>1, <1>2, <1>3 DEF FenceInv, OwnersOK, Spent
<1>7. FinalizersOK'
  BY <1>1, <1>2, <1>3 DEF FenceInv, FinalizersOK, Finalizes
<1>8. ReleasedOK'
  BY <1>1, <1>2 DEF FenceInv, ReleasedOK
<1>9. LeasesWork'
  BY <1>1, <1>2, <1>4 DEF FenceInv, LeasesWork
<1>10. SendsFenced
  BY <1>1, NobodySends DEF Live
<1> QED
  BY <1>2, <1>5, <1>6, <1>7, <1>8, <1>9, <1>10 DEF FenceInv, Sound, Settles

\* An engine starts, or waits for its finalizers: nothing but its life changes.
LEMMA LifeStep ==
  ASSUME FenceInv, NEW e \in Engines, UNCHANGED <<plan, row, exec, runs>>,
         \/ /\ up[e] = "down" /\ (\A x \in Live : exec[x].eng # e)
            /\ up' = [up EXCEPT ![e] = "up"]
         \/ up[e] = "up" /\ up' = [up EXCEPT ![e] = "closing"]
  PROVE  Sound
<1>1. /\ \A d \in Engines \ {e} : up'[d] = up[d]
      /\ \/ up[e] = "down" /\ up'[e] = "up" /\ (\A x \in Live : exec[x].eng # e)
         \/ up[e] = "up" /\ up'[e] = "closing"
      /\ up' \in [Engines -> {"up", "closing", "down"}]
  BY DEF FenceInv, TablesOK
<1>2. Live' = Live /\ \A y \in Live : exec[y].eng \in Engines /\ (Owns(exec[y])' <=> Owns(exec[y]))
  BY DEF FenceInv, ObjectsOK, Live, Owns
<1>3. TablesOK' /\ ObjectsOK' /\ EpochsOK'
  BY <1>1, <1>2 DEF FenceInv, TablesOK, ObjectsOK, EpochsOK
<1>4. OwnersOK'
  BY <1>1, <1>2 DEF FenceInv, OwnersOK, Spent
<1>5. FinalizersOK'
  <2>1. \A d \in Engines : Finalizes(d)' <=> Finalizes(d)
    BY <1>2 DEF Finalizes
  <2>2. Finalizes(e) => \E y \in Live : exec[y].eng = e
    BY DEF Finalizes
  <2> QED
    BY <1>1, <1>2, <2>1, <2>2 DEF FenceInv, FinalizersOK
<1>6. ReleasedOK'
  BY DEF FenceInv, ReleasedOK
<1>7. LeasesWork'
  <2> SUFFICES ASSUME NEW d \in Engines, row.owner = d, up'[d] = "up", row.status \in {"queued", "running"}
               PROVE  \E y \in Live : exec[y].eng = d /\ Current(exec[y])' /\ exec[y].pc # "over"
    BY <1>2 DEF LeasesWork
  <2>1. up[d] = "up"
    <3>1. up[d] = "down" => Finalizes(d)
      BY DEF FenceInv, FinalizersOK
    <3> QED
      BY <1>1, <3>1 DEF Finalizes
  <2>2. PICK y \in Live : exec[y].eng = d /\ Current(exec[y]) /\ exec[y].pc # "over"
    BY <2>1 DEF FenceInv, LeasesWork
  <2> QED
    BY <1>2, <2>2 DEF Current
<1>8. SendsFenced
  BY NobodySends DEF Live
<1> QED
  BY <1>3, <1>4, <1>5, <1>6, <1>7, <1>8 DEF FenceInv, Sound, Settles

\* Engine e leaves: its objects go, but for finalizers that linger and keep the
\* lease; otherwise the lease is orphaned or given back.
LEMMA Departs ==
  ASSUME FenceInv, NEW e \in Engines,
         DOMAIN exec' = Runs, runs' = [runs EXCEPT ![e] = 0], up' = [up EXCEPT ![e] = "down"],
         plan' = plan, DOMAIN row' = DOMAIN row, row'.status = "none" => row.status = "none",
         \A y \in Runs : exec'[y] = exec[y] \/ (y \in Live /\ exec[y].eng = e /\ exec'[y] = Free),
         \A y \in Live' : exec[y].eng = e => exec[y].fin,
         \/ row' = row /\ (row.owner = e => \E y \in Live' : exec[y].eng = e)
         \/ /\ row.owner = e /\ \A y \in Live' : exec[y].eng # e
            /\ \/ row'.owner = Gone /\ row'.epoch = row.epoch
               \/ row'.owner = None /\ row'.epoch = row.epoch + 1
  PROVE  FenceInv' /\ SendsFenced
<1>1. TablesOK /\ ObjectsOK /\ EpochsOK /\ OwnersOK /\ FinalizersOK /\ ReleasedOK /\ LeasesWork
  BY DEF FenceInv
<1>2. /\ runs'[e] = 0 /\ (\A d \in Engines \ {e} : runs'[d] = runs[d])
      /\ up'[e] = "down" /\ (\A d \in Engines \ {e} : up'[d] = up[d])
      /\ runs' \in [Engines -> Runs \cup {0}] /\ up' \in [Engines -> {"up", "closing", "down"}]
  BY <1>1 DEF TablesOK
<1>3. \A y \in Live' : y \in Live /\ exec'[y] = exec[y]
  BY DEF Live
<1>4. \A y \in Live : exec[y].eng # e => y \in Live'
  BY DEF Live
<1>5. \A y \in Live : /\ exec[y].eng \in Engines /\ exec[y].epoch \in Nat
                      /\ exec[y].epoch <= row.epoch
                      /\ exec[y].epoch = row.epoch => row.owner = exec[y].eng
  BY <1>1 DEF ObjectsOK, EpochsOK
<1>6. row.epoch \in Nat /\ row'.epoch \in Nat
  BY <1>1 DEF TablesOK
<1>7. TablesOK'
  <2>1. ASSUME NEW d \in Engines
        PROVE  /\ runs'[d] # 0 => runs'[d] \in Live' /\ exec'[runs'[d]].eng = d
               /\ up'[d] = "up" /\ runs'[d] = 0 => \A y \in Live' : exec'[y].eng # d
               /\ up'[d] = "down" => runs'[d] = 0
    BY <1>1, <1>2, <1>3, <1>4 DEF TablesOK
  <2>2. row'.status = "none" => Live' = {}
    BY <1>1, <1>3 DEF TablesOK
  <2> QED
    BY <1>1, <1>2, <1>6, <2>1, <2>2 DEF TablesOK
<1>8. ObjectsOK'
  BY <1>1, <1>3 DEF ObjectsOK
<1>9. EpochsOK'
  <2>1. ASSUME NEW y \in Live'
        PROVE  exec'[y].epoch <= row'.epoch /\ (exec'[y].epoch = row'.epoch => row'.owner = exec'[y].eng)
    <3>1. y \in Live /\ exec'[y] = exec[y]
      BY <1>3
    <3> QED
      BY <1>5, <1>6, <3>1
  <2> QED
    BY <2>1 DEF EpochsOK
<1>10. \A y \in Live' : Owns(exec[y])' => row' = row /\ Owns(exec[y])
  BY <1>3, <1>5, PlanAssumption DEF Owns
<1>11. OwnersOK'
  <2> SUFFICES ASSUME NEW y \in Live', Owns(exec[y])'
               PROVE  /\ IF up'[exec'[y].eng] = "down" THEN exec'[y].fin
                         ELSE runs'[exec'[y].eng] = y \/ Spent(exec'[y])
                      /\ runs'[exec'[y].eng] = y \/ exec'[y].fin => row'.status = exec'[y].status
                      /\ up'[exec'[y].eng] = "up" /\ exec'[y].status = "running" =>
                           exec'[y].open /\ exec'[y].pc # "over"
    BY DEF OwnersOK, Spent
  <2>1. y \in Live /\ exec'[y] = exec[y] /\ exec[y].eng \in Engines /\ row' = row /\ Owns(exec[y])
    BY <1>3, <1>5, <1>10
  <2>2. /\ IF up[exec[y].eng] = "down" THEN exec[y].fin ELSE runs[exec[y].eng] = y \/ Spent(exec[y])
        /\ runs[exec[y].eng] = y \/ exec[y].fin => row.status = exec[y].status
        /\ up[exec[y].eng] = "up" /\ exec[y].status = "running" => exec[y].open /\ exec[y].pc # "over"
    BY <1>1, <2>1 DEF OwnersOK
  <2>3. CASE exec[y].eng = e
    BY <1>2, <2>1, <2>2, <2>3
  <2>4. CASE exec[y].eng # e
    BY <1>2, <2>1, <2>2, <2>4
  <2> QED
    BY <2>3, <2>4
<1>12. FinalizersOK'
  <2>1. ASSUME NEW y \in Live', exec'[y].fin
        PROVE  /\ exec'[y].status \in Terminal
               /\ up'[exec'[y].eng] # "down" => runs'[exec'[y].eng] = y
               /\ row'.owner = exec'[y].eng => Owns(exec[y])'
    <3>1. /\ y \in Live /\ exec'[y] = exec[y] /\ exec[y].eng \in Engines
          /\ exec[y].status \in Terminal
          /\ up[exec[y].eng] # "down" => runs[exec[y].eng] = y
          /\ row.owner = exec[y].eng => Owns(exec[y])
      BY <1>1, <1>3, <1>5, <2>1 DEF FinalizersOK
    <3>2. row'.owner = exec[y].eng => row' = row
      BY <3>1, PlanAssumption
    <3> QED
      BY <1>2, <3>1, <3>2 DEF Owns
  <2>2. ASSUME NEW d \in Engines, row'.owner = d, up'[d] = "down"
        PROVE  \E y \in Live' : exec'[y].eng = d /\ exec'[y].fin
    <3>1. row' = row
      BY <2>2, PlanAssumption
    <3>2. CASE d = e
      BY <1>3, <2>2, <3>1, <3>2, PlanAssumption
    <3>3. CASE d # e
      <4>1. PICK y \in Live : exec[y].eng = d /\ exec[y].fin
        BY <1>1, <1>2, <2>2, <3>1, <3>3 DEF FinalizersOK, Finalizes
      <4> QED
        BY <1>3, <1>4, <3>3, <4>1
    <3> QED
      BY <3>2, <3>3
  <2> QED
    BY <2>1, <2>2 DEF FinalizersOK, Finalizes, Terminal
<1>13. ReleasedOK'
  <2> SUFFICES ASSUME NEW d \in Engines, runs'[d] # 0, row'.owner = None,
                      row'.epoch = exec'[runs'[d]].epoch + 1, row'.status \in Terminal
               PROVE  row'.status = exec'[runs'[d]].status
    BY DEF ReleasedOK, Terminal
  <2>1. /\ d # e /\ runs'[d] = runs[d] /\ runs[d] \in Live /\ exec[runs[d]].eng = d
        /\ exec'[runs[d]] = exec[runs[d]]
    BY <1>1, <1>2, <1>3, <1>4 DEF TablesOK
  <2>2. CASE row' = row
    BY <1>1, <2>1, <2>2 DEF ReleasedOK
  <2>3. CASE row.owner = e /\ row'.epoch = row.epoch + 1
    BY <1>5, <1>6, <2>1, <2>3
  <2> QED
    BY <2>2, <2>3, PlanAssumption
<1>14. LeasesWork'
  <2> SUFFICES ASSUME NEW d \in Engines, row'.owner = d, up'[d] = "up",
                      row'.status \in {"queued", "running"}
               PROVE  \E y \in Live' : exec'[y].eng = d /\ Current(exec[y])' /\ exec'[y].pc # "over"
    BY DEF LeasesWork
  <2>1. row' = row /\ d # e /\ up[d] = "up"
    BY <1>2, PlanAssumption
  <2>2. PICK y \in Live : exec[y].eng = d /\ Current(exec[y]) /\ exec[y].pc # "over"
    BY <1>1, <2>1 DEF LeasesWork
  <2>3. y \in Live' /\ exec'[y] = exec[y]
    BY <1>3, <1>4, <2>1, <2>2
  <2> QED
    BY <1>2, <2>1, <2>2, <2>3 DEF Current, Owns
<1>15. SendsFenced
  BY <1>3, NobodySends DEF Live
<1> QED
  BY <1>7, <1>8, <1>9, <1>11, <1>12, <1>13, <1>14, <1>15 DEF FenceInv

\* The end of dispose keeps the fence.
LEMMA DisposeEndsStep ==
  ASSUME FenceInv, NEW e \in Engines, up[e] # "down", DisposeEnds(e), UNCHANGED plan
  PROVE  Sound
<1>1. /\ DOMAIN row = {"status", "nodes", "cursor", "owner", "epoch", "lapsed"} /\ row.epoch \in Nat
      /\ runs[e] # 0 => runs[e] \in Live /\ exec[runs[e]].eng = e
  BY DEF FenceInv, TablesOK
<1>2. /\ exec' = [y \in Runs |-> IF y \in Live /\ exec[y].eng = e /\ ~exec[y].fin THEN Free ELSE exec[y]]
      /\ runs' = [runs EXCEPT ![e] = 0] /\ up' = [up EXCEPT ![e] = "down"]
  BY DEF DisposeEnds
<1>3. /\ DOMAIN exec' = Runs
      /\ \A y \in Runs : exec'[y] = exec[y] \/ (y \in Live /\ exec[y].eng = e /\ exec'[y] = Free)
      /\ \A y \in Live' : y \in Live /\ (exec[y].eng = e => exec[y].fin)
  BY <1>2 DEF Live
<1>4. CASE Finalizes(e)
  <2>1. row' = row
    BY <1>4 DEF DisposeEnds
  <2>2. PICK y \in Live : exec[y].eng = e /\ exec[y].fin
    BY <1>4 DEF Finalizes
  <2>3. y \in Live'
    BY <1>2, <2>2 DEF Live
  <2>4. FenceInv' /\ SendsFenced
    BY <1>2, <1>3, <2>1, <2>2, <2>3, Departs
  <2> QED
    BY <2>1, <2>4 DEF Sound, Settles
<1>5. CASE ~Finalizes(e)
  <2>1. \A y \in Live' : exec[y].eng # e
    BY <1>3, <1>5 DEF Finalizes
  <2>2. CASE runs[e] # 0 /\ Owns(exec[runs[e]])
    <3>1. PICK x : x = runs[e]
      OBVIOUS
    <3>2. PICK p : p = Parked(exec[x])
      OBVIOUS
    <3>3. row' = Released(IF p = exec[x] THEN row ELSE Written(p, row))
      BY <1>5, <2>2, <3>1, <3>2 DEF DisposeEnds
    <3>4. /\ x \in Live /\ Shaped(exec[x]) /\ DOMAIN exec[x] = Fields /\ row.owner = e
          /\ row.status = exec[x].status
      BY <2>2, <3>1, Listed DEF Owns
    <3>5. /\ p # exec[x] => exec[x].status \notin Terminal
          /\ p.status \in {"running", "paused", "queued"} \cup Terminal
      BY <3>2, <3>4 DEF Parked, Shaped, Fields
    <3>6. /\ DOMAIN row' = DOMAIN row /\ row'.owner = None /\ row'.epoch = row.epoch + 1
          /\ row'.status = IF p = exec[x] THEN row.status ELSE p.status
      BY <1>1, <3>3 DEF Released, Written
    <3>7. row'.status = "none" => row.status = "none"
      BY <3>5, <3>6 DEF Terminal
    <3>8. FenceInv' /\ SendsFenced
      BY <1>2, <1>3, <2>1, <3>4, <3>6, <3>7, Departs
    <3> QED
      BY <3>4, <3>5, <3>6, <3>8 DEF Sound, Settles
  <2>3. CASE ~ (runs[e] # 0 /\ Owns(exec[runs[e]]))
    <3>1. row' = Orphaned(row, e)
      BY <1>5, <2>3 DEF DisposeEnds
    <3>2. /\ DOMAIN row' = DOMAIN row /\ row'.epoch = row.epoch /\ row'.status = row.status
          /\ IF row.owner = e THEN row'.owner = Gone ELSE row' = row
      BY <1>1, <3>1 DEF Orphaned
    <3>3. FenceInv' /\ SendsFenced
      BY <1>2, <1>3, <2>1, <3>2, Departs
    <3> QED
      BY <3>2, <3>3 DEF Sound, Settles
  <2> QED
    BY <2>2, <2>3
<1> QED
  BY <1>4, <1>5

\* A crash keeps the fence.
LEMMA CrashStep ==
  ASSUME FenceInv, NEW e \in Engines, Crash(e)
  PROVE  Sound
<1>1. DOMAIN row = {"status", "nodes", "cursor", "owner", "epoch", "lapsed"}
  BY DEF FenceInv, TablesOK
<1>2. /\ exec' = [y \in Runs |-> IF y \in Live /\ exec[y].eng = e THEN Free ELSE exec[y]]
      /\ runs' = [runs EXCEPT ![e] = 0] /\ up' = [up EXCEPT ![e] = "down"] /\ plan' = plan
      /\ row' = Orphaned(row, e)
  BY DEF Crash
<1>3. /\ DOMAIN exec' = Runs
      /\ \A y \in Runs : exec'[y] = exec[y] \/ (y \in Live /\ exec[y].eng = e /\ exec'[y] = Free)
      /\ \A y \in Live' : exec[y].eng # e
  BY <1>2 DEF Live
<1>4. /\ DOMAIN row' = DOMAIN row /\ row'.epoch = row.epoch /\ row'.status = row.status
      /\ IF row.owner = e THEN row'.owner = Gone ELSE row' = row
  BY <1>1, <1>2 DEF Orphaned
<1>5. FenceInv' /\ SendsFenced
  BY <1>2, <1>3, <1>4, Departs
<1> QED
  BY <1>4, <1>5 DEF Sound, Settles

-----------------------------------------------------------------------------
(* The theorems *)

Resumed == \E e \in Engines, x \in Runs, s \in Strategies : Resume(e, x, s)

\* What was overwritten stays so.
LEMMA OverwrittenStays ==
  ASSUME [Next]_vars, overwritten
  PROVE  overwritten'
<1>1. ASSUME NEW x \in Runs, Continues(x) PROVE overwritten'
  <2>1. ASSUME NEW o, NEW r, Stops(x, o, r) \/ Becomes(x, o, r) PROVE overwritten'
    BY <2>1 DEF Stops, Becomes
  <2>2. ASSUME NEW n \in Nodes, Created(x, n) \/ Sent(x, n) PROVE overwritten'
    BY <2>1, <2>2 DEF Created, Sent, Advances
  <2>3. ASSUME NEW n \in Nodes, NEW ok \in BOOLEAN, NodeEnds(x, n, ok) PROVE overwritten'
    BY <2>1, <2>3 DEF NodeEnds
  <2>4. CASE BatchEnds(x)
    BY <2>1, <2>4 DEF BatchEnds
  <2>5. ASSUME NEW approved \in BOOLEAN, ReviewEnds(x, approved) PROVE overwritten'
    BY <2>1, <2>5 DEF ReviewEnds
  <2>6. CASE CloseEnds(x)
    BY <2>1, <2>6 DEF CloseEnds
  <2>7. CASE FinalizerEnds(x)
    BY <2>7 DEF FinalizerEnds
  <2> QED
    BY <1>1, <2>2, <2>3, <2>4, <2>5, <2>6, <2>7 DEF Continues
<1>2. ASSUME NEW e \in Engines, RegisterArtifact(e) PROVE overwritten'
  BY <1>2 DEF RegisterArtifact
<1>3. ASSUME NEW e \in Engines, NEW x \in Runs, NEW s,
             Recover(e, x) \/ Run(e, x) \/ CancelStored(e, x) \/ Resume(e, x, s)
      PROVE  overwritten'
  BY <1>3 DEF Recover, Run, CancelStored, Resume
<1>4. ASSUME NEW e \in Engines, Renew(e) \/ Start(e) \/ DisposeReturns(e) \/ RecoverFails(e)
                                \/ Pause(e) \/ Cancel(e) \/ Dispose(e) \/ Crash(e)
      PROVE  overwritten'
  BY <1>4 DEF Renew, Start, DisposeReturns, RecoverFails, Pause, Cancel, Dispose, Crash
<1>5. ASSUME NEW x \in Runs, TimesOut(x) PROVE overwritten'
  BY <1>5 DEF TimesOut
<1>6. CASE Lapse
  BY <1>6 DEF Lapse
<1>7. CASE UNCHANGED vars
  BY <1>7 DEF vars
<1>8. CASE Next
  BY <1>1, <1>2, <1>3, <1>4, <1>5, <1>6, <1>8 DEF Next, Work, Control
<1> QED
  BY <1>7, <1>8

\* Every step that writes no old object over a newer checkpoint keeps the fence, sends
\* under it only, and leaves a terminal state by a resume only.
LEMMA FenceStep ==
  ASSUME FenceInv, [Next]_vars, ~overwritten'
  PROVE  FenceInv' /\ SendsFenced /\ (Settles \/ Resumed)
<1>1. ASSUME NEW x \in Runs, Continues(x) PROVE Sound
  BY <1>1, ContinuesStep
<1>2. ASSUME NEW e \in Engines, NEW x \in Runs, Recover(e, x) PROVE Sound
  BY <1>2, RecoverStep
<1>3. ASSUME NEW e \in Engines, Renew(e) PROVE Sound
  BY <1>3, RenewStep
<1>4. ASSUME NEW e \in Engines, Start(e) PROVE Sound
  BY <1>4, LifeStep DEF Start
<1>5. ASSUME NEW e \in Engines, DisposeReturns(e) PROVE Sound
  BY <1>5, DisposeEndsStep DEF DisposeReturns
<1>6. ASSUME NEW e \in Engines, NEW x \in Runs, Run(e, x) PROVE Sound
  BY <1>6, RunStep
<1>7. ASSUME NEW e \in Engines, RecoverFails(e) PROVE Sound
  BY <1>7, RecoverFailsStep
<1>8. ASSUME NEW e \in Engines, Pause(e) \/ Cancel(e) \/ RegisterArtifact(e) PROVE Sound
  BY <1>8, PauseStep, CancelStep, RegisterArtifactStep
<1>9. ASSUME NEW e \in Engines, NEW x \in Runs, CancelStored(e, x) PROVE Sound
  BY <1>9, CancelStoredStep
<1>10. ASSUME NEW e \in Engines, NEW x \in Runs, NEW s \in Strategies, Resume(e, x, s)
       PROVE  FenceInv' /\ SendsFenced /\ Resumed
  BY <1>10, ResumeStep DEF Resumed
<1>11. ASSUME NEW e \in Engines, Dispose(e) PROVE Sound
  <2>1. up[e] = "up" /\ UNCHANGED plan
    BY <1>11 DEF Dispose
  <2>2. CASE Finalizes(e)
    BY <1>11, <2>1, <2>2, LifeStep DEF Dispose
  <2>3. CASE ~Finalizes(e)
    BY <1>11, <2>1, <2>3, DisposeEndsStep DEF Dispose
  <2> QED
    BY <2>2, <2>3
<1>12. ASSUME NEW e \in Engines, Crash(e) PROVE Sound
  BY <1>12, CrashStep
<1>13. ASSUME NEW x \in Runs, TimesOut(x) PROVE Sound
  BY <1>13, TimesOutStep
<1>14. CASE Lapse
  BY <1>14, LapseStep DEF Sound
<1>15. CASE UNCHANGED vars
  <2>1. FenceInv'
    BY <1>15 DEF vars, FenceInv, TablesOK, ObjectsOK, EpochsOK, OwnersOK, FinalizersOK, ReleasedOK,
                 LeasesWork, Live, Owns, Current, Finalizes, Spent
  <2>2. SendsFenced /\ Settles
    BY <1>15, NobodySends DEF vars, Live, Settles
  <2> QED
    BY <2>1, <2>2
<1>16. CASE Next
  BY <1>1, <1>2, <1>3, <1>4, <1>5, <1>6, <1>7, <1>8, <1>9, <1>10, <1>11, <1>12, <1>13, <1>14, <1>16
     DEF Next, Work, Control, Sound
<1> QED
  BY <1>15, <1>16

\* The fence holds initially.
LEMMA FenceInit ==
  ASSUME Init
  PROVE  FenceInv
<1>1. /\ plan \in Plans /\ DOMAIN exec = Runs /\ Live = {}
      /\ DOMAIN row = {"status", "nodes", "cursor", "owner", "epoch", "lapsed"}
      /\ row.epoch = 0 /\ row.owner = None
      /\ \A e \in Engines : runs[e] = 0 /\ up[e] = "up"
      /\ runs \in [Engines -> Runs \cup {0}] /\ up \in [Engines -> {"up", "closing", "down"}]
  BY DEF Init, Live
<1> QED
  BY <1>1, PlanAssumption DEF FenceInv, TablesOK, ObjectsOK, EpochsOK, OwnersOK, FinalizersOK,
     ReleasedOK, LeasesWork

\* The inductive invariant, until an old object is written over a newer checkpoint:
\* epochs are granted once, of the objects that hold the lease only the one in its
\* engine's table acts, and it works exactly as long as the row says that the
\* workflow runs.
THEOREM FenceInvariant == Spec => [](overwritten \/ FenceInv)
<1>1. Init => overwritten \/ FenceInv
  BY FenceInit
<1>2. (overwritten \/ FenceInv) /\ [Next]_vars => (overwritten \/ FenceInv)'
  BY FenceStep, OverwrittenStays
<1> QED
  BY <1>1, <1>2, PTL DEF Spec

\* At most one execution of the workflow passes the fence, however engines lose the
\* lease, take over, pause and resume, until an old object is written over a newer
\* checkpoint.
THEOREM ExecutesOnce == Spec => []OneExecutor
<1>1. FenceInv => AtMostOne
  <2> SUFFICES ASSUME FenceInv, NEW x \in Live, NEW y \in Live,
                      Current(exec[x]), Current(exec[y])
               PROVE  x = y
    BY DEF AtMostOne
  <2>1. runs[exec[x].eng] = x /\ runs[exec[y].eng] = y /\ exec[x].eng = exec[y].eng
    BY CurrentIsListed DEF Owns
  <2> QED
    BY <2>1
<1>2. (overwritten \/ FenceInv) => OneExecutor
  BY <1>1 DEF OneExecutor
<1> QED
  BY <1>2, FenceInvariant, PTL

\* A lease that its engine holds for a workflow in progress is worked for there,
\* until an old object is written over a newer checkpoint.
THEOREM LeaseWorks == Spec => []LeaseIsWork
<1>1. (overwritten \/ FenceInv) => LeaseIsWork
  BY DEF FenceInv, LeaseIsWork
<1> QED
  BY <1>1, FenceInvariant, PTL

\* A terminal state is left by an explicit resume only, and completed never, whatever
\* late executors, finalizers and old owners still do, short of writing an old object
\* over a newer checkpoint.
THEOREM TerminalStates == Spec => TerminalHolds
<1>1. (overwritten \/ FenceInv) /\ [Next]_vars =>
        [row.status \in Terminal /\ row'.status # row.status /\ ~overwritten' =>
           /\ row.status # "completed"
           /\ \E e \in Engines, x \in Runs, s \in Strategies : Resume(e, x, s)]_vars
  <2> SUFFICES ASSUME overwritten \/ FenceInv, [Next]_vars,
                      row.status \in Terminal, row'.status # row.status, ~overwritten'
               PROVE  /\ row.status # "completed"
                      /\ \E e \in Engines, x \in Runs, s \in Strategies : Resume(e, x, s)
    OBVIOUS
  <2>1. FenceInv
    BY OverwrittenStays
  <2>2. PICK e \in Engines, x \in Runs, s \in Strategies : Resume(e, x, s)
    BY <2>1, FenceStep DEF Settles, Resumed
  <2> QED
    BY <2>2 DEF Resume
<1> QED
  BY <1>1, FenceInvariant, PTL DEF Spec, TerminalHolds

\* A turn is sent only while the store says that the workflow runs under the lease
\* of the engine that sends it, until an old object is written over a newer
\* checkpoint.
THEOREM SendsUnderLease == Spec => FencedSends
<1>1. (overwritten \/ FenceInv) /\ [Next]_vars =>
        [\A x \in Runs, n \in Nodes :
           ~Task(x, n, "send") /\ Task(x, n, "send")' =>
             overwritten' \/ (row'.status = "running" /\ row'.owner = exec[x].eng)]_vars
  BY FenceStep, OverwrittenStays DEF SendsFenced
<1> QED
  BY <1>1, FenceInvariant, PTL DEF Spec, FencedSends

-----------------------------------------------------------------------------
(***************************************************************************)
(* What the checkpoint records.  From here on an object is looked at as    *)
(* the work that it knows to be done.                                      *)
(***************************************************************************)
\* Where an object stands: DOMAIN and types.
Well(o) == DOMAIN o = Fields /\ Formed(o)

\* q has everything that o has done, in the same round.
Closer(q, o) == q.cursor.round = o.cursor.round /\ Done(o) \subseteq Done(q)

\* p goes on where o stood, and creates no session for what o has done.
Onward(p, o) ==
  \/ p.cursor.round = o.cursor.round + 1
  \/ Closer(p, o) /\ \A n \in Done(o) \cap Nodes : p.task[n] # "create"

\* What goes on from an object that is closer goes on from the one before.
LEMMA OnwardFrom ==
  ASSUME NEW o, NEW q, NEW p, Closer(q, o), Onward(p, q)
  PROVE  Onward(p, o)
BY DEF Onward, Closer

\* What is done only depends on the nodes of a DAG, on the cursor elsewhere.
LEMMA DoneSame ==
  ASSUME NEW p, NEW o, p.cursor = o.cursor,
         plan.mode = "dag" => \A n \in Nodes : o.nodes[n] = "completed" => p.nodes[n] = "completed"
  PROVE  Closer(p, o)
BY DEF Closer, Done

\* Another place in the code goes on from the object.
LEMMA AtOnward ==
  ASSUME NEW o, Well(o), NEW pc, pc = "review" => plan.mode = "graph"
  PROVE  Well(At(o, pc)) /\ Onward(At(o, pc), o)
<1>1. /\ DOMAIN At(o, pc) = Fields /\ At(o, pc).cursor = o.cursor /\ At(o, pc).nodes = o.nodes
      /\ At(o, pc).todo = o.todo /\ At(o, pc).task = Idle /\ At(o, pc).pc = pc
  BY DEF At, Well, Fields
<1>2. Formed(At(o, pc))
  BY <1>1 DEF Well, Formed, Idle, Busy
<1>3. Closer(At(o, pc), o)
  BY <1>1, DoneSame
<1> QED
  BY <1>1, <1>2, <1>3 DEF Well, Onward, Idle

\* A batch of nodes that are not done goes on from the object.
LEMMA BeginOnward ==
  ASSUME NEW o, Well(o), NEW S \in SUBSET Nodes, S \cap o.todo = {}, S \cap Done(o) = {}
  PROVE  Well(Begin(o, S)) /\ Onward(Begin(o, S), o)
<1> DEFINE p == Begin(o, S)
<1>1. /\ DOMAIN p = Fields /\ p.cursor = o.cursor /\ p.todo = o.todo /\ p.pc = "batch"
      /\ p.nodes = [n \in Nodes |-> IF n \in S THEN "running" ELSE o.nodes[n]]
      /\ p.task = [n \in Nodes |-> IF n \in S THEN "create" ELSE "none"]
  BY DEF Begin, Well, Fields
<1> HIDE DEF p
<1>2. Formed(p)
  <2>1. p.nodes \in [Nodes -> NodeStates] /\ p.task \in [Nodes -> Busy \cup {"none", "ok", "err"}]
    BY <1>1 DEF Well, Formed, NodeStates, Busy
  <2> QED
    BY <1>1, <2>1 DEF Well, Formed, Busy
<1>3. Closer(p, o)
  <2>1. plan.mode = "dag" => \A n \in Nodes : o.nodes[n] = "completed" => n \notin S
    BY DEF Done
  <2> QED
    BY <1>1, <2>1, DoneSame
<1>4. \A n \in Done(o) \cap Nodes : p.task[n] # "create"
  BY <1>1
<1> QED
  BY <1>1, <1>2, <1>3, <1>4 DEF Well, Onward, p

\* The batch of a DAG is taken from the nodes that are still to do.
LEMMA NextBatchOnward ==
  ASSUME plan.mode = "dag", NEW o, Well(o), NEW p \in NextBatch(o)
  PROVE  Well(p) /\ Onward(p, o)
<1>1. PICK B \in Batches(o.todo) : p = [Begin(o, B) EXCEPT !.todo = o.todo \ B]
  BY DEF NextBatch
<1>2. B \subseteq o.todo /\ B \subseteq Nodes
  BY DEF Batches, Well, Formed
<1>3. /\ DOMAIN p = Fields /\ p.cursor = o.cursor /\ p.todo = o.todo \ B /\ p.pc = "batch"
      /\ p.nodes = [n \in Nodes |-> IF n \in B THEN "running" ELSE o.nodes[n]]
      /\ p.task = [n \in Nodes |-> IF n \in B THEN "create" ELSE "none"]
  BY <1>1 DEF Begin, Well, Fields
<1>4. \A n \in B : n \notin Done(o)
  BY <1>2 DEF Done, Well, Formed
<1>5. Formed(p)
  <2>1. p.nodes \in [Nodes -> NodeStates] /\ p.task \in [Nodes -> Busy \cup {"none", "ok", "err"}]
    BY <1>3 DEF Well, Formed, NodeStates, Busy
  <2> QED
    BY <1>3, <2>1 DEF Well, Formed, Busy
<1>6. Closer(p, o)
  <2>1. \A n \in Nodes : o.nodes[n] = "completed" => n \notin B
    BY <1>4 DEF Done
  <2> QED
    BY <1>3, <2>1, DoneSame
<1> QED
  BY <1>3, <1>4, <1>5, <1>6 DEF Well, Onward

\* A round of executeDag begins no node that is done.
LEMMA DagOnward ==
  ASSUME plan.mode = "dag", NEW o, Well(o), NEW p \in DagRound(o),
         \A n \in Nodes : o.task[n] = "none"
  PROVE  Well(p) /\ Onward(p, o)
<1> DEFINE skipped == IF Runnable(o.nodes) = {} THEN Nodes \ Settled(o.nodes) ELSE ToSkip(o.nodes)
           q == [o EXCEPT !.nodes = [n \in Nodes |-> IF n \in skipped THEN "skipped" ELSE @[n]],
                          !.todo = Runnable(o.nodes)]
<1>1. p \in (IF q.todo = {} THEN {At(q, "done")} ELSE NextBatch(q))
  BY DEF DagRound
<1>2. \A n \in Nodes : o.nodes[n] = "completed" => n \notin skipped /\ n \notin Runnable(o.nodes)
  BY DEF Settled, ToSkip, Runnable, Ready
<1>3. Runnable(o.nodes) \subseteq Nodes /\ Runnable(o.nodes) \cap skipped = {}
  BY DEF Runnable, Ready, ToSkip
<1>4. /\ DOMAIN q = Fields /\ q.cursor = o.cursor /\ q.task = o.task /\ q.pc = o.pc
      /\ q.todo = Runnable(o.nodes)
      /\ q.nodes = [n \in Nodes |-> IF n \in skipped THEN "skipped" ELSE o.nodes[n]]
  BY DEF Well, Fields
<1> HIDE DEF q, skipped
<1>5. Well(q)
  <2>1. q.nodes \in [Nodes -> NodeStates]
    BY <1>4 DEF Well, Formed, NodeStates
  <2> QED
    BY <1>2, <1>3, <1>4, <2>1 DEF Well, Formed, Busy
<1>6. Closer(q, o)
  BY <1>2, <1>4, DoneSame
<1>7. CASE p = At(q, "done")
  BY <1>5, <1>6, <1>7, AtOnward, OnwardFrom
<1>8. CASE p \in NextBatch(q)
  BY <1>5, <1>6, <1>8, NextBatchOnward, OnwardFrom
<1> QED
  BY <1>1, <1>7, <1>8

\* The directive that comes next is one of the cursor's, and not handled.
LEMMA FirstUnhandled ==
  ASSUME NEW c, c.dirs \in Seq(Others \cup {"done", "review"}), Unhandled(c) # {}
  PROVE  First(c) \in Others \cup {"done", "review"} /\ First(c) \notin c.spoke
<1>1. Unhandled(c) \subseteq Nat /\ Unhandled(c) \subseteq DOMAIN c.dirs
  BY DEF Unhandled
<1>2. \E i \in Unhandled(c) : \A j \in Unhandled(c) : <<j, i>> \notin OpToRel(<, Nat)
  BY <1>1, WFMin, NatLessThanWellFounded, Zenon
<1>3. \E i \in Unhandled(c) : \A j \in Unhandled(c) : i <= j
  <2>1. PICK i \in Unhandled(c) : \A j \in Unhandled(c) : <<j, i>> \notin OpToRel(<, Nat)
    BY <1>2
  <2>2. \A j \in Nat : i \in Nat /\ j < i => <<j, i>> \in OpToRel(<, Nat)
    BY DEF OpToRel
  <2>3. \A j \in Unhandled(c) : ~(j < i)
    BY <1>1, <2>1, <2>2
  <2>4. \A j \in Unhandled(c) : i <= j
    BY <1>1, <2>3
  <2> QED
    BY <2>4
<1>4. PICK i \in Unhandled(c) : First(c) = c.dirs[i]
  BY <1>3 DEF First
<1> QED
  BY <1>1, <1>4 DEF Unhandled

\* The cursors that the executors write are well formed.
LEMMA CursorForms ==
  ASSUME NEW c \in Cursors
  PROVE  /\ \A n \in Nat : [c EXCEPT !.round = n] \in Cursors
         /\ \A d \in Others \cup {"review"} : [c EXCEPT !.spoke = @ \cup {d}] \in Cursors
         /\ \A v \in {"none", "on", "end"} : [c EXCEPT !.verdict = v] \in Cursors
         /\ [c EXCEPT !.phase = "chairman"] \in Cursors
         /\ \A dirs \in Seq(Others \cup {"done", "review"}) :
              [c EXCEPT !.phase = "directives", !.dirs = dirs] \in Cursors
BY DEF Cursors

\* A round's first cursor records nothing.
LEMMA FirstCursor == Cursor0 \in Cursors /\ Cursor0.spoke = {}
BY DEF Cursors, Cursor0

\* The first cursor of a round is well formed and knows nothing.
LEMMA NextRound ==
  ASSUME plan \in Plans, NEW o, Well(o), NEW q,
         q = [o EXCEPT !.cursor = [Cursor0 EXCEPT !.round = o.cursor.round + 1]]
  PROVE  /\ Well(q) /\ q.cursor.round = o.cursor.round + 1 /\ q.cursor.spoke = {}
         /\ q.todo = o.todo /\ q.task = o.task
<1>1. /\ DOMAIN q = Fields /\ q.nodes = o.nodes /\ q.task = o.task /\ q.todo = o.todo /\ q.pc = o.pc
      /\ q.cursor = [Cursor0 EXCEPT !.round = o.cursor.round + 1]
  BY DEF Well, Fields
<1>2. o.cursor.round \in Nat
  BY DEF Well, Formed, Cursors
<1>3. q.cursor \in Cursors /\ q.cursor.round = o.cursor.round + 1 /\ q.cursor.spoke = {}
  <2>1. PICK c \in Cursors : c = Cursor0 /\ c.spoke = {}
    BY FirstCursor
  <2>2. PICK n \in Nat : n = o.cursor.round + 1
    BY <1>2
  <2>3. [c EXCEPT !.round = n] \in Cursors
    BY <2>2, CursorForms
  <2>4. q.cursor = [c EXCEPT !.round = n]
    BY <1>1, <2>1, <2>2
  <2>5. q.cursor.round = n /\ q.cursor.spoke = c.spoke
    BY <2>1, <2>4 DEF Cursors
  <2> QED
    BY <2>1, <2>2, <2>3, <2>4, <2>5
<1> QED
  BY <1>1, <1>3 DEF Well, Formed

\* A round of executeGraph goes on from the cursor.
LEMMA GraphOnward ==
  ASSUME plan \in Plans, plan.mode = "graph", NEW o, Well(o)
  PROVE  Well(GraphRound(o)) /\ Onward(GraphRound(o), o)
<1> DEFINE q == [o EXCEPT !.cursor = [Cursor0 EXCEPT !.round = o.cursor.round + 1]]
<1>1. o.cursor \in Cursors /\ o.todo = {}
  BY DEF Well, Formed
<1>2. \/ o.cursor.phase = "executor" /\ GraphRound(o) = Begin(o, {Lead})
      \/ GraphRound(o) = Begin(q, {Lead})
      \/ \E pc \in {"fail", "closing", "review"} : GraphRound(o) = At(o, pc)
      \/ /\ Unhandled(o.cursor) # {} /\ First(o.cursor) \notin {"done", "review"}
         /\ GraphRound(o) = Begin(o, {First(o.cursor)})
  BY DEF GraphRound
<1>3. Well(q) /\ q.cursor.round = o.cursor.round + 1 /\ q.cursor.spoke = {} /\ q.todo = {}
  BY <1>1, NextRound
<1> HIDE DEF q
<1>4. CASE o.cursor.phase = "executor" /\ GraphRound(o) = Begin(o, {Lead})
  <2>1. Lead \in Nodes /\ Lead \notin Done(o)
    BY <1>1, <1>4, PlanAssumption DEF Done, Cursors, Others
  <2> QED
    BY <1>1, <1>4, <2>1, BeginOnward
<1>5. CASE GraphRound(o) = Begin(q, {Lead})
  <2>1. Begin(q, {Lead}).cursor = q.cursor
    BY <1>3 DEF Begin, Well, Fields
  <2>2. /\ DOMAIN Begin(q, {Lead}) = Fields
        /\ Begin(q, {Lead}).nodes = [n \in Nodes |-> IF n \in {Lead} THEN "running" ELSE q.nodes[n]]
        /\ Begin(q, {Lead}).task = [n \in Nodes |-> IF n \in {Lead} THEN "create" ELSE "none"]
        /\ Begin(q, {Lead}).todo = {} /\ Begin(q, {Lead}).pc = "batch"
    BY <1>3 DEF Begin, Well, Fields
  <2>3. Well(Begin(q, {Lead}))
    <3>1. PICK p : p = Begin(q, {Lead})
      OBVIOUS
    <3>2. q.nodes \in [Nodes -> NodeStates]
      BY <1>3 DEF Well, Formed
    <3>3. p.nodes = [n \in Nodes |-> IF n \in {Lead} THEN "running" ELSE q.nodes[n]]
      BY <2>2, <3>1
    <3>4. p.nodes \in [Nodes -> NodeStates]
      BY <3>2, <3>3 DEF NodeStates
    <3>5. /\ p.task \in [Nodes -> Busy \cup {"none", "ok", "err"}] /\ p.todo = {} /\ p.pc = "batch"
          /\ \A n \in Nodes : p.task[n] \in Busy => p.nodes[n] # "completed"
      BY <2>2, <3>1 DEF Busy
    <3> QED
      BY <1>3, <2>1, <2>2, <3>1, <3>4, <3>5 DEF Well, Formed
  <2> QED
    BY <1>3, <1>5, <2>1, <2>3 DEF Onward
<1>6. ASSUME NEW pc \in {"fail", "closing", "review"}, GraphRound(o) = At(o, pc)
      PROVE  Well(GraphRound(o)) /\ Onward(GraphRound(o), o)
  BY <1>6, AtOnward
<1>7. CASE /\ Unhandled(o.cursor) # {} /\ First(o.cursor) \notin {"done", "review"}
           /\ GraphRound(o) = Begin(o, {First(o.cursor)})
  <2>1. First(o.cursor) \in Others /\ First(o.cursor) \notin o.cursor.spoke
    BY <1>1, <1>7, FirstUnhandled DEF Cursors
  <2>2. First(o.cursor) \in Nodes /\ First(o.cursor) \notin Done(o)
    BY <2>1 DEF Done, Others
  <2> QED
    BY <1>1, <1>7, <2>2, BeginOnward
<1> QED
  BY <1>2, <1>4, <1>5, <1>6, <1>7

\* A round of executeDiscussion asks no speaker who has spoken in it.
LEMMA DiscussionOnward ==
  ASSUME plan \in Plans, plan.mode = "discussion", NEW o, Well(o), NEW p \in DiscussionRound(o)
  PROVE  Well(p) /\ Onward(p, o)
<1> DEFINE chairman == [o EXCEPT !.cursor.phase = "chairman"]
           next == [o EXCEPT !.cursor = [Cursor0 EXCEPT !.round = o.cursor.round + 1]]
<1>1. o.cursor \in Cursors /\ o.todo = {} /\ Lead \in Nodes /\ Lead \notin o.cursor.spoke
  BY PlanAssumption DEF Well, Formed, Cursors, Others
<1>2. /\ DOMAIN chairman = Fields /\ chairman.cursor = [o.cursor EXCEPT !.phase = "chairman"]
      /\ chairman.nodes = o.nodes /\ chairman.task = o.task /\ chairman.todo = {} /\ chairman.pc = o.pc
  BY <1>1 DEF Well, Fields
<1>3. /\ chairman.cursor \in Cursors /\ chairman.cursor.round = o.cursor.round
      /\ chairman.cursor.spoke = o.cursor.spoke /\ chairman.cursor.verdict = o.cursor.verdict
  BY <1>1, <1>2 DEF Cursors
<1>4. Well(chairman) /\ Closer(chairman, o)
  BY <1>2, <1>3 DEF Well, Formed, Closer, Done
<1>5. Well(next) /\ next.cursor.round = o.cursor.round + 1 /\ next.cursor.spoke = {} /\ next.todo = {}
  BY <1>1, NextRound
<1>6. \/ \E B \in Batches(Others \ o.cursor.spoke) : p = Begin(o, B)
      \/ o.cursor.verdict = "none" /\ p = Begin(chairman, {Lead})
      \/ p = At(chairman, "closing")
      \/ \E B \in Batches(Others) : p = Begin(next, B)
  <2> DEFINE verdict == o.cursor.verdict
  <2>1. CASE o.cursor.phase = "participants" /\ Others \ o.cursor.spoke # {}
    BY <2>1 DEF DiscussionRound
  <2>2. CASE ~ (o.cursor.phase = "participants" /\ Others \ o.cursor.spoke # {})
    <3>1. CASE verdict = "none"
      BY <2>2, <3>1 DEF DiscussionRound
    <3>2. CASE verdict # "none" /\ (verdict = "end" \/ o.cursor.round >= plan.rounds)
      BY <2>2, <3>2 DEF DiscussionRound
    <3>3. CASE verdict # "none" /\ ~(verdict = "end" \/ o.cursor.round >= plan.rounds)
      BY <2>2, <3>3 DEF DiscussionRound
    <3> QED
      BY <3>1, <3>2, <3>3
  <2> QED
    BY <2>1, <2>2
<1> HIDE DEF chairman, next
<1>7. ASSUME NEW B \in Batches(Others \ o.cursor.spoke), p = Begin(o, B)
      PROVE  Well(p) /\ Onward(p, o)
  <2>1. B \subseteq Nodes /\ B \cap Done(o) = {}
    BY <1>1, <1>7 DEF Batches, Others, Done
  <2> QED
    BY <1>1, <1>7, <2>1, BeginOnward
<1>8. CASE o.cursor.verdict = "none" /\ p = Begin(chairman, {Lead})
  <2>1. Lead \notin Done(chairman)
    BY <1>1, <1>3, <1>8 DEF Done
  <2> QED
    BY <1>1, <1>2, <1>4, <1>8, <2>1, BeginOnward, OnwardFrom
<1>9. CASE p = At(chairman, "closing")
  BY <1>4, <1>9, AtOnward, OnwardFrom
<1>10. ASSUME NEW B \in Batches(Others), p = Begin(next, B)
       PROVE  Well(p) /\ Onward(p, o)
  <2>1. B \subseteq Nodes
    BY <1>10 DEF Batches, Others
  <2>2. /\ DOMAIN p = Fields /\ p.cursor = next.cursor /\ p.todo = {} /\ p.pc = "batch"
        /\ p.nodes = [n \in Nodes |-> IF n \in B THEN "running" ELSE next.nodes[n]]
        /\ p.task = [n \in Nodes |-> IF n \in B THEN "create" ELSE "none"]
    BY <1>5, <1>10 DEF Begin, Well, Fields
  <2>3. p.nodes \in [Nodes -> NodeStates]
    BY <1>5, <2>2 DEF Well, Formed, NodeStates
  <2>4. Well(p)
    BY <1>5, <2>2, <2>3 DEF Well, Formed, Busy
  <2> QED
    BY <1>5, <2>2, <2>4 DEF Onward
<1> QED
  BY <1>6, <1>7, <1>8, <1>9, <1>10

\* Whatever the mode, a round goes on from the object.
LEMMA ProceedOnward ==
  ASSUME plan \in Plans, NEW o, Well(o), \A n \in Nodes : o.task[n] = "none", NEW p \in Proceed(o)
  PROVE  Well(p) /\ Onward(p, o)
<1>1. plan.mode \in {"dag", "graph", "discussion"}
  BY PlanAssumption
<1>2. CASE plan.mode = "dag"
  BY <1>2, DagOnward DEF Proceed
<1>3. CASE plan.mode = "graph"
  BY <1>3, GraphOnward DEF Proceed
<1>4. CASE plan.mode = "discussion"
  BY <1>4, DiscussionOnward DEF Proceed
<1> QED
  BY <1>1, <1>2, <1>3, <1>4

\* The executor answered: it is done in this round, and its directives follow.
LEMMA DecidedOnward ==
  ASSUME plan \in Plans, plan.mode = "graph", NEW o, Well(o), NEW dirs \in Decisions
  PROVE  Well(Decided(o, dirs)) /\ Onward(Decided(o, dirs), o)
<1> DEFINE q == [o EXCEPT !.cursor.phase = "directives", !.cursor.dirs = dirs]
<1>1. Decided(o, dirs) = IF \E i \in DOMAIN dirs : dirs[i] = "done" THEN At(q, "closing")
                         ELSE IF dirs = <<>> THEN At(q, "fail") ELSE GraphRound(q)
  BY DEF Decided
<1>2. dirs \in Seq(Others \cup {"done", "review"}) /\ o.cursor \in Cursors
  BY PlanAssumption DEF Others, Well, Formed
<1>3. /\ DOMAIN q = Fields /\ q.cursor = [o.cursor EXCEPT !.phase = "directives", !.dirs = dirs]
      /\ q.nodes = o.nodes /\ q.task = o.task /\ q.todo = o.todo /\ q.pc = o.pc
  BY <1>2 DEF Well, Fields, Cursors
<1>4. /\ q.cursor \in Cursors /\ q.cursor.round = o.cursor.round /\ q.cursor.spoke = o.cursor.spoke
      /\ q.cursor.phase = "directives"
  <2>1. PICK c \in Cursors : c = o.cursor
    BY <1>2
  <2>2. PICK d : d = [c EXCEPT !.phase = "directives", !.dirs = dirs]
    OBVIOUS
  <2>3. d \in Cursors /\ d.round = c.round /\ d.spoke = c.spoke /\ d.phase = "directives"
    BY <1>2, <2>2, CursorForms, ZenonT(60) DEF Cursors
  <2>4. q.cursor = d
    BY <1>3, <2>1, <2>2
  <2> HIDE DEF q
  <2> QED
    BY <2>1, <2>3, <2>4
<1> HIDE DEF q
<1>5. Well(q) /\ Closer(q, o)
  BY <1>3, <1>4 DEF Well, Formed, Closer, Done
<1> QED
  BY <1>1, <1>5, AtOnward, GraphOnward, OnwardFrom

\* A target is handled, with or without something for the executor to read.
LEMMA HandledCloser ==
  ASSUME plan.mode # "dag", NEW o, Well(o), NEW d \in Others \cup {"review"}
  PROVE  /\ Well(Handled(o, d)) /\ Closer(Handled(o, d), o)
         /\ Well(Reported(o, d)) /\ Closer(Reported(o, d), o)
         /\ Handled(o, d).task = o.task /\ Handled(o, d).nodes = o.nodes /\ Handled(o, d).pc = o.pc
<1>1. o.cursor \in Cursors
  BY DEF Well, Formed
<1>2. /\ DOMAIN Handled(o, d) = Fields /\ Handled(o, d).nodes = o.nodes
      /\ Handled(o, d).task = o.task /\ Handled(o, d).todo = o.todo /\ Handled(o, d).pc = o.pc
      /\ Handled(o, d).cursor = [o.cursor EXCEPT !.spoke = @ \cup {d}]
  BY <1>1 DEF Handled, Well, Fields, Cursors
<1>3. /\ DOMAIN Reported(o, d) = Fields /\ Reported(o, d).nodes = o.nodes
      /\ Reported(o, d).task = o.task /\ Reported(o, d).todo = o.todo /\ Reported(o, d).pc = o.pc
      /\ Reported(o, d).cursor = [[o.cursor EXCEPT !.spoke = @ \cup {d}] EXCEPT !.verdict = "on"]
  BY <1>1, <1>2 DEF Reported, Fields, Cursors
<1>4. Handled(o, d).cursor \in Cursors /\ Reported(o, d).cursor \in Cursors
  <2>1. PICK c \in Cursors : c = [o.cursor EXCEPT !.spoke = @ \cup {d}]
    BY <1>1, CursorForms
  <2> QED
    BY <1>2, <1>3, <2>1, CursorForms
<1>5. Well(Handled(o, d)) /\ Well(Reported(o, d))
  BY <1>2, <1>3, <1>4 DEF Well, Formed
<1>6. Closer(Handled(o, d), o) /\ Closer(Reported(o, d), o)
  BY <1>1, <1>2, <1>3 DEF Closer, Done, Cursors
<1> QED
  BY <1>2, <1>5, <1>6

\* The object of an execution whose only node has ended.
Marked(o, n, ok) ==
  [o EXCEPT !.nodes[n] = IF ok THEN "completed" ELSE "failed", !.task = Idle]

\* The ways on from a node's end in a graph or discussion.
LEMMA AfterCases ==
  ASSUME NEW o, NEW n, NEW ok, NEW p \in After(o, n, ok), NEW done, done = Marked(o, n, ok)
  PROVE  \/ p = At(done, "fail")
         \/ plan.mode # "discussion" /\ \E dirs \in Decisions : p = Decided(done, dirs)
         \/ plan.mode # "discussion" /\ n # Lead /\ p = GraphRound(Reported(done, n))
         \/ /\ plan.mode = "discussion"
            /\ \E v \in {"on", "end"} : p \in DiscussionRound(Judged(done, v))
<1>1. CASE ~ok
  BY <1>1 DEF After, Marked
<1>2. CASE ok /\ plan.mode = "discussion"
  <2>1. p \in UNION {DiscussionRound(Judged(done, v)) : v \in {"on", "end"}}
    BY <1>2 DEF After, Marked
  <2> QED
    BY <1>2, <2>1
<1>3. CASE ok /\ plan.mode # "discussion" /\ n = Lead
  BY <1>3 DEF After, Marked
<1>4. CASE ok /\ plan.mode # "discussion" /\ n # Lead
  BY <1>4 DEF After, Marked
<1> QED
  BY <1>1, <1>2, <1>3, <1>4

\* A node that nobody waits with ends: the executor goes on from what it did.
LEMMA AfterOnward ==
  ASSUME plan \in Plans, NEW o, Well(o), NEW n \in Nodes, ~InBatch(n), NEW ok,
         NEW p \in After(o, n, ok)
  PROVE  Well(p) /\ Onward(p, o)
<1>0. PICK done : done = Marked(o, n, ok)
  OBVIOUS
<1>1. plan.mode # "dag" /\ o.cursor \in Cursors /\ o.todo = {}
  BY DEF InBatch, Well, Formed
<1>2. /\ DOMAIN done = Fields /\ done.cursor = o.cursor /\ done.todo = {} /\ done.pc = o.pc
      /\ done.task = Idle /\ done.nodes = [o.nodes EXCEPT ![n] = IF ok THEN "completed" ELSE "failed"]
  BY <1>0, <1>1 DEF Marked, Well, Fields
<1>3. Well(done) /\ Closer(done, o)
  <2>1. done.nodes \in [Nodes -> NodeStates]
    BY <1>2 DEF Well, Formed, NodeStates
  <2>2. Formed(done)
    BY <1>1, <1>2, <2>1 DEF Well, Formed, Idle, Busy
  <2> QED
    BY <1>1, <1>2, <2>2, DoneSame DEF Well
<1>4. \/ p = At(done, "fail")
      \/ plan.mode = "graph" /\ \E dirs \in Decisions : p = Decided(done, dirs)
      \/ plan.mode = "graph" /\ n # Lead /\ p = GraphRound(Reported(done, n))
      \/ /\ plan.mode = "discussion"
         /\ \E v \in {"on", "end"} : p \in DiscussionRound(Judged(done, v))
  <2>1. plan.mode \in {"graph", "discussion"}
    BY <1>1, PlanAssumption
  <2>2. \/ p = At(done, "fail")
        \/ plan.mode # "discussion" /\ \E dirs \in Decisions : p = Decided(done, dirs)
        \/ plan.mode # "discussion" /\ n # Lead /\ p = GraphRound(Reported(done, n))
        \/ /\ plan.mode = "discussion"
           /\ \E v \in {"on", "end"} : p \in DiscussionRound(Judged(done, v))
    BY <1>0, AfterCases
  <2> QED
    BY <2>1, <2>2
<1>5. CASE p = At(done, "fail")
  BY <1>3, <1>5, AtOnward, OnwardFrom
<1>6. ASSUME plan.mode = "graph", NEW dirs \in Decisions, p = Decided(done, dirs)
      PROVE  Well(p) /\ Onward(p, o)
  BY <1>3, <1>6, DecidedOnward, OnwardFrom
<1>7. CASE plan.mode = "graph" /\ n # Lead /\ p = GraphRound(Reported(done, n))
  <2>1. Well(Reported(done, n)) /\ Closer(Reported(done, n), done)
    BY <1>1, <1>3, <1>7, HandledCloser DEF Others
  <2>2. Well(p) /\ Onward(p, Reported(done, n))
    BY <1>7, <2>1, GraphOnward
  <2> QED
    BY <1>3, <2>1, <2>2, OnwardFrom
<1>8. ASSUME plan.mode = "discussion", NEW v \in {"on", "end"},
             p \in DiscussionRound(Judged(done, v))
      PROVE  Well(p) /\ Onward(p, o)
  <2>1. PICK q : q = Judged(done, v)
    OBVIOUS
  <2>2. /\ DOMAIN q = Fields /\ q.nodes = done.nodes /\ q.task = done.task /\ q.todo = done.todo
        /\ q.pc = done.pc /\ q.cursor = [o.cursor EXCEPT !.verdict = v]
    BY <1>2, <2>1 DEF Judged, Fields
  <2>3. /\ q.cursor \in Cursors /\ q.cursor.round = o.cursor.round
        /\ q.cursor.spoke = o.cursor.spoke /\ q.cursor.verdict = v
    <3>1. PICK c \in Cursors : c = o.cursor
      BY <1>1
    <3>2. q.cursor = [c EXCEPT !.verdict = v] /\ q.cursor \in Cursors
      BY <2>2, <3>1, CursorForms
    <3> QED
      BY <3>1, <3>2 DEF Cursors
  <2>4. Well(q) /\ Closer(q, o)
    BY <1>3, <1>8, <2>2, <2>3 DEF Well, Formed, Closer, Done
  <2>5. Well(p) /\ Onward(p, q)
    BY <1>8, <2>1, <2>4, DiscussionOnward
  <2> QED
    BY <2>4, <2>5, OnwardFrom
<1> QED
  BY <1>4, <1>5, <1>6, <1>7, <1>8

\* A node of a batch ends: its own mark, and no new work.
LEMMA JoinsOnward ==
  ASSUME plan \in Plans, NEW o, Well(o), NEW n \in Nodes, InBatch(n), o.task[n] \in Busy,
         NEW ok \in BOOLEAN, NEW p \in Joins(o, n, ok)
  PROVE  /\ Well(p) /\ Closer(p, o)
         /\ \A m \in Nodes : p.task[m] = "create" => o.task[m] = "create"
<1> DEFINE r == [o EXCEPT !.nodes[n] = IF ok THEN "completed" ELSE "failed"]
<1>1. o.cursor \in Cursors /\ n \notin o.todo /\ o.nodes[n] # "completed"
  BY DEF Well, Formed, Busy
<1>2. /\ DOMAIN r = Fields /\ r.cursor = o.cursor /\ r.todo = o.todo /\ r.pc = o.pc
      /\ r.task = o.task /\ r.nodes = [o.nodes EXCEPT ![n] = IF ok THEN "completed" ELSE "failed"]
  BY DEF Well, Fields
<1>3. /\ r.nodes \in [Nodes -> NodeStates]
      /\ \A m \in Nodes : m # n => r.nodes[m] = o.nodes[m]
  BY <1>2 DEF Well, Formed, NodeStates
<1>4. Closer(r, o)
  <2>1. \A m \in Nodes : o.nodes[m] = "completed" => r.nodes[m] = "completed"
    BY <1>1, <1>3
  <2> HIDE DEF r
  <2> QED
    BY <1>2, <2>1, DoneSame
<1>5. \/ \E t \in {"ok", "err"} : p = [r EXCEPT !.task[n] = t]
      \/ /\ plan.mode # "dag"
         /\ \E v \in {r.cursor.verdict, "end"} :
              p = [Handled(r, n) EXCEPT !.task[n] = "ok", !.cursor.verdict = v]
  <2>1. CASE plan.mode = "dag"
    BY <2>1 DEF Joins
  <2>2. CASE plan.mode # "dag" /\ (ok \/ plan.policy = "continue")
    <3>1. p \in {[Handled(r, n) EXCEPT !.task[n] = "ok", !.cursor.verdict = v]
                   : v \in {r.cursor.verdict} \cup (IF ok THEN {"end"} ELSE {})}
      BY <2>2 DEF Joins
    <3> QED
      BY <2>2, <3>1
  <2>3. CASE plan.mode # "dag" /\ ~ (ok \/ plan.policy = "continue")
    BY <2>3 DEF Joins
  <2> QED
    BY <2>1, <2>2, <2>3
<1> HIDE DEF r
<1>6. ASSUME NEW t \in {"ok", "err"}, p = [r EXCEPT !.task[n] = t]
      PROVE  /\ Well(p) /\ Closer(p, o)
             /\ \A m \in Nodes : p.task[m] = "create" => o.task[m] = "create"
  <2>1. /\ DOMAIN p = Fields /\ p.cursor = r.cursor /\ p.nodes = r.nodes /\ p.todo = r.todo
        /\ p.pc = r.pc /\ p.task = [o.task EXCEPT ![n] = t]
    BY <1>2, <1>6 DEF Fields
  <2>2. Formed(p)
    <3>1. p.task \in [Nodes -> Busy \cup {"none", "ok", "err"}]
      BY <2>1 DEF Well, Formed, Busy
    <3> QED
      BY <1>1, <1>2, <1>3, <2>1, <3>1 DEF Well, Formed, Busy
  <2>3. Closer(p, o)
    BY <1>4, <2>1 DEF Closer, Done
  <2> QED
    BY <2>1, <2>2, <2>3 DEF Well, Formed
<1>7. ASSUME plan.mode # "dag", NEW v \in {r.cursor.verdict, "end"},
             p = [Handled(r, n) EXCEPT !.task[n] = "ok", !.cursor.verdict = v]
      PROVE  /\ Well(p) /\ Closer(p, o)
             /\ \A m \in Nodes : p.task[m] = "create" => o.task[m] = "create"
  <2>1. /\ DOMAIN Handled(r, n) = Fields /\ Handled(r, n).nodes = r.nodes /\ Handled(r, n).task = o.task
        /\ Handled(r, n).todo = o.todo /\ Handled(r, n).pc = o.pc
        /\ Handled(r, n).cursor = [o.cursor EXCEPT !.spoke = @ \cup {n}]
    BY <1>1, <1>2 DEF Handled, Fields, Cursors
  <2>2. /\ DOMAIN p = Fields /\ p.nodes = r.nodes /\ p.todo = o.todo /\ p.pc = o.pc
        /\ p.task = [o.task EXCEPT ![n] = "ok"]
        /\ p.cursor = [[o.cursor EXCEPT !.spoke = @ \cup {n}] EXCEPT !.verdict = v]
    BY <1>7, <2>1 DEF Fields
  <2>3. n \in Others /\ v \in {"none", "on", "end"} /\ (v = o.cursor.verdict \/ v = "end")
    BY <1>1, <1>2, <1>7 DEF Others, InBatch, Cursors
  <2>4. /\ p.cursor \in Cursors /\ p.cursor.round = o.cursor.round
        /\ p.cursor.spoke = o.cursor.spoke \cup {n} /\ p.cursor.verdict = v
        /\ p.cursor.phase = o.cursor.phase
    <3>1. PICK c \in Cursors : c = [o.cursor EXCEPT !.spoke = @ \cup {n}]
      BY <1>1, <2>3, CursorForms
    <3>2. /\ c.round = o.cursor.round /\ c.spoke = o.cursor.spoke \cup {n}
          /\ c.phase = o.cursor.phase
      BY <1>1, <3>1 DEF Cursors
    <3>3. p.cursor = [c EXCEPT !.verdict = v]
      BY <2>2, <3>1
    <3>4. [c EXCEPT !.verdict = v] \in Cursors
      BY <2>3, CursorForms
    <3> QED
      BY <3>1, <3>2, <3>3, <3>4 DEF Cursors
  <2>5. Formed(p)
    <3>1. p.task \in [Nodes -> Busy \cup {"none", "ok", "err"}]
      BY <2>2 DEF Well, Formed, Busy
    <3> QED
      BY <1>1, <1>2, <1>3, <2>2, <2>4, <3>1 DEF Well, Formed, Busy
  <2>6. Closer(p, o)
    BY <1>7, <2>3, <2>4 DEF Closer, Done
  <2> QED
    BY <2>2, <2>5, <2>6 DEF Well, Formed
<1> QED
  BY <1>5, <1>6, <1>7

-----------------------------------------------------------------------------
(***************************************************************************)
(* The kinds of steps, for what the checkpoint records.  Object x becomes  *)
(* q, the others stay or are collected; the row is left as it is (Fades),  *)
(* written by the owner (Writes) or given back (Frees).                    *)
(***************************************************************************)
InProgress == {"queued", "running"}

Only(x, q) ==
  \A y \in Live' : IF y = x THEN exec'[y] = q ELSE y \in Live /\ exec'[y] = exec[y]

\* The step keeps what the checkpoint of a workflow in progress says is done.
KeepsDone ==
  row.status \in InProgress =>
    \/ row'.cursor.round = row.cursor.round + 1
    \/ /\ row'.cursor.round = row.cursor.round
       /\ Done(row) \subseteq Done(row)'
       /\ \A n \in Done(row) \cap Nodes : ~Enters(n, "create")

\* The same, of the object that moves.
Carries(x, q) ==
  row.status \in InProgress =>
    \/ row'.cursor.round = row.cursor.round + 1
    \/ /\ Closer(row', row)
       /\ \A n \in Done(row) \cap Nodes : x \in Live' /\ q.task[n] = "create" => Task(x, n, "create")

Kept == FormsOK' /\ AgreesOK' /\ StoppedOK' /\ OneFinalizer' /\ KeepsDone

\* What moves one object changes no other.
LEMMA MovesOnly ==
  ASSUME NEW x \in Runs, NEW q, Moves(x, q)
  PROVE  Only(x, q)
BY DEF Moves, Only, Collected, Live

\* An object that carries the checkpoint on repeats no step of it.
LEMMA CarriesKeeps ==
  ASSUME plan' = plan, NEW x, NEW q, Only(x, q), Carries(x, q)
  PROVE  KeepsDone
<1> SUFFICES ASSUME row.status \in InProgress, ~(row'.cursor.round = row.cursor.round + 1)
             PROVE  /\ row'.cursor.round = row.cursor.round
                    /\ Done(row) \subseteq Done(row)'
                    /\ \A n \in Done(row) \cap Nodes : ~Enters(n, "create")
  BY DEF KeepsDone
<1>1. /\ Closer(row', row)
      /\ \A n \in Done(row) \cap Nodes : x \in Live' /\ q.task[n] = "create" => Task(x, n, "create")
  BY DEF Carries
<1>2. Done(row)' = Done(row')
  BY DEF Done
<1>3. ASSUME NEW n \in Done(row) \cap Nodes, NEW z \in Runs,
             ~Task(z, n, "create"), Task(z, n, "create")'
      PROVE  FALSE
  <2>1. z \in Live' /\ exec'[z].task[n] = "create"
    BY <1>3 DEF Task
  <2>2. CASE z = x
    BY <1>1, <1>3, <2>1, <2>2 DEF Only
  <2>3. CASE z # x
    BY <1>3, <2>1, <2>3 DEF Only, Task
  <2> QED
    BY <2>2, <2>3
<1> QED
  BY <1>1, <1>2, <1>3 DEF Closer, Enters

\* Objects and row keep their forms if the one that changed does.
LEMMA FormsNext ==
  ASSUME FormsOK, plan' = plan, NEW x, NEW q, Only(x, q), x \in Live' => Formed(q),
         row'.nodes \in [Nodes -> NodeStates], row'.cursor \in Cursors
  PROVE  FormsOK'
<1>1. ASSUME NEW y \in Live'
      PROVE  Formed(exec[y])'
  <2>1. Formed(exec'[y])
    BY <1>1 DEF FormsOK, Only
  <2> QED
    BY <2>1 DEF Formed, Busy, NodeStates, Cursors, Others
<1> QED
  BY <1>1 DEF FormsOK, NodeStates, Cursors, Others

\* A step that starts no finalizer leaves at most one for each engine.
LEMMA FinalizersNext ==
  ASSUME OneFinalizer, NEW x, NEW q, Only(x, q),
         x \in Live' /\ q.fin => x \in Live /\ exec[x].fin /\ exec[x].eng = q.eng
  PROVE  OneFinalizer'
<1>1. \A y \in Live' : exec'[y].fin => y \in Live /\ exec[y].fin /\ exec[y].eng = exec'[y].eng
  BY DEF Only
<1> QED
  BY <1>1 DEF OneFinalizer

\* The row stays, and the object that moves loses something at most.
LEMMA Fades ==
  ASSUME CheckpointInv, FenceInv', plan' = plan, NEW x, NEW q, Only(x, q),
         row'.nodes = row.nodes, row'.cursor = row.cursor, row'.status = row.status,
         row'.epoch = row.epoch, row'.owner \in {row.owner, Gone},
         \A e \in Engines : runs'[e] \in {0, runs[e]},
         x \in Live' =>
           /\ x \in Live /\ Formed(q) /\ q.eng = exec[x].eng /\ q.epoch = exec[x].epoch
           /\ q.fin => exec[x].fin
           /\ q.status = "running" => exec[x].status = "running"
           /\ Owns(exec[x]) => q.nodes = exec[x].nodes /\ q.cursor = exec[x].cursor
           /\ \A n \in Nodes : q.task[n] = "create" => exec[x].task[n] = "create"
  PROVE  Kept
<1>1. FormsOK /\ AgreesOK /\ StoppedOK /\ OneFinalizer /\ TablesOK /\ ObjectsOK
  BY DEF CheckpointInv, FenceInv
<1>2. \A y \in Live' : /\ y \in Live /\ exec'[y].eng = exec[y].eng /\ exec'[y].epoch = exec[y].epoch
                       /\ exec'[y].fin => exec[y].fin
                       /\ exec'[y].status = "running" => exec[y].status = "running"
                       /\ Owns(exec[y]) => exec'[y].nodes = exec[y].nodes /\ exec'[y].cursor = exec[y].cursor
                       /\ exec[y].eng \in Engines
  BY <1>1 DEF Only, ObjectsOK
<1>3. FormsOK'
  BY <1>1, FormsNext DEF FormsOK
<1>4. OneFinalizer'
  BY <1>1, FinalizersNext
<1>5. AgreesOK'
  <2> SUFFICES ASSUME NEW y \in Live', Owns(exec[y])', runs'[exec'[y].eng] = y \/ exec'[y].fin
               PROVE  row'.nodes = exec'[y].nodes /\ row'.cursor = exec'[y].cursor
    BY DEF AgreesOK
  <2>1. y # 0
    BY DEF Live, Runs
  <2>2. y \in Live /\ Owns(exec[y])
    BY <1>2, PlanAssumption DEF Owns
  <2>3. runs[exec[y].eng] = y \/ exec[y].fin
    BY <1>2, <2>1
  <2> QED
    BY <1>1, <1>2, <2>2, <2>3 DEF AgreesOK
<1>6. StoppedOK'
  <2> SUFFICES ASSUME row'.owner = None, NEW e \in Engines, runs'[e] # 0,
                      row'.epoch = exec'[runs'[e]].epoch + 1
               PROVE  exec'[runs'[e]].status # "running" /\ row'.status \notin {"queued", "running"}
    BY DEF StoppedOK
  <2>1. runs'[e] = runs[e] /\ runs'[e] \in Live' /\ row.owner = None
    BY PlanAssumption DEF FenceInv, TablesOK
  <2> QED
    BY <1>1, <1>2, <2>1 DEF StoppedOK
<1>7. Carries(x, q)
  BY DEF Carries, Closer, Done, Task
<1> QED
  BY <1>3, <1>4, <1>5, <1>6, <1>7, CarriesKeeps DEF Kept

\* The owner's object, in its engine's table, writes itself into the row.
LEMMA Writes ==
  ASSUME CheckpointInv, FenceInv', plan' = plan, NEW x \in Live', NEW q, Only(x, q), Formed(q),
         row'.nodes = q.nodes, row'.cursor = q.cursor, row'.owner = q.eng, row'.epoch = q.epoch,
         runs'[q.eng] = x, up'[q.eng] = "up", Carries(x, q)
  PROVE  Kept
<1>1. FormsOK /\ OneFinalizer
  BY DEF CheckpointInv
<1>2. exec'[x] = q /\ q.eng \in Engines
  BY DEF Only, FenceInv, ObjectsOK
<1>3. \A y \in Live' : exec'[y].fin /\ exec'[y].eng = q.eng => y = x
  BY <1>2 DEF FenceInv, FinalizersOK
<1>4. FormsOK'
  BY <1>1, FormsNext DEF Formed
<1>5. OneFinalizer'
  <2> SUFFICES ASSUME NEW y \in Live', NEW z \in Live', exec'[y].fin, exec'[z].fin,
                      exec'[y].eng = exec'[z].eng
               PROVE  y = z
    BY DEF OneFinalizer
  <2>1. CASE exec'[y].eng = q.eng
    BY <1>3, <2>1
  <2>2. CASE exec'[y].eng # q.eng
    <3>1. y # x /\ z # x
      BY <1>2, <2>2
    <3> QED
      BY <1>1, <3>1 DEF Only, OneFinalizer
  <2> QED
    BY <2>1, <2>2
<1>6. AgreesOK'
  <2> SUFFICES ASSUME NEW y \in Live', Owns(exec[y])', runs'[exec'[y].eng] = y \/ exec'[y].fin
               PROVE  y = x
    BY <1>2 DEF AgreesOK
  <2>1. exec'[y].eng = q.eng
    BY DEF Owns
  <2> QED
    BY <1>3, <2>1
<1>7. StoppedOK'
  BY <1>2, PlanAssumption DEF StoppedOK
<1> QED
  BY <1>4, <1>5, <1>6, <1>7, CarriesKeeps DEF Kept

\* The lease is given back: nobody owns the row, and who gave it back has stopped.
LEMMA Frees ==
  ASSUME CheckpointInv, FenceInv', plan' = plan, NEW x, NEW q, Only(x, q), x \in Live' => Formed(q),
         row'.nodes \in [Nodes -> NodeStates], row'.cursor \in Cursors, row'.owner = None,
         x \in Live' /\ q.fin => x \in Live /\ exec[x].fin /\ exec[x].eng = q.eng,
         \A e \in Engines : runs'[e] # 0 /\ row'.epoch = exec'[runs'[e]].epoch + 1 =>
           exec'[runs'[e]].status # "running" /\ row'.status \notin InProgress,
         Carries(x, q)
  PROVE  Kept
<1>1. FormsOK /\ OneFinalizer
  BY DEF CheckpointInv
<1>2. AgreesOK'
  <2>1. \A y \in Live' : exec'[y].eng \in Engines
    BY DEF FenceInv, ObjectsOK
  <2> QED
    BY <2>1, PlanAssumption DEF AgreesOK, Owns
<1>3. StoppedOK'
  BY DEF StoppedOK, InProgress
<1> QED
  BY <1>1, <1>2, <1>3, FormsNext, FinalizersNext, CarriesKeeps DEF Kept

\* Every object has its fields, and what they hold is well formed.
LEMMA LiveWell ==
  ASSUME CheckpointInv, NEW x \in Live
  PROVE  /\ Well(exec[x]) /\ Shaped(exec[x]) /\ x \in Runs /\ exec[x].eng \in Engines
         /\ DOMAIN row = {"status", "nodes", "cursor", "owner", "epoch", "lapsed"}
         /\ row.epoch \in Nat /\ plan \in Plans
BY DEF CheckpointInv, FenceInv, TablesOK, FormsOK, ObjectsOK, Well, Shaped, Live

\* Who has the row's epoch and is in a table is the one object of the owner.
LEMMA OneWithEpoch ==
  ASSUME CheckpointInv, NEW e \in Engines, runs[e] # 0, exec[runs[e]].epoch = row.epoch
  PROVE  row.owner = e
BY DEF CheckpointInv, FenceInv, TablesOK, EpochsOK

\* An execution that passes the fence writes what it did, in one step.
LEMMA GoesOn ==
  ASSUME CheckpointInv, FenceInv', NEW x \in Live, Current(exec[x]),
         NEW p, Same(p, exec[x]), p.pc \in Heads, Well(p),
         Becomes(x, p, row), UNCHANGED <<plan, runs, up>>,
         \/ p.cursor.round = exec[x].cursor.round + 1
         \/ /\ Closer(p, exec[x])
            /\ \A n \in Done(exec[x]) \cap Nodes : p.task[n] = "create" => exec[x].task[n] = "create"
  PROVE  Kept
<1>1. /\ FenceInv /\ AgreesOK /\ Well(exec[x]) /\ x \in Runs /\ exec[x].eng \in Engines
      /\ DOMAIN row = {"status", "nodes", "cursor", "owner", "epoch", "lapsed"}
      /\ row.epoch \in Nat /\ plan \in Plans
  BY LiveWell DEF CheckpointInv
<1>2. /\ ~exec[x].fin /\ exec[x].status = "running" /\ Owns(exec[x])
      /\ up[exec[x].eng] = "up" /\ runs[exec[x].eng] = x
  BY <1>1, CurrentIsListed
<1>3. row.nodes = exec[x].nodes /\ row.cursor = exec[x].cursor
  BY <1>1, <1>2 DEF AgreesOK
<1>4. PICK q : q = Ended(p)
  OBVIOUS
<1>5. exec' = Reaped([exec EXCEPT ![x] = q], runs') /\ row' = Stored(p, row)
  BY <1>4 DEF Becomes
<1>6. /\ DOMAIN q = Fields /\ q.nodes = p.nodes /\ q.cursor = p.cursor /\ q.fin = FALSE
      /\ q.eng = exec[x].eng /\ q.epoch = exec[x].epoch
      /\ q.todo = p.todo /\ (q.task = p.task \/ q.task = Idle)
      /\ q.pc = p.pc \/ q.pc = "over"
      /\ IF p.pc \in {"done", "fail"} THEN q.status \in {"completed", "failed"} ELSE q = p
  BY <1>2, <1>4 DEF Ended, At, Same, Well, Fields, Shaped
<1>7. Formed(q) /\ \A n \in Nodes : q.task[n] = "create" => p.task[n] = "create"
  BY <1>6 DEF Well, Formed, Idle, Busy
<1>8. Moves(x, q) /\ Only(x, q)
  <2>1. q # Free
    BY <1>1, <1>6, PlanAssumption DEF Free
  <2> QED
    BY <1>1, <1>5, <2>1, MovesReaped, MovesOnly
<1>9. row'.nodes = p.nodes /\ row'.cursor = p.cursor
  BY <1>1, <1>4, <1>5, <1>6 DEF Stored, Written, Released
<1>10. Carries(x, q)
  <2>1. Done(row) = Done(exec[x]) /\ Done(row') = Done(p)
    BY <1>3, <1>9 DEF Done
  <2> QED
    BY <1>1, <1>3, <1>7, <1>9, <2>1 DEF Carries, Closer, Task
<1>11. CASE p.pc \in {"done", "fail"}
  <2>1. row'.owner = None /\ row'.epoch = row.epoch + 1 /\ row'.status = q.status
    BY <1>1, <1>4, <1>5, <1>11 DEF Stored, Written, Released
  <2>2. ASSUME NEW e \in Engines, runs'[e] # 0, row'.epoch = exec'[runs'[e]].epoch + 1
        PROVE  exec'[runs'[e]].status # "running" /\ row'.status \notin InProgress
    <3>1. runs[e] \in Live' /\ exec[runs[e]].epoch \in Nat
      BY <1>1, <2>2 DEF FenceInv, TablesOK, ObjectsOK
    <3>2. CASE runs[e] = x
      BY <1>6, <1>8, <1>11, <2>1, <3>1, <3>2 DEF Only, InProgress
    <3>3. CASE runs[e] # x
      <4>1. exec'[runs[e]] = exec[runs[e]]
        BY <1>8, <3>1, <3>3 DEF Only
      <4>2. row.owner = e
        BY <1>1, <2>1, <2>2, <3>1, <4>1, OneWithEpoch
      <4> QED
        BY <1>2, <3>3, <4>2 DEF Owns
    <3> QED
      BY <3>2, <3>3
  <2> QED
    BY <1>6, <1>7, <1>8, <1>9, <1>10, <2>1, <2>2, Frees DEF Well, Formed
<1>12. CASE p.pc \notin {"done", "fail"}
  <2>1. row'.owner = q.eng /\ row'.epoch = q.epoch
    BY <1>1, <1>2, <1>5, <1>6, <1>12 DEF Stored, Written, Owns
  <2>2. x \in Live'
    BY <1>1, <1>2 DEF FenceInv, TablesOK, Live, Runs
  <2> QED
    BY <1>2, <1>6, <1>7, <1>8, <1>9, <1>10, <2>1, <2>2, Writes
<1> QED
  BY <1>11, <1>12

\* An execution that the fence stops writes what the row has already, if no old object
\* is written over a newer checkpoint.
LEMMA HaltsOn ==
  ASSUME CheckpointInv, FenceInv', ~overwritten', NEW x \in Live,
         NEW o, Same(o, exec[x]), Well(o),
         o.nodes = exec[x].nodes, o.cursor = exec[x].cursor,
         \A n \in Nodes : o.task[n] = "create" => exec[x].task[n] = "create",
         NEW r, Stops(x, o, r), UNCHANGED <<plan, runs, up>>,
         r \in {Saved(exec[x]), Emitted(exec[x]), Renewed(exec[x])}
  PROVE  Kept
<1>1. /\ FenceInv /\ AgreesOK /\ Well(exec[x]) /\ x \in Runs /\ exec[x].eng \in Engines
      /\ DOMAIN row = {"status", "nodes", "cursor", "owner", "epoch", "lapsed"}
  BY LiveWell DEF CheckpointInv
<1>2. ~Old(x) /\ Owns(exec[x]) => row.status = exec[x].status
  BY <1>1 DEF FenceInv, OwnersOK, Old
<1>3. ~Old(x) /\ Owns(exec[x]) => row.nodes = exec[x].nodes /\ row.cursor = exec[x].cursor
  BY <1>1 DEF AgreesOK, Old
<1>4. PICK q : q = [o EXCEPT !.open = @ /\ Owns(o), !.pc = "over"]
  OBVIOUS
<1>5. exec' = Reaped([exec EXCEPT ![x] = q], runs') /\ row' = r
  BY <1>4 DEF Stops
<1>6. /\ DOMAIN q = Fields /\ q.nodes = o.nodes /\ q.cursor = o.cursor /\ q.fin = exec[x].fin
      /\ q.eng = exec[x].eng /\ q.epoch = exec[x].epoch /\ q.status = exec[x].status
      /\ q.todo = o.todo /\ q.task = o.task /\ q.pc = "over"
  BY <1>4 DEF Same, Fields
<1>7. Formed(q)
  BY <1>6 DEF Well, Formed, Busy
<1>8. Only(x, q)
  <2>1. q # Free
    BY <1>1, <1>6, PlanAssumption DEF Free
  <2> QED
    BY <1>1, <1>5, <2>1, MovesReaped, MovesOnly
<1>9. /\ row'.nodes = row.nodes /\ row'.cursor = row.cursor /\ row'.status = row.status
      /\ row'.owner = row.owner /\ row'.epoch = row.epoch
  <2>1. /\ row'.owner = row.owner /\ row'.epoch = row.epoch
        /\ ~Old(x) => /\ row'.nodes = row.nodes /\ row'.cursor = row.cursor
                      /\ row'.status = row.status
    BY <1>1, <1>2, <1>3, <1>5 DEF Saved, Emitted, Renewed, Written
  <2>2. Old(x) => Checkpoint(row') = Checkpoint(row)
    BY <1>5 DEF Stops
  <2> QED
    BY <2>1, <2>2 DEF Checkpoint
<1> QED
  BY <1>6, <1>7, <1>8, <1>9, Fades

-----------------------------------------------------------------------------
(* The steps of an execution *)

\* A node that goes on to its send or its turn keeps the checkpoint.
LEMMA AdvancesKeep ==
  ASSUME CheckpointInv, FenceInv', ~overwritten', NEW x, NEW n \in Nodes, NEW from \in {"create", "send"},
         NEW to \in {"send", "turn"}, Advances(x, n, from, to)
  PROVE  Kept
<1>1. x \in Live /\ exec[x].task[n] = from /\ UNCHANGED <<plan, runs, up>>
  BY DEF Advances, Task
<1>2. /\ Shaped(exec[x]) /\ Well(exec[x]) /\ FenceInv
  BY <1>1, LiveWell DEF CheckpointInv
<1>3. ASSUME NEW t \in {"none", "send", "turn"}, NEW p, p = [exec[x] EXCEPT !.task[n] = t]
      PROVE  /\ Same(p, exec[x]) /\ Well(p) /\ p.pc = exec[x].pc
             /\ p.nodes = exec[x].nodes /\ p.cursor = exec[x].cursor
             /\ \A m \in Nodes : p.task[m] = "create" => exec[x].task[m] = "create"
  <2>1. /\ DOMAIN p = Fields /\ p.nodes = exec[x].nodes /\ p.cursor = exec[x].cursor
        /\ p.todo = exec[x].todo /\ p.pc = exec[x].pc /\ p.task = [exec[x].task EXCEPT ![n] = t]
    BY <1>2, <1>3 DEF Well, Fields
  <2>2. p.task \in [Nodes -> Busy \cup {"none", "ok", "err"}]
    BY <1>2, <2>1 DEF Well, Formed, Busy
  <2>3. Formed(p)
    BY <1>1, <1>2, <2>1, <2>2 DEF Well, Formed, Busy
  <2>4. Same(p, exec[x])
    BY <1>2, <1>3 DEF Same, Well, Fields
  <2> QED
    BY <1>2, <2>1, <2>3, <2>4 DEF Well, Formed
<1>4. CASE Current(exec[x])
  <2>1. PICK p : p = [exec[x] EXCEPT !.task[n] = to]
    OBVIOUS
  <2>2. Becomes(x, p, row)
    BY <1>4, <2>1 DEF Advances
  <2>3. /\ Same(p, exec[x]) /\ Well(p) /\ p.pc = exec[x].pc
        /\ p.nodes = exec[x].nodes /\ p.cursor = exec[x].cursor
        /\ \A m \in Nodes : p.task[m] = "create" => exec[x].task[m] = "create"
    BY <1>3, <2>1
  <2>4. p.pc \in Heads
    BY <1>1, <1>2, <1>4, <2>3, CurrentIsListed DEF Heads, Shaped
  <2>5. Closer(p, exec[x])
    BY <2>3, DoneSame
  <2> QED
    BY <1>1, <1>4, <2>2, <2>3, <2>4, <2>5, GoesOn
<1>5. CASE ~Current(exec[x])
  <2>1. PICK p : p = [exec[x] EXCEPT !.task[n] = "none"]
    OBVIOUS
  <2>2. Stops(x, p, Saved(exec[x]))
    BY <1>5, <2>1 DEF Advances
  <2>3. /\ Same(p, exec[x]) /\ Well(p) /\ p.nodes = exec[x].nodes /\ p.cursor = exec[x].cursor
        /\ \A m \in Nodes : p.task[m] = "create" => exec[x].task[m] = "create"
    BY <1>3, <2>1
  <2> QED
    BY <1>1, <2>2, <2>3, HaltsOn
<1> QED
  BY <1>4, <1>5

\* A node's end, with the round behind it, keeps the checkpoint.
LEMMA NodeEndsKeeps ==
  ASSUME CheckpointInv, FenceInv', ~overwritten', NEW x, NEW n \in Nodes, NEW ok \in BOOLEAN, NodeEnds(x, n, ok)
  PROVE  Kept
<1>1. x \in Live /\ exec[x].task[n] \in Busy /\ UNCHANGED <<plan, runs, up>>
  BY DEF NodeEnds, Task, Busy
<1>2. Shaped(exec[x]) /\ Well(exec[x]) /\ DOMAIN exec[x] = Fields /\ FenceInv /\ plan \in Plans
  BY <1>1, LiveWell DEF CheckpointInv, Shaped
<1>3. CASE Current(exec[x])
  <2>1. PICK p \in (IF InBatch(n) THEN Joins(exec[x], n, ok) ELSE After(exec[x], n, ok)) :
          Becomes(x, p, row)
    BY <1>3 DEF NodeEnds
  <2>2. CASE InBatch(n)
    <3>1. p \in Joins(exec[x], n, ok)
      BY <2>1, <2>2
    <3>2. Same(p, exec[x]) /\ p.pc = exec[x].pc
      BY <1>2, <3>1, JoinsSame
    <3>3. /\ Well(p) /\ Closer(p, exec[x])
          /\ \A m \in Nodes : p.task[m] = "create" => exec[x].task[m] = "create"
      BY <1>1, <1>2, <2>2, <3>1, JoinsOnward
    <3>4. p.pc \in Heads
      BY <1>1, <1>2, <1>3, <3>2, CurrentIsListed DEF Heads, Shaped
    <3> QED
      BY <1>1, <1>3, <2>1, <3>2, <3>3, <3>4, GoesOn
  <2>3. CASE ~InBatch(n)
    <3>1. p \in After(exec[x], n, ok)
      BY <2>1, <2>3
    <3>2. Same(p, exec[x]) /\ p.pc \in Heads
      BY <1>2, <3>1, AfterHeads DEF Ahead
    <3>3. Well(p) /\ Onward(p, exec[x])
      BY <1>2, <2>3, <3>1, AfterOnward
    <3> QED
      BY <1>1, <1>3, <2>1, <3>2, <3>3, GoesOn DEF Onward
  <2> QED
    BY <2>2, <2>3
<1>4. CASE ~Current(exec[x])
  <2>1. PICK p : p = [exec[x] EXCEPT !.task[n] = "none"]
    OBVIOUS
  <2>2. Stops(x, p, Renewed(exec[x]))
    BY <1>4, <2>1 DEF NodeEnds
  <2>3. /\ DOMAIN p = Fields /\ p.nodes = exec[x].nodes /\ p.cursor = exec[x].cursor
        /\ p.todo = exec[x].todo /\ p.pc = exec[x].pc /\ p.task = [exec[x].task EXCEPT ![n] = "none"]
    BY <1>2, <2>1 DEF Fields
  <2>4. p.task \in [Nodes -> Busy \cup {"none", "ok", "err"}]
    BY <1>2, <2>3 DEF Well, Formed, Busy
  <2>5. Well(p) /\ Same(p, exec[x])
    <3>1. Formed(p)
      BY <1>1, <1>2, <2>3, <2>4 DEF Well, Formed, Busy
    <3>2. Same(p, exec[x])
      BY <1>2, <2>1 DEF Same, Fields
    <3> QED
      BY <2>3, <3>1, <3>2 DEF Well
  <2>6. \A m \in Nodes : p.task[m] = "create" => exec[x].task[m] = "create"
    BY <1>2, <2>3 DEF Well, Formed
  <2> QED
    BY <1>1, <2>2, <2>3, <2>5, <2>6, HaltsOn
<1> QED
  BY <1>3, <1>4

\* The end of a batch keeps the checkpoint.
LEMMA BatchEndsKeeps ==
  ASSUME CheckpointInv, FenceInv', ~overwritten', NEW x, BatchEnds(x)
  PROVE  Kept
<1>1. x \in Live /\ exec[x].pc = "batch" /\ UNCHANGED <<plan, runs, up>>
  BY DEF BatchEnds
<1>2. Shaped(exec[x]) /\ Well(exec[x]) /\ DOMAIN exec[x] = Fields /\ FenceInv /\ plan \in Plans
  BY <1>1, LiveWell DEF CheckpointInv, Shaped
<1>3. PICK p : p = [exec[x] EXCEPT !.task = Idle]
  OBVIOUS
<1>4. /\ DOMAIN p = Fields /\ p.nodes = exec[x].nodes /\ p.cursor = exec[x].cursor
      /\ p.todo = exec[x].todo /\ p.pc = exec[x].pc /\ p.task = Idle /\ Same(p, exec[x])
  BY <1>2, <1>3 DEF Fields, Same
<1>5. Well(p) /\ Closer(p, exec[x]) /\ \A n \in Nodes : p.task[n] = "none"
  <2>1. Formed(p)
    BY <1>2, <1>4 DEF Well, Formed, Busy, Idle
  <2> QED
    BY <1>4, <2>1, DoneSame DEF Well, Idle
<1>6. CASE Current(exec[x])
  <2>1. PICK q : /\ Becomes(x, q, row)
                 /\ \/ q = At(p, "fail")
                    \/ p.todo # {} /\ q \in NextBatch(p)
                    \/ q \in Proceed(p)
    BY <1>3, <1>6 DEF BatchEnds
  <2>2. Same(q, p) /\ q.pc \in Heads
    BY <1>2, <1>4, <2>1, AtSame, NextBatchHeads, ProceedHeads DEF Ahead, Heads
  <2>3. Same(q, exec[x])
    BY <1>4, <2>2, SameTransitive
  <2>4. Well(q) /\ Onward(q, p)
    <3>1. CASE q = At(p, "fail")
      BY <1>5, <3>1, AtOnward
    <3>2. CASE p.todo # {} /\ q \in NextBatch(p)
      BY <1>5, <3>2, NextBatchOnward DEF Well, Formed
    <3>3. CASE q \in Proceed(p)
      BY <1>2, <1>5, <3>3, ProceedOnward
    <3> QED
      BY <2>1, <3>1, <3>2, <3>3
  <2>5. Onward(q, exec[x])
    BY <1>5, <2>4, OnwardFrom
  <2> QED
    BY <1>1, <1>6, <2>1, <2>2, <2>3, <2>4, <2>5, GoesOn DEF Onward
<1>7. CASE ~Current(exec[x])
  <2>1. Stops(x, p, Renewed(exec[x]))
    BY <1>3, <1>7 DEF BatchEnds
  <2> QED
    BY <1>1, <1>4, <1>5, <2>1, HaltsOn
<1> QED
  BY <1>6, <1>7

\* The end of a human review keeps the checkpoint.
LEMMA ReviewEndsKeeps ==
  ASSUME CheckpointInv, FenceInv', ~overwritten', NEW x, NEW approved \in BOOLEAN, ReviewEnds(x, approved)
  PROVE  Kept
<1>1. x \in Live /\ exec[x].pc = "review" /\ UNCHANGED <<plan, runs, up>>
  BY DEF ReviewEnds
<1>2. /\ Shaped(exec[x]) /\ Well(exec[x]) /\ DOMAIN exec[x] = Fields /\ FenceInv /\ plan \in Plans
      /\ plan.mode = "graph"
  BY <1>1, LiveWell DEF CheckpointInv, Shaped, Well, Formed
<1>3. CASE Current(exec[x])
  <2>1. PICK h : h = Handled(exec[x], "review")
    OBVIOUS
  <2>2. PICK r : r = Reported(exec[x], "review")
    OBVIOUS
  <2>3. Becomes(x, IF approved THEN At(h, "closing") ELSE GraphRound(r), row)
    BY <1>3, <2>1, <2>2 DEF ReviewEnds
  <2>4. /\ Well(h) /\ Closer(h, exec[x]) /\ Same(h, exec[x]) /\ DOMAIN h = Fields
        /\ Well(r) /\ Closer(r, exec[x]) /\ Same(r, exec[x]) /\ DOMAIN r = Fields
    BY <1>2, <2>1, <2>2, HandledCloser, ReportedSame
  <2>5. CASE approved
    <3>1. PICK p : p = At(h, "closing")
      OBVIOUS
    <3>2. Same(p, exec[x]) /\ p.pc \in Heads
      BY <2>4, <3>1, AtSame, SameTransitive DEF Heads
    <3>3. Well(p) /\ Onward(p, exec[x])
      BY <2>4, <3>1, AtOnward, OnwardFrom
    <3> QED
      BY <1>1, <1>3, <2>3, <2>5, <3>1, <3>2, <3>3, GoesOn DEF Onward
  <2>6. CASE ~approved
    <3>1. PICK p : p = GraphRound(r)
      OBVIOUS
    <3>2. Same(p, exec[x]) /\ p.pc \in Heads
      BY <2>4, <3>1, GraphHeads, SameTransitive DEF Ahead
    <3>3. Well(p) /\ Onward(p, exec[x])
      BY <1>2, <2>4, <3>1, GraphOnward, OnwardFrom
    <3> QED
      BY <1>1, <1>3, <2>3, <2>6, <3>1, <3>2, <3>3, GoesOn DEF Onward
  <2> QED
    BY <2>5, <2>6
<1>4. CASE ~Current(exec[x])
  <2>1. Stops(x, exec[x], Emitted(exec[x])) /\ Same(exec[x], exec[x])
    BY <1>1, <1>2, <1>4 DEF ReviewEnds, Same
  <2> QED
    BY <1>1, <1>2, <2>1, HaltsOn
<1> QED
  BY <1>3, <1>4

\* The cleanup at a graph's end keeps the checkpoint.
LEMMA CloseEndsKeeps ==
  ASSUME CheckpointInv, FenceInv', ~overwritten', NEW x, CloseEnds(x)
  PROVE  Kept
<1>1. x \in Live /\ exec[x].pc = "closing" /\ UNCHANGED <<plan, runs, up>>
  BY DEF CloseEnds
<1>2. Well(exec[x]) /\ DOMAIN exec[x] = Fields /\ FenceInv
  BY <1>1, LiveWell DEF CheckpointInv, Shaped
<1>3. CASE Current(exec[x])
  <2>1. PICK p : p = At(exec[x], "done")
    OBVIOUS
  <2>2. Becomes(x, p, row)
    BY <1>3, <2>1 DEF CloseEnds
  <2>3. Same(p, exec[x]) /\ p.pc \in Heads
    BY <1>2, <2>1, AtSame DEF Heads
  <2>4. Well(p) /\ Onward(p, exec[x])
    BY <1>2, <2>1, AtOnward
  <2> QED
    BY <1>1, <1>3, <2>2, <2>3, <2>4, GoesOn DEF Onward
<1>4. CASE ~Current(exec[x])
  <2>1. Stops(x, exec[x], Renewed(exec[x])) /\ Same(exec[x], exec[x])
    BY <1>1, <1>2, <1>4 DEF CloseEnds, Same
  <2> QED
    BY <1>1, <1>2, <2>1, HaltsOn
<1> QED
  BY <1>3, <1>4

\* The finalizer gives back what the row has already.
LEMMA FinalizerEndsKeeps ==
  ASSUME CheckpointInv, FenceInv', NEW x, FinalizerEnds(x)
  PROVE  Kept
<1>1. x \in Live /\ x \in Runs /\ exec[x].fin /\ UNCHANGED <<plan, runs, up>>
  BY DEF FinalizerEnds, Live
<1>2. /\ Shaped(exec[x]) /\ Well(exec[x]) /\ FenceInv /\ AgreesOK /\ FormsOK /\ row.epoch \in Nat
      /\ DOMAIN row = {"status", "nodes", "cursor", "owner", "epoch", "lapsed"}
      /\ exec[x].eng \in Engines
  BY <1>1, LiveWell DEF CheckpointInv
<1>3. PICK q : q = [exec[x] EXCEPT !.fin = FALSE]
  OBVIOUS
<1>4. /\ DOMAIN q = Fields /\ q.nodes = exec[x].nodes /\ q.cursor = exec[x].cursor /\ q.fin = FALSE
      /\ q.eng = exec[x].eng /\ q.epoch = exec[x].epoch /\ q.status = exec[x].status
      /\ q.todo = exec[x].todo /\ q.task = exec[x].task /\ q.pc = exec[x].pc
  BY <1>2, <1>3 DEF Well, Fields
<1>5. Formed(q)
  BY <1>2, <1>4 DEF Well, Formed
<1>6. Only(x, q)
  <2>1. q # Free
    BY <1>4, <1>2, PlanAssumption DEF Free
  <2>2. exec' = Reaped([exec EXCEPT ![x] = q], runs')
    BY <1>1, <1>3 DEF FinalizerEnds
  <2> QED
    BY <1>1, <1>2, <2>1, <2>2, MovesReaped, MovesOnly
<1>7. CASE Owns(exec[x])
  <2>1. /\ row.nodes = exec[x].nodes /\ row.cursor = exec[x].cursor
        /\ row.status = exec[x].status /\ exec[x].status \in Terminal
        /\ up[exec[x].eng] # "down" => runs[exec[x].eng] = x
        /\ up[exec[x].eng] = "down" => runs[exec[x].eng] = 0
    BY <1>1, <1>2, <1>7 DEF AgreesOK, FenceInv, OwnersOK, FinalizersOK, TablesOK
  <2>2. row' = Released(Written(exec[x], row))
    BY <1>7 DEF FinalizerEnds
  <2>3. /\ row'.nodes = row.nodes /\ row'.cursor = row.cursor /\ row'.owner = None
        /\ row'.epoch = row.epoch + 1 /\ row'.status \in Terminal
    BY <1>2, <2>1, <2>2 DEF Written, Released
  <2>4. ASSUME NEW e \in Engines, runs'[e] # 0, row'.epoch = exec'[runs'[e]].epoch + 1
        PROVE  exec'[runs'[e]].status # "running" /\ row'.status \notin InProgress
    <3>1. runs[e] \in Live' /\ runs[e] \in Live /\ exec[runs[e]].epoch \in Nat
      BY <1>1, <1>2, <2>4 DEF FenceInv, TablesOK, ObjectsOK
    <3>2. exec'[runs[e]].epoch = exec[runs[e]].epoch
      BY <1>4, <1>6, <3>1 DEF Only
    <3>3. row.owner = e
      BY <1>1, <1>2, <2>3, <2>4, <3>1, <3>2, OneWithEpoch
    <3>4. runs[e] = x
      BY <1>1, <1>7, <2>1, <2>4, <3>3 DEF Owns
    <3> QED
      BY <1>1, <1>4, <1>6, <2>1, <2>3, <3>1, <3>4 DEF Only, InProgress, Terminal
  <2>5. Carries(x, q)
    BY <2>1, <2>3, <1>4, <1>1 DEF Carries, InProgress, Terminal
  <2> QED
    BY <1>1, <1>2, <1>4, <1>5, <1>6, <2>3, <2>4, <2>5, Frees DEF FormsOK
<1>8. CASE ~Owns(exec[x])
  <2>1. row' = row
    BY <1>8 DEF FinalizerEnds
  <2> QED
    BY <1>1, <1>4, <1>5, <1>6, <2>1, Fades
<1> QED
  BY <1>7, <1>8

\* Every continuation of an executor keeps the checkpoint.
LEMMA ContinuesKeep ==
  ASSUME CheckpointInv, FenceInv', ~overwritten', NEW x \in Runs, Continues(x)
  PROVE  Kept
<1>1. ASSUME NEW n \in Nodes, Created(x, n) \/ Sent(x, n) PROVE Kept
  BY <1>1, AdvancesKeep DEF Created, Sent
<1>2. ASSUME NEW n \in Nodes, NEW ok \in BOOLEAN, NodeEnds(x, n, ok) PROVE Kept
  BY <1>2, NodeEndsKeeps
<1> QED
  BY <1>1, <1>2, BatchEndsKeeps, ReviewEndsKeeps, CloseEndsKeeps, FinalizerEndsKeeps DEF Continues

-----------------------------------------------------------------------------
(* The steps that start a run *)

\* A change of the nodes in some states completes none, and leaves completed ones if it
\* does not name them.
LEMMA RecastStates ==
  ASSUME NEW nodes \in [Nodes -> NodeStates], NEW from, NEW to \in NodeStates \ {"completed"}
  PROVE  /\ Recast(nodes, from, to) \in [Nodes -> NodeStates]
         /\ \A n \in Nodes : /\ nodes[n] # "completed" => Recast(nodes, from, to)[n] # "completed"
                             /\ "completed" \notin from /\ nodes[n] = "completed" =>
                                  Recast(nodes, from, to)[n] = "completed"
BY DEF Recast

\* What an engine makes of a row is well formed, and waits for nothing.
LEMMA ObjectWell ==
  ASSUME NEW e, NEW r, r.nodes \in [Nodes -> NodeStates], r.cursor \in Cursors
  PROVE  /\ Well(Object(e, r)) /\ Object(e, r).nodes = r.nodes /\ Object(e, r).cursor = r.cursor
         /\ Object(e, r).todo = {}
BY DEF Object, Well, Formed, Fields, Idle, Busy

\* A claim changes neither nodes nor cursor.
LEMMA ClaimedForms ==
  ASSUME CheckpointInv, NEW e
  PROVE  /\ Claimed(e).nodes = row.nodes /\ Claimed(e).cursor = row.cursor
         /\ Claimed(e).nodes \in [Nodes -> NodeStates] /\ Claimed(e).cursor \in Cursors
         /\ DOMAIN Claimed(e) = DOMAIN row
BY DEF CheckpointInv, FormsOK, Claimed, FenceInv, TablesOK

\* The epoch that an engine was granted is nobody else's.
LEMMA GrantedAlone ==
  ASSUME CheckpointInv, NEW e \in Engines, NEW epoch, Granted(e, epoch), NEW d \in Engines \ {e}, runs[d] # 0
  PROVE  exec[runs[d]].epoch # epoch
<1>1. FenceInv /\ runs[d] \in Live /\ exec[runs[d]].eng = d
  BY DEF CheckpointInv, FenceInv, TablesOK
<1> QED
  BY <1>1, GrantedOnce

\* A new object that goes on from the row keeps the checkpoint.
LEMMA LaunchKeeps ==
  ASSUME CheckpointInv, FenceInv', NEW e \in Engines, up[e] = "up", NEW x \in Runs, exec[x] = Free,
         NEW o, Fresh(e, o), Well(o), NEW r, Leased(e, o, r),
         Launch(e, x, o, r), UNCHANGED <<plan, up>>,
         row.status \in InProgress => Closer(o, row)
  PROVE  Kept
<1>1. /\ FenceInv /\ plan \in Plans /\ runs \in [Engines -> Runs \cup {0}] /\ o.epoch \in Nat
      /\ DOMAIN row = {"status", "nodes", "cursor", "owner", "epoch", "lapsed"}
  BY GrantedOnce DEF Leased, CheckpointInv, FenceInv, TablesOK
<1>2. PICK o1 : o1 = [o EXCEPT !.status = "running"]
  OBVIOUS
<1>3. PICK p \in Proceed(o1) : /\ exec' = Reaped([exec EXCEPT ![x] = Ended(p)], [runs EXCEPT ![e] = x])
                               /\ row' = Stored(p, r)
  BY <1>2 DEF Launch
<1>4. runs' = [runs EXCEPT ![e] = x]
  BY DEF Launch
<1>5. /\ DOMAIN o1 = Fields /\ o1.eng = e /\ o1.epoch = o.epoch /\ o1.fin = FALSE
      /\ o1.status = "running" /\ o1.nodes = o.nodes /\ o1.cursor = o.cursor
      /\ o1.task = Idle /\ o1.todo = o.todo /\ o1.pc = "over"
  BY <1>2 DEF Fresh, Fields
<1>6. Well(o1) /\ Done(o1) = Done(o)
  BY <1>5 DEF Well, Formed, Idle, Busy, Done, Fresh
<1>7. Same(p, o1) /\ Ahead(p) /\ Well(p) /\ Onward(p, o1)
  BY <1>1, <1>5, <1>6, ProceedHeads, ProceedOnward DEF Idle
<1>8. PICK q : q = Ended(p)
  OBVIOUS
<1>9. /\ DOMAIN q = Fields /\ q.nodes = p.nodes /\ q.cursor = p.cursor /\ q.fin = FALSE
      /\ q.eng = e /\ q.epoch = o.epoch
      /\ q.todo = p.todo /\ (q.task = p.task \/ q.task = Idle)
      /\ q.pc = p.pc \/ q.pc = "over"
      /\ IF p.pc \in {"done", "fail"} THEN q.status \in {"completed", "failed"} ELSE q = p
  BY <1>5, <1>7, <1>8 DEF Ended, At, Same, Fields
<1>10. Formed(q) /\ \A n \in Nodes : q.task[n] = "create" => p.task[n] = "create"
  BY <1>7, <1>9 DEF Well, Formed, Idle, Busy
<1>11. Only(x, q)
  <2>1. q # Free
    BY <1>9, PlanAssumption DEF Free
  <2>2. exec' = Reaped([exec EXCEPT ![x] = q], runs')
    BY <1>3, <1>4, <1>8
  <2> QED
    BY <1>1, <2>1, <2>2, MovesReaped, MovesOnly
<1>12. row'.nodes = p.nodes /\ row'.cursor = p.cursor
  BY <1>1, <1>3, <1>8, <1>9 DEF Stored, Written, Released, Leased
<1>13. Carries(x, q)
  <2> SUFFICES ASSUME row.status \in InProgress, ~(row'.cursor.round = row.cursor.round + 1)
               PROVE  /\ Closer(row', row)
                      /\ \A n \in Done(row) \cap Nodes : x \in Live' /\ q.task[n] = "create" => Task(x, n, "create")
    BY DEF Carries
  <2>1. Done(row) \subseteq Done(o1) /\ o1.cursor.round = row.cursor.round
    BY <1>5, <1>6 DEF Closer
  <2>2. Closer(p, o1) /\ \A n \in Done(o1) \cap Nodes : p.task[n] # "create"
    BY <1>7, <1>12, <2>1 DEF Onward
  <2>3. Done(row') = Done(p)
    BY <1>12 DEF Done
  <2> QED
    BY <1>10, <1>12, <2>1, <2>2, <2>3 DEF Closer
<1>14. CASE p.pc \in {"done", "fail"}
  <2>1. row'.owner = None /\ row'.epoch = o.epoch + 1 /\ row'.status = q.status
    BY <1>1, <1>3, <1>8, <1>14 DEF Stored, Written, Released, Leased
  <2>2. ASSUME NEW d \in Engines, runs'[d] # 0, row'.epoch = exec'[runs'[d]].epoch + 1
        PROVE  exec'[runs'[d]].status # "running" /\ row'.status \notin InProgress
    <3>1. runs'[d] \in Live' /\ exec'[runs'[d]].epoch \in Nat
      BY <2>2 DEF FenceInv, TablesOK, ObjectsOK
    <3>2. CASE d = e
      BY <1>1, <1>4, <1>9, <1>11, <1>14, <2>1, <3>1, <3>2 DEF Only, InProgress
    <3>3. CASE d # e
      <4>1. runs'[d] = runs[d] /\ runs[d] \in Live /\ runs[d] # x
        BY <1>1, <1>4, <2>2, <3>3 DEF FenceInv, TablesOK, Live
      <4>2. exec'[runs[d]] = exec[runs[d]]
        BY <1>11, <3>1, <4>1 DEF Only
      <4> QED
        BY <1>1, <2>1, <2>2, <3>1, <3>3, <4>1, <4>2, GrantedAlone DEF Leased
    <3> QED
      BY <3>2, <3>3
  <2> QED
    BY <1>7, <1>9, <1>10, <1>11, <1>12, <1>13, <2>1, <2>2, Frees DEF Well, Formed
<1>15. CASE p.pc \notin {"done", "fail"}
  <2>1. row'.owner = q.eng /\ row'.epoch = q.epoch
    BY <1>1, <1>3, <1>9, <1>15 DEF Stored, Written, Leased
  <2>2. runs'[e] = x /\ x \in Live'
    <3>1. runs'[e] = x /\ x # 0
      BY <1>1, <1>4 DEF Runs
    <3> QED
      BY <3>1 DEF FenceInv, TablesOK
  <2> QED
    BY <1>9, <1>10, <1>11, <1>12, <1>13, <2>1, <2>2, Writes
<1> QED
  BY <1>14, <1>15

\* workflow.run keeps the checkpoint.
LEMMA RunKeeps ==
  ASSUME CheckpointInv, FenceInv', NEW e \in Engines, NEW x \in Runs, Run(e, x)
  PROVE  Kept
<1>1. /\ up[e] = "up" /\ row.status = "none" /\ exec[x] = Free /\ UNCHANGED <<plan, up>>
      /\ FenceInv /\ FormsOK
  BY DEF Run, FreeRun, CheckpointInv
<1>2. PICK r : r = [row EXCEPT !.owner = e]
  OBVIOUS
<1>3. PICK o : o = Object(e, r)
  OBVIOUS
<1>4. Launch(e, x, o, r)
  BY <1>2, <1>3 DEF Run
<1>5. Fresh(e, o) /\ Leased(e, o, r)
  BY <1>1, <1>2, <1>3, ObjectFresh DEF Leased, Granted, FenceInv, TablesOK
<1>6. Well(o)
  <2>1. r.nodes \in [Nodes -> NodeStates] /\ r.cursor \in Cursors
    BY <1>1, <1>2 DEF FormsOK, FenceInv, TablesOK
  <2> QED
    BY <1>3, <2>1, ObjectWell
<1> QED
  BY <1>1, <1>4, <1>5, <1>6, LaunchKeeps DEF InProgress

\* recover keeps the checkpoint.
LEMMA RecoverKeeps ==
  ASSUME CheckpointInv, FenceInv', NEW e \in Engines, NEW x \in Runs, Recover(e, x)
  PROVE  Kept
<1>1. /\ up[e] = "up" /\ runs[e] = 0 /\ exec[x] = Free /\ UNCHANGED <<plan, up>>
      /\ FenceInv /\ runs \in [Engines -> Runs \cup {0}]
      /\ DOMAIN row = {"status", "nodes", "cursor", "owner", "epoch", "lapsed"}
  BY DEF Recover, FreeRun, CheckpointInv, FenceInv, TablesOK
<1>2. PICK o : o = Object(e, Claimed(e))
  OBVIOUS
<1>3. /\ Fresh(e, o) /\ o.epoch = Claimed(e).epoch
      /\ Well(o) /\ o.nodes = row.nodes /\ o.cursor = row.cursor /\ o.todo = {}
  BY <1>2, ObjectFresh, ObjectWell, ClaimedForms
<1>4. ASSUME NEW from \in {{"running"}, {"running", "paused"}}, NEW to \in {"paused", "pending"},
             NEW q, DOMAIN q = Fields, q.nodes = Recast(o.nodes, from, to),
             q.cursor = o.cursor, q.todo = {}, q.task = Idle, q.pc = "over"
      PROVE  Well(q) /\ Closer(q, row)
  <2>1. /\ o.nodes \in [Nodes -> NodeStates] /\ o.cursor \in Cursors
        /\ to \in NodeStates \ {"completed"} /\ "completed" \notin from
    BY <1>3 DEF Well, Formed, NodeStates
  <2>2. /\ q.nodes \in [Nodes -> NodeStates]
        /\ \A n \in Nodes : o.nodes[n] = "completed" => q.nodes[n] = "completed"
    BY <1>4, <2>1, RecastStates
  <2>3. Well(q)
    BY <1>4, <2>1, <2>2 DEF Well, Formed, Idle, Busy
  <2>4. Closer(q, o) /\ Done(o) = Done(row)
    BY <1>3, <1>4, <2>2, DoneSame DEF Done
  <2> QED
    BY <1>3, <2>3, <2>4 DEF Closer
<1>5. CASE plan.manual
  <2>1. PICK q : q = [o EXCEPT !.status = "paused", !.open = FALSE,
                               !.nodes = Recast(@, {"running"}, "paused")]
    OBVIOUS
  <2>2. runs' = [runs EXCEPT ![e] = x] /\ exec' = [exec EXCEPT ![x] = q]
        /\ row' = Released(Written(q, Claimed(e)))
    BY <1>2, <1>5, <2>1 DEF Recover
  <2>3. Leased(e, o, Claimed(e)) /\ o.epoch \in Nat
    BY <1>1, <1>3, ClaimedLeased, GrantedOnce DEF Leased
  <2>4. /\ DOMAIN q = Fields /\ q.nodes = Recast(o.nodes, {"running"}, "paused")
        /\ q.cursor = o.cursor /\ q.todo = {} /\ q.task = Idle /\ q.pc = "over"
        /\ q.eng = e /\ q.epoch = o.epoch /\ q.status = "paused" /\ ~q.fin
    BY <1>3, <2>1 DEF Fresh, Fields
  <2>5. Well(q) /\ Closer(q, row)
    BY <1>4, <2>4
  <2>6. Only(x, q)
    BY <1>1, <2>2, MovesPlain, MovesOnly
  <2>7. /\ row'.owner = None /\ row'.epoch = q.epoch + 1 /\ row'.status = "paused"
        /\ row'.nodes = q.nodes /\ row'.cursor = q.cursor
    BY <1>1, <2>2, <2>3, <2>4 DEF Released, Written, Leased
  <2>8. Carries(x, q)
    BY <2>4, <2>5, <2>7 DEF Carries, Closer, Done, Idle
  <2>9. ASSUME NEW d \in Engines, runs'[d] # 0, row'.epoch = exec'[runs'[d]].epoch + 1
        PROVE  exec'[runs'[d]].status # "running" /\ row'.status \notin InProgress
    <3>1. runs'[d] \in Live' /\ exec'[runs'[d]].epoch \in Nat
      BY <2>9 DEF FenceInv, TablesOK, ObjectsOK
    <3>2. CASE d = e
      BY <1>1, <2>2, <2>4, <2>6, <2>7, <3>1, <3>2 DEF Only, InProgress
    <3>3. CASE d # e
      <4>1. runs'[d] = runs[d] /\ runs[d] \in Live /\ runs[d] # x
        BY <1>1, <2>2, <2>9, <3>3 DEF FenceInv, TablesOK, Live
      <4>2. exec'[runs[d]] = exec[runs[d]]
        BY <2>6, <3>1, <4>1 DEF Only
      <4> QED
        BY <2>3, <2>4, <2>7, <2>9, <3>1, <3>3, <4>1, <4>2, GrantedAlone DEF Leased
    <3> QED
      BY <3>2, <3>3
  <2> QED
    BY <1>1, <2>4, <2>5, <2>6, <2>7, <2>8, <2>9, Frees DEF Well, Formed
<1>6. CASE ~plan.manual
  <2>1. PICK q : q = [o EXCEPT !.nodes = Recast(@, {"running", "paused"}, "pending")]
    OBVIOUS
  <2>2. Launch(e, x, q, Claimed(e))
    BY <1>2, <1>6, <2>1 DEF Recover
  <2>3. /\ DOMAIN q = Fields /\ q.nodes = Recast(o.nodes, {"running", "paused"}, "pending")
        /\ q.cursor = o.cursor /\ q.todo = {} /\ q.task = Idle /\ q.pc = "over"
        /\ Fresh(e, q) /\ q.epoch = Claimed(e).epoch
    BY <1>3, <2>1 DEF Fresh, Fields
  <2>4. Well(q) /\ Closer(q, row)
    BY <1>4, <2>3
  <2> QED
    BY <1>1, <2>2, <2>3, <2>4, ClaimedLeased, LaunchKeeps
<1> QED
  BY <1>5, <1>6

\* resume, of a row that is not in progress, keeps the checkpoint.
LEMMA ResumeKeeps ==
  ASSUME CheckpointInv, FenceInv', NEW e \in Engines, NEW x \in Runs, NEW strategy, Resume(e, x, strategy)
  PROVE  Kept
<1>1. /\ up[e] = "up" /\ exec[x] = Free /\ UNCHANGED <<plan, up>> /\ FenceInv
      /\ row.status \in {"paused", "failed", "timeout", "cancelled"}
  BY DEF Resume, FreeRun, CheckpointInv
<1>2. PICK o : o = Object(e, Claimed(e))
  OBVIOUS
<1>3. /\ Fresh(e, o) /\ o.epoch = Claimed(e).epoch
      /\ Well(o) /\ o.nodes = row.nodes /\ o.cursor = row.cursor /\ o.todo = {}
  BY <1>2, ObjectFresh, ObjectWell, ClaimedForms
<1>4. PICK again : again = [n \in Nodes |-> IF n \in Rerun(strategy, o.nodes) THEN "pending" ELSE o.nodes[n]]
  OBVIOUS
<1>5. PICK q : q = [o EXCEPT !.nodes = Recast(again, {"running", "paused"}, "pending"),
                             !.cursor = IF strategy = "continue" THEN @ ELSE Cursor0]
  OBVIOUS
<1>6. Launch(e, x, q, Claimed(e))
  BY <1>2, <1>3, <1>4, <1>5 DEF Resume
<1>7. /\ DOMAIN q = Fields /\ q.nodes = Recast(again, {"running", "paused"}, "pending")
      /\ q.cursor = (IF strategy = "continue" THEN o.cursor ELSE Cursor0)
      /\ q.todo = {} /\ q.task = Idle /\ q.pc = "over" /\ Fresh(e, q) /\ q.epoch = Claimed(e).epoch
  BY <1>3, <1>5 DEF Fresh, Fields
<1>8. Well(q)
  <2>1. again \in [Nodes -> NodeStates]
    BY <1>3, <1>4 DEF Well, Formed, NodeStates
  <2>2. q.nodes \in [Nodes -> NodeStates]
    <3>1. "pending" \in NodeStates \ {"completed"}
      BY DEF NodeStates
    <3> QED
      BY <1>7, <2>1, <3>1, RecastStates
  <2>3. q.cursor \in Cursors
    BY <1>3, <1>7, FirstCursor DEF Well, Formed
  <2> QED
    BY <1>7, <2>2, <2>3 DEF Well, Formed, Idle, Busy
<1> QED
  BY <1>1, <1>6, <1>7, <1>8, ClaimedLeased, LaunchKeeps DEF InProgress


\* A cancel of a row without an object keeps the checkpoint.
LEMMA CancelStoredKeeps ==
  ASSUME CheckpointInv, FenceInv', NEW e \in Engines, NEW x \in Runs, CancelStored(e, x)
  PROVE  Kept
<1>1. /\ up[e] = "up" /\ exec[x] = Free /\ UNCHANGED <<plan, up>> /\ FenceInv
      /\ runs \in [Engines -> Runs \cup {0}] /\ runs' = [runs EXCEPT ![e] = x]
      /\ DOMAIN row = {"status", "nodes", "cursor", "owner", "epoch", "lapsed"}
  BY DEF CancelStored, FreeRun, CheckpointInv, FenceInv, TablesOK
<1>2. PICK o : o = Object(e, Claimed(e))
  OBVIOUS
<1>3. PICK q : q = Finalized(o, "cancelled")
  OBVIOUS
<1>4. exec' = [exec EXCEPT ![x] = q] /\ row' = Written(q, Claimed(e))
  BY <1>2, <1>3 DEF CancelStored
<1>5. /\ Fresh(e, o) /\ o.epoch = Claimed(e).epoch
      /\ Well(o) /\ o.nodes = row.nodes /\ o.cursor = row.cursor /\ o.todo = {}
  BY <1>2, ObjectFresh, ObjectWell, ClaimedForms
<1>6. /\ DOMAIN q = Fields /\ q.nodes = Recast(o.nodes, Unended, "cancelled") /\ q.cursor = o.cursor
      /\ q.todo = {} /\ q.task = Unwaited(o.task) /\ q.pc = "over" /\ q.eng = e /\ q.epoch = o.epoch
  BY <1>3, <1>5 DEF Fresh, Fields, Finalized, Fenced
<1>7. q.task = Idle
  BY <1>5, <1>6 DEF Fresh, Unwaited, Idle
<1>8. /\ q.nodes \in [Nodes -> NodeStates]
      /\ \A n \in Nodes : o.nodes[n] = "completed" => q.nodes[n] = "completed"
  <2>1. /\ o.nodes \in [Nodes -> NodeStates]
        /\ "cancelled" \in NodeStates \ {"completed"} /\ "completed" \notin Unended
    BY <1>5 DEF Well, Formed, NodeStates, Unended
  <2> QED
    BY <1>6, <2>1, RecastStates
<1>9. Well(q)
  BY <1>5, <1>6, <1>7, <1>8 DEF Well, Formed, Idle, Busy
<1>10. Closer(q, row)
  <2>1. Closer(q, o) /\ Done(o) = Done(row)
    BY <1>5, <1>6, <1>8, DoneSame DEF Done
  <2> QED
    BY <1>5, <2>1 DEF Closer
<1>11. Only(x, q)
  BY <1>1, <1>4, MovesPlain, MovesOnly
<1>12. /\ row'.nodes = q.nodes /\ row'.cursor = q.cursor
       /\ row'.owner = q.eng /\ row'.epoch = q.epoch
  <2>1. Leased(e, o, Claimed(e))
    BY <1>1, <1>5, ClaimedLeased
  <2> QED
    BY <1>1, <1>4, <1>6, <2>1 DEF Written, Leased
<1>13. Carries(x, q)
  BY <1>7, <1>10, <1>12 DEF Carries, Closer, Done, Idle
<1>14. runs'[e] = x /\ x \in Live' /\ up'[e] = "up"
  <2>1. runs'[e] = x /\ x # 0
    BY <1>1 DEF Runs
  <2> QED
    BY <1>1, <2>1 DEF FenceInv, TablesOK
<1> QED
  BY <1>1, <1>6, <1>9, <1>11, <1>12, <1>13, <1>14, Writes DEF Well

-----------------------------------------------------------------------------
(* Controls and timers *)

\* What an object waits for once it is fenced.
LEMMA UnwaitedTask ==
  ASSUME NEW task \in [Nodes -> Busy \cup {"none", "ok", "err"}]
  PROVE  /\ Unwaited(task) \in [Nodes -> Busy \cup {"none", "ok", "err"}]
         /\ \A n \in Nodes : Unwaited(task)[n] \in {task[n], "none"}
BY DEF Unwaited

\* Object x is fenced, and written when it holds the lease.
LEMMA FallsOn ==
  ASSUME CheckpointInv, FenceInv', NEW x \in Live, up[exec[x].eng] = "up", exec[x].status \notin Terminal,
         NEW q, Only(x, q), UNCHANGED <<plan, runs, up>>,
         DOMAIN q = Fields, q.eng = exec[x].eng, q.epoch = exec[x].epoch, q.status # "running",
         q.task = Unwaited(exec[x].task), q.cursor = exec[x].cursor, q.todo = exec[x].todo,
         q.pc \in {"over", exec[x].pc}, q.fin => Owns(exec[x]),
         runs[exec[x].eng] = x \/ exec[x].status = "running",
         q.nodes \in [Nodes -> NodeStates],
         \A n \in Nodes : q.nodes[n] = "completed" <=> exec[x].nodes[n] = "completed",
         row' = IF Owns(exec[x]) THEN Written(q, row) ELSE row
  PROVE  Kept
<1>1. /\ FenceInv /\ AgreesOK /\ Well(exec[x]) /\ x \in Runs /\ exec[x].eng \in Engines
      /\ DOMAIN row = {"status", "nodes", "cursor", "owner", "epoch", "lapsed"}
  BY LiveWell DEF CheckpointInv
<1>2. /\ ~exec[x].fin
      /\ Owns(exec[x]) => row.status = exec[x].status /\ runs[exec[x].eng] = x
  BY <1>1 DEF FenceInv, FinalizersOK, OwnersOK, Spent
<1>4. /\ q.task \in [Nodes -> Busy \cup {"none", "ok", "err"}]
      /\ \A n \in Nodes : q.task[n] \in {exec[x].task[n], "none"}
  BY <1>1, UnwaitedTask DEF Well, Formed
<1>5. Formed(q)
  BY <1>1, <1>4 DEF Well, Formed, Busy
<1>6. Closer(q, exec[x])
  BY DoneSame
<1>7. CASE Owns(exec[x])
  <2>1. row.nodes = exec[x].nodes /\ row.cursor = exec[x].cursor
    BY <1>1, <1>2, <1>7 DEF AgreesOK
  <2>2. Done(row) = Done(exec[x])
    BY <2>1 DEF Done
  <2>3. /\ row'.nodes = q.nodes /\ row'.cursor = q.cursor
        /\ row'.owner = q.eng /\ row'.epoch = q.epoch /\ Done(row') = Done(q)
    BY <1>1, <1>7 DEF Written, Owns, Done
  <2>4. Carries(x, q)
    BY <1>1, <1>4, <1>6, <2>1, <2>3, <2>2 DEF Carries, Closer, Task
  <2>5. x \in Live' /\ runs'[q.eng] = x /\ up'[q.eng] = "up"
    <3>1. x # 0
      BY <1>1 DEF Runs
    <3> QED
      BY <1>1, <1>2, <1>7, <3>1 DEF FenceInv, TablesOK
  <2> QED
    BY <1>5, <2>3, <2>4, <2>5, Writes
<1>8. CASE ~Owns(exec[x])
  BY <1>1, <1>4, <1>5, <1>8, Fades
<1> QED
  BY <1>7, <1>8

\* pause keeps the checkpoint.
LEMMA PauseKeeps ==
  ASSUME CheckpointInv, FenceInv', NEW e \in Engines, Pause(e)
  PROVE  Kept
<1>1. PICK x : x = runs[e]
  OBVIOUS
<1>2. /\ runs[e] # 0 /\ up[e] = "up" /\ exec[x].status \notin Terminal /\ UNCHANGED <<plan, runs, up>>
      /\ FenceInv
  BY <1>1 DEF Pause, CheckpointInv
<1>3. x \in Live /\ DOMAIN exec[x] = Fields /\ exec[x].eng = e
  BY <1>1, <1>2, Listed
<1>4. PICK q : q = [Fenced(exec[x]) EXCEPT !.status = "paused",
                                           !.nodes = Recast(@, {"running"}, "paused")]
  OBVIOUS
<1>5. exec' = [exec EXCEPT ![x] = q] /\ row' = Saved(q)
  BY <1>1, <1>4 DEF Pause
<1>6. /\ DOMAIN q = Fields /\ q.eng = e /\ q.epoch = exec[x].epoch /\ q.status = "paused"
      /\ q.task = Unwaited(exec[x].task) /\ q.fin = exec[x].fin /\ q.cursor = exec[x].cursor
      /\ q.todo = exec[x].todo /\ q.pc \in {"over", exec[x].pc}
      /\ q.nodes = Recast(exec[x].nodes, {"running"}, "paused")
  BY <1>3, <1>4 DEF Fenced, Fields
<1>7. ~q.fin
  BY <1>2, <1>3, <1>6 DEF FenceInv, FinalizersOK
<1>8. row' = IF Owns(exec[x]) THEN Written(q, row) ELSE row
  BY <1>2, <1>3, <1>5, <1>6, SavedUp
<1>9. /\ q.nodes \in [Nodes -> NodeStates]
      /\ \A n \in Nodes : q.nodes[n] = "completed" <=> exec[x].nodes[n] = "completed"
  <2>1. "paused" \in NodeStates \ {"completed"} /\ exec[x].nodes \in [Nodes -> NodeStates]
    BY <1>3, LiveWell DEF NodeStates, Well, Formed
  <2> QED
    BY <1>6, <2>1, RecastStates
<1>10. Only(x, q)
  BY <1>2, <1>3, <1>5, MovesPlain, MovesOnly DEF Live
<1>11. /\ up[exec[x].eng] = "up" /\ q.eng = exec[x].eng /\ runs[exec[x].eng] = x
       /\ q.status # "running"
  BY <1>1, <1>2, <1>3, <1>6
<1> QED
  BY <1>2, <1>3, <1>6, <1>7, <1>8, <1>9, <1>11, <1>10, FallsOn

\* A cancel or timeout of an object keeps the checkpoint.
LEMMA FinalizedKeeps ==
  ASSUME CheckpointInv, FenceInv', NEW x \in Live, up[exec[x].eng] = "up", exec[x].status \notin Terminal,
         runs[exec[x].eng] = x \/ exec[x].status = "running",
         NEW status \in {"cancelled", "timeout"},
         NEW p, p = Finalized(exec[x], status),
         exec' = [exec EXCEPT ![x] = [p EXCEPT !.fin = Owns(p)]], row' = Saved(p),
         UNCHANGED <<plan, runs, up>>
  PROVE  Kept
<1>1. DOMAIN exec[x] = Fields
  BY LiveWell DEF Well
<1>2. PICK q : q = [p EXCEPT !.fin = Owns(p)]
  OBVIOUS
<1>3. /\ DOMAIN p = Fields /\ p.eng = exec[x].eng /\ p.epoch = exec[x].epoch
      /\ p.task = Unwaited(exec[x].task) /\ p.status = status /\ p.pc \in {"over", exec[x].pc}
      /\ p.cursor = exec[x].cursor /\ p.todo = exec[x].todo
      /\ p.nodes = Recast(exec[x].nodes, Unended, "cancelled")
  BY <1>1 DEF Finalized, Fenced, Fields
<1>4. /\ DOMAIN q = Fields /\ q.eng = p.eng /\ q.epoch = p.epoch /\ q.todo = p.todo
      /\ q.task = p.task /\ q.status = p.status /\ q.pc = p.pc
      /\ q.nodes = p.nodes /\ q.cursor = p.cursor
  BY <1>2, <1>3 DEF Fields
<1>5. q.fin = Owns(p)
  BY <1>2, <1>3 DEF Fields
<1>6. q.fin => Owns(exec[x])
  BY <1>3, <1>5 DEF Owns
<1>7. row' = IF Owns(exec[x]) THEN Written(q, row) ELSE row
  BY <1>3, <1>4, SavedUp
<1>8. /\ q.nodes \in [Nodes -> NodeStates]
      /\ \A n \in Nodes : q.nodes[n] = "completed" <=> exec[x].nodes[n] = "completed"
  <2>1. /\ "cancelled" \in NodeStates \ {"completed"} /\ "completed" \notin Unended
        /\ exec[x].nodes \in [Nodes -> NodeStates]
    BY LiveWell DEF NodeStates, Unended, Well, Formed
  <2> QED
    BY <1>3, <1>4, <2>1, RecastStates
<1>9. Only(x, q)
  <2>1. exec' = [exec EXCEPT ![x] = q] /\ FenceInv
    BY <1>2 DEF CheckpointInv
  <2> QED
    BY <2>1, MovesPlain, MovesOnly DEF Live
<1>10. /\ q.eng = exec[x].eng /\ q.epoch = exec[x].epoch /\ q.status # "running"
       /\ q.task = Unwaited(exec[x].task) /\ q.cursor = exec[x].cursor /\ q.todo = exec[x].todo
       /\ q.pc \in {"over", exec[x].pc}
  BY <1>3, <1>4
<1> QED
  BY <1>4, <1>6, <1>7, <1>8, <1>9, <1>10, FallsOn

\* cancel of an object keeps the checkpoint.
LEMMA CancelKeeps ==
  ASSUME CheckpointInv, FenceInv', NEW e \in Engines, Cancel(e)
  PROVE  Kept
<1>1. PICK x : x = runs[e]
  OBVIOUS
<1>2. /\ runs[e] # 0 /\ up[e] = "up" /\ exec[x].status \notin Terminal /\ UNCHANGED <<plan, runs, up>>
      /\ FenceInv
  BY <1>1 DEF Cancel, CheckpointInv
<1>3. x \in Live /\ exec[x].eng = e
  BY <1>1, <1>2, Listed
<1>4. PICK p : p = Finalized(exec[x], "cancelled")
  OBVIOUS
<1>5. exec' = [exec EXCEPT ![x] = [p EXCEPT !.fin = Owns(p)]] /\ row' = Saved(p)
  BY <1>1, <1>4 DEF Cancel
<1> QED
  BY <1>1, <1>2, <1>3, <1>4, <1>5, FinalizedKeeps

\* The workflow's timeout keeps the checkpoint.
LEMMA TimesOutKeeps ==
  ASSUME CheckpointInv, FenceInv', NEW x \in Runs, TimesOut(x)
  PROVE  Kept
<1>1. /\ x \in Live /\ exec[x].pc # "over" /\ up[exec[x].eng] = "up" /\ exec[x].status = "running"
      /\ UNCHANGED <<plan, runs, up>>
  BY DEF TimesOut
<1>2. PICK p : p = Finalized(exec[x], "timeout")
  OBVIOUS
<1>3. exec' = [exec EXCEPT ![x] = [p EXCEPT !.fin = Owns(p)]] /\ row' = Saved(p)
  BY <1>2 DEF TimesOut
<1> QED
  BY <1>1, <1>2, <1>3, FinalizedKeeps DEF Terminal

\* The row stays, and no object changes: some may go.
LEMMA Stays ==
  ASSUME CheckpointInv, FenceInv', plan' = plan,
         \A y \in Live' : y \in Live /\ exec'[y] = exec[y],
         row'.nodes = row.nodes, row'.cursor = row.cursor, row'.status = row.status,
         row'.epoch = row.epoch, row'.owner \in {row.owner, Gone},
         \A e \in Engines : runs'[e] \in {0, runs[e]}
  PROVE  Kept
<1>1. Only(0, Free) /\ 0 \notin Live'
  BY DEF Only, Live, Runs
<1> QED
  BY <1>1, Fades

\* A renewal of leases keeps the checkpoint.
LEMMA RenewKeeps ==
  ASSUME CheckpointInv, FenceInv', NEW e \in Engines, Renew(e)
  PROVE  Kept
<1>1. PICK x : x = runs[e]
  OBVIOUS
<1>2. runs[e] # 0 /\ UNCHANGED <<plan, runs, up>> /\ FenceInv
  BY DEF Renew, CheckpointInv
<1>3. x \in Live
  BY <1>1, <1>2, Listed
<1>4. /\ Well(exec[x]) /\ x \in Runs
      /\ DOMAIN row = {"status", "nodes", "cursor", "owner", "epoch", "lapsed"}
  BY <1>3, LiveWell
<1>5. PICK q : q = [exec[x] EXCEPT !.open = @ /\ Owns(exec[x])]
  OBVIOUS
<1>6. exec' = [exec EXCEPT ![x] = q] /\ row' = IF Owns(exec[x]) THEN [row EXCEPT !.lapsed = FALSE] ELSE row
  BY <1>1, <1>5 DEF Renew
<1>7. /\ q.eng = exec[x].eng /\ q.epoch = exec[x].epoch /\ q.status = exec[x].status
      /\ q.fin = exec[x].fin /\ q.task = exec[x].task /\ q.pc = exec[x].pc /\ q.todo = exec[x].todo
      /\ q.nodes = exec[x].nodes /\ q.cursor = exec[x].cursor
  BY <1>4, <1>5 DEF Well, Fields
<1>8. Formed(q)
  BY <1>4, <1>7 DEF Well, Formed
<1>9. /\ row'.nodes = row.nodes /\ row'.cursor = row.cursor /\ row'.status = row.status
      /\ row'.epoch = row.epoch /\ row'.owner = row.owner
  BY <1>4, <1>6
<1>10. Only(x, q)
  BY <1>2, <1>4, <1>6, MovesPlain, MovesOnly
<1> QED
  BY <1>2, <1>3, <1>7, <1>8, <1>9, <1>10, Fades

\* artifactRegister keeps the checkpoint, if nobody claimed the workflow since.
LEMMA RegisterArtifactKeeps ==
  ASSUME CheckpointInv, FenceInv', ~overwritten', NEW e \in Engines, RegisterArtifact(e)
  PROVE  Kept
<1>1. PICK x : x = runs[e]
  OBVIOUS
<1>2. runs[e] # 0 /\ UNCHANGED <<plan, runs, up>> /\ FenceInv /\ StoppedOK /\ AgreesOK
  BY DEF RegisterArtifact, CheckpointInv
<1>3. /\ x \in Live /\ exec[x].eng = e
      /\ Owns(exec[x]) => row.status = exec[x].status
      /\ DOMAIN row = {"status", "nodes", "cursor", "owner", "epoch", "lapsed"}
  BY <1>1, <1>2, Listed
<1>4. Well(exec[x]) /\ Shaped(exec[x]) /\ x \in Runs /\ row.epoch \in Nat
  BY <1>3, LiveWell
<1>5. CASE Owns(exec[x])
  <2>1. row' = Written(exec[x], row) /\ exec' = exec
    BY <1>1, <1>5 DEF RegisterArtifact
  <2>2. row.nodes = exec[x].nodes /\ row.cursor = exec[x].cursor
    BY <1>1, <1>2, <1>3, <1>5 DEF AgreesOK
  <2>3. /\ row'.nodes = row.nodes /\ row'.cursor = row.cursor /\ row'.status = row.status
        /\ row'.epoch = row.epoch /\ row'.owner = row.owner
    BY <1>3, <1>5, <2>1, <2>2 DEF Written
  <2> QED
    BY <1>2, <2>1, <2>3, Stays DEF Live
<1>6. CASE ~Owns(exec[x])
  <2>1. /\ row.owner = None /\ row.epoch = exec[x].epoch + 1
        /\ row' = Released(Written(exec[x], Claimed(e)))
        /\ exec' = [exec EXCEPT ![x].epoch = Claimed(e).epoch]
    BY <1>1, <1>6 DEF RegisterArtifact, Untouched
  <2>2. exec[x].status # "running" /\ row.status \notin InProgress
    BY <1>1, <1>2, <2>1 DEF StoppedOK, InProgress
  <2>3. PICK g : g = Claimed(e).epoch
    OBVIOUS
  <2>4. g = row.epoch + 1
    BY <1>3, <2>1, <2>3, PlanAssumption DEF Claimed
  <2>5. /\ row'.owner = None /\ row'.epoch = g + 1 /\ row'.status = exec[x].status
        /\ row'.nodes = exec[x].nodes /\ row'.cursor = exec[x].cursor
    <3>1. PICK r : r = Written(exec[x], Claimed(e))
      OBVIOUS
    <3>2. /\ DOMAIN r = DOMAIN row /\ r.epoch = g /\ r.status = exec[x].status
          /\ r.nodes = exec[x].nodes /\ r.cursor = exec[x].cursor
      BY <1>3, <2>3, <3>1 DEF Written, Claimed
    <3>3. row' = Released(r)
      BY <2>1, <3>1
    <3> QED
      BY <1>3, <3>2, <3>3 DEF Released
  <2>6. PICK q : q = [exec[x] EXCEPT !.epoch = g]
    OBVIOUS
  <2>7. exec' = [exec EXCEPT ![x] = q]
    BY <2>1, <2>3, <2>6
  <2>8. /\ q.eng = e /\ q.epoch = g /\ q.status = exec[x].status
        /\ q.fin = exec[x].fin /\ q.task = exec[x].task /\ q.pc = exec[x].pc /\ q.todo = exec[x].todo
        /\ q.nodes = exec[x].nodes /\ q.cursor = exec[x].cursor
    BY <1>3, <1>4, <2>6 DEF Well, Fields
  <2>9. Formed(q)
    BY <1>4, <2>8 DEF Well, Formed
  <2>10. Only(x, q)
    BY <1>2, <1>4, <2>7, MovesPlain, MovesOnly
  <2>11. row'.status \notin InProgress
    BY <1>4, <2>2, <2>5 DEF Shaped, InProgress, Terminal
  <2>12. ASSUME NEW d \in Engines, runs'[d] # 0, row'.epoch = exec'[runs'[d]].epoch + 1
         PROVE  exec'[runs'[d]].status # "running"
    <3>1. /\ runs[d] \in Live /\ runs[d] \in Live'
          /\ exec[runs[d]].epoch \in Nat /\ exec[runs[d]].epoch <= row.epoch
      BY <1>2, <2>12 DEF FenceInv, TablesOK, ObjectsOK, EpochsOK
    <3>2. CASE runs[d] = x
      BY <1>2, <2>2, <2>8, <2>10, <3>1, <3>2 DEF Only
    <3>3. CASE runs[d] # x
      <4>1. exec'[runs'[d]] = exec[runs[d]]
        BY <1>2, <2>10, <3>1, <3>3 DEF Only
      <4> QED
        BY <1>4, <2>4, <2>5, <2>12, <3>1, <4>1
    <3> QED
      BY <3>2, <3>3
  <2>13. Carries(x, q)
    BY <2>2 DEF Carries
  <2> QED
    BY <1>2, <1>3, <1>4, <2>5, <2>8, <2>9, <2>10, <2>11, <2>12, <2>13, Frees DEF Well, Formed
<1> QED
  BY <1>5, <1>6


\* The engine that claimed the row only to fail the workflow.
LEMMA RecoverFailsKeeps ==
  ASSUME CheckpointInv, FenceInv', NEW e \in Engines, RecoverFails(e)
  PROVE  Kept
<1>1. /\ runs[e] = 0 /\ UNCHANGED <<plan, exec, runs, up>> /\ FenceInv /\ FormsOK
      /\ row' = Released([Claimed(e) EXCEPT !.status = "failed"])
      /\ DOMAIN row = {"status", "nodes", "cursor", "owner", "epoch", "lapsed"}
  BY DEF RecoverFails, CheckpointInv, FenceInv, TablesOK
<1>2. PICK g : g = Claimed(e).epoch
  OBVIOUS
<1>3. Granted(e, g) /\ g \in Nat
  BY <1>1, <1>2, GrantedOnce DEF Claimed, Granted
<1>4. /\ row'.owner = None /\ row'.epoch = g + 1 /\ row'.nodes = row.nodes /\ row'.cursor = row.cursor
      /\ row'.status = "failed"
  BY <1>1, <1>2 DEF Claimed, Released
<1>5. ASSUME NEW d \in Engines, runs'[d] # 0, row'.epoch = exec'[runs'[d]].epoch + 1
      PROVE  FALSE
  <2>1. runs[d] # 0 /\ d # e /\ runs[d] \in Live /\ exec[runs[d]].epoch \in Nat
    BY <1>1, <1>5 DEF FenceInv, TablesOK, ObjectsOK
  <2>2. exec[runs[d]].epoch # g
    BY <1>3, <2>1, GrantedAlone
  <2> QED
    BY <1>1, <1>3, <1>4, <1>5, <2>1, <2>2
<1>6. Only(0, Free) /\ 0 \notin Live'
  BY <1>1 DEF Only, Live, Runs
<1>7. Carries(0, Free)
  BY <1>4, <1>6 DEF Carries, Closer, Done
<1> QED
  BY <1>1, <1>4, <1>5, <1>6, <1>7, Frees DEF FormsOK

\* A lease that runs out keeps the checkpoint.
LEMMA LapseKeeps ==
  ASSUME CheckpointInv, FenceInv', Lapse
  PROVE  Kept
<1>1. /\ row' = [row EXCEPT !.lapsed = TRUE] /\ UNCHANGED <<plan, exec, runs, up>>
      /\ DOMAIN row = {"status", "nodes", "cursor", "owner", "epoch", "lapsed"}
  BY DEF Lapse, CheckpointInv, FenceInv, TablesOK
<1>2. /\ row'.nodes = row.nodes /\ row'.cursor = row.cursor /\ row'.status = row.status
      /\ row'.epoch = row.epoch /\ row'.owner = row.owner
  BY <1>1
<1> QED
  BY <1>1, <1>2, Stays DEF Live

\* What dispose parks keeps what is completed.
LEMMA ParkedForms ==
  ASSUME NEW o, Well(o)
  PROVE  /\ Parked(o).cursor = o.cursor /\ Parked(o).nodes \in [Nodes -> NodeStates]
         /\ \A n \in Nodes : o.nodes[n] = "completed" => Parked(o).nodes[n] = "completed"
<1>1. PICK p : p = Parked(o)
  OBVIOUS
<1>2. "pending" \in NodeStates \ {"completed"} /\ o.nodes \in [Nodes -> NodeStates]
  BY DEF NodeStates, Well, Formed
<1>3. PICK again : again = Recast(o.nodes, {"running"}, "pending")
  OBVIOUS
<1>4. /\ again \in [Nodes -> NodeStates]
      /\ \A n \in Nodes : o.nodes[n] = "completed" => again[n] = "completed"
  BY <1>2, <1>3, RecastStates
<1>5. p.cursor = o.cursor /\ p.nodes \in {o.nodes, again}
  BY <1>1, <1>3 DEF Parked, Well, Fields
<1> QED
  BY <1>1, <1>2, <1>4, <1>5

\* The end of dispose keeps the checkpoint.
LEMMA DisposeEndsKeeps ==
  ASSUME CheckpointInv, FenceInv', NEW e \in Engines, DisposeEnds(e), UNCHANGED plan
  PROVE  Kept
<1>1. /\ FenceInv /\ FormsOK /\ AgreesOK
      /\ DOMAIN row = {"status", "nodes", "cursor", "owner", "epoch", "lapsed"} /\ row.epoch \in Nat
      /\ runs \in [Engines -> Runs \cup {0}]
      /\ runs[e] # 0 => runs[e] \in Live /\ exec[runs[e]].eng = e
  BY DEF CheckpointInv, FenceInv, TablesOK
<1>2. /\ exec' = [y \in Runs |-> IF y \in Live /\ exec[y].eng = e /\ ~exec[y].fin THEN Free ELSE exec[y]]
      /\ runs' = [runs EXCEPT ![e] = 0] /\ up' = [up EXCEPT ![e] = "down"]
  BY DEF DisposeEnds
<1>3. \A y \in Live' : y \in Live /\ exec'[y] = exec[y]
  BY <1>2 DEF Live
<1>4. \A d \in Engines : runs'[d] \in {0, runs[d]} /\ (runs'[d] # 0 => d # e)
  BY <1>1, <1>2
<1>5. CASE Finalizes(e)
  <2>1. row' = row
    BY <1>5 DEF DisposeEnds
  <2> QED
    BY <1>3, <1>4, <2>1, Stays
<1>6. CASE ~Finalizes(e) /\ runs[e] # 0 /\ Owns(exec[runs[e]])
  <2>1. PICK x : x = runs[e]
    OBVIOUS
  <2>2. PICK p : p = Parked(exec[x])
    OBVIOUS
  <2>3. row' = Released(IF p = exec[x] THEN row ELSE Written(p, row))
    BY <1>6, <2>1, <2>2 DEF DisposeEnds
  <2>4. x \in Live /\ row.nodes = exec[x].nodes /\ row.cursor = exec[x].cursor /\ row.owner = e
    BY <1>1, <1>6, <2>1 DEF AgreesOK, Owns
  <2>5. /\ p.cursor = row.cursor /\ p.nodes \in [Nodes -> NodeStates]
        /\ \A n \in Nodes : row.nodes[n] = "completed" => p.nodes[n] = "completed"
    BY <2>2, <2>4, LiveWell, ParkedForms
  <2>6. /\ row'.owner = None /\ row'.epoch = row.epoch + 1
        /\ row'.cursor = p.cursor /\ row'.nodes = p.nodes
    BY <1>1, <2>3, <2>4 DEF Released, Written
  <2>7. ASSUME NEW d \in Engines, runs'[d] # 0, row'.epoch = exec'[runs'[d]].epoch + 1
        PROVE  FALSE
    <3>1. d # e /\ runs'[d] = runs[d] /\ runs[d] # 0 /\ runs[d] \in Live'
      BY <1>4, <2>7 DEF FenceInv, TablesOK
    <3>2. exec'[runs[d]] = exec[runs[d]] /\ exec[runs[d]].epoch \in Nat
      BY <1>1, <1>3, <3>1 DEF FenceInv, ObjectsOK
    <3>3. exec[runs[d]].epoch = row.epoch
      BY <1>1, <2>6, <2>7, <3>1, <3>2
    <3> QED
      BY <2>4, <3>1, <3>3, OneWithEpoch
  <2>8. Only(0, Free) /\ 0 \notin Live'
    BY <1>3 DEF Only, Live, Runs
  <2>9. Closer(row', row)
    BY <2>5, <2>6, DoneSame
  <2>10. Carries(0, Free)
    BY <2>8, <2>9 DEF Carries
  <2> QED
    BY <1>1, <2>5, <2>6, <2>7, <2>8, <2>10, Frees DEF FormsOK
<1>7. CASE ~Finalizes(e) /\ ~(runs[e] # 0 /\ Owns(exec[runs[e]]))
  <2>1. row' = Orphaned(row, e)
    BY <1>7 DEF DisposeEnds
  <2>2. /\ row'.nodes = row.nodes /\ row'.cursor = row.cursor /\ row'.status = row.status
        /\ row'.epoch = row.epoch /\ row'.owner \in {row.owner, Gone}
    BY <1>1, <2>1 DEF Orphaned
  <2> QED
    BY <1>3, <1>4, <2>2, Stays
<1> QED
  BY <1>5, <1>6, <1>7

\* A crash keeps the checkpoint.
LEMMA CrashKeeps ==
  ASSUME CheckpointInv, FenceInv', NEW e \in Engines, Crash(e)
  PROVE  Kept
<1>1. /\ DOMAIN row = {"status", "nodes", "cursor", "owner", "epoch", "lapsed"}
      /\ runs \in [Engines -> Runs \cup {0}]
  BY DEF CheckpointInv, FenceInv, TablesOK
<1>2. /\ exec' = [y \in Runs |-> IF y \in Live /\ exec[y].eng = e THEN Free ELSE exec[y]]
      /\ runs' = [runs EXCEPT ![e] = 0] /\ plan' = plan /\ row' = Orphaned(row, e)
  BY DEF Crash
<1>3. \A y \in Live' : y \in Live /\ exec'[y] = exec[y]
  BY <1>2 DEF Live
<1>4. /\ row'.nodes = row.nodes /\ row'.cursor = row.cursor /\ row'.status = row.status
      /\ row'.epoch = row.epoch /\ row'.owner \in {row.owner, Gone}
  BY <1>1, <1>2 DEF Orphaned
<1>5. \A d \in Engines : runs'[d] \in {0, runs[d]}
  BY <1>1, <1>2
<1> QED
  BY <1>2, <1>3, <1>4, <1>5, Stays


\* Every step that writes no old object over a newer checkpoint keeps the invariant and
\* what is recorded as done.
LEMMA CheckpointStep ==
  ASSUME CheckpointInv, [Next]_vars, ~overwritten'
  PROVE  CheckpointInv' /\ KeepsDone
<1>1. FenceInv'
  BY FenceStep DEF CheckpointInv
<1> SUFFICES Kept
  BY <1>1 DEF CheckpointInv, Kept
<1>2. ASSUME NEW x \in Runs, Continues(x) PROVE Kept
  BY <1>1, <1>2, ContinuesKeep
<1>3. ASSUME NEW e \in Engines, NEW x \in Runs, Recover(e, x) PROVE Kept
  BY <1>1, <1>3, RecoverKeeps
<1>4. ASSUME NEW e \in Engines, Renew(e) PROVE Kept
  BY <1>1, <1>4, RenewKeeps
<1>5. ASSUME NEW e \in Engines, UNCHANGED <<plan, row, exec, runs>> PROVE Kept
  BY <1>1, <1>5, Stays DEF Live
<1>6. ASSUME NEW e \in Engines, DisposeReturns(e) PROVE Kept
  BY <1>1, <1>6, DisposeEndsKeeps DEF DisposeReturns
<1>7. ASSUME NEW e \in Engines, NEW x \in Runs, Run(e, x) PROVE Kept
  BY <1>1, <1>7, RunKeeps
<1>8. ASSUME NEW e \in Engines, RecoverFails(e) PROVE Kept
  BY <1>1, <1>8, RecoverFailsKeeps
<1>9. ASSUME NEW e \in Engines, Pause(e) \/ Cancel(e) \/ RegisterArtifact(e) PROVE Kept
  BY <1>1, <1>9, PauseKeeps, CancelKeeps, RegisterArtifactKeeps
<1>10. ASSUME NEW e \in Engines, NEW x \in Runs, CancelStored(e, x) PROVE Kept
  BY <1>1, <1>10, CancelStoredKeeps
<1>11. ASSUME NEW e \in Engines, NEW x \in Runs, NEW s \in Strategies, Resume(e, x, s) PROVE Kept
  BY <1>1, <1>11, ResumeKeeps
<1>12. ASSUME NEW e \in Engines, Dispose(e) PROVE Kept
  <2>1. CASE Finalizes(e)
    BY <1>5, <1>12, <2>1 DEF Dispose
  <2>2. CASE ~Finalizes(e)
    BY <1>1, <1>12, <2>2, DisposeEndsKeeps DEF Dispose
  <2> QED
    BY <2>1, <2>2
<1>13. ASSUME NEW e \in Engines, Crash(e) PROVE Kept
  BY <1>1, <1>13, CrashKeeps
<1>14. ASSUME NEW x \in Runs, TimesOut(x) PROVE Kept
  BY <1>1, <1>14, TimesOutKeeps
<1>15. CASE Lapse
  BY <1>1, <1>15, LapseKeeps
<1>16. ASSUME NEW e \in Engines, Start(e) PROVE Kept
  BY <1>5, <1>16 DEF Start
<1>17. CASE UNCHANGED vars
  BY <1>5, <1>17, PlanAssumption DEF vars
<1>18. CASE Next
  BY <1>2, <1>3, <1>4, <1>6, <1>7, <1>8, <1>9, <1>10, <1>11, <1>12, <1>13, <1>14, <1>15, <1>16, <1>18
     DEF Next, Work, Control
<1> QED
  BY <1>17, <1>18

\* The invariant holds initially.
LEMMA CheckpointInit ==
  ASSUME Init
  PROVE  CheckpointInv
<1>1. Live = {} /\ \A e \in Engines : runs[e] = 0
  BY DEF Init, Live
<1>2. row.nodes = [n \in Nodes |-> "pending"] /\ row.cursor = Cursor0
  BY DEF Init
<1>3. row.nodes \in [Nodes -> NodeStates] /\ row.cursor \in Cursors
  BY <1>2, FirstCursor DEF NodeStates
<1> QED
  BY <1>1, <1>3, FenceInit DEF CheckpointInv, FormsOK, AgreesOK, StoppedOK, OneFinalizer

\* The inductive invariant of the checkpoint, until an old object is written over a
\* newer one: the owner's object in its table, and that of a finalizer, has what the
\* row has; what gave the lease back has stopped.
THEOREM CheckpointInvariant == Spec => [](overwritten \/ CheckpointInv)
<1>1. Init => overwritten \/ CheckpointInv
  BY CheckpointInit
<1>2. (overwritten \/ CheckpointInv) /\ [Next]_vars => (overwritten \/ CheckpointInv)'
  BY CheckpointStep, OverwrittenStays
<1> QED
  BY <1>1, <1>2, PTL DEF Spec

\* What the checkpoint of a workflow in progress records as done in this round
\* stays recorded, and is not started again: not by the execution that did it,
\* not by the engine that takes the workflow over, until an old object is written
\* over a newer checkpoint.
THEOREM StepsOnce == Spec => NothingRepeated
<1>1. (overwritten \/ CheckpointInv) /\ [Next]_vars =>
        [row.status \in {"queued", "running"} =>
          \/ overwritten'
          \/ row'.cursor.round = row.cursor.round + 1
          \/ /\ row'.cursor.round = row.cursor.round
             /\ Done(row) \subseteq Done(row)'
             /\ \A n \in Done(row) \cap Nodes : ~Enters(n, "create")]_vars
  BY CheckpointStep, OverwrittenStays DEF KeepsDone, InProgress
<1> QED
  BY <1>1, CheckpointInvariant, PTL DEF Spec, NothingRepeated
=============================================================================
