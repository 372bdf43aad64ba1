----------------------- MODULE SchedulerRuns_proofs -----------------------
(***************************************************************************)
(* Proofs about Scheduler.  An engine's step is a chain of operators on a   *)
(* world: the proof gives one lemma to each of them, about the run it acts  *)
(* on, and carries the other runs along (Only).                             *)
(***************************************************************************)
EXTENDS Scheduler, WellFoundedInduction, TLAPS

-----------------------------------------------------------------------------
(* Types *)

Lives == {"absent", "down", "clock", "up", "offline"}
Phases == {"none", "queued", "launching", "running", "retry_wait"}
Statuses == {"none"} \cup Active \cup Terminal
WorkStates == {"none", "creating", "alive", "gone", "completed", "failed", "timeout", "cancelled"}

Rows(n) == [st : Statuses, ph : Phases, att : Nat, own : Engines \cup {None, Gone}, ep : Nat,
            lapsed : BOOLEAN, wf : 0..n + 1, rev : Nat, acked : BOOLEAN, tick : Nat, early : BOOLEAN]
Objs(n) == [ep : Nat, ph : Phases, map : 0..n + 1]
Works == [st : WorkStates, host : Engines \cup {None}, open : BOOLEAN, arm : BOOLEAN]
Scheds == [live : BOOLEAN, on : BOOLEAN, kind : {"session", "workflow", "dispatch"},
           overlap : {"skip", "queue", "allow"}, tries : Nat \ {0}, catchUp : BOOLEAN,
           expires : Nat, rev : Nat, next : Nat, last : Nat, runs : 1..MaxRuns]

Worlds(n) == [sched : Scheds, row : [Runs -> Rows(n)], eng : [Engines -> Lives],
              timer : [Engines -> Nat], rt : [Engines -> [Runs -> Objs(n)]],
              queue : [Engines -> Seq(Runs)], work : [Runs -> [1..n + 1 -> Works]],
              told : SUBSET (Engines \X Runs), cut : SUBSET Engines, blamed : SUBSET Runs]

Typed(w) == w \in Worlds(w.sched.tries)

-----------------------------------------------------------------------------
(* What holds of every run *)

Slots(w) == 1..w.sched.tries + 1
Doings(w, r) == {a \in Slots(w) : w.work[r][a].st \in Doing}
Begun(w, r, a) == w.work[r][a].st \notin {"none", "creating"}

\* A row not in use says nothing, and nothing says anything of it.
Idle(w, r) ==
  w.row[r].st = "none" => /\ w.row[r] = NoRow
                          /\ \A f \in Engines : ~Here(w, f, r)
                          /\ \A a \in Slots(w) : w.work[r][a] = NoWork

\* An ended run has no owner; an active one is in a phase that fits its attempts.
Counted(w, r) ==
  /\ w.row[r].att <= w.sched.tries
  /\ w.row[r].st \in Terminal => w.row[r].own = None
  /\ w.row[r].st \in Active =>
       /\ w.row[r].ph # "none"
       /\ w.row[r].ph = "retry_wait" => w.row[r].att < w.sched.tries
       /\ w.row[r].ph = "queued" => w.row[r].att = 0

\* Attempts to come have no execution yet.
Ahead(w, r) ==
  w.row[r].st \notin Terminal => \A a \in Slots(w) : a > w.row[r].att => w.work[r][a] = NoWork

\* The owner's object has the row's epoch, all other objects an older one.
Epochs(w, r) ==
  \A f \in Engines :
    /\ w.row[r].own = f => w.rt[f][r].ep = w.row[r].ep
    /\ Here(w, f, r) /\ w.row[r].own # f /\ w.row[r].st \in Active => w.rt[f][r].ep < w.row[r].ep

\* The execution of an active run belongs to its attempt; an ended run kept at most one.
Single(w, r) ==
  r \notin w.blamed =>
    /\ w.row[r].st \in Active =>
         /\ \A a \in Doings(w, r) : a = w.row[r].att /\ w.row[r].ph \in {"launching", "running"}
         /\ w.row[r].wf # 0 => w.row[r].wf = w.row[r].att
    /\ \A a, b \in Doings(w, r) : a = b

\* What a row or an object names has been started.
Named(w, r) ==
  /\ w.row[r].st \in Active /\ w.row[r].wf # 0 => Begun(w, r, w.row[r].wf)
  /\ \A f \in Engines : w.rt[f][r].map # 0 => Here(w, f, r) /\ Begun(w, r, w.rt[f][r].map)

\* Only sessions are awaited or end with an engine, a dispatch has no execution here, and
\* what has not been started says nothing.
Kinds(w, r) ==
  \A a \in Slots(w) :
    /\ w.work[r][a].st = "none" => w.work[r][a] = NoWork
    /\ w.sched.kind = "dispatch" => w.work[r][a] = NoWork
    /\ w.work[r][a].st \in {"creating", "gone"} \/ w.work[r][a].open => w.sched.kind = "session"
    /\ w.work[r][a].open => w.work[r][a].st # "creating"

\* Only the end of a run is told, and runs are made where engines are.
Informed(w, r) ==
  /\ \A f \in Engines : <<f, r>> \in w.told => w.row[r].st \in Terminal
  /\ w.row[r].st # "none" => \E f \in Engines : w.eng[f] # "absent"

Base(w, r) == /\ Idle(w, r) /\ Counted(w, r) /\ Ahead(w, r) /\ Epochs(w, r) /\ Single(w, r)
              /\ Named(w, r) /\ Kinds(w, r) /\ Informed(w, r)

\* The owner's object is where the row is.
Phased(w, r) == \A f \in Engines : w.row[r].own = f => w.rt[f][r].ph = w.row[r].ph

\* Unless a living engine lost a lease, an object is its owner's and its lease lasts.
Clean(w, r, lost) ==
  lost \/ \A f \in Engines : /\ Here(w, f, r) => w.row[r].own = f
                             /\ w.row[r].own = f => ~w.row[r].lapsed

\* An owner f will hear of it, or has it in its queue.
Heeds(w, f, r, lost) ==
  LET a == w.rt[f][r].map IN
  /\ w.row[r].ph = "queued" => r \in Range(w.queue[f])
  /\ w.sched.kind = "session" =>
       /\ w.row[r].ph = "launching" =>
            \E b \in Slots(w) : w.work[r][b].st = "creating" /\ w.work[r][b].host = f
       /\ w.row[r].ph = "running" => a # 0 /\ w.work[r][a].st \in Doing /\ w.work[r][a].host = f
  /\ w.sched.kind = "workflow" =>
       /\ w.row[r].ph # "launching"
       /\ w.row[r].ph = "running" => a # 0 /\ (lost \/ w.work[r][a].st \in Doing)

Goes(w, r, lost) == \A f \in Engines : w.row[r].own = f => Heeds(w, f, r, lost)

Full(w, r, lost) == Base(w, r) /\ Phased(w, r) /\ Clean(w, r, lost) /\ Goes(w, r, lost)

Sound(w, lost) == Typed(w) /\ \A r \in Runs : Full(w, r, lost)

\* The end of a run is on its way to the server, or an engine will tell it again.
Known(w, r) == \/ \E f \in Engines : <<f, r>> \in w.told
               \/ \E f \in Engines : w.eng[f] \notin {"up", "absent"}

Told(w) == \A r \in Runs : w.row[r].st \in Terminal /\ ~w.row[r].acked => Known(w, r)

\* An engine that does not run has no objects.
Housed(w) == \A e \in Engines, r \in Runs : w.eng[e] \in {"down", "absent"} => ~Here(w, e, r)

-----------------------------------------------------------------------------
(* What holds of the clock at time t *)

\* The rows are used in order, and the cursor is beyond every occurrence that was not early.
Cursored(w, t) ==
  /\ w.sched.on => w.sched.next > 0
  /\ w.sched.next % 2 = 0
  /\ \A r, q \in Runs : r < q /\ w.row[q].st # "none" => w.row[r].st # "none"
  /\ \A r \in Runs : w.row[r].tick # 0 /\ ~w.row[r].early =>
       w.row[r].tick <= t /\ (w.sched.next # 0 => w.row[r].tick < w.sched.next)
  /\ \A r, q \in Runs : r < q /\ w.row[r].tick # 0 /\ w.row[r].tick = w.row[q].tick => w.row[r].early

\* The cursor of a dispatch is never far ahead, nor beyond an occurrence of o without a run.
Owes(w, o, t) ==
  w.sched.on /\ w.sched.live /\ w.sched.kind = "dispatch" =>
    /\ \A x \in o : w.sched.next <= x \/ \E r \in Runs : w.row[r].tick = x
    /\ \/ w.sched.next <= NextTick(t)
       \/ w.sched.next = NextTick(t) + 2 /\ \E r \in Runs : w.row[r].tick = NextTick(t)

\* An engine that serves the schedule will wake, or awaits a launch.
AwaitsIn(w, e) == \E r \in Runs : \E a \in Slots(w) :
  w.work[r][a].host = e /\ w.work[r][a].arm /\ (w.work[r][a].st = "creating" \/ w.work[r][a].open)

Serves(w, e) ==
  /\ w.sched.live /\ w.sched.on /\ e \notin w.cut
  /\ w.eng[e] \notin {"down", "absent"} /\ (w.eng[e] = "clock" => w.sched.kind = "dispatch")

Wakes(w, e) == Serves(w, e) => AwaitsIn(w, e) \/ (w.timer[e] # 0 /\ w.timer[e] <= w.sched.next)

\* The clock of the engines in S is right, and nothing is lost of what o owes.
Clocked(w, o, t, S) == Housed(w) /\ Cursored(w, t) /\ Owes(w, o, t) /\ \A e \in S : Wakes(w, e)

-----------------------------------------------------------------------------
(* The inductive invariant *)

Well(w, lost, o, t) == Sound(w, lost) /\ Told(w) /\ Clocked(w, o, t, Engines)

SchedInv ==
  /\ Well(World, strayed, owed, now)
  /\ now \in Nat /\ calls \in Nat /\ strayed \in BOOLEAN
  /\ owed # {} => sched.on /\ sched.live /\ sched.kind = "dispatch"
  /\ \A x \in owed : x \in Nat \ {0} /\ x % 2 = 0

-----------------------------------------------------------------------------
(* The library's operators *)

\* A nonempty set of numbers has a least one.
LEMMA HasLeast ==
  ASSUME NEW S, S \subseteq Nat, S # {}
  PROVE  \E x \in S : \A y \in S : x <= y
<1>1. PICK x \in S : \A y \in S : <<y, x>> \notin OpToRel(<, Nat)
  BY WFMin, NatLessThanWellFounded, Zenon
<1>2. \A y \in Nat : x \in Nat /\ y < x => <<y, x>> \in OpToRel(<, Nat)
  BY DEF OpToRel
<1>3. \A y \in S : ~(y < x)
  BY <1>1, <1>2
<1> QED
  BY <1>3

\* A nonempty set of numbers contains its minimum.
LEMMA LeastOf ==
  ASSUME NEW S, S \subseteq Nat, S # {}
  PROVE  Min(S) \in S /\ \A x \in S : Min(S) <= x
BY HasLeast DEF Min

\* A nonempty set of numbers up to n has a largest one.
LEMMA LargestOf ==
  ASSUME NEW n \in Nat, NEW S, S \subseteq 0..n, S # {}
  PROVE  Max(S) \in S /\ \A x \in S : x <= Max(S)
<1> DEFINE T == {n - x : x \in S}
<1>1. T \subseteq Nat /\ T # {}
  <2>1. PICK x \in S : TRUE
    OBVIOUS
  <2>2. n - x \in T
    BY <2>1
  <2>3. \A y \in S : n - y \in Nat
    OBVIOUS
  <2> QED
    BY <2>2, <2>3
<1>2. PICK t \in T : \A y \in T : t <= y
  BY <1>1, HasLeast
<1>3. PICK x \in S : t = n - x
  BY <1>2
<1>4. \A y \in S : n - x <= n - y
  BY <1>2, <1>3
<1>5. \A y \in S : y <= x
  BY <1>4
<1> QED
  BY <1>5 DEF Max

\* The recursive function of Keep exists.
KeepForm(g, s, S, n) == [i \in 0..n |-> IF i = 0 THEN <<>> ELSE KeepIf(g[i - 1], s[i], S)]

\* The function Keep builds step by step exists.
LEMMA KeepSteps ==
  ASSUME NEW s, NEW S, NEW n \in Nat
  PROVE  \E g : g = KeepForm(g, s, S, n)
<1> USE DEF KeepForm
<1> DEFINE Bad == {k \in Nat : ~\E g : g = [i \in 0..k |-> IF i = 0 THEN <<>> ELSE KeepIf(g[i - 1], s[i], S)]}
<1>1. SUFFICES ASSUME Bad # {} PROVE FALSE
  OBVIOUS
<1>2. PICK k \in Bad : \A j \in Bad : k <= j
  BY <1>1, HasLeast
<1>3. CASE k = 0
  <2> DEFINE g == [i \in 0..0 |-> <<>>]
  <2>1. g = [i \in 0..0 |-> IF i = 0 THEN <<>> ELSE KeepIf(g[i - 1], s[i], S)]
    OBVIOUS
  <2> QED
    BY <2>1, <1>3
<1>4. CASE k # 0
  <2>1. k \in Nat /\ k - 1 \in Nat /\ k - 1 \notin Bad
    BY <1>2, <1>4, SMTT(40)
  <2>2. PICK g : g = [i \in 0..(k - 1) |-> IF i = 0 THEN <<>> ELSE KeepIf(g[i - 1], s[i], S)]
    BY <2>1
  <2> DEFINE h == [i \in 0..k |-> IF i = k THEN KeepIf(g[k - 1], s[k], S) ELSE g[i]]
  <2>3. \A i \in 0..k : h[i] = IF i = 0 THEN <<>> ELSE KeepIf(h[i - 1], s[i], S)
    BY <2>1, <2>2, <1>4
  <2>4. h = [i \in 0..k |-> IF i = 0 THEN <<>> ELSE KeepIf(h[i - 1], s[i], S)]
    BY <2>3
  <2> QED
    BY <2>4
<1> QED
  BY <1>3, <1>4

\* An appended run joins the range of a queue.
LEMMA RangeAppend ==
  ASSUME NEW q \in Seq(Runs), NEW r \in Runs
  PROVE  Append(q, r) \in Seq(Runs) /\ Range(Append(q, r)) = Range(q) \cup {r}
<1>1. Len(Append(q, r)) = Len(q) + 1 /\ Append(q, r)[Len(q) + 1] = r
  OBVIOUS
<1>2. \A i \in 1..Len(q) : Append(q, r)[i] = q[i]
  OBVIOUS
<1>3. Range(q) = {q[i] : i \in 1..Len(q)} /\ Range(Append(q, r)) = {Append(q, r)[i] : i \in 1..Len(q) + 1}
  BY DEF Range
<1>4. \A i \in 1..Len(q) + 1 : i = Len(q) + 1 \/ i \in 1..Len(q)
  OBVIOUS
<1>5. \A x \in Range(Append(q, r)) : x \in Range(q) \cup {r}
  BY <1>1, <1>2, <1>3, <1>4
<1>6. Len(q) + 1 \in 1..Len(q) + 1 /\ \A i \in 1..Len(q) : i \in 1..Len(q) + 1
  OBVIOUS
<1>7. \A x \in Range(q) \cup {r} : x \in Range(Append(q, r))
  BY <1>1, <1>2, <1>3, <1>6
<1> QED
  BY <1>5, <1>7

\* What is left of a queue: the runs of S that were in it.
LEMMA KeepRange ==
  ASSUME NEW s \in Seq(Runs), NEW S
  PROVE  Keep(s, S) \in Seq(Runs) /\ Range(Keep(s, S)) = Range(s) \cap S
<1>0. Len(s) \in Nat /\ \A i \in 1..Len(s) : s[i] \in Runs
  OBVIOUS
<1>1. \E g : g = KeepForm(g, s, S, Len(s))
  BY <1>0, KeepSteps
<1>2. \E g : g = [i \in 0..Len(s) |-> IF i = 0 THEN <<>> ELSE KeepIf(g[i - 1], s[i], S)]
  BY <1>1 DEF KeepForm
<1> DEFINE Fine(f, k) == f[k] \in Seq(Runs) /\ \A x : x \in Range(f[k]) <=> x \in S /\ \E i \in 1..k : s[i] = x
<1>3. ASSUME NEW f, f = [i \in 0..Len(s) |-> IF i = 0 THEN <<>> ELSE KeepIf(f[i - 1], s[i], S)]
      PROVE  \A k \in 0..Len(s) : Fine(f, k)
  <2> DEFINE Bad == {k \in 0..Len(s) : ~Fine(f, k)}
  <2>1. SUFFICES ASSUME Bad # {} PROVE FALSE
    OBVIOUS
  <2>0. Bad \subseteq Nat
    BY <1>0
  <2>2. PICK k \in Bad : \A j \in Bad : k <= j
    BY <2>0, <2>1, HasLeast
  <2>3. k \in 0..Len(s) /\ ~Fine(f, k) /\ \A j \in 0..Len(s) : ~Fine(f, j) => k <= j
    BY <2>2
  <2>4. CASE k = 0
    <3>1. f[0] = <<>>
      BY <1>3
    <3>2. <<>> \in Seq(Runs) /\ \A x : x \notin Range(<<>>)
      BY DEF Range
    <3>3. 1..0 = {}
      OBVIOUS
    <3> QED
      BY <2>3, <2>4, <3>1, <3>2, <3>3
  <2>5. CASE k # 0
    <3>0. k - 1 \in 0..Len(s) /\ ~(k <= k - 1)
      BY <2>3, <2>5, <1>0
    <3>1. k - 1 \in 0..Len(s) /\ Fine(f, k - 1)
      <4> HIDE DEF Fine
      <4> QED
        BY <2>3, <3>0
    <3>2. s[k] \in Runs /\ f[k] = KeepIf(f[k - 1], s[k], S)
      BY <1>0, <1>3, <2>3, <2>5
    <3>3. \A i \in 1..k : i = k \/ i \in 1..(k - 1)
      BY <1>0, <2>3
    <3>4. k \in 1..k /\ \A i \in 1..(k - 1) : i \in 1..k
      BY <1>0, <2>3, <2>5
    <3>5. CASE s[k] \notin S
      <4>1. f[k] = f[k - 1]
        BY <3>2, <3>5 DEF KeepIf
      <4> QED
        BY <2>3, <3>1, <3>3, <3>4, <3>5, <4>1
    <3>6. CASE s[k] \in S
      <4>1. f[k] = Append(f[k - 1], s[k]) /\ f[k] \in Seq(Runs)
        BY <3>1, <3>2, <3>6 DEF KeepIf
      <4>2. \A x : x \in Range(Append(f[k - 1], s[k])) <=> x \in Range(f[k - 1]) \/ x = s[k]
        BY <3>1, <3>2, RangeAppend
      <4> QED
        BY <2>3, <3>1, <3>3, <3>4, <3>6, <4>1, <4>2
    <3> QED
      BY <3>5, <3>6
  <2> QED
    BY <2>4, <2>5
<1> DEFINE kept == CHOOSE f : f = [i \in 0..Len(s) |-> IF i = 0 THEN <<>> ELSE KeepIf(f[i - 1], s[i], S)]
<1>4. Keep(s, S) = kept[Len(s)]
  BY DEF Keep
<1>4a. kept = [i \in 0..Len(s) |-> IF i = 0 THEN <<>> ELSE KeepIf(kept[i - 1], s[i], S)]
  BY <1>2
<1> HIDE DEF kept
<1>5. Fine(kept, Len(s))
  BY <1>0, <1>3, <1>4a
<1>6. Range(s) = {s[i] : i \in 1..Len(s)}
  BY DEF Range
<1> QED
  BY <1>4, <1>5, <1>6

-----------------------------------------------------------------------------
(* What an operator does to its run, and that it leaves the other runs alone *)

Only(w, v, e, r) ==
  /\ v.sched = w.sched /\ v.eng = w.eng /\ v.timer = w.timer /\ v.cut = w.cut /\ v.blamed = w.blamed
  /\ \A q \in Runs : q # r => v.row[q] = w.row[q] /\ v.work[q] = w.work[q]
  /\ \A f \in Engines, q \in Runs : f # e \/ q # r =>
       v.rt[f][q] = w.rt[f][q] /\ (q \in Range(v.queue[f]) <=> q \in Range(w.queue[f]))
  /\ w.told \subseteq v.told /\ v.told \subseteq w.told \cup {<<e, r>>}

\* The row, the executions and the object of r become these; the queue and the notices stay.
Sets(w, v, e, r, ro, wo, ob) ==
  /\ Typed(v) /\ Only(w, v, e, r)
  /\ v.row[r] = ro /\ v.work[r] = wo /\ v.rt[e][r] = ob
  /\ v.told = w.told /\ (r \in Range(v.queue[e]) <=> r \in Range(w.queue[e]))

\* What a well-typed world says of one run has its type.
LEMMA TypedRun ==
  ASSUME NEW w, NEW e \in Engines, NEW r \in Runs, Typed(w)
  PROVE  /\ w.row[r] \in Rows(w.sched.tries) /\ w.rt[e][r] \in Objs(w.sched.tries)
         /\ w.work[r] \in [Slots(w) -> Works] /\ w.sched \in Scheds
BY DEF Typed, Worlds, Slots

\* Forgetting a run takes its object and its place in the queue and changes nothing else.
LEMMA ForgetSets ==
  ASSUME NEW w, NEW e \in Engines, NEW r \in Runs, Typed(w)
  PROVE  LET v == Forget(w, e, r) IN
         /\ Typed(v) /\ Only(w, v, e, r) /\ v.row = w.row /\ v.work = w.work
         /\ v.rt[e][r] = NoRun /\ r \notin Range(v.queue[e]) /\ v.told = w.told
<1> DEFINE v == Forget(w, e, r)
<1>1. w.queue[e] \in Seq(Runs)
  BY DEF Typed, Worlds
<1>2. /\ Keep(w.queue[e], Runs \ {r}) \in Seq(Runs)
      /\ Range(Keep(w.queue[e], Runs \ {r})) = Range(w.queue[e]) \ {r}
  <2>1. Range(w.queue[e]) \subseteq Runs
    BY <1>1 DEF Range
  <2> QED
    BY <1>1, <2>1, KeepRange
<1>3. NoRun \in Objs(w.sched.tries)
  BY DEF Typed, Worlds, Scheds, NoRun, Objs, Phases
<1>4. Typed(v)
  BY <1>2, <1>3 DEF Typed, Worlds, Forget
<1>5. /\ v.sched = w.sched /\ v.eng = w.eng /\ v.timer = w.timer /\ v.cut = w.cut /\ v.blamed = w.blamed
      /\ v.row = w.row /\ v.work = w.work /\ v.told = w.told
  BY DEF Typed, Worlds, Forget
<1>6. /\ v.rt[e][r] = NoRun /\ v.queue[e] = Keep(w.queue[e], Runs \ {r})
      /\ \A f \in Engines, q \in Runs : f # e \/ q # r => v.rt[f][q] = w.rt[f][q]
      /\ \A f \in Engines : f # e => v.queue[f] = w.queue[f]
  BY DEF Typed, Worlds, Forget
<1> QED
  BY <1>2, <1>4, <1>5, <1>6 DEF Only

\* A change of one row changes nothing else.
LEMMA SetsRow ==
  ASSUME NEW w, NEW e \in Engines, NEW r \in Runs, Typed(w), NEW ro \in Rows(w.sched.tries)
  PROVE  Sets(w, [w EXCEPT !.row[r] = ro], e, r, ro, w.work[r], w.rt[e][r])
<1> DEFINE v == [w EXCEPT !.row[r] = ro]
<1>1. Typed(v)
  BY DEF Typed, Worlds
<1> QED
  BY <1>1 DEF Typed, Worlds, Sets, Only

\* A change of one object changes nothing else.
LEMMA SetsObj ==
  ASSUME NEW w, NEW e \in Engines, NEW r \in Runs, Typed(w), NEW ob \in Objs(w.sched.tries)
  PROVE  Sets(w, [w EXCEPT !.rt[e][r] = ob], e, r, w.row[r], w.work[r], ob)
<1> DEFINE v == [w EXCEPT !.rt[e][r] = ob]
<1>1. Typed(v)
  BY DEF Typed, Worlds
<1> QED
  BY <1>1 DEF Typed, Worlds, Sets, Only

\* A change of one execution changes nothing else.
LEMMA SetsWork ==
  ASSUME NEW w, NEW e \in Engines, NEW r \in Runs, Typed(w), NEW a \in Slots(w), NEW x \in Works
  PROVE  Sets(w, [w EXCEPT !.work[r][a] = x], e, r, w.row[r], [w.work[r] EXCEPT ![a] = x], w.rt[e][r])
<1> DEFINE v == [w EXCEPT !.work[r][a] = x]
<1>1. Typed(v)
  BY DEF Typed, Worlds, Slots
<1> QED
  BY <1>1 DEF Typed, Worlds, Sets, Only, Slots

\* What no step may do to a run: use its row again, change its occurrence or how it ended.
Lasts(w, v, r) ==
  /\ v.row[r].tick = w.row[r].tick /\ v.row[r].early = w.row[r].early
  /\ v.row[r].st = "none" <=> w.row[r].st = "none"
  /\ w.row[r].st \in Terminal => v.row[r] = w.row[r]

\* Nor may an operator lose a firing that awaits its launch, or keep the end of a run to itself.
Kept(w, v, r) ==
  /\ Lasts(w, v, r)
  /\ v.row[r].st \in Terminal => w.row[r].st \in Terminal \/ Known(v, r)
  /\ \A a \in Slots(w) : w.work[r][a].arm =>
       /\ v.work[r][a].arm /\ v.work[r][a].host = w.work[r][a].host
       /\ v.work[r][a].open = w.work[r][a].open
       /\ w.work[r][a].st = "creating" => v.work[r][a].st = "creating"
  /\ \A a \in Slots(w) : v.work[r][a].arm => w.work[r][a].arm

Turn(w, v, e, r) == Typed(v) /\ Only(w, v, e, r) /\ Kept(w, v, r)

\* What an engine may do to the world while its clock stands.
Steps(w, v, e) ==
  /\ v.sched = w.sched /\ v.eng = w.eng /\ v.timer = w.timer /\ v.cut = w.cut /\ v.blamed = w.blamed
  /\ \A f \in Engines : f # e => \A q \in Runs : v.rt[f][q] = w.rt[f][q]
  /\ w.told \subseteq v.told
  /\ \A q \in Runs : Kept(w, v, q)

\* An owner that heeds a run does so as long as the row's phase, the executions, its
\* object and its queue stay.
LEMMA HeedsStill ==
  ASSUME NEW w, NEW v, NEW f, NEW r, NEW lost, v.sched = w.sched, v.row[r].ph = w.row[r].ph,
         v.work[r] = w.work[r], v.rt[f][r].map = w.rt[f][r].map,
         r \in Range(v.queue[f]) <=> r \in Range(w.queue[f]), Heeds(w, f, r, lost)
  PROVE  Heeds(v, f, r, lost)
BY DEF Heeds, Slots

\* A step about one run leaves the other runs as sound as they were.
LEMMA OtherRuns ==
  ASSUME NEW w, NEW v, NEW e \in Engines, NEW r \in Runs, NEW q \in Runs, NEW lost,
         Typed(w), Typed(v), Only(w, v, e, r), q # r, Full(w, q, lost)
  PROVE  Full(v, q, lost) /\ Kept(w, v, q)
<1> USE DEF Only
<1>1. Slots(v) = Slots(w) /\ Doings(v, q) = Doings(w, q)
  BY DEF Slots, Doings
<1>2. \A f \in Engines : <<f, q>> \in v.told <=> <<f, q>> \in w.told
  OBVIOUS
<1>3. Idle(v, q)
  BY <1>1 DEF Full, Base, Idle, Here
<1>4. Counted(v, q) /\ Ahead(v, q) /\ Epochs(v, q)
  BY <1>1 DEF Full, Base, Counted, Ahead, Epochs, Here
<1>5. Single(v, q) /\ Named(v, q)
  BY <1>1, ZenonT(60) DEF Full, Base, Single, Named, Begun, Here
<1>6. Kinds(v, q)
  BY <1>1 DEF Full, Base, Kinds
<1>7. Informed(v, q)
  BY <1>2 DEF Full, Base, Informed
<1>8. Phased(v, q) /\ Clean(v, q, lost)
  BY DEF Full, Phased, Clean, Here
<1>9. Goes(v, q, lost)
  BY HeedsStill DEF Full, Goes
<1>10. Kept(w, v, q)
  BY DEF Kept, Lasts
<1> QED
  BY <1>3, <1>4, <1>5, <1>6, <1>7, <1>8, <1>9, <1>10 DEF Full, Base

\* The other runs are as they should be.
Others(w, r, lost) == Typed(w) /\ \A q \in Runs : q # r => Full(w, q, lost)

\* A turn about a run that leaves it sound leaves the world sound, if the others were.
LEMMA TurnOthers ==
  ASSUME NEW w, NEW v, NEW e \in Engines, NEW r \in Runs, NEW lost,
         Others(w, r, lost), Turn(w, v, e, r), Full(v, r, lost)
  PROVE  Sound(v, lost) /\ Steps(w, v, e)
<1>1. \A q \in Runs : q # r => Full(v, q, lost) /\ Kept(w, v, q)
  BY OtherRuns DEF Others, Turn
<1> QED
  BY <1>1 DEF Sound, Turn, Steps, Only

\* The same for a world that was sound.
LEMMA TurnSound ==
  ASSUME NEW w, NEW v, NEW e \in Engines, NEW r \in Runs, NEW lost,
         Sound(w, lost), Turn(w, v, e, r), Full(v, r, lost)
  PROVE  Sound(v, lost) /\ Steps(w, v, e)
<1>1. Others(w, r, lost)
  BY DEF Sound, Others
<1> QED
  BY <1>1, TurnOthers

\* What is known stays known while the notices and the engines stay.
LEMMA KnownStill ==
  ASSUME NEW w, NEW v, NEW r, v.eng = w.eng, \A f \in Engines : <<f, r>> \in w.told => <<f, r>> \in v.told,
         Known(w, r)
  PROVE  Known(v, r)
BY DEF Known

\* What is kept by two steps is kept by both.
LEMMA KeptChain ==
  ASSUME NEW w, NEW v, NEW u, NEW r, v.sched = w.sched, u.eng = v.eng, v.told \subseteq u.told,
         Kept(w, v, r), Kept(v, u, r)
  PROVE  Kept(w, u, r)
<1>1. Slots(v) = Slots(w)
  BY DEF Slots
<1>2. Lasts(w, u, r)
  BY DEF Kept, Lasts
<1>3. Known(v, r) => Known(u, r)
  BY KnownStill
<1>4. u.row[r].st \in Terminal => w.row[r].st \in Terminal \/ Known(u, r)
  BY <1>3 DEF Kept
<1>5. \A a \in Slots(w) : w.work[r][a].arm =>
       /\ u.work[r][a].arm /\ u.work[r][a].host = w.work[r][a].host
       /\ u.work[r][a].open = w.work[r][a].open
       /\ w.work[r][a].st = "creating" => u.work[r][a].st = "creating"
  BY <1>1 DEF Kept
<1>6. \A a \in Slots(w) : u.work[r][a].arm => w.work[r][a].arm
  BY <1>1 DEF Kept
<1> QED
  BY <1>2, <1>4, <1>5, <1>6 DEF Kept

\* Two steps of an engine make one.
LEMMA StepsChain ==
  ASSUME NEW w, NEW v, NEW u, NEW e \in Engines, Steps(w, v, e), Steps(v, u, e)
  PROVE  Steps(w, u, e)
<1>1. \A r \in Runs : Kept(w, u, r)
  BY KeptChain DEF Steps
<1> QED
  BY <1>1 DEF Steps

\* The steps of an engine tell the end of every run they end.
LEMMA StepsTold ==
  ASSUME NEW w, NEW v, NEW e \in Engines, Steps(w, v, e), Told(w)
  PROVE  Told(v)
<1> SUFFICES ASSUME NEW r \in Runs, v.row[r].st \in Terminal, ~v.row[r].acked PROVE Known(v, r)
  BY DEF Told
<1>1. CASE w.row[r].st \in Terminal
  <2>1. v.row[r] = w.row[r]
    BY <1>1 DEF Steps, Kept, Lasts
  <2>2. Known(w, r)
    BY <1>1, <2>1 DEF Told
  <2> QED
    BY <2>2, KnownStill DEF Steps
<1>2. CASE w.row[r].st \notin Terminal
  BY <1>2 DEF Steps, Kept
<1> QED
  BY <1>1, <1>2

\* Doing nothing is a step of an engine.
LEMMA StepsNone ==
  ASSUME NEW w, NEW e
  PROVE  Steps(w, w, e)
BY DEF Steps, Kept, Lasts

\* An owner is an object of the row's epoch.
LEMMA OwnedIsOwner ==
  ASSUME NEW w, NEW e \in Engines, NEW r \in Runs, Base(w, r)
  PROVE  Owned(w, e, r) <=> w.row[r].own = e
BY DEF Base, Epochs, Owned

\* A row that an engine owns is an active one.
LEMMA OwnerIsActive ==
  ASSUME NEW w, NEW e \in Engines, NEW r \in Runs, Typed(w), Base(w, r), w.row[r].own = e
  PROVE  w.row[r].st \in Active
<1>1. w.row[r].st \in Statuses
  BY DEF Typed, Worlds, Rows
<1> QED
  BY <1>1, SchedulerAssumption DEF Statuses, Base, Counted, Idle, NoRow

\* An engine that is not the owner forgets its object.
LEMMA ForgetTurn ==
  ASSUME NEW w, NEW e \in Engines, NEW r \in Runs, Typed(w)
  PROVE  LET v == Forget(w, e, r) IN
         /\ Turn(w, v, e, r)
         /\ Base(w, r) /\ w.row[r].own # e => Base(v, r)
         /\ \A lost \in BOOLEAN : Full(w, r, lost) /\ w.row[r].own # e => Full(v, r, lost)
<1> DEFINE v == Forget(w, e, r)
<1>1. /\ Typed(v) /\ Only(w, v, e, r) /\ v.row = w.row /\ v.work = w.work
      /\ v.rt[e][r] = NoRun /\ r \notin Range(v.queue[e]) /\ v.told = w.told
  BY ForgetSets
<1> HIDE DEF v
<1>2. Kept(w, v, r)
  BY <1>1 DEF Kept, Lasts
<1>3. ASSUME Base(w, r), w.row[r].own # e PROVE Base(v, r)
  <2> USE <1>1, <1>3 DEF Base, Only
  <2>1. Slots(v) = Slots(w) /\ Doings(v, r) = Doings(w, r)
    BY DEF Slots, Doings
  <2>2. Idle(v, r)
    BY <2>1 DEF Idle, Here, NoRun
  <2>3. Counted(v, r) /\ Ahead(v, r)
    BY <2>1 DEF Counted, Ahead
  <2>4. Epochs(v, r)
    BY DEF Epochs, Here, NoRun
  <2>5. Single(v, r)
    BY <2>1 DEF Single
  <2>6. Named(v, r)
    <3>1. \A f \in Engines : v.rt[f][r].map = 0 \/ v.rt[f][r] = w.rt[f][r]
      BY DEF NoRun
    <3>2. \A a : Begun(v, r, a) <=> Begun(w, r, a)
      BY DEF Begun
    <3> QED
      BY <3>1, <3>2 DEF Named, Here
  <2>7. Kinds(v, r) /\ Informed(v, r)
    BY <2>1 DEF Kinds, Informed
  <2> QED
    BY <2>2, <2>3, <2>4, <2>5, <2>6, <2>7
<1>4. ASSUME NEW lost \in BOOLEAN, Full(w, r, lost), w.row[r].own # e PROVE Full(v, r, lost)
  <2> USE <1>1, <1>4 DEF Full, Only
  <2>1. Slots(v) = Slots(w)
    BY DEF Slots
  <2>2. Phased(v, r) /\ Clean(v, r, lost)
    BY DEF Phased, Clean, Here, NoRun
  <2>3. Goes(v, r, lost)
    <3> SUFFICES ASSUME NEW f \in Engines, f # e, Heeds(w, f, r, lost) PROVE Heeds(v, f, r, lost)
      BY DEF Goes
    <3>1. v.rt[f][r] = w.rt[f][r] /\ (r \in Range(v.queue[f]) <=> r \in Range(w.queue[f]))
      OBVIOUS
    <3> QED
      BY <3>1, HeedsStill
  <2> QED
    BY <1>3, <2>2, <2>3
<1> QED
  BY <1>1, <1>2, <1>3, <1>4 DEF v, Turn

\* Two turns of an engine about a run make one.
LEMMA TurnChain ==
  ASSUME NEW w, NEW v, NEW u, NEW e \in Engines, NEW r \in Runs, Turn(w, v, e, r), Turn(v, u, e, r)
  PROVE  Turn(w, u, e, r)
<1>1. Only(w, u, e, r)
  BY DEF Turn, Only
<1>2. v.sched = w.sched /\ u.eng = v.eng /\ v.told \subseteq u.told
  BY DEF Turn, Only
<1>3. Kept(w, u, r)
  BY <1>2, KeptChain DEF Turn
<1> QED
  BY <1>1, <1>3 DEF Turn

\* Doing nothing is a turn.
LEMMA TurnNone ==
  ASSUME NEW w, NEW e, NEW r, Typed(w)
  PROVE  Turn(w, w, e, r)
BY DEF Turn, Only, Kept, Lasts

\* A lease that is renewed or runs out.
LEMMA BaseLapsed ==
  ASSUME NEW w, NEW v, NEW e \in Engines, NEW r \in Runs, NEW b \in BOOLEAN, Typed(w), Base(w, r),
         Only(w, v, e, r), w.row[r].own # None, v.row[r] = [w.row[r] EXCEPT !.lapsed = b],
         v.work[r] = w.work[r], v.rt[e][r] = w.rt[e][r], v.told = w.told
  PROVE  Base(v, r) /\ Kept(w, v, r)
<1>1. v.sched = w.sched /\ v.eng = w.eng /\ v.blamed = w.blamed
  BY DEF Only
<1>2. Slots(v) = Slots(w) /\ Doings(v, r) = Doings(w, r)
  BY <1>1 DEF Slots, Doings
<1>3. \A f \in Engines : v.rt[f][r] = w.rt[f][r]
  BY DEF Only
<1>4. w.row[r] \in Rows(w.sched.tries)
  BY DEF Typed, Worlds
<1>5. /\ v.row[r].st = w.row[r].st /\ v.row[r].ph = w.row[r].ph /\ v.row[r].att = w.row[r].att
      /\ v.row[r].own = w.row[r].own /\ v.row[r].ep = w.row[r].ep /\ v.row[r].wf = w.row[r].wf
      /\ v.row[r].acked = w.row[r].acked /\ v.row[r].tick = w.row[r].tick
      /\ v.row[r].early = w.row[r].early
  BY <1>4 DEF Rows
<1>6. w.row[r].st # "none" /\ w.row[r].st \notin Terminal
  BY DEF Base, Idle, NoRow, Counted
<1>7. Idle(v, r) /\ Counted(v, r) /\ Ahead(v, r)
  BY <1>1, <1>2, <1>5, <1>6 DEF Base, Idle, Counted, Ahead
<1>8. Epochs(v, r)
  BY <1>3, <1>5 DEF Base, Epochs, Here
<1>9. Single(v, r)
  BY <1>1, <1>2, <1>5 DEF Base, Single
<1>10. Named(v, r)
  BY <1>3, <1>5 DEF Base, Named, Begun, Here
<1>11. Kinds(v, r) /\ Informed(v, r)
  BY <1>1, <1>2, <1>5 DEF Base, Kinds, Informed
<1>12. Kept(w, v, r)
  BY <1>5, <1>6 DEF Kept, Lasts
<1> QED
  BY <1>7, <1>8, <1>9, <1>10, <1>11, <1>12 DEF Base

\* assertRunOwner: an object is dropped only if its row is another's, which leaves its
\* run sound.
LEMMA CheckedTurn ==
  ASSUME NEW w, NEW e \in Engines, NEW r \in Runs, NEW lost \in BOOLEAN, Typed(w), Full(w, r, lost)
  PROVE  Turn(w, Checked(w, e, r), e, r) /\ Full(Checked(w, e, r), r, lost)
<1>1. CASE w.row[r].own # e
  <2>1. Checked(w, e, r) = Forget(w, e, r)
    BY <1>1, OwnedIsOwner DEF Checked, Full
  <2> QED
    BY <1>1, <2>1, ForgetTurn
<1>2. CASE w.row[r].own = e
  <2> DEFINE ro == [w.row[r] EXCEPT !.lapsed = FALSE]
             v == [w EXCEPT !.row[r].lapsed = FALSE]
  <2>0. Owned(w, e, r)
    BY <1>2, OwnedIsOwner DEF Full
  <2>1. Checked(w, e, r) = v
    BY <2>0 DEF Checked
  <2>2. ro \in Rows(w.sched.tries) /\ ro.own = e /\ ro.ph = w.row[r].ph /\ ro.lapsed = FALSE
    BY <1>2, TypedRun, ZenonT(60) DEF Rows
  <2>3. Sets(w, v, e, r, ro, w.work[r], w.rt[e][r])
    <3>1. Typed(v)
      BY <2>2 DEF Typed, Worlds
    <3> QED
      BY <3>1 DEF Typed, Worlds, Sets, Only
  <2> HIDE DEF v, ro
  <2>4. Base(v, r) /\ Kept(w, v, r)
    BY <1>2, <2>3, BaseLapsed, SchedulerAssumption DEF Sets, Full, ro
  <2>5. \A f \in Engines : v.rt[f][r] = w.rt[f][r]
    BY <2>3 DEF Sets, Only
  <2>6. Phased(v, r) /\ Clean(v, r, lost)
    BY <1>2, <2>2, <2>3, <2>5 DEF Sets, Full, Phased, Clean, Here
  <2>7. Goes(v, r, lost)
    <3>1. Heeds(w, e, r, lost)
      BY <1>2 DEF Full, Goes
    <3>2. Heeds(v, e, r, lost)
      BY <2>2, <2>3, <2>5, <3>1, HeedsStill DEF Sets, Only
    <3> QED
      BY <2>2, <2>3, <3>2 DEF Sets, Goes
  <2> QED
    BY <2>1, <2>3, <2>4, <2>6, <2>7 DEF Turn, Sets, Full
<1> QED
  BY <1>1, <1>2

\* Executions that end, begin or change hands: what else a run needs to stay as it was.
LEMMA BaseWork ==
  ASSUME NEW w, NEW v, NEW r \in Runs, Typed(w), Base(w, r), Informed(v, r),
         v.sched = w.sched, r \in w.blamed => r \in v.blamed, v.row[r] = w.row[r],
         \A f \in Engines : v.rt[f][r] = w.rt[f][r],
         Doings(v, r) \subseteq Doings(w, r),
         \A a \in Slots(w) : \/ v.work[r][a] = w.work[r][a]
                             \/ /\ w.work[r][a] # NoWork /\ v.work[r][a].st # "none"
                                /\ Begun(w, r, a) => Begun(v, r, a)
                                /\ v.work[r][a].st \in {"creating", "gone"} \/ v.work[r][a].open
                                     => w.sched.kind = "session"
                                /\ v.work[r][a].open => v.work[r][a].st # "creating"
  PROVE  Base(v, r)
<1>1. Slots(v) = Slots(w)
  BY DEF Slots
<1>2. \A f \in Engines : v.rt[f][r] = w.rt[f][r]
  OBVIOUS
<1>3. \A a \in Slots(w) : w.work[r][a] = NoWork => v.work[r][a] = NoWork
  OBVIOUS
<1>4. Idle(v, r) /\ Counted(v, r) /\ Ahead(v, r)
  BY <1>1, <1>2, <1>3 DEF Base, Idle, Counted, Ahead, Here
<1>5. Epochs(v, r) /\ Single(v, r)
  BY <1>1, <1>2 DEF Base, Epochs, Single, Here
<1>6. ASSUME NEW a \in Slots(w), Begun(w, r, a) PROVE Begun(v, r, a)
  BY <1>6 DEF Begun
<1>7. Named(v, r)
  <2>0. w.row[r] \in Rows(w.sched.tries) /\ \A f \in Engines : w.rt[f][r] \in Objs(w.sched.tries)
    BY DEF Typed, Worlds
  <2>1. w.row[r].wf \in 0..w.sched.tries + 1 /\ \A f \in Engines : w.rt[f][r].map \in 0..w.sched.tries + 1
    BY <2>0 DEF Rows, Objs
  <2>2. w.sched.tries \in Nat
    BY DEF Typed, Worlds, Scheds
  <2> QED
    BY <1>2, <1>6, <2>1, <2>2 DEF Base, Named, Here, Slots
<1>8. Kinds(v, r)
  BY <1>1, <1>3 DEF Base, Kinds
<1> QED
  BY <1>4, <1>5, <1>7, <1>8 DEF Base

\* cancelExecution ends executions and begins none; a run the engine does not own stays
\* sound.
LEMMA StopTurn ==
  ASSUME NEW w, NEW e \in Engines, NEW r \in Runs, Typed(w), Base(w, r)
  PROVE  LET v == Stop(w, e, r) IN
         /\ Turn(w, v, e, r) /\ Base(v, r)
         /\ v.row = w.row /\ v.rt = w.rt /\ v.queue = w.queue /\ v.told = w.told
         /\ Doings(v, r) \subseteq Doings(w, r)
         /\ \A lost \in BOOLEAN : Full(w, r, lost) /\ w.row[r].own # e => Full(v, r, lost)
<1> DEFINE a == w.rt[e][r].map
           v == [w EXCEPT !.work[r][a].st = "cancelled"]
<1>1. CASE ~(a # 0 /\ w.work[r][a].st \in Doing /\ w.work[r][a].host \in {e, None})
  <2>1. Stop(w, e, r) = w
    BY <1>1 DEF Stop
  <2> QED
    BY <2>1, TurnNone
<1>2. CASE a # 0 /\ w.work[r][a].st \in Doing /\ w.work[r][a].host \in {e, None}
  <2>1. Stop(w, e, r) = v
    BY <1>2 DEF Stop
  <2>2. a \in Slots(w)
    <3>1. w.rt[e][r] \in Objs(w.sched.tries)
      BY TypedRun
    <3>2. a \in 0..w.sched.tries + 1
      BY <3>1 DEF Objs
    <3>3. w.sched.tries \in Nat
      BY TypedRun DEF Scheds
    <3> QED
      <4>1. a # 0
        BY <1>2
      <4> QED
        BY <3>2, <3>3, <4>1 DEF Slots
  <2>3. Typed(v)
    <3>1. w.work[r][a] \in Works
      BY <2>2, TypedRun
    <3>2. [w.work[r][a] EXCEPT !.st = "cancelled"] \in Works
      BY <3>1 DEF Works, WorkStates
    <3> QED
      BY <2>2, <3>2 DEF Typed, Worlds, Slots
  <2>4. /\ Only(w, v, e, r) /\ v.row = w.row /\ v.rt = w.rt /\ v.queue = w.queue /\ v.told = w.told
        /\ v.sched = w.sched
    BY DEF Only, Typed, Worlds
  <2>5. /\ v.work[r][a] = [w.work[r][a] EXCEPT !.st = "cancelled"]
        /\ \A b \in Slots(w) : b # a => v.work[r][b] = w.work[r][b]
    BY <2>2 DEF Typed, Worlds, Slots
  <2> HIDE DEF v
  <2>6. w.work[r][a] \in Works
    BY <2>2, TypedRun
  <2>7. /\ v.work[r][a].st = "cancelled" /\ v.work[r][a].host = w.work[r][a].host
        /\ v.work[r][a].open = w.work[r][a].open /\ v.work[r][a].arm = w.work[r][a].arm
    BY <2>5, <2>6 DEF Works
  <2>8. Begun(w, r, a) /\ Begun(v, r, a) /\ w.work[r][a] # NoWork
    <3>1. Begun(w, r, a)
      BY <1>2 DEF Base, Named
    <3>2. Begun(v, r, a)
      BY <2>7 DEF Begun
    <3>3. NoWork.st = "none"
      BY DEF NoWork
    <3> QED
      BY <3>1, <3>2, <3>3 DEF Begun
  <2>9. Doings(v, r) \subseteq Doings(w, r)
    BY <2>4, <2>5, <2>7 DEF Doings, Slots, Doing
  <2>10. Base(v, r)
    <3>1. v.work[r][a].st = "gone" \/ v.work[r][a].open => w.sched.kind = "session"
      BY <2>2, <2>7 DEF Base, Kinds
    <3> QED
      <4>1. Informed(v, r) /\ v.blamed = w.blamed /\ v.row[r] = w.row[r] /\ \A f \in Engines : v.rt[f][r] = w.rt[f][r]
        BY <2>4 DEF Base, Informed, Only
      <4> QED
        BY <2>4, <2>5, <2>7, <2>8, <2>9, <3>1, <4>1, BaseWork, ZenonT(60)
  <2>11. Kept(w, v, r)
    BY <2>4, <2>5, <2>7, <2>8 DEF Kept, Lasts, Begun
  <2>12. ASSUME NEW lost \in BOOLEAN, Full(w, r, lost), w.row[r].own # e PROVE Full(v, r, lost)
    <3>1. Phased(v, r) /\ Clean(v, r, lost)
      BY <2>4, <2>12 DEF Full, Phased, Clean, Here
    <3>2. ASSUME NEW f \in Engines, w.row[r].own = f PROVE Heeds(v, f, r, lost)
      <4>1. lost
        BY <1>2, <2>12 DEF Full, Clean, Base, Named
      <4>2. Heeds(w, f, r, lost)
        BY <2>12, <3>2 DEF Full, Goes
      <4>3. f # e /\ f # None
        BY <2>12, <3>2, SchedulerAssumption
      <4>4. \A b \in Slots(w) : w.work[r][b].host = f => v.work[r][b] = w.work[r][b]
        BY <1>2, <2>5, <4>3
      <4>5. w.rt[f][r].map # 0 => w.rt[f][r].map \in Slots(w)
        BY TypedRun DEF Objs, Slots, Scheds
      <4>6. Slots(v) = Slots(w)
        BY <2>4 DEF Slots
      <4> QED
        BY <2>4, <4>1, <4>2, <4>4, <4>5, <4>6 DEF Heeds
    <3> QED
      BY <2>4, <2>10, <3>1, <3>2 DEF Full, Goes
  <2> QED
    BY <2>1, <2>3, <2>4, <2>9, <2>10, <2>11, <2>12 DEF Turn
<1> QED
  BY <1>1, <1>2

\* finishRun leaves its run sound without an object, and ended if the engine owned it.
LEMMA SettledTurn ==
  ASSUME NEW w, NEW e \in Engines, NEW r \in Runs, NEW lost \in BOOLEAN, NEW st \in Terminal,
         Typed(w), Base(w, r), Clean(w, r, lost), w.eng[e] # "absent",
         w.row[r].own = e => Here(w, e, r), w.row[r].own # e => Full(w, r, lost)
  PROVE  LET v == Settled(w, e, r, st) IN
         /\ Turn(w, v, e, r) /\ Full(v, r, lost) /\ ~Here(v, e, r)
         /\ w.row[r].own = e => v.row[r].st = st
<1>1. CASE ~Here(w, e, r)
  <2>1. Settled(w, e, r, st) = w
    BY <1>1 DEF Settled
  <2> QED
    BY <1>1, <2>1, TurnNone
<1>2. CASE Here(w, e, r) /\ w.row[r].own # e
  <2>1. Settled(w, e, r, st) = Forget(w, e, r)
    BY <1>2, OwnedIsOwner DEF Settled
  <2>2. ~Here(Forget(w, e, r), e, r)
    BY ForgetSets DEF Here, NoRun
  <2> QED
    BY <1>2, <2>1, <2>2, ForgetTurn
<1>3. CASE Here(w, e, r) /\ w.row[r].own = e
  <2> DEFINE over == [NoRow EXCEPT !.st = st, !.acked = w.row[r].acked,
                                   !.tick = w.row[r].tick, !.early = w.row[r].early]
             u == [w EXCEPT !.row[r] = over]
             x == Emitted(u, e, r)
             v == Forget(x, e, r)
  <2>1. Settled(w, e, r, st) = v
    BY <1>3, OwnedIsOwner DEF Settled
  <2>2. w.row[r] \in Rows(w.sched.tries)
    BY TypedRun
  <2>3. over \in Rows(w.sched.tries)
    <3>1. w.sched.tries \in Nat
      BY TypedRun DEF Scheds
    <3>2. NoRow \in Rows(w.sched.tries)
      BY <3>1 DEF Rows, NoRow, Statuses, Phases
    <3>3. w.row[r].acked \in BOOLEAN /\ w.row[r].tick \in Nat /\ w.row[r].early \in BOOLEAN /\ st \in Statuses
      BY <2>2 DEF Rows, Statuses
    <3> QED
      BY <3>2, <3>3 DEF Rows
  <2>4. Sets(w, u, e, r, over, w.work[r], w.rt[e][r])
    BY <2>3, SetsRow
  <2>5. /\ over.st = st /\ over.own = None /\ over.wf = 0 /\ over.acked = w.row[r].acked
        /\ over.tick = w.row[r].tick /\ over.early = w.row[r].early
        /\ over.att = 0
    BY <2>2 DEF Rows, NoRow
  <2> HIDE DEF over, u
  <2>6. /\ Typed(x) /\ Only(w, x, e, r) /\ x.row[r] = over /\ x.work[r] = w.work[r]
        /\ w.eng[e] = "up" => <<e, r>> \in x.told
    <3>1. CASE u.eng[e] = "up"
      <4>1. x = [u EXCEPT !.told = @ \cup {<<e, r>>}]
        BY <3>1 DEF Emitted
      <4>2. Typed(x)
        <5>1. Typed(u) /\ <<e, r>> \in Engines \X Runs
          BY <2>4 DEF Sets
        <5>2. u.told \cup {<<e, r>>} \in SUBSET (Engines \X Runs)
          BY <5>1 DEF Typed, Worlds
        <5> QED
          BY <5>1, <5>2, <4>1 DEF Typed, Worlds
      <4>3. x.row = u.row /\ x.work = u.work /\ x.told = u.told \cup {<<e, r>>}
        BY <2>4, <4>1 DEF Sets, Typed, Worlds
      <4>4. Only(w, x, e, r)
        BY <2>4, <4>1 DEF Sets, Typed, Worlds, Only
      <4> QED
        BY <2>4, <4>2, <4>3, <4>4 DEF Sets
    <3>2. CASE u.eng[e] # "up"
      BY <2>4, <3>2 DEF Emitted, Sets, Only
    <3> QED
      BY <3>1, <3>2
  <2> HIDE DEF x
  <2>7. /\ Typed(v) /\ Only(x, v, e, r) /\ v.row[r] = over /\ v.work[r] = w.work[r]
        /\ v.rt[e][r] = NoRun /\ v.told = x.told
    BY <2>6, ForgetSets
  <2> HIDE DEF v
  <2>8. Only(w, v, e, r)
    BY <2>6, <2>7 DEF Only
  <2>9. /\ v.sched = w.sched /\ v.eng = w.eng /\ v.blamed = w.blamed /\ Slots(v) = Slots(w)
        /\ Doings(v, r) = Doings(w, r)
    BY <2>7, <2>8 DEF Only, Slots, Doings
  <2>10. \A f \in Engines : f # e => v.rt[f][r] = w.rt[f][r]
    BY <2>8 DEF Only
  <2>11. st # "none" /\ st \notin Active /\ \A f \in Engines : f # None
    BY SchedulerAssumption DEF Terminal, Active
  <2>12. Base(v, r)
    <3>0. w.sched.tries \in Nat
      BY TypedRun DEF Scheds
    <3>1. Idle(v, r) /\ Counted(v, r) /\ Ahead(v, r) /\ Epochs(v, r)
      BY <2>5, <2>7, <2>9, <2>11, <3>0 DEF Idle, Counted, Ahead, Epochs
    <3>2. Single(v, r)
      BY <2>5, <2>7, <2>9, <2>11 DEF Base, Single
    <3>3. Named(v, r)
      <4>1. \A f \in Engines : v.rt[f][r].map = 0 \/ v.rt[f][r] = w.rt[f][r]
        BY <2>7, <2>10 DEF NoRun
      <4> QED
        BY <2>5, <2>7, <2>11, <4>1 DEF Base, Named, Begun, Here
    <3>4. Kinds(v, r)
      BY <2>7, <2>9 DEF Base, Kinds
    <3>5. Informed(v, r)
      BY <1>3, <2>5, <2>7, <2>9 DEF Informed
    <3> QED
      BY <3>1, <3>2, <3>3, <3>4, <3>5 DEF Base
  <2>13. Phased(v, r) /\ Goes(v, r, lost)
    BY <2>5, <2>7, <2>11 DEF Phased, Goes
  <2>14. ~Here(v, e, r) /\ Clean(v, r, lost)
    BY <1>3, <2>5, <2>7, <2>10, <2>11 DEF Clean, Here, NoRun
  <2>15. Kept(w, v, r)
    <3>1. w.row[r].st \in Active
      BY <1>3, OwnerIsActive
    <3>2. w.row[r].st \notin Terminal /\ w.row[r].st # "none"
      BY <3>1 DEF Active, Terminal
    <3>3. Known(v, r)
      <4>1. CASE w.eng[e] = "up"
        BY <2>6, <2>7, <4>1 DEF Known
      <4>2. CASE w.eng[e] # "up"
        BY <1>3, <2>9, <4>2 DEF Known
      <4> QED
        BY <4>1, <4>2
    <3> QED
      BY <2>5, <2>7, <2>11, <3>2, <3>3 DEF Kept, Lasts
  <2> QED
    BY <2>1, <2>5, <2>7, <2>8, <2>12, <2>13, <2>14, <2>15 DEF Turn, Full
<1> QED
  BY <1>1, <1>2, <1>3

\* A change of one row and one object changes nothing else.
LEMMA SetsBoth ==
  ASSUME NEW w, NEW e \in Engines, NEW r \in Runs, Typed(w), NEW ro \in Rows(w.sched.tries),
         NEW ob \in Objs(w.sched.tries)
  PROVE  Sets(w, [w EXCEPT !.row[r] = ro, !.rt[e][r] = ob], e, r, ro, w.work[r], ob)
<1> DEFINE v == [w EXCEPT !.row[r] = ro, !.rt[e][r] = ob]
<1>1. Typed(v)
  BY DEF Typed, Worlds
<1> QED
  BY <1>1 DEF Typed, Worlds, Sets, Only

\* A row and an object that an attempt's beginning and end rewrite.
NewRow(x, st, ph, wf) == [x EXCEPT !.st = st, !.ph = ph, !.wf = wf, !.lapsed = FALSE]
NextRow(x) == [x EXCEPT !.st = "pending", !.ph = "launching", !.att = x.att + 1, !.wf = 0, !.lapsed = FALSE]
NewObj(x, ph, a) == [x EXCEPT !.ph = ph, !.map = a]

Alike(y, x) == /\ y.own = x.own /\ y.ep = x.ep /\ y.acked = x.acked /\ y.tick = x.tick /\ y.early = x.early
               /\ y.rev = x.rev /\ y.lapsed = FALSE

\* A row that changes its status, phase and workflow keeps its type, owner, epoch and
\* occurrence.
LEMMA RowOf ==
  ASSUME NEW n, n \in Nat, NEW x, x \in Rows(n), NEW st, st \in Active, NEW ph, ph \in Phases,
         NEW wf, wf \in 0..n + 1
  PROVE  LET y == NewRow(x, st, ph, wf) IN
         /\ y \in Rows(n) /\ y.st = st /\ y.ph = ph /\ y.att = x.att /\ y.wf = wf /\ Alike(y, x)
BY DEF Rows, Statuses, NewRow, Alike

\* The row of a next attempt: pending, launching, one attempt more, without a workflow.
LEMMA NextRowOf ==
  ASSUME NEW n \in Nat, NEW x \in Rows(n)
  PROVE  LET y == NextRow(x) IN
         /\ y \in Rows(n) /\ y.st = "pending" /\ y.ph = "launching" /\ y.att = x.att + 1 /\ y.wf = 0
         /\ Alike(y, x)
<1>1. x.att \in Nat /\ x.att + 1 \in Nat /\ 0 \in 0..n + 1
  BY DEF Rows
<1>2. NextRow(x) = [x EXCEPT !.st = "pending", !.ph = "launching", !.att = x.att + 1, !.wf = 0, !.lapsed = FALSE]
  BY DEF NextRow, Rows
<1>3. "pending" \in Statuses /\ "launching" \in Phases
  BY DEF Statuses, Active, Phases
<1>4. NextRow(x) \in Rows(n)
  BY <1>1, <1>2, <1>3 DEF Rows
<1> QED
  BY <1>1, <1>2, <1>4 DEF Rows, Alike

\* An object that changes its phase and workflow keeps its epoch.
LEMMA ObjOf ==
  ASSUME NEW n \in Nat, NEW x \in Objs(n), NEW ph \in Phases, NEW a \in 0..n + 1
  PROVE  LET y == NewObj(x, ph, a) IN
         y \in Objs(n) /\ y.ph = ph /\ y.map = a /\ y.ep = x.ep
BY DEF Objs, NewObj

\* No execution of the run is under way (or it was failed by a late refusal).
Spent(w, r) == r \in w.blamed \/ Doings(w, r) = {}

\* failAttempt, a retry or the end, leaves its run sound, if the execution of the failed
\* attempt is over.
LEMMA FailedTurn ==
  ASSUME NEW w, NEW e \in Engines, NEW r \in Runs, NEW lost \in BOOLEAN,
         Typed(w), Base(w, r), Clean(w, r, lost), w.eng[e] # "absent",
         w.row[r].own = e => Here(w, e, r) /\ Spent(w, r), w.row[r].own # e => Full(w, r, lost)
  PROVE  Turn(w, Failed(w, e, r), e, r) /\ Full(Failed(w, e, r), r, lost)
<1>1. CASE w.row[r].own # e
  <2>1. Failed(w, e, r) = Checked(w, e, r)
    BY <1>1, OwnedIsOwner DEF Failed
  <2> QED
    BY <1>1, <2>1, CheckedTurn
<1>2. CASE w.row[r].own = e
  <2> DEFINE s == Stop(w, e, r)
             ro == NewRow(s.row[r], "pending", "retry_wait", 0)
             ob == NewObj(s.rt[e][r], "retry_wait", 0)
             v == [s EXCEPT !.row[r] = ro, !.rt[e][r] = ob]
  <2>1. /\ Turn(w, s, e, r) /\ Base(s, r) /\ s.row = w.row /\ s.rt = w.rt /\ s.told = w.told
        /\ Doings(s, r) \subseteq Doings(w, r)
    BY StopTurn
  <2>2. /\ Typed(s) /\ s.sched = w.sched /\ s.eng = w.eng /\ s.blamed = w.blamed
        /\ Clean(s, r, lost) /\ Here(s, e, r) /\ Spent(s, r)
    BY <1>2, <2>1 DEF Turn, Only, Clean, Here, Spent
  <2>3. CASE w.row[r].att < w.sched.tries
    <3>1. Failed(w, e, r) = v
      BY <1>2, <2>3, OwnedIsOwner DEF Failed, NewRow, NewObj
    <3> HIDE DEF s
    <3>2. s.row[r] \in Rows(s.sched.tries) /\ s.rt[e][r] \in Objs(s.sched.tries) /\ s.sched.tries \in Nat
      BY <2>2, TypedRun DEF Scheds
    <3>3. /\ ro \in Rows(s.sched.tries) /\ ro.st = "pending" /\ ro.ph = "retry_wait" /\ ro.wf = 0
          /\ ro.lapsed = FALSE /\ ro.own = s.row[r].own /\ ro.ep = s.row[r].ep /\ ro.att = s.row[r].att
          /\ ro.tick = s.row[r].tick /\ ro.early = s.row[r].early
      <4>1. "pending" \in Active /\ "retry_wait" \in Phases /\ 0 \in 0..s.sched.tries + 1
        BY <3>2 DEF Active, Phases
      <4>2. /\ ro \in Rows(s.sched.tries) /\ ro.st = "pending" /\ ro.ph = "retry_wait"
            /\ ro.att = s.row[r].att /\ ro.wf = 0 /\ Alike(ro, s.row[r])
        BY <3>2, <4>1, RowOf
      <4> QED
        BY <4>2 DEF Alike
    <3>4. ob \in Objs(s.sched.tries) /\ ob.ph = "retry_wait" /\ ob.map = 0 /\ ob.ep = s.rt[e][r].ep
      <4>1. "retry_wait" \in Phases /\ 0 \in 0..s.sched.tries + 1
        BY <3>2 DEF Phases
      <4> QED
        BY <3>2, <4>1, ObjOf
    <3>5. Sets(s, v, e, r, ro, s.work[r], ob)
      BY <2>2, <3>3, <3>4, SetsBoth
    <3> HIDE DEF v, ro, ob
    <3>6. /\ Typed(v) /\ v.sched = s.sched /\ v.eng = s.eng /\ v.blamed = s.blamed
          /\ v.row[r] = ro /\ v.work[r] = s.work[r] /\ v.rt[e][r] = ob /\ v.told = s.told
          /\ \A f \in Engines : f # e => v.rt[f][r] = s.rt[f][r]
      BY <3>5 DEF Sets, Only
    <3>7. Slots(v) = Slots(s) /\ Doings(v, r) = Doings(s, r)
      BY <3>6 DEF Slots, Doings
    <3>8. s.row[r].own = e /\ s.row[r].st \in Active /\ s.row[r].st # "none" /\ s.row[r].st \notin Terminal
      BY <1>2, <2>1, <2>2, OwnerIsActive DEF Active, Terminal
    <3>9. Base(v, r)
      <4>0. v.row[r].att < v.sched.tries /\ v.row[r].att \in Nat /\ v.sched.tries \in Nat
        BY <2>1, <2>2, <2>3, <3>2, <3>3, <3>6 DEF Rows
      <4>1. Idle(v, r) /\ Counted(v, r)
        BY <3>3, <3>6, <4>0 DEF Idle, Counted, Terminal
      <4>2. Ahead(v, r)
        BY <2>1, <3>3, <3>6, <3>7, <3>8 DEF Base, Ahead
      <4>3. Epochs(v, r)
        BY <2>1, <3>3, <3>4, <3>6, <3>8 DEF Base, Epochs, Here, Active
      <4>4. Single(v, r)
        BY <2>1, <2>2, <3>3, <3>6, <3>7 DEF Base, Single, Spent
      <4>5. Named(v, r)
        <5>1. \A f \in Engines : v.rt[f][r].map = 0 \/ v.rt[f][r] = s.rt[f][r]
          BY <3>4, <3>6
        <5> QED
          BY <2>1, <3>3, <3>6, <5>1, ZenonT(60) DEF Base, Named, Begun, Here
      <4>6. Kinds(v, r) /\ Informed(v, r)
        <5>1. Kinds(s, r) /\ Informed(s, r)
          BY <2>1 DEF Base
        <5>2. Kinds(v, r)
          BY <3>3, <3>6, <3>7, <3>8, <5>1 DEF Kinds
        <5> QED
          BY <2>1, <3>3, <3>6, <3>7, <3>8, <5>1, <5>2 DEF Informed, Terminal
      <4> QED
        BY <4>1, <4>2, <4>3, <4>4, <4>5, <4>6 DEF Base
    <3>10. Phased(v, r) /\ Clean(v, r, lost)
      BY <2>2, <3>3, <3>4, <3>6, <3>8 DEF Phased, Clean, Here
    <3>11. Goes(v, r, lost)
      BY <3>3, <3>6 DEF Goes, Heeds
    <3>12. Kept(s, v, r)
      BY <3>3, <3>6, <3>8 DEF Kept, Lasts, Terminal
    <3>13. Turn(w, v, e, r)
      BY <2>1, <3>5, <3>6, <3>12, TurnChain DEF Turn, Sets
    <3> QED
      BY <3>1, <3>9, <3>10, <3>11, <3>13 DEF Full
  <2>4. CASE ~(w.row[r].att < w.sched.tries)
    <3>1. Failed(w, e, r) = Settled(s, e, r, "failed")
      BY <1>2, <2>4, OwnedIsOwner DEF Failed
    <3>2. Turn(s, Settled(s, e, r, "failed"), e, r) /\ Full(Settled(s, e, r, "failed"), r, lost)
      <4>1. "failed" \in Terminal
        BY DEF Terminal
      <4> QED
        BY <1>2, <2>1, <2>2, <4>1, SettledTurn
    <3> QED
      BY <2>1, <3>1, <3>2, TurnChain
  <2> QED
    BY <2>3, <2>4
<1> QED
  BY <1>1, <1>2

\* An owner that writes its run: what else the run needs.
LEMMA BaseWritten ==
  ASSUME NEW w, NEW v, NEW e \in Engines, NEW r \in Runs, Typed(w), Typed(v), Base(w, r), Only(w, v, e, r),
         w.row[r].own = e, v.row[r].own = e, v.row[r].ep = w.row[r].ep, v.row[r].st \in Active,
         v.row[r].tick = w.row[r].tick, v.row[r].early = w.row[r].early,
         v.row[r].att >= w.row[r].att, v.work[r] = w.work[r], v.told = w.told,
         v.rt[e][r].ep = w.rt[e][r].ep, v.rt[e][r].ph # "none", v.rt[e][r].map # 0 => Begun(v, r, v.rt[e][r].map),
         Counted(v, r), Single(v, r), v.row[r].wf # 0 => Begun(v, r, v.row[r].wf)
  PROVE  Base(v, r) /\ Kept(w, v, r)
<1>1. v.sched = w.sched /\ v.eng = w.eng /\ Slots(v) = Slots(w)
  BY DEF Only, Slots
<1>2. \A f \in Engines : f # e => v.rt[f][r] = w.rt[f][r]
  BY DEF Only
<1>3. w.row[r].st \in Active
  BY OwnerIsActive
<1>4. w.row[r].st \notin Terminal \cup {"none"} /\ v.row[r].st \notin Terminal \cup {"none"}
  BY <1>3 DEF Active, Terminal
<1>5. Idle(v, r)
  BY <1>4 DEF Idle
<1>6. Ahead(v, r)
  <2>1. w.row[r].att \in Nat /\ v.row[r].att \in Nat
    BY TypedRun DEF Rows
  <2>2. \A a \in Slots(w) : a \in Nat
    BY TypedRun DEF Slots, Scheds
  <2> QED
    BY <1>1, <1>4, <2>1, <2>2 DEF Base, Ahead
<1>7. Epochs(v, r)
  BY <1>2, <1>3 DEF Base, Epochs, Here
<1>8. Named(v, r)
  BY <1>2, <1>3 DEF Base, Named, Begun, Here
<1>9. Kinds(v, r) /\ Informed(v, r)
  BY <1>1, <1>4, ZenonT(60) DEF Base, Kinds, Informed
<1>10. Kept(w, v, r)
  BY <1>4 DEF Kept, Lasts
<1> QED
  BY <1>5, <1>6, <1>7, <1>8, <1>9, <1>10 DEF Base

\* A new attempt of an owner is in the row and the object alike and has no execution yet.
LEMMA AttemptedTurn ==
  ASSUME NEW w, NEW e \in Engines, NEW r \in Runs, NEW lost \in BOOLEAN,
         Typed(w), Base(w, r), Clean(w, r, lost), w.row[r].own = e, Here(w, e, r), Spent(w, r),
         w.row[r].att < w.sched.tries
  PROVE  LET v == Attempted(w, e, r) IN
         /\ Turn(w, v, e, r) /\ Base(v, r) /\ Phased(v, r) /\ Clean(v, r, lost)
         /\ v.row[r].own = e /\ Here(v, e, r) /\ Spent(v, r)
         /\ v.row[r].att = w.row[r].att + 1 /\ v.row[r].att \in Slots(w) /\ v.row[r].ph = "launching"
         /\ v.work[r][v.row[r].att] = NoWork
<1> DEFINE ro == NextRow(w.row[r])
           ob == NewObj(w.rt[e][r], "launching", 0)
           v == [w EXCEPT !.row[r] = ro, !.rt[e][r] = ob]
<1>1. Attempted(w, e, r) = v
  BY DEF Attempted, NextRow, NewObj
<1>2. w.row[r] \in Rows(w.sched.tries) /\ w.rt[e][r] \in Objs(w.sched.tries) /\ w.sched.tries \in Nat
  BY TypedRun DEF Scheds
<1>3. w.row[r].att \in Nat
  BY <1>2 DEF Rows
<1>4. "pending" \in Active /\ "launching" \in Phases /\ 0 \in 0..w.sched.tries + 1
  BY <1>2 DEF Active, Phases
<1>5. /\ ro \in Rows(w.sched.tries) /\ ro.st = "pending" /\ ro.ph = "launching" /\ ro.att = w.row[r].att + 1
      /\ ro.wf = 0 /\ ro.lapsed = FALSE /\ ro.own = w.row[r].own /\ ro.ep = w.row[r].ep
      /\ ro.tick = w.row[r].tick /\ ro.early = w.row[r].early
  BY <1>2, NextRowOf DEF Alike
<1>6. ob \in Objs(w.sched.tries) /\ ob.ph = "launching" /\ ob.map = 0 /\ ob.ep = w.rt[e][r].ep
  BY <1>2, <1>4, ObjOf
<1>7. Sets(w, v, e, r, ro, w.work[r], ob)
  BY <1>5, <1>6, SetsBoth
<1> HIDE DEF v, ro, ob
<1>8. /\ Typed(v) /\ Only(w, v, e, r) /\ v.sched = w.sched /\ v.eng = w.eng /\ v.blamed = w.blamed
      /\ v.row[r] = ro /\ v.work[r] = w.work[r] /\ v.rt[e][r] = ob /\ v.told = w.told
      /\ \A f \in Engines : f # e => v.rt[f][r] = w.rt[f][r]
  BY <1>7 DEF Sets, Only
<1>9. Slots(v) = Slots(w) /\ Doings(v, r) = Doings(w, r) /\ Spent(v, r)
  BY <1>8 DEF Slots, Doings, Spent
<1>10. Counted(v, r)
  BY <1>2, <1>3, <1>5, <1>8 DEF Counted, Terminal
<1>11. Single(v, r)
  BY <1>5, <1>8, <1>9 DEF Single, Spent, Terminal
<1>12. Base(v, r) /\ Kept(w, v, r)
  <2>1. v.row[r].att >= w.row[r].att
    BY <1>3, <1>5, <1>8
  <2>2. v.row[r].own = e /\ v.row[r].st \in Active /\ v.rt[e][r].ph # "none" /\ v.rt[e][r].map = 0 /\ v.row[r].wf = 0
    BY <1>4, <1>5, <1>6, <1>8
  <2> QED
    BY <1>5, <1>6, <1>8, <1>10, <1>11, <2>1, <2>2, BaseWritten
<1>13. Phased(v, r) /\ Clean(v, r, lost) /\ Here(v, e, r)
  BY <1>5, <1>6, <1>8 DEF Phased, Clean, Here
<1>14. w.row[r].att + 1 \in Slots(w) /\ w.work[r][w.row[r].att + 1] = NoWork
  <2>1. w.row[r].st \in Active
    BY OwnerIsActive
  <2>2. w.row[r].att + 1 \in Slots(w)
    BY <1>2, <1>3 DEF Slots
  <2> QED
    BY <1>3, <2>1, <2>2 DEF Base, Ahead, Active, Terminal
<1> QED
  BY <1>1, <1>5, <1>8, <1>9, <1>12, <1>13, <1>14 DEF Turn

\* An owner has what it executes, another engine only changes its object.
LEMMA RunningTurn ==
  ASSUME NEW w, NEW e \in Engines, NEW r \in Runs, NEW lost \in BOOLEAN, NEW a \in 0..w.sched.tries + 1,
         Typed(w), Base(w, r), Clean(w, r, lost),
         \/ a = 0 /\ w.sched.kind = "dispatch"
         \/ a # 0 /\ w.work[r][a].st = "alive" /\ (w.sched.kind = "session" => w.work[r][a].host = e),
         w.row[r].own # e => Full(w, r, lost) /\ Here(w, e, r)
  PROVE  Turn(w, Running(w, e, r, a), e, r) /\ Full(Running(w, e, r, a), r, lost)
<1> DEFINE ob == NewObj(w.rt[e][r], "running", a)
           x == [w EXCEPT !.rt[e][r] = ob]
           ro == NewRow(w.row[r], "running", "running", a)
           v == [x EXCEPT !.row[r] = ro]
<1>1. w.row[r] \in Rows(w.sched.tries) /\ w.rt[e][r] \in Objs(w.sched.tries) /\ w.sched.tries \in Nat
  BY TypedRun DEF Scheds
<1>2. "running" \in Active /\ "running" \in Phases /\ w.row[r].att \in Nat
  BY <1>1 DEF Active, Phases, Rows
<1>3. ob \in Objs(w.sched.tries) /\ ob.ph = "running" /\ ob.map = a /\ ob.ep = w.rt[e][r].ep
  BY <1>1, <1>2, ObjOf
<1>4. Sets(w, x, e, r, w.row[r], w.work[r], ob)
  BY <1>3, SetsObj
<1>5. Owned(x, e, r) <=> Owned(w, e, r)
  BY <1>3, <1>4 DEF Owned, Sets
<1>7. Running(w, e, r, a) = IF Owned(x, e, r) THEN v ELSE x
  BY DEF Running, Stored, NewRow, NewObj
<1>8. a # 0 => a \in Slots(w) /\ a \in Doings(w, r)
  BY <1>1 DEF Slots, Doings, Doing
<1>9. CASE w.row[r].own # e
  <2>1. Running(w, e, r, a) = x
    BY <1>5, <1>7, <1>9, OwnedIsOwner
  <2> HIDE DEF x, ob
  <2>2. /\ Typed(x) /\ Only(w, x, e, r) /\ x.sched = w.sched /\ x.eng = w.eng /\ x.blamed = w.blamed
        /\ x.row[r] = w.row[r] /\ x.work[r] = w.work[r] /\ x.rt[e][r] = ob /\ x.told = w.told
        /\ \A f \in Engines : f # e => x.rt[f][r] = w.rt[f][r]
        /\ \A f \in Engines : r \in Range(x.queue[f]) <=> r \in Range(w.queue[f])
    BY <1>4 DEF Sets, Only
  <2>3. Slots(x) = Slots(w) /\ Doings(x, r) = Doings(w, r) /\ Here(x, e, r)
    BY <1>3, <2>2 DEF Slots, Doings, Here
  <2>4. lost
    BY <1>9 DEF Full, Clean
  <2>5. Idle(x, r) /\ Counted(x, r) /\ Ahead(x, r)
    BY <1>9, <2>2, <2>3 DEF Base, Idle, Counted, Ahead, Here
  <2>6. Epochs(x, r)
    BY <1>3, <1>9, <2>2 DEF Base, Epochs, Here
  <2>7. Single(x, r)
    BY <2>2, <2>3 DEF Base, Single
  <2>8. Named(x, r)
    <3>1. a # 0 => Begun(x, r, a)
      BY <2>2 DEF Begun
    <3> QED
      BY <1>3, <2>2, <2>3, <3>1 DEF Base, Named, Begun, Here
  <2>9. Kinds(x, r) /\ Informed(x, r)
    BY <2>2, <2>3, SMTT(40) DEF Base, Kinds, Informed
  <2>10. Phased(x, r) /\ Clean(x, r, lost)
    BY <1>9, <2>2, <2>4 DEF Full, Phased, Clean
  <2>11. Goes(x, r, lost)
    <3> SUFFICES ASSUME NEW f \in Engines, f # e, Heeds(w, f, r, lost) PROVE Heeds(x, f, r, lost)
      BY <1>9, <2>2 DEF Full, Goes
    <3> QED
      BY <2>2, HeedsStill
  <2>12. Kept(w, x, r)
    BY <2>2 DEF Kept, Lasts
  <2> QED
    BY <2>1, <2>2, <2>5, <2>6, <2>7, <2>8, <2>9, <2>10, <2>11, <2>12 DEF Turn, Full, Base
<1>10. CASE w.row[r].own = e
  <2>1. Running(w, e, r, a) = v
    BY <1>5, <1>7, <1>10, OwnedIsOwner
  <2>2. /\ ro \in Rows(w.sched.tries) /\ ro.st = "running" /\ ro.ph = "running" /\ ro.att = w.row[r].att
        /\ ro.wf = a /\ ro.lapsed = FALSE /\ ro.own = w.row[r].own /\ ro.ep = w.row[r].ep
        /\ ro.tick = w.row[r].tick /\ ro.early = w.row[r].early
    <3>1. /\ ro \in Rows(w.sched.tries) /\ ro.st = "running" /\ ro.ph = "running"
          /\ ro.att = w.row[r].att /\ ro.wf = a /\ Alike(ro, w.row[r])
      BY <1>1, <1>2, RowOf
    <3> QED
      BY <3>1 DEF Alike
  <2> HIDE DEF x, ob, ro
  <2>3. Sets(x, v, e, r, ro, x.work[r], x.rt[e][r])
    BY <1>4, <2>2, SetsRow DEF Sets, Only
  <2> HIDE DEF v
  <2>4. Only(w, v, e, r)
    BY <1>4, <2>3 DEF Sets, Only
  <2>5. /\ Typed(v) /\ v.sched = w.sched /\ v.eng = w.eng /\ v.blamed = w.blamed
        /\ v.row[r] = ro /\ v.work[r] = w.work[r] /\ v.rt[e][r] = ob /\ v.told = w.told
        /\ \A f \in Engines : f # e => v.rt[f][r] = w.rt[f][r]
    BY <1>4, <2>3, <2>4 DEF Sets, Only
  <2>6. Slots(v) = Slots(w) /\ Doings(v, r) = Doings(w, r)
    BY <2>5 DEF Slots, Doings
  <2>7. w.row[r].st \in Active
    BY <1>10, OwnerIsActive
  <2>8. Counted(v, r)
    BY <1>1, <2>2, <2>5, <2>7 DEF Base, Counted, Terminal
  <2>9. Single(v, r)
    BY <1>8, <2>2, <2>5, <2>6, <2>7 DEF Base, Single, Terminal
  <2>10. a # 0 => Begun(v, r, a)
    BY <2>5 DEF Begun
  <2>11. Base(v, r) /\ Kept(w, v, r)
    <3>1. v.row[r].att >= w.row[r].att
      BY <1>2, <2>2, <2>5
    <3>2. v.row[r].own = e /\ v.row[r].st \in Active /\ v.rt[e][r].ph # "none" /\ v.rt[e][r].map = a /\ v.row[r].wf = a
      BY <1>2, <1>3, <1>10, <2>2, <2>5
    <3> QED
      BY <1>3, <1>10, <2>2, <2>4, <2>5, <2>8, <2>9, <2>10, <3>1, <3>2, BaseWritten
  <2>12. Phased(v, r) /\ Clean(v, r, lost)
    BY <1>3, <1>10, <2>2, <2>5 DEF Phased, Clean, Here
  <2>13. Goes(v, r, lost)
    <3>1. Heeds(v, e, r, lost)
      BY <1>3, <1>8, <2>2, <2>5, <2>6 DEF Heeds, Base, Kinds, Doing, NoWork
    <3> QED
      BY <1>10, <2>2, <2>5, <3>1 DEF Goes
  <2> QED
    BY <2>1, <2>4, <2>5, <2>11, <2>12, <2>13 DEF Turn, Full
<1> QED
  BY <1>9, <1>10

\* The execution of an attempt begins.
Begins(w, e, r, st) == [w EXCEPT !.work[r][w.row[r].att] = [NoWork EXCEPT !.st = st, !.host = e]]

\* An execution begun for the row's attempt is the run's only one.
LEMMA BeginTurn ==
  ASSUME NEW w, NEW e \in Engines, NEW r \in Runs, NEW lost \in BOOLEAN, NEW st \in Doing,
         Typed(w), Base(w, r), Phased(w, r), Clean(w, r, lost), w.row[r].own = e, Spent(w, r),
         w.row[r].att \in Slots(w), w.row[r].ph = "launching", w.work[r][w.row[r].att] = NoWork,
         w.sched.kind # "dispatch", st = "creating" => w.sched.kind = "session"
  PROVE  LET v == Begins(w, e, r, st) IN
         /\ Turn(w, v, e, r) /\ Base(v, r) /\ Phased(v, r) /\ Clean(v, r, lost)
         /\ v.row = w.row /\ v.rt = w.rt
         /\ v.work[r][w.row[r].att].st = st /\ v.work[r][w.row[r].att].host = e
<1> DEFINE a == w.row[r].att
           x == [NoWork EXCEPT !.st = st, !.host = e]
           v == [w EXCEPT !.work[r][a] = x]
<1>1. /\ x \in Works /\ x.st = st /\ x.host = e /\ x.st \notin {"none", "gone"}
      /\ x.open = FALSE /\ x.arm = FALSE /\ x # NoWork
  BY DEF Works, NoWork, WorkStates, Doing
<1>2. Sets(w, v, e, r, w.row[r], [w.work[r] EXCEPT ![a] = x], w.rt[e][r])
  BY <1>1, SetsWork
<1>3. v.row = w.row /\ v.rt = w.rt
  BY DEF Typed, Worlds
<1>4. w.work[r] \in [Slots(w) -> Works]
  BY TypedRun
<1> HIDE DEF v, x
<1>5. /\ Typed(v) /\ Only(w, v, e, r) /\ v.sched = w.sched /\ v.eng = w.eng /\ v.blamed = w.blamed
      /\ v.told = w.told /\ Slots(v) = Slots(w)
      /\ v.work[r][a] = x /\ \A b \in Slots(w) : b # a => v.work[r][b] = w.work[r][b]
  BY <1>2, <1>4 DEF Sets, Only, Slots
<1>6. Doings(v, r) = Doings(w, r) \cup {a}
  BY <1>1, <1>5 DEF Doings
<1>7. w.row[r].st \in Active
  BY OwnerIsActive
<1>8. w.row[r].st # "none" /\ w.row[r].st \notin Terminal
  BY <1>7 DEF Active, Terminal
<1>9. Idle(v, r) /\ Counted(v, r) /\ Epochs(v, r)
  BY <1>3, <1>5, <1>8 DEF Base, Idle, Counted, Epochs, Here
<1>10. Ahead(v, r)
  <2>1. \A b \in Slots(w) : b > a => b # a
    BY TypedRun DEF Slots, Scheds
  <2> QED
    BY <1>3, <1>5, <1>8, <2>1 DEF Base, Ahead
<1>11. Single(v, r)
  BY <1>3, <1>5, <1>6 DEF Base, Single, Spent
<1>12. Named(v, r)
  <2>1. ~Begun(w, r, a)
    BY DEF Begun, NoWork
  <2>2. \A b \in Slots(w) : Begun(w, r, b) => Begun(v, r, b)
    BY <1>5, <2>1 DEF Begun
  <2>3. w.sched.tries \in Nat /\ w.row[r].wf \in 0..w.sched.tries + 1
        /\ \A f \in Engines : w.rt[f][r].map \in 0..w.sched.tries + 1
    <3>1. w.sched.tries \in Nat
      BY TypedRun DEF Scheds
    <3>2. w.row[r] \in Rows(w.sched.tries) /\ \A f \in Engines : w.rt[f][r] \in Objs(w.sched.tries)
      BY TypedRun
    <3> QED
      BY <3>1, <3>2 DEF Rows, Objs
  <2>4. \A b \in 0..w.sched.tries + 1 : b # 0 => b \in Slots(w)
    BY <2>3 DEF Slots
  <2> QED
    BY <1>3, <2>2, <2>3, <2>4 DEF Base, Named, Here
<1>13. Kinds(v, r)
  BY <1>1, <1>5 DEF Base, Kinds
<1>14. Informed(v, r)
  BY <1>3, <1>5 DEF Base, Informed
<1>15. Kept(w, v, r)
  <2>1. ~w.work[r][a].arm /\ ~v.work[r][a].arm
    BY <1>1, <1>5 DEF NoWork
  <2> QED
    BY <1>3, <1>5, <2>1 DEF Kept, Lasts
<1>16. Phased(v, r) /\ Clean(v, r, lost)
  BY <1>3 DEF Phased, Clean, Here
<1> QED
  BY <1>1, <1>3, <1>5, <1>9, <1>10, <1>11, <1>12, <1>13, <1>14, <1>15, <1>16 DEF Turn, Base, v, x, Begins

\* The start of an attempt (session, workflow or dispatch) leaves its run sound.
LEMMA StartedTurn ==
  ASSUME NEW w, NEW e \in Engines, NEW r \in Runs, NEW lost \in BOOLEAN, w.eng[e] # "absent",
         Typed(w), Base(w, r), Phased(w, r), Clean(w, r, lost), w.row[r].own = e, Here(w, e, r), Spent(w, r),
         w.row[r].att \in Slots(w), w.row[r].ph = "launching", w.work[r][w.row[r].att] = NoWork
  PROVE  Turn(w, Started(w, e, r), e, r) /\ Full(Started(w, e, r), r, lost)
<1> DEFINE a == w.row[r].att
<1>1. w.sched.kind \in {"session", "workflow", "dispatch"} /\ w.sched.tries \in Nat
  BY TypedRun DEF Scheds
<1>2. CASE w.sched.kind = "dispatch"
  <2>1. CASE w.row[r].rev # w.sched.rev
    <3>1. Started(w, e, r) = Failed(w, e, r)
      BY <1>2, <2>1 DEF Started
    <3> QED
      BY <3>1, FailedTurn
  <2>2. CASE w.row[r].rev = w.sched.rev
    <3>1. Started(w, e, r) = Running(w, e, r, 0)
      BY <1>2, <2>2 DEF Started
    <3>2. 0 \in 0..w.sched.tries + 1
      BY <1>1
    <3> QED
      BY <1>2, <3>1, <3>2, RunningTurn
  <2> QED
    BY <2>1, <2>2
<1>3. CASE w.sched.kind = "workflow"
  <2> DEFINE v == Begins(w, e, r, "alive")
  <2>1. Started(w, e, r) = Running(v, e, r, a)
    BY <1>3 DEF Started, Begins
  <2>2. /\ Turn(w, v, e, r) /\ Base(v, r) /\ Clean(v, r, lost) /\ v.row = w.row
        /\ v.work[r][a].st = "alive" /\ v.work[r][a].host = e
    <3>1. "alive" \in Doing /\ w.sched.kind # "dispatch" /\ "alive" # "creating"
      BY <1>3 DEF Doing
    <3> QED
      BY <3>1, BeginTurn
  <2> HIDE DEF v
  <2>3. Typed(v) /\ v.sched = w.sched /\ a \in 0..v.sched.tries + 1 /\ a # 0
    BY <1>1, <2>2 DEF Turn, Only, Slots
  <2>4. Turn(v, Running(v, e, r, a), e, r) /\ Full(Running(v, e, r, a), r, lost)
    BY <2>2, <2>3, RunningTurn
  <2> QED
    BY <2>1, <2>2, <2>4, TurnChain
<1>4. CASE w.sched.kind = "session"
  <2> DEFINE v == Begins(w, e, r, "creating")
  <2>1. Started(w, e, r) = v
    BY <1>4 DEF Started, Begins
  <2>2. /\ Turn(w, v, e, r) /\ Base(v, r) /\ Phased(v, r) /\ Clean(v, r, lost) /\ v.row = w.row
        /\ v.work[r][a].st = "creating" /\ v.work[r][a].host = e
    <3>1. "creating" \in Doing /\ w.sched.kind # "dispatch"
      BY <1>4 DEF Doing
    <3> QED
      BY <1>4, <3>1, BeginTurn
  <2> HIDE DEF v
  <2>3. v.sched = w.sched /\ Slots(v) = Slots(w)
    BY <2>2 DEF Turn, Only, Slots
  <2>4. Goes(v, r, lost)
    BY <1>4, <2>2, <2>3 DEF Goes, Heeds
  <2> QED
    BY <2>1, <2>2, <2>4 DEF Full
<1> QED
  BY <1>1, <1>2, <1>3, <1>4

\* launchAttempt leaves its run sound, whether it owns the row or not.
LEMMA LaunchedTurn ==
  ASSUME NEW w, NEW e \in Engines, NEW r \in Runs, NEW lost \in BOOLEAN,
         Typed(w), Base(w, r), Clean(w, r, lost), w.eng[e] # "absent",
         w.row[r].own = e => Here(w, e, r) /\ Spent(w, r) /\ w.row[r].att < w.sched.tries,
         w.row[r].own # e => Full(w, r, lost)
  PROVE  Turn(w, Launched(w, e, r), e, r) /\ Full(Launched(w, e, r), r, lost)
<1>1. CASE w.row[r].own # e
  <2>1. Launched(w, e, r) = Checked(w, e, r)
    BY <1>1, OwnedIsOwner DEF Launched
  <2> QED
    BY <1>1, <2>1, CheckedTurn
<1>2. CASE w.row[r].own = e /\ (~w.sched.live \/ ~w.sched.on)
  <2>1. Launched(w, e, r) = Settled(w, e, r, "cancelled")
    BY <1>2, OwnedIsOwner DEF Launched
  <2>2. "cancelled" \in Terminal
    BY DEF Terminal
  <2> QED
    BY <1>2, <2>1, <2>2, SettledTurn
<1>3. CASE w.row[r].own = e /\ w.sched.live /\ w.sched.on
  <2> DEFINE v == Attempted(w, e, r)
  <2>1. Launched(w, e, r) = Started(v, e, r)
    BY <1>3, OwnedIsOwner DEF Launched
  <2>2. /\ Turn(w, v, e, r) /\ Base(v, r) /\ Phased(v, r) /\ Clean(v, r, lost)
        /\ v.row[r].own = e /\ Here(v, e, r) /\ Spent(v, r)
        /\ v.row[r].att \in Slots(w) /\ v.row[r].ph = "launching"
        /\ v.work[r][v.row[r].att] = NoWork
    BY <1>3, AttemptedTurn
  <2> HIDE DEF v
  <2>3. Typed(v) /\ v.eng = w.eng /\ Slots(v) = Slots(w)
    BY <2>2 DEF Turn, Only, Slots
  <2>4. Turn(v, Started(v, e, r), e, r) /\ Full(Started(v, e, r), r, lost)
    BY <2>2, <2>3, StartedTurn
  <2> QED
    BY <2>1, <2>2, <2>4, TurnChain
<1> QED
  BY <1>1, <1>2, <1>3

-----------------------------------------------------------------------------
(* The drain of a queue *)

\* A run leaves the queue.
LEMMA UnqueuedTurn ==
  ASSUME NEW w, NEW e \in Engines, NEW r \in Runs, NEW lost \in BOOLEAN, Typed(w), Full(w, r, lost)
  PROVE  LET v == [w EXCEPT !.queue[e] = Keep(@, Runs \ {r})] IN
         /\ Turn(w, v, e, r) /\ Base(v, r) /\ Phased(v, r) /\ Clean(v, r, lost)
         /\ v.row = w.row /\ v.rt = w.rt /\ Doings(v, r) = Doings(w, r)
         /\ w.row[r].own # e \/ w.row[r].ph # "queued" => Full(v, r, lost)
<1> DEFINE v == [w EXCEPT !.queue[e] = Keep(@, Runs \ {r})]
<1>1. w.queue[e] \in Seq(Runs)
  BY DEF Typed, Worlds
<1>2. /\ Keep(w.queue[e], Runs \ {r}) \in Seq(Runs)
      /\ Range(Keep(w.queue[e], Runs \ {r})) = Range(w.queue[e]) \ {r}
  <2>1. Range(w.queue[e]) \subseteq Runs
    BY <1>1 DEF Range
  <2> QED
    BY <1>1, <2>1, KeepRange
<1>3. Typed(v)
  BY <1>2 DEF Typed, Worlds
<1>4. /\ v.sched = w.sched /\ v.eng = w.eng /\ v.timer = w.timer /\ v.cut = w.cut /\ v.blamed = w.blamed
      /\ v.row = w.row /\ v.work = w.work /\ v.told = w.told /\ v.rt = w.rt
      /\ v.queue[e] = Keep(w.queue[e], Runs \ {r})
      /\ \A f \in Engines : f # e => v.queue[f] = w.queue[f]
  BY DEF Typed, Worlds
<1> HIDE DEF v
<1>5. Only(w, v, e, r) /\ Kept(w, v, r)
  BY <1>2, <1>4 DEF Only, Kept, Lasts
<1>6. Slots(v) = Slots(w) /\ Doings(v, r) = Doings(w, r)
  BY <1>4 DEF Slots, Doings
<1>7a. Base(w, r)
  BY DEF Full
<1>7b. Idle(v, r) /\ Counted(v, r)
  BY <1>4, <1>6, <1>7a DEF Base, Idle, Counted, Here
<1>7. Ahead(v, r) /\ Epochs(v, r)
  BY <1>4, <1>6, <1>7a DEF Base, Ahead, Epochs, Here
<1>8a. Single(v, r) /\ Named(v, r)
  BY <1>4, <1>6, <1>7a DEF Base, Single, Named, Begun, Here
<1>8. Kinds(v, r) /\ Informed(v, r)
  BY <1>4, <1>6, <1>7a DEF Base, Kinds, Informed
<1>9. Phased(v, r) /\ Clean(v, r, lost)
  BY <1>4 DEF Full, Phased, Clean, Here
<1>10. ASSUME w.row[r].own # e \/ w.row[r].ph # "queued" PROVE Goes(v, r, lost)
  <2> SUFFICES ASSUME NEW f \in Engines, w.row[r].own = f, Heeds(w, f, r, lost) PROVE Heeds(v, f, r, lost)
    BY <1>4 DEF Full, Goes
  <2>1. CASE w.row[r].ph # "queued"
    BY <1>4, <2>1, ZenonT(60) DEF Heeds, Slots
  <2>2. CASE f # e
    BY <1>4, <2>2, HeedsStill
  <2> QED
    BY <1>10, <2>1, <2>2
<1> QED
  BY <1>3, <1>4, <1>5, <1>6, <1>7, <1>7b, <1>8, <1>8a, <1>9, <1>10 DEF Turn, Full, Base, v

\* One round of drainQueue keeps the world sound.
LEMMA DrainStepSound ==
  ASSUME NEW w, NEW go \in BOOLEAN, NEW e \in Engines, NEW r \in Runs, NEW lost \in BOOLEAN,
         Sound(w, lost), w.eng[e] # "absent"
  PROVE  LET t == DrainStep([w |-> w, go |-> go], e, r) IN
         /\ Sound(t.w, lost) /\ Steps(w, t.w, e)
         /\ t.go \in BOOLEAN /\ t = [w |-> t.w, go |-> t.go]
<1> DEFINE s == [w |-> w, go |-> go]
           p == [w EXCEPT !.queue[e] = Keep(@, Runs \ {r})]
<1>1. Typed(w) /\ Full(w, r, lost)
  BY DEF Sound
<1>2. /\ Turn(w, p, e, r) /\ Base(p, r) /\ Phased(p, r) /\ Clean(p, r, lost)
      /\ p.row = w.row /\ p.rt = w.rt /\ Doings(p, r) = Doings(w, r)
      /\ w.row[r].own # e \/ w.row[r].ph # "queued" => Full(p, r, lost)
  BY <1>1, UnqueuedTurn
<1>3. CASE ~go \/ HasActive(w, e)
  <2>0. s.w = w /\ s.go = go
    OBVIOUS
  <2> HIDE DEF s
  <2>1. DrainStep(s, e, r) = [w |-> s.w, go |-> FALSE]
    <3>1. CASE HasActive(w, e)
      BY <2>0, <3>1 DEF DrainStep
    <3>2. CASE ~go
      BY <2>0, <3>2 DEF DrainStep
    <3> QED
      BY <1>3, <3>1, <3>2
  <2>2. [w |-> s.w, go |-> FALSE] = [w |-> w, go |-> FALSE]
    BY <2>0
  <2> QED
    <3> DEFINE t == DrainStep(s, e, r)
    <3>1. t.w = w /\ t.go = FALSE /\ t = [w |-> w, go |-> FALSE]
      BY <2>1, <2>2
    <3> HIDE DEF t
    <3>2. Sound(t.w, lost) /\ Steps(w, t.w, e) /\ t.go \in BOOLEAN /\ t = [w |-> t.w, go |-> t.go]
      BY <3>1, StepsNone
    <3> QED
      BY <3>2, Zenon DEF t, s
<1>4. CASE ~(~go \/ HasActive(w, e)) /\ p.rt[e][r].ph # "queued"
  <2>1. DrainStep(s, e, r) = [w |-> p, go |-> go]
    BY <1>4 DEF DrainStep
  <2>2. Full(p, r, lost)
    BY <1>1, <1>2, <1>4 DEF Full, Phased
  <2>3. Sound(p, lost) /\ Steps(w, p, e)
    BY <1>2, <2>2, TurnSound
  <2> QED
    BY <2>1, <2>3
<1>5. CASE ~(~go \/ HasActive(w, e)) /\ p.rt[e][r].ph = "queued"
  <2>1. DrainStep(s, e, r) = [w |-> Launched(p, e, r), go |-> Owned(p, e, r)]
    BY <1>5 DEF DrainStep
  <2>2. Typed(p) /\ p.sched = w.sched /\ p.eng = w.eng /\ p.blamed = w.blamed
    BY <1>2 DEF Turn, Only
  <2>3. Here(p, e, r)
    BY <1>5 DEF Here
  <2>4. ASSUME p.row[r].own = e PROVE Spent(p, r) /\ p.row[r].att < p.sched.tries
    <3>1. p.row[r].ph = "queued"
      BY <1>2, <1>5, <2>4 DEF Phased
    <3>2. p.row[r].st \in Active
      BY <1>2, <2>2, <2>4, OwnerIsActive
    <3>3. p.row[r].att = 0
      BY <1>2, <3>1, <3>2 DEF Base, Counted
    <3>4. Spent(p, r)
      BY <1>2, <3>1, <3>2 DEF Base, Single, Spent
    <3>5. p.sched.tries \in Nat \ {0}
      BY <2>2, TypedRun DEF Scheds
    <3> QED
      BY <3>3, <3>4, <3>5
  <2>5. p.row[r].own # e => Full(p, r, lost)
    BY <1>2
  <2>6. Turn(p, Launched(p, e, r), e, r) /\ Full(Launched(p, e, r), r, lost)
    <3> HIDE DEF p
    <3> QED
      BY <1>2, <2>2, <2>3, <2>4, <2>5, LaunchedTurn
  <2>7. Turn(w, Launched(p, e, r), e, r)
    <3> HIDE DEF p
    <3> QED
      BY <1>2, <2>6, TurnChain
  <2>8. Sound(Launched(p, e, r), lost) /\ Steps(w, Launched(p, e, r), e)
    BY <2>6, <2>7, TurnSound
  <2>9. Owned(p, e, r) \in BOOLEAN
    BY DEF Owned
  <2> QED
    BY <2>1, <2>8, <2>9
<1> QED
  BY <1>3, <1>4, <1>5

\* The recursive function of the drain exists.
DrainForm(g, b, e, q, n) == [i \in 0..n |-> IF i = 0 THEN b ELSE DrainStep(g[i - 1], e, q[i])]

\* The function drainQueue's rounds build exists.
LEMMA DrainExists ==
  ASSUME NEW b, NEW e, NEW q, NEW n \in Nat
  PROVE  \E g : g = DrainForm(g, b, e, q, n)
<1> USE DEF DrainForm
<1> DEFINE Bad == {k \in Nat : ~\E g : g = [i \in 0..k |-> IF i = 0 THEN b ELSE DrainStep(g[i - 1], e, q[i])]}
<1>1. SUFFICES ASSUME Bad # {} PROVE FALSE
  OBVIOUS
<1>2. PICK k \in Bad : \A j \in Bad : k <= j
  BY <1>1, HasLeast
<1>3. CASE k = 0
  <2> DEFINE g == [i \in 0..0 |-> b]
  <2>1. g = [i \in 0..0 |-> IF i = 0 THEN b ELSE DrainStep(g[i - 1], e, q[i])]
    OBVIOUS
  <2> QED
    BY <2>1, <1>3
<1>4. CASE k # 0
  <2>1. k \in Nat /\ k - 1 \in Nat /\ k - 1 \notin Bad
    BY <1>2, <1>4
  <2>2. PICK g : g = [i \in 0..(k - 1) |-> IF i = 0 THEN b ELSE DrainStep(g[i - 1], e, q[i])]
    BY <2>1
  <2> DEFINE h == [i \in 0..k |-> IF i = k THEN DrainStep(g[k - 1], e, q[k]) ELSE g[i]]
  <2>3. \A i \in 0..k : h[i] = IF i = 0 THEN b ELSE DrainStep(h[i - 1], e, q[i])
    BY <2>1, <2>2, <1>4
  <2>4. h = [i \in 0..k |-> IF i = 0 THEN b ELSE DrainStep(h[i - 1], e, q[i])]
    BY <2>3
  <2> QED
    BY <2>4
<1> QED
  BY <1>3, <1>4

\* drainQueue keeps the world sound.
LEMMA DrainedSound ==
  ASSUME NEW w, NEW e \in Engines, NEW lost \in BOOLEAN, Sound(w, lost), w.eng[e] # "absent"
  PROVE  Sound(Drained(w, e), lost) /\ Steps(w, Drained(w, e), e)
<1> DEFINE q == w.queue[e]
           n == Len(q)
           Fine(x) == /\ Sound(x.w, lost) /\ Steps(w, x.w, e)
                      /\ x.go \in BOOLEAN /\ x = [w |-> x.w, go |-> x.go]
<1>0. n \in Nat /\ \A i \in 1..n : q[i] \in Runs
  BY DEF Sound, Typed, Worlds
<1> HIDE DEF n
<1>1. CASE w.eng[e] = "down"
  BY <1>1, StepsNone DEF Drained
<1>2. CASE w.eng[e] # "down"
  <2> DEFINE b == [w |-> w, go |-> TRUE]
  <2>1. \E g : g = DrainForm(g, b, e, q, n)
    BY <1>0, DrainExists
  <2>2. \E g : g = [i \in 0..n |-> IF i = 0 THEN b ELSE DrainStep(g[i - 1], e, q[i])]
    BY <2>1 DEF DrainForm
  <2> DEFINE at == CHOOSE g : g = [i \in 0..n |-> IF i = 0 THEN b ELSE DrainStep(g[i - 1], e, q[i])]
  <2>3. Drained(w, e) = at[n].w
    BY <1>2 DEF Drained, DrainSteps, n
  <2>4. at = [i \in 0..n |-> IF i = 0 THEN b ELSE DrainStep(at[i - 1], e, q[i])]
    BY <2>2
  <2> HIDE DEF at
  <2>5. ASSUME NEW k \in 1..n, Fine(at[k - 1]) PROVE Fine(at[k])
    <3> DEFINE x == at[k - 1].w
               go == at[k - 1].go
               t == DrainStep([w |-> x, go |-> go], e, q[k])
    <3>1. q[k] \in Runs /\ k \in 0..n /\ k # 0
      BY <1>0
    <3>2. at[k - 1] = [w |-> x, go |-> go]
      BY <2>5
    <3>3. at[k] = DrainStep(at[k - 1], e, q[k])
      BY <2>4, <3>1
    <3>4. at[k] = t
      BY <3>2, <3>3, Zenon
    <3>5. Sound(x, lost) /\ Steps(w, x, e) /\ go \in BOOLEAN
      BY <2>5
    <3>6. x.eng[e] # "absent"
      BY <3>5 DEF Steps
    <3> HIDE DEF x, go
    <3>7. Sound(t.w, lost) /\ Steps(x, t.w, e) /\ t.go \in BOOLEAN /\ t = [w |-> t.w, go |-> t.go]
      BY <3>1, <3>5, <3>6, DrainStepSound
    <3>8. Steps(w, t.w, e)
      BY <3>5, <3>7, StepsChain
    <3> HIDE DEF t
    <3> QED
      BY <3>4, <3>7, <3>8
  <2>6. Fine(at[0])
    <3>1. at[0] = [w |-> w, go |-> TRUE]
      BY <1>0, <2>4
    <3> QED
      BY <3>1, StepsNone
  <2> HIDE DEF Fine
  <2> DEFINE Bad == {k \in 0..n : ~Fine(at[k])}
  <2>7. Bad = {}
    <3> SUFFICES ASSUME Bad # {} PROVE FALSE
      OBVIOUS
    <3>1. Bad \subseteq Nat
      BY <1>0
    <3>2. PICK k \in Bad : \A j \in Bad : k <= j
      BY <3>1, HasLeast
    <3>3. k # 0 /\ k \in 0..n
      BY <2>6, <3>2
    <3>4. k \in 1..n /\ k - 1 \in 0..n /\ ~(k <= k - 1)
      BY <1>0, <3>3
    <3>5. Fine(at[k - 1])
      BY <3>2, <3>4
    <3> QED
      BY <2>5, <3>2, <3>4, <3>5
  <2>8. Fine(at[n])
    BY <1>0, <2>7
  <2> QED
    BY <2>3, <2>8 DEF Fine
<1> QED
  BY <1>1, <1>2

\* finishRun with the draining behind it keeps the world sound.
LEMMA FinishSound ==
  ASSUME NEW w, NEW e \in Engines, NEW r \in Runs, NEW lost \in BOOLEAN, NEW st \in Terminal,
         Others(w, r, lost), Base(w, r), Clean(w, r, lost), w.eng[e] # "absent",
         w.row[r].own = e => Here(w, e, r), w.row[r].own # e => Full(w, r, lost)
  PROVE  Sound(Finish(w, e, r, st), lost) /\ Steps(w, Finish(w, e, r, st), e)
<1> DEFINE s == Settled(w, e, r, st)
<1>1. Turn(w, s, e, r) /\ Full(s, r, lost)
  BY SettledTurn DEF Others
<1>2. ~Here(w, e, r) => s = w
  BY DEF Settled
<1> HIDE DEF s
<1>3. Sound(s, lost) /\ Steps(w, s, e)
  BY <1>1, TurnOthers
<1>4. Sound(Drained(s, e), lost) /\ Steps(w, Drained(s, e), e)
  <2>1. s.eng[e] # "absent"
    BY <1>3 DEF Steps
  <2> QED
    BY <1>3, <2>1, DrainedSound, StepsChain
<1> QED
  BY <1>2, <1>3, <1>4 DEF Finish, s

\* failAttempt with the draining behind it keeps the world sound.
LEMMA FailSound ==
  ASSUME NEW w, NEW e \in Engines, NEW r \in Runs, NEW lost \in BOOLEAN,
         Others(w, r, lost), Base(w, r), Clean(w, r, lost), w.eng[e] # "absent",
         w.row[r].own = e => Here(w, e, r) /\ Spent(w, r), w.row[r].own # e => Full(w, r, lost)
  PROVE  Sound(Fail(w, e, r), lost) /\ Steps(w, Fail(w, e, r), e)
<1> DEFINE s == Failed(w, e, r)
<1>1. Turn(w, s, e, r) /\ Full(s, r, lost)
  BY FailedTurn DEF Others
<1>2. Fail(w, e, r) = Drained(s, e) \/ Fail(w, e, r) = s
  BY DEF Fail
<1> HIDE DEF s
<1>3. Sound(s, lost) /\ Steps(w, s, e)
  BY <1>1, TurnOthers
<1>4. Sound(Drained(s, e), lost) /\ Steps(w, Drained(s, e), e)
  <2>1. s.eng[e] # "absent"
    BY <1>3 DEF Steps
  <2> QED
    BY <1>3, <2>1, DrainedSound, StepsChain
<1> QED
  BY <1>2, <1>3, <1>4

\* launchAttempt with the draining behind it keeps the world sound.
LEMMA LaunchSound ==
  ASSUME NEW w, NEW e \in Engines, NEW r \in Runs, NEW lost \in BOOLEAN,
         Others(w, r, lost), Base(w, r), Clean(w, r, lost), w.eng[e] # "absent",
         w.row[r].own = e => Here(w, e, r) /\ Spent(w, r) /\ w.row[r].att < w.sched.tries,
         w.row[r].own # e => Full(w, r, lost)
  PROVE  Sound(Launch(w, e, r), lost) /\ Steps(w, Launch(w, e, r), e)
<1> DEFINE s == Launched(w, e, r)
<1>1. Turn(w, s, e, r) /\ Full(s, r, lost)
  BY LaunchedTurn DEF Others
<1>2. Launch(w, e, r) = Drained(s, e) \/ Launch(w, e, r) = s
  BY DEF Launch
<1> HIDE DEF s
<1>3. Sound(s, lost) /\ Steps(w, s, e)
  BY <1>1, TurnOthers
<1>4. Sound(Drained(s, e), lost) /\ Steps(w, Drained(s, e), e)
  <2>1. s.eng[e] # "absent"
    BY <1>3 DEF Steps
  <2> QED
    BY <1>3, <2>1, DrainedSound, StepsChain
<1> QED
  BY <1>2, <1>3, <1>4

\* An owner has an object that is at work.
LEMMA OwnerIsHere ==
  ASSUME NEW w, NEW e \in Engines, NEW r \in Runs, NEW lost, Typed(w), Full(w, r, lost), w.row[r].own = e
  PROVE  Here(w, e, r) /\ w.row[r].st \in Active /\ w.rt[e][r].ph = w.row[r].ph
<1>1. w.row[r].st \in Active
  BY OwnerIsActive DEF Full
<1> QED
  BY <1>1 DEF Full, Base, Counted, Phased, Here

-----------------------------------------------------------------------------
(* Runs without an owner *)

\* claimRun makes the engine the owner under a new epoch: no older object counts any
\* more.
LEMMA ClaimedTurn ==
  ASSUME NEW w, NEW e \in Engines, NEW r \in Runs, NEW lost \in BOOLEAN,
         Typed(w), Full(w, r, lost), w.row[r].st \in Active, ~Here(w, e, r), Claimable(w, e, r)
  PROVE  LET v == Claimed(w, e, r) IN
         /\ Turn(w, v, e, r) /\ Base(v, r) /\ Clean(v, r, lost)
         /\ v.row[r].own = e /\ v.row[r].st = w.row[r].st /\ v.row[r].ph = w.row[r].ph
         /\ v.row[r].att = w.row[r].att /\ v.row[r].wf = w.row[r].wf /\ v.work = w.work
         /\ v.rt[e][r].map = 0
<1>1. w.row[r].own # e
  BY OwnerIsHere
<1> DEFINE ep == w.row[r].ep + 1
           x == w.row[r]
           ro == [x EXCEPT !.own = e, !.ep = ep, !.lapsed = FALSE]
           ob == [NoRun EXCEPT !.ep = ep]
           v == [w EXCEPT !.row[r] = ro, !.rt[e][r] = ob]
<1>2. Claimed(w, e, r) = v
  BY <1>1 DEF Claimed
<1>3. w.row[r] \in Rows(w.sched.tries) /\ w.sched.tries \in Nat
  BY TypedRun DEF Scheds
<1>4. ep \in Nat /\ w.row[r].ep \in Nat
  BY <1>3 DEF Rows
<1> HIDE DEF ep
<1>5. /\ ro \in Rows(w.sched.tries) /\ ro.own = e /\ ro.ep = ep /\ ro.lapsed = FALSE /\ ro.st = x.st
      /\ ro.ph = x.ph /\ ro.att = x.att /\ ro.wf = x.wf /\ ro.acked = x.acked /\ ro.tick = x.tick
      /\ ro.early = x.early
  <2> HIDE DEF x
  <2>1. x \in Rows(w.sched.tries)
    BY <1>3 DEF x
  <2>2. e \in Engines \cup {None, Gone}
    OBVIOUS
  <2>3. ro \in Rows(w.sched.tries)
    BY <1>4, <2>1, <2>2 DEF Rows
  <2> QED
    BY <2>1, <2>3 DEF Rows
<1>6. ob \in Objs(w.sched.tries) /\ ob.ep = ep /\ ob.ph = "none" /\ ob.map = 0
  BY <1>3, <1>4 DEF Objs, NoRun, Phases
<1>7. Sets(w, v, e, r, ro, w.work[r], ob)
  BY <1>5, <1>6, SetsBoth
<1>8. v.work = w.work
  BY DEF Typed, Worlds
<1> HIDE DEF v, ro, ob
<1>9. /\ Typed(v) /\ Only(w, v, e, r) /\ v.sched = w.sched /\ v.eng = w.eng /\ v.blamed = w.blamed
      /\ v.row[r] = ro /\ v.rt[e][r] = ob /\ v.told = w.told
      /\ \A f \in Engines : f # e => v.rt[f][r] = w.rt[f][r]
  BY <1>7 DEF Sets, Only
<1>10. Slots(v) = Slots(w) /\ Doings(v, r) = Doings(w, r)
  BY <1>8, <1>9 DEF Slots, Doings
<1>11. w.row[r].st # "none" /\ w.row[r].st \notin Terminal
  BY DEF Active, Terminal
<1>12. Idle(v, r) /\ Counted(v, r) /\ Ahead(v, r)
  BY <1>5, <1>8, <1>9, <1>10, <1>11 DEF Full, Base, Idle, Counted, Ahead
<1>13. Epochs(v, r)
  <2> SUFFICES ASSUME NEW f \in Engines, f # e, Here(v, f, r) PROVE v.rt[f][r].ep < v.row[r].ep
    BY <1>5, <1>6, <1>9 DEF Epochs
  <2>1. Here(w, f, r) /\ v.rt[f][r] = w.rt[f][r]
    BY <1>9 DEF Here
  <2>2. w.rt[f][r].ep \in Nat
    BY TypedRun DEF Objs
  <2>3. w.rt[f][r].ep <= w.row[r].ep
    BY <1>4, <2>1, <2>2 DEF Full, Base, Epochs
  <2> QED
    BY <1>4, <1>5, <1>9, <2>1, <2>2, <2>3 DEF ep
<1>14. Single(v, r)
  BY <1>5, <1>9, <1>10 DEF Full, Base, Single
<1>15. Named(v, r)
  BY <1>5, <1>6, <1>8, <1>9, ZenonT(60) DEF Full, Base, Named, Begun, Here
<1>16. Kinds(v, r) /\ Informed(v, r)
  BY <1>5, <1>8, <1>9, <1>10 DEF Full, Base, Kinds, Informed
<1>17. Clean(v, r, lost)
  <2> SUFFICES ASSUME ~lost, NEW f \in Engines, f # e, Here(w, f, r) PROVE FALSE
    BY <1>5, <1>6, <1>9 DEF Clean, Here
  <2>1. w.row[r].own = f /\ ~w.row[r].lapsed
    BY DEF Full, Clean
  <2>2. w.row[r].own \in {None, e}
    BY <2>1 DEF Claimable
  <2> QED
    BY <2>1, <2>2, SchedulerAssumption
<1>18. Kept(w, v, r)
  BY <1>5, <1>8, <1>9, <1>11 DEF Kept, Lasts
<1> QED
  BY <1>2, <1>5, <1>6, <1>8, <1>9, <1>12, <1>13, <1>14, <1>15, <1>16, <1>17, <1>18 DEF Turn, Base

\* An object made for a claimed run carries the row's epoch.
LEMMA ObjectTurn ==
  ASSUME NEW w, NEW e \in Engines, NEW r \in Runs, NEW lost \in BOOLEAN, NEW ph, ph \in Phases \ {"none"},
         NEW a, a \in 0..w.sched.tries + 1, a # 0 => Begun(w, r, a),
         Typed(w), Base(w, r), Clean(w, r, lost), w.row[r].own = e
  PROVE  LET v == Object(w, e, r, ph, a) IN
         /\ Turn(w, v, e, r) /\ Base(v, r) /\ Clean(v, r, lost) /\ Here(v, e, r)
         /\ v.rt[e][r].ph = ph /\ v.rt[e][r].map = a /\ v.row = w.row /\ v.work = w.work /\ v.queue = w.queue
<1> DEFINE ob == NewObj(w.rt[e][r], ph, a)
           v == [w EXCEPT !.rt[e][r] = ob]
<1>1. Object(w, e, r, ph, a) = v
  BY DEF Object, NewObj
<1>2. w.rt[e][r] \in Objs(w.sched.tries) /\ w.sched.tries \in Nat
  BY TypedRun DEF Scheds
<1>3. ob \in Objs(w.sched.tries) /\ ob.ph = ph /\ ob.map = a /\ ob.ep = w.rt[e][r].ep
  BY <1>2, ObjOf
<1>4. Sets(w, v, e, r, w.row[r], w.work[r], ob)
  BY <1>3, SetsObj
<1>5. v.row = w.row /\ v.work = w.work /\ v.queue = w.queue
  BY DEF Typed, Worlds
<1> HIDE DEF v, ob
<1>6. /\ Typed(v) /\ Only(w, v, e, r) /\ v.sched = w.sched /\ v.eng = w.eng /\ v.blamed = w.blamed
      /\ v.rt[e][r] = ob /\ v.told = w.told /\ \A f \in Engines : f # e => v.rt[f][r] = w.rt[f][r]
  BY <1>4 DEF Sets, Only
<1>7. Slots(v) = Slots(w) /\ Doings(v, r) = Doings(w, r)
  BY <1>5, <1>6 DEF Slots, Doings
<1>8. w.row[r].st \in Active
  BY OwnerIsActive
<1>9. Idle(v, r) /\ Counted(v, r) /\ Ahead(v, r)
  BY <1>5, <1>6, <1>7, <1>8 DEF Base, Idle, Counted, Ahead, Active
<1>10. Epochs(v, r)
  BY <1>3, <1>5, <1>6 DEF Base, Epochs, Here
<1>11. Single(v, r)
  BY <1>5, <1>6, <1>7 DEF Base, Single
<1>12. Named(v, r)
  BY <1>3, <1>5, <1>6 DEF Base, Named, Begun, Here
<1>13. Kinds(v, r) /\ Informed(v, r)
  BY <1>5, <1>6, <1>7 DEF Base, Kinds, Informed
<1>14. Clean(v, r, lost) /\ Here(v, e, r)
  BY <1>3, <1>5, <1>6 DEF Clean, Here
<1>15. Kept(w, v, r)
  BY <1>5 DEF Kept, Lasts
<1> QED
  BY <1>1, <1>3, <1>5, <1>6, <1>9, <1>10, <1>11, <1>12, <1>13, <1>14, <1>15 DEF Turn, Base

\* The workflow of a run has begun, and is the only execution under way.
LEMMA WorkflowOf ==
  ASSUME NEW w, NEW r \in Runs, Typed(w), Base(w, r), w.row[r].st \in Active, Workflow(w, r) # 0
  PROVE  LET a == Workflow(w, r) IN
         /\ w.sched.kind = "workflow" /\ a \in Slots(w)
         /\ w.work[r][a].st \notin {"none", "creating", "gone"}
         /\ r \in w.blamed \/ \A b \in Doings(w, r) : b = a
<1> DEFINE a == Workflow(w, r)
           known == {b \in DOMAIN w.work[r] : w.work[r][b].st # "none"}
<1>1. w.sched.kind = "workflow"
  BY DEF Workflow
<1>2. w.sched.tries \in Nat /\ w.row[r] \in Rows(w.sched.tries) /\ w.work[r] \in [Slots(w) -> Works]
  BY DEF Typed, Worlds, Scheds, Slots
<1>3. w.row[r].wf \in 0..w.sched.tries + 1 /\ w.row[r].att \in Nat
  BY <1>2 DEF Rows
<1>4. \A b \in Slots(w) : w.work[r][b].st \notin {"creating", "gone"}
  BY <1>1 DEF Base, Kinds
<1>5. CASE w.row[r].wf # 0
  <2>1. a = w.row[r].wf /\ a \in Slots(w)
    BY <1>1, <1>2, <1>3, <1>5 DEF Workflow, Slots
  <2>2. Begun(w, r, a)
    BY <1>5, <2>1 DEF Base, Named
  <2>3. r \in w.blamed \/ \A b \in Doings(w, r) : b = a
    BY <1>5, <2>1 DEF Base, Single
  <2> QED
    BY <1>1, <1>4, <2>1, <2>2, <2>3 DEF Begun
<1>6. CASE w.row[r].wf = 0
  <2>1. a = Max(known) /\ known # {}
    BY <1>1, <1>6 DEF Workflow
  <2>2. known = {b \in Slots(w) : w.work[r][b].st # "none"}
    BY <1>2
  <2>3. known \subseteq 0..w.sched.tries + 1
    BY <1>2, <2>2 DEF Slots
  <2>4. w.sched.tries + 1 \in Nat
    BY <1>2
  <2> HIDE DEF known
  <2>5. a \in known /\ \A b \in known : b <= a
    BY <2>1, <2>3, <2>4, LargestOf
  <2>6. a \in Slots(w) /\ w.work[r][a].st # "none"
    BY <2>2, <2>5
  <2>7. a <= w.row[r].att
    <3>1. w.row[r].st \notin Terminal
      BY DEF Active, Terminal
    <3>2. w.work[r][a] # NoWork
      BY <2>6 DEF NoWork
    <3>3. a \in Nat
      BY <1>2, <2>6 DEF Slots
    <3> QED
      BY <1>3, <2>6, <3>1, <3>2, <3>3 DEF Base, Ahead
  <2>8. ASSUME r \notin w.blamed, NEW b \in Doings(w, r) PROVE b = a
    <3>1. b = w.row[r].att
      BY <2>8 DEF Base, Single
    <3>2. b \in known
      BY <2>2, <2>8 DEF Doings, Doing
    <3>3. a \in Nat
      BY <1>2, <2>6 DEF Slots
    <3> QED
      BY <1>3, <2>5, <2>7, <3>1, <3>2, <3>3
  <2> QED
    BY <1>1, <1>4, <2>6, <2>8
<1> QED
  BY <1>5, <1>6

\* A claimed run that is ended at once ends sound.
LEMMA ClosedTurn ==
  ASSUME NEW w, NEW e \in Engines, NEW r \in Runs, NEW lost \in BOOLEAN, NEW st \in Terminal,
         Typed(w), Base(w, r), Clean(w, r, lost), w.row[r].own = e, w.eng[e] # "absent"
  PROVE  Turn(w, Closed(w, e, r, st), e, r) /\ Full(Closed(w, e, r, st), r, lost)
<1> DEFINE v == Object(w, e, r, "running", 0)
<1>1. w.sched.tries \in Nat
  BY TypedRun DEF Scheds
<1>2. "running" \in Phases \ {"none"} /\ 0 \in 0..w.sched.tries + 1
  BY <1>1 DEF Phases
<1>3. Turn(w, v, e, r) /\ Base(v, r) /\ Clean(v, r, lost) /\ Here(v, e, r) /\ v.row = w.row
  BY <1>2, ObjectTurn
<1>4. Closed(w, e, r, st) = Settled(v, e, r, st)
  BY DEF Closed
<1> HIDE DEF v
<1>5. Typed(v) /\ v.eng = w.eng
  BY <1>3 DEF Turn, Only
<1>6. Turn(v, Settled(v, e, r, st), e, r) /\ Full(Settled(v, e, r, st), r, lost)
  BY <1>3, <1>5, SettledTurn
<1> QED
  BY <1>3, <1>4, <1>6, TurnChain

\* A run held back is put back into the queue.
LEMMA QueuedBack ==
  ASSUME NEW w, NEW e \in Engines, NEW r \in Runs, NEW lost \in BOOLEAN,
         Typed(w), Base(w, r), Clean(w, r, lost), w.row[r].own = e, w.row[r].ph = "queued",
         w.rt[e][r].ph = "queued", w.sched.kind = "dispatch"
  PROVE  LET v == [w EXCEPT !.queue[e] = Append(@, r)] IN Turn(w, v, e, r) /\ Full(v, r, lost)
<1> DEFINE v == [w EXCEPT !.queue[e] = Append(@, r)]
<1>1. w.queue[e] \in Seq(Runs)
  BY DEF Typed, Worlds
<1>2. Append(w.queue[e], r) \in Seq(Runs) /\ Range(Append(w.queue[e], r)) = Range(w.queue[e]) \cup {r}
  BY <1>1, RangeAppend
<1>3. Typed(v)
  BY <1>2 DEF Typed, Worlds
<1>4. /\ v.sched = w.sched /\ v.eng = w.eng /\ v.timer = w.timer /\ v.cut = w.cut /\ v.blamed = w.blamed
      /\ v.row = w.row /\ v.work = w.work /\ v.told = w.told /\ v.rt = w.rt
      /\ v.queue[e] = Append(w.queue[e], r)
      /\ \A f \in Engines : f # e => v.queue[f] = w.queue[f]
  BY DEF Typed, Worlds
<1> HIDE DEF v
<1>5. Only(w, v, e, r) /\ Kept(w, v, r)
  BY <1>2, <1>4 DEF Only, Kept, Lasts
<1>6. Slots(v) = Slots(w) /\ Doings(v, r) = Doings(w, r)
  BY <1>4 DEF Slots, Doings
<1>7. Idle(v, r) /\ Counted(v, r)
  BY <1>4, <1>6 DEF Base, Idle, Counted, Here
<1>8. Ahead(v, r) /\ Epochs(v, r)
  BY <1>4, <1>6 DEF Base, Ahead, Epochs, Here
<1>9. Single(v, r) /\ Named(v, r)
  BY <1>4, <1>6 DEF Base, Single, Named, Begun, Here
<1>10. Kinds(v, r) /\ Informed(v, r)
  BY <1>4, <1>6 DEF Base, Kinds, Informed
<1>11. Phased(v, r) /\ Clean(v, r, lost)
  BY <1>4 DEF Phased, Clean, Here
<1>12. Goes(v, r, lost)
  BY <1>2, <1>4 DEF Goes, Heeds
<1> QED
  BY <1>3, <1>5, <1>7, <1>8, <1>9, <1>10, <1>11, <1>12 DEF Turn, Full, Base, v

\* Each way a run is taken over (queued, dispatched, waiting for a retry, with or without
\* a workflow) keeps the world sound.
LEMMA AdoptedSound ==
  ASSUME NEW w, NEW e \in Engines, NEW r \in Runs, NEW lost \in BOOLEAN, w.eng[e] # "absent",
         Sound(w, lost), w.row[r].st \in Active, ~Here(w, e, r), Claimable(w, e, r)
  PROVE  Sound(Adopted(w, e, r), lost) /\ Steps(w, Adopted(w, e, r), e)
<1> DEFINE c == Claimed(w, e, r)
           a == Workflow(c, r)
           st == c.work[r][a].st
<1>1. Typed(w) /\ Full(w, r, lost)
  BY DEF Sound
<1>2. /\ Turn(w, c, e, r) /\ Base(c, r) /\ Clean(c, r, lost)
      /\ c.row[r].own = e /\ c.row[r].st = w.row[r].st /\ c.row[r].ph = w.row[r].ph
  BY <1>1, ClaimedTurn
<1> HIDE DEF c
<1>3. Typed(c) /\ c.eng = w.eng /\ c.sched = w.sched /\ c.sched.tries \in Nat
      /\ c.sched.kind \in {"session", "workflow", "dispatch"}
  <2>1. Typed(c) /\ c.eng = w.eng /\ c.sched = w.sched
    BY <1>2 DEF Turn, Only
  <2>2. c.sched \in Scheds
    BY <2>1, TypedRun
  <2> QED
    BY <2>1, <2>2 DEF Scheds
<1>4. /\ 0 \in 0..c.sched.tries + 1
      /\ {"running", "queued", "retry_wait"} \subseteq Phases \ {"none"}
      /\ c.row[r].st \in Active
  BY <1>2, <1>3 DEF Phases
\* In most cases one turn does it.
<1>5. ASSUME NEW v, Adopted(w, e, r) = v, Turn(c, v, e, r), Full(v, r, lost)
      PROVE  Sound(Adopted(w, e, r), lost) /\ Steps(w, Adopted(w, e, r), e)
  <2>1. Turn(w, v, e, r)
    BY <1>2, <1>5, TurnChain
  <2> QED
    BY <1>5, <2>1, TurnSound
<1>6. CASE c.sched.kind = "dispatch" /\ c.row[r].ph = "queued"
  <2> DEFINE x == Object(c, e, r, "queued", 0)
             v == [x EXCEPT !.queue[e] = Append(@, r)]
  <2>1. Adopted(w, e, r) = v
    BY <1>6 DEF Adopted, c
  <2>2. /\ Turn(c, x, e, r) /\ Base(x, r) /\ Clean(x, r, lost) /\ x.rt[e][r].ph = "queued" /\ x.row = c.row
    BY <1>2, <1>3, <1>4, ObjectTurn
  <2> HIDE DEF x
  <2>3. Typed(x) /\ x.sched = c.sched
    BY <2>2 DEF Turn, Only
  <2>4. x.row[r].own = e /\ x.row[r].ph = "queued" /\ x.sched.kind = "dispatch"
    BY <1>2, <1>6, <2>2, <2>3
  <2>5. Turn(x, v, e, r) /\ Full(v, r, lost)
    BY <2>2, <2>3, <2>4, QueuedBack, SMTT(40)
  <2> HIDE DEF v
  <2>6. Turn(c, v, e, r)
    BY <2>2, <2>5, TurnChain
  <2> QED
    BY <1>5, <2>1, <2>5, <2>6
<1>7. CASE c.sched.kind = "dispatch" /\ c.row[r].ph # "queued"
  <2> DEFINE x == Object(c, e, r, "running", 0)
             v == Running(x, e, r, 0)
  <2>1. Adopted(w, e, r) = v
    BY <1>7 DEF Adopted, c
  <2>2. /\ Turn(c, x, e, r) /\ Base(x, r) /\ Clean(x, r, lost) /\ x.row = c.row
    BY <1>2, <1>3, <1>4, ObjectTurn
  <2> HIDE DEF x
  <2>3. Typed(x) /\ x.sched = c.sched
    BY <2>2 DEF Turn, Only
  <2>4. Turn(x, v, e, r) /\ Full(v, r, lost)
    BY <1>2, <1>4, <1>7, <2>2, <2>3, RunningTurn
  <2> HIDE DEF v
  <2>5. Turn(c, v, e, r)
    BY <2>2, <2>4, TurnChain
  <2> QED
    BY <1>5, <2>1, <2>4, <2>5
<1>8. CASE c.sched.kind # "dispatch" /\ c.row[r].ph = "retry_wait"
  <2> DEFINE x == Object(c, e, r, "retry_wait", 0)
  <2>1. Adopted(w, e, r) = x
    BY <1>8 DEF Adopted, c
  <2>2. /\ Turn(c, x, e, r) /\ Base(x, r) /\ Clean(x, r, lost) /\ x.rt[e][r].ph = "retry_wait" /\ x.row = c.row
    BY <1>2, <1>3, <1>4, ObjectTurn
  <2> HIDE DEF x
  <2>3. Phased(x, r) /\ Goes(x, r, lost)
    BY <1>2, <1>8, <2>2 DEF Phased, Goes, Heeds
  <2> QED
    BY <1>5, <2>1, <2>2, <2>3 DEF Full
<1>9. CASE c.sched.kind # "dispatch" /\ c.row[r].ph # "retry_wait" /\ a # 0
  <2>1. /\ c.sched.kind = "workflow" /\ a \in Slots(c) /\ st \notin {"none", "creating", "gone"}
        /\ r \in c.blamed \/ \A b \in Doings(c, r) : b = a
    BY <1>2, <1>3, <1>4, <1>9, WorkflowOf
  <2>2. a \in 0..c.sched.tries + 1 /\ st \in WorkStates
    <3>1. c.work[r] \in [Slots(c) -> Works]
      BY <1>3, TypedRun
    <3> QED
      BY <1>3, <2>1, <3>1 DEF Slots, Works
  <2>3. CASE st \in Doing
    <3>1. Adopted(w, e, r) = Running(c, e, r, a)
      <4>1. st # "failed"
        BY <2>3 DEF Doing
      <4> QED
        BY <1>9, <2>3, <4>1 DEF Adopted, c
    <3>2. Turn(c, Running(c, e, r, a), e, r) /\ Full(Running(c, e, r, a), r, lost)
      <4>1. st = "alive"
        BY <2>1, <2>3 DEF Doing
      <4> HIDE DEF a
      <4> QED
        BY <1>2, <1>3, <1>9, <2>1, <2>2, <4>1, RunningTurn
    <3> QED
      BY <1>5, <3>1, <3>2
  <2>4. CASE st = "failed"
    <3> DEFINE x == Object(c, e, r, "running", a)
    <3>1. Adopted(w, e, r) = Fail(x, e, r)
      <4>1. st \notin Doing
        BY <2>4 DEF Doing
      <4> QED
        BY <1>9, <2>4, <4>1 DEF Adopted, c
    <3>2. /\ Turn(c, x, e, r) /\ Base(x, r) /\ Clean(x, r, lost) /\ Here(x, e, r) /\ x.row = c.row /\ x.work = c.work
      <4>1. Begun(c, r, a)
        BY <2>1 DEF Begun
      <4> HIDE DEF a
      <4> QED
        BY <1>2, <1>3, <1>4, <2>2, <4>1, ObjectTurn
    <3> HIDE DEF x
    <3>3. x.eng = w.eng /\ Slots(x) = Slots(c) /\ x.blamed = c.blamed /\ Turn(w, x, e, r)
      BY <1>2, <1>3, <3>2, TurnChain DEF Turn, Only, Slots
    <3>4. Spent(x, r)
      BY <2>1, <2>4, <3>2, <3>3 DEF Spent, Doings, Doing
    <3>5. Others(x, r, lost) /\ \A q \in Runs : q # r => Kept(w, x, q)
      BY <3>3, OtherRuns DEF Sound, Others, Turn
    <3>6. Sound(Fail(x, e, r), lost) /\ Steps(x, Fail(x, e, r), e)
      BY <1>2, <3>2, <3>3, <3>4, <3>5, FailSound
    <3>7. Steps(w, x, e)
      BY <3>3, <3>5 DEF Steps, Turn, Only
    <3> QED
      BY <3>1, <3>6, <3>7, StepsChain
  <2>5. CASE st \notin Doing /\ st # "failed"
    <3>1. Adopted(w, e, r) = Closed(c, e, r, Outcome(st))
      BY <1>9, <2>5 DEF Adopted, c
    <3>2. Outcome(st) \in Terminal
      BY <2>1, <2>2, <2>5 DEF Outcome, Terminal, WorkStates, Doing
    <3>3. Turn(c, Closed(c, e, r, Outcome(st)), e, r) /\ Full(Closed(c, e, r, Outcome(st)), r, lost)
      <4> HIDE DEF st
      <4> QED
        BY <1>2, <1>3, <3>2, ClosedTurn
    <3> QED
      BY <1>5, <3>1, <3>3
  <2> QED
    BY <2>3, <2>4, <2>5
<1>10. CASE c.sched.kind # "dispatch" /\ c.row[r].ph # "retry_wait" /\ a = 0
  <2> DEFINE o == IF c.row[r].st = "running" THEN "failed" ELSE "cancelled"
  <2>1. Adopted(w, e, r) = Closed(c, e, r, o)
    BY <1>10 DEF Adopted, c
  <2>2. o \in Terminal
    BY DEF Terminal
  <2> HIDE DEF o
  <2>3. Turn(c, Closed(c, e, r, o), e, r) /\ Full(Closed(c, e, r, o), r, lost)
    BY <1>2, <1>3, <2>2, ClosedTurn
  <2> QED
    BY <1>5, <2>1, <2>3
<1> QED
  BY <1>6, <1>7, <1>8, <1>9, <1>10

\* One row of reconcileOrphanedRuns keeps the world sound.
LEMMA ReconcileStepSound ==
  ASSUME NEW w, NEW e \in Engines, NEW r \in Runs, NEW lost \in BOOLEAN, w.eng[e] # "absent", Sound(w, lost)
  PROVE  Sound(ReconcileStep(w, e, r), lost) /\ Steps(w, ReconcileStep(w, e, r), e)
<1>1. ReconcileStep(w, e, r) = w \/ /\ ReconcileStep(w, e, r) = Adopted(w, e, r)
                                    /\ w.row[r].st \in Active /\ ~Here(w, e, r) /\ Claimable(w, e, r)
  BY DEF ReconcileStep, ActiveRows
<1> QED
  BY <1>1, AdoptedSound, StepsNone

ReconcileForm(g, b, e, n) == [i \in 0..n |-> IF i = 0 THEN b ELSE ReconcileStep(g[i - 1], e, i)]

\* The function reconcileOrphanedRuns' rows build exists.
LEMMA ReconcileExists ==
  ASSUME NEW b, NEW e, NEW n \in Nat
  PROVE  \E g : g = ReconcileForm(g, b, e, n)
<1> DEFINE Bad == {k \in Nat : ~\E g : g = ReconcileForm(g, b, e, k)}
<1>1. SUFFICES ASSUME Bad # {} PROVE FALSE
  OBVIOUS
<1>2. PICK k \in Bad : \A j \in Bad : k <= j
  BY <1>1, HasLeast
<1>3. k # 0
  <2> DEFINE g == [i \in 0..0 |-> b]
  <2>1. g = ReconcileForm(g, b, e, 0)
    BY DEF ReconcileForm
  <2> HIDE DEF g
  <2>2. 0 \notin Bad
    BY <2>1
  <2> QED
    BY <1>2, <2>2
<1>4. k \in Nat /\ k - 1 \in Nat /\ k - 1 \notin Bad
  BY <1>2, <1>3
<1>5. PICK g : g = ReconcileForm(g, b, e, k - 1)
  BY <1>4
<1> DEFINE h == [i \in 0..k |-> IF i = k THEN ReconcileStep(g[k - 1], e, k) ELSE g[i]]
<1>6. g = [i \in 0..(k - 1) |-> IF i = 0 THEN b ELSE ReconcileStep(g[i - 1], e, i)]
  BY <1>5 DEF ReconcileForm
<1>7. \A i \in 0..k : h[i] = IF i = 0 THEN b ELSE ReconcileStep(h[i - 1], e, i)
  BY <1>3, <1>4, <1>6
<1>8. h = ReconcileForm(h, b, e, k)
  BY <1>7 DEF ReconcileForm
<1> HIDE DEF h
<1> QED
  BY <1>2, <1>8

\* reconcileOrphanedRuns keeps the world sound.
LEMMA ReconciledSound ==
  ASSUME NEW w, NEW e \in Engines, NEW lost \in BOOLEAN, Sound(w, lost), w.eng[e] # "absent"
  PROVE  Sound(Reconciled(w, e), lost) /\ Steps(w, Reconciled(w, e), e)
<1> DEFINE n == MaxRuns
           Fine(x) == Sound(x, lost) /\ Steps(w, x, e)
<1>0. n \in Nat /\ 1..n = Runs
  BY SchedulerAssumption DEF Runs
<1>1. \E g : g = ReconcileForm(g, w, e, n)
  BY <1>0, ReconcileExists
<1>2. \E g : g = [i \in 0..n |-> IF i = 0 THEN w ELSE ReconcileStep(g[i - 1], e, i)]
  BY <1>1 DEF ReconcileForm
<1> DEFINE at == CHOOSE g : g = [i \in 0..n |-> IF i = 0 THEN w ELSE ReconcileStep(g[i - 1], e, i)]
<1>3. Reconciled(w, e) = Drained(at[n], e)
  BY DEF Reconciled, ReconcileSteps
<1>4. at = [i \in 0..n |-> IF i = 0 THEN w ELSE ReconcileStep(at[i - 1], e, i)]
  BY <1>2
<1> HIDE DEF at, n
<1>5. ASSUME NEW k \in 1..n, Fine(at[k - 1]) PROVE Fine(at[k])
  <2> DEFINE x == at[k - 1]
  <2>1. k \in Runs /\ k \in 0..n /\ k # 0
    BY <1>0
  <2>2. at[k] = ReconcileStep(x, e, k)
    BY <1>4, <2>1
  <2>3. Sound(x, lost) /\ Steps(w, x, e)
    BY <1>5
  <2>4. x.eng[e] # "absent"
    BY <2>3 DEF Steps
  <2> HIDE DEF x
  <2>5. Sound(ReconcileStep(x, e, k), lost) /\ Steps(x, ReconcileStep(x, e, k), e)
    BY <2>1, <2>3, <2>4, ReconcileStepSound
  <2>6. Steps(w, ReconcileStep(x, e, k), e)
    BY <2>3, <2>5, StepsChain
  <2> QED
    BY <2>2, <2>5, <2>6
<1>6. Fine(at[0])
  <2>1. at[0] = w
    BY <1>0, <1>4
  <2> QED
    BY <2>1, StepsNone
<1> HIDE DEF Fine
<1> DEFINE Bad == {k \in 0..n : ~Fine(at[k])}
<1>7. Bad = {}
  <2> SUFFICES ASSUME Bad # {} PROVE FALSE
    OBVIOUS
  <2>1. Bad \subseteq Nat
    BY <1>0
  <2>2. PICK k \in Bad : \A j \in Bad : k <= j
    BY <2>1, HasLeast
  <2>3. k # 0 /\ k \in 0..n
    BY <1>6, <2>2
  <2>4. k \in 1..n /\ k - 1 \in 0..n /\ ~(k <= k - 1)
    BY <1>0, <2>3
  <2>5. Fine(at[k - 1])
    BY <2>2, <2>4
  <2> QED
    BY <1>5, <2>2, <2>4, <2>5
<1>8. Sound(at[n], lost) /\ Steps(w, at[n], e)
  BY <1>0, <1>7 DEF Fine
<1>9. at[n].eng[e] # "absent"
  BY <1>8 DEF Steps
<1> QED
  BY <1>3, <1>8, <1>9, DrainedSound, StepsChain

-----------------------------------------------------------------------------
(* Steps that concern all runs *)

\* A run of which nothing changed but what the server knows of it.
LEMMA SameRun ==
  ASSUME NEW w, NEW v, NEW q \in Runs, NEW lost,
         v.sched.kind = w.sched.kind, v.sched.tries = w.sched.tries, q \in w.blamed => q \in v.blamed,
         v.row[q] = w.row[q], v.work[q] = w.work[q],
         \A f \in Engines : /\ v.rt[f][q] = w.rt[f][q]
                            /\ w.row[q].own = f /\ q \in Range(w.queue[f]) => q \in Range(v.queue[f]),
         Full(w, q, lost), Informed(v, q)
  PROVE  Full(v, q, lost)
<1>0. Base(w, q)
  BY DEF Full
<1>1. Slots(v) = Slots(w) /\ Doings(v, q) = Doings(w, q)
  BY DEF Slots, Doings
<1>3. Idle(v, q)
  BY <1>0, <1>1 DEF Base, Idle, Here
<1>4. Counted(v, q) /\ Ahead(v, q)
  BY <1>0, <1>1 DEF Base, Counted, Ahead
<1>5. Epochs(v, q) /\ Single(v, q)
  BY <1>0, <1>1 DEF Base, Single, Epochs, Here
<1>6. Named(v, q)
  BY <1>0 DEF Base, Named, Begun, Here
<1>7. Kinds(v, q)
  BY <1>0, <1>1 DEF Base, Kinds
<1>8. Phased(v, q) /\ Clean(v, q, lost)
  BY DEF Full, Phased, Clean, Here
<1>9. Goes(v, q, lost)
  <2> SUFFICES ASSUME NEW f \in Engines, w.row[q].own = f, Heeds(w, f, q, lost) PROVE Heeds(v, f, q, lost)
    BY DEF Full, Goes
  <2> QED
    BY <1>1 DEF Heeds
<1> QED
  BY <1>3, <1>4, <1>5, <1>6, <1>7, <1>8, <1>9 DEF Full, Base

\* An engine disturbed by a lost lease asks less of its runs.
LEMMA LostStill ==
  ASSUME NEW w, NEW q, NEW lost \in BOOLEAN, Full(w, q, lost)
  PROVE  Full(w, q, TRUE)
BY DEF Full, Clean, Goes, Heeds

\* Several runs of an engine go their own ways.
LEMMA EachSound ==
  ASSUME NEW w, NEW e \in Engines, NEW v, NEW S, S \subseteq Runs, DOMAIN v = S, NEW lost \in BOOLEAN, Sound(w, lost),
         \A r \in S : /\ Turn(w, v[r], e, r) /\ Full(v[r], r, lost)
                      /\ Here(v[r], e, r) /\ r \in Range(v[r].queue[e]) => r \in Range(w.queue[e])
  PROVE  LET u == Each(w, e, v) IN
         /\ Sound(u, lost) /\ Steps(w, u, e)
         /\ \A r \in S : u.row[r] = v[r].row[r] /\ u.rt[e][r] = v[r].rt[e][r]
         /\ \A r \in Runs \ S : u.rt[e][r] = w.rt[e][r]
<1> DEFINE K == {r \in Runs : r \in S => Here(v[r], e, r)}
           ro == [r \in Runs |-> IF r \in S THEN v[r].row[r] ELSE w.row[r]]
           wo == [r \in Runs |-> IF r \in S THEN v[r].work[r] ELSE w.work[r]]
           ob == [r \in Runs |-> IF r \in S THEN v[r].rt[e][r] ELSE w.rt[e][r]]
           qu == Keep(w.queue[e], K)
           to == w.told \cup UNION {v[r].told : r \in S}
           u == [w EXCEPT !.row = ro, !.work = wo, !.rt[e] = ob, !.queue[e] = qu, !.told = to]
<1>0. Typed(w) /\ \A r \in S : Typed(v[r]) /\ v[r].sched = w.sched
  BY DEF Sound, Turn, Only
<1>1. Each(w, e, v) = u
  BY DEF Each
<1>2. qu \in Seq(Runs) /\ Range(qu) = Range(w.queue[e]) \cap K
  <2>1. w.queue[e] \in Seq(Runs)
    BY <1>0 DEF Typed, Worlds
  <2> QED
    BY <2>1, KeepRange
<1>3. ro \in [Runs -> Rows(w.sched.tries)] /\ wo \in [Runs -> [Slots(w) -> Works]]
      /\ ob \in [Runs -> Objs(w.sched.tries)]
  <2>1. \A r \in Runs : w.row[r] \in Rows(w.sched.tries) /\ w.work[r] \in [Slots(w) -> Works]
                        /\ w.rt[e][r] \in Objs(w.sched.tries)
    BY <1>0, TypedRun
  <2>2. \A r \in S : v[r].row[r] \in Rows(w.sched.tries) /\ v[r].work[r] \in [Slots(w) -> Works]
                     /\ v[r].rt[e][r] \in Objs(w.sched.tries)
    <3> SUFFICES ASSUME NEW r \in S
                 PROVE  v[r].row[r] \in Rows(w.sched.tries) /\ v[r].work[r] \in [Slots(w) -> Works]
                        /\ v[r].rt[e][r] \in Objs(w.sched.tries)
      OBVIOUS
    <3>1. r \in Runs /\ Typed(v[r]) /\ v[r].sched = w.sched
      BY <1>0
    <3>2. Slots(v[r]) = Slots(w)
      BY <3>1 DEF Slots
    <3> QED
      BY <3>1, <3>2, TypedRun
  <2> QED
    BY <2>1, <2>2
<1>4. to \in SUBSET (Engines \X Runs)
  <2>1. w.told \in SUBSET (Engines \X Runs) /\ \A r \in S : v[r].told \in SUBSET (Engines \X Runs)
    BY <1>0 DEF Typed, Worlds
  <2> QED
    BY <2>1
<1>4a. \A f \in Engines, r \in Runs :
         <<f, r>> \in to <=> IF r \in S THEN <<f, r>> \in v[r].told ELSE <<f, r>> \in w.told
  BY DEF Turn, Only
<1> HIDE DEF ro, wo, ob, qu, to
<1>5. Typed(u)
  BY <1>0, <1>2, <1>3, <1>4 DEF Typed, Worlds, Slots
<1>6. /\ u.sched = w.sched /\ u.eng = w.eng /\ u.timer = w.timer /\ u.cut = w.cut /\ u.blamed = w.blamed
      /\ u.row = ro /\ u.work = wo /\ u.rt[e] = ob /\ u.queue[e] = qu /\ u.told = to
      /\ \A f \in Engines : f # e => u.rt[f] = w.rt[f] /\ u.queue[f] = w.queue[f]
  BY <1>0 DEF Typed, Worlds
<1> HIDE DEF u
<1>7. ASSUME NEW r \in S PROVE Full(u, r, lost) /\ Kept(w, u, r)
  <2> DEFINE x == v[r]
  <2>1. Turn(w, x, e, r) /\ Full(x, r, lost) /\ r \in Runs
    BY <1>7
  <2>2. Here(x, e, r) /\ r \in Range(x.queue[e]) => r \in Range(w.queue[e])
    BY <1>7
  <2>3. u.row[r] = x.row[r] /\ u.work[r] = x.work[r] /\ u.rt[e][r] = x.rt[e][r]
    BY <1>6, <1>7, <2>1 DEF ro, wo, ob
  <2>4. r \in K <=> Here(x, e, r)
    BY <1>7, <2>1
  <2>5. \A f \in Engines : <<f, r>> \in u.told <=> <<f, r>> \in x.told
    BY <1>4a, <1>6, <2>1
  <2> HIDE DEF x, K
  <2>7. \A f \in Engines : u.rt[f][r] = x.rt[f][r]
    BY <1>6, <2>1, <2>3 DEF Turn, Only
  <2>8. ASSUME NEW f \in Engines, x.row[r].own = f, r \in Range(x.queue[f]) PROVE r \in Range(u.queue[f])
    <3>1. CASE f # e
      BY <1>6, <2>1, <2>8, <3>1 DEF Turn, Only
    <3>2. CASE f = e
      <4>1. Here(x, e, r)
        BY <2>1, <2>8, <3>2, OwnerIsHere DEF Turn
      <4> QED
        BY <1>2, <1>6, <2>2, <2>4, <2>8, <3>2, <4>1
    <3> QED
      BY <3>1, <3>2
  <2>9. u.sched = x.sched /\ u.blamed = x.blamed /\ u.eng = x.eng
    BY <1>6, <2>1 DEF Turn, Only
  <2>6. Kept(w, u, r)
    <3>1. Known(x, r) => Known(u, r)
      BY <2>5, <2>9, KnownStill
    <3>2. Kept(w, x, r)
      BY <2>1 DEF Turn
    <3> QED
      BY <2>3, <3>1, <3>2 DEF Kept, Lasts
  <2>10. Informed(u, r)
    BY <2>1, <2>3, <2>5, <2>9 DEF Full, Base, Informed
  <2>11. Full(u, r, lost)
    BY <2>1, <2>3, <2>7, <2>8, <2>9, <2>10, SameRun
  <2> QED
    BY <2>6, <2>11
<1>8. ASSUME NEW r \in Runs \ S PROVE Full(u, r, lost) /\ Kept(w, u, r)
  <2>1. u.row[r] = w.row[r] /\ u.work[r] = w.work[r] /\ u.rt[e][r] = w.rt[e][r]
    BY <1>6, <1>8 DEF ro, wo, ob
  <2>2. Full(w, r, lost)
    BY DEF Sound
  <2>3. r \in K
    OBVIOUS
  <2> HIDE DEF K
  <2>4. \A f \in Engines : u.rt[f][r] = w.rt[f][r] /\ (r \in Range(w.queue[f]) => r \in Range(u.queue[f]))
    BY <1>2, <1>6, <2>1, <2>3
  <2>5. Informed(u, r)
    BY <1>4a, <1>6, <2>1, <2>2 DEF Full, Base, Informed
  <2>6. Full(u, r, lost)
    BY <1>6, <2>1, <2>2, <2>4, <2>5, SameRun
  <2>7. Kept(w, u, r)
    BY <2>1 DEF Kept, Lasts
  <2> QED
    BY <2>6, <2>7
<1>9. Sound(u, lost)
  BY <1>5, <1>7, <1>8 DEF Sound
<1>10. Steps(w, u, e)
  <2>1. w.told \subseteq u.told
    BY <1>6 DEF to
  <2> QED
    BY <1>6, <1>7, <1>8, <2>1 DEF Steps
<1>11. /\ \A r \in S : u.row[r] = v[r].row[r] /\ u.rt[e][r] = v[r].rt[e][r]
       /\ \A r \in Runs \ S : u.rt[e][r] = w.rt[e][r]
  BY <1>6 DEF ro, ob
<1> QED
  BY <1>1, <1>9, <1>10, <1>11

\* Whatever concerns only the clock, the engines or what is told leaves the runs sound.
LEMMA SoundSame ==
  ASSUME NEW w, NEW v, NEW lost, Sound(w, lost), Typed(v), v.sched.kind = w.sched.kind,
         v.sched.tries = w.sched.tries, v.row = w.row, v.work = w.work, v.rt = w.rt, v.queue = w.queue,
         v.blamed = w.blamed, v.eng = w.eng \/ \E e \in Engines : v.eng[e] # "absent",
         \A f \in Engines, r \in Runs : <<f, r>> \in v.told => w.row[r].st \in Terminal
  PROVE  Sound(v, lost)
<1> SUFFICES ASSUME NEW q \in Runs PROVE Full(v, q, lost)
  BY DEF Sound
<1>1. Full(w, q, lost)
  BY DEF Sound
<1>2. Informed(v, q)
  BY <1>1 DEF Full, Base, Informed
<1> QED
  BY <1>1, <1>2, SameRun

\* renewRunLeases keeps what is owned and forgets what is not.
LEMMA RenewedSound ==
  ASSUME NEW w, NEW e \in Engines, NEW lost \in BOOLEAN, Sound(w, lost)
  PROVE  Sound(Renewed(w, e), lost) /\ Steps(w, Renewed(w, e), e)
<1> DEFINE v == [r \in Objects(w, e) |-> Checked(w, e, r)]
           S == Objects(w, e)
<1>1. S \subseteq Runs /\ DOMAIN v = S
  BY DEF Objects
<1>2. ASSUME NEW r \in S
      PROVE  /\ Turn(w, v[r], e, r) /\ Full(v[r], r, lost)
             /\ Here(v[r], e, r) /\ r \in Range(v[r].queue[e]) => r \in Range(w.queue[e])
  <2>1. r \in Runs /\ v[r] = Checked(w, e, r) /\ Typed(w) /\ Full(w, r, lost)
    BY <1>1 DEF Sound
  <2>2. Turn(w, Checked(w, e, r), e, r) /\ Full(Checked(w, e, r), r, lost)
    BY <2>1, CheckedTurn
  <2>3. CASE Owned(w, e, r)
    <3>1. Checked(w, e, r).queue = w.queue
      BY <2>1, <2>3 DEF Checked, Typed, Worlds
    <3> QED
      BY <2>1, <2>2, <3>1
  <2>4. CASE ~Owned(w, e, r)
    <3>1. Checked(w, e, r) = Forget(w, e, r)
      BY <2>4 DEF Checked
    <3>2. r \notin Range(Forget(w, e, r).queue[e])
      BY <2>1, ForgetSets
    <3> QED
      BY <2>1, <2>2, <3>1, <3>2
  <2> QED
    BY <2>3, <2>4
<1> HIDE DEF S
<1>3. Sound(Each(w, e, v), lost) /\ Steps(w, Each(w, e, v), e)
  <2> HIDE DEF v
  <2> QED
    BY <1>1, <1>2, EachSound
<1> QED
  BY <1>3 DEF Renewed

\* A run that is stopped and then ends: an end by request, timeout or deletion.
LEMMA StoppedTurn ==
  ASSUME NEW w, NEW e \in Engines, NEW r \in Runs, NEW lost \in BOOLEAN, NEW st \in Terminal,
         Typed(w), Full(w, r, lost), w.eng[e] # "absent"
  PROVE  LET v == Settled(Stop(w, e, r), e, r, st) IN
         /\ Turn(w, v, e, r) /\ Full(v, r, lost) /\ ~Here(v, e, r)
<1> DEFINE s == Stop(w, e, r)
<1>1. /\ Turn(w, s, e, r) /\ Base(s, r) /\ s.row = w.row /\ s.rt = w.rt
      /\ w.row[r].own # e => Full(s, r, lost)
  BY StopTurn DEF Full
<1> HIDE DEF s
<1>2. Typed(s) /\ Clean(s, r, lost) /\ s.eng[e] # "absent"
  BY <1>1 DEF Turn, Only, Full, Clean, Here
<1>3. s.row[r].own = e => Here(s, e, r)
  BY <1>1, OwnerIsHere DEF Here
<1>4. Turn(s, Settled(s, e, r, st), e, r) /\ Full(Settled(s, e, r, st), r, lost) /\ ~Here(Settled(s, e, r, st), e, r)
  BY <1>1, <1>2, <1>3, SettledTurn
<1> QED
  BY <1>1, <1>4, TurnChain DEF s

\* cancelQueued
LEMMA QueueCancelledSound ==
  ASSUME NEW w, NEW e \in Engines, NEW lost \in BOOLEAN, Sound(w, lost), w.eng[e] # "absent"
  PROVE  Sound(QueueCancelled(w, e), lost) /\ Steps(w, QueueCancelled(w, e), e)
<1> DEFINE S == {q \in Runs : w.rt[e][q].ph = "queued"}
           v == [r \in S |-> Settled(w, e, r, "cancelled")]
<1>1. S \subseteq Runs /\ DOMAIN v = S
  OBVIOUS
<1>2. ASSUME NEW r \in S
      PROVE  /\ Turn(w, v[r], e, r) /\ Full(v[r], r, lost)
             /\ Here(v[r], e, r) /\ r \in Range(v[r].queue[e]) => r \in Range(w.queue[e])
  <2>1. r \in Runs /\ v[r] = Settled(w, e, r, "cancelled") /\ Typed(w) /\ Full(w, r, lost)
    BY <1>1 DEF Sound
  <2>2. Base(w, r) /\ Clean(w, r, lost) /\ "cancelled" \in Terminal
    BY <2>1 DEF Full, Terminal
  <2>3. w.row[r].own = e => Here(w, e, r)
    BY <2>1, OwnerIsHere
  <2>4. /\ Turn(w, Settled(w, e, r, "cancelled"), e, r) /\ Full(Settled(w, e, r, "cancelled"), r, lost)
        /\ ~Here(Settled(w, e, r, "cancelled"), e, r)
    BY <2>1, <2>2, <2>3, SettledTurn
  <2> QED
    BY <2>1, <2>4
<1>3. QueueCancelled(w, e) = Each(w, e, v)
  BY DEF QueueCancelled
<1> HIDE DEF v, S
<1> QED
  BY <1>1, <1>2, <1>3, EachSound

\* The runs of a deleted schedule.
LEMMA AllStoppedSound ==
  ASSUME NEW w, NEW e \in Engines, NEW lost \in BOOLEAN, Sound(w, lost), w.eng[e] # "absent"
  PROVE  LET u == Each(w, e, [r \in Objects(w, e) |-> Settled(Stop(w, e, r), e, r, "cancelled")])
         IN Sound(u, lost) /\ Steps(w, u, e)
<1> DEFINE S == Objects(w, e)
           v == [r \in Objects(w, e) |-> Settled(Stop(w, e, r), e, r, "cancelled")]
<1>1. S \subseteq Runs /\ DOMAIN v = S
  BY DEF Objects
<1>2. ASSUME NEW r \in S
      PROVE  /\ Turn(w, v[r], e, r) /\ Full(v[r], r, lost)
             /\ Here(v[r], e, r) /\ r \in Range(v[r].queue[e]) => r \in Range(w.queue[e])
  <2>1. r \in Runs /\ v[r] = Settled(Stop(w, e, r), e, r, "cancelled") /\ Typed(w) /\ Full(w, r, lost)
    BY <1>1 DEF Sound
  <2>2. "cancelled" \in Terminal
    BY DEF Terminal
  <2> QED
    BY <2>1, <2>2, StoppedTurn
<1> HIDE DEF S
<1>3. Sound(Each(w, e, v), lost) /\ Steps(w, Each(w, e, v), e)
  <2> HIDE DEF v
  <2> QED
    BY <1>1, <1>2, EachSound
<1> QED
  BY <1>3

-----------------------------------------------------------------------------
(* An engine ends *)

\* releaseRun, and the object is gone: the run waits for another engine.
LEMMA ReleasedTurn ==
  ASSUME NEW w, NEW e \in Engines, NEW r \in Runs, NEW lost \in BOOLEAN, Typed(w), Full(w, r, lost)
  PROVE  LET v == Forget(Released(w, e, r), e, r) IN
         /\ Turn(w, v, e, r) /\ Full(v, r, lost) /\ ~Here(v, e, r)
<1>1. CASE w.row[r].own # e
  <2>1. Released(w, e, r) = w
    BY <1>1, OwnedIsOwner DEF Released, Full
  <2>2. ~Here(Forget(w, e, r), e, r)
    BY ForgetSets DEF Here, NoRun
  <2> QED
    BY <1>1, <2>1, <2>2, ForgetTurn
<1>2. CASE w.row[r].own = e
  <2> DEFINE ro == [w.row[r] EXCEPT !.own = None, !.ep = w.row[r].ep + 1, !.lapsed = FALSE]
             s == [w EXCEPT !.row[r] = ro]
             v == Forget(s, e, r)
  <2>0. w.row[r] \in Rows(w.sched.tries)
    BY TypedRun
  <2>1. Released(w, e, r) = s
    <3>1. Owned(w, e, r)
      BY <1>2, OwnedIsOwner DEF Full
    <3> QED
      BY <3>1 DEF Released
  <2>2. /\ ro \in Rows(w.sched.tries) /\ ro.own = None /\ ro.ep = w.row[r].ep + 1 /\ ro.st = w.row[r].st
        /\ ro.ph = w.row[r].ph /\ ro.att = w.row[r].att /\ ro.wf = w.row[r].wf
        /\ ro.tick = w.row[r].tick /\ ro.early = w.row[r].early
    <3>1. w.row[r].ep + 1 \in Nat
      BY <2>0 DEF Rows
    <3> QED
      BY <2>0, <3>1 DEF Rows
  <2> HIDE DEF ro
  <2>3. Sets(w, s, e, r, ro, w.work[r], w.rt[e][r])
    BY <2>2, SetsRow
  <2> HIDE DEF s
  <2>4. /\ Typed(v) /\ Only(s, v, e, r) /\ v.row[r] = ro /\ v.work[r] = w.work[r]
        /\ v.rt[e][r] = NoRun /\ v.told = w.told
    BY <2>3, ForgetSets DEF Sets
  <2> HIDE DEF v
  <2>5. Only(w, v, e, r)
    BY <2>3, <2>4 DEF Sets, Only
  <2>6. /\ v.sched = w.sched /\ v.eng = w.eng /\ v.blamed = w.blamed /\ Slots(v) = Slots(w)
        /\ Doings(v, r) = Doings(w, r)
    BY <2>4, <2>5 DEF Only, Slots, Doings
  <2>7. \A f \in Engines : f # e => v.rt[f][r] = w.rt[f][r]
    BY <2>5 DEF Only
  <2>8. \A f \in Engines : f # None
    BY SchedulerAssumption
  <2>9. w.row[r].st \in Active /\ w.row[r].st # "none" /\ w.row[r].st \notin Terminal
    <3>1. w.row[r].st \in Active
      BY <1>2, OwnerIsActive DEF Full
    <3> QED
      BY <3>1 DEF Active, Terminal
  <2>10. \A f \in Engines : f # e => (Here(v, f, r) <=> Here(w, f, r))
    BY <2>7 DEF Here
  <2>11. ~Here(v, e, r)
    BY <2>4 DEF Here, NoRun
  <2>12. Base(v, r)
    <3>1. Idle(v, r) /\ Counted(v, r) /\ Ahead(v, r)
      BY <2>2, <2>4, <2>6, <2>9 DEF Full, Base, Idle, Counted, Ahead
    <3>2. Epochs(v, r)
      <4>1. w.row[r].ep \in Nat
        BY <2>0 DEF Rows
      <4>2. \A f \in Engines : f # e => w.rt[f][r] \in Objs(w.sched.tries)
        BY TypedRun
      <4>3. \A f \in Engines : f # e /\ Here(w, f, r) => w.rt[f][r].ep < w.row[r].ep /\ w.rt[f][r].ep \in Nat
        BY <1>2, <2>9, <4>2 DEF Full, Base, Epochs, Objs
      <4> QED
        BY <2>2, <2>4, <2>7, <2>8, <2>10, <2>11, <4>1, <4>3 DEF Epochs
    <3>3. Single(v, r)
      BY <2>2, <2>4, <2>6 DEF Full, Base, Single
    <3>4. Named(v, r)
      <4>1. \A f \in Engines : v.rt[f][r].map = 0 \/ v.rt[f][r] = w.rt[f][r]
        BY <2>4, <2>7 DEF NoRun
      <4> QED
        BY <2>2, <2>4, <4>1 DEF Full, Base, Named, Begun, Here
    <3>5. Kinds(v, r) /\ Informed(v, r)
      BY <2>2, <2>4, <2>6 DEF Full, Base, Kinds, Informed
    <3> QED
      BY <3>1, <3>2, <3>3, <3>4, <3>5 DEF Base
  <2>13. Phased(v, r) /\ Goes(v, r, lost)
    BY <2>2, <2>4, <2>8 DEF Phased, Goes
  <2>14. Clean(v, r, lost)
    BY <1>2, <2>2, <2>4, <2>8, <2>10, <2>11 DEF Full, Clean
  <2>15. Kept(w, v, r)
    BY <2>2, <2>4, <2>9 DEF Kept, Lasts
  <2> QED
    BY <2>1, <2>4, <2>5, <2>11, <2>12, <2>13, <2>14, <2>15 DEF Turn, Full, s, v
<1> QED
  BY <1>1, <1>2

\* retireRuntime leaves its run sound and without an object of the engine.
LEMMA RetiredTurn ==
  ASSUME NEW w, NEW e \in Engines, NEW r \in Runs, NEW lost \in BOOLEAN, Typed(w), Full(w, r, lost),
         w.eng[e] # "absent"
  PROVE  LET v == RetiredRun(w, e, r) IN
         /\ Turn(w, v, e, r) /\ Full(v, r, lost) /\ ~Here(v, e, r)
<1>1. CASE RetiredRun(w, e, r) = Forget(Released(w, e, r), e, r)
  BY <1>1, ReleasedTurn
<1>2. CASE RetiredRun(w, e, r) = Settled(w, e, r, "cancelled")
  <2>1. Base(w, r) /\ Clean(w, r, lost) /\ "cancelled" \in Terminal
    BY DEF Full, Terminal
  <2>2. w.row[r].own = e => Here(w, e, r)
    BY OwnerIsHere
  <2> QED
    BY <1>2, <2>1, <2>2, SettledTurn
<1>3. CASE RetiredRun(w, e, r) = Settled(Stop(w, e, r), e, r, "failed")
  <2>1. "failed" \in Terminal
    BY DEF Terminal
  <2> QED
    BY <1>3, <2>1, StoppedTurn
<1> QED
  BY <1>1, <1>2, <1>3 DEF RetiredRun

\* What becomes of an execution when e ends.
LeftOf(kind, x, e) ==
  IF x.host # e THEN x
  ELSE IF kind = "workflow" THEN [x EXCEPT !.host = None]
  ELSE [x EXCEPT !.st = IF x.st \in Doing THEN "gone" ELSE x.st, !.open = FALSE, !.arm = FALSE]

\* Executions left behind by an engine change as LeftOf says, and nothing else changes.
LEMMA LeftWorks ==
  ASSUME NEW w, NEW e \in Engines, Typed(w)
  PROVE  LET v == Left(w, e) IN
         /\ Typed(v) /\ v.sched = w.sched /\ v.eng = w.eng /\ v.timer = w.timer /\ v.cut = w.cut
         /\ v.blamed = w.blamed /\ v.row = w.row /\ v.rt = w.rt /\ v.queue = w.queue /\ v.told = w.told
         /\ \A r \in Runs : \A a \in Slots(w) : v.work[r][a] = LeftOf(w.sched.kind, w.work[r][a], e)
<1> DEFINE wo == [r \in Runs |-> [a \in Slots(w) |-> LeftOf(w.sched.kind, w.work[r][a], e)]]
           v == [w EXCEPT !.work = wo]
<1>1. \A r \in Runs : w.work[r] \in [Slots(w) -> Works]
  BY TypedRun
<1>2. ASSUME NEW r \in Runs PROVE DOMAIN w.work[r] = Slots(w)
  BY <1>1
<1>3. Left(w, e) = v
  <2>1. Left(w, e) = [w EXCEPT !.work = [r \in Runs |-> [a \in DOMAIN w.work[r] |-> LeftOf(w.sched.kind, w.work[r][a], e)]]]
    BY DEF Left, LeftOf
  <2>2. [r \in Runs |-> [a \in DOMAIN w.work[r] |-> LeftOf(w.sched.kind, w.work[r][a], e)]] = wo
    BY <1>2
  <2> QED
    BY <2>1, <2>2
<1>4. ASSUME NEW x \in Works PROVE LeftOf(w.sched.kind, x, e) \in Works
  BY DEF LeftOf, Works, WorkStates
<1>5. wo \in [Runs -> [Slots(w) -> Works]]
  BY <1>1, <1>4
<1>6. Typed(v) /\ v.work = wo
  BY <1>5 DEF Typed, Worlds, Slots
<1>7. /\ v.sched = w.sched /\ v.eng = w.eng /\ v.timer = w.timer /\ v.cut = w.cut /\ v.blamed = w.blamed
      /\ v.row = w.row /\ v.rt = w.rt /\ v.queue = w.queue /\ v.told = w.told
  BY DEF Typed, Worlds
<1>8. \A r \in Runs : \A a \in Slots(w) : v.work[r][a] = LeftOf(w.sched.kind, w.work[r][a], e)
  BY <1>6
<1> QED
  BY <1>3, <1>6, <1>7, <1>8

\* Sessions end with their engine, workflows wait: no execution begins, and another owner's
\* execution goes on.
LEMMA LeftRun ==
  ASSUME NEW w, NEW e \in Engines, NEW r \in Runs, Typed(w), Base(w, r)
  PROVE  LET v == Left(w, e) IN
         /\ Base(v, r)
         /\ \A f \in Engines, lost \in BOOLEAN : f # e /\ Heeds(w, f, r, lost) => Heeds(v, f, r, lost)
         /\ \A a \in Slots(w) : w.work[r][a].host # e => v.work[r][a] = w.work[r][a]
<1> DEFINE v == Left(w, e)
<1>1. /\ Typed(v) /\ v.sched = w.sched /\ v.eng = w.eng /\ v.blamed = w.blamed /\ v.row = w.row
      /\ v.rt = w.rt /\ v.queue = w.queue /\ v.told = w.told
      /\ \A a \in Slots(w) : v.work[r][a] = LeftOf(w.sched.kind, w.work[r][a], e)
  BY LeftWorks
<1> HIDE DEF v
<1>2. Slots(v) = Slots(w) /\ w.work[r] \in [Slots(w) -> Works] /\ e # None
  BY <1>1, TypedRun, SchedulerAssumption DEF Slots
<1>3. \A a \in Slots(w) : w.work[r][a].host # e => v.work[r][a] = w.work[r][a]
  BY <1>1 DEF LeftOf
<1>4. ASSUME NEW a \in Slots(w), w.work[r][a].host = e
      PROVE  /\ w.work[r][a] # NoWork /\ v.work[r][a].st # "none" /\ Begun(v, r, a)
             /\ v.work[r][a].st \in Doing => v.work[r][a].st = w.work[r][a].st
             /\ v.work[r][a].st \in {"creating", "gone"} \/ v.work[r][a].open => w.sched.kind = "session"
             /\ v.work[r][a].open => v.work[r][a].st # "creating"
             /\ w.sched.kind = "workflow" => v.work[r][a].st = w.work[r][a].st
  <2> DEFINE x == w.work[r][a]
             y == v.work[r][a]
  <2>1. x \in Works /\ y = LeftOf(w.sched.kind, x, e)
    BY <1>1, <1>2
  <2>2. x # NoWork /\ x.st # "none" /\ w.sched.kind # "dispatch"
    BY <1>2, <1>4 DEF NoWork, Base, Kinds
  <2>3. (x.st \in {"creating", "gone"} \/ x.open => w.sched.kind = "session") /\ (x.open => x.st # "creating")
    BY DEF Base, Kinds
  <2>4. w.sched.kind \in {"session", "workflow", "dispatch"}
    BY TypedRun DEF Scheds
  <2> HIDE DEF x, y
  <2>5. CASE w.sched.kind = "workflow"
    <3>1. y = [x EXCEPT !.host = None]
      BY <1>4, <2>1, <2>5 DEF LeftOf, x
    <3>2. y.st = x.st /\ y.open = x.open
      BY <2>1, <3>1 DEF Works
    <3> QED
      BY <2>2, <2>3, <2>5, <3>2 DEF x, y, Begun
  <2>6. CASE w.sched.kind = "session"
    <3>1. y = [x EXCEPT !.st = IF x.st \in Doing THEN "gone" ELSE x.st, !.open = FALSE, !.arm = FALSE]
      BY <1>4, <2>1, <2>6 DEF LeftOf, x
    <3>2. y.st = IF x.st \in Doing THEN "gone" ELSE x.st
      BY <2>1, <3>1 DEF Works
    <3>3. y.st \notin Doing /\ y.st # "none"
      BY <2>2, <3>2 DEF Doing
    <3> QED
      BY <2>2, <2>6, <3>3 DEF x, y, Begun, Doing
  <2> QED
    BY <2>2, <2>4, <2>5, <2>6
<1>5. Base(v, r)
  <2>1. Doings(v, r) \subseteq Doings(w, r)
    BY <1>2, <1>3, <1>4 DEF Doings
  <2>2. Informed(v, r)
    BY <1>1 DEF Base, Informed
  <2>3. \A a \in Slots(w) : \/ v.work[r][a] = w.work[r][a]
                            \/ /\ w.work[r][a] # NoWork /\ v.work[r][a].st # "none"
                               /\ Begun(w, r, a) => Begun(v, r, a)
                               /\ v.work[r][a].st \in {"creating", "gone"} \/ v.work[r][a].open
                                    => w.sched.kind = "session"
                               /\ v.work[r][a].open => v.work[r][a].st # "creating"
    BY <1>3, <1>4
  <2> QED
    BY <1>1, <2>1, <2>2, <2>3, BaseWork
<1>6. ASSUME NEW f \in Engines, NEW lost \in BOOLEAN, f # e, Heeds(w, f, r, lost) PROVE Heeds(v, f, r, lost)
  <2>1. w.rt[f][r].map # 0 => w.rt[f][r].map \in Slots(w)
    BY TypedRun DEF Objs, Slots, Scheds
  <2>2. w.sched.kind = "workflow" => \A a \in Slots(w) : v.work[r][a].st = w.work[r][a].st
    BY <1>3, <1>4
  <2> QED
    BY <1>1, <1>2, <1>3, <1>6, <2>1, <2>2 DEF Heeds
<1> QED
  BY <1>3, <1>5, <1>6 DEF v

\* What a step of e leaves alone: the ends of runs, the occurrences that have one, the clocks
\* and objects of other engines and the launches they await.
Outlasts(w, v, e, r) ==
  /\ w.row[r].st \in Terminal => v.row[r] = w.row[r]
  /\ w.row[r].st # "none" =>
       v.row[r].st # "none" /\ v.row[r].tick = w.row[r].tick /\ v.row[r].early = w.row[r].early
  /\ \A a \in Slots(w) : w.work[r][a].arm /\ w.work[r][a].host # e =>
       /\ v.work[r][a].arm /\ v.work[r][a].host = w.work[r][a].host
       /\ v.work[r][a].open = w.work[r][a].open
       /\ w.work[r][a].st = "creating" => v.work[r][a].st = "creating"

Onward(w, v, e) ==
  /\ v.sched.kind = w.sched.kind /\ v.sched.tries = w.sched.tries
  /\ \A f \in Engines : f # e =>
       /\ v.eng[f] = w.eng[f] /\ v.timer[f] = w.timer[f] /\ (f \in w.cut => f \in v.cut)
       /\ \A r \in Runs : v.rt[f][r] = w.rt[f][r]
  /\ \A r \in Runs : Outlasts(w, v, e, r)

\* What two steps bring onward is brought onward by both.
LEMMA OnwardChain ==
  ASSUME NEW w, NEW v, NEW u, NEW e, Onward(w, v, e), Onward(v, u, e)
  PROVE  Onward(w, u, e)
<1>1. Slots(v) = Slots(w)
  BY DEF Onward, Slots
<1>2. ASSUME NEW r \in Runs PROVE Outlasts(w, u, e, r)
  <2>1. Outlasts(w, v, e, r) /\ Outlasts(v, u, e, r)
    BY DEF Onward
  <2> QED
    BY <1>1, <2>1 DEF Outlasts
<1> QED
  BY <1>2 DEF Onward

\* A step of an engine brings the world onward.
LEMMA StepsOnward ==
  ASSUME NEW w, NEW v, NEW e, Steps(w, v, e)
  PROVE  Onward(w, v, e) /\ \A r \in Runs : Lasts(w, v, r)
<1>1. ASSUME NEW r \in Runs PROVE Outlasts(w, v, e, r) /\ Lasts(w, v, r)
  BY DEF Steps, Kept, Lasts, Outlasts
<1> QED
  BY <1>1 DEF Steps, Onward

\* What lasts through two steps lasts through both.
LEMMA LastsChain ==
  ASSUME NEW w, NEW v, NEW u, NEW r, Lasts(w, v, r), Lasts(v, u, r)
  PROVE  Lasts(w, u, r)
BY DEF Lasts

\* What concerns only the clock of e, its life and what is told.
LEMMA SameOnward ==
  ASSUME NEW w, NEW v, NEW e, v.sched.kind = w.sched.kind, v.sched.tries = w.sched.tries, v.row = w.row,
         v.work = w.work, v.rt = w.rt,
         \A f \in Engines : f # e => v.eng[f] = w.eng[f] /\ v.timer[f] = w.timer[f] /\ (f \in w.cut => f \in v.cut)
  PROVE  Onward(w, v, e) /\ \A r \in Runs : Lasts(w, v, r)
BY DEF Onward, Outlasts, Lasts, Slots

\* dispose keeps the world sound and leaves the engine down without objects.
LEMMA RetiredSound ==
  ASSUME NEW w, NEW e \in Engines, NEW lost \in BOOLEAN, Sound(w, lost), w.eng[e] # "absent"
  PROVE  LET v == Retired(w, e) IN
         /\ Sound(v, lost) /\ Onward(w, v, e) /\ \A r \in Runs : Lasts(w, v, r) /\ ~Here(v, e, r)
         /\ v.sched = w.sched /\ v.eng = [w.eng EXCEPT ![e] = "down"] /\ v.timer[e] = 0 /\ e \notin v.cut
         /\ v.cut = w.cut \ {e}
<1> DEFINE quiet == [w EXCEPT !.eng[e] = "down", !.timer[e] = 0, !.cut = @ \ {e}]
           S == Objects(quiet, e)
           x == [r \in Objects(w, e) |-> RetiredRun(quiet, e, r)]
           u == Each(quiet, e, x)
           v == Left(u, e)
<1>1. Retired(w, e) = v
  BY DEF Retired
<1>2. Typed(w)
  BY DEF Sound
<1>3. /\ Typed(quiet) /\ quiet.sched = w.sched /\ quiet.row = w.row /\ quiet.work = w.work /\ quiet.rt = w.rt
      /\ quiet.queue = w.queue /\ quiet.told = w.told /\ quiet.blamed = w.blamed
      /\ quiet.eng = [w.eng EXCEPT ![e] = "down"] /\ quiet.timer = [w.timer EXCEPT ![e] = 0]
      /\ quiet.cut = w.cut \ {e}
  <2>1. [w.eng EXCEPT ![e] = "down"] \in [Engines -> Lives] /\ [w.timer EXCEPT ![e] = 0] \in [Engines -> Nat]
        /\ w.cut \ {e} \in SUBSET Engines
    BY <1>2 DEF Typed, Worlds, Lives
  <2> QED
    BY <1>2, <2>1 DEF Typed, Worlds
<1>4. quiet.eng[e] = "down" /\ quiet.timer[e] = 0 /\ \A f \in Engines : f # e => quiet.eng[f] = w.eng[f] /\ quiet.timer[f] = w.timer[f]
  BY <1>2, <1>3 DEF Typed, Worlds
<1>5. S = Objects(w, e) /\ S \subseteq Runs
  BY <1>3 DEF Objects, Here
<1> HIDE DEF quiet
<1>6. Sound(quiet, lost)
  <2>1. \A f \in Engines, r \in Runs : <<f, r>> \in quiet.told => w.row[r].st \in Terminal
    BY <1>3 DEF Sound, Full, Base, Informed
  <2> QED
    BY <1>3, <1>4, <2>1, SoundSame
<1>7. Onward(w, quiet, e) /\ \A r \in Runs : Lasts(w, quiet, r)
  <2>1. \A f \in Engines : f # e => quiet.eng[f] = w.eng[f] /\ quiet.timer[f] = w.timer[f]
                                    /\ (f \in w.cut => f \in quiet.cut)
    BY <1>3, <1>4
  <2>2. quiet.sched.kind = w.sched.kind /\ quiet.sched.tries = w.sched.tries
    BY <1>3
  <2> QED
    BY <1>3, <2>1, <2>2, SameOnward
<1>8. ASSUME NEW r \in S
      PROVE  /\ Turn(quiet, x[r], e, r) /\ Full(x[r], r, lost) /\ ~Here(x[r], e, r)
             /\ Here(x[r], e, r) /\ r \in Range(x[r].queue[e]) => r \in Range(quiet.queue[e])
  <2>1. r \in Runs /\ x[r] = RetiredRun(quiet, e, r) /\ Full(quiet, r, lost)
    BY <1>5, <1>6 DEF Sound
  <2>2. quiet.eng[e] # "absent"
    BY <1>4
  <2>3. /\ Turn(quiet, RetiredRun(quiet, e, r), e, r) /\ Full(RetiredRun(quiet, e, r), r, lost)
        /\ ~Here(RetiredRun(quiet, e, r), e, r)
    BY <1>3, <2>1, <2>2, RetiredTurn
  <2> HIDE DEF x
  <2> QED
    BY <2>1, <2>3
<1>9. DOMAIN x = S
  BY <1>5
<1> HIDE DEF S
<1>10. /\ Sound(u, lost) /\ Steps(quiet, u, e)
       /\ \A r \in S : u.rt[e][r] = x[r].rt[e][r]
       /\ \A r \in Runs \ S : u.rt[e][r] = quiet.rt[e][r]
  <2> HIDE DEF x
  <2> QED
    BY <1>5, <1>6, <1>8, <1>9, EachSound
<1> HIDE DEF x, u
<1>11. ASSUME NEW r \in Runs PROVE ~Here(u, e, r) /\ u.row[r].own # e
  <2>1. ~Here(u, e, r)
    <3>1. CASE r \in S
      BY <1>8, <1>10, <3>1 DEF Here
    <3>2. CASE r \notin S
      BY <1>3, <1>5, <1>10, <3>2 DEF Objects, Here
    <3> QED
      BY <3>1, <3>2
  <2>2. Typed(u) /\ Full(u, r, lost)
    BY <1>10 DEF Sound
  <2> QED
    BY <2>1, <2>2, OwnerIsHere
<1>12. /\ Typed(v) /\ v.sched = u.sched /\ v.eng = u.eng /\ v.timer = u.timer /\ v.cut = u.cut
       /\ v.blamed = u.blamed /\ v.row = u.row /\ v.rt = u.rt /\ v.queue = u.queue /\ v.told = u.told
  BY <1>10, LeftWorks DEF Sound
<1>13. ASSUME NEW r \in Runs PROVE Full(v, r, lost) /\ Outlasts(u, v, e, r)
  <2>1. Full(u, r, lost) /\ Typed(u)
    BY <1>10 DEF Sound
  <2>2. /\ Base(v, r)
        /\ \A f \in Engines : f # e /\ Heeds(u, f, r, lost) => Heeds(v, f, r, lost)
        /\ \A a \in Slots(u) : u.work[r][a].host # e => v.work[r][a] = u.work[r][a]
    BY <2>1, LeftRun DEF Full
  <2> HIDE DEF v
  <2>3. Phased(v, r) /\ Clean(v, r, lost)
    BY <1>12, <2>1 DEF Full, Phased, Clean, Here
  <2>4. Goes(v, r, lost)
    BY <1>11, <1>12, <2>1, <2>2 DEF Full, Goes
  <2>5. Outlasts(u, v, e, r)
    BY <1>12, <2>2 DEF Outlasts
  <2> QED
    BY <2>2, <2>3, <2>4, <2>5 DEF Full
<1> HIDE DEF v
<1>14. Onward(u, v, e)
  BY <1>12, <1>13 DEF Onward
<1>15. Onward(w, v, e)
  BY <1>7, <1>10, <1>14, StepsOnward, OnwardChain
<1>16. ASSUME NEW r \in Runs PROVE Lasts(w, v, r)
  <2>1. Lasts(w, quiet, r) /\ Lasts(quiet, u, r)
    BY <1>7, <1>10, StepsOnward
  <2>2. Lasts(u, v, r)
    BY <1>12 DEF Lasts
  <2> QED
    BY <2>1, <2>2, LastsChain
<1>17. \A r \in Runs : ~Here(v, e, r)
  BY <1>11, <1>12 DEF Here
<1>18. v.sched = w.sched /\ v.eng = [w.eng EXCEPT ![e] = "down"] /\ v.timer[e] = 0 /\ e \notin v.cut /\ v.cut = w.cut \ {e}
  BY <1>3, <1>4, <1>10, <1>12 DEF Steps
<1>19. Sound(v, lost)
  BY <1>12, <1>13 DEF Sound
<1> QED
  BY <1>1, <1>15, <1>16, <1>17, <1>18, <1>19

\* A process that dies: what it owned is nobody's until the lease runs out.
LEMMA DeadSound ==
  ASSUME NEW w, NEW e \in Engines, NEW lost \in BOOLEAN, Typed(w), w.eng[e] # "absent",
         \A r \in Runs : Base(w, r) /\ Clean(w, r, lost) /\ (w.row[r].own # e => Full(w, r, lost))
  PROVE  LET v == Dead(w, e) IN
         /\ Sound(v, lost) /\ Onward(w, v, e) /\ \A r \in Runs : Lasts(w, v, r) /\ ~Here(v, e, r)
         /\ v.sched = w.sched /\ v.eng[e] = "down" /\ v.cut = w.cut \ {e} /\ v.timer[e] = 0
<1> DEFINE l == Left(w, e)
           no == [r \in Runs |-> NoRun]
           to == {n \in w.told : n[1] # e}
           ro(r) == IF w.row[r].own = e THEN [w.row[r] EXCEPT !.own = Gone] ELSE w.row[r]
           s == [l EXCEPT !.eng[e] = "down", !.timer[e] = 0, !.queue[e] = <<>>, !.rt[e] = no,
                          !.cut = @ \ {e}, !.told = {n \in @ : n[1] # e}]
           v == [s EXCEPT !.row = [r \in Runs |-> IF s.row[r].own = e THEN [s.row[r] EXCEPT !.own = Gone]
                                                 ELSE s.row[r]]]
<1>1. Dead(w, e) = v
  BY DEF Dead
<1>2. /\ Typed(l) /\ l.sched = w.sched /\ l.eng = w.eng /\ l.timer = w.timer /\ l.cut = w.cut
      /\ l.blamed = w.blamed /\ l.row = w.row /\ l.rt = w.rt /\ l.queue = w.queue /\ l.told = w.told
  BY LeftWorks
<1>3. ASSUME NEW r \in Runs
      PROVE  /\ Base(l, r)
             /\ \A f \in Engines, b \in BOOLEAN : f # e /\ Heeds(w, f, r, b) => Heeds(l, f, r, b)
             /\ \A a \in Slots(w) : w.work[r][a].host # e => l.work[r][a] = w.work[r][a]
  BY LeftRun
<1> HIDE DEF l
<1>4. NoRun \in Objs(w.sched.tries) /\ NoRun.map = 0 /\ NoRun.ph = "none"
  BY DEF Typed, Worlds, Scheds, NoRun, Objs, Phases
<1>5. /\ Typed(s) /\ s.sched = w.sched /\ s.row = w.row /\ s.work = l.work /\ s.blamed = w.blamed
      /\ s.eng = [w.eng EXCEPT ![e] = "down"] /\ s.timer = [w.timer EXCEPT ![e] = 0]
      /\ s.queue = [w.queue EXCEPT ![e] = <<>>] /\ s.rt = [w.rt EXCEPT ![e] = no]
      /\ s.cut = w.cut \ {e} /\ s.told = to
  <2>1. /\ [w.eng EXCEPT ![e] = "down"] \in [Engines -> Lives] /\ [w.timer EXCEPT ![e] = 0] \in [Engines -> Nat]
        /\ [w.queue EXCEPT ![e] = <<>>] \in [Engines -> Seq(Runs)]
        /\ w.cut \ {e} \in SUBSET Engines /\ to \in SUBSET (Engines \X Runs)
    BY DEF Typed, Worlds, Lives
  <2>2. [w.rt EXCEPT ![e] = no] \in [Engines -> [Runs -> Objs(w.sched.tries)]]
    BY <1>4 DEF Typed, Worlds
  <2> HIDE DEF no, to
  <2>3. s = [l EXCEPT !.eng = [w.eng EXCEPT ![e] = "down"], !.timer = [w.timer EXCEPT ![e] = 0],
                      !.queue = [w.queue EXCEPT ![e] = <<>>], !.rt = [w.rt EXCEPT ![e] = no],
                      !.cut = w.cut \ {e}, !.told = to]
    BY <1>2 DEF to, Typed, Worlds
  <2> HIDE DEF s
  <2> QED
    BY <1>2, <2>1, <2>2, <2>3 DEF Typed, Worlds
<1> HIDE DEF s, to, no
<1>6. /\ Typed(v) /\ v.sched = w.sched /\ v.work = l.work /\ v.blamed = w.blamed
      /\ v.eng = s.eng /\ v.timer = s.timer /\ v.queue = s.queue /\ v.rt = s.rt /\ v.cut = s.cut /\ v.told = to
      /\ v.row = [r \in Runs |-> ro(r)]
  <2>1. ASSUME NEW r \in Runs PROVE ro(r) \in Rows(w.sched.tries)
    <3>1. w.row[r] \in Rows(w.sched.tries)
      BY TypedRun
    <3> QED
      BY <3>1 DEF Rows
  <2>2. [r \in Runs |-> IF s.row[r].own = e THEN [s.row[r] EXCEPT !.own = Gone] ELSE s.row[r]] = [r \in Runs |-> ro(r)]
    BY <1>5
  <2> HIDE DEF ro
  <2>3. [r \in Runs |-> ro(r)] \in [Runs -> Rows(w.sched.tries)]
    BY <2>1
  <2> QED
    BY <1>5, <2>2, <2>3 DEF Typed, Worlds
<1> HIDE DEF v
<1>7. ASSUME NEW r \in Runs PROVE Full(v, r, lost) /\ Lasts(w, v, r) /\ Outlasts(w, v, e, r) /\ ~Here(v, e, r)
  <2>1. /\ Base(w, r) /\ Clean(w, r, lost) /\ (w.row[r].own # e => Full(w, r, lost))
        /\ w.row[r] \in Rows(w.sched.tries)
    BY TypedRun
  <2>2. v.rt[e][r] = NoRun /\ \A f \in Engines : f # e => v.rt[f][r] = w.rt[f][r] /\ v.queue[f] = w.queue[f]
    BY <1>5, <1>6 DEF Typed, Worlds, no
  <2>3. /\ v.row[r].own = IF w.row[r].own = e THEN Gone ELSE w.row[r].own
        /\ v.row[r].st = w.row[r].st /\ v.row[r].ph = w.row[r].ph /\ v.row[r].att = w.row[r].att
        /\ v.row[r].ep = w.row[r].ep /\ v.row[r].wf = w.row[r].wf /\ v.row[r].acked = w.row[r].acked
        /\ v.row[r].tick = w.row[r].tick /\ v.row[r].early = w.row[r].early
        /\ w.row[r].own # e => v.row[r] = w.row[r]
    BY <1>6, <2>1 DEF Rows
  <2>4. \A f \in Engines : f # Gone /\ f # None
    BY SchedulerAssumption
  <2>5. \A f \in Engines : (Here(v, f, r) <=> f # e /\ Here(w, f, r))
    BY <1>4, <2>2 DEF Here
  <2>6. Slots(v) = Slots(w) /\ Slots(l) = Slots(w) /\ Doings(v, r) = Doings(l, r)
    BY <1>2, <1>6 DEF Slots, Doings
  <2>7. Base(l, r)
    BY <1>3
  <2>8. w.row[r].own = e => w.row[r].st \notin Terminal /\ w.row[r].st # "none"
    BY <2>1, <2>4 DEF Base, Counted, Idle, NoRow
  <2>9. Base(v, r)
    <3>1. Idle(v, r)
      BY <1>2, <1>6, <2>3, <2>5, <2>6, <2>7, <2>8 DEF Base, Idle, Here
    <3>2. Counted(v, r)
      BY <1>6, <2>1, <2>3, <2>8 DEF Base, Counted
    <3>3. Ahead(v, r)
      BY <1>2, <1>6, <2>3, <2>6, <2>7 DEF Base, Ahead
    <3>4. Epochs(v, r)
      BY <2>1, <2>2, <2>3, <2>4, <2>5 DEF Base, Epochs
    <3>5. Single(v, r)
      BY <1>2, <1>6, <2>3, <2>6, <2>7 DEF Base, Single
    <3>6. Named(v, r)
      <4>1. \A a : Begun(v, r, a) <=> Begun(l, r, a)
        BY <1>6 DEF Begun
      <4> QED
        BY <1>2, <1>4, <2>2, <2>3, <2>5, <2>7, <4>1 DEF Base, Named
    <3>7. Kinds(v, r)
      BY <1>2, <1>6, <2>6, <2>7 DEF Base, Kinds
    <3>8. Informed(v, r)
      <4>1. v.eng[e] = "down" /\ v.told \subseteq w.told
        BY <1>5, <1>6 DEF to, Typed, Worlds
      <4> QED
        BY <2>1, <2>3, <4>1 DEF Base, Informed
    <3> QED
      BY <3>1, <3>2, <3>3, <3>4, <3>5, <3>6, <3>7, <3>8 DEF Base
  <2>10. Phased(v, r)
    BY <2>1, <2>2, <2>3, <2>4 DEF Full, Phased
  <2>11. Clean(v, r, lost)
    BY <2>1, <2>3, <2>4, <2>5 DEF Clean
  <2>12. Goes(v, r, lost)
    <3> SUFFICES ASSUME NEW f \in Engines, v.row[r].own = f PROVE Heeds(v, f, r, lost)
      BY DEF Goes
    <3>1. w.row[r].own = f /\ f # e
      BY <2>3, <2>4
    <3>2. Heeds(l, f, r, lost)
      BY <1>3, <2>1, <3>1 DEF Full, Goes
    <3> QED
      BY <1>2, <1>6, <2>2, <2>3, <3>1, <3>2, HeedsStill
  <2>13. Lasts(w, v, r) /\ Outlasts(w, v, e, r)
    BY <1>3, <1>6, <2>3, <2>8 DEF Lasts, Outlasts
  <2> QED
    BY <2>5, <2>9, <2>10, <2>11, <2>12, <2>13 DEF Full
<1>8. /\ v.eng[e] = "down" /\ v.timer[e] = 0
      /\ \A f \in Engines : f # e => v.eng[f] = w.eng[f] /\ v.timer[f] = w.timer[f]
                                     /\ \A r \in Runs : v.rt[f][r] = w.rt[f][r]
  BY <1>5, <1>6 DEF Typed, Worlds
<1>9. Onward(w, v, e)
  BY <1>5, <1>6, <1>7, <1>8 DEF Onward
<1>10. Sound(v, lost)
  BY <1>6, <1>7 DEF Sound
<1> QED
  BY <1>1, <1>5, <1>6, <1>7, <1>8, <1>9, <1>10

-----------------------------------------------------------------------------
(* An occurrence becomes a run *)

\* The receipt: what the engine writes before anything starts.
Receipt(w, e, ph, tick, early) ==
  [NoRow EXCEPT !.st = IF ph = "skipped" THEN "skipped" ELSE "pending",
                !.ph = IF ph = "skipped" THEN "none" ELSE ph,
                !.own = IF ph = "skipped" THEN None ELSE e,
                !.rev = w.sched.rev, !.tick = tick, !.early = early]

IsReceipt(x, e, ph, tick, early) ==
  /\ x.att = 0 /\ x.ep = 0 /\ x.wf = 0 /\ x.lapsed = FALSE /\ x.acked = FALSE
  /\ x.tick = tick /\ x.early = early
  /\ ph = "skipped" => x.st = "skipped" /\ x.ph = "none" /\ x.own = None
  /\ ph # "skipped" => x.st = "pending" /\ x.ph = ph /\ x.own = e

\* A receipt has the type of a row.
LEMMA ReceiptOf ==
  ASSUME NEW w, NEW e \in Engines, NEW ph, ph \in {"skipped", "queued", "launching"}, NEW tick, tick \in Nat,
         NEW early, early \in BOOLEAN, Typed(w)
  PROVE  LET ro == Receipt(w, e, ph, tick, early) IN
         ro \in Rows(w.sched.tries) /\ IsReceipt(ro, e, ph, tick, early)
<1>1. w.sched.rev \in Nat /\ w.sched.tries \in Nat
  BY DEF Typed, Worlds, Scheds
<1>2. NoRow \in Rows(w.sched.tries)
  BY <1>1 DEF Rows, NoRow, Statuses, Phases
<1>3. (IF ph = "skipped" THEN "skipped" ELSE "pending") \in Statuses
      /\ (IF ph = "skipped" THEN "none" ELSE ph) \in Phases
  BY DEF Statuses, Active, Terminal, Phases
<1> QED
  BY <1>1, <1>2, <1>3 DEF Receipt, IsReceipt, Rows, NoRow

\* The object of a run that was received, and the schedule with another cursor.
Received0(ph) == IF ph = "skipped" THEN NoRun ELSE [NoRun EXCEPT !.ph = ph]
NextAt(s, next) == [s EXCEPT !.next = next]

IsReceived(w, v, e, r, ph, tick, early, next) ==
  /\ Typed(v) /\ v.sched = NextAt(w.sched, next) /\ v.eng = w.eng /\ v.timer = w.timer
  /\ v.cut = w.cut /\ v.blamed = w.blamed /\ v.told = w.told /\ v.work = w.work
  /\ v.row[r] = Receipt(w, e, ph, tick, early) /\ \A q \in Runs : q # r => v.row[q] = w.row[q]
  /\ v.rt[e][r] = Received0(ph)
  /\ \A f \in Engines, q \in Runs : f # e \/ q # r =>
       v.rt[f][q] = w.rt[f][q] /\ (q \in Range(v.queue[f]) <=> q \in Range(w.queue[f]))
  /\ ph = "queued" => r \in Range(v.queue[e])

\* createRuntime makes the receipt, the object and the cursor at once and changes nothing
\* else.
LEMMA ReceivedRow ==
  ASSUME NEW w, NEW e \in Engines, NEW r \in Runs, NEW lost, NEW ph, ph \in {"skipped", "queued", "launching"},
         NEW tick, tick \in Nat, NEW early, early \in BOOLEAN, NEW next, next \in Nat,
         Sound(w, lost), w.row[r].st = "none"
  PROVE  IsReceived(w, Received(w, e, r, ph, tick, early, next), e, r, ph, tick, early, next)
<1> DEFINE ro == Receipt(w, e, ph, tick, early)
           ob == IF ph = "skipped" THEN NoRun ELSE [NoRun EXCEPT !.ph = ph]
           qu == IF ph = "queued" THEN Append(w.queue[e], r) ELSE w.queue[e]
           sc == [w.sched EXCEPT !.next = next]
           v == [w EXCEPT !.row[r] = ro, !.sched = sc, !.rt[e][r] = ob, !.queue[e] = qu]
<1>0. Typed(w)
  BY DEF Sound
<1>1. Received(w, e, r, ph, tick, early, next) = v
  BY <1>0 DEF Received, Receipt, Typed, Worlds
<1>2. ro \in Rows(w.sched.tries)
  BY <1>0, ReceiptOf
<1>3. ob \in Objs(w.sched.tries)
  <2>1. w.sched.tries \in Nat
    BY <1>0 DEF Typed, Worlds, Scheds
  <2> QED
    BY <2>1 DEF NoRun, Objs, Phases
<1>4. /\ qu \in Seq(Runs)
      /\ \A q \in Runs : q # r => (q \in Range(qu) <=> q \in Range(w.queue[e]))
      /\ ph = "queued" => r \in Range(qu)
  <2>1. w.queue[e] \in Seq(Runs)
    BY <1>0 DEF Typed, Worlds
  <2>2. Append(w.queue[e], r) \in Seq(Runs) /\ Range(Append(w.queue[e], r)) = Range(w.queue[e]) \cup {r}
    BY <2>1, RangeAppend
  <2> QED
    BY <2>1, <2>2
<1>5. sc \in Scheds /\ sc.tries = w.sched.tries
  BY <1>0 DEF Typed, Worlds, Scheds
<1> HIDE DEF ro, ob, qu, sc
<1>6. Typed(v) /\ v.sched = sc
  BY <1>0, <1>2, <1>3, <1>4, <1>5 DEF Typed, Worlds
<1>7. /\ v.eng = w.eng /\ v.timer = w.timer /\ v.cut = w.cut /\ v.blamed = w.blamed /\ v.told = w.told
      /\ v.work = w.work /\ v.row[r] = ro /\ \A q \in Runs : q # r => v.row[q] = w.row[q]
  BY <1>0 DEF Typed, Worlds
<1>8. /\ v.rt[e][r] = ob /\ v.queue[e] = qu
      /\ \A f \in Engines, q \in Runs : f # e \/ q # r => v.rt[f][q] = w.rt[f][q]
      /\ \A f \in Engines : f # e => v.queue[f] = w.queue[f]
  BY <1>0 DEF Typed, Worlds
<1> HIDE DEF v
<1>9. \A f \in Engines, q \in Runs : f # e \/ q # r => (q \in Range(v.queue[f]) <=> q \in Range(w.queue[f]))
  BY <1>4, <1>8
<1>10. v.sched = NextAt(w.sched, next) /\ v.row[r] = Receipt(w, e, ph, tick, early) /\ v.rt[e][r] = Received0(ph)
  BY <1>6, <1>7, <1>8 DEF ro, ob, sc, Received0, NextAt
<1>11. IsReceived(w, v, e, r, ph, tick, early, next)
  <2>1. ph = "queued" => r \in Range(v.queue[e])
    BY <1>4, <1>8
  <2>2. \A f \in Engines, q \in Runs : f # e \/ q # r =>
          v.rt[f][q] = w.rt[f][q] /\ (q \in Range(v.queue[f]) <=> q \in Range(w.queue[f]))
    BY <1>8, <1>9
  <2>3. \A q \in Runs : q # r => v.row[q] = w.row[q]
    BY <1>7
  <2> QED
    BY <1>6, <1>7, <1>10, <2>1, <2>2, <2>3, Zenon DEF IsReceived
<1> QED
  BY <1>1, <1>11

\* A row taken for the first time: what a launch needs, and all that a run held back or
\* skipped needs.
Receives(w, v, e, r, ph, lost) ==
  /\ Others(v, r, lost) /\ Base(v, r) /\ Clean(v, r, lost) /\ Doings(v, r) = {}
  /\ ph # "launching" => Full(v, r, lost)
  /\ Onward(w, v, e)

\* createRuntime keeps the world sound up to the run it made, which its launch completes.
LEMMA ReceivedSound ==
  ASSUME NEW w, NEW e \in Engines, NEW r \in Runs, NEW lost \in BOOLEAN,
         NEW ph, ph \in {"skipped", "queued", "launching"}, NEW tick, tick \in Nat, NEW early, early \in BOOLEAN,
         NEW next, next \in Nat, Sound(w, lost), w.row[r].st = "none", w.eng[e] # "absent"
  PROVE  Receives(w, Received(w, e, r, ph, tick, early, next), e, r, ph, lost)
<1> DEFINE v == Received(w, e, r, ph, tick, early, next)
           ro == Receipt(w, e, ph, tick, early)
<1>1. /\ Typed(v) /\ v.sched = NextAt(w.sched, next) /\ v.eng = w.eng /\ v.timer = w.timer
      /\ v.cut = w.cut /\ v.blamed = w.blamed /\ v.told = w.told /\ v.work = w.work
      /\ v.row[r] = ro /\ \A q \in Runs : q # r => v.row[q] = w.row[q]
      /\ v.rt[e][r] = Received0(ph)
      /\ \A f \in Engines, q \in Runs : f # e \/ q # r =>
           v.rt[f][q] = w.rt[f][q] /\ (q \in Range(v.queue[f]) <=> q \in Range(w.queue[f]))
      /\ ph = "queued" => r \in Range(v.queue[e])
  <2>1. IsReceived(w, v, e, r, ph, tick, early, next)
    BY ReceivedRow
  <2> QED
    BY <2>1 DEF IsReceived
<1>2. ro \in Rows(w.sched.tries) /\ IsReceipt(ro, e, ph, tick, early)
  <2>1. Typed(w)
    BY DEF Sound
  <2> QED
    BY <2>1, ReceiptOf
<1> HIDE DEF v, ro
<1>3. Typed(w) /\ Base(w, r) /\ \A q \in Runs : Full(w, q, lost)
  BY DEF Sound, Full
<1>4. /\ v.sched.kind = w.sched.kind /\ v.sched.tries = w.sched.tries /\ w.sched.tries \in Nat \ {0}
  BY <1>1, <1>3 DEF Typed, Worlds, Scheds, NextAt
<1>5. Slots(v) = Slots(w) /\ (\A f \in Engines : ~Here(w, f, r)) /\ \A a \in Slots(w) : w.work[r][a] = NoWork
  BY <1>3, <1>4 DEF Slots, Base, Idle
<1>6. \A a \in Slots(v) : v.work[r][a] = NoWork
  BY <1>1, <1>5
<1>7. Doings(v, r) = {}
  BY <1>6 DEF Doings, Doing, NoWork
<1>8. \A f \in Engines : f # None /\ f # Gone
  BY SchedulerAssumption
<1>9. \A f \in Engines : f # e => ~Here(v, f, r) /\ v.rt[f][r].map = 0
  BY <1>1, <1>3, <1>5 DEF Here, Base, Named
<1>10. /\ v.rt[e][r].map = 0 /\ v.rt[e][r].ep = 0
       /\ v.rt[e][r].ph = IF ph = "skipped" THEN "none" ELSE ph
  BY <1>1 DEF NoRun, Received0
<1>11. Base(v, r)
  <2>1. Idle(v, r)
    BY <1>1, <1>2 DEF Idle, IsReceipt
  <2>2. Counted(v, r)
    BY <1>1, <1>2, <1>4 DEF Counted, Active, Terminal, IsReceipt
  <2>3. Ahead(v, r)
    BY <1>6 DEF Ahead
  <2>4. Epochs(v, r)
    BY <1>1, <1>2, <1>8, <1>9, <1>10 DEF Epochs, Here, Active, IsReceipt
  <2>5. Single(v, r)
    BY <1>1, <1>2, <1>7 DEF Single, IsReceipt
  <2>6. Named(v, r)
    BY <1>1, <1>2, <1>9, <1>10 DEF Named, IsReceipt
  <2>7. Kinds(v, r)
    <3>1. NoWork.st = "none" /\ NoWork.open = FALSE
      BY DEF NoWork
    <3> QED
      BY <1>6, <3>1 DEF Kinds
  <2>8. Informed(v, r)
    BY <1>1, <1>3 DEF Base, Informed, Terminal
  <2> QED
    BY <2>1, <2>2, <2>3, <2>4, <2>5, <2>6, <2>7, <2>8 DEF Base
<1>12. Clean(v, r, lost)
  BY <1>1, <1>2, <1>8, <1>9, <1>10 DEF Clean, Here, IsReceipt
<1>13. Phased(v, r)
  <2>1. CASE ph = "skipped"
    BY <1>1, <1>2, <1>8, <2>1 DEF Phased, IsReceipt
  <2>2. CASE ph # "skipped"
    BY <1>1, <1>2, <1>8, <1>10, <2>2 DEF Phased, IsReceipt
  <2> QED
    BY <2>1, <2>2
<1>14. ASSUME ph # "launching" PROVE Goes(v, r, lost)
  BY <1>1, <1>2, <1>8, <1>14 DEF Goes, Heeds, IsReceipt
<1>15. ASSUME NEW q \in Runs, q # r PROVE Full(v, q, lost)
  <2>1. \A f \in Engines : /\ v.rt[f][q] = w.rt[f][q]
                           /\ w.row[q].own = f /\ q \in Range(w.queue[f]) => q \in Range(v.queue[f])
    BY <1>1, <1>15
  <2>2. Informed(v, q)
    BY <1>1, <1>3, <1>15 DEF Full, Base, Informed
  <2> QED
    BY <1>1, <1>3, <1>4, <1>15, <2>1, <2>2, SameRun
<1>16. Onward(w, v, e)
  <2>1. \A q \in Runs : Outlasts(w, v, e, q)
    BY <1>1, <1>5 DEF Outlasts, Terminal, NoWork
  <2> QED
    BY <1>1, <1>4, <2>1 DEF Onward
<1> QED
  BY <1>1, <1>7, <1>11, <1>12, <1>13, <1>14, <1>15, <1>16 DEF Others, Full, Receives, v
=============================================================================
