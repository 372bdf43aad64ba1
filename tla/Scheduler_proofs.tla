------------------------- MODULE Scheduler_proofs -------------------------
(***************************************************************************)
(* The theorems of Scheduler: what the lemmas of SchedulerRuns_proofs say   *)
(* of the runs, joined with the clock (Clocked), action by action.          *)
(***************************************************************************)
EXTENDS SchedulerRuns_proofs

-----------------------------------------------------------------------------
(* Half ticks *)

\* The next occurrence is the first even half tick strictly later.
LEMMA NextTickIs ==
  ASSUME NEW t \in Nat
  PROVE  /\ NextTick(t) \in Nat /\ NextTick(t) % 2 = 0 /\ t < NextTick(t) /\ NextTick(t) <= t + 2
         /\ (t + 1) % 2 = 0 => NextTick(t) = t + 1 /\ NextTick(t + 1) = t + 3
         /\ (t + 1) % 2 # 0 => NextTick(t) = t + 2 /\ NextTick(t + 1) = t + 2
BY DEF NextTick

\* Occurrences are two half ticks apart.
LEMMA Even ==
  ASSUME NEW x \in Nat, NEW y \in Nat, x % 2 = 0, y % 2 = 0
  PROVE  /\ (x + 2) % 2 = 0
         /\ x < y => x + 2 <= y
BY SMT

-----------------------------------------------------------------------------
(* Launches that are awaited *)

\* No step of an engine forgets a launch that is awaited.
LEMMA StepsAwaits ==
  ASSUME NEW w, NEW v, NEW e, Steps(w, v, e), NEW f, AwaitsIn(w, f)
  PROVE  AwaitsIn(v, f)
<1>1. Slots(v) = Slots(w)
  BY DEF Steps, Slots
<1>2. PICK r \in Runs : \E a \in Slots(w) :
        w.work[r][a].host = f /\ w.work[r][a].arm /\ (w.work[r][a].st = "creating" \/ w.work[r][a].open)
  BY DEF AwaitsIn
<1>3. Kept(w, v, r)
  BY DEF Steps
<1> QED
  BY <1>1, <1>2, <1>3 DEF AwaitsIn, Kept

\* What one engine does leaves the launches another awaits.
LEMMA OnwardAwaits ==
  ASSUME NEW w, NEW v, NEW e, Onward(w, v, e), NEW f, f # e, AwaitsIn(w, f)
  PROVE  AwaitsIn(v, f)
<1>1. Slots(v) = Slots(w)
  BY DEF Onward, Slots
<1>2. PICK r \in Runs : \E a \in Slots(w) :
        w.work[r][a].host = f /\ w.work[r][a].arm /\ (w.work[r][a].st = "creating" \/ w.work[r][a].open)
  BY DEF AwaitsIn
<1>3. Outlasts(w, v, e, r)
  BY DEF Onward
<1> QED
  BY <1>1, <1>2, <1>3 DEF AwaitsIn, Outlasts

\* Row r became the run of an occurrence.
Took(w, v, r, tick, early) ==
  /\ w.row[r].st = "none" /\ v.row[r].st # "none" /\ v.row[r].tick = tick /\ v.row[r].early = early
  /\ \A q \in Runs : q # r => Lasts(w, v, q)

Accepts(w, v, e, r, tick, early, next) ==
  /\ Onward(w, v, e) /\ Took(w, v, r, tick, early) /\ (Told(w) => Told(v))
  /\ v.sched = NextAt(w.sched, next) /\ v.timer = w.timer /\ v.cut = w.cut /\ v.eng = w.eng
  /\ \A f \in Engines : AwaitsIn(w, f) => AwaitsIn(v, f)

\* createRuntime accepts a run: the cursor moves with its receipt, and nothing before it
\* is disturbed.
LEMMA ReceivedAccepts ==
  ASSUME NEW w, NEW e \in Engines, NEW r \in Runs, NEW lost \in BOOLEAN,
         NEW ph, ph \in {"skipped", "queued", "launching"}, NEW tick, tick \in Nat, NEW early, early \in BOOLEAN,
         NEW next, next \in Nat, Sound(w, lost), w.row[r].st = "none", w.eng[e] # "absent"
  PROVE  LET v == Received(w, e, r, ph, tick, early, next) IN
         ph # "skipped" => Accepts(w, v, e, r, tick, early, next)
<1> DEFINE v == Received(w, e, r, ph, tick, early, next)
           ro == Receipt(w, e, ph, tick, early)
<1>1. IsReceived(w, v, e, r, ph, tick, early, next)
  BY ReceivedRow
<1>2. Onward(w, v, e)
  BY ReceivedSound, ZenonT(60) DEF Receives
<1>3. IsReceipt(ro, e, ph, tick, early)
  <2>1. Typed(w)
    BY DEF Sound
  <2> QED
    BY <2>1, ReceiptOf
<1> HIDE DEF v, ro
<1>4. v.row[r] = ro /\ v.sched.tries = w.sched.tries
  <2>1. NextAt(w.sched, next).tries = w.sched.tries
    BY DEF Sound, Typed, Worlds, Scheds, NextAt
  <2> QED
    BY <1>1, <2>1 DEF IsReceived, ro
<1>5. ASSUME ph # "skipped" PROVE Took(w, v, r, tick, early) /\ (Told(w) => Told(v))
  <2>1. Took(w, v, r, tick, early)
    BY <1>1, <1>3, <1>4, <1>5 DEF IsReceived, IsReceipt, Took, Lasts
  <2>2. Told(w) => Told(v)
    BY <1>1, <1>3, <1>4, <1>5 DEF IsReceived, IsReceipt, Told, Known, Terminal
  <2> QED
    BY <2>1, <2>2
<1>6. \A f \in Engines : AwaitsIn(w, f) => AwaitsIn(v, f)
  BY <1>1, <1>4 DEF IsReceived, AwaitsIn, Slots
<1> QED
  BY <1>1, <1>2, <1>5, <1>6 DEF IsReceived, Accepts, v

\* launchRun: the run is skipped, held back or launched.
LEMMA AcceptedSound ==
  ASSUME NEW w, NEW e \in Engines, NEW r \in Runs, NEW lost \in BOOLEAN,
         NEW tick, tick \in Nat, NEW early, early \in BOOLEAN,
         NEW next, next \in Nat, Sound(w, lost), w.row[r].st = "none", w.eng[e] # "absent"
  PROVE  LET v == Accepted(w, e, r, tick, early, next) IN
         Sound(v, lost) /\ Accepts(w, v, e, r, tick, early, next)
<1> DEFINE x(ph) == Received(w, e, r, ph, tick, early, next)
<1>1. ASSUME NEW ph, ph \in {"skipped", "queued", "launching"}
      PROVE  /\ IsReceived(w, x(ph), e, r, ph, tick, early, next)
             /\ Others(x(ph), r, lost) /\ Base(x(ph), r) /\ Clean(x(ph), r, lost) /\ Doings(x(ph), r) = {}
             /\ ph # "launching" => Full(x(ph), r, lost)
             /\ Onward(w, x(ph), e)
             /\ ph # "skipped" => Accepts(w, x(ph), e, r, tick, early, next)
             /\ IsReceipt(x(ph).row[r], e, ph, tick, early)
  <2>1. IsReceived(w, x(ph), e, r, ph, tick, early, next)
    BY <1>1, ReceivedRow
  <2>2. /\ Others(x(ph), r, lost) /\ Base(x(ph), r) /\ Clean(x(ph), r, lost) /\ Doings(x(ph), r) = {}
        /\ ph # "launching" => Full(x(ph), r, lost)
        /\ Onward(w, x(ph), e)
    <3>1. Receives(w, x(ph), e, r, ph, lost)
      BY <1>1, ReceivedSound
    <3> QED
      BY <3>1 DEF Receives
  <2>3. ph # "skipped" => Accepts(w, x(ph), e, r, tick, early, next)
    BY <1>1, ReceivedAccepts
  <2>4. IsReceipt(Receipt(w, e, ph, tick, early), e, ph, tick, early)
    <3>1. Typed(w)
      BY DEF Sound
    <3> QED
      BY <1>1, <3>1, ReceiptOf
  <2>5. x(ph).row[r] = Receipt(w, e, ph, tick, early)
    BY <2>1 DEF IsReceived
  <2> HIDE DEF x
  <2> QED
    BY <2>1, <2>2, <2>3, <2>4, <2>5
<1> HIDE DEF x
<1>2. CASE Accepted(w, e, r, tick, early, next) = Emitted(x("skipped"), e, r)
  <2> DEFINE s == x("skipped")
             v == Emitted(s, e, r)
  <2>1. /\ IsReceived(w, s, e, r, "skipped", tick, early, next) /\ Others(s, r, lost) /\ Full(s, r, lost)
        /\ Onward(w, s, e) /\ IsReceipt(s.row[r], e, "skipped", tick, early)
    BY <1>1
  <2> HIDE DEF s
  <2>2. Sound(s, lost) /\ s.eng = w.eng /\ s.told = w.told /\ Typed(s)
    BY <2>1 DEF Others, Sound, IsReceived
  <2>3. /\ Typed(v) /\ v.sched = s.sched /\ v.row = s.row /\ v.work = s.work /\ v.rt = s.rt /\ v.queue = s.queue
        /\ v.blamed = s.blamed /\ v.eng = s.eng /\ v.timer = s.timer /\ v.cut = s.cut
        /\ v.told \subseteq s.told \cup {<<e, r>>} /\ s.told \subseteq v.told
        /\ (s.eng[e] = "up" => <<e, r>> \in v.told)
    <3>1. CASE s.eng[e] = "up"
      <4>1. v = [s EXCEPT !.told = @ \cup {<<e, r>>}]
        BY <3>1 DEF Emitted
      <4>2. s.told \cup {<<e, r>>} \in SUBSET (Engines \X Runs)
        BY <2>2 DEF Typed, Worlds
      <4> QED
        BY <2>2, <4>1, <4>2, ZenonT(60) DEF Typed, Worlds
    <3>2. CASE s.eng[e] # "up"
      BY <2>2, <3>2 DEF Emitted
    <3> QED
      BY <3>1, <3>2
  <2> HIDE DEF v
  <2>4. s.row[r].st = "skipped" /\ s.row[r].st \in Terminal /\ s.row[r].tick = tick /\ s.row[r].early = early
    BY <2>1 DEF IsReceipt, Terminal
  <2>5. Sound(v, lost)
    <3>1. \A f \in Engines, q \in Runs : <<f, q>> \in v.told => s.row[q].st \in Terminal
      BY <2>2, <2>3, <2>4 DEF Sound, Full, Base, Informed
    <3>2. v.eng[e] # "absent" /\ v.sched.kind = s.sched.kind /\ v.sched.tries = s.sched.tries
      BY <2>2, <2>3
    <3> QED
      BY <2>2, <2>3, <3>1, <3>2, SoundSame
  <2>6. Onward(w, v, e)
    <3>1. Onward(s, v, e)
      BY <2>3 DEF Onward, Outlasts
    <3> QED
      BY <2>1, <3>1, OnwardChain
  <2>7. Took(w, v, r, tick, early)
    BY <2>1, <2>3, <2>4 DEF IsReceived, Took, Lasts
  <2>8. Told(w) => Told(v)
    <3> SUFFICES ASSUME Told(w), NEW q \in Runs, v.row[q].st \in Terminal, ~v.row[q].acked PROVE Known(v, q)
      BY DEF Told
    <3>1. CASE q = r
      BY <2>2, <2>3, <3>1 DEF Known
    <3>2. CASE q # r
      <4>1. Known(w, q)
        BY <2>1, <2>3, <3>2 DEF IsReceived, Told
      <4> QED
        BY <2>2, <2>3, <4>1, KnownStill
    <3> QED
      BY <3>1, <3>2
  <2>9. v.sched = NextAt(w.sched, next) /\ v.timer = w.timer /\ v.cut = w.cut /\ v.eng = w.eng
    BY <2>1, <2>3 DEF IsReceived
  <2>10. \A f \in Engines : AwaitsIn(w, f) => AwaitsIn(v, f)
    <3>1. NextAt(w.sched, next).tries = w.sched.tries
      BY DEF Sound, Typed, Worlds, Scheds, NextAt
    <3>2. v.work = w.work /\ Slots(v) = Slots(w)
      BY <2>1, <2>3, <2>9, <3>1 DEF IsReceived, Slots
    <3> QED
      BY <3>2 DEF AwaitsIn
  <2> QED
    BY <1>2, <2>5, <2>6, <2>7, <2>8, <2>9, <2>10 DEF Accepts, v, s
<1>3. CASE Accepted(w, e, r, tick, early, next) = x("queued")
  <2>1. Others(x("queued"), r, lost) /\ Full(x("queued"), r, lost) /\ Accepts(w, x("queued"), e, r, tick, early, next)
    BY <1>1
  <2>2. Sound(x("queued"), lost)
    BY <2>1 DEF Others, Sound
  <2> QED
    BY <1>3, <2>1, <2>2
<1>4. CASE Accepted(w, e, r, tick, early, next) = Launch(x("launching"), e, r)
  <2> DEFINE s == x("launching")
             v == Launch(s, e, r)
  <2>1. /\ IsReceived(w, s, e, r, "launching", tick, early, next) /\ Others(s, r, lost) /\ Base(s, r)
        /\ Clean(s, r, lost) /\ Doings(s, r) = {} /\ Accepts(w, s, e, r, tick, early, next)
        /\ IsReceipt(s.row[r], e, "launching", tick, early)
    BY <1>1
  <2> HIDE DEF s
  <2>2. s.eng[e] # "absent" /\ s.row[r].own = e /\ Here(s, e, r) /\ Spent(s, r) /\ s.row[r].att < s.sched.tries
    <3>1. s.rt[e][r].ph = "launching"
      BY <2>1 DEF IsReceived, Received0, NoRun
    <3>2. s.row[r].att = 0 /\ s.sched.tries \in Nat \ {0}
      BY <2>1 DEF IsReceived, IsReceipt, Typed, Worlds, Scheds
    <3> QED
      BY <2>1, <3>1, <3>2 DEF IsReceived, IsReceipt, Here, Spent
  <2>3. Sound(v, lost) /\ Steps(s, v, e)
    BY <2>1, <2>2, LaunchSound
  <2> HIDE DEF v
  <2>4. Onward(w, v, e)
    BY <2>1, <2>3, StepsOnward, OnwardChain DEF Accepts
  <2>5. Took(w, v, r, tick, early)
    <3>1. \A q \in Runs : Lasts(s, v, q)
      BY <2>3, StepsOnward
    <3>2. \A q \in Runs : q # r => Lasts(w, v, q)
      BY <2>1, <3>1, LastsChain DEF Accepts, Took
    <3>3. Lasts(s, v, r)
      BY <3>1
    <3> QED
      BY <2>1, <3>2, <3>3 DEF Accepts, Took, Lasts
  <2>6. Told(w) => Told(v)
    BY <2>1, <2>3, StepsTold DEF Accepts
  <2>7. v.sched = NextAt(w.sched, next) /\ v.timer = w.timer /\ v.cut = w.cut /\ v.eng = w.eng
    BY <2>1, <2>3 DEF Accepts, Steps
  <2>8. \A f \in Engines : AwaitsIn(w, f) => AwaitsIn(v, f)
    BY <2>1, <2>3, StepsAwaits DEF Accepts
  <2> QED
    BY <1>4, <2>3, <2>4, <2>5, <2>6, <2>7, <2>8 DEF Accepts, v, s
<1> QED
  BY <1>2, <1>3, <1>4 DEF Accepted, x

-----------------------------------------------------------------------------
(* The clock goes on *)

\* What ended stays as it ended.
Settles(w, v) == \A r \in Runs : w.row[r].st \in Terminal => v.row[r].st = w.row[r].st

\* A turn is a step of its engine.
LEMMA TurnSteps ==
  ASSUME NEW w, NEW v, NEW e \in Engines, NEW r \in Runs, Turn(w, v, e, r)
  PROVE  Steps(w, v, e)
<1>1. \A q \in Runs : q # r => Kept(w, v, q)
  BY DEF Turn, Only, Kept, Lasts
<1>2. \A f \in Engines : f # e => \A q \in Runs : v.rt[f][q] = w.rt[f][q]
  BY DEF Turn, Only
<1> QED
  BY <1>1, <1>2 DEF Turn, Only, Steps

\* A step of an engine keeps the ends of runs.
LEMMA StepsSettles ==
  ASSUME NEW w, NEW v, NEW e, Steps(w, v, e)
  PROVE  Settles(w, v)
BY DEF Steps, Kept, Lasts, Settles

\* Two steps that keep the ends of runs do so together.
LEMMA SettlesChain ==
  ASSUME NEW w, NEW v, NEW u, Settles(w, v), Settles(v, u)
  PROVE  Settles(w, u)
BY DEF Settles

\* The cursor is right as long as the occurrences of the runs and the cursor stay.
LEMMA CursoredStill ==
  ASSUME NEW w, NEW v, NEW t, Cursored(w, t), v.sched.next = w.sched.next, v.sched.on => w.sched.on,
         \A r \in Runs : Lasts(w, v, r)
  PROVE  Cursored(v, t)
BY DEF Cursored, Lasts

\* What is owed stays owed as long as the cursor stays and no run's occurrence is lost.
LEMMA OwesStill ==
  ASSUME NEW w, NEW v, NEW o, NEW t, Owes(w, o, t), v.sched.next = w.sched.next, v.sched.kind = w.sched.kind,
         v.sched.on /\ v.sched.live => w.sched.on /\ w.sched.live, \A r \in Runs : Lasts(w, v, r)
  PROVE  Owes(v, o, t)
<1>1. \A x : (\E r \in Runs : w.row[r].tick = x) => \E r \in Runs : v.row[r].tick = x
  BY DEF Lasts
<1> QED
  BY <1>1 DEF Owes

\* Who owes nothing has paid, if anyone has.
LEMMA OwesLess ==
  ASSUME NEW w, NEW o, NEW t, Owes(w, o, t)
  PROVE  Owes(w, {}, t)
BY DEF Owes

\* A step of an engine while its clock stands.
LEMMA StepsClocked ==
  ASSUME NEW w, NEW v, NEW e \in Engines, NEW o, NEW t, NEW S, S \subseteq Engines,
         w.eng[e] \notin {"down", "absent"} \/ \A q \in Runs : Here(v, e, q) => Here(w, e, q), Steps(w, v, e), Clocked(w, o, t, S)
  PROVE  Clocked(v, o, t, S)
<1>1. \A r \in Runs : Lasts(w, v, r)
  BY StepsOnward
<1>2. v.sched = w.sched /\ v.eng = w.eng /\ v.timer = w.timer /\ v.cut = w.cut
  BY DEF Steps
<1>3. Cursored(v, t) /\ Owes(v, o, t)
  BY <1>1, <1>2, CursoredStill, OwesStill DEF Clocked
<1>4. Housed(v)
  BY <1>2 DEF Clocked, Housed, Here, Steps
<1>5. ASSUME NEW f \in S PROVE Wakes(v, f)
  <2>1. Wakes(w, f) /\ (AwaitsIn(w, f) => AwaitsIn(v, f))
    BY StepsAwaits DEF Clocked
  <2> QED
    BY <1>2, <2>1 DEF Wakes, Serves
<1> QED
  BY <1>3, <1>4, <1>5 DEF Clocked

\* The other engines wake as they did while the cursor does not go back.
LEMMA OthersWake ==
  ASSUME NEW w, NEW v, NEW e, NEW f \in Engines, f # e, Onward(w, v, e), Wakes(w, f),
         w.timer[f] \in Nat, w.sched.next \in Nat, v.sched.next \in Nat,
         v.sched.live /\ v.sched.on => w.sched.live /\ w.sched.on /\ w.sched.next <= v.sched.next
  PROVE  Wakes(v, f)
<1>1. AwaitsIn(w, f) => AwaitsIn(v, f)
  BY OnwardAwaits
<1>2. v.eng[f] = w.eng[f] /\ v.timer[f] = w.timer[f] /\ (f \in w.cut => f \in v.cut) /\ v.sched.kind = w.sched.kind
  BY DEF Onward
<1>3. CASE ~(v.sched.live /\ v.sched.on)
  BY <1>3 DEF Wakes, Serves
<1>4. CASE v.sched.live /\ v.sched.on
  <2>1. w.sched.live /\ w.sched.on /\ w.sched.next <= v.sched.next
    BY <1>4
  <2>2. Serves(v, f) => Serves(w, f)
    BY <1>2, <2>1 DEF Serves
  <2> QED
    BY <1>1, <1>2, <2>1, <2>2 DEF Wakes
<1> QED
  BY <1>3, <1>4

\* What a well-typed world says of its clock has its type.
LEMMA TypedClock ==
  ASSUME NEW w, Typed(w)
  PROVE  /\ w.sched.next \in Nat /\ (\A f \in Engines : w.timer[f] \in Nat /\ w.eng[f] \in Lives)
         /\ w.cut \in SUBSET Engines /\ w.told \in SUBSET (Engines \X Runs)
         /\ w.sched.tries \in Nat \ {0} /\ w.sched.runs \in 1..MaxRuns
         /\ w.sched.kind \in {"session", "workflow", "dispatch"}
BY DEF Typed, Worlds, Scheds

\* A step of e that changes what e serves and how it wakes.
LEMMA OnwardClocked ==
  ASSUME NEW w, NEW v, NEW e \in Engines, NEW o, NEW t, NEW S, S \subseteq Engines, Typed(w), Typed(v),
         Onward(w, v, e), \A r \in Runs : Lasts(w, v, r),
         v.sched.next = w.sched.next, v.sched.on = w.sched.on, v.sched.live = w.sched.live,
         v.eng[e] \in {"down", "absent"} => \A r \in Runs : ~Here(v, e, r), Clocked(w, o, t, S)
  PROVE  Clocked(v, o, t, S \ {e})
<1>1. Cursored(v, t) /\ Owes(v, o, t)
  BY CursoredStill, OwesStill DEF Clocked, Onward
<1>2. Housed(v)
  BY DEF Clocked, Housed, Here, Onward
<1>3. ASSUME NEW f \in S, f # e PROVE Wakes(v, f)
  <2>1. Wakes(w, f) /\ f \in Engines
    BY DEF Clocked
  <2>2. w.timer[f] \in Nat /\ w.sched.next \in Nat
    BY <2>1, TypedClock
  <2> QED
    BY <1>3, <2>1, <2>2, OthersWake
<1> QED
  BY <1>1, <1>2, <1>3 DEF Clocked

\* armCron: the engine wakes at the next occurrence.
LEMMA ArmedFine ==
  ASSUME NEW w, NEW e \in Engines, NEW lost, NEW o, NEW t, NEW S, S \subseteq Engines, Sound(w, lost),
         Clocked(w, o, t, S \ {e})
  PROVE  LET v == Armed(w, e) IN
         /\ Sound(v, lost) /\ Clocked(v, o, t, S) /\ Settles(w, v)
         /\ v.sched = w.sched /\ v.told = w.told /\ v.row = w.row /\ v.eng = w.eng /\ v.work = w.work
<1> DEFINE v == Armed(w, e)
<1>1. CASE w.eng[e] = "down" \/ (w.eng[e] = "clock" /\ w.sched.kind # "dispatch")
  <2>1. v = w
    BY <1>1 DEF Armed
  <2>2. Wakes(w, e)
    BY <1>1 DEF Wakes, Serves
  <2> QED
    BY <2>1, <2>2 DEF Clocked, Settles
<1>2. CASE ~(w.eng[e] = "down" \/ (w.eng[e] = "clock" /\ w.sched.kind # "dispatch"))
  <2>1. v = [w EXCEPT !.timer[e] = w.sched.next, !.cut = @ \ {e}]
    BY <1>2 DEF Armed
  <2>2. Typed(w) /\ w.sched.next \in Nat
    BY TypedClock DEF Sound
  <2>3. /\ Typed(v) /\ v.sched = w.sched /\ v.row = w.row /\ v.eng = w.eng /\ v.rt = w.rt /\ v.queue = w.queue
        /\ v.work = w.work /\ v.told = w.told /\ v.blamed = w.blamed
        /\ v.timer[e] = w.sched.next /\ v.cut = w.cut \ {e}
        /\ \A f \in Engines : f # e => v.timer[f] = w.timer[f]
    <3> DEFINE tm == [w.timer EXCEPT ![e] = w.sched.next]
               cu == w.cut \ {e}
    <3>1. w.timer \in [Engines -> Nat] /\ w.cut \in SUBSET Engines
      BY <2>2 DEF Typed, Worlds
    <3>2. /\ tm \in [Engines -> Nat] /\ tm[e] = w.sched.next /\ cu \in SUBSET Engines
          /\ \A f \in Engines : f # e => tm[f] = w.timer[f]
      BY <2>2, <3>1
    <3>3. v = [w EXCEPT !.timer = tm, !.cut = cu]
      BY <2>1, <2>2 DEF Typed, Worlds
    <3>4. cu = w.cut \ {e}
      OBVIOUS
    <3> HIDE DEF tm, cu, v
    <3> QED
      BY <2>2, <3>2, <3>3, <3>4 DEF Typed, Worlds
  <2> HIDE DEF v
  <2>4. Sound(v, lost)
    <3>1. \A f \in Engines, r \in Runs : <<f, r>> \in v.told => w.row[r].st \in Terminal
      BY <2>3 DEF Sound, Full, Base, Informed
    <3> QED
      BY <2>3, <3>1, SoundSame
  <2>5. Onward(w, v, e) /\ \A r \in Runs : Lasts(w, v, r)
    BY <2>3, SameOnward
  <2>6. Clocked(v, o, t, S \ {e})
    <3>1. v.eng[e] \in {"down", "absent"} => \A r \in Runs : ~Here(v, e, r)
      BY <2>3 DEF Clocked, Housed, Here
    <3>2. Clocked(v, o, t, (S \ {e}) \ {e})
      BY <2>2, <2>3, <2>5, <3>1, OnwardClocked
    <3> QED
      BY <3>2 DEF Clocked
  <2>7. Wakes(v, e)
    <3>1. w.sched.on => w.sched.next # 0
      BY <2>2 DEF Clocked, Cursored
    <3> QED
      BY <2>2, <2>3, <3>1 DEF Wakes, Serves
  <2> QED
    BY <2>3, <2>4, <2>6, <2>7 DEF Clocked, Settles, v
<1> QED
  BY <1>1, <1>2

\* A clock that is cut: its engine need not wake.
LEMMA CutFine ==
  ASSUME NEW w, NEW v, NEW e \in Engines, NEW lost, NEW o, NEW t, NEW S, S \subseteq Engines, Sound(w, lost),
         Clocked(w, o, t, S \ {e}), v = [w EXCEPT !.cut = @ \cup {e}]
  PROVE  /\ Sound(v, lost) /\ Clocked(v, o, t, S) /\ Settles(w, v)
         /\ v.sched = w.sched /\ v.told = w.told /\ v.row = w.row /\ v.eng = w.eng /\ v.work = w.work
<1>1. Typed(w)
  BY DEF Sound
<1>2. /\ Typed(v) /\ v.sched = w.sched /\ v.row = w.row /\ v.eng = w.eng /\ v.rt = w.rt /\ v.queue = w.queue
      /\ v.work = w.work /\ v.told = w.told /\ v.blamed = w.blamed
      /\ v.timer = w.timer /\ v.cut = w.cut \cup {e}
  BY <1>1 DEF Typed, Worlds
<1>3. Sound(v, lost)
  <2>1. \A f \in Engines, r \in Runs : <<f, r>> \in v.told => w.row[r].st \in Terminal
    BY <1>2 DEF Sound, Full, Base, Informed
  <2> QED
    BY <1>2, <2>1, SoundSame
<1>4. Onward(w, v, e) /\ \A r \in Runs : Lasts(w, v, r)
  BY <1>2, SameOnward
<1>5. Clocked(v, o, t, S \ {e})
  <2>1. v.eng[e] \in {"down", "absent"} => \A r \in Runs : ~Here(v, e, r)
    BY <1>2 DEF Clocked, Housed, Here
  <2>2. Clocked(v, o, t, (S \ {e}) \ {e})
    BY <1>1, <1>2, <1>4, <2>1, OnwardClocked
  <2> QED
    BY <2>2 DEF Clocked
<1>6. Wakes(v, e)
  BY <1>2 DEF Wakes, Serves
<1> QED
  BY <1>2, <1>3, <1>5, <1>6 DEF Clocked, Settles

\* Arming an engine's timer makes its clock right.
LEMMA RearmedFine ==
  ASSUME NEW w, NEW e \in Engines, NEW lost, NEW o, NEW t, NEW S, S \subseteq Engines, Sound(w, lost),
         Clocked(w, o, t, S \ {e})
  PROVE  LET v == Rearmed(w, e) IN
         /\ Sound(v, lost) /\ Clocked(v, o, t, S) /\ Settles(w, v)
         /\ v.sched = w.sched /\ v.told = w.told /\ v.row = w.row /\ v.eng = w.eng /\ v.work = w.work
<1>1. CASE w.sched.live /\ w.sched.on
  BY <1>1, ArmedFine DEF Rearmed
<1>2. CASE ~(w.sched.live /\ w.sched.on)
  <2>1. Rearmed(w, e) = [w EXCEPT !.cut = @ \cup {e}]
    BY <1>2 DEF Rearmed
  <2> QED
    BY <2>1, CutFine
<1> QED
  BY <1>1, <1>2

\* A timer that fired, and a cut clock: the engine need not wake.
LEMMA TimerFine ==
  ASSUME NEW w, NEW v, NEW e \in Engines, NEW lost, NEW o, NEW t, Sound(w, lost), w.eng[e] # "absent",
         Clocked(w, o, t, Engines \ {e}), v = [w EXCEPT !.timer[e] = 0]
  PROVE  /\ Sound(v, lost) /\ Clocked(v, o, t, Engines \ {e}) /\ Settles(w, v)
         /\ v.sched = w.sched /\ v.told = w.told /\ v.row = w.row /\ v.eng = w.eng /\ v.work = w.work
<1>1. Typed(w)
  BY DEF Sound
<1>2. /\ Typed(v) /\ v.sched = w.sched /\ v.row = w.row /\ v.eng = w.eng /\ v.rt = w.rt /\ v.queue = w.queue
      /\ v.work = w.work /\ v.told = w.told /\ v.blamed = w.blamed
      /\ v.cut = w.cut /\ \A f \in Engines : f # e => v.timer[f] = w.timer[f]
  BY <1>1 DEF Typed, Worlds
<1>3. Sound(v, lost)
  <2>1. \A f \in Engines, r \in Runs : <<f, r>> \in v.told => w.row[r].st \in Terminal
    BY <1>2 DEF Sound, Full, Base, Informed
  <2>2. v.eng[e] # "absent" /\ v.sched.kind = w.sched.kind /\ v.sched.tries = w.sched.tries
    BY <1>2
  <2> QED
    BY <1>2, <2>1, <2>2, SoundSame
<1>4. Onward(w, v, e) /\ \A r \in Runs : Lasts(w, v, r)
  BY <1>2, SameOnward
<1>5. Clocked(v, o, t, Engines \ {e})
  <2>1. v.eng[e] \in {"down", "absent"} => \A r \in Runs : ~Here(v, e, r)
    BY <1>2 DEF Clocked, Housed, Here
  <2>2. Clocked(v, o, t, (Engines \ {e}) \ {e})
    BY <1>1, <1>2, <1>4, <2>1, OnwardClocked
  <2> QED
    BY <2>2 DEF Clocked
<1> QED
  BY <1>2, <1>3, <1>5 DEF Settles

\* What changes only the schedule and the clocks.
OnlyClock(w, v) ==
  /\ Typed(v) /\ v.row = w.row /\ v.work = w.work /\ v.rt = w.rt /\ v.queue = w.queue /\ v.told = w.told
  /\ v.blamed = w.blamed /\ v.eng = w.eng /\ v.sched.kind = w.sched.kind /\ v.sched.tries = w.sched.tries

\* A change of timers and cursor alone leaves the runs sound.
LEMMA OnlyClockSound ==
  ASSUME NEW w, NEW v, NEW e \in Engines, NEW lost, Sound(w, lost), w.eng[e] # "absent", OnlyClock(w, v)
  PROVE  /\ Sound(v, lost) /\ Settles(w, v) /\ (Told(w) => Told(v)) /\ (Housed(w) => Housed(v))
         /\ \A r \in Runs : Lasts(w, v, r)
<1> USE DEF OnlyClock
<1>1. \A f \in Engines, r \in Runs : <<f, r>> \in v.told => w.row[r].st \in Terminal
  BY DEF Sound, Full, Base, Informed
<1>2. Sound(v, lost)
  BY <1>1, SoundSame
<1> QED
  BY <1>2 DEF Settles, Told, Known, Housed, Here, Lasts

\* update with enabled = FALSE
LEMMA DisabledFine ==
  ASSUME NEW w, NEW e \in Engines, NEW lost \in BOOLEAN, NEW o, NEW t, Sound(w, lost), w.eng[e] \notin {"down", "absent"},
         Clocked(w, o, t, {})
  PROVE  LET v == Disabled(w, e) IN
         /\ Sound(v, lost) /\ Clocked(v, o, t, Engines) /\ Settles(w, v) /\ (Told(w) => Told(v))
         /\ v.sched.on = FALSE /\ v.sched.kind = w.sched.kind /\ v.sched.live = w.sched.live /\ v.eng = w.eng
<1> DEFINE sc == [w.sched EXCEPT !.on = FALSE, !.next = 0]
           tm == [w.timer EXCEPT ![e] = 0]
           cu == w.cut \cup {e}
           s == [w EXCEPT !.sched = sc, !.timer = tm, !.cut = cu]
           v == QueueCancelled(s, e)
<1>1. Typed(w)
  BY DEF Sound
<1>2. Disabled(w, e) = v
  <2>1. [w EXCEPT !.sched.on = FALSE, !.sched.next = 0, !.timer[e] = 0, !.cut = @ \cup {e}] = s
    BY <1>1 DEF Typed, Worlds, Scheds
  <2> QED
    BY <2>1 DEF Disabled
<1>3. /\ sc \in Scheds /\ sc.on = FALSE /\ sc.next = 0 /\ sc.kind = w.sched.kind /\ sc.tries = w.sched.tries
      /\ sc.live = w.sched.live
  BY <1>1 DEF Typed, Worlds, Scheds
<1>4. tm \in [Engines -> Nat] /\ cu \in SUBSET Engines
  BY <1>1 DEF Typed, Worlds
<1> HIDE DEF sc, tm, cu
<1>5. OnlyClock(w, s) /\ s.sched = sc
  BY <1>1, <1>3, <1>4 DEF OnlyClock, Typed, Worlds
<1> HIDE DEF s
<1>6. Sound(s, lost) /\ Settles(w, s) /\ (Told(w) => Told(s)) /\ Housed(s) /\ \A r \in Runs : Lasts(w, s, r)
  BY <1>5, OnlyClockSound DEF Clocked
<1>7. Clocked(s, o, t, Engines)
  <2>1. Cursored(s, t)
    BY <1>3, <1>5, <1>6 DEF Clocked, Cursored, Lasts
  <2>2. Owes(s, o, t) /\ \A f \in Engines : Wakes(s, f)
    BY <1>3, <1>5 DEF Owes, Wakes, Serves
  <2> QED
    BY <1>6, <2>1, <2>2 DEF Clocked
<1>8. s.eng = w.eng
  BY <1>5 DEF OnlyClock
<1>9. Sound(v, lost) /\ Steps(s, v, e)
  BY <1>6, <1>8, QueueCancelledSound
<1> HIDE DEF v
<1>10. Clocked(v, o, t, Engines) /\ Settles(w, v) /\ (Told(w) => Told(v))
  BY <1>6, <1>7, <1>8, <1>9, StepsClocked, StepsSettles, SettlesChain, StepsTold
<1>11. v.sched = sc /\ v.eng = w.eng
  BY <1>5, <1>8, <1>9 DEF Steps
<1> QED
  BY <1>2, <1>3, <1>9, <1>10, <1>11

\* The cursor moves past the present.
LEMMA CursorFine ==
  ASSUME NEW w, NEW e \in Engines, NEW lost \in BOOLEAN, NEW o, NEW t \in Nat, Sound(w, lost), w.eng[e] # "absent",
         Clocked(w, o, t, Engines \ {e}), w.sched.next <= t + 1, o = {} \/ w.sched.kind # "dispatch"
  PROVE  LET v == [w EXCEPT !.sched.next = NextTick(t)] IN
         /\ Sound(v, lost) /\ Clocked(v, o, t, Engines \ {e}) /\ Settles(w, v) /\ (Told(w) => Told(v))
         /\ v.sched.on = w.sched.on /\ v.sched.kind = w.sched.kind /\ v.sched.live = w.sched.live /\ v.eng = w.eng
<1> DEFINE n == NextTick(t)
           sc == [w.sched EXCEPT !.next = n]
           v == [w EXCEPT !.sched.next = n]
<1>1. Typed(w) /\ w.sched.next \in Nat
  BY TypedClock DEF Sound
<1>2. n \in Nat /\ n % 2 = 0 /\ t + 1 <= n
  BY NextTickIs
<1> HIDE DEF n
<1>3. /\ sc \in Scheds /\ sc.next = n /\ sc.on = w.sched.on /\ sc.live = w.sched.live /\ sc.kind = w.sched.kind
      /\ sc.tries = w.sched.tries
  BY <1>1, <1>2 DEF Typed, Worlds, Scheds
<1>4. v = [w EXCEPT !.sched = sc]
  BY <1>1 DEF Typed, Worlds
<1> HIDE DEF sc, v
<1>5. OnlyClock(w, v) /\ v.sched = sc /\ v.timer = w.timer /\ v.cut = w.cut
  BY <1>1, <1>3, <1>4 DEF OnlyClock, Typed, Worlds
<1>6. Sound(v, lost) /\ Settles(w, v) /\ (Told(w) => Told(v)) /\ Housed(v) /\ \A r \in Runs : Lasts(w, v, r)
  BY <1>5, OnlyClockSound DEF Clocked
<1>7. Cursored(v, t)
  <2>1. \A r \in Runs : w.row[r].tick \in Nat
    <3>1. \A r \in Runs : w.row[r] \in Rows(w.sched.tries)
      BY <1>1 DEF Typed, Worlds
    <3> QED
      BY <3>1 DEF Rows
  <2>2. v.row = w.row
    BY <1>5 DEF OnlyClock
  <2> QED
    BY <1>1, <1>2, <1>3, <1>5, <2>1, <2>2 DEF Clocked, Cursored
<1>8. Owes(v, o, t)
  BY <1>2, <1>3, <1>5 DEF Owes, n
<1>9. ASSUME NEW f \in Engines \ {e} PROVE Wakes(v, f)
  <2>1. Wakes(w, f) /\ w.timer[f] \in Nat /\ f # e
    BY <1>1, TypedClock DEF Clocked
  <2>2. Onward(w, v, e)
    BY <1>3, <1>5, SameOnward DEF OnlyClock
  <2>3. w.sched.next <= v.sched.next
    BY <1>1, <1>2, <1>3, <1>5
  <2> QED
    BY <1>1, <1>2, <1>3, <1>5, <2>1, <2>2, <2>3, OthersWake
<1> QED
  BY <1>3, <1>5, <1>6, <1>7, <1>8, <1>9 DEF Clocked, OnlyClock, v, n

-----------------------------------------------------------------------------
(* An occurrence becomes a run: the cursor and the clocks *)

\* The row taken is the first one not in use.
LEMMA FirstFresh ==
  ASSUME NEW w, Typed(w), Fresh(w) # {}
  PROVE  LET r == Min(Fresh(w)) IN
         r \in Runs /\ w.row[r].st = "none" /\ \A q \in Runs : q < r => w.row[q].st # "none"
<1>1. w.sched.runs \in 1..MaxRuns /\ MaxRuns \in Nat
  BY TypedClock, SchedulerAssumption
<1>2. Fresh(w) \subseteq Nat /\ Fresh(w) \subseteq Runs
  BY <1>1 DEF Fresh, Runs
<1>3. Min(Fresh(w)) \in Fresh(w) /\ \A x \in Fresh(w) : Min(Fresh(w)) <= x
  BY <1>2, LeastOf
<1> DEFINE r == Min(Fresh(w))
<1> HIDE DEF r
<1>4. ASSUME NEW q \in Runs, q < r, w.row[q].st = "none" PROVE FALSE
  <2>1. r \in 1..w.sched.runs /\ q \in 1..w.sched.runs
    BY <1>1, <1>3, <1>4 DEF Fresh, Runs, r
  <2>2. q \in Fresh(w)
    BY <1>4, <2>1 DEF Fresh
  <2>3. r <= q
    BY <1>3, <2>2 DEF r
  <2> QED
    BY <1>1, <1>4, <2>1, <2>3
<1> QED
  BY <1>2, <1>3, <1>4 DEF Fresh, r

\* How a run takes its occurrence: by request it has none, and the cursor stays.
Takes(w, t, tick, early, next) ==
  /\ w.sched.on /\ next \in Nat /\ next % 2 = 0 /\ w.sched.next <= next
  /\ \/ tick = 0 /\ next = w.sched.next
     \/ tick = w.sched.next /\ tick <= t + 1 /\ (t < tick => early) /\ (early \/ tick < next)

\* An accepted occurrence keeps the cursor beyond all that was received.
LEMMA AcceptsCursored ==
  ASSUME NEW w, NEW v, NEW e \in Engines, NEW r \in Runs, NEW lost, NEW t \in Nat, NEW tick, tick \in Nat, NEW early,
         NEW next, Sound(w, lost), Cursored(w, t), Accepts(w, v, e, r, tick, early, next), Takes(w, t, tick, early, next),
         \A q \in Runs : q < r => w.row[q].st # "none"
  PROVE  Cursored(v, t)
<1>1. Typed(w) /\ w.sched.next \in Nat
  BY TypedClock DEF Sound
<1>2. v.sched.next = next /\ v.sched.on = w.sched.on
  <2>1. NextAt(w.sched, next).next = next /\ NextAt(w.sched, next).on = w.sched.on
    BY <1>1 DEF Typed, Worlds, Scheds, NextAt
  <2> QED
    BY <2>1 DEF Accepts
<1>3. /\ w.row[r].st = "none" /\ v.row[r].st # "none" /\ v.row[r].tick = tick /\ v.row[r].early = early
      /\ \A q \in Runs : q # r => Lasts(w, v, q)
  BY DEF Accepts, Took
<1>4. \A q \in Runs : w.row[q].tick \in Nat
  <2>1. \A q \in Runs : w.row[q] \in Rows(w.sched.tries)
    BY <1>1 DEF Typed, Worlds
  <2> QED
    BY <2>1 DEF Rows
<1>5. \A q \in Runs : w.row[q].st = "none" => w.row[q].tick = 0
  BY DEF Sound, Full, Base, Idle, NoRow
<1>6. w.sched.next > 0
  BY <1>1 DEF Cursored, Takes
<1>7. \A q \in Runs : q > r => w.row[q].st = "none"
  BY <1>3 DEF Cursored
<1>8. Runs \subseteq Nat
  BY DEF Runs
<1>9. \A q, p \in Runs : q < p /\ v.row[p].st # "none" => v.row[q].st # "none"
  <2> SUFFICES ASSUME NEW q \in Runs, NEW p \in Runs, q < p, v.row[p].st # "none" PROVE v.row[q].st # "none"
    OBVIOUS
  <2>1. CASE q = r
    BY <1>3, <2>1
  <2>2. CASE q # r /\ p = r
    BY <1>3, <2>2 DEF Lasts
  <2>3. CASE q # r /\ p # r
    <3>1. w.row[p].st # "none"
      BY <1>3, <2>3 DEF Lasts
    <3>2. w.row[q].st # "none"
      BY <3>1 DEF Cursored
    <3> QED
      BY <1>3, <2>3, <3>2 DEF Lasts
  <2> QED
    BY <2>1, <2>2, <2>3
<1>10. ASSUME NEW q \in Runs, v.row[q].tick # 0, ~v.row[q].early
       PROVE  v.row[q].tick <= t /\ v.row[q].tick < next
  <2>1. CASE q = r
    <3>1. v.row[q].tick = tick /\ tick # 0 /\ ~early
      BY <1>3, <1>10, <2>1
    <3>2. ~(t < tick) /\ tick < next
      BY <3>1 DEF Takes
    <3> QED
      BY <3>1, <3>2
  <2>2. CASE q # r
    <3>1. v.row[q].tick = w.row[q].tick /\ w.row[q].tick # 0 /\ ~w.row[q].early
      BY <1>3, <1>10, <2>2 DEF Lasts
    <3>2. w.row[q].tick <= t /\ w.row[q].tick < w.sched.next
      BY <1>6, <3>1 DEF Cursored
    <3> QED
      BY <1>1, <1>4, <3>1, <3>2 DEF Takes
  <2> QED
    BY <2>1, <2>2
<1>11. ASSUME NEW q \in Runs, NEW p \in Runs, q < p, v.row[q].tick # 0, v.row[q].tick = v.row[p].tick
       PROVE  v.row[q].early
  <2>1. CASE q = r
    <3>1. p # r /\ w.row[p].st = "none"
      BY <1>7, <1>8, <1>11, <2>1
    <3>2. v.row[p].tick = 0
      BY <1>3, <1>5, <3>1 DEF Lasts
    <3> QED
      BY <1>11, <3>2
  <2>2. CASE q # r /\ p = r
    <3>1. v.row[q].tick = w.row[q].tick /\ v.row[q].early = w.row[q].early /\ w.row[q].tick = w.sched.next
      BY <1>3, <1>11, <2>2 DEF Takes, Lasts
    <3>2. ~w.row[q].early => w.row[q].tick < w.sched.next
      BY <1>6, <1>11, <3>1 DEF Cursored
    <3> QED
      BY <1>1, <3>1, <3>2
  <2>3. CASE q # r /\ p # r
    BY <1>3, <1>11, <2>3 DEF Cursored, Lasts
  <2> QED
    BY <2>1, <2>2, <2>3
<1> QED
  BY <1>1, <1>2, <1>6, <1>9, <1>10, <1>11 DEF Cursored, Takes

\* What of a dispatch remains owed.
LEMMA AcceptsOwes ==
  ASSUME NEW w, NEW v, NEW e \in Engines, NEW r \in Runs, NEW lost, NEW t \in Nat, NEW tick, tick \in Nat, NEW early,
         NEW next, next \in Nat, NEW o, Sound(w, lost), Owes(w, o, t), Cursored(w, t), w.sched.on,
         Accepts(w, v, e, r, tick, early, next), \A x \in o : x \in Nat \ {0} /\ x % 2 = 0,
         \/ tick = 0 /\ next = w.sched.next
         \/ tick = w.sched.next /\ tick <= t + 1 /\ next = w.sched.next + 2
         \/ (o = {} \/ w.sched.kind # "dispatch") /\ next = NextTick(t)
  PROVE  Owes(v, o, t)
<1>1. Typed(w) /\ w.sched.next \in Nat
  BY TypedClock DEF Sound
<1>2. /\ v.sched.next = next /\ v.sched.on = w.sched.on /\ v.sched.live = w.sched.live
      /\ v.sched.kind = w.sched.kind
  <2>1. /\ NextAt(w.sched, next).next = next /\ NextAt(w.sched, next).on = w.sched.on
        /\ NextAt(w.sched, next).live = w.sched.live /\ NextAt(w.sched, next).kind = w.sched.kind
    BY <1>1 DEF Typed, Worlds, Scheds, NextAt
  <2> QED
    BY <2>1 DEF Accepts
<1>3. /\ w.row[r].st = "none" /\ v.row[r].tick = tick
      /\ \A q \in Runs : q # r => v.row[q].tick = w.row[q].tick
  BY DEF Accepts, Took, Lasts
<1>4. w.row[r].tick = 0
  BY <1>3 DEF Sound, Full, Base, Idle, NoRow
<1>5. ASSUME NEW x, x # 0, \E q \in Runs : w.row[q].tick = x PROVE \E q \in Runs : v.row[q].tick = x
  BY <1>3, <1>4, <1>5
<1>6. NextTick(t) \in Nat /\ NextTick(t) # 0 /\ NextTick(t) % 2 = 0 /\ t < NextTick(t) /\ NextTick(t) <= t + 2
  BY NextTickIs
<1> SUFFICES ASSUME w.sched.on, w.sched.live, w.sched.kind = "dispatch"
             PROVE  /\ \A x \in o : next <= x \/ \E q \in Runs : v.row[q].tick = x
                    /\ \/ next <= NextTick(t)
                       \/ next = NextTick(t) + 2 /\ \E q \in Runs : v.row[q].tick = NextTick(t)
  BY <1>2 DEF Owes
<1>7. /\ \A x \in o : w.sched.next <= x \/ \E q \in Runs : w.row[q].tick = x
      /\ \/ w.sched.next <= NextTick(t)
         \/ w.sched.next = NextTick(t) + 2 /\ \E q \in Runs : w.row[q].tick = NextTick(t)
  BY DEF Owes
<1>8. CASE tick = 0 /\ next = w.sched.next
  BY <1>5, <1>6, <1>7, <1>8
<1>9. CASE tick = w.sched.next /\ tick <= t + 1 /\ next = w.sched.next + 2
  <2>1. w.sched.next % 2 = 0
    BY DEF Cursored
  <2>2. ASSUME NEW x \in o PROVE next <= x \/ \E q \in Runs : v.row[q].tick = x
    <3>1. CASE \E q \in Runs : w.row[q].tick = x
      BY <1>5, <3>1
    <3>2. CASE w.sched.next <= x
      <4>1. CASE w.sched.next = x
        BY <1>3, <1>9, <4>1
      <4>2. CASE w.sched.next < x
        <5>1. x \in Nat /\ x % 2 = 0
          OBVIOUS
        <5> QED
          BY <1>1, <1>9, <2>1, <4>2, <5>1, Even
      <4> QED
        BY <1>1, <3>2, <4>1, <4>2
    <3> QED
      BY <1>7, <3>1, <3>2
  <2>3. CASE w.sched.next < NextTick(t)
    BY <1>1, <1>6, <1>9, <2>1, <2>2, <2>3, Even
  <2>4. CASE w.sched.next >= NextTick(t)
    <3>1. w.sched.next = NextTick(t)
      BY <1>1, <1>6, <1>9, <2>4
    <3> QED
      BY <1>3, <1>9, <2>2, <3>1
  <2> QED
    BY <1>1, <1>6, <2>3, <2>4
<1>10. CASE o = {} /\ next = NextTick(t)
  BY <1>6, <1>10
<1> QED
  BY <1>8, <1>9, <1>10

-----------------------------------------------------------------------------
(* One execution changes *)

Awaited(x) == x.arm /\ (x.st = "creating" \/ x.open)

OnlyWork(w, v, r, a, x) ==
  /\ Typed(v) /\ v.sched = w.sched /\ v.eng = w.eng /\ v.timer = w.timer /\ v.cut = w.cut
  /\ v.row = w.row /\ v.rt = w.rt /\ v.queue = w.queue /\ v.told = w.told /\ w.blamed \subseteq v.blamed
  /\ v.work[r][a] = x /\ \A q \in Runs : \A b \in Slots(w) : q # r \/ b # a => v.work[q][b] = w.work[q][b]

\* A change of one execution changes nothing else.
LEMMA WorkSets ==
  ASSUME NEW w, NEW r \in Runs, NEW a \in Slots(w), NEW x \in Works, Typed(w)
  PROVE  OnlyWork(w, [w EXCEPT !.work[r][a] = x], r, a, x)
<1> DEFINE v == [w EXCEPT !.work[r][a] = x]
<1>1. Typed(v)
  BY DEF Typed, Worlds, Slots
<1> QED
  BY <1>1 DEF Typed, Worlds, OnlyWork, Slots

\* The new execution may follow the old one.
Follows(w, old, x) ==
  /\ old.st # "none" /\ x.st # "none"
  /\ x.st \in Doing => old.st \in Doing
  /\ old.st # "creating" => x.st # "creating"
  /\ x.st \in {"creating", "gone"} \/ x.open => w.sched.kind = "session"
  /\ x.open => x.st # "creating"

\* An execution that goes on its way leaves its run sound but for what the owner is yet
\* to hear of it.
LEMMA OneWork ==
  ASSUME NEW w, NEW v, NEW r \in Runs, NEW a \in Slots(w), NEW x, NEW lost, Sound(w, lost), OnlyWork(w, v, r, a, x),
         Follows(w, w.work[r][a], x)
  PROVE  /\ Others(v, r, lost) /\ Base(v, r) /\ Phased(v, r) /\ Clean(v, r, lost)
         /\ Doings(v, r) \subseteq Doings(w, r) /\ (Told(w) => Told(v)) /\ Settles(w, v)
         /\ \A q \in Runs : Lasts(w, v, q)
<1> USE DEF OnlyWork
<1>1. Typed(w) /\ Base(w, r) /\ Slots(v) = Slots(w)
  BY DEF Sound, Full, Slots
<1>2. Doings(v, r) \subseteq Doings(w, r)
  BY <1>1 DEF Doings, Follows
<1>3. Base(v, r)
  <2>1. Informed(v, r)
    BY <1>1 DEF Base, Informed
  <2>2. w.work[r][a] # NoWork
    BY DEF Follows, NoWork
  <2>3. ASSUME NEW b \in Slots(w)
        PROVE  \/ v.work[r][b] = w.work[r][b]
               \/ /\ w.work[r][b] # NoWork /\ v.work[r][b].st # "none"
                  /\ Begun(w, r, b) => Begun(v, r, b)
                  /\ v.work[r][b].st \in {"creating", "gone"} \/ v.work[r][b].open
                       => w.sched.kind = "session"
                  /\ v.work[r][b].open => v.work[r][b].st # "creating"
    BY <2>2 DEF Follows, Begun
  <2> QED
    BY <1>1, <1>2, <2>1, <2>3, BaseWork
<1>4. ASSUME NEW q \in Runs, q # r PROVE Full(v, q, lost)
  <2>1. v.work[q] = w.work[q]
    <3>1. v.work[q] \in [Slots(w) -> Works] /\ w.work[q] \in [Slots(w) -> Works]
      BY <1>1 DEF Typed, Worlds, Slots
    <3> QED
      BY <1>4, <3>1
  <2>2. Informed(v, q) /\ Full(w, q, lost)
    BY DEF Sound, Full, Base, Informed
  <2>3. \A f \in Engines : /\ v.rt[f][q] = w.rt[f][q]
                           /\ w.row[q].own = f /\ q \in Range(w.queue[f]) => q \in Range(v.queue[f])
    OBVIOUS
  <2>4. q \in w.blamed => q \in v.blamed
    OBVIOUS
  <2>5. v.sched.kind = w.sched.kind /\ v.sched.tries = w.sched.tries /\ v.row[q] = w.row[q]
    OBVIOUS
  <2> QED
    BY <2>1, <2>2, <2>3, <2>4, <2>5, SameRun
<1>5. Phased(v, r) /\ Clean(v, r, lost)
  BY DEF Sound, Full, Phased, Clean, Here
<1>6. Told(w) => Told(v)
  BY DEF Told, Known
<1> QED
  BY <1>1, <1>2, <1>3, <1>4, <1>5, <1>6 DEF Others, Settles, Lasts

\* An owner of whose run another execution changes, or none of importance.
LEMMA OneHeeds ==
  ASSUME NEW w, NEW v, NEW r \in Runs, NEW a \in Slots(w), NEW x, NEW lost, NEW f \in Engines, OnlyWork(w, v, r, a, x),
         Heeds(w, f, r, lost), w.rt[f][r].map \in 0..w.sched.tries + 1, w.sched.tries \in Nat,
         \/ w.work[r][a].host # f
         \/ w.rt[f][r].map # a /\ w.work[r][a].st # "creating"
         \/ x.st = w.work[r][a].st /\ x.host = w.work[r][a].host,
         w.sched.kind = "workflow" => lost \/ w.rt[f][r].map # a \/ (w.work[r][a].st \in Doing => x.st \in Doing)
  PROVE  Heeds(v, f, r, lost)
<1> DEFINE m == w.rt[f][r].map
<1>1. Slots(v) = Slots(w) /\ v.rt[f][r].map = m /\ v.sched = w.sched /\ v.row[r] = w.row[r] /\ v.queue = w.queue
  BY DEF OnlyWork, Slots
<1>2. m # 0 => m \in Slots(w)
  BY DEF Slots
<1>3. /\ v.work[r][a] = x /\ \A b \in Slots(w) : b # a => v.work[r][b] = w.work[r][b]
  BY DEF OnlyWork
<1> HIDE DEF m
<1>4. CASE w.sched.kind = "session"
  <2>1. ASSUME w.row[r].ph = "launching" PROVE \E b \in Slots(w) : v.work[r][b].st = "creating" /\ v.work[r][b].host = f
    <3>1. PICK b \in Slots(w) : w.work[r][b].st = "creating" /\ w.work[r][b].host = f
      BY <1>4, <2>1 DEF Heeds
    <3>2. v.work[r][b].st = "creating" /\ v.work[r][b].host = f
      BY <1>3, <3>1
    <3> QED
      BY <3>2
  <2>2. ASSUME w.row[r].ph = "running" PROVE m # 0 /\ v.work[r][m].st \in Doing /\ v.work[r][m].host = f
    <3>1. m # 0 /\ w.work[r][m].st \in Doing /\ w.work[r][m].host = f
      BY <1>4, <2>2 DEF Heeds, m
    <3> QED
      BY <1>2, <1>3, <3>1 DEF m
  <2> QED
    BY <1>1, <1>4, <2>1, <2>2 DEF Heeds, m
<1>5. CASE w.sched.kind = "workflow"
  <2>1. ASSUME w.row[r].ph = "running" PROVE m # 0 /\ (lost \/ v.work[r][m].st \in Doing)
    <3>1. m # 0 /\ (lost \/ w.work[r][m].st \in Doing)
      BY <1>5, <2>1 DEF Heeds, m
    <3> QED
      BY <1>2, <1>3, <1>5, <3>1 DEF m
  <2> QED
    BY <1>1, <1>5, <2>1 DEF Heeds, m
<1>6. CASE w.sched.kind # "session" /\ w.sched.kind # "workflow"
  BY <1>1, <1>6 DEF Heeds
<1> QED
  BY <1>4, <1>5, <1>6

\* The clocks do not mind unless a launch that is awaited is over.
LEMMA WorkClocked ==
  ASSUME NEW w, NEW v, NEW r \in Runs, NEW a \in Slots(w), NEW x, NEW o, NEW t, NEW S, S \subseteq Engines,
         OnlyWork(w, v, r, a, x), Clocked(w, o, t, S),
         \A f \in S : w.work[r][a].host = f /\ Awaited(w.work[r][a]) => x.host = f /\ Awaited(x)
  PROVE  Clocked(v, o, t, S)
<1>1. Slots(v) = Slots(w) /\ v.sched = w.sched /\ v.row = w.row /\ v.eng = w.eng /\ v.timer = w.timer /\ v.cut = w.cut
  BY DEF OnlyWork, Slots
<1>2. Cursored(v, t) /\ Owes(v, o, t)
  BY <1>1 DEF Clocked, Cursored, Owes
<1>3. Housed(v)
  BY DEF OnlyWork, Clocked, Housed, Here
<1>4. ASSUME NEW f \in S PROVE Wakes(v, f)
  <2>1. ASSUME AwaitsIn(w, f) PROVE AwaitsIn(v, f)
    <3>1. PICK q \in Runs, b \in Slots(w) : w.work[q][b].host = f /\ Awaited(w.work[q][b])
      BY <2>1 DEF AwaitsIn, Awaited
    <3>2. v.work[q][b].host = f /\ Awaited(v.work[q][b])
      BY <3>1 DEF OnlyWork
    <3> QED
      BY <1>1, <3>2 DEF AwaitsIn, Awaited
  <2>2. Wakes(w, f)
    BY DEF Clocked
  <2> QED
    BY <1>1, <2>1, <2>2 DEF Wakes, Serves
<1> QED
  BY <1>2, <1>3, <1>4 DEF Clocked

\* A mark on an execution, or a workflow that an engine takes up.
LEMMA FlagSound ==
  ASSUME NEW w, NEW v, NEW r \in Runs, NEW a \in Slots(w), NEW x, NEW lost \in BOOLEAN, Sound(w, lost),
         OnlyWork(w, v, r, a, x), w.work[r][a].st # "none", x.st = w.work[r][a].st, x.open => w.work[r][a].open,
         x.host = w.work[r][a].host \/ w.work[r][a].host = None
  PROVE  Sound(v, lost) /\ (Told(w) => Told(v)) /\ Settles(w, v)
<1>1. Typed(w) /\ Base(w, r) /\ Goes(w, r, lost)
  BY DEF Sound, Full
<1>2. Follows(w, w.work[r][a], x)
  BY <1>1 DEF Base, Kinds, Follows
<1>3. /\ Others(v, r, lost) /\ Base(v, r) /\ Phased(v, r) /\ Clean(v, r, lost)
      /\ (Told(w) => Told(v)) /\ Settles(w, v)
  BY <1>2, OneWork
<1>4. Goes(v, r, lost)
  <2> SUFFICES ASSUME NEW f \in Engines, v.row[r].own = f PROVE Heeds(v, f, r, lost)
    BY DEF Goes
  <2>1. Heeds(w, f, r, lost)
    BY <1>1 DEF Goes, OnlyWork
  <2>2. w.rt[f][r].map \in 0..w.sched.tries + 1 /\ w.sched.tries \in Nat
    <3>1. w.rt[f][r] \in Objs(w.sched.tries) /\ w.sched \in Scheds
      BY <1>1, TypedRun
    <3> QED
      BY <3>1 DEF Objs, Scheds
  <2>3. w.work[r][a].host # f \/ (x.st = w.work[r][a].st /\ x.host = w.work[r][a].host)
    BY SchedulerAssumption
  <2> QED
    BY <2>1, <2>2, <2>3, OneHeeds
<1> QED
  BY <1>3, <1>4 DEF Sound, Others, Full

-----------------------------------------------------------------------------
(* Firings *)

\* The launch that a firing awaits is the engine's own.
Creates(v, e, r) ==
  LET a == v.row[r].att
  IN a # 0 /\ v.work[r][a].st = "creating" => a \in Slots(v) /\ v.work[r][a].host = e

\* The session an accepted run waits for is created for its engine.
LEMMA AcceptedCreates ==
  ASSUME NEW w, NEW e \in Engines, NEW r \in Runs, NEW lost \in BOOLEAN,
         NEW tick, tick \in Nat, NEW early, early \in BOOLEAN,
         NEW next, next \in Nat, Sound(w, lost), w.row[r].st = "none", w.eng[e] # "absent",
         w.sched.live, w.sched.on
  PROVE  Creates(Accepted(w, e, r, tick, early, next), e, r)
<1> SUFFICES ASSUME NEW v, v = Accepted(w, e, r, tick, early, next), NEW a, a = v.row[r].att, a # 0,
                    v.work[r][a].st = "creating"
             PROVE  a \in Slots(v) /\ v.work[r][a].host = e
  BY DEF Creates
<1>1. Sound(v, lost) /\ v.sched = NextAt(w.sched, next)
  BY AcceptedSound DEF Accepts
<1>2. a \in Slots(v)
  <2>1. Typed(v) /\ Counted(v, r)
    BY <1>1 DEF Sound, Full, Base
  <2>2. v.row[r] \in Rows(v.sched.tries) /\ v.sched.tries \in Nat
    BY <2>1, TypedRun, TypedClock
  <2> QED
    BY <2>1, <2>2 DEF Counted, Rows, Slots
<1>3. w.sched.kind = "session"
  <2>1. v.sched.kind = "session"
    BY <1>1, <1>2 DEF Sound, Full, Base, Kinds
  <2>2. NextAt(w.sched, next).kind = w.sched.kind
    BY DEF Sound, Typed, Worlds, Scheds, NextAt
  <2> QED
    BY <1>1, <2>1, <2>2
<1> DEFINE x(ph) == Received(w, e, r, ph, tick, early, next)
<1>4. ASSUME NEW ph, ph \in {"skipped", "queued", "launching"}
      PROVE  IsReceived(w, x(ph), e, r, ph, tick, early, next) /\ IsReceipt(x(ph).row[r], e, ph, tick, early)
  <2>1. IsReceived(w, x(ph), e, r, ph, tick, early, next)
    BY <1>4, ReceivedRow
  <2>2. IsReceipt(Receipt(w, e, ph, tick, early), e, ph, tick, early)
    <3>1. Typed(w)
      BY DEF Sound
    <3> QED
      BY <1>4, <3>1, ReceiptOf
  <2> HIDE DEF x
  <2> QED
    BY <2>1, <2>2 DEF IsReceived
<1> DEFINE s == x("launching")
<1>5. Receives(w, s, e, r, "launching", lost)
  BY ReceivedSound
<1> HIDE DEF x
<1>6. CASE v = Emitted(x("skipped"), e, r)
  <2>1. x("skipped").row[r].att = 0 /\ Typed(x("skipped"))
    BY <1>4 DEF IsReceived, IsReceipt
  <2>2. v.row = x("skipped").row
    BY <1>6, <2>1 DEF Emitted, Typed, Worlds
  <2> QED
    BY <2>1, <2>2
<1>7. CASE v = x("queued")
  BY <1>4, <1>7 DEF IsReceipt
<1>8. CASE v = Launch(s, e, r)
  <2>1. IsReceived(w, s, e, r, "launching", tick, early, next) /\ IsReceipt(s.row[r], e, "launching", tick, early)
    BY <1>4
  <2>2. Typed(s) /\ Base(s, r) /\ Clean(s, r, lost) /\ Doings(s, r) = {}
    BY <1>5 DEF Receives, Others
  <2> HIDE DEF s
  <2>3. s.row[r].own = e /\ Here(s, e, r) /\ Owned(s, e, r) /\ Spent(s, r) /\ s.row[r].att < s.sched.tries
    <3>1. s.rt[e][r].ph = "launching"
      BY <2>1 DEF IsReceived, Received0, NoRun
    <3>2. s.row[r].att = 0 /\ s.sched.tries \in Nat \ {0}
      BY <2>1, <2>2, TypedClock DEF IsReceipt
    <3>3. s.row[r].own = e
      BY <2>1 DEF IsReceipt
    <3> QED
      BY <2>2, <3>1, <3>2, <3>3, OwnedIsOwner DEF Here, Spent
  <2>4. s.sched.kind = "session" /\ s.sched.live /\ s.sched.on
    <3>1. /\ NextAt(w.sched, next).kind = w.sched.kind /\ NextAt(w.sched, next).live = w.sched.live
          /\ NextAt(w.sched, next).on = w.sched.on
      BY DEF Sound, Typed, Worlds, Scheds, NextAt
    <3> QED
      BY <1>3, <2>1, <3>1 DEF IsReceived
  <2> DEFINE l == Attempted(s, e, r)
             b == l.row[r].att
             y == [NoWork EXCEPT !.st = "creating", !.host = e]
             u == [l EXCEPT !.work[r][b] = y]
  <2>5. Typed(l) /\ Here(l, e, r) /\ b \in Slots(l) /\ l.sched = s.sched
    BY <2>2, <2>3, AttemptedTurn DEF Turn, Only, Slots
  <2> HIDE DEF l, b
  <2>6. Launched(s, e, r) = u
    BY <2>3, <2>4, <2>5 DEF Launched, Started, l, b
  <2>7. y \in Works /\ y.host = e
    BY DEF Works, WorkStates, NoWork
  <2> HIDE DEF y
  <2>8. u.rt = l.rt /\ u.row = l.row /\ u.work[r][b] = y
    BY <2>5, <2>7 DEF Typed, Worlds, Slots
  <2> HIDE DEF u
  <2>9. v = u
    BY <1>8, <2>5, <2>6, <2>8 DEF Launch, Here
  <2> QED
    BY <1>2, <2>7, <2>8, <2>9 DEF b
<1> QED
  BY <1>2, <1>6, <1>7, <1>8 DEF Accepted, x, s

\* Occurrences are due at even times.
Dues(o) == \A x \in o : x \in Nat \ {0} /\ x % 2 = 0

\* How the cursor moves: of a dispatch by one while something is owed.
Moves(w, o, t, tick, next) ==
  \/ tick = 0 /\ next = w.sched.next
  \/ tick = w.sched.next /\ tick <= t + 1 /\ next = w.sched.next + 2
  \/ (o = {} \/ w.sched.kind # "dispatch") /\ next = NextTick(t)

\* The rows before r are in use.
Lowest(w, r) == \A q \in Runs : q < r => w.row[q].st # "none"

\* An accepted occurrence keeps the clock right for the engines for which it was, and
\* pays what is owed.
LEMMA AcceptsClocked ==
  ASSUME NEW w, NEW v, NEW e \in Engines, NEW r \in Runs, NEW lost \in BOOLEAN, NEW t \in Nat, NEW o,
         NEW S, S \subseteq Engines, NEW tick, tick \in Nat, NEW early, NEW next,
         Sound(w, lost), w.eng[e] \notin {"down", "absent"}, Clocked(w, o, t, S),
         Accepts(w, v, e, r, tick, early, next), Lowest(w, r),
         Takes(w, t, tick, early, next), Dues(o), Moves(w, o, t, tick, next)
  PROVE  Clocked(v, o, t, S) /\ Settles(w, v)
<1>1. Typed(w) /\ w.sched.next \in Nat /\ next \in Nat
  BY TypedClock DEF Sound, Takes
<1>4. Cursored(v, t)
  BY <1>1, AcceptsCursored DEF Clocked, Lowest
<1>5. Owes(v, o, t)
  BY <1>1, AcceptsOwes DEF Clocked, Takes, Dues, Moves
<1>6. Housed(v)
  BY DEF Clocked, Housed, Here, Accepts, Onward
<1>7. ASSUME NEW f \in S PROVE Wakes(v, f)
  <2>1. Wakes(w, f) /\ w.timer[f] \in Nat /\ (AwaitsIn(w, f) => AwaitsIn(v, f))
    BY <1>1, TypedClock DEF Clocked, Accepts
  <2>2. /\ NextAt(w.sched, next).next = next /\ NextAt(w.sched, next).on = w.sched.on
        /\ NextAt(w.sched, next).live = w.sched.live /\ NextAt(w.sched, next).kind = w.sched.kind
    BY <1>1 DEF Typed, Worlds, Scheds, NextAt
  <2>3. /\ v.sched.next = next /\ v.sched.on = w.sched.on /\ v.sched.live = w.sched.live
        /\ v.sched.kind = w.sched.kind /\ v.eng = w.eng /\ v.timer = w.timer /\ v.cut = w.cut
    BY <2>2 DEF Accepts
  <2>4. Serves(v, f) => Serves(w, f)
    BY <2>3 DEF Serves
  <2>5. w.sched.next <= next
    BY DEF Takes
  <2> QED
    BY <1>1, <2>1, <2>3, <2>4, <2>5 DEF Wakes
<1>8. Settles(w, v)
  <2>1. \A q \in Runs : Outlasts(w, v, e, q)
    BY DEF Accepts, Onward
  <2> QED
    BY <2>1 DEF Outlasts, Settles
<1> QED
  BY <1>4, <1>5, <1>6, <1>7, <1>8 DEF Clocked

\* launchRun with the lowest unused row keeps the world sound and the clock right.
LEMMA AcceptedFine ==
  ASSUME NEW w, NEW e \in Engines, NEW lost \in BOOLEAN, NEW t \in Nat, NEW o, NEW S, S \subseteq Engines,
         NEW tick, tick \in Nat, NEW early, early \in BOOLEAN, NEW next,
         Sound(w, lost), w.eng[e] \notin {"down", "absent"}, Clocked(w, o, t, S), Fresh(w) # {},
         Takes(w, t, tick, early, next), Dues(o), Moves(w, o, t, tick, next)
  PROVE  LET v == Accepted(w, e, Min(Fresh(w)), tick, early, next) IN
         /\ Sound(v, lost) /\ Clocked(v, o, t, S) /\ Settles(w, v) /\ (Told(w) => Told(v))
         /\ v.sched = NextAt(w.sched, next) /\ v.eng = w.eng
<1> DEFINE r == Min(Fresh(w))
           v == Accepted(w, e, r, tick, early, next)
<1>1. Typed(w) /\ w.sched.next \in Nat /\ next \in Nat
  BY TypedClock DEF Sound, Takes
<1>2. r \in Runs /\ w.row[r].st = "none" /\ \A q \in Runs : q < r => w.row[q].st # "none"
  BY <1>1, FirstFresh
<1> HIDE DEF r
<1>3. Sound(v, lost) /\ Accepts(w, v, e, r, tick, early, next)
  BY <1>1, <1>2, AcceptedSound
<1> HIDE DEF v
<1>4. Clocked(v, o, t, S) /\ Settles(w, v)
  <2>1. r \in Runs /\ Lowest(w, r)
    BY <1>2 DEF Lowest
  <2> QED
    BY <1>3, <2>1, AcceptsClocked
<1> QED
  BY <1>3, <1>4 DEF Accepts, v, r

\* What an engine may do to the world: it stays sound and on time, forgets no end of a run
\* and tells what it ends.
Through(w, v, lost, o, t, S) ==
  /\ Sound(v, lost) /\ Clocked(v, o, t, S) /\ Settles(w, v) /\ (Told(w) => Told(v))
  /\ v.sched.kind = w.sched.kind /\ v.eng = w.eng

\* Two steps through which soundness and clock hold make one.
LEMMA ThroughChain ==
  ASSUME NEW w, NEW u, NEW v, NEW lost, NEW o, NEW t, NEW S, NEW R, Through(w, u, lost, o, t, R),
         Through(u, v, lost, o, t, S)
  PROVE  Through(w, v, lost, o, t, S)
BY SettlesChain DEF Through

\* A sound step that changes no row, notice, schedule or life goes through.
LEMMA ThroughSame ==
  ASSUME NEW w, NEW v, NEW lost, NEW o, NEW t, NEW S, Sound(v, lost), Clocked(v, o, t, S), Settles(w, v),
         v.sched = w.sched, v.told = w.told, v.row = w.row, v.eng = w.eng
  PROVE  Through(w, v, lost, o, t, S)
BY DEF Through, Told, Known

\* An engine's sound step about runs goes through.
LEMMA ThroughSteps ==
  ASSUME NEW w, NEW v, NEW e \in Engines, NEW lost, NEW o, NEW t, NEW S, S \subseteq Engines,
         w.eng[e] \notin {"down", "absent"} \/ \A q \in Runs : Here(v, e, q) => Here(w, e, q), Sound(v, lost), Steps(w, v, e), Clocked(w, o, t, S)
  PROVE  Through(w, v, lost, o, t, S)
<1>1. Clocked(v, o, t, S) /\ Settles(w, v) /\ (Told(w) => Told(v))
  BY StepsClocked, StepsSettles, StepsTold
<1> QED
  BY <1>1 DEF Through, Steps

\* An occurrence becomes a run, and the launch it may await is marked.
LEMMA LaunchesFine ==
  ASSUME NEW w, NEW e \in Engines, NEW lost \in BOOLEAN, NEW o, NEW t \in Nat, NEW tick, NEW next, NEW early \in BOOLEAN,
         NEW r, r = Min(Fresh(w)), NEW f, f = Accepted(w, e, r, tick, early, next), Sound(w, lost), w.eng[e] \notin {"down", "absent"}, Clocked(w, o, t, Engines \ {e}),
         Fresh(w) # {}, w.sched.live, w.sched.on, tick = w.sched.next, tick <= t + 1, t < tick => early,
         \A x \in o : x \in Nat \ {0} /\ x % 2 = 0,
         \/ next = w.sched.next + 2
         \/ (o = {} \/ w.sched.kind # "dispatch") /\ next = NextTick(t)
  PROVE  Through(w, f, lost, o, t, Engines \ {e}) /\ r \in Runs /\ Creates(f, e, r)
<1>1. Typed(w) /\ tick \in Nat
  BY TypedClock DEF Sound
<1>2. NextTick(t) \in Nat /\ NextTick(t) % 2 = 0 /\ t < NextTick(t) /\ NextTick(t) <= t + 2
  BY NextTickIs
<1>3. tick % 2 = 0
  BY DEF Clocked, Cursored
<1>4. next \in Nat /\ next % 2 = 0
  <2>1. CASE next = w.sched.next + 2
    BY <1>1, <1>3, <2>1, Even
  <2>2. CASE next = NextTick(t)
    BY <1>2, <2>2
  <2> QED
    BY <2>1, <2>2
<1>5. w.sched.next <= next /\ (early \/ tick < next)
  <2>1. CASE next = w.sched.next + 2
    BY <1>1, <2>1
  <2>2. CASE next = NextTick(t) /\ tick <= t
    BY <1>1, <1>2, <2>2
  <2>3. CASE next = NextTick(t) /\ tick = t + 1
    BY <1>1, <1>2, <2>3
  <2> QED
    BY <1>1, <2>1, <2>2, <2>3
<1>6. Takes(w, t, tick, early, next)
  BY <1>4, <1>5 DEF Takes
<1>7. Moves(w, o, t, tick, next) /\ Dues(o)
  BY DEF Moves, Dues
<1>8. /\ Sound(f, lost) /\ Clocked(f, o, t, Engines \ {e}) /\ Settles(w, f) /\ (Told(w) => Told(f))
      /\ f.sched = NextAt(w.sched, next) /\ f.eng = w.eng
  <2>1. Engines \ {e} \subseteq Engines
    OBVIOUS
  <2> QED
    BY <1>1, <1>6, <1>7, <2>1, AcceptedFine
<1>9. NextAt(w.sched, next).kind = w.sched.kind
  BY <1>1 DEF Typed, Worlds, Scheds, NextAt
<1>10. r \in Runs /\ w.row[r].st = "none"
  BY <1>1, FirstFresh
<1>11. Creates(f, e, r)
  BY <1>1, <1>4, <1>10, AcceptedCreates
<1> QED
  BY <1>8, <1>9, <1>10, <1>11 DEF Through

\* Arming a timer, and leaving an engine's clock stopped by another's update on record,
\* make the clock right for all engines.
LEMMA ArmedThrough ==
  ASSUME NEW w, NEW e \in Engines, NEW lost, NEW o, NEW t, Sound(w, lost),
         Clocked(w, o, t, Engines \ {e})
  PROVE  /\ Through(w, Armed(w, e), lost, o, t, Engines) /\ Through(w, Rearmed(w, e), lost, o, t, Engines)
         /\ Through(w, [w EXCEPT !.cut = @ \cup {e}], lost, o, t, Engines)
<1>1. Through(w, Armed(w, e), lost, o, t, Engines)
  BY ArmedFine, ThroughSame
<1>2. Through(w, Rearmed(w, e), lost, o, t, Engines)
  BY RearmedFine, ThroughSame
<1>3. Through(w, [w EXCEPT !.cut = @ \cup {e}], lost, o, t, Engines)
  <2> DEFINE v == [w EXCEPT !.cut = @ \cup {e}]
  <2>1. /\ Sound(v, lost) /\ Clocked(v, o, t, Engines) /\ Settles(w, v)
        /\ v.sched = w.sched /\ v.told = w.told /\ v.row = w.row /\ v.eng = w.eng
    BY CutFine
  <2> QED
    BY <2>1, ThroughSame
<1> QED
  BY <1>1, <1>2, <1>3

\* A cursor moved to the next occurrence goes through, if no dispatch is owed.
LEMMA CursorThrough ==
  ASSUME NEW w, NEW e \in Engines, NEW lost \in BOOLEAN, NEW o, NEW t \in Nat, Sound(w, lost), w.eng[e] # "absent",
         Clocked(w, o, t, Engines \ {e}), w.sched.next <= t + 1, o = {} \/ w.sched.kind # "dispatch"
  PROVE  Through(w, [w EXCEPT !.sched.next = NextTick(t)], lost, o, t, Engines \ {e})
<1> DEFINE d == [w EXCEPT !.sched.next = NextTick(t)]
<1>1. /\ Sound(d, lost) /\ Clocked(d, o, t, Engines \ {e}) /\ Settles(w, d) /\ (Told(w) => Told(d))
      /\ d.sched.kind = w.sched.kind /\ d.eng = w.eng
  BY CursorFine
<1> HIDE DEF d
<1>2. Through(w, d, lost, o, t, Engines \ {e})
  BY <1>1 DEF Through
<1> QED
  BY <1>2 DEF d

\* A mark on a launch that a firing started.
Makes(v, e, r, a) == a \in Slots(v) /\ v.work[r][a].host = e /\ v.work[r][a].st = "creating"
\* A firing that awaits the launch it began is excused from having a timer.
LEMMA MarkedThrough ==
  ASSUME NEW w, NEW e \in Engines, NEW r \in Runs, NEW lost \in BOOLEAN, NEW o, NEW t, NEW a,
         Sound(w, lost), Clocked(w, o, t, Engines \ {e}), Makes(w, e, r, a)
  PROVE  Through(w, [w EXCEPT !.work[r][a].arm = TRUE], lost, o, t, Engines)
<1>1. Typed(w) /\ a \in Slots(w) /\ w.work[r][a].host \in {e} /\ w.work[r][a].st = "creating"
  BY DEF Sound, Makes
<1> DEFINE x == [w.work[r][a] EXCEPT !.arm = TRUE]
           v == [w EXCEPT !.work[r][a].arm = TRUE]
<1>2. w.work[r][a] \in Works
  <2>1. w.work[r] \in [Slots(w) -> Works]
    BY <1>1, TypedRun
  <2> QED
    BY <1>1, <2>1
<1>3. x \in Works /\ x.st = "creating" /\ x.host = e /\ x.arm = TRUE /\ x.open = w.work[r][a].open
  BY <1>1, <1>2 DEF Works
<1>4. v = [w EXCEPT !.work[r][a] = x]
  BY <1>1, <1>2 DEF Typed, Worlds, Slots
<1> HIDE DEF x, v
<1>5. OnlyWork(w, v, r, a, x)
  BY <1>1, <1>3, <1>4, WorkSets
<1>6. Sound(v, lost) /\ (Told(w) => Told(v)) /\ Settles(w, v)
  BY <1>1, <1>3, <1>5, FlagSound
<1>7. Clocked(v, o, t, Engines \ {e})
  BY <1>1, <1>5, WorkClocked
<1>8. Wakes(v, e)
  <2>1. a \in Slots(v) /\ v.work[r][a] = x
    BY <1>1, <1>5 DEF OnlyWork, Slots
  <2> QED
    BY <1>3, <2>1 DEF Wakes, AwaitsIn
<1>9. v.sched = w.sched /\ v.eng = w.eng
  BY <1>5 DEF OnlyWork
<1> QED
  BY <1>6, <1>7, <1>8, <1>9 DEF Through, Clocked, v

\* One turn of onCronFire: the timer that went off is armed again, or the launch it started
\* is awaited, or the clock is cut.
LEMMA FiredThrough ==
  ASSUME NEW w, NEW e \in Engines, NEW lost \in BOOLEAN, NEW o, NEW down \in BOOLEAN, now \in Nat,
         Sound(w, lost), w.eng[e] \notin {"down", "absent"}, Clocked(w, o, now, Engines \ {e}), Fresh(w) # {},
         \A x \in o : x \in Nat \ {0} /\ x % 2 = 0, ~down \/ w.sched.kind # "dispatch" \/ o = {}
  PROVE  Through(w, Fired(w, e, down), lost, o, now, Engines)
<1> DEFINE s == [w EXCEPT !.timer[e] = 0]
           tick == s.sched.next
           next == Cursor(s, down)
           r == Min(Fresh(s))
           early == now < tick
           f == Accepted(s, e, r, tick, early, next)
           a == f.row[r].att
           v == Fired(w, e, down)
<1>0. v = IF ~s.sched.live \/ ~s.sched.on THEN [s EXCEPT !.cut = @ \cup {e}]
          ELSE IF tick > now + 1 THEN Armed(s, e)
          ELSE IF Expired(s) THEN Rearmed(Disabled(s, e), e)
          ELSE IF Denied(s, e) THEN Armed([s EXCEPT !.sched.next = next], e)
          ELSE IF a # 0 /\ f.work[r][a].st = "creating" THEN [f EXCEPT !.work[r][a].arm = TRUE]
          ELSE Rearmed(f, e)
  BY DEF Fired
<1>1. /\ Sound(s, lost) /\ Clocked(s, o, now, Engines \ {e}) /\ Settles(w, s)
      /\ s.sched = w.sched /\ s.told = w.told /\ s.row = w.row /\ s.eng = w.eng /\ s.work = w.work
  BY TimerFine
<1> HIDE DEF s, v
<1>2. Through(w, s, lost, o, now, Engines \ {e}) /\ s.eng[e] \notin {"down", "absent"}
  BY <1>1, ThroughSame
<1>3. Typed(w) /\ tick \in Nat
  BY <1>1, TypedClock DEF Sound
<1> HIDE DEF tick
<1>3a. tick = s.sched.next
  BY DEF tick
<1>4. Fresh(s) # {}
  BY <1>1 DEF Fresh
<1>5. next = IF s.sched.kind = "dispatch" /\ ~down THEN s.sched.next + 2 ELSE NextTick(now)
  BY DEF Cursor
<1>6. early \in BOOLEAN /\ (now < tick => early)
  OBVIOUS
<1> HIDE DEF next, early
<1>7. /\ Through(s, Armed(s, e), lost, o, now, Engines) /\ Through(s, Rearmed(s, e), lost, o, now, Engines)
      /\ Through(s, [s EXCEPT !.cut = @ \cup {e}], lost, o, now, Engines)
  BY <1>1, <1>2, ArmedThrough
<1>8. Through(s, Rearmed(Disabled(s, e), e), lost, o, now, Engines)
  <2> DEFINE d == Disabled(s, e)
  <2>1. Clocked(s, o, now, {})
    BY <1>1 DEF Clocked
  <2>2. /\ Sound(d, lost) /\ Clocked(d, o, now, Engines) /\ Settles(s, d) /\ (Told(s) => Told(d))
        /\ d.sched.kind = s.sched.kind /\ d.eng = s.eng
    BY <1>1, <1>2, <2>1, DisabledFine
  <2> HIDE DEF d
  <2>3. Through(s, d, lost, o, now, Engines) /\ Clocked(d, o, now, Engines \ {e}) /\ d.eng[e] # "absent"
    BY <1>2, <2>2 DEF Through, Clocked
  <2>4. Through(d, Rearmed(d, e), lost, o, now, Engines)
    BY <2>2, <2>3, ArmedThrough
  <2> QED
    BY <2>3, <2>4, ThroughChain DEF d
<1>9. ASSUME Denied(s, e), tick <= now + 1
      PROVE  Through(s, Armed([s EXCEPT !.sched.next = next], e), lost, o, now, Engines)
  <2>0. s.eng[e] # "absent" /\ s.sched.next <= now + 1 /\ (o = {} \/ s.sched.kind # "dispatch") /\ now \in Nat
    BY <1>2, <1>3a, <1>9 DEF Denied
  <2> DEFINE d == [s EXCEPT !.sched.next = NextTick(now)]
  <2>1. next = NextTick(now)
    BY <1>5, <1>9 DEF Denied
  <2> HIDE DEF d
  <2>2. Through(s, d, lost, o, now, Engines \ {e})
    BY <1>1, <2>0, CursorThrough DEF d
  <2>3. Sound(d, lost) /\ Clocked(d, o, now, Engines \ {e}) /\ d.eng[e] # "absent"
    BY <1>2, <2>2 DEF Through
  <2>4. Through(d, Armed(d, e), lost, o, now, Engines)
    BY <2>3, ArmedThrough
  <2> QED
    BY <2>1, <2>2, <2>4, ThroughChain DEF d
<1>10. ASSUME s.sched.live, s.sched.on, tick <= now + 1
       PROVE  Through(s, f, lost, o, now, Engines \ {e}) /\ r \in Runs /\ Creates(f, e, r)
  <2>1. \/ next = s.sched.next + 2
        \/ (o = {} \/ s.sched.kind # "dispatch") /\ next = NextTick(now)
    <3>1. ~down \/ s.sched.kind # "dispatch" \/ o = {}
      BY <1>1
    <3>2. CASE s.sched.kind = "dispatch" /\ ~down
      BY <1>5, <3>2
    <3>3. CASE ~(s.sched.kind = "dispatch" /\ ~down)
      BY <1>5, <3>1, <3>3
    <3> QED
      BY <3>2, <3>3
  <2>2. tick = s.sched.next /\ r = Min(Fresh(s)) /\ f = Accepted(s, e, r, tick, early, next)
    BY <1>3a
  <2> QED
    BY <1>1, <1>2, <1>4, <1>6, <1>10, <2>1, <2>2, LaunchesFine, ZenonT(60)
<1>10a. a = f.row[r].att
  OBVIOUS
<1> HIDE DEF f, r, a
<1>11. ASSUME s.sched.live, s.sched.on, tick <= now + 1, a # 0, f.work[r][a].st = "creating"
       PROVE  Through(s, [f EXCEPT !.work[r][a].arm = TRUE], lost, o, now, Engines)
  <2>1. Through(s, f, lost, o, now, Engines \ {e}) /\ r \in Runs /\ Makes(f, e, r, a)
    BY <1>10, <1>10a, <1>11 DEF Creates, Makes
  <2>2. Sound(f, lost) /\ Clocked(f, o, now, Engines \ {e})
    BY <2>1 DEF Through
  <2>3. Through(f, [f EXCEPT !.work[r][a].arm = TRUE], lost, o, now, Engines)
    BY <2>1, <2>2, MarkedThrough
  <2> QED
    BY <2>1, <2>3, ThroughChain
<1>12. ASSUME s.sched.live, s.sched.on, tick <= now + 1 PROVE Through(s, Rearmed(f, e), lost, o, now, Engines)
  <2>1. Through(s, f, lost, o, now, Engines \ {e})
    BY <1>10, <1>12
  <2>2. Sound(f, lost) /\ Clocked(f, o, now, Engines \ {e}) /\ f.eng[e] # "absent"
    BY <1>2, <2>1 DEF Through
  <2>3. Through(f, Rearmed(f, e), lost, o, now, Engines)
    BY <2>2, ArmedThrough
  <2> QED
    BY <2>1, <2>3, ThroughChain
<1>13. Through(s, v, lost, o, now, Engines)
  <2>1. tick > now + 1 \/ tick <= now + 1
    BY <1>3
  <2> USE <1>0
  <2>2. CASE ~s.sched.live \/ ~s.sched.on
    BY <1>7, <2>2
  <2>3. CASE s.sched.live /\ s.sched.on /\ tick > now + 1
    BY <1>7, <2>3
  <2>4. CASE s.sched.live /\ s.sched.on /\ ~(tick > now + 1) /\ tick <= now + 1
    <3>1. CASE Expired(s)
      BY <1>8, <2>4, <3>1
    <3>2. CASE ~Expired(s) /\ Denied(s, e)
      BY <1>9, <2>4, <3>2
    <3>3. CASE ~Expired(s) /\ ~Denied(s, e) /\ a # 0 /\ f.work[r][a].st = "creating"
      BY <1>11, <2>4, <3>3
    <3>4. CASE ~Expired(s) /\ ~Denied(s, e) /\ ~(a # 0 /\ f.work[r][a].st = "creating")
      BY <1>12, <2>4, <3>4
    <3> QED
      BY <3>1, <3>2, <3>3, <3>4
  <2> QED
    BY <2>1, <2>2, <2>3, <2>4
<1> QED
  BY <1>2, <1>13, ThroughChain DEF v

-----------------------------------------------------------------------------
(* An engine takes up the clock, and tells again what was not acknowledged *)

\* restoreCron
LEMMA RestoredThrough ==
  ASSUME NEW w, NEW e \in Engines, NEW lost \in BOOLEAN, NEW o, NEW live \in BOOLEAN, now \in Nat,
         Sound(w, lost), w.eng[e] \notin {"down", "absent"}, Clocked(w, o, now, Engines \ {e}),
         \A x \in o : x \in Nat \ {0} /\ x % 2 = 0, live \/ w.sched.kind # "dispatch" \/ o = {}
  PROVE  Through(w, Restored(w, e, live), lost, o, now, Engines)
<1>1. /\ Through(w, Armed(w, e), lost, o, now, Engines)
      /\ Through(w, [w EXCEPT !.cut = @ \cup {e}], lost, o, now, Engines)
  BY ArmedThrough
<1>2. CASE ~w.sched.live \/ ~w.sched.on
  BY <1>1, <1>2 DEF Restored
<1>3. CASE w.sched.live /\ w.sched.on /\ w.eng[e] = "clock" /\ w.sched.kind # "dispatch"
  <2>1. Restored(w, e, live) = [w EXCEPT !.cut = w.cut]
    BY <1>3 DEF Restored
  <2>2. [w EXCEPT !.cut = w.cut] = w
    BY DEF Sound, Typed, Worlds
  <2>3. Wakes(w, e)
    BY <1>3 DEF Wakes, Serves
  <2>4. Clocked(w, o, now, Engines) /\ Settles(w, w)
    BY <2>3 DEF Clocked, Settles
  <2> QED
    BY <2>1, <2>2, <2>4, ThroughSame
<1>4. CASE w.sched.live /\ w.sched.on /\ ~(w.eng[e] = "clock" /\ w.sched.kind # "dispatch")
  <2>0. w.sched.next \in Nat
    BY TypedClock DEF Sound
  <2>1. CASE ~(w.sched.next <= now)
    BY <1>1, <1>4, <2>1 DEF Restored
  <2>2. CASE w.sched.next <= now /\ ~(~live /\ ~w.sched.catchUp) /\ Fresh(w) = {}
    BY <1>1, <1>4, <2>2 DEF Restored
  <2>3. CASE w.sched.next <= now /\ ~(~live /\ ~w.sched.catchUp) /\ Fresh(w) # {}
    <3>1. ASSUME NEW down \in BOOLEAN, ~down \/ w.sched.kind # "dispatch" \/ o = {}
          PROVE  Through(w, Fired(w, e, down), lost, o, now, Engines)
      BY <2>3, <3>1, FiredThrough
    <3> DEFINE down == ~live
    <3>2. Restored(w, e, live) = Fired(w, e, down)
      BY <1>4, <2>3 DEF Restored
    <3>3. down \in BOOLEAN /\ (~down \/ w.sched.kind # "dispatch" \/ o = {})
      OBVIOUS
    <3> HIDE DEF down
    <3> QED
      BY <3>1, <3>2, <3>3
  <2>4. CASE w.sched.next <= now /\ ~live /\ ~w.sched.catchUp
    <3> DEFINE d == [w EXCEPT !.sched.next = NextTick(now)]
    <3>1. Restored(w, e, live) = Armed(d, e)
      BY <1>4, <2>4 DEF Restored
    <3> HIDE DEF d
    <3>2. w.sched.next <= now + 1 /\ (o = {} \/ w.sched.kind # "dispatch") /\ w.eng[e] # "absent"
      BY <2>0, <2>4
    <3>3. Through(w, d, lost, o, now, Engines \ {e})
      BY <3>2, CursorThrough DEF d
    <3>4. Sound(d, lost) /\ Clocked(d, o, now, Engines \ {e}) /\ d.eng[e] # "absent"
      BY <3>2, <3>3 DEF Through
    <3>5. Through(d, Armed(d, e), lost, o, now, Engines)
      BY <3>4, ArmedThrough
    <3> QED
      BY <3>1, <3>3, <3>5, ThroughChain
  <2> QED
    BY <2>1, <2>2, <2>3, <2>4
<1> QED
  BY <1>2, <1>3, <1>4

\* replayUnacked: every end that was not acknowledged is on its way again.
LEMMA ReplayedThrough ==
  ASSUME NEW w, NEW e \in Engines, NEW lost \in BOOLEAN, NEW o, NEW t, NEW S, S \subseteq Engines, Sound(w, lost),
         w.eng[e] # "absent", Clocked(w, o, t, S)
  PROVE  Through(w, Replayed(w, e), lost, o, t, S) /\ Told(Replayed(w, e))
<1> DEFINE N == {<<e, r>> : r \in {q \in Runs : w.row[q].st \in Terminal /\ ~w.row[q].acked}}
           v == [w EXCEPT !.told = @ \cup N]
<1>1. N \subseteq Engines \X Runs /\ \A f \in Engines, r \in Runs : <<f, r>> \in N => w.row[r].st \in Terminal
  OBVIOUS
<1>2. \A r \in Runs : w.row[r].st \in Terminal /\ ~w.row[r].acked => <<e, r>> \in N
  OBVIOUS
<1> HIDE DEF N
<1>3. Typed(w) /\ w.told \subseteq Engines \X Runs
  BY TypedClock DEF Sound
<1>4. /\ Typed(v) /\ v.sched = w.sched /\ v.row = w.row /\ v.work = w.work /\ v.rt = w.rt /\ v.queue = w.queue
      /\ v.blamed = w.blamed /\ v.eng = w.eng /\ v.timer = w.timer /\ v.cut = w.cut
      /\ v.told = w.told \cup N
  BY <1>1, <1>3 DEF Typed, Worlds
<1>5. v = Replayed(w, e)
  BY DEF Replayed, N
<1> HIDE DEF v
<1>6. \A f \in Engines, r \in Runs : <<f, r>> \in v.told => w.row[r].st \in Terminal
  BY <1>1, <1>4 DEF Sound, Full, Base, Informed
<1>7. Sound(v, lost)
  BY <1>4, <1>6, SoundSame
<1>8. Clocked(v, o, t, S)
  BY <1>4 DEF Clocked, Housed, Here, Cursored, Owes, Wakes, Serves, AwaitsIn, Slots
<1>9. Told(v)
  BY <1>2, <1>4 DEF Told, Known
<1>10. Settles(w, v)
  BY <1>4 DEF Settles
<1>11. v.sched.kind = w.sched.kind /\ v.eng = w.eng
  BY <1>4
<1>12. Through(w, v, lost, o, t, S)
  BY <1>7, <1>8, <1>9, <1>10, <1>11 DEF Through
<1> QED
  BY <1>5, <1>9, <1>12

-----------------------------------------------------------------------------
(* The end of a launch that a firing awaited *)

\* The end of an awaited launch arms the timer of its firing.
LEMMA LaunchOverThrough ==
  ASSUME NEW w, NEW e \in Engines, NEW r \in Runs, NEW a, a \in Slots(w), NEW lost \in BOOLEAN, NEW o, NEW t,
         Sound(w, lost), Clocked(w, o, t, Engines \ {e}), w.work[r][a].arm => w.work[r][a].host \in {e},
         ~w.work[r][a].arm => Wakes(w, e)
  PROVE  Through(w, LaunchOver(w, e, r, a), lost, o, t, Engines)
<1>1. CASE ~w.work[r][a].arm
  <2>1. Clocked(w, o, t, Engines) /\ Settles(w, w)
    BY <1>1 DEF Clocked, Settles
  <2> QED
    BY <1>1, <2>1, ThroughSame DEF LaunchOver
<1>2. CASE w.work[r][a].arm
  <2> DEFINE x == [w.work[r][a] EXCEPT !.arm = FALSE]
             v == [w EXCEPT !.work[r][a].arm = FALSE]
  <2>1. Typed(w) /\ w.work[r] \in [Slots(w) -> Works] /\ Base(w, r)
    BY TypedRun DEF Sound, Full
  <2>2. w.work[r][a] \in Works
    BY <2>1
  <2>3. x \in Works /\ x.st = w.work[r][a].st /\ x.host = w.work[r][a].host /\ x.open = w.work[r][a].open
    BY <2>2 DEF Works
  <2>4. v = [w EXCEPT !.work[r][a] = x]
    BY <2>1, <2>2 DEF Typed, Worlds, Slots
  <2>5. LaunchOver(w, e, r, a) = Rearmed(v, e)
    BY <1>2 DEF LaunchOver
  <2> HIDE DEF x, v
  <2>6. OnlyWork(w, v, r, a, x)
    BY <2>1, <2>3, <2>4, WorkSets
  <2>7. w.work[r][a].st # "none"
    BY <1>2, <2>1 DEF Base, Kinds, NoWork
  <2>8. Sound(v, lost) /\ (Told(w) => Told(v)) /\ Settles(w, v)
    BY <2>3, <2>6, <2>7, FlagSound
  <2>9. Clocked(v, o, t, Engines \ {e})
    BY <1>2, <2>6, WorkClocked
  <2>10. v.sched = w.sched /\ v.eng = w.eng
    BY <2>6 DEF OnlyWork
  <2>11. Through(w, v, lost, o, t, Engines \ {e})
    BY <2>8, <2>9, <2>10 DEF Through
  <2>12. Through(v, Rearmed(v, e), lost, o, t, Engines)
    BY <2>8, <2>9, <2>10, ArmedThrough
  <2> QED
    BY <2>5, <2>11, <2>12, ThroughChain
<1> QED
  BY <1>1, <1>2

-----------------------------------------------------------------------------
(* Steps *)

\* The outcome of a run that ended stays.
Stays == \A r \in Runs : row[r].st \in Terminal => row'[r].st = row[r].st

\* An action that sets all variables to a well-typed world makes it the next world.
LEMMA BecomesIs ==
  ASSUME NEW v, Typed(v), Becomes(v)
  PROVE  World' = v
<1>1. v = [sched |-> v.sched, row |-> v.row, eng |-> v.eng, timer |-> v.timer, rt |-> v.rt,
         queue |-> v.queue, work |-> v.work, told |-> v.told, cut |-> v.cut, blamed |-> v.blamed]
  BY DEF Typed, Worlds
<1>2. /\ sched' = v.sched /\ row' = v.row /\ eng' = v.eng /\ timer' = v.timer /\ rt' = v.rt
      /\ queue' = v.queue /\ work' = v.work /\ told' = v.told /\ cut' = v.cut /\ blamed' = v.blamed
  BY DEF Becomes
<1>3. World' = [sched |-> sched', row |-> row', eng |-> eng', timer |-> timer', rt |-> rt',
         queue |-> queue', work |-> work', told |-> told', cut |-> cut', blamed |-> blamed']
  BY DEF World
<1> QED
  BY <1>1, <1>2, <1>3

\* The world is the tuple of the variables.
LEMMA WorldIs ==
  /\ World.sched = sched /\ World.row = row /\ World.eng = eng /\ World.timer = timer /\ World.rt = rt
  /\ World.queue = queue /\ World.work = work /\ World.told = told /\ World.cut = cut /\ World.blamed = blamed
BY DEF World

\* An action that ends in a well-kept world keeps the invariant and every end.
LEMMA LandsInv ==
  ASSUME NEW v, Well(v, strayed', owed', now'), Settles(World, v), Becomes(v), now' \in Nat, calls' \in Nat,
         strayed' \in BOOLEAN, Dues(owed'),
         owed' # {} => v.sched.on /\ v.sched.live /\ v.sched.kind = "dispatch"
  PROVE  SchedInv' /\ Stays
<1>1. World' = v
  BY BecomesIs DEF Well, Sound
<1>2. Well(World', strayed', owed', now')
  BY <1>1
<1>3. sched' = v.sched /\ row' = v.row
  BY DEF Becomes
<1>4. Stays
  BY <1>3, WorldIs DEF Stays, Settles
<1>5. owed' # {} => sched'.on /\ sched'.live /\ sched'.kind = "dispatch"
  BY <1>3
<1>6. Well(World, strayed, owed, now)'
  BY <1>2
<1>7. (now \in Nat /\ calls \in Nat /\ strayed \in BOOLEAN)'
  OBVIOUS
<1>8. (owed # {} => sched.on /\ sched.live /\ sched.kind = "dispatch")'
  BY <1>5
<1>9. (\A x \in owed : x \in Nat \ {0} /\ x % 2 = 0)'
  BY DEF Dues
<1> QED
  BY <1>4, <1>6, <1>7, <1>8, <1>9 DEF SchedInv

\* An engine's step without a call keeps the invariant, if the world it makes is sound,
\* told and clocked.
LEMMA StepInv ==
  ASSUME SchedInv, NEW v, Sound(v, strayed'), Told(v), Clocked(v, owed, now, Engines), Settles(World, v),
         v.sched.kind = sched.kind, strayed' \in BOOLEAN, calls' \in Nat, Step(v)
  PROVE  SchedInv' /\ Stays
<1>1. Becomes(v) /\ now' = now /\ sched' = v.sched
  BY DEF Step, Becomes
<1>2. owed' = {} \/ (owed' = owed /\ v.sched.on /\ v.sched.live)
  BY <1>1 DEF Step
<1>3. Clocked(v, {}, now, Engines)
  BY OwesLess DEF Clocked
<1>4. Well(v, strayed', owed', now')
  <2>1. Clocked(v, owed', now, Engines)
    BY <1>2, <1>3
  <2>2. Clocked(v, owed', now', Engines)
    BY <1>1, <2>1
  <2> QED
    BY <2>2 DEF Well
<1>5. Dues(owed') /\ (owed' # {} => v.sched.on /\ v.sched.live /\ v.sched.kind = "dispatch")
  BY <1>2 DEF SchedInv, Dues
<1> QED
  BY <1>1, <1>4, <1>5, LandsInv DEF SchedInv

\* An action of the program itself through which soundness and clock hold keeps the
\* invariant.
LEMMA FreeInv ==
  ASSUME SchedInv, NEW v, Through(World, v, strayed, owed, now, Engines), Free(v)
  PROVE  SchedInv' /\ Stays
<1>1. strayed' = strayed /\ calls' = calls /\ Step(v)
  BY DEF Free
<1>2. /\ Sound(v, strayed') /\ Told(v) /\ Clocked(v, owed, now, Engines) /\ Settles(World, v)
      /\ v.sched.kind = sched.kind
  BY <1>1, WorldIs DEF Through, SchedInv, Well
<1> QED
  BY <1>1, <1>2, StepInv DEF SchedInv

\* A request or a failure: nothing is owed any more.
LEMMA CallInv ==
  ASSUME SchedInv, NEW v, Sound(v, strayed), Told(v), Clocked(v, {}, now, Engines), Settles(World, v), Call(v)
  PROVE  SchedInv' /\ Stays
<1>1. Becomes(v) /\ now' = now /\ strayed' = strayed /\ owed' = {} /\ calls' \in Nat
  BY DEF Call, SchedInv
<1>2. Well(v, strayed', owed', now') /\ Dues(owed')
  BY <1>1 DEF Well, Dues
<1> QED
  BY <1>1, <1>2, LandsInv DEF SchedInv

\* A call or failure through which they hold, nothing being owed after it, does so too.
LEMMA CallThrough ==
  ASSUME SchedInv, NEW v, Through(World, v, strayed, {}, now, Engines), Call(v)
  PROVE  SchedInv' /\ Stays
BY CallInv DEF Through, SchedInv, Well

\* What every step starts from.
LEMMA Holds ==
  ASSUME SchedInv
  PROVE  /\ Sound(World, strayed) /\ Told(World) /\ Typed(World) /\ now \in Nat /\ strayed \in BOOLEAN /\ Dues(owed)
         /\ Clocked(World, owed, now, Engines) /\ Clocked(World, {}, now, Engines)
         /\ Clocked(World, owed, now, {}) /\ Clocked(World, {}, now, {})
         /\ \A e \in Engines : /\ Clocked(World, owed, now, Engines \ {e}) /\ Clocked(World, {}, now, Engines \ {e})
                               /\ Wakes(World, e)
<1>1. /\ Sound(World, strayed) /\ Told(World) /\ Typed(World) /\ now \in Nat /\ strayed \in BOOLEAN
      /\ Clocked(World, owed, now, Engines)
  BY DEF SchedInv, Well, Sound
<1>2. Owes(World, {}, now)
  BY <1>1, OwesLess DEF Clocked
<1>3. Dues(owed)
  BY DEF SchedInv, Dues
<1> QED
  BY <1>1, <1>2, <1>3 DEF Clocked

-----------------------------------------------------------------------------
(* Firings and executions *)

\* A timer that fires keeps the invariant.
LEMMA FireInv ==
  ASSUME SchedInv, NEW e \in Engines, Fire(e)
  PROVE  SchedInv' /\ Stays
<1> DEFINE down == FALSE
           v == Fired(World, e, down)
<1>1. Free(v) /\ World.eng[e] \notin {"down", "absent"} /\ Fresh(World) # {}
  BY WorldIs DEF Fire, Due, Alive
<1>2. down \in BOOLEAN /\ ~down
  OBVIOUS
<1> HIDE DEF down
<1>3. Through(World, v, strayed, owed, now, Engines)
  BY <1>1, <1>2, Holds, FiredThrough DEF Dues
<1> HIDE DEF v
<1> QED
  BY <1>1, <1>3, FreeInv

\* A firing whose store write fails keeps the invariant: its engine is left without a
\* timer on record.
LEMMA FireFailsInv ==
  ASSUME SchedInv, NEW e \in Engines, FireFails(e)
  PROVE  SchedInv' /\ Stays
<1> DEFINE w == World
           s == [w EXCEPT !.timer[e] = 0]
           v == [s EXCEPT !.cut = @ \cup {e}]
<1>1. w.eng[e] # "absent"
  BY WorldIs DEF FireFails, Admitted, Due, Alive
<1>2. /\ Sound(w, strayed) /\ Clocked(w, {}, now, Engines \ {e}) /\ Typed(w)
  BY Holds
<1>3. Call([w EXCEPT !.timer[e] = 0, !.cut = @ \cup {e}])
  BY DEF FireFails
<1> HIDE DEF w
<1>4. [w EXCEPT !.timer[e] = 0, !.cut = @ \cup {e}] = v
  BY <1>2 DEF Typed, Worlds
<1>5. /\ Sound(s, strayed) /\ Clocked(s, {}, now, Engines \ {e}) /\ Settles(w, s)
      /\ s.sched = w.sched /\ s.told = w.told /\ s.row = w.row /\ s.eng = w.eng
  BY <1>1, <1>2, TimerFine
<1> HIDE DEF s
<1>6. Through(w, s, strayed, {}, now, Engines \ {e})
  BY <1>5, ThroughSame
<1>7. Through(s, v, strayed, {}, now, Engines)
  BY <1>5, ArmedThrough
<1>8. Through(w, v, strayed, {}, now, Engines)
  BY <1>6, <1>7, ThroughChain
<1> HIDE DEF v
<1>9. Call(v)
  BY <1>3, <1>4
<1> QED
  BY <1>8, <1>9, CallThrough DEF w

\* A launch that was awaited is over when its execution has changed and its run has gone on.
LEMMA OverThrough ==
  ASSUME NEW w, NEW s, NEW u, NEW e \in Engines, NEW r \in Runs, NEW a, a \in Slots(w), NEW x, NEW lost \in BOOLEAN,
         NEW o, NEW t, OnlyWork(w, s, r, a, x), w.work[r][a].host \in {e}, x.host \in {e}, x.arm = w.work[r][a].arm,
         Clocked(w, o, t, Engines), Settles(w, s), Told(w) => Told(s), Sound(u, lost), Steps(s, u, e),
         s.eng[e] \notin {"down", "absent"} \/ \A q \in Runs : Here(u, e, q) => Here(s, e, q)
  PROVE  Through(w, LaunchOver(u, e, r, a), lost, o, t, Engines)
<1>1. Clocked(w, o, t, Engines \ {e}) /\ Engines \ {e} \subseteq Engines
  BY DEF Clocked
<1>2. Clocked(s, o, t, Engines \ {e})
  <2>1. \A f \in Engines \ {e} : w.work[r][a].host # f
    OBVIOUS
  <2> QED
    BY <1>1, <2>1, WorkClocked
<1>3. ~x.arm => Clocked(s, o, t, Engines)
  <2> HAVE ~x.arm
  <2>1. ~Awaited(w.work[r][a])
    BY DEF Awaited
  <2> QED
    BY <2>1, WorkClocked
<1>4. s.work[r][a] = x /\ Slots(s) = Slots(w) /\ s.sched = w.sched /\ s.eng = w.eng
  BY DEF OnlyWork, Slots
<1>5. Through(s, u, lost, o, t, Engines \ {e})
  BY <1>1, <1>2, ThroughSteps
<1>6. ~x.arm => Through(s, u, lost, o, t, Engines)
  BY <1>3, ThroughSteps
<1>7. /\ u.work[r][a].arm => u.work[r][a].host \in {e}
      /\ ~u.work[r][a].arm => ~x.arm
  BY <1>4 DEF Steps, Kept
<1>8. ~u.work[r][a].arm => Wakes(u, e)
  BY <1>6, <1>7 DEF Through, Clocked
<1>9. Clocked(u, o, t, Engines \ {e}) /\ Slots(u) = Slots(s)
  BY <1>5 DEF Through, Steps, Slots
<1>10. Through(u, LaunchOver(u, e, r, a), lost, o, t, Engines)
  BY <1>4, <1>7, <1>8, <1>9, LaunchOverThrough
<1>11. Through(s, LaunchOver(u, e, r, a), lost, o, t, Engines)
  BY <1>5, <1>10, ThroughChain
<1>12. Settles(w, LaunchOver(u, e, r, a))
  BY <1>11, SettlesChain DEF Through
<1> QED
  BY <1>4, <1>11, <1>12 DEF Through

\* The prompt was taken, or its execution is over.
LEMMA SentInv ==
  ASSUME SchedInv, NEW e \in Engines, NEW r \in Runs, NEW a, a \in Attempts, Sent(e, r, a)
  PROVE  SchedInv' /\ Stays
<1> DEFINE w == World
           x == [w.work[r][a] EXCEPT !.open = FALSE]
           s == [w EXCEPT !.work[r][a].open = FALSE]
<1>1. /\ Sound(w, strayed) /\ Clocked(w, owed, now, Engines) /\ Typed(w) /\ strayed \in BOOLEAN
      /\ Base(w, r)
  BY Holds DEF Sound, Full
<1>2. a \in Slots(w) /\ w.work[r][a].open /\ w.work[r][a].host \in {e}
  BY WorldIs DEF Attempts, Slots, Sent
<1>3. Free(LaunchOver(s, e, r, a))
  BY DEF Sent
<1> HIDE DEF w
<1>4. w.work[r][a] \in Works
  BY <1>1, <1>2, TypedRun
<1>5. /\ x \in Works /\ x.st = w.work[r][a].st /\ x.host = w.work[r][a].host /\ x.arm = w.work[r][a].arm
      /\ x.open = FALSE
  BY <1>4 DEF Works
<1>6. s = [w EXCEPT !.work[r][a] = x]
  BY <1>1, <1>2, <1>4 DEF Typed, Worlds, Slots
<1> HIDE DEF x, s
<1>7. OnlyWork(w, s, r, a, x)
  BY <1>1, <1>2, <1>5, <1>6, WorkSets
<1>8. w.work[r][a].st # "none"
  BY <1>1, <1>2 DEF Base, Kinds, NoWork
<1>9. Sound(s, strayed) /\ (Told(w) => Told(s)) /\ Settles(w, s)
  BY <1>1, <1>2, <1>5, <1>7, <1>8, FlagSound
<1>10. Steps(s, s, e) /\ x.host \in {e}
  BY <1>2, <1>5, StepsNone
<1>11. Through(w, LaunchOver(s, e, r, a), strayed, owed, now, Engines)
  BY <1>1, <1>2, <1>5, <1>7, <1>9, <1>10, OverThrough
<1> QED
  BY <1>3, <1>11, FreeInv DEF w

\* A retry that falls due keeps the invariant.
LEMMA RetryDueInv ==
  ASSUME SchedInv, NEW e \in Engines, NEW r \in Runs, RetryDue(e, r)
  PROVE  SchedInv' /\ Stays
<1> DEFINE w == World
<1>1. /\ Sound(w, strayed) /\ Clocked(w, owed, now, Engines) /\ Typed(w) /\ strayed \in BOOLEAN
      /\ Full(w, r, strayed)
  BY Holds DEF Sound
<1>2. w.eng[e] \notin {"down", "absent"} /\ w.rt[e][r].ph = "retry_wait" /\ Free(Launch(w, e, r))
  BY WorldIs DEF RetryDue, Alive
<1> HIDE DEF w
<1>3. w.row[r].own = e => Here(w, e, r) /\ Spent(w, r) /\ w.row[r].att < w.sched.tries
  <2> HAVE w.row[r].own = e
  <2>1. w.row[r].ph = "retry_wait" /\ w.row[r].st \in Active /\ Here(w, e, r)
    BY <1>1, <1>2, OwnerIsHere
  <2>2. w.row[r].att < w.sched.tries
    BY <1>1, <2>1 DEF Full, Base, Counted
  <2>3. Spent(w, r)
    BY <1>1, <2>1 DEF Full, Base, Single, Spent
  <2> QED
    BY <2>1, <2>2, <2>3
<1>4. Others(w, r, strayed) /\ Base(w, r) /\ Clean(w, r, strayed) /\ w.eng[e] # "absent"
  BY <1>1, <1>2 DEF Sound, Others, Full
<1>5. Sound(Launch(w, e, r), strayed) /\ Steps(w, Launch(w, e, r), e)
  BY <1>1, <1>3, <1>4, LaunchSound
<1>6. Through(w, Launch(w, e, r), strayed, owed, now, Engines)
  BY <1>1, <1>2, <1>5, ThroughSteps
<1> QED
  BY <1>2, <1>6, FreeInv DEF w

\* The execution of attempt a of run r, which is hosted by e, becomes x.
Turns(w, s, e, r, a, x) ==
  /\ a \in Slots(w) /\ OnlyWork(w, s, r, a, x) /\ w.work[r][a].host \in {e} /\ x.host \in {e}
  /\ x.arm = w.work[r][a].arm /\ Follows(w, w.work[r][a], x)
  /\ w.sched.kind = "session"

\* A session that changed leaves its run as an engine that does not own it needs it.
LEMMA TurnsRun ==
  ASSUME NEW w, NEW s, NEW e \in Engines, NEW r \in Runs, NEW a, NEW x, NEW lost \in BOOLEAN,
         Sound(w, lost), Turns(w, s, e, r, a, x)
  PROVE  /\ Others(s, r, lost) /\ Base(s, r) /\ Phased(s, r) /\ Clean(s, r, lost) /\ Settles(w, s)
         /\ (Told(w) => Told(s)) /\ Doings(s, r) \subseteq Doings(w, r)
         /\ s.row[r].own # e => Full(s, r, lost)
<1>1. /\ Others(s, r, lost) /\ Base(s, r) /\ Phased(s, r) /\ Clean(s, r, lost)
      /\ Doings(s, r) \subseteq Doings(w, r) /\ (Told(w) => Told(s)) /\ Settles(w, s)
  BY OneWork DEF Turns
<1>2. ASSUME s.row[r].own # e PROVE Goes(s, r, lost)
  <2>1. s.row = w.row /\ w.sched.kind = "session"
    BY DEF Turns, OnlyWork
  <2>2. Goes(w, r, lost) /\ Typed(w)
    BY DEF Sound, Full
  <2>3. ASSUME NEW f \in Engines, s.row[r].own = f PROVE Heeds(s, f, r, lost)
    <3>1. Heeds(w, f, r, lost)
      BY <2>1, <2>2, <2>3 DEF Goes
    <3>2. w.work[r][a].host # f
      BY <1>2, <2>3 DEF Turns
    <3>3. w.rt[f][r].map \in 0..w.sched.tries + 1 /\ w.sched.tries \in Nat
      BY <2>2, TypedRun DEF Objs, Scheds
    <3>4. a \in Slots(w) /\ OnlyWork(w, s, r, a, x)
      BY DEF Turns
    <3> QED
      BY <2>1, <3>1, <3>2, <3>3, <3>4, OneHeeds
  <2> QED
    BY <2>3 DEF Goes
<1> QED
  BY <1>1, <1>2 DEF Full

\* No execution of the run is left when the one of its owner's attempt is over.
LEMMA TurnsSpent ==
  ASSUME NEW w, NEW s, NEW e \in Engines, NEW r \in Runs, NEW a, NEW x, NEW lost \in BOOLEAN,
         Sound(w, lost), Turns(w, s, e, r, a, x), x.st \notin Doing, w.row[r].own = e,
         w.work[r][a].st \in Doing \/ a = w.row[r].att \/ r \in s.blamed
  PROVE  Spent(s, r)
<1> SUFFICES ASSUME r \notin s.blamed PROVE Doings(s, r) = {}
  BY DEF Spent
<1>1. /\ Typed(w) /\ Base(w, r) /\ a \in Slots(w) /\ s.work[r][a] = x /\ Slots(s) = Slots(w)
      /\ r \notin w.blamed
  BY DEF Sound, Full, Turns, OnlyWork, Slots
<1>2. w.row[r].st \in Active
  BY <1>1, OwnerIsActive
<1>3. \A b \in Doings(w, r) : b = w.row[r].att
  BY <1>1, <1>2 DEF Base, Single
<1>4. a = w.row[r].att
  BY <1>1, <1>3 DEF Doings
<1>5. Doings(s, r) \subseteq Doings(w, r)
  BY TurnsRun
<1>6. a \notin Doings(s, r)
  BY <1>1 DEF Doings
<1> QED
  BY <1>3, <1>4, <1>5, <1>6

\* An attempt that fails because its session does.
LEMMA TurnsFail ==
  ASSUME NEW w, NEW s, NEW e \in Engines, NEW r \in Runs, NEW a, NEW x, NEW lost \in BOOLEAN, NEW o, NEW t,
         Sound(w, lost), Turns(w, s, e, r, a, x), x.st \notin Doing, Clocked(w, o, t, Engines),
         w.work[r][a].st \in Doing \/ a = w.row[r].att \/ r \in s.blamed \/ w.row[r].own # e
  PROVE  Through(w, LaunchOver(Fail(s, e, r), e, r, a), lost, o, t, Engines)
<1>1. /\ Others(s, r, lost) /\ Base(s, r) /\ Phased(s, r) /\ Clean(s, r, lost) /\ Settles(w, s)
      /\ (Told(w) => Told(s)) /\ (s.row[r].own # e => Full(s, r, lost))
  BY TurnsRun
<1>2. /\ s.row = w.row /\ s.rt = w.rt /\ s.eng = w.eng /\ Typed(s) /\ Typed(w)
      /\ a \in Slots(w) /\ OnlyWork(w, s, r, a, x) /\ w.work[r][a].host \in {e} /\ x.host \in {e}
      /\ x.arm = w.work[r][a].arm
  BY DEF Turns, OnlyWork, Sound
<1> DEFINE u == Fail(s, e, r)
<1>3. CASE Here(s, e, r)
  <2>1. s.eng[e] \notin {"down", "absent"}
    BY <1>2, <1>3 DEF Clocked, Housed, Here
  <2>2. s.row[r].own = e => Here(s, e, r) /\ Spent(s, r)
    BY <1>2, <1>3, TurnsSpent
  <2>3. Sound(u, lost) /\ Steps(s, u, e)
    BY <1>1, <2>1, <2>2, FailSound
  <2> HIDE DEF u
  <2> QED
    BY <1>1, <1>2, <2>1, <2>3, OverThrough DEF u
<1>4. CASE ~Here(s, e, r)
  <2>1. s.row[r].own # e
    <3>1. Full(w, r, lost) /\ ~Here(w, e, r)
      BY <1>2, <1>4 DEF Sound, Here
    <3> QED
      BY <1>2, <3>1, OwnerIsHere
  <2>2. u = Checked(s, e, r)
    BY <1>4 DEF Fail, Failed
  <2>3. Full(s, r, lost)
    BY <1>1, <2>1
  <2>4. Turn(s, u, e, r) /\ Full(u, r, lost)
    BY <1>2, <2>2, <2>3, CheckedTurn
  <2>5. u = Forget(s, e, r)
    BY <2>1, <2>2 DEF Checked, Owned
  <2>6. u.rt[e][r] = NoRun
    BY <1>2, <2>5, ForgetSets
  <2> HIDE DEF u
  <2>7. Sound(u, lost) /\ Steps(s, u, e)
    BY <1>1, <2>4, TurnOthers
  <2>8. \A q \in Runs : Here(u, e, q) => Here(s, e, q)
    BY <2>4, <2>6 DEF Turn, Only, Here, NoRun
  <2> QED
    BY <1>1, <1>2, <2>7, <2>8, OverThrough DEF u
<1> QED
  BY <1>3, <1>4

\* What a session of e was and what it becomes.
LEMMA SessionTurns ==
  ASSUME NEW w, NEW s, NEW e \in Engines, NEW r \in Runs, NEW a, a \in Slots(w), NEW x, x \in Works, NEW lost,
         Sound(w, lost), OnlyWork(w, s, r, a, x), w.work[r][a].host \in {e},
         w.work[r][a].st = "creating" \/ w.work[r][a].open,
         x.host \in {e}, x.arm = w.work[r][a].arm, x.st \notin {"none", "creating"},
         x.st \in Doing => w.work[r][a].st \in Doing
  PROVE  Turns(w, s, e, r, a, x)
<1>1. Kinds(w, r)
  BY DEF Sound, Full, Base
<1>2. w.sched.kind = "session" /\ w.work[r][a].st # "none"
  BY <1>1 DEF Kinds, NoWork
<1> QED
  BY <1>2 DEF Turns, Follows

\* A session that cannot be created keeps the invariant.
LEMMA CreateFailsInv ==
  ASSUME SchedInv, NEW e \in Engines, NEW r \in Runs, NEW a, a \in Attempts, CreateFails(e, r, a)
  PROVE  SchedInv' /\ Stays
<1> DEFINE w == World
           x == [w.work[r][a] EXCEPT !.st = "gone"]
           s == [w EXCEPT !.work[r][a].st = "gone"]
<1>1. /\ Sound(w, strayed) /\ Clocked(w, {}, now, Engines) /\ Typed(w) /\ strayed \in BOOLEAN
  BY Holds
<1>2. a \in Slots(w) /\ w.work[r][a].st = "creating" /\ w.work[r][a].host \in {e}
  BY WorldIs DEF Attempts, Slots, CreateFails
<1>3. Call(LaunchOver(Fail(s, e, r), e, r, a))
  BY DEF CreateFails
<1> HIDE DEF w
<1>4. w.work[r][a] \in Works
  BY <1>1, <1>2, TypedRun
<1>5. x \in Works /\ x.st = "gone" /\ x.host = w.work[r][a].host /\ x.arm = w.work[r][a].arm
  BY <1>4 DEF Works, WorkStates
<1>6. s = [w EXCEPT !.work[r][a] = x]
  BY <1>1, <1>2, <1>4 DEF Typed, Worlds, Slots
<1> HIDE DEF x, s
<1>7. OnlyWork(w, s, r, a, x)
  BY <1>1, <1>2, <1>5, <1>6, WorkSets
<1>8. Turns(w, s, e, r, a, x) /\ x.st \notin Doing /\ w.work[r][a].st \in Doing
  BY <1>1, <1>2, <1>5, <1>7, SessionTurns DEF Doing
<1>9. Through(w, LaunchOver(Fail(s, e, r), e, r, a), strayed, {}, now, Engines)
  BY <1>1, <1>8, TurnsFail
<1> QED
  BY <1>3, <1>9, CallThrough DEF w

\* The late refusal of a prompt may fail an attempt that is not its own.
LEMMA SendFailsInv ==
  ASSUME SchedInv, NEW e \in Engines, NEW r \in Runs, NEW a, a \in Attempts, SendFails(e, r, a)
  PROVE  SchedInv' /\ Stays
<1> DEFINE w == World
           st == IF w.work[r][a].st = "alive" THEN "gone" ELSE w.work[r][a].st
           bl == IF w.row[r].own = e /\ a # w.row[r].att THEN w.blamed \cup {r} ELSE w.blamed
           x == [w.work[r][a] EXCEPT !.open = FALSE, !.st = st]
           s0 == [w EXCEPT !.work[r][a] = x]
           s == [w EXCEPT !.work[r][a] = x, !.blamed = bl]
<1>1. /\ Sound(w, strayed) /\ Clocked(w, {}, now, Engines) /\ Typed(w) /\ strayed \in BOOLEAN
  BY Holds
<1>2. a \in Slots(w) /\ w.work[r][a].open /\ w.work[r][a].host \in {e} /\ w.row = row /\ w.work = work
  BY WorldIs DEF Attempts, Slots, SendFails
<1>3. Call(LaunchOver(Fail([w EXCEPT !.work[r][a] = [@ EXCEPT !.open = FALSE, !.st = IF work[r][a].st = "alive" THEN "gone" ELSE work[r][a].st],
                                     !.blamed = IF row[r].own = e /\ a # row[r].att THEN @ \cup {r} ELSE @],
                           e, r), e, r, a))
  BY DEF SendFails
<1> HIDE DEF w
<1>4. w.work[r][a] \in Works /\ Kinds(w, r) /\ w.blamed \subseteq Runs
  <2>1. w.work[r][a] \in Works
    BY <1>1, <1>2, TypedRun
  <2>2. Kinds(w, r)
    BY <1>1 DEF Sound, Full, Base
  <2>3. w.blamed \subseteq Runs
    BY <1>1 DEF Typed, Worlds
  <2> QED
    BY <2>1, <2>2, <2>3
<1>4a. w.work[r][a].st \notin {"creating", "none"}
  BY <1>2, <1>4 DEF Kinds, NoWork
<1>5. st \in WorkStates /\ st \notin {"creating", "none"} /\ st \notin Doing
  BY <1>4, <1>4a DEF Works, WorkStates, Doing
<1>6. bl \subseteq Runs /\ w.blamed \subseteq bl /\ (w.row[r].own = e /\ a # w.row[r].att => r \in bl)
  BY <1>4
<1>7. [w EXCEPT !.work[r][a] = [@ EXCEPT !.open = FALSE, !.st = IF work[r][a].st = "alive" THEN "gone" ELSE work[r][a].st],
                !.blamed = IF row[r].own = e /\ a # row[r].att THEN @ \cup {r} ELSE @] = s
  <2>1. w.row = row
    BY <1>2
  <2>2. [w.work[r][a] EXCEPT !.open = FALSE, !.st = IF work[r][a].st = "alive" THEN "gone" ELSE work[r][a].st] = x
    <3>1. st = IF work[r][a].st = "alive" THEN "gone" ELSE work[r][a].st
      BY <1>2
    <3> HIDE DEF st
    <3> QED
      BY <3>1
  <2>3. (IF row[r].own = e /\ a # row[r].att THEN w.blamed \cup {r} ELSE w.blamed) = bl
    BY <2>1
  <2> HIDE DEF x, st, bl
  <2> QED
    BY <2>2, <2>3
<1> HIDE DEF st, bl
<1>8. /\ x \in Works /\ x.st = st /\ x.host = w.work[r][a].host /\ x.arm = w.work[r][a].arm
      /\ x.open = FALSE
  BY <1>4, <1>5 DEF Works
<1>9. s = [s0 EXCEPT !.blamed = bl]
  BY <1>1 DEF Typed, Worlds
<1> HIDE DEF x
<1>10. OnlyWork(w, s0, r, a, x)
  BY <1>1, <1>2, <1>8, WorkSets
<1> HIDE DEF s0
<1>11. /\ OnlyWork(w, s, r, a, x) /\ s.blamed = bl
  <2>1. Typed(s0)
    BY <1>10 DEF OnlyWork
  <2>2. /\ Typed(s) /\ s.blamed = bl
        /\ s.sched = s0.sched /\ s.eng = s0.eng /\ s.timer = s0.timer /\ s.cut = s0.cut
        /\ s.row = s0.row /\ s.rt = s0.rt /\ s.queue = s0.queue /\ s.told = s0.told /\ s.work = s0.work
    BY <1>6, <1>9, <2>1 DEF Typed, Worlds
  <2> QED
    BY <1>6, <1>10, <2>2, ZenonT(60) DEF OnlyWork
<1> HIDE DEF s
<1>12. Turns(w, s, e, r, a, x) /\ x.st \notin Doing
  BY <1>1, <1>2, <1>5, <1>8, <1>11, SessionTurns
<1>13. a = w.row[r].att \/ r \in s.blamed \/ w.row[r].own # e
  BY <1>6, <1>11
<1>14. Through(w, LaunchOver(Fail(s, e, r), e, r, a), strayed, {}, now, Engines)
  BY <1>1, <1>12, <1>13, TurnsFail
<1>15. Call(LaunchOver(Fail(s, e, r), e, r, a))
  BY <1>3, <1>7
<1> QED
  BY <1>14, <1>15, CallThrough DEF w

\* A session's creation keeps the invariant.
LEMMA CreatedInv ==
  ASSUME SchedInv, NEW e \in Engines, NEW r \in Runs, NEW a, a \in Attempts, Created(e, r, a)
  PROVE  SchedInv' /\ Stays
<1> DEFINE w == World
<1>1. /\ Sound(w, strayed) /\ Clocked(w, owed, now, Engines) /\ Typed(w) /\ strayed \in BOOLEAN
  BY Holds
<1>2. a \in Slots(w) /\ w.work[r][a].st = "creating" /\ w.work[r][a].host \in {e}
  BY WorldIs DEF Attempts, Slots, Created
<1>3. Free(IF Here(w, e, r)
             THEN Running([w EXCEPT !.work[r][a].st = "alive", !.work[r][a].open = TRUE], e, r, a)
             ELSE LaunchOver([w EXCEPT !.work[r][a].st = "gone"], e, r, a))
  BY DEF Created
<1> HIDE DEF w
<1>4. w.work[r][a] \in Works /\ w.work[r][a].st \in Doing
  BY <1>1, <1>2, TypedRun DEF Doing
<1>5. CASE ~Here(w, e, r)
  <2> DEFINE x == [w.work[r][a] EXCEPT !.st = "gone"]
             s == [w EXCEPT !.work[r][a].st = "gone"]
  <2>1. x \in Works /\ x.st = "gone" /\ x.host = w.work[r][a].host /\ x.arm = w.work[r][a].arm
    BY <1>4 DEF Works, WorkStates
  <2>2. s = [w EXCEPT !.work[r][a] = x]
    BY <1>1, <1>2, <1>4 DEF Typed, Worlds, Slots
  <2>3. Free(LaunchOver(s, e, r, a))
    BY <1>3, <1>5
  <2> HIDE DEF x, s
  <2>4. OnlyWork(w, s, r, a, x)
    BY <1>1, <1>2, <2>1, <2>2, WorkSets
  <2>5. Turns(w, s, e, r, a, x)
    BY <1>1, <1>2, <2>1, <2>4, SessionTurns DEF Doing
  <2>6. s.row[r].own # e
    <3>1. Full(w, r, strayed) /\ s.row = w.row
      BY <1>1, <2>4 DEF Sound, OnlyWork
    <3> QED
      BY <1>1, <1>5, <3>1, OwnerIsHere
  <2>7. /\ Others(s, r, strayed) /\ Full(s, r, strayed) /\ Settles(w, s) /\ (Told(w) => Told(s))
    BY <1>1, <2>5, <2>6, TurnsRun
  <2>8. Sound(s, strayed) /\ Steps(s, s, e)
    BY <2>7, StepsNone DEF Others, Sound
  <2>9. x.host \in {e}
    BY <1>2, <2>1
  <2>10. Through(w, LaunchOver(s, e, r, a), strayed, owed, now, Engines)
    BY <1>1, <1>2, <2>1, <2>4, <2>7, <2>8, <2>9, OverThrough
  <2> QED
    BY <2>3, <2>10, FreeInv DEF w
<1>6. CASE Here(w, e, r)
  <2> DEFINE x == [w.work[r][a] EXCEPT !.st = "alive", !.open = TRUE]
             s == [w EXCEPT !.work[r][a].st = "alive", !.work[r][a].open = TRUE]
  <2>1. /\ x \in Works /\ x.st = "alive" /\ x.host = w.work[r][a].host /\ x.arm = w.work[r][a].arm
        /\ x.open = TRUE
    BY <1>4 DEF Works, WorkStates
  <2>2. s = [w EXCEPT !.work[r][a] = x]
    BY <1>1, <1>2, <1>4 DEF Typed, Worlds, Slots
  <2>3. Free(Running(s, e, r, a))
    BY <1>3, <1>6
  <2> HIDE DEF x, s
  <2>4. OnlyWork(w, s, r, a, x)
    BY <1>1, <1>2, <2>1, <2>2, WorkSets
  <2>4a. x.host \in {e}
    BY <1>2, <2>1
  <2>5. Turns(w, s, e, r, a, x)
    BY <1>1, <1>2, <1>4, <2>1, <2>4, <2>4a, SessionTurns
  <2>6. /\ Others(s, r, strayed) /\ Base(s, r) /\ Clean(s, r, strayed) /\ Settles(w, s)
        /\ (Told(w) => Told(s)) /\ (s.row[r].own # e => Full(s, r, strayed))
    BY <1>1, <2>5, TurnsRun
  <2>7. /\ s.work[r][a] = x /\ s.rt = w.rt /\ s.eng = w.eng /\ s.sched = w.sched
        /\ Typed(s) /\ Slots(s) = Slots(w) /\ w.sched.kind = "session"
    BY <2>4, <2>5 DEF OnlyWork, Slots, Turns
  <2>8. Here(s, e, r) /\ a \in 0..s.sched.tries + 1 /\ a # 0
    <3>1. s.sched.tries \in Nat
      BY <2>7, TypedRun DEF Scheds
    <3>2. a \in 1..s.sched.tries + 1
      BY <1>2, <2>7 DEF Slots
    <3> QED
      BY <1>6, <2>7, <3>1, <3>2 DEF Here
  <2>8a. s.work[r][a].st = "alive" /\ (s.sched.kind = "session" => s.work[r][a].host = e)
    BY <2>1, <2>4a, <2>7
  <2> DEFINE u == Running(s, e, r, a)
  <2>9. Turn(s, u, e, r) /\ Full(u, r, strayed)
    BY <1>1, <2>6, <2>7, <2>8, <2>8a, RunningTurn
  <2> HIDE DEF u
  <2>10. Sound(u, strayed) /\ Steps(s, u, e)
    BY <2>6, <2>9, TurnOthers
  <2>11. Clocked(s, owed, now, Engines)
    <3>1. \A f \in Engines : w.work[r][a].host = f /\ Awaited(w.work[r][a]) => x.host = f /\ Awaited(x)
      BY <2>1 DEF Awaited
    <3> QED
      BY <1>1, <1>2, <2>4, <3>1, WorkClocked
  <2>12. s.eng[e] \notin {"down", "absent"}
    BY <2>8, <2>11 DEF Clocked, Housed
  <2>13. Through(s, u, strayed, owed, now, Engines)
    BY <2>10, <2>11, <2>12, ThroughSteps
  <2>14. Settles(w, u)
    BY <2>6, <2>13, SettlesChain DEF Through
  <2>15. Through(w, u, strayed, owed, now, Engines)
    BY <2>6, <2>7, <2>13, <2>14 DEF Through
  <2> QED
    BY <2>3, <2>15, FreeInv DEF w, u
<1> QED
  BY <1>5, <1>6

\* The end of an execution, before the scheduler hears of it.
LEMMA EndedWork ==
  ASSUME NEW w, NEW e \in Engines, NEW r \in Runs, NEW a, a \in Slots(w), NEW st, st \in Endings, NEW lost \in BOOLEAN,
         NEW o, NEW t, Sound(w, lost), Clocked(w, o, t, Engines), w.work[r][a].st = "alive", w.work[r][a].host \in {e},
         lost \/ w.row[r].st \notin Active \/ w.row[r].own = e
  PROVE  LET s == [w EXCEPT !.work[r][a].st = st] IN
         /\ Others(s, r, lost) /\ Base(s, r) /\ Clean(s, r, lost) /\ Settles(w, s) /\ (Told(w) => Told(s))
         /\ Clocked(s, o, t, Engines) /\ s.sched = w.sched
         /\ s.row[r].own # e \/ s.rt[e][r].map # a => Full(s, r, lost)
         /\ s.row[r].own = e => Here(s, e, r) /\ Spent(s, r)
<1> DEFINE x == [w.work[r][a] EXCEPT !.st = st]
           s == [w EXCEPT !.work[r][a].st = st]
<1>1. Typed(w) /\ w.work[r][a] \in Works /\ Full(w, r, lost) /\ Kinds(w, r)
  <2>1. Typed(w) /\ Full(w, r, lost) /\ Kinds(w, r)
    BY DEF Sound, Full, Base
  <2> QED
    BY <2>1, TypedRun, ZenonT(60)
<1>2. st \in WorkStates /\ st \notin {"none", "creating", "gone", "alive"} /\ st \notin Doing
  BY SchedulerAssumption DEF WorkStates, Doing
<1>3. /\ x \in Works /\ x.st = st /\ x.host = w.work[r][a].host /\ x.arm = w.work[r][a].arm
      /\ x.open = w.work[r][a].open
  BY <1>1, <1>2 DEF Works
<1>4. s = [w EXCEPT !.work[r][a] = x]
  BY <1>1 DEF Typed, Worlds, Slots
<1> HIDE DEF x, s
<1>5. OnlyWork(w, s, r, a, x)
  BY <1>1, <1>3, <1>4, WorkSets
<1>6. Follows(w, w.work[r][a], x)
  BY <1>1, <1>2, <1>3 DEF Follows, Kinds
<1>7. /\ Others(s, r, lost) /\ Base(s, r) /\ Phased(s, r) /\ Clean(s, r, lost)
      /\ Doings(s, r) \subseteq Doings(w, r) /\ (Told(w) => Told(s)) /\ Settles(w, s)
  BY <1>5, <1>6, OneWork
<1>8. Clocked(s, o, t, Engines)
  <2>1. \A f \in Engines : w.work[r][a].host = f /\ Awaited(w.work[r][a]) => x.host = f /\ Awaited(x)
    BY <1>3 DEF Awaited
  <2> QED
    BY <1>5, <2>1, WorkClocked
<1>9. /\ s.row = w.row /\ s.rt = w.rt /\ s.work[r][a] = x /\ s.sched = w.sched /\ Slots(s) = Slots(w)
      /\ w.blamed \subseteq s.blamed
  BY <1>5 DEF OnlyWork, Slots
<1>10. ASSUME s.row[r].own # e \/ s.rt[e][r].map # a PROVE Full(s, r, lost)
  <2>1. ASSUME NEW f \in Engines, s.row[r].own = f PROVE Heeds(s, f, r, lost)
    <3>1. Heeds(w, f, r, lost)
      BY <1>1, <1>9, <2>1 DEF Full, Goes
    <3>2. w.rt[f][r].map \in 0..w.sched.tries + 1 /\ w.sched.tries \in Nat
      BY <1>1, TypedRun DEF Objs, Scheds
    <3>3. CASE f = e
      BY <1>5, <1>9, <1>10, <2>1, <3>1, <3>2, <3>3, OneHeeds
    <3>4. CASE f # e
      <4>1. w.row[r].own # e /\ w.row[r].st \in Active
        BY <1>1, <1>9, <2>1, <3>4, OwnerIsActive DEF Full
      <4> QED
        BY <1>5, <3>1, <3>2, <3>4, <4>1, OneHeeds
    <3> QED
      BY <3>3, <3>4
  <2> QED
    BY <1>7, <2>1 DEF Full, Goes
<1>11. ASSUME s.row[r].own = e PROVE Here(s, e, r) /\ Spent(s, r)
  <2>1. w.row[r].st \in Active /\ Here(s, e, r)
    BY <1>1, <1>9, <1>11, OwnerIsHere DEF Here
  <2>2. ASSUME r \notin s.blamed PROVE Doings(s, r) = {}
    <3>1. \A b \in Doings(w, r) : b = w.row[r].att
      BY <1>1, <1>9, <2>1, <2>2 DEF Full, Base, Single
    <3>2. a = w.row[r].att
      BY <3>1 DEF Doings, Doing
    <3>3. a \notin Doings(s, r)
      BY <1>2, <1>3, <1>9 DEF Doings
    <3> QED
      BY <1>7, <3>1, <3>2, <3>3
  <2> QED
    BY <2>1, <2>2 DEF Spent
<1> QED
  BY <1>7, <1>8, <1>9, <1>10, <1>11 DEF s

\* onStreamEvent and onWorkflowEvent
LEMMA HeardThrough ==
  ASSUME NEW w, NEW e \in Engines, NEW r \in Runs, NEW a, NEW st, st \in Endings, NEW lost \in BOOLEAN, NEW o, NEW t,
         Others(w, r, lost), Base(w, r), Clean(w, r, lost), Clocked(w, o, t, Engines),
         w.row[r].own # e \/ w.rt[e][r].map # a => Full(w, r, lost),
         w.row[r].own = e => Here(w, e, r) /\ Spent(w, r)
  PROVE  Through(w, Heard(w, e, r, a, st), lost, o, t, Engines)
<1>0. Typed(w)
  BY DEF Others
<1>1. CASE ~Here(w, e, r) \/ w.rt[e][r].map # a
  <2>1. Full(w, r, lost) /\ Heard(w, e, r, a, st) = w
    BY <1>1 DEF Heard
  <2>2. Sound(w, lost) /\ Settles(w, w)
    BY <2>1 DEF Others, Sound, Settles
  <2> QED
    BY <2>1, <2>2, ThroughSame
<1>2. CASE Here(w, e, r) /\ w.rt[e][r].map = a
  <2>1. w.eng[e] \notin {"down", "absent"}
    BY <1>2 DEF Clocked, Housed
  <2>2. Owned(w, e, r) <=> w.row[r].own = e
    BY OwnedIsOwner
  <2> DEFINE v == Heard(w, e, r, a, st)
  <2>3. Sound(v, lost) /\ Steps(w, v, e)
    <3>1. CASE w.row[r].own # e
      <4>1. v = Checked(w, e, r)
        BY <1>2, <2>2, <3>1 DEF Heard
      <4>2. Turn(w, Checked(w, e, r), e, r) /\ Full(Checked(w, e, r), r, lost)
        BY <1>0, <3>1, CheckedTurn
      <4> QED
        BY <4>1, <4>2, TurnOthers
    <3>2. CASE w.row[r].own = e /\ st = "failed"
      <4>1. v = Fail(w, e, r)
        BY <1>2, <2>2, <3>2 DEF Heard
      <4> HIDE DEF v
      <4> QED
        BY <2>1, <3>2, <4>1, FailSound
    <3>3. CASE w.row[r].own = e /\ st # "failed"
      <4> DEFINE oc == Outcome(st)
      <4>1. v = Finish(w, e, r, oc)
        BY <1>2, <2>2, <3>3 DEF Heard
      <4>2. oc \in Terminal
        BY <3>3, SchedulerAssumption DEF Outcome, Terminal
      <4> HIDE DEF v, oc
      <4> QED
        BY <2>1, <3>3, <4>1, <4>2, FinishSound
    <3> QED
      BY <3>1, <3>2, <3>3
  <2> HIDE DEF v
  <2> QED
    BY <2>1, <2>3, ThroughSteps DEF v
<1> QED
  BY <1>1, <1>2

\* What is sound without a lost lease is sound with one.
LEMMA LostSound ==
  ASSUME NEW w, NEW lost \in BOOLEAN, Sound(w, lost)
  PROVE  Sound(w, TRUE)
BY LostStill DEF Sound

\* The end of an execution keeps the invariant, heard by an engine or not.
LEMMA WorkEndsInv ==
  ASSUME SchedInv, NEW e \in Engines, NEW r \in Runs, NEW a, a \in Attempts, NEW st, st \in Endings, WorkEnds(e, r, a, st)
  PROVE  SchedInv' /\ Stays
<1> DEFINE w == World
           s == [w EXCEPT !.work[r][a].st = st]
<1>1. /\ Sound(w, strayed) /\ Clocked(w, owed, now, Engines) /\ Typed(w) /\ strayed \in BOOLEAN /\ Told(w)
      /\ Base(w, r)
  BY Holds DEF Sound, Full
<1>2. a \in Slots(w) /\ w.work[r][a].st = "alive" /\ w.work[r][a].host \in {e} /\ w.sched.kind = sched.kind
  BY WorldIs DEF Attempts, Slots, WorkEnds
<1>3. Step(Heard(s, e, r, a, st)) /\ calls' = calls
  BY DEF WorkEnds
<1>4. strayed' = (strayed \/ (w.row[r].st \in Active /\ ~Owned(w, e, r)))
  BY WorldIs DEF WorkEnds
<1> HIDE DEF w
<1>5. strayed' \in BOOLEAN /\ Sound(w, strayed')
  BY <1>1, <1>4, LostSound
<1>6. strayed' \/ w.row[r].st \notin Active \/ w.row[r].own = e
  BY <1>1, <1>4, OwnedIsOwner
<1>7. /\ Others(s, r, strayed') /\ Base(s, r) /\ Clean(s, r, strayed') /\ Settles(w, s) /\ (Told(w) => Told(s))
      /\ Clocked(s, owed, now, Engines) /\ s.sched = w.sched
      /\ s.row[r].own # e \/ s.rt[e][r].map # a => Full(s, r, strayed')
      /\ s.row[r].own = e => Here(s, e, r) /\ Spent(s, r)
  BY <1>1, <1>2, <1>5, <1>6, EndedWork
<1> HIDE DEF s
<1> DEFINE v == Heard(s, e, r, a, st)
<1>8. Through(s, v, strayed', owed, now, Engines)
  BY <1>5, <1>7, HeardThrough
<1> HIDE DEF v
<1>9. Sound(v, strayed') /\ Told(v) /\ Clocked(v, owed, now, Engines) /\ Settles(w, v) /\ v.sched.kind = sched.kind
  BY <1>1, <1>2, <1>7, <1>8, SettlesChain DEF Through
<1>10. Step(v) /\ calls' \in Nat
  BY <1>3 DEF v, SchedInv
<1> QED
  BY <1>5, <1>9, <1>10, StepInv DEF w

\* A workflow recovered by an engine keeps the invariant.
LEMMA WorkflowRecoversInv ==
  ASSUME SchedInv, NEW e \in Engines, NEW r \in Runs, NEW a, a \in Attempts, WorkflowRecovers(e, r, a)
  PROVE  SchedInv' /\ Stays
<1> DEFINE w == World
           x == [w.work[r][a] EXCEPT !.host = e]
           s == [w EXCEPT !.work[r][a].host = e]
<1>1. /\ Sound(w, strayed) /\ Clocked(w, owed, now, Engines) /\ Typed(w) /\ strayed \in BOOLEAN
  BY Holds
<1>2. a \in Slots(w) /\ w.work[r][a].st = "alive" /\ w.work[r][a].host = None
  BY WorldIs DEF Attempts, Slots, WorkflowRecovers
<1>3. Free(s)
  BY DEF WorkflowRecovers
<1> HIDE DEF w
<1>4. w.work[r][a] \in Works
  BY <1>1, <1>2, TypedRun
<1>5. x \in Works /\ x.st = w.work[r][a].st /\ x.open = w.work[r][a].open
  BY <1>4 DEF Works
<1>6. s = [w EXCEPT !.work[r][a] = x]
  BY <1>1, <1>2, <1>4 DEF Typed, Worlds, Slots
<1> HIDE DEF x, s
<1>7. OnlyWork(w, s, r, a, x)
  BY <1>1, <1>2, <1>5, <1>6, WorkSets
<1>8. Sound(s, strayed) /\ (Told(w) => Told(s)) /\ Settles(w, s)
  BY <1>1, <1>2, <1>5, <1>7, FlagSound
<1>9. Clocked(s, owed, now, Engines)
  <2>1. \A f \in Engines : w.work[r][a].host # f
    BY <1>2, SchedulerAssumption
  <2> QED
    BY <1>1, <1>2, <1>7, <2>1, WorkClocked
<1>10. s.sched = w.sched /\ s.eng = w.eng
  BY <1>7 DEF OnlyWork
<1>11. Through(w, s, strayed, owed, now, Engines)
  BY <1>8, <1>9, <1>10 DEF Through
<1> QED
  BY <1>3, <1>11, FreeInv DEF w

-----------------------------------------------------------------------------
(* Leases *)

\* reconcileOrphanedRuns keeps the invariant.
LEMMA ReconcileInv ==
  ASSUME SchedInv, NEW e \in Engines, Reconcile(e)
  PROVE  SchedInv' /\ Stays
<1> DEFINE w == World
           s == Renewed(w, e)
           v == Reconciled(s, e)
<1>1. /\ Sound(w, strayed) /\ Clocked(w, owed, now, Engines) /\ strayed \in BOOLEAN
  BY Holds
<1>2. w.eng[e] \notin {"down", "absent"}
  BY WorldIs DEF Reconcile, Alive
<1>3. Free(v)
  BY DEF Reconcile
<1> HIDE DEF w
<1>4. Sound(s, strayed) /\ Steps(w, s, e)
  BY <1>1, RenewedSound
<1>5. s.eng[e] # "absent"
  BY <1>2, <1>4 DEF Steps
<1> HIDE DEF s
<1>6. Sound(v, strayed) /\ Steps(s, v, e)
  BY <1>1, <1>4, <1>5, ReconciledSound
<1> HIDE DEF v
<1>7. Steps(w, v, e)
  BY <1>4, <1>6, StepsChain
<1>8. Through(w, v, strayed, owed, now, Engines)
  BY <1>1, <1>2, <1>6, <1>7, ThroughSteps
<1> QED
  BY <1>3, <1>8, FreeInv DEF w

\* A lease runs out: of an owner that is gone, or of a living one.
LEMMA LapsedThrough ==
  ASSUME NEW w, NEW r \in Runs, NEW lost \in BOOLEAN, NEW o, NEW t, Sound(w, lost), Clocked(w, o, t, Engines),
         w.row[r].own \in {Gone} \cup Engines, lost \/ w.row[r].own = Gone
  PROVE  Through(w, [w EXCEPT !.row[r].lapsed = TRUE], lost, o, t, Engines)
<1> DEFINE ro == [w.row[r] EXCEPT !.lapsed = TRUE]
           v == [w EXCEPT !.row[r].lapsed = TRUE]
<1>1. Typed(w) /\ Full(w, r, lost) /\ Base(w, r)
  BY DEF Sound, Full
<1>2. Gone \notin Engines /\ None \notin Engines /\ None # Gone
  BY SchedulerAssumption
<1>3. w.row[r].own # None
  BY <1>2
<1>4. PICK e \in Engines : w.eng[e] # "absent"
  <2>1. w.row[r].st # "none"
    BY <1>1, <1>3 DEF Base, Idle, NoRow
  <2> QED
    BY <1>1, <2>1 DEF Base, Informed
<1>5. w.row[r] \in Rows(w.sched.tries)
  BY <1>1, TypedRun
<1>6. /\ ro \in Rows(w.sched.tries) /\ ro.own = w.row[r].own /\ ro.ph = w.row[r].ph
      /\ v = [w EXCEPT !.row[r] = ro]
  <2>1. ro \in Rows(w.sched.tries) /\ ro.own = w.row[r].own /\ ro.ph = w.row[r].ph
    BY <1>5 DEF Rows
  <2>2. v = [w EXCEPT !.row[r] = ro]
    BY <1>1 DEF Typed, Worlds
  <2> QED
    BY <2>1, <2>2
<1>7. ro = [w.row[r] EXCEPT !.lapsed = TRUE]
  OBVIOUS
<1> HIDE DEF ro, v
<1>8. Sets(w, v, e, r, ro, w.work[r], w.rt[e][r])
  BY <1>1, <1>6, SetsRow
<1>9. Only(w, v, e, r) /\ v.row[r] = ro /\ v.work[r] = w.work[r] /\ v.rt[e][r] = w.rt[e][r] /\ v.told = w.told /\ Typed(v)
      /\ (r \in Range(v.queue[e]) <=> r \in Range(w.queue[e])) /\ v.sched = w.sched
  BY <1>8 DEF Sets, Only
<1>10. Base(v, r) /\ Kept(w, v, r)
  BY <1>1, <1>3, <1>7, <1>9, BaseLapsed
<1>11. \A f \in Engines : v.rt[f][r] = w.rt[f][r] /\ (r \in Range(v.queue[f]) <=> r \in Range(w.queue[f]))
  BY <1>9 DEF Only
<1>12. Phased(v, r)
  BY <1>1, <1>6, <1>9, <1>11 DEF Full, Phased
<1>13. Clean(v, r, lost)
  BY <1>1, <1>2, <1>6, <1>9, <1>11 DEF Full, Clean, Here
<1>14. Goes(v, r, lost)
  <2>1. ASSUME NEW f \in Engines, v.row[r].own = f PROVE Heeds(v, f, r, lost)
    <3>1. Heeds(w, f, r, lost)
      BY <1>1, <1>6, <1>9, <2>1 DEF Full, Goes
    <3>2. v.row[r].ph = w.row[r].ph /\ v.rt[f][r].map = w.rt[f][r].map
      BY <1>6, <1>9, <1>11
    <3> QED
      BY <1>9, <1>11, <3>1, <3>2, HeedsStill
  <2> QED
    BY <2>1 DEF Goes
<1>15. Turn(w, v, e, r) /\ Full(v, r, lost)
  BY <1>9, <1>10, <1>12, <1>13, <1>14 DEF Turn, Full
<1>16. Sound(v, lost) /\ Steps(w, v, e)
  BY <1>15, TurnSound
<1>17. \A q \in Runs : Here(v, e, q) => Here(w, e, q)
  BY <1>9 DEF Here, Only
<1>18. Through(w, v, lost, o, t, Engines)
  BY <1>16, <1>17, ThroughSteps
<1> QED
  BY <1>18 DEF v

\* A dead engine's lease that runs out keeps the invariant.
LEMMA RunsOutInv ==
  ASSUME SchedInv, NEW r \in Runs, RunsOut(r)
  PROVE  SchedInv' /\ Stays
<1> DEFINE w == World
           v == [w EXCEPT !.row[r].lapsed = TRUE]
<1>1. /\ Sound(w, strayed) /\ Clocked(w, owed, now, Engines) /\ strayed \in BOOLEAN
  BY Holds
<1>2. w.row[r].own = Gone /\ Free(v)
  BY WorldIs DEF RunsOut
<1> HIDE DEF w
<1>3. Through(w, v, strayed, owed, now, Engines)
  BY <1>1, <1>2, LapsedThrough
<1> HIDE DEF v
<1> QED
  BY <1>2, <1>3, FreeInv DEF w

\* A living engine's lease that lapses keeps the invariant.
LEMMA LapseInv ==
  ASSUME SchedInv, NEW r \in Runs, Lapse(r)
  PROVE  SchedInv' /\ Stays
<1> DEFINE w == World
           v == [w EXCEPT !.row[r].lapsed = TRUE]
<1>1. /\ Sound(w, strayed) /\ Clocked(w, owed, now, Engines) /\ strayed \in BOOLEAN /\ Told(w)
  BY Holds
<1>2. w.row[r].own \in Engines /\ Step(v) /\ strayed' = TRUE /\ calls' \in Nat /\ w.sched.kind = sched.kind
  BY WorldIs DEF Lapse, SchedInv
<1> HIDE DEF w
<1>3. Sound(w, TRUE)
  BY <1>1, LostSound
<1>4. Through(w, v, TRUE, owed, now, Engines)
  BY <1>1, <1>2, <1>3, LapsedThrough
<1> HIDE DEF v
<1>5. Sound(v, strayed') /\ Told(v) /\ Clocked(v, owed, now, Engines) /\ Settles(w, v) /\ v.sched.kind = sched.kind
  BY <1>1, <1>2, <1>4 DEF Through
<1> QED
  BY <1>2, <1>5, StepInv DEF w

-----------------------------------------------------------------------------
(* Lives of an engine *)

\* The life of e changes, and perhaps what is told.
LivesOn(w, s, e, l) ==
  /\ Typed(s) /\ s.sched = w.sched /\ s.row = w.row /\ s.timer = w.timer /\ s.rt = w.rt /\ s.queue = w.queue
  /\ s.work = w.work /\ s.cut = w.cut /\ s.blamed = w.blamed /\ s.eng = [w.eng EXCEPT ![e] = l]
  /\ s.told \subseteq w.told

\* A change of an engine's life, with its notices or without, changes nothing else.
LEMMA LifeSets ==
  ASSUME NEW w, NEW e \in Engines, NEW l, l \in {"down", "clock", "up", "offline"}, Typed(w)
  PROVE  /\ LivesOn(w, [w EXCEPT !.eng[e] = l], e, l) /\ [w EXCEPT !.eng[e] = l].told = w.told
         /\ LivesOn(w, [w EXCEPT !.eng[e] = l, !.told = {n \in @ : n[1] # e}], e, l)
<1>1. [w.eng EXCEPT ![e] = l] \in [Engines -> Lives] /\ w.told \subseteq Engines \X Runs
  BY DEF Typed, Worlds, Lives
<1> DEFINE s == [w EXCEPT !.eng[e] = l]
           q == [w EXCEPT !.eng[e] = l, !.told = {n \in @ : n[1] # e}]
<1>2. LivesOn(w, s, e, l) /\ s.told = w.told
  BY <1>1 DEF LivesOn, Typed, Worlds
<1>3. LivesOn(w, q, e, l)
  BY <1>1 DEF LivesOn, Typed, Worlds
<1> QED
  BY <1>2, <1>3

\* An engine that begins to serve, or changes how, keeps the runs sound and the other
\* engines' clocks right.
LEMMA LivesSound ==
  ASSUME NEW w, NEW s, NEW e \in Engines, NEW l, l \in {"clock", "up", "offline"}, NEW lost \in BOOLEAN, NEW o, NEW t,
         Sound(w, lost), Clocked(w, o, t, Engines \ {e}), LivesOn(w, s, e, l)
  PROVE  /\ Sound(s, lost) /\ Clocked(s, o, t, Engines \ {e}) /\ Settles(w, s) /\ s.eng[e] = l
         /\ s.sched = w.sched
<1>1. Typed(w) /\ s.eng[e] = l /\ \A f \in Engines : f # e => s.eng[f] = w.eng[f]
  BY DEF Sound, Typed, Worlds, LivesOn
<1>2. \A f \in Engines, r \in Runs : <<f, r>> \in s.told => w.row[r].st \in Terminal
  BY DEF Sound, Full, Base, Informed, LivesOn
<1>3. Sound(s, lost)
  BY <1>1, <1>2, SoundSame DEF LivesOn
<1>4. Onward(w, s, e) /\ \A r \in Runs : Lasts(w, s, r)
  BY <1>1, SameOnward DEF LivesOn
<1>5. Clocked(s, o, t, Engines \ {e})
  <2>1. Clocked(s, o, t, (Engines \ {e}) \ {e})
    BY <1>1, <1>4, OnwardClocked DEF LivesOn
  <2> QED
    BY <2>1 DEF Clocked
<1> QED
  BY <1>1, <1>3, <1>5 DEF LivesOn, Settles

\* An engine with a timer keeps it through a loss or return of its socket.
LEMMA LivesWakes ==
  ASSUME NEW w, NEW s, NEW e \in Engines, NEW l, LivesOn(w, s, e, l), Typed(w), Wakes(w, e), l \in {"up", "offline"},
         w.eng[e] \in {"up", "offline"}
  PROVE  Wakes(s, e)
<1>1. s.eng[e] = l
  BY DEF LivesOn, Typed, Worlds
<1> QED
  BY <1>1 DEF LivesOn, Wakes, Serves, AwaitsIn, Slots

\* The start of an offline dispatch clock keeps the invariant.
LEMMA StartClockInv ==
  ASSUME SchedInv, NEW e \in Engines, StartClock(e)
  PROVE  SchedInv' /\ Stays
<1> DEFINE w == World
           s == [w EXCEPT !.eng[e] = "clock"]
           u == Reconciled(s, e)
           live == FALSE
           v == Restored(u, e, live)
<1>1. /\ Sound(w, strayed) /\ Clocked(w, {}, now, Engines \ {e}) /\ Typed(w) /\ strayed \in BOOLEAN /\ Told(w)
      /\ now \in Nat
  BY Holds
<1>2. w.eng[e] = "down" /\ Becomes(v) /\ owed' = {} /\ now' = now /\ strayed' = strayed /\ calls' = calls
  BY WorldIs DEF StartClock
<1>3. live \in BOOLEAN
  OBVIOUS
<1> HIDE DEF w, live
<1>4. LivesOn(w, s, e, "clock") /\ s.told = w.told
  BY <1>1, LifeSets
<1> HIDE DEF s
<1>5. Sound(s, strayed) /\ Clocked(s, {}, now, Engines \ {e}) /\ Settles(w, s) /\ s.eng[e] = "clock" /\ s.sched = w.sched
  BY <1>1, <1>4, LivesSound
<1>6. Told(s)
  <2>1. \A r \in Runs : Known(w, r) => Known(s, r)
    BY <1>4, <1>5 DEF Known
  <2> QED
    BY <1>1, <1>4, <2>1 DEF Told, LivesOn
<1>7. Sound(u, strayed) /\ Steps(s, u, e)
  BY <1>1, <1>5, ReconciledSound
<1> HIDE DEF u
<1>8. Through(s, u, strayed, {}, now, Engines \ {e})
  BY <1>5, <1>7, ThroughSteps
<1>9. Through(u, v, strayed, {}, now, Engines)
  <2>1. u.eng[e] \notin {"down", "absent"} /\ Clocked(u, {}, now, Engines \ {e})
    BY <1>5, <1>8 DEF Through
  <2> QED
    BY <1>1, <1>3, <1>7, <2>1, RestoredThrough
<1> HIDE DEF v
<1>10. Sound(v, strayed) /\ Told(v) /\ Clocked(v, {}, now, Engines) /\ Settles(w, v)
  BY <1>5, <1>6, <1>8, <1>9, SettlesChain DEF Through
<1>11. Well(v, strayed', owed', now')
  BY <1>2, <1>10 DEF Well
<1>12. Dues(owed') /\ strayed' \in BOOLEAN /\ calls' \in Nat /\ now' \in Nat
  BY <1>1, <1>2 DEF SchedInv, Dues
<1> QED
  BY <1>2, <1>10, <1>11, <1>12, LandsInv DEF w

\* The loss of a socket, with the notices under way, keeps the invariant.
LEMMA SocketLostInv ==
  ASSUME SchedInv, NEW e \in Engines, SocketLost(e)
  PROVE  SchedInv' /\ Stays
<1> DEFINE w == World
           s == [w EXCEPT !.eng[e] = "offline", !.told = {n \in @ : n[1] # e}]
<1>1. /\ Sound(w, strayed) /\ Clocked(w, owed, now, Engines \ {e}) /\ Typed(w) /\ strayed \in BOOLEAN
      /\ Wakes(w, e)
  BY Holds
<1>2. w.eng[e] = "up" /\ Step(s) /\ strayed' = strayed /\ calls' \in Nat /\ w.sched.kind = sched.kind
  BY WorldIs DEF SocketLost, SchedInv
<1> HIDE DEF w
<1>3. LivesOn(w, s, e, "offline")
  BY <1>1, LifeSets
<1> HIDE DEF s
<1>4. /\ Sound(s, strayed) /\ Clocked(s, owed, now, Engines \ {e}) /\ Settles(w, s) /\ s.eng[e] = "offline"
      /\ s.sched = w.sched
  BY <1>1, <1>3, LivesSound
<1>5. Told(s)
  BY <1>4 DEF Told, Known
<1>6. Wakes(s, e)
  BY <1>1, <1>2, <1>3, LivesWakes
<1>7. Clocked(s, owed, now, Engines)
  BY <1>4, <1>6 DEF Clocked
<1>8. Sound(s, strayed') /\ s.sched.kind = sched.kind /\ strayed' \in BOOLEAN
  BY <1>1, <1>2, <1>4
<1> QED
  BY <1>2, <1>4, <1>5, <1>7, <1>8, StepInv DEF w

\* A socket that returns keeps the invariant.
LEMMA ReconnectInv ==
  ASSUME SchedInv, NEW e \in Engines, Reconnect(e)
  PROVE  SchedInv' /\ Stays
<1> DEFINE w == World
           down == FALSE
           s == [w EXCEPT !.eng[e] = "up"]
           u == IF (sched.kind = "dispatch" /\ sched.live /\ sched.on /\ sched.next <= now) /\ Fresh(s) # {}
                  THEN Fired(s, e, down) ELSE s
           v == Replayed(u, e)
<1>1. /\ Sound(w, strayed) /\ Clocked(w, owed, now, Engines \ {e}) /\ Typed(w) /\ strayed \in BOOLEAN
      /\ Wakes(w, e) /\ Dues(owed) /\ now \in Nat
  BY Holds
<1>2. w.eng[e] = "offline" /\ Free(v) /\ w.sched.kind = sched.kind
  BY WorldIs DEF Reconnect
<1>3. down \in BOOLEAN /\ ~down
  OBVIOUS
<1> HIDE DEF w, down
<1>4. LivesOn(w, s, e, "up")
  BY <1>1, LifeSets
<1> HIDE DEF s
<1>5. /\ Sound(s, strayed) /\ Clocked(s, owed, now, Engines \ {e}) /\ Settles(w, s) /\ s.eng[e] = "up"
      /\ s.sched = w.sched
  BY <1>1, <1>4, LivesSound
<1>6. Through(s, u, strayed, owed, now, Engines)
  <2>1. CASE u = s
    <3>1. Wakes(s, e)
      BY <1>1, <1>2, <1>4, LivesWakes
    <3>2. Clocked(s, owed, now, Engines) /\ Settles(s, s)
      BY <1>5, <3>1 DEF Clocked, Settles
    <3> QED
      BY <1>5, <2>1, <3>2, ThroughSame
  <2>2. CASE Fresh(s) # {} /\ u = Fired(s, e, down)
    <3>1. Through(s, Fired(s, e, down), strayed, owed, now, Engines)
      BY <1>1, <1>3, <1>5, <2>2, FiredThrough DEF Dues
    <3> QED
      BY <2>2, <3>1
  <2> QED
    BY <2>1, <2>2
<1> HIDE DEF u
<1>7. Sound(u, strayed) /\ Clocked(u, owed, now, Engines) /\ u.eng[e] # "absent"
  BY <1>5, <1>6 DEF Through
<1>8. Through(u, v, strayed, owed, now, Engines) /\ Told(v)
  BY <1>1, <1>7, ReplayedThrough
<1> HIDE DEF v
<1>9. /\ Sound(v, strayed) /\ Clocked(v, owed, now, Engines) /\ Settles(w, v) /\ v.sched.kind = sched.kind
  BY <1>2, <1>5, <1>6, <1>8, SettlesChain DEF Through
<1>10. Step(v) /\ strayed' = strayed /\ calls' = calls
  BY <1>2 DEF Free
<1>11. Sound(v, strayed') /\ strayed' \in BOOLEAN /\ calls' \in Nat
  BY <1>1, <1>9, <1>10 DEF SchedInv
<1> QED
  BY <1>8, <1>9, <1>10, <1>11, StepInv DEF w

\* The engine that ends leaves a world that is right but for its own clock.
LEMMA RetiredFine ==
  ASSUME NEW w, NEW e \in Engines, NEW lost \in BOOLEAN, NEW o, NEW t, NEW S, S \subseteq Engines, Sound(w, lost),
         w.eng[e] # "absent", Clocked(w, o, t, S)
  PROVE  LET v == Retired(w, e) IN
         /\ Sound(v, lost) /\ Clocked(v, o, t, S \ {e}) /\ Settles(w, v)
         /\ v.sched = w.sched /\ v.eng[e] = "down" /\ Typed(v)
<1> DEFINE v == Retired(w, e)
<1>1. /\ Sound(v, lost) /\ Onward(w, v, e) /\ \A r \in Runs : Lasts(w, v, r) /\ ~Here(v, e, r)
      /\ v.sched = w.sched /\ v.eng = [w.eng EXCEPT ![e] = "down"]
  BY RetiredSound
<1> HIDE DEF v
<1>2. Typed(w) /\ Typed(v)
  BY <1>1 DEF Sound
<1>3. Clocked(v, o, t, S \ {e})
  BY <1>1, <1>2, OnwardClocked
<1>4. v.eng[e] = "down"
  BY <1>1, <1>2 DEF Typed, Worlds
<1>5. Settles(w, v)
  BY <1>1 DEF Settles, Lasts
<1> QED
  BY <1>1, <1>2, <1>3, <1>4, <1>5 DEF v

\* The handover of the clock to a connection and its first catch-up keep the invariant.
LEMMA ConnectInv ==
  ASSUME SchedInv, NEW e \in Engines, Connect(e)
  PROVE  SchedInv' /\ Stays
<1> DEFINE w == World
           d == Retired(w, e)
           s == [d EXCEPT !.eng[e] = "up"]
           u == Reconciled(s, e)
           live == sched.kind = "dispatch"
           q == Restored(u, e, live)
           v == Replayed(q, e)
<1>1. /\ Sound(w, strayed) /\ Clocked(w, owed, now, Engines) /\ strayed \in BOOLEAN /\ Dues(owed) /\ now \in Nat
  BY Holds
<1>2. w.eng[e] = "clock" /\ Free(v) /\ w.sched.kind = sched.kind
  BY WorldIs DEF Connect
<1>3. live \in BOOLEAN /\ (live \/ w.sched.kind # "dispatch")
  BY <1>2
<1> HIDE DEF w, live
<1>4. /\ Sound(d, strayed) /\ Clocked(d, owed, now, Engines \ {e}) /\ Settles(w, d)
      /\ d.sched = w.sched /\ d.eng[e] = "down" /\ Typed(d)
  BY <1>1, <1>2, RetiredFine
<1> HIDE DEF d
<1>5. LivesOn(d, s, e, "up")
  BY <1>4, LifeSets
<1> HIDE DEF s
<1>6. /\ Sound(s, strayed) /\ Clocked(s, owed, now, Engines \ {e}) /\ Settles(d, s) /\ s.eng[e] = "up"
      /\ s.sched = d.sched
  BY <1>1, <1>4, <1>5, LivesSound
<1>7. Sound(u, strayed) /\ Steps(s, u, e)
  BY <1>1, <1>6, ReconciledSound
<1> HIDE DEF u
<1>8. Through(s, u, strayed, owed, now, Engines \ {e})
  BY <1>6, <1>7, ThroughSteps
<1>9. Through(u, q, strayed, owed, now, Engines)
  <2>1. /\ u.eng[e] \notin {"down", "absent"} /\ Clocked(u, owed, now, Engines \ {e})
        /\ live \/ u.sched.kind # "dispatch" \/ owed = {}
    BY <1>3, <1>4, <1>6, <1>8 DEF Through
  <2> QED
    BY <1>1, <1>3, <1>7, <2>1, RestoredThrough DEF Dues
<1> HIDE DEF q
<1>10. Sound(q, strayed) /\ Clocked(q, owed, now, Engines) /\ q.eng[e] # "absent"
  BY <1>6, <1>8, <1>9 DEF Through
<1>11. Through(q, v, strayed, owed, now, Engines) /\ Told(v)
  BY <1>1, <1>10, ReplayedThrough
<1> HIDE DEF v
<1>12. /\ Sound(v, strayed) /\ Clocked(v, owed, now, Engines) /\ Settles(w, v) /\ v.sched.kind = sched.kind
  BY <1>2, <1>4, <1>6, <1>8, <1>9, <1>11, SettlesChain DEF Through
<1>13. Step(v) /\ strayed' = strayed /\ calls' = calls
  BY <1>2 DEF Free
<1>14. Sound(v, strayed') /\ strayed' \in BOOLEAN /\ calls' \in Nat
  BY <1>1, <1>12, <1>13 DEF SchedInv
<1> QED
  BY <1>11, <1>12, <1>13, <1>14, StepInv DEF w

\* An engine that does not run need not wake, and whoever comes after it tells what it did not.
LEMMA GoneInv ==
  ASSUME SchedInv, NEW v, NEW e \in Engines, Sound(v, strayed), Clocked(v, {}, now, Engines \ {e}), Settles(World, v),
         v.eng[e] = "down", Call(v)
  PROVE  SchedInv' /\ Stays
<1>1. Wakes(v, e)
  BY DEF Wakes, Serves
<1>2. Clocked(v, {}, now, Engines)
  BY <1>1 DEF Clocked
<1>3. Told(v)
  BY DEF Told, Known
<1> QED
  BY <1>2, <1>3, CallInv

\* dispose keeps the invariant.
LEMMA DisposeInv ==
  ASSUME SchedInv, NEW e \in Engines, Dispose(e)
  PROVE  SchedInv' /\ Stays
<1> DEFINE w == World
           d == Retired(w, e)
           v == [d EXCEPT !.told = {n \in @ : n[1] # e}]
<1>1. Sound(w, strayed) /\ Clocked(w, {}, now, Engines) /\ strayed \in BOOLEAN
  BY Holds
<1>2. w.eng[e] # "absent" /\ Call(v)
  BY WorldIs DEF Dispose
<1> HIDE DEF w
<1>3. /\ Sound(d, strayed) /\ Clocked(d, {}, now, Engines \ {e}) /\ Settles(w, d) /\ d.eng[e] = "down" /\ Typed(d)
  BY <1>1, <1>2, RetiredFine
<1> HIDE DEF d
<1>4. /\ v.sched = d.sched /\ v.row = d.row /\ v.eng = d.eng /\ v.timer = d.timer /\ v.rt = d.rt /\ v.queue = d.queue
      /\ v.work = d.work /\ v.cut = d.cut /\ v.blamed = d.blamed /\ v.told \subseteq d.told /\ Typed(v)
  <2>1. d.told \subseteq Engines \X Runs
    BY <1>3 DEF Typed, Worlds
  <2> QED
    BY <1>3, <2>1 DEF Typed, Worlds
<1> HIDE DEF v
<1>5. Sound(v, strayed)
  <2>1. \A f \in Engines, r \in Runs : <<f, r>> \in v.told => d.row[r].st \in Terminal
    BY <1>3, <1>4 DEF Sound, Full, Base, Informed
  <2> QED
    BY <1>3, <1>4, <2>1, SoundSame
<1>6. Clocked(v, {}, now, Engines \ {e})
  <2>1. Onward(d, v, e) /\ \A r \in Runs : Lasts(d, v, r)
    BY <1>4, SameOnward
  <2>2. v.eng[e] \in {"down", "absent"} => \A r \in Runs : ~Here(v, e, r)
    BY <1>3, <1>4 DEF Clocked, Housed, Here
  <2>3. Clocked(v, {}, now, (Engines \ {e}) \ {e})
    BY <1>3, <1>4, <2>1, <2>2, OnwardClocked
  <2> QED
    BY <2>3 DEF Clocked
<1>7. Settles(w, v) /\ v.eng[e] = "down"
  BY <1>3, <1>4 DEF Settles
<1> QED
  BY <1>2, <1>5, <1>6, <1>7, GoneInv DEF w

\* A crash keeps the invariant.
LEMMA CrashInv ==
  ASSUME SchedInv, NEW e \in Engines, Crash(e)
  PROVE  SchedInv' /\ Stays
<1> DEFINE w == World
           v == Dead(w, e)
<1>1. Sound(w, strayed) /\ Typed(w) /\ Clocked(w, {}, now, Engines) /\ strayed \in BOOLEAN
  BY Holds
<1>2. w.eng[e] # "absent" /\ Call(v)
  BY WorldIs DEF Crash, Alive
<1> HIDE DEF w
<1>3. \A r \in Runs : Base(w, r) /\ Clean(w, r, strayed) /\ Full(w, r, strayed)
  BY <1>1 DEF Sound, Full
<1>4. /\ Sound(v, strayed) /\ Onward(w, v, e) /\ \A r \in Runs : Lasts(w, v, r) /\ ~Here(v, e, r)
      /\ v.sched = w.sched /\ v.eng[e] = "down"
  BY <1>1, <1>2, <1>3, DeadSound
<1> HIDE DEF v
<1>5. Typed(v)
  BY <1>4 DEF Sound
<1>6. Clocked(v, {}, now, Engines \ {e})
  BY <1>1, <1>4, <1>5, OnwardClocked
<1>7. Settles(w, v)
  BY <1>4 DEF Settles, Lasts
<1> QED
  BY <1>2, <1>4, <1>6, <1>7, GoneInv DEF w

-----------------------------------------------------------------------------
(* Requests of the server *)

\* A manual trigger keeps the invariant.
LEMMA TriggerInv ==
  ASSUME SchedInv, NEW e \in Engines, Trigger(e)
  PROVE  SchedInv' /\ Stays
<1> DEFINE w == World
           tick == 0
           early == FALSE
           next == w.sched.next
           o == {}
<1>1. /\ Sound(w, strayed) /\ Typed(w) /\ Clocked(w, o, now, Engines) /\ Clocked(w, o, now, {})
      /\ strayed \in BOOLEAN /\ now \in Nat
  BY Holds
<1>2. /\ w.eng[e] = "up" /\ w.sched.live /\ w.sched.on /\ Fresh(w) # {}
      /\ Call(IF Expired(w) THEN Disabled(w, e) ELSE Accepted(w, e, Min(Fresh(w)), tick, early, next))
  BY WorldIs DEF Trigger
<1>3. early \in BOOLEAN /\ tick \in Nat /\ next \in Nat
  BY <1>1, TypedClock
<1>4. Moves(w, o, now, tick, next) /\ Dues(o) /\ o \subseteq {}
  BY DEF Moves, Dues
<1>5. Takes(w, now, tick, early, next)
  <2>1. next % 2 = 0
    BY <1>1 DEF Clocked, Cursored
  <2> QED
    BY <1>2, <1>3, <2>1 DEF Takes
<1> HIDE DEF w, early, tick, next, o
<1>6. CASE Expired(w)
  <2> DEFINE v == Disabled(w, e)
  <2>1. Call(v)
    BY <1>2, <1>6
  <2>2. /\ Sound(v, strayed) /\ Clocked(v, o, now, Engines) /\ Settles(w, v) /\ (Told(w) => Told(v))
        /\ v.sched.kind = w.sched.kind /\ v.eng = w.eng
    BY <1>1, <1>2, DisabledFine
  <2> HIDE DEF v
  <2>3. Through(w, v, strayed, {}, now, Engines)
    <3>1. o = {}
      BY <1>4
    <3> QED
      BY <2>2, <3>1 DEF Through
  <2> QED
    BY <2>1, <2>3, CallThrough DEF w
<1>7. CASE ~Expired(w)
  <2> DEFINE v == Accepted(w, e, Min(Fresh(w)), tick, early, next)
  <2>1. Call(v)
    BY <1>2, <1>7
  <2>2. /\ Sound(v, strayed) /\ Clocked(v, o, now, Engines) /\ Settles(w, v) /\ (Told(w) => Told(v))
        /\ v.sched = NextAt(w.sched, next) /\ v.eng = w.eng
    <3> DEFINE S == Engines
    <3>1. S \subseteq Engines /\ w.eng[e] \notin {"down", "absent"} /\ Clocked(w, o, now, S)
      BY <1>1, <1>2
    <3> HIDE DEF S
    <3>2. Sound(v, strayed) /\ Clocked(v, o, now, S) /\ Settles(w, v) /\ (Told(w) => Told(v))
          /\ v.sched = NextAt(w.sched, next) /\ v.eng = w.eng
      BY <1>1, <1>2, <1>3, <1>4, <1>5, <3>1, AcceptedFine
    <3> QED
      BY <3>2 DEF S
  <2> HIDE DEF v
  <2>3. v.sched.kind = w.sched.kind
    BY <1>1, <2>2 DEF NextAt, Typed, Worlds, Scheds
  <2>4. o = {}
    BY <1>4
  <2>5. Through(w, v, strayed, {}, now, Engines)
    BY <2>2, <2>3, <2>4 DEF Through
  <2> QED
    BY <2>1, <2>5, CallThrough DEF w
<1> QED
  BY <1>6, <1>7

\* A run that is stopped and ends by request or timeout.
LEMMA EndedThrough ==
  ASSUME NEW w, NEW e \in Engines, NEW r \in Runs, NEW st \in Terminal, NEW lost \in BOOLEAN, NEW o, NEW t,
         Sound(w, lost), Clocked(w, o, t, Engines), w.eng[e] \notin {"down", "absent"}
  PROVE  Through(w, Ended(w, e, r, st), lost, o, t, Engines)
<1>1. Typed(w) /\ Full(w, r, lost) /\ \A q \in Runs : Full(w, q, lost)
  BY DEF Sound
<1>2. CASE w.row[r].own # e
  <2> DEFINE v == Checked(w, e, r)
  <2>1. Ended(w, e, r, st) = v
    BY <1>1, <1>2, OwnedIsOwner DEF Ended, Full
  <2>2. Sound(v, lost) /\ Steps(w, v, e)
    <3>1. Turn(w, v, e, r) /\ Full(v, r, lost)
      BY <1>1, CheckedTurn
    <3> QED
      BY <3>1, TurnSound
  <2> HIDE DEF v
  <2> QED
    BY <2>1, <2>2, ThroughSteps
<1>3. CASE w.row[r].own = e
  <2> DEFINE s == Stop(w, e, r)
             v == Finish(s, e, r, st)
  <2>1. Owned(w, e, r) /\ Base(w, r)
    BY <1>1, <1>3, OwnedIsOwner DEF Full
  <2>2. Ended(w, e, r, st) = v
    BY <2>1 DEF Ended
  <2>3. /\ Turn(w, s, e, r) /\ Base(s, r) /\ s.row = w.row /\ s.rt = w.rt
    BY <1>1, <2>1, StopTurn
  <2> HIDE DEF s
  <2>4. Typed(s) /\ Clean(s, r, lost) /\ s.eng = w.eng /\ s.eng[e] # "absent"
    BY <1>1, <2>3 DEF Turn, Only, Full, Clean, Here
  <2>5. s.row[r].own = e => Here(s, e, r)
    BY <1>1, <1>3, <2>3, OwnerIsHere DEF Here
  <2>6. s.row[r].own = e
    BY <1>3, <2>3
  <2>7. Others(s, r, lost)
    BY <1>1, <2>3, <2>4, OtherRuns DEF Others, Turn
  <2>8. Sound(v, lost) /\ Steps(s, v, e)
    BY <2>3, <2>4, <2>5, <2>6, <2>7, FinishSound
  <2> HIDE DEF v
  <2>9. Steps(w, s, e)
    BY <2>3, TurnSteps
  <2>10. Steps(w, v, e)
    BY <2>8, <2>9, StepsChain
  <2>11. Through(w, v, lost, o, t, Engines)
    BY <2>8, <2>10, ThroughSteps
  <2> QED
    BY <2>2, <2>11
<1> QED
  BY <1>2, <1>3

\* A cancel keeps the invariant, whichever engine it reaches.
LEMMA CancelInv ==
  ASSUME SchedInv, NEW e \in Engines, NEW r \in Runs, Cancel(e, r)
  PROVE  SchedInv' /\ Stays
<1> DEFINE w == World
           v == Ended(w, e, r, "cancelled")
<1>1. Sound(w, strayed) /\ Clocked(w, {}, now, Engines) /\ strayed \in BOOLEAN
  BY Holds
<1>2. w.eng[e] \notin {"down", "absent"} /\ Call(v) /\ "cancelled" \in Terminal
  BY WorldIs DEF Cancel, Terminal
<1> HIDE DEF w
<1>3. Through(w, v, strayed, {}, now, Engines)
  BY <1>1, <1>2, EndedThrough
<1> HIDE DEF v
<1> QED
  BY <1>2, <1>3, CallThrough DEF w

\* A run's timeout keeps the invariant.
LEMMA TimesOutInv ==
  ASSUME SchedInv, NEW e \in Engines, NEW r \in Runs, TimesOut(e, r)
  PROVE  SchedInv' /\ Stays
<1> DEFINE w == World
           v == Ended(w, e, r, "timeout")
<1>1. Sound(w, strayed) /\ Clocked(w, {}, now, Engines) /\ strayed \in BOOLEAN
  BY Holds
<1>2. w.eng[e] \notin {"down", "absent"} /\ Call(v) /\ "timeout" \in Terminal
  BY WorldIs DEF TimesOut, Terminal, Alive
<1> HIDE DEF w
<1>3. Through(w, v, strayed, {}, now, Engines)
  BY <1>1, <1>2, EndedThrough
<1> HIDE DEF v
<1> QED
  BY <1>2, <1>3, CallThrough DEF w

\* resolve keeps the invariant.
LEMMA ResolveInv ==
  ASSUME SchedInv, NEW e \in Engines, NEW r \in Runs, Resolve(e, r)
  PROVE  SchedInv' /\ Stays
<1> DEFINE w == World
           st == IF rt[e][r].ph = "queued" THEN "cancelled" ELSE "success"
           v == Ended(w, e, r, st)
<1>1. Sound(w, strayed) /\ Clocked(w, owed, now, Engines) /\ strayed \in BOOLEAN
  BY Holds
<1>2. w.eng[e] \notin {"down", "absent"} /\ Free(v)
  BY WorldIs DEF Resolve
<1>3. st \in Terminal
  BY DEF Terminal
<1> HIDE DEF w, st
<1>4. Through(w, v, strayed, owed, now, Engines)
  BY <1>1, <1>2, <1>3, EndedThrough
<1> HIDE DEF v
<1> QED
  BY <1>2, <1>4, FreeInv DEF w

\* update: the schedule row, the cursor beyond the present, and the timer of e alone.
Redefined(w, e, on, overlap, redefine) ==
  [w EXCEPT !.sched.on = on, !.sched.overlap = overlap,
            !.sched.rev = IF redefine THEN @ + 1 ELSE @,
            !.sched.next = IF on THEN NextTick(now) ELSE 0,
            !.timer[e] = 0, !.cut = Engines]

\* An update, with the timer it arms and the engines whose timers it does not, goes
\* through.
LEMMA RedefinedThrough ==
  ASSUME NEW w, NEW e \in Engines, NEW on \in BOOLEAN, NEW redefine \in BOOLEAN, NEW overlap \in Overlaps,
         NEW lost \in BOOLEAN, Sound(w, lost), w.eng[e] # "absent", now \in Nat, Clocked(w, {}, now, {})
  PROVE  Through(w, Redefined(w, e, on, overlap, redefine), lost, {}, now, Engines)
<1> DEFINE next == IF on THEN NextTick(now) ELSE 0
           rev == IF redefine THEN w.sched.rev + 1 ELSE w.sched.rev
           sc == [w.sched EXCEPT !.on = on, !.overlap = overlap, !.rev = rev, !.next = next]
           tm == [w.timer EXCEPT ![e] = 0]
           cu == Engines
           s == [w EXCEPT !.sched = sc, !.timer = tm, !.cut = cu]
<1>1. Typed(w) /\ w.sched \in Scheds
  BY DEF Sound, Typed, Worlds
<1>2. Redefined(w, e, on, overlap, redefine) = s
  BY <1>1, ZenonT(60) DEF Redefined, Typed, Worlds, Scheds
<1>3. NextTick(now) \in Nat /\ NextTick(now) % 2 = 0 /\ now < NextTick(now)
  BY NextTickIs
<1>4. /\ next \in Nat /\ next % 2 = 0 /\ (on => next > 0) /\ (next # 0 => now < next)
      /\ next <= NextTick(now)
  BY <1>3
<1>5. rev \in Nat /\ overlap \in {"skip", "queue", "allow"}
  BY <1>1, SchedulerAssumption DEF Scheds
<1> HIDE DEF next, rev
<1>6. /\ sc \in Scheds /\ sc.on = on /\ sc.next = next /\ sc.kind = w.sched.kind /\ sc.tries = w.sched.tries
  BY <1>1, <1>4, <1>5 DEF Scheds
<1>7. tm \in [Engines -> Nat] /\ cu \in SUBSET Engines
  BY <1>1 DEF Typed, Worlds
<1>8. cu = Engines
  OBVIOUS
<1> HIDE DEF sc, tm, cu
<1>9. OnlyClock(w, s) /\ s.sched = sc /\ s.cut = cu
  BY <1>1, <1>6, <1>7 DEF OnlyClock, Typed, Worlds
<1> HIDE DEF s
<1>10. Sound(s, lost) /\ Settles(w, s) /\ (Told(w) => Told(s)) /\ Housed(s) /\ \A r \in Runs : Lasts(w, s, r)
  BY <1>9, OnlyClockSound DEF Clocked
<1>11. Cursored(s, now)
  <2>1. s.sched.on = on /\ s.sched.next = next
    BY <1>6, <1>9
  <2>2. Cursored(w, now) /\ s.row = w.row
    BY <1>9 DEF Clocked, OnlyClock
  <2>3. \A r \in Runs : s.row[r].tick # 0 /\ ~s.row[r].early =>
          s.row[r].tick <= now /\ (s.sched.next # 0 => s.row[r].tick < s.sched.next)
    <3>1. \A r \in Runs : w.row[r].tick \in Nat
      BY <1>1, TypedRun DEF Typed, Worlds, Rows
    <3> QED
      BY <1>4, <2>1, <2>2, <3>1 DEF Cursored
  <2> QED
    BY <1>4, <2>1, <2>2, <2>3 DEF Cursored
<1>12. Owes(s, {}, now)
  BY <1>4, <1>6, <1>9 DEF Owes
<1>13. \A f \in Engines : Wakes(s, f)
  BY <1>8, <1>9 DEF Wakes, Serves
<1>14. s.eng = w.eng /\ s.sched.kind = w.sched.kind
  BY <1>9 DEF OnlyClock
<1> QED
  BY <1>2, <1>10, <1>11, <1>12, <1>13, <1>14 DEF Clocked, Through

\* update keeps the invariant.
LEMMA UpdateInv ==
  ASSUME SchedInv, NEW e \in Engines, NEW on \in BOOLEAN, NEW redefine \in BOOLEAN, NEW overlap \in Overlaps,
         Update(e, on, overlap, redefine)
  PROVE  SchedInv' /\ Stays
<1> DEFINE w == World
           s == Redefined(w, e, on, overlap, redefine)
           q == IF on /\ overlap = "queue" THEN s ELSE QueueCancelled(s, e)
           v == IF on THEN Armed(q, e) ELSE q
           o == {}
<1>1. Sound(w, strayed) /\ Clocked(w, o, now, {}) /\ strayed \in BOOLEAN /\ now \in Nat
  BY Holds
<1>2. w.eng[e] = "up" /\ Call(v)
  BY WorldIs DEF Update, Redefined
<1> HIDE DEF w
<1>3. Through(w, s, strayed, o, now, Engines)
  BY <1>1, <1>2, RedefinedThrough
<1> HIDE DEF s
<1>4. Sound(s, strayed) /\ Clocked(s, o, now, Engines) /\ s.eng = w.eng
  BY <1>3 DEF Through
<1> HIDE DEF o
<1>5. Through(s, q, strayed, o, now, Engines)
  <2>1. CASE q = s
    <3>1. Settles(s, s)
      BY DEF Settles
    <3> QED
      BY <1>4, <2>1, <3>1, ThroughSame
  <2>2. CASE q = QueueCancelled(s, e)
    <3> DEFINE u == QueueCancelled(s, e)
    <3>1. Sound(u, strayed) /\ Steps(s, u, e)
      BY <1>1, <1>2, <1>4, QueueCancelledSound
    <3> HIDE DEF u
    <3>2. s.eng[e] \notin {"down", "absent"}
      BY <1>2, <1>4
    <3>3. Through(s, u, strayed, o, now, Engines)
      BY <1>4, <3>1, <3>2, ThroughSteps
    <3> QED
      BY <2>2, <3>3 DEF u
  <2> QED
    BY <2>1, <2>2
<1> HIDE DEF q
<1>6. Through(q, v, strayed, o, now, Engines)
  <2>1. Sound(q, strayed) /\ Clocked(q, o, now, Engines) /\ Clocked(q, o, now, Engines \ {e})
    BY <1>5 DEF Through, Clocked
  <2>2. CASE v = q
    <3>1. Settles(q, q)
      BY DEF Settles
    <3> QED
      BY <2>1, <2>2, <3>1, ThroughSame
  <2>3. CASE v = Armed(q, e)
    <3>1. Through(q, Armed(q, e), strayed, o, now, Engines)
      BY <2>1, ArmedThrough
    <3> QED
      BY <2>3, <3>1
  <2> QED
    BY <2>2, <2>3
<1> HIDE DEF v
<1>7. Through(w, v, strayed, o, now, Engines)
  BY <1>3, <1>5, <1>6, ThroughChain
<1> QED
  BY <1>2, <1>7, CallThrough DEF w, o

\* delete, with the runs it ends, keeps the invariant.
LEMMA DeleteInv ==
  ASSUME SchedInv, NEW e \in Engines, Delete(e)
  PROVE  SchedInv' /\ Stays
<1> DEFINE w == World
           u == Each(w, e, [r \in Objects(w, e) |-> Settled(Stop(w, e, r), e, r, "cancelled")])
           v == [u EXCEPT !.timer[e] = 0, !.sched.live = FALSE]
           o == {}
<1>1. Sound(w, strayed) /\ Clocked(w, o, now, Engines) /\ strayed \in BOOLEAN /\ now \in Nat
  BY Holds
<1>2. w.eng[e] = "up" /\ Call(v)
  BY WorldIs DEF Delete
<1> HIDE DEF w
<1>3. Sound(u, strayed) /\ Steps(w, u, e)
  BY <1>1, <1>2, AllStoppedSound
<1> HIDE DEF u, o
<1>4. Through(w, u, strayed, o, now, Engines)
  BY <1>1, <1>2, <1>3, ThroughSteps
<1>5. Typed(u) /\ u.eng[e] # "absent" /\ Clocked(u, o, now, Engines)
  BY <1>2, <1>3, <1>4 DEF Through, Sound
<1> DEFINE sc == [u.sched EXCEPT !.live = FALSE]
           tm == [u.timer EXCEPT ![e] = 0]
<1>6. v = [u EXCEPT !.sched = sc, !.timer = tm]
  BY <1>5 DEF Typed, Worlds
<1>7. /\ sc \in Scheds /\ sc.on = u.sched.on /\ sc.next = u.sched.next /\ sc.kind = u.sched.kind
      /\ sc.tries = u.sched.tries /\ sc.live = FALSE
  BY <1>5 DEF Typed, Worlds, Scheds
<1>8. tm \in [Engines -> Nat]
  BY <1>5 DEF Typed, Worlds
<1> HIDE DEF sc, tm, v
<1>9. OnlyClock(u, v) /\ v.sched = sc
  BY <1>5, <1>6, <1>7, <1>8 DEF OnlyClock, Typed, Worlds
<1>10. Sound(v, strayed) /\ Settles(u, v) /\ (Told(u) => Told(v)) /\ Housed(v) /\ \A r \in Runs : Lasts(u, v, r)
  BY <1>3, <1>5, <1>9, OnlyClockSound DEF Clocked
<1>11. Clocked(v, o, now, Engines)
  <2>1. Cursored(v, now)
    BY <1>5, <1>7, <1>9, <1>10, CursoredStill DEF Clocked
  <2>2. Owes(v, o, now) /\ \A f \in Engines : Wakes(v, f)
    BY <1>7, <1>9 DEF Owes, Wakes, Serves
  <2> QED
    BY <1>10, <2>1, <2>2 DEF Clocked
<1>12. v.eng = u.eng /\ v.sched.kind = u.sched.kind
  BY <1>9 DEF OnlyClock
<1>13. Through(u, v, strayed, o, now, Engines)
  BY <1>10, <1>11, <1>12 DEF Through
<1>14. Through(w, v, strayed, o, now, Engines)
  BY <1>4, <1>13, ThroughChain
<1> QED
  BY <1>2, <1>14, CallThrough DEF w, o

-----------------------------------------------------------------------------
(* A process dies between the record of an attempt and its workflow, or just after *)

\* A run that its owner is about to launch.
Ready(w, e, r, lost) ==
  /\ Others(w, r, lost) /\ Base(w, r) /\ Clean(w, r, lost) /\ w.row[r].own = e /\ Here(w, e, r)
  /\ Spent(w, r) /\ w.row[r].att < w.sched.tries

\* A process that dies in launchAttempt, with its workflow made or not, leaves the world
\* sound.
LEMMA DiesSound ==
  ASSUME NEW w, NEW e \in Engines, NEW r \in Runs, NEW made \in BOOLEAN, NEW lost \in BOOLEAN, Ready(w, e, r, lost),
         w.sched.kind = "workflow", w.eng[e] # "absent"
  PROVE  LET v == DiesLaunching(w, e, r, made) IN
         /\ Sound(v, lost) /\ Onward(w, v, e) /\ \A q \in Runs : Lasts(w, v, q) /\ ~Here(v, e, q)
         /\ v.sched = w.sched /\ v.eng[e] = "down"
<1> DEFINE s == Attempted(w, e, r)
           b == Begins(s, e, r, "alive")
           u == IF made THEN b ELSE s
           v == Dead(u, e)
<1>1. DiesLaunching(w, e, r, made) = v
  BY DEF DiesLaunching, Begins
<1>2. Typed(w) /\ Base(w, r) /\ Clean(w, r, lost) /\ w.row[r].own = e /\ Here(w, e, r)
      /\ Spent(w, r) /\ w.row[r].att < w.sched.tries
  BY DEF Ready, Others
<1>3. /\ Turn(w, s, e, r) /\ Base(s, r) /\ Phased(s, r) /\ Clean(s, r, lost)
      /\ s.row[r].own = e /\ Here(s, e, r) /\ Spent(s, r)
      /\ s.row[r].att \in Slots(w) /\ s.row[r].ph = "launching"
      /\ s.work[r][s.row[r].att] = NoWork
  BY <1>2, AttemptedTurn
<1> HIDE DEF s
<1>4. Typed(s) /\ s.sched = w.sched /\ s.eng = w.eng /\ s.row[r].att \in Slots(s)
  BY <1>3 DEF Turn, Only, Slots
<1>5. Turn(s, b, e, r) /\ Base(b, r) /\ Clean(b, r, lost) /\ b.row = s.row
  <2> DEFINE st == "alive"
  <2>1. st \in Doing /\ s.sched.kind # "dispatch" /\ ~(st \in {"creating"})
    BY <1>4 DEF Doing
  <2> HIDE DEF st
  <2>2. /\ Turn(s, Begins(s, e, r, st), e, r) /\ Base(Begins(s, e, r, st), r)
        /\ Clean(Begins(s, e, r, st), r, lost) /\ Begins(s, e, r, st).row = s.row
    BY <1>3, <1>4, <2>1, BeginTurn
  <2> QED
    BY <2>2 DEF st
<1>6. Turn(w, b, e, r)
  BY <1>3, <1>5, TurnChain
<1>7. Turn(w, u, e, r) /\ Base(u, r) /\ Clean(u, r, lost) /\ u.row[r].own = e
  BY <1>3, <1>5, <1>6
<1> HIDE DEF u
<1>8. Typed(u) /\ u.sched = w.sched /\ u.eng = w.eng /\ Steps(w, u, e)
  BY <1>7, TurnSteps DEF Turn, Only
<1>9. \A q \in Runs : q # r => Full(u, q, lost)
  BY <1>7, <1>8, OtherRuns DEF Ready, Others, Turn
<1>10. \A q \in Runs : Base(u, q) /\ Clean(u, q, lost) /\ (u.row[q].own # e => Full(u, q, lost))
  BY <1>7, <1>9 DEF Full
<1>11. /\ Sound(v, lost) /\ Onward(u, v, e) /\ \A q \in Runs : Lasts(u, v, q) /\ ~Here(v, e, q)
       /\ v.sched = u.sched /\ v.eng[e] = "down"
  BY <1>8, <1>10, DeadSound
<1> HIDE DEF v
<1>12. Onward(w, u, e) /\ \A q \in Runs : Lasts(w, u, q)
  BY <1>8, StepsOnward
<1>13. Onward(w, v, e)
  BY <1>11, <1>12, OnwardChain
<1>14. \A q \in Runs : Lasts(w, v, q)
  BY <1>11, <1>12, LastsChain
<1> QED
  BY <1>1, <1>8, <1>11, <1>13, <1>14

\* Such a death keeps the invariant, whatever brought the launch about.
LEMMA DiesInv ==
  ASSUME SchedInv, NEW w, NEW e \in Engines, NEW r \in Runs, NEW made \in BOOLEAN, Ready(w, e, r, strayed),
         w.sched.kind = "workflow", w.eng[e] # "absent", Clocked(w, {}, now, Engines), Settles(World, w),
         Call(DiesLaunching(w, e, r, made))
  PROVE  SchedInv' /\ Stays
<1> DEFINE v == DiesLaunching(w, e, r, made)
<1>1. strayed \in BOOLEAN /\ Typed(w)
  BY Holds DEF Ready, Others
<1>2. /\ Sound(v, strayed) /\ Onward(w, v, e) /\ \A q \in Runs : Lasts(w, v, q) /\ ~Here(v, e, q)
      /\ v.sched = w.sched /\ v.eng[e] = "down"
  BY <1>1, DiesSound
<1> HIDE DEF v
<1>3. Typed(v)
  BY <1>2 DEF Sound
<1>4. Clocked(v, {}, now, Engines \ {e})
  BY <1>1, <1>2, <1>3, OnwardClocked
<1>5. Settles(w, v)
  BY <1>2 DEF Settles, Lasts
<1>6. Settles(World, v)
  BY <1>5, SettlesChain
<1> QED
  BY <1>2, <1>4, <1>6, GoneInv DEF v

\* An occurrence whose receipt is written.
LEMMA FirstReady ==
  ASSUME NEW w, NEW e \in Engines, NEW lost \in BOOLEAN, NEW t \in Nat, NEW early, early \in BOOLEAN, NEW o, o \subseteq {},
         Sound(w, lost), Clocked(w, o, t, Engines), w.eng[e] \notin {"down", "absent"}, Fresh(w) # {}, w.sched.on,
         w.sched.next <= t + 1, t < w.sched.next => early
  PROVE  LET r == Min(Fresh(w))
             v == Received(w, e, r, "launching", w.sched.next, early, NextTick(t))
         IN /\ r \in Runs /\ Ready(v, e, r, lost) /\ v.sched.kind = w.sched.kind /\ v.eng = w.eng
            /\ Clocked(v, o, t, Engines) /\ Settles(w, v)
<1> DEFINE r == Min(Fresh(w))
           ph == "launching"
           tick == w.sched.next
           next == NextTick(t)
           v == Received(w, e, r, ph, tick, early, next)
<1>1. Typed(w) /\ tick \in Nat /\ tick % 2 = 0
  BY TypedClock DEF Sound, Clocked, Cursored
<1>2. r \in Runs /\ w.row[r].st = "none" /\ Lowest(w, r)
  BY <1>1, FirstFresh DEF Lowest
<1>3. next \in Nat /\ next % 2 = 0 /\ t < next
  BY NextTickIs
<1>4. Takes(w, t, tick, early, next) /\ Moves(w, o, t, tick, next) /\ Dues(o)
  <2>1. w.sched.next <= next /\ (early \/ tick < next)
    BY <1>1, <1>3
  <2> QED
    BY <1>3, <2>1 DEF Takes, Moves, Dues
<1>5. ph \in {"skipped", "queued", "launching"} /\ ph \in {"launching"}
  OBVIOUS
<1> HIDE DEF r, tick, next, ph
<1>6. IsReceived(w, v, e, r, ph, tick, early, next)
  BY <1>1, <1>2, <1>3, <1>5, ReceivedRow
<1>7. Receives(w, v, e, r, ph, lost)
  BY <1>1, <1>2, <1>3, <1>5, ReceivedSound
<1>8. Accepts(w, v, e, r, tick, early, next)
  BY <1>1, <1>2, <1>3, <1>5, ReceivedAccepts
<1>9. IsReceipt(Receipt(w, e, ph, tick, early), e, ph, tick, early)
  BY <1>1, <1>5, ReceiptOf
<1> HIDE DEF v
<1>10. Clocked(v, o, t, Engines) /\ Settles(w, v)
  <2> DEFINE S == Engines
  <2>1. S \subseteq Engines /\ Clocked(w, o, t, S)
    OBVIOUS
  <2> HIDE DEF S
  <2>2. Clocked(v, o, t, S) /\ Settles(w, v)
    BY <1>1, <1>2, <1>4, <1>8, <2>1, AcceptsClocked
  <2> QED
    BY <2>2 DEF S
<1>11. v.sched.kind = w.sched.kind /\ v.sched.tries \in Nat \ {0} /\ v.eng = w.eng
  <2>1. NextAt(w.sched, next).kind = w.sched.kind /\ NextAt(w.sched, next).tries = w.sched.tries
    BY <1>1 DEF NextAt, Typed, Worlds, Scheds
  <2> QED
    BY <1>1, <1>6, <2>1, TypedClock DEF IsReceived
<1>12. v.row[r].own = e /\ v.row[r].att = 0
  BY <1>5, <1>6, <1>9 DEF IsReceived, IsReceipt
<1>13. Here(v, e, r)
  BY <1>5, <1>6 DEF IsReceived, Received0, Here, NoRun
<1>14. Ready(v, e, r, lost)
  BY <1>7, <1>11, <1>12, <1>13 DEF Ready, Receives, Spent
<1> QED
  BY <1>2, <1>10, <1>11, <1>14 DEF v, r, tick, next, ph

\* A crash in the middle of a launch keeps the invariant.
LEMMA CrashInLaunchInv ==
  ASSUME SchedInv, NEW e \in Engines, NEW made \in BOOLEAN, CrashInLaunch(e, made)
  PROVE  SchedInv' /\ Stays
<1> DEFINE w == World
           o == {}
           early == now < sched.next
           first == Min(Fresh(w))
           u == Received(w, e, first, "launching", w.sched.next, early, NextTick(now))
<1>1. /\ Sound(w, strayed) /\ Typed(w) /\ Clocked(w, o, now, Engines) /\ strayed \in BOOLEAN
      /\ now \in Nat
  BY Holds
<1>2. w.sched = sched /\ w.sched.kind = "workflow" /\ o \subseteq {} /\ early \in BOOLEAN
  BY WorldIs DEF CrashInLaunch
<1>3. CASE Admitted(e) /\ Call(DiesLaunching(u, e, first, made))
  <2>1. /\ w.eng[e] \notin {"down", "absent"} /\ Fresh(w) # {} /\ w.sched.on /\ w.sched.next <= now + 1
        /\ (now < w.sched.next => early)
    BY <1>3, WorldIs DEF Admitted, Due, Alive
  <2> HIDE DEF w, o, early
  <2>2. /\ first \in Runs /\ Ready(u, e, first, strayed) /\ u.sched.kind = w.sched.kind /\ u.eng = w.eng
        /\ Clocked(u, o, now, Engines) /\ Settles(w, u)
    BY <1>1, <1>2, <2>1, FirstReady
  <2> HIDE DEF u, first
  <2>3. Call(DiesLaunching(u, e, first, made)) /\ u.sched.kind = "workflow" /\ u.eng[e] # "absent"
    BY <1>2, <1>3, <2>1, <2>2
  <2> QED
    BY <2>2, <2>3, DiesInv DEF w, o
<1>4. ASSUME NEW r \in Runs, w.rt[e][r].ph = "retry_wait", Owned(w, e, r), Call(DiesLaunching(w, e, r, made))
      PROVE  SchedInv' /\ Stays
  <2> HIDE DEF w
  <2>1. Full(w, r, strayed) /\ w.row[r].own = e
    BY <1>1, <1>4, OwnedIsOwner, ZenonT(60) DEF Sound, Full
  <2>2. w.row[r].ph = "retry_wait" /\ w.row[r].st \in Active /\ Here(w, e, r)
    BY <1>1, <1>4, <2>1, OwnerIsHere
  <2>3. w.row[r].att < w.sched.tries /\ Spent(w, r)
    BY <2>1, <2>2 DEF Full, Base, Counted, Single, Spent
  <2>4. Ready(w, e, r, strayed)
    BY <1>1, <2>1, <2>2, <2>3 DEF Ready, Others, Sound, Full
  <2>5. w.eng[e] # "absent"
    BY <1>1, <2>2 DEF Clocked, Housed
  <2>6. Settles(w, w)
    BY DEF Settles
  <2> QED
    BY <1>1, <1>2, <1>4, <2>4, <2>5, <2>6, DiesInv DEF w, o
<1> QED
  BY <1>3, <1>4, WorldIs DEF CrashInLaunch

-----------------------------------------------------------------------------
(* The server acknowledges, and time goes on *)

\* The end of a run is acknowledged: nothing else of the run changes.
LEMMA AckedThrough ==
  ASSUME NEW w, NEW e \in Engines, NEW r \in Runs, NEW lost \in BOOLEAN, NEW o, NEW t, Sound(w, lost),
         Clocked(w, o, t, Engines), w.row[r].st \in Terminal
  PROVE  Through(w, [w EXCEPT !.row[r].acked = TRUE, !.told = @ \ {<<e, r>>}], lost, o, t, Engines)
<1> DEFINE ro == [w.row[r] EXCEPT !.acked = TRUE]
           v == [w EXCEPT !.row[r].acked = TRUE, !.told = @ \ {<<e, r>>}]
<1>1. Typed(w) /\ w.row[r] \in Rows(w.sched.tries) /\ w.told \subseteq Engines \X Runs
  BY DEF Sound, Typed, Worlds
<1>2. /\ ro \in Rows(w.sched.tries) /\ ro.st = w.row[r].st /\ ro.ph = w.row[r].ph /\ ro.att = w.row[r].att
      /\ ro.own = w.row[r].own /\ ro.ep = w.row[r].ep /\ ro.lapsed = w.row[r].lapsed /\ ro.wf = w.row[r].wf
      /\ ro.tick = w.row[r].tick /\ ro.early = w.row[r].early /\ ro.acked = TRUE
  BY <1>1 DEF Rows
<1>3. /\ v.sched = w.sched /\ v.eng = w.eng /\ v.timer = w.timer /\ v.rt = w.rt /\ v.queue = w.queue
      /\ v.work = w.work /\ v.cut = w.cut /\ v.blamed = w.blamed /\ v.told = w.told \ {<<e, r>>}
      /\ v.row = [w.row EXCEPT ![r] = ro] /\ Typed(v)
  <2>1. [w.row EXCEPT ![r].acked = TRUE] = [w.row EXCEPT ![r] = ro]
    BY <1>1 DEF Typed, Worlds
  <2> HIDE DEF ro
  <2> QED
    BY <1>1, <1>2, <2>1, ZenonT(60) DEF Typed, Worlds
<1> HIDE DEF v, ro
<1>4. v.row[r] = ro /\ \A q \in Runs : q # r => v.row[q] = w.row[q]
  BY <1>1, <1>3 DEF Typed, Worlds
<1>5. \A q \in Runs : /\ v.row[q].st = w.row[q].st /\ v.row[q].tick = w.row[q].tick
                      /\ v.row[q].early = w.row[q].early
  BY <1>2, <1>4
<1>6. Sound(v, lost)
  <2>1. ASSUME NEW q \in Runs, q # r
        PROVE  Full(v, q, lost)
    <3>1. Full(w, q, lost) /\ v.row[q] = w.row[q]
      BY <1>4, <2>1 DEF Sound
    <3>2. Informed(v, q)
      BY <1>3, <3>1 DEF Full, Base, Informed
    <3> QED
      BY <1>3, <3>1, <3>2, SameRun
  <2>2. Full(v, r, lost)
    <3>1. Full(w, r, lost) /\ w.row[r].st \notin Active /\ w.row[r].st # "none" /\ w.row[r].own \notin Engines
      BY SchedulerAssumption DEF Sound, Full, Base, Counted, Terminal, Active
    <3>2. Slots(v) = Slots(w) /\ Doings(v, r) = Doings(w, r)
      BY <1>3 DEF Slots, Doings
    <3>3. Idle(v, r) /\ Counted(v, r) /\ Ahead(v, r)
      BY <1>2, <1>3, <1>4, <3>1 DEF Full, Base, Idle, Counted, Ahead
    <3>4. Epochs(v, r) /\ Single(v, r)
      BY <1>2, <1>3, <1>4, <3>1, <3>2 DEF Full, Base, Epochs, Single, Here
    <3>5. Named(v, r) /\ Kinds(v, r)
      <4>1. \A a : Begun(w, r, a) <=> Begun(v, r, a)
        BY <1>3 DEF Begun
      <4>2. \A f \in Engines : Here(w, f, r) <=> Here(v, f, r)
        BY <1>3 DEF Here
      <4>3. Named(v, r)
        BY <1>2, <1>3, <1>4, <3>1, <4>1, <4>2 DEF Full, Base, Named
      <4>4. Kinds(v, r)
        BY <1>3, <3>1, <3>2 DEF Full, Base, Kinds
      <4> QED
        BY <4>3, <4>4
    <3>6. Informed(v, r)
      BY <1>2, <1>3, <1>4, <3>1 DEF Full, Base, Informed
    <3>7. Phased(v, r) /\ Clean(v, r, lost) /\ Goes(v, r, lost)
      BY <1>2, <1>3, <1>4, <3>1 DEF Full, Phased, Clean, Goes, Here
    <3> QED
      BY <3>3, <3>4, <3>5, <3>6, <3>7 DEF Full, Base
  <2> QED
    BY <1>3, <2>1, <2>2 DEF Sound
<1>7. Clocked(v, o, t, Engines)
  <2>1. Housed(v)
    BY <1>3 DEF Clocked, Housed, Here
  <2>2. Cursored(v, t)
    BY <1>3, <1>5 DEF Clocked, Cursored
  <2>3. Owes(v, o, t)
    BY <1>3, <1>5 DEF Clocked, Owes
  <2>4. \A f \in Engines : Wakes(v, f)
    BY <1>3 DEF Clocked, Wakes, Serves, AwaitsIn, Slots
  <2> QED
    BY <2>1, <2>2, <2>3, <2>4 DEF Clocked
<1>8. Told(w) => Told(v)
  <2> SUFFICES ASSUME Told(w), NEW q \in Runs, v.row[q].st \in Terminal, ~v.row[q].acked
               PROVE  Known(v, q)
    BY DEF Told
  <2>1. q # r /\ v.row[q] = w.row[q]
    BY <1>2, <1>4
  <2>2. Known(w, q)
    BY <2>1 DEF Told
  <2> QED
    BY <1>3, <2>1, <2>2 DEF Known
<1>9. Settles(w, v)
  BY <1>5 DEF Settles
<1> QED
  BY <1>3, <1>6, <1>7, <1>8, <1>9 DEF Through, v

\* An acknowledgement of a run's end keeps the invariant.
LEMMA AckInv ==
  ASSUME SchedInv, NEW e \in Engines, NEW r \in Runs, Ack(e, r)
  PROVE  SchedInv' /\ Stays
<1> DEFINE w == World
           v == [w EXCEPT !.row[r].acked = TRUE, !.told = @ \ {<<e, r>>}]
<1>1. Sound(w, strayed) /\ Clocked(w, owed, now, Engines) /\ strayed \in BOOLEAN
  BY Holds
<1>2. <<e, r>> \in w.told /\ Free(v)
  BY WorldIs DEF Ack
<1> HIDE DEF w
<1>3. w.row[r].st \in Terminal
  BY <1>1, <1>2 DEF Sound, Full, Base, Informed
<1>4. Through(w, v, strayed, owed, now, Engines)
  BY <1>1, <1>3, AckedThrough
<1> HIDE DEF v
<1> QED
  BY <1>2, <1>4, FreeInv DEF w

\* Time goes on: what becomes due is owed, and the cursor of a dispatch is not beyond it.
LEMMA TickClocked ==
  ASSUME NEW w, NEW lost, NEW o, NEW n, NEW t \in Nat, Sound(w, lost), Clocked(w, o, t, Engines),
         n \subseteq o \cup {t + 1}, (t + 1) % 2 = 0 \/ n \subseteq o
  PROVE  Clocked(w, n, t + 1, Engines)
<1>1. Typed(w) /\ w.sched.next \in Nat /\ \A r \in Runs : w.row[r].tick \in Nat
  BY TypedClock, TypedRun DEF Sound, Typed, Worlds, Rows
<1>2. Cursored(w, t + 1)
  BY <1>1 DEF Clocked, Cursored
<1>3. /\ NextTick(t) \in Nat
      /\ (t + 1) % 2 = 0 => NextTick(t) = t + 1 /\ NextTick(t + 1) = t + 3
      /\ (t + 1) % 2 # 0 => NextTick(t) = t + 2 /\ NextTick(t + 1) = t + 2
  BY NextTickIs
<1>4. Owes(w, n, t + 1)
  <2> SUFFICES ASSUME w.sched.on /\ w.sched.live /\ w.sched.kind = "dispatch"
               PROVE  /\ \A x \in n : w.sched.next <= x \/ \E r \in Runs : w.row[r].tick = x
                      /\ \/ w.sched.next <= NextTick(t + 1)
                         \/ w.sched.next = NextTick(t + 1) + 2 /\ \E r \in Runs : w.row[r].tick = NextTick(t + 1)
    BY DEF Owes
  <2>1. /\ \A x \in o : w.sched.next <= x \/ \E r \in Runs : w.row[r].tick = x
        /\ \/ w.sched.next <= NextTick(t)
           \/ w.sched.next = NextTick(t) + 2 /\ \E r \in Runs : w.row[r].tick = NextTick(t)
    BY DEF Clocked, Owes
  <2>2. CASE (t + 1) % 2 = 0
    <3>1. NextTick(t) = t + 1 /\ NextTick(t + 1) = t + 3
      BY <1>3, <2>2
    <3>2. w.sched.next <= t + 1 \/ \E r \in Runs : w.row[r].tick = t + 1
      BY <2>1, <3>1
    <3>3. w.sched.next <= NextTick(t + 1)
      BY <1>1, <2>1, <3>1
    <3> QED
      BY <2>1, <3>2, <3>3
  <2>3. CASE (t + 1) % 2 # 0
    <3>1. NextTick(t + 1) = NextTick(t) /\ n \subseteq o
      BY <1>3, <2>3
    <3> QED
      BY <2>1, <3>1
  <2> QED
    BY <2>2, <2>3
<1> QED
  BY <1>2, <1>4 DEF Clocked

\* Time that passes keeps the invariant: an occurrence that falls due is owed.
LEMMA TickInv ==
  ASSUME SchedInv, Tick
  PROVE  SchedInv' /\ Stays
<1>1. /\ Sound(World, strayed) /\ Told(World) /\ Clocked(World, owed, now, Engines) /\ now \in Nat
      /\ strayed \in BOOLEAN /\ Dues(owed)
  BY Holds
<1>2. World' = World /\ strayed' = strayed /\ calls' = calls /\ now' = now + 1 /\ sched' = sched
  BY DEF Tick, World
<1>3. owed' \subseteq owed \cup {now + 1} /\ ((now + 1) % 2 = 0 \/ owed' \subseteq owed)
  BY <1>2 DEF Tick
<1>4. Clocked(World, owed', now', Engines)
  BY <1>1, <1>2, <1>3, TickClocked
<1>5. Well(World', strayed', owed', now')
  BY <1>1, <1>2, <1>4 DEF Well
<1>6. owed' # {} => sched'.on /\ sched'.live /\ sched'.kind = "dispatch"
  BY <1>2 DEF Tick, SchedInv
<1>7. \A x \in owed' : x \in Nat \ {0} /\ x % 2 = 0
  BY <1>1, <1>3 DEF Dues
<1>8. now' \in Nat /\ calls' \in Nat /\ strayed' \in BOOLEAN
  BY <1>1, <1>2 DEF SchedInv
<1>9. Stays
  BY DEF Tick, Stays
<1> QED
  BY <1>5, <1>6, <1>7, <1>8, <1>9 DEF SchedInv

-----------------------------------------------------------------------------
(* The invariant *)

\* A schedule that no engine has seen yet.
LEMMA InitSound ==
  ASSUME Init
  PROVE  Sound(World, strayed) /\ Told(World) /\ Clocked(World, owed, now, Engines) /\ sched \in Scheds
<1> DEFINE w == World
<1>1. PICK s \in Schedules :
        /\ eng = [e \in Engines |-> IF e \in s.engines THEN "down" ELSE "absent"]
        /\ sched = [live |-> TRUE, on |-> TRUE, kind |-> s.kind, overlap |-> s.overlap, tries |-> s.tries,
                    catchUp |-> s.catchUp, expires |-> s.expires, rev |-> 0, next |-> 2,
                    last |-> s.last, runs |-> s.runs]
  BY DEF Init
<1>2. /\ s.kind \in {"session", "workflow", "dispatch"} /\ s.overlap \in {"skip", "queue", "allow"}
      /\ s.tries \in Nat \ {0} /\ s.catchUp \in BOOLEAN /\ s.expires \in Nat /\ s.last \in Nat /\ s.runs \in 1..MaxRuns
  BY SchedulerAssumption
<1>3. sched \in Scheds /\ sched.tries \in Nat \ {0} /\ sched.next = 2
  BY <1>1, <1>2 DEF Scheds
<1>4. eng \in [Engines -> Lives] /\ \A e \in Engines : eng[e] \in {"down", "absent"}
  BY <1>1 DEF Lives
<1>5. /\ w.sched = sched /\ w.row = [r \in Runs |-> NoRow] /\ w.eng = eng /\ w.timer = [e \in Engines |-> 0]
      /\ w.rt = [e \in Engines |-> [r \in Runs |-> NoRun]] /\ w.queue = [e \in Engines |-> <<>>]
      /\ w.work = [r \in Runs |-> [a \in 1..sched.tries + 1 |-> NoWork]] /\ w.told = {} /\ w.cut = {} /\ w.blamed = {}
  BY WorldIs DEF Init, Attempts
<1>6. NoRow \in Rows(sched.tries) /\ NoRun \in Objs(sched.tries) /\ NoWork \in Works
  BY <1>3, SchedulerAssumption DEF NoRow, NoRun, NoWork, Rows, Objs, Works, Statuses, Phases, WorkStates
<1>7. w = [sched |-> w.sched, row |-> w.row, eng |-> w.eng, timer |-> w.timer, rt |-> w.rt, queue |-> w.queue,
           work |-> w.work, told |-> w.told, cut |-> w.cut, blamed |-> w.blamed]
  BY WorldIs DEF World
<1> HIDE DEF w
<1>8. Typed(w)
  <2>1. w.row \in [Runs -> Rows(sched.tries)] /\ w.work \in [Runs -> [1..sched.tries + 1 -> Works]]
    BY <1>5, <1>6
  <2>2. w.rt \in [Engines -> [Runs -> Objs(sched.tries)]] /\ w.timer \in [Engines -> Nat]
    BY <1>5, <1>6
  <2>3. w.queue \in [Engines -> Seq(Runs)]
    BY <1>5
  <2>4. w.sched \in Scheds /\ w.eng \in [Engines -> Lives]
    BY <1>3, <1>4, <1>5
  <2>5. w.told \in SUBSET (Engines \X Runs) /\ w.cut \in SUBSET Engines /\ w.blamed \in SUBSET Runs
    BY <1>5
  <2>6. w.sched.tries = sched.tries
    BY <1>5
  <2> QED
    BY <1>7, <2>1, <2>2, <2>3, <2>4, <2>5, <2>6 DEF Typed, Worlds
<1>9. ASSUME NEW r \in Runs
      PROVE  Full(w, r, strayed)
  <2>1. /\ w.row[r] = NoRow /\ \A e \in Engines : w.rt[e][r] = NoRun
        /\ \A a \in Slots(w) : w.work[r][a] = NoWork
    BY <1>5 DEF Slots
  <2>2. /\ NoRow.st = "none" /\ NoRow.att = 0 /\ NoRow.own = None /\ NoRun.ph = "none" /\ NoRun.map = 0
        /\ NoWork.st = "none" /\ NoWork.open = FALSE /\ "none" \notin Terminal /\ "none" \notin Active
        /\ "none" \notin Doing
    BY DEF NoRow, NoRun, NoWork, Terminal, Active, Doing
  <2>3. \A e \in Engines : ~Here(w, e, r) /\ w.row[r].own # e
    BY <2>1, <2>2, SchedulerAssumption DEF Here
  <2>4. Doings(w, r) = {}
    BY <2>1, <2>2 DEF Doings
  <2>5. Idle(w, r) /\ Counted(w, r) /\ Ahead(w, r)
    <3>1. w.sched.tries \in Nat
      BY <1>3, <1>5
    <3>2. w.row[r].att = 0 /\ w.row[r].st = "none"
      BY <2>1, <2>2
    <3>3. Counted(w, r)
      BY <2>2, <3>1, <3>2 DEF Counted
    <3>4. Idle(w, r) /\ Ahead(w, r)
      BY <2>1, <2>3 DEF Idle, Ahead
    <3> QED
      BY <3>3, <3>4
  <2>6. Epochs(w, r) /\ Single(w, r)
    BY <2>1, <2>2, <2>3, <2>4 DEF Epochs, Single
  <2>7. Named(w, r) /\ Kinds(w, r) /\ Informed(w, r)
    BY <1>5, <2>1, <2>2 DEF Named, Kinds, Informed
  <2>8. Phased(w, r) /\ Clean(w, r, strayed) /\ Goes(w, r, strayed)
    BY <2>3 DEF Phased, Clean, Goes
  <2> QED
    BY <2>5, <2>6, <2>7, <2>8 DEF Full, Base
<1>10. \A r \in Runs : w.row[r].st = "none" /\ w.row[r].tick = 0
  BY <1>5 DEF NoRow
<1>11. Told(w)
  BY <1>10 DEF Told, Terminal
<1>12. Housed(w)
  BY <1>5 DEF Housed, Here, NoRun
<1>13. Cursored(w, 0)
  BY <1>3, <1>5, <1>10 DEF Cursored
<1>14. Owes(w, {}, 0)
  <2>1. NextTick(0) = 2
    BY DEF NextTick
  <2> QED
    BY <1>3, <1>5, <2>1 DEF Owes
<1>15. \A e \in Engines : Wakes(w, e)
  BY <1>4, <1>5 DEF Wakes, Serves
<1>16. now = 0 /\ owed = {}
  BY DEF Init
<1> QED
  BY <1>3, <1>8, <1>9, <1>11, <1>12, <1>13, <1>14, <1>15, <1>16 DEF Sound, Clocked, w

\* The invariant holds initially.
LEMMA InitInv == Init => SchedInv
<1> SUFFICES ASSUME Init
             PROVE  SchedInv
  OBVIOUS
<1>1. now = 0 /\ owed = {} /\ strayed = FALSE
  BY DEF Init
<1>2. calls \in Nat
  BY SchedulerAssumption DEF Init
<1> QED
  BY <1>1, <1>2, InitSound DEF SchedInv, Well

\* One case for each action: it keeps the invariant, and what ended as it ended.
LEMMA NextInv ==
  ASSUME SchedInv, [Next]_vars
  PROVE  SchedInv' /\ Stays
<1>1. CASE UNCHANGED vars
  <2>1. World' = World /\ UNCHANGED <<now, strayed, owed, calls, sched, row>>
    BY <1>1 DEF vars, World
  <2>2. SchedInv'
    BY <2>1 DEF SchedInv
  <2> QED
    BY <2>1, <2>2 DEF Stays
<1>2. CASE Work
  BY <1>2, RunsOutInv, RetryDueInv, AckInv, ResolveInv, CreatedInv, SentInv, WorkflowRecoversInv, WorkEndsInv,
     StartClockInv, ConnectInv, ReconnectInv, ReconcileInv DEF Work
<1>3. CASE Tick
  BY <1>3, TickInv
<1>4. ASSUME NEW e \in Engines, Fire(e) \/ FireFails(e) \/ SocketLost(e) \/ Dispose(e) \/ Crash(e) \/ Trigger(e) \/ Delete(e)
      PROVE  SchedInv' /\ Stays
  BY <1>4, FireInv, FireFailsInv, SocketLostInv, DisposeInv, CrashInv, TriggerInv, DeleteInv
<1>5. ASSUME NEW e \in Engines, NEW made \in BOOLEAN, CrashInLaunch(e, made)
      PROVE  SchedInv' /\ Stays
  BY <1>5, CrashInLaunchInv
<1>6. ASSUME NEW e \in Engines, NEW on \in BOOLEAN, NEW redefine \in BOOLEAN, NEW overlap \in Overlaps,
             Update(e, on, overlap, redefine)
      PROVE  SchedInv' /\ Stays
  BY <1>6, UpdateInv
<1>7. ASSUME NEW r \in Runs, Lapse(r)
      PROVE  SchedInv' /\ Stays
  BY <1>7, LapseInv
<1>8. ASSUME NEW e \in Engines, NEW r \in Runs, Cancel(e, r) \/ TimesOut(e, r)
      PROVE  SchedInv' /\ Stays
  BY <1>8, CancelInv, TimesOutInv
<1>9. ASSUME NEW e \in Engines, NEW r \in Runs, NEW a \in Attempts, CreateFails(e, r, a) \/ SendFails(e, r, a)
      PROVE  SchedInv' /\ Stays
  BY <1>9, CreateFailsInv, SendFailsInv
<1> QED
  BY <1>1, <1>2, <1>3, <1>4, <1>5, <1>6, <1>7, <1>8, <1>9 DEF Next

\* Whatever engines crash, are handed over, lose their leases or are refused: the rows, the
\* objects, the executions, the notices and the clock of a schedule agree.
THEOREM SchedulerInvariant == Spec => []SchedInv
<1>1. SchedInv /\ [Next]_vars => SchedInv'
  BY NextInv
<1> QED
  BY <1>1, InitInv, PTL DEF Spec

\* A run that ended keeps its outcome (finishRun, upsertRun's fence).
THEOREM EndsStay == Spec => SettledStays
<1>1. SchedInv /\ [Next]_vars => [\A r \in Runs : row[r].st \in Terminal => row'[r].st = row[r].st]_vars
  BY NextInv DEF Stays
<1> QED
  BY <1>1, SchedulerInvariant, PTL DEF Spec, SettledStays

\* A run has at most one execution under way, unless a late refusal of its prompt failed
\* the attempt after it (launchAttempt, failAttempt).
THEOREM ExecutesAlone == Spec => []OneExecution
<1>1. SchedInv => OneExecution
  <2> SUFFICES ASSUME SchedInv, NEW r \in Runs \ blamed, NEW a \in DOMAIN work[r], NEW b \in DOMAIN work[r],
                      work[r][a].st \in Doing /\ work[r][b].st \in Doing
               PROVE  a = b
    BY DEF OneExecution
  <2> DEFINE w == World
  <2>1. w.work = work /\ w.blamed = blamed /\ Sound(w, strayed)
    BY Holds, WorldIs
  <2> HIDE DEF w
  <2>2. DOMAIN w.work[r] = Slots(w) /\ Single(w, r)
    BY <2>1, TypedRun DEF Sound, Full, Base, Typed, Worlds, Slots
  <2> QED
    BY <2>1, <2>2 DEF Single, Doings
<1> QED
  BY <1>1, SchedulerInvariant, PTL

\* An occurrence becomes at most one run, unless a timer fired before it was due
\* (acceptCronRun: the receipt and the cursor are one transaction).
THEOREM OccursOnce == Spec => []OccurrenceOnce
<1>1. SchedInv => OccurrenceOnce
  BY Holds, WorldIs DEF OccurrenceOnce, Clocked, Cursored
<1> QED
  BY <1>1, SchedulerInvariant, PTL

\* What a running clock owes of a dispatch is recorded or still ahead of the cursor
\* (onCronFire, restoreCron, handoffDispatchClock).
THEOREM OwesTicks == Spec => []TicksAreOwed
<1>1. SchedInv => TicksAreOwed
  <2> SUFFICES ASSUME SchedInv, NEW x \in owed
               PROVE  sched.next <= x \/ \E r \in Runs : row[r].tick = x
    BY DEF TicksAreOwed
  <2>1. Owes(World, owed, now)
    BY Holds DEF Clocked
  <2>2. sched.on /\ sched.live /\ sched.kind = "dispatch"
    BY DEF SchedInv
  <2> QED
    BY <2>1, <2>2, WorldIs DEF Owes
<1> QED
  BY <1>1, SchedulerInvariant, PTL

\* An engine that serves the enabled schedule wakes in time for the next occurrence, or awaits
\* the launch its firing started (armCron, at the end of every firing and of every launch it
\* awaited), unless the store refused the receipt of its last firing, that firing found the
\* schedule disabled, or another engine served the update since.
THEOREM ClockAlwaysRuns == Spec => []ClockRuns
<1>1. SchedInv => ClockRuns
  <2> SUFFICES ASSUME SchedInv, sched.live /\ sched.on, NEW e \in Serving \ cut
               PROVE  Awaits(e) \/ (timer[e] # 0 /\ timer[e] <= sched.next)
    BY DEF ClockRuns
  <2>1. Wakes(World, e) /\ e \in Engines
    BY Holds DEF Serving
  <2>2. Serves(World, e)
    BY WorldIs DEF Serving, Serves, Alive
  <2>3. AwaitsIn(World, e) => Awaits(e)
    BY WorldIs DEF AwaitsIn, Awaits, Slots, Attempts
  <2> QED
    BY <2>1, <2>2, <2>3, WorldIs DEF Wakes
<1> QED
  BY <1>1, SchedulerInvariant, PTL

\* When nothing is left to happen, the run of an owner has nothing it waits for.
LEMMA NothingAwaited ==
  ASSUME SchedInv, Quiet, ~strayed, NEW f \in Engines, NEW r \in Runs, row[r].own = f
  PROVE  row[r].ph = "queued" /\ queue[f] # <<>> /\ f \in Serving
<1> DEFINE w == World
<1>1. /\ w.row = row /\ w.rt = rt /\ w.queue = queue /\ w.work = work /\ w.sched = sched /\ w.eng = eng
      /\ Sound(w, strayed) /\ Typed(w) /\ Housed(w)
  BY Holds, WorldIs DEF Clocked
<1>2. eng[f] = "up" <=> f \in Serving
  BY DEF Serving, Alive, Quiet
<1> HIDE DEF w
<1>3. Full(w, r, strayed) /\ w.row[r].own = f
  BY <1>1 DEF Sound
<1>4. Here(w, f, r) /\ w.rt[f][r].ph = w.row[r].ph
  BY <1>1, <1>3, OwnerIsHere
<1>5. f \in Serving
  BY <1>1, <1>2, <1>4 DEF Housed, Quiet
<1>6. w.row[r].ph # "retry_wait" /\ sched.kind # "dispatch"
  BY <1>1, <1>4, <1>5, WorldIs DEF Quiet, Here
<1>7. w.row[r].ph \in Phases /\ w.row[r].ph # "none" /\ w.rt[f][r].map \in 0..sched.tries + 1
      /\ sched.kind \in {"session", "workflow", "dispatch"} /\ sched.tries \in Nat
  BY <1>1, <1>4, TypedRun, TypedClock DEF Rows, Objs, Here
<1>8. Heeds(w, f, r, strayed)
  BY <1>3 DEF Full, Goes
<1>9. \A a \in Slots(w) : w.work[r][a].st \notin Doing
  BY <1>1 DEF Quiet, Slots, Attempts
<1>10. w.row[r].ph # "launching"
  BY <1>1, <1>6, <1>7, <1>8, <1>9 DEF Heeds, Doing
<1>11. w.row[r].ph # "running"
  <2> SUFFICES ASSUME w.row[r].ph = "running"
               PROVE  FALSE
    OBVIOUS
  <2> DEFINE a == w.rt[f][r].map
  <2>1. a # 0 /\ w.work[r][a].st \in Doing
    BY <1>1, <1>6, <1>7, <1>8 DEF Heeds
  <2>2. a \in Slots(w)
    BY <1>1, <1>7, <2>1 DEF Slots
  <2> QED
    BY <1>9, <2>1, <2>2
<1>12. w.row[r].ph = "queued"
  BY <1>6, <1>7, <1>10, <1>11 DEF Phases
<1>13. queue[f] # <<>>
  BY <1>1, <1>8, <1>12 DEF Heeds, Range
<1> QED
  BY <1>1, <1>5, <1>12, <1>13

\* Once nothing is left that happens by itself, every run has ended and the server has
\* acknowledged its end (reconcileOrphanedRuns, drainQueue, replayUnacked).
THEOREM NoRunForgotten == Spec => []NoneForgotten
<1>1. SchedInv => NoneForgotten
  <2> SUFFICES ASSUME SchedInv, Quiet, ~strayed, NEW r \in Runs, row[r].st # "none", ~row[r].acked
               PROVE  FALSE
    BY DEF NoneForgotten
  <2> DEFINE w == World
  <2>1. /\ w.row = row /\ w.rt = rt /\ w.told = told /\ w.eng = eng /\ w.sched = sched /\ w.queue = queue
        /\ Sound(w, strayed) /\ Typed(w) /\ Told(w)
    BY Holds, WorldIs
  <2>2. \A f \in Engines : eng[f] \in {"up", "absent"}
    BY DEF Quiet
  <2> HIDE DEF w
  <2>3. Full(w, r, strayed)
    BY <2>1 DEF Sound
  <2>4. PICK f \in Engines : eng[f] = "up"
    BY <2>1, <2>2, <2>3 DEF Full, Base, Informed
  <2>5. ~Settling(f)
    BY <2>4 DEF Quiet, Serving, Alive
  <2>6. row[r].st \notin Terminal
    BY <2>1, <2>2 DEF Told, Known, Quiet
  <2>7. row[r].st \in Active /\ row[r].own \in Engines \cup {None, Gone}
    BY <2>1, <2>6, TypedRun DEF Rows, Statuses
  <2>8. CASE row[r].own \in {None, Gone}
    <3>1. ~Here(w, f, r)
      BY <2>1, <2>3, <2>8, SchedulerAssumption DEF Full, Clean
    <3>2. Claimable(w, f, r)
      BY <2>1, <2>8 DEF Claimable, Quiet
    <3> QED
      BY <2>5, <2>7, <3>1, <3>2 DEF Settling, w
  <2>9. CASE row[r].own \in Engines
    <3> DEFINE g == row[r].own
    <3>1. queue[g] # <<>> /\ g \in Serving
      BY <2>9, NothingAwaited
    <3>2. g \in Engines
      BY <2>9
    <3> HIDE DEF g
    <3>3. ~Settling(g) /\ \A q \in Runs : w.rt[g][q].ph # "retry_wait"
      BY <2>1, <3>1 DEF Quiet
    <3>4. HasActive(w, g)
      BY <3>1, <3>3 DEF Settling, w
    <3>5. PICK q \in Runs : w.rt[g][q].ph \notin {"none", "queued"}
      BY <3>4 DEF HasActive
    <3>6. Full(w, q, strayed) /\ Here(w, g, q)
      BY <2>1, <3>5 DEF Sound, Here
    <3>7. w.row[q].own = g
      BY <3>2, <3>6 DEF Full, Clean
    <3>8. w.row[q].ph = w.rt[g][q].ph
      BY <2>1, <3>2, <3>6, <3>7, OwnerIsHere
    <3>9. row[q].ph = "queued"
      BY <2>1, <3>2, <3>7, NothingAwaited
    <3> QED
      BY <2>1, <3>5, <3>8, <3>9
  <2> QED
    BY <2>7, <2>8, <2>9
<1> QED
  BY <1>1, SchedulerInvariant, PTL
===========================================================================
