----------------------------- MODULE Connection -----------------------------
(***************************************************************************)
(* The device's client of one server (packages/core/src/client.ts): dials, *)
(* handshakes, replaces a socket, keeps the tenant's runtime across        *)
(* sockets, reconnects, changes tenant, closes.  An attempt is a call of   *)
(* connect(), named by its generation; a runtime is a PhononConnection.    *)
(* JavaScript runs one callback at a time: an action is the code between   *)
(* two awaits.  A stopped attempt leaves continuations behind (connect()'s *)
(* rejection, what waits for the teardown, an await it was in), which run  *)
(* later, whatever has happened meanwhile.                                 *)
(***************************************************************************)
EXTENDS Naturals, Sequences, FiniteSets

CONSTANTS
  Tenants,      \* tenants the server may authenticate the device as
  MaxAttempts,  \* bound: calls of connect()
  None          \* no tenant

VARIABLES
  client,       \* started, closed, timer, ws, run, clock, last: the fields of PhononClient
  attempts,     \* the calls of connect(); the last is the current generation
  runtimes,     \* the PhononConnections ever constructed
  teardown,     \* the runtimes the promise this.teardown waits for
  orphans       \* history: runtimes constructed by an attempt that had been stopped

vars == <<client, attempts, runtimes, teardown, orphans>>
Sys == [client |-> client, attempts |-> attempts, runtimes |-> runtimes,
        teardown |-> teardown, orphans |-> orphans]
Becomes(s) == /\ client' = s.client /\ attempts' = s.attempts /\ runtimes' = s.runtimes
              /\ teardown' = s.teardown /\ orphans' = s.orphans

\* own: ownedConn.  waits: the runtimes its teardown await or continuation waits for.  owes: the
\* runtime of another tenant whose disposal it awaits.  rejected, returns: continuations to run.
Attempt(auto) == [at |-> "dialing", tenant |-> None, own |-> 0, waits |-> {}, owes |-> 0,
                  auto |-> auto, rejected |-> FALSE, returns |-> FALSE]
Dialing == {"dialing", "settling", "changing", "attaching", "draining"}
\* this.dialing: connect() cancels every earlier attempt, so only the last can be in it
IsDialing(s) == s.attempts # <<>> /\ s.attempts[Len(s.attempts)].at \in Dialing

Disposing(s, r) == [s EXCEPT !.runtimes[r].st = IF @ = "live" THEN "disposing" ELSE @]

RetireKeeps(s, r) ==
  IF ~s.client.closed /\ s.runtimes[r].st = "live"
    THEN [s EXCEPT !.runtimes[r].on = 0]
    ELSE [Disposing(s, r) EXCEPT !.teardown = @ \union {r}]
\* A lost socket detaches the tenant's runtime; an unpublished candidate is disposed.
Retire(s, r) ==
  IF ~s.client.closed /\ s.runtimes[r].st = "live" /\ r = s.client.run
    THEN [s EXCEPT !.runtimes[r].on = 0]
    ELSE [Disposing(s, r) EXCEPT !.teardown = @ \union {r}]

Stop(s, a) ==
  LET t == s.attempts[a]
      unset == [s EXCEPT !.client.ws = IF @ = a THEN 0 ELSE @]
      retired == IF t.own # 0 THEN Retire(unset, t.own) ELSE unset
  IN IF t.at = "stopped" THEN s
     ELSE [retired EXCEPT !.attempts[a] =
             [t EXCEPT !.at = "stopped", !.waits = retired.teardown,
                       !.rejected = t.auto /\ t.at # "live", !.returns = TRUE]]

Cancel(s) == IF IsDialing(s) THEN Stop(s, Len(s.attempts)) ELSE s
StopActive(s) == IF s.client.ws # 0 THEN Stop(s, s.client.ws) ELSE s

\* While no runtime exists, a clock of the last known tenant records what falls due.
StartDispatchClock(s) ==
  IF s.client.run = 0 /\ s.client.ws = 0 /\ s.client.clock = None
    THEN [s EXCEPT !.client.clock = s.client.last] ELSE s

Dial(s, auto) ==
  /\ ~s.client.closed /\ Len(s.attempts) < MaxAttempts
  /\ LET begun == StartDispatchClock(Cancel([s EXCEPT !.client.timer = FALSE]))
     IN Becomes([begun EXCEPT !.attempts = Append(@, Attempt(auto))])

Schedule(s) ==
  IF s.client.started /\ ~s.client.closed /\ s.client.ws = 0 /\ ~IsDialing(s)
    THEN [s EXCEPT !.client.timer = TRUE] ELSE s

\* The connection takes the client's runtime over, or constructs one.  The code after a
\* construction checks that the attempt is current, and leaves the runtime behind if it is not.
Build(s, a) ==
  LET t == s.attempts[a]  r == s.client.run  n == Len(s.runtimes) + 1
      owned == [s EXCEPT !.attempts[a].own = r]
      built == [s EXCEPT !.runtimes = Append(@, [tenant |-> t.tenant, st |-> "live", on |-> a]),
                         !.attempts[a].own = n]
  IN IF r = 0 THEN IF t.at = "stopped" THEN [built EXCEPT !.orphans = @ \union {n}]
                   ELSE [built EXCEPT !.attempts[a].at = "draining"]
     ELSE IF s.runtimes[r].st = "live" /\ s.runtimes[r].tenant = t.tenant
       THEN [owned EXCEPT !.runtimes[r].on = a, !.attempts[a].at = "attaching"]
     ELSE Stop(owned, a)
------------------------------------------------------------------------------
Init ==
  /\ client \in [started: {FALSE}, closed: {FALSE}, timer: {FALSE}, ws: {0}, run: {0},
                 clock: {None}, last: Tenants \union {None}]
  /\ attempts = <<>> /\ runtimes = <<>> /\ teardown = {} /\ orphans = {}

Start == ~client.started /\ Dial([Sys EXCEPT !.client.started = TRUE], TRUE)
ConnectAgain == Dial(Sys, FALSE)
TimerFires == client.timer /\ Dial(Sys, TRUE)

\* connect.hello answered: the socket in use is torn down before its replacement is published.
Welcomed(a, tenant) ==
  /\ attempts[a].at = "dialing"
  /\ LET s == StopActive(Sys)
     IN Becomes([s EXCEPT !.attempts[a] = [@ EXCEPT !.at = "settling", !.tenant = tenant,
                                                    !.waits = s.teardown]])
Settled(a) ==
  LET t == attempts[a]  r == client.run
      s == [Sys EXCEPT !.client.clock = None, !.client.last = t.tenant]
  IN /\ t.at = "settling" /\ \A x \in t.waits : runtimes[x].st = "disposed"
     /\ Becomes(IF r # 0 /\ runtimes[r].tenant # t.tenant
                  THEN [Disposing(s, r) EXCEPT !.attempts[a].at = "changing", !.attempts[a].owes = r]
                  ELSE Build(s, a))
\* The await of the old tenant's runtime returns, also to an attempt that was stopped meanwhile.
Resumed(s, a) == Build([s EXCEPT !.client.run = 0, !.attempts[a].owes = 0], a)
\* Those that awaited one disposal resume one after the other, before anything else happens.
Resuming == \E a \in 1..Len(attempts) :
  attempts[a].owes # 0 /\ runtimes[attempts[a].owes].st \in {"disposed", "failed"}
Changed(a) ==
  LET r == attempts[a].owes
  IN /\ r # 0 /\ \A b \in 1..(a - 1) : attempts[b].owes = 0
     /\ runtimes[r].st \in {"disposed", "failed"}
     /\ Becomes(IF runtimes[r].st = "disposed" THEN Resumed(Sys, a)
                ELSE Stop([Sys EXCEPT !.attempts[a].owes = 0], a))
Attached(a) ==
  /\ attempts[a].at = "attaching"
  /\ Becomes([Sys EXCEPT !.attempts[a].at = "draining"])
Publish(a) ==
  /\ attempts[a].at = "draining"
  /\ Becomes([Sys EXCEPT !.attempts[a].at = "live", !.client.ws = a, !.client.run = attempts[a].own])

\* An error, a close, a deadline, a refusal, an exception: everything that calls stop.
Fails(a) ==
  /\ attempts[a].at \in Dialing \union {"live"}
  /\ Becomes(Stop(Sys, a))
\* connect() was rejected: start() and the timer schedule another attempt.
Rejected(a) ==
  attempts[a].rejected /\ Becomes(Schedule([Sys EXCEPT !.attempts[a].rejected = FALSE]))
\* The teardown a stop waited for settled; one that failed schedules nothing.
Returned(a) ==
  LET over == [Sys EXCEPT !.attempts[a].returns = FALSE, !.attempts[a].waits = {}]
      sts == {runtimes[x].st : x \in attempts[a].waits}
  IN /\ attempts[a].returns
     /\ sts \subseteq {"disposed"} \/ "failed" \in sts
     /\ Becomes(IF "failed" \in sts THEN over ELSE Schedule(over))

Close ==
  LET s == StopActive(Cancel([Sys EXCEPT !.client.started = FALSE, !.client.closed = TRUE,
                                         !.client.timer = FALSE]))
      r == s.client.run
      d == IF r = 0 THEN s ELSE [Disposing(s, r) EXCEPT !.teardown = @ \union {r}]
  IN /\ ~client.closed
     /\ Becomes([d EXCEPT !.client.clock = None, !.client.run = 0])

\* PhononConnection.dispose settles: the engines are stopped, or a write of one of them threw.
Disposed(r) ==
  /\ runtimes[r].st = "disposing"
  /\ \E st \in {"disposed", "failed"} : runtimes' = [runtimes EXCEPT ![r].st = st, ![r].on = 0]
  /\ UNCHANGED <<client, attempts, teardown, orphans>>

Next ==
  \/ \E a \in 1..Len(attempts) : Changed(a)
  \/ /\ ~Resuming
     /\ \/ Start \/ ConnectAgain \/ TimerFires \/ Close
        \/ \E a \in 1..Len(attempts) :
             \/ \E tenant \in Tenants : Welcomed(a, tenant)
             \/ Settled(a) \/ Attached(a) \/ Publish(a)
             \/ Fails(a) \/ Rejected(a) \/ Returned(a)
        \/ \E r \in 1..Len(runtimes) : Disposed(r)

Spec == Init /\ [][Next]_vars
------------------------------------------------------------------------------
Live == {r \in 1..Len(runtimes) : runtimes[r].st = "live"}
Broken == \E r \in 1..Len(runtimes) : runtimes[r].st = "failed"

(* The socket in use belongs to the newest attempt that got as far, and the client's runtime is
   live, of that socket's tenant and attached to it: whatever attempt was superseded, stopped or
   resumed late, no event goes to a dead socket and no tenant adopts another's work. *)
SocketServesRuntime ==
  client.ws # 0 =>
    LET t == attempts[client.ws] IN
    /\ t.at = "live" /\ t.own = client.run
    /\ runtimes[client.run] = [tenant |-> t.tenant, st |-> "live", on |-> client.ws]

(* No two runtimes, with their schedulers and workflows, work in parallel, over replacements,
   tenant changes and abandoned candidates, and none works on after close().  Excepted is the
   runtime an attempt constructs although it was stopped during a tenant change. *)
OneRuntime ==
  /\ Cardinality(Live \ orphans) <= 1
  /\ client.closed => Live \subseteq orphans
  /\ \A r \in Live \ orphans : r = client.run \/ \E a \in 1..Len(attempts) :
                                  attempts[a].own = r /\ attempts[a].at \in Dialing

(* A started client that is not connected is always on its way: it dials, a timer is armed, or a
   continuation that will arm one is still to run.  Excepted are clients with a failed disposal. *)
NeverGivesUp ==
  client.started /\ ~client.closed /\ ~Broken =>
    \/ client.ws # 0 \/ IsDialing(Sys) \/ client.timer
    \/ \E a \in 1..Len(attempts) : attempts[a].rejected \/ attempts[a].returns

(* What client.ts says of a replacement: no runtime survives in parallel. *)
NoParallelRuntime == Cardinality(Live) <= 1
=============================================================================
