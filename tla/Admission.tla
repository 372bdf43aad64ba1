------------------------------ MODULE Admission ------------------------------
(***************************************************************************)
(* Who may work in a directory (local-directory-admission.ts, policy.ts).  *)
(* The owner admits a server to a directory, or takes the admission back,  *)
(* from a process of its own; the device's operations hold no lock on it.  *)
(* Each takes the admission's generation when it is asked for, and looks   *)
(* again before everything it does (session-engine.ts): an operation that  *)
(* waited, queued or was restarted does not outlive the admission it had.  *)
(***************************************************************************)
EXTENDS Naturals, Sequences

CONSTANTS Sources, Paths, MaxOps, MaxAdmits, MaxReplaced

VARIABLES rooted, dirs, rows, admits, claims, projects, cli, ops, sess, natives

vars == <<rooted, dirs, rows, admits, claims, projects, cli, ops, sess, natives>>

(* Path 1 holds the others. *)
Within(p, q) == p = q \/ q = 1
Overlap(p, q) == Within(p, q) \/ Within(q, p)

NoRow == [gen |-> 0, revoked |-> FALSE, dir |-> 0]
NoSession == [made |-> FALSE, live |-> 0, turn |-> 0, stopped |-> FALSE, held |-> 0, queue |-> <<>>]

(* rooted: the configured roots of the workspaces hold these paths.  A directory's identity is even     *)
(* while it is the first one.                                                                              *)
Init ==
  /\ rooted \in BOOLEAN
  /\ dirs = [p \in Paths |-> 0] /\ admits = 0 /\ cli = <<>>
  /\ rows = [s \in Sources |-> [p \in Paths |-> NoRow]]
  /\ claims = [s \in Sources |-> 0] /\ projects = [s \in Sources |-> 0]
  /\ ops = <<>> /\ sess = [s \in Sources |-> NoSession] /\ natives = {}

(* generation: without any row that overlaps, the configured roots decide; with one, only a current one  *)
(* of this source that covers the path, on the very directory that was admitted.                          *)
Rows(p) == {<<s, q>> \in Sources \X Paths : rows[s][q].gen # 0 /\ Overlap(p, q)}
Root(s, p) == CHOOSE q \in Paths : rows[s][q].gen # 0 /\ Within(p, q)
Claimed(s, p) == \E t \in Sources \ {s} : claims[t] # 0 /\ Overlap(claims[t], p)
Allowed(s, p) ==
  IF Rows(p) = {} THEN rooted
  ELSE /\ \E q \in Paths : rows[s][q].gen # 0 /\ Within(p, q)
       /\ LET row == rows[s][Root(s, p)] IN ~ row.revoked /\ dirs[Root(s, p)] = row.dir
       /\ ~ Claimed(s, p)
Generation(s, p) == IF Rows(p) = {} THEN 0 ELSE rows[s][Root(s, p)].gen
Pinned(s, p) == IF Rows(p) = {} THEN 0 ELSE dirs[Root(s, p)]

(* An operation asked for before is cut off by this, or merely touched. *)
Touch(o, cut) == [ops[o] EXCEPT !.touched = TRUE, !.cut = @ \/ cut]

(* The owner's command: the device's projects are looked at first, in another database than the one the *)
(* admission is written to.                                                                               *)
Checked(s, p) ==
  /\ cli = <<>> /\ admits < MaxAdmits /\ ~ Claimed(s, p) /\ cli' = <<s, p>>
  /\ UNCHANGED <<rooted, dirs, rows, admits, claims, projects, ops, sess, natives>>
Refuses(s, p) ==
  \/ \E r \in Rows(p) : r # <<s, p>>
  \/ rows[s][p].gen # 0 /\ rows[s][p].dir # dirs[p]
Admit ==
  /\ cli # <<>> /\ cli' = <<>> /\ admits' = admits + 1
  /\ LET s == cli[1]
         p == cli[2]
         keeps == rows[s][p].gen # 0 /\ ~ rows[s][p].revoked
     IN IF Refuses(s, p) THEN UNCHANGED <<rows, ops>>
        ELSE /\ rows' = [rows EXCEPT ![s][p] = [gen |-> IF keeps THEN @.gen ELSE admits + 1, revoked |-> FALSE,
                                                dir |-> dirs[p]]]
             /\ ops' = [o \in DOMAIN ops |-> Touch(o, ops[o].s # s /\ Overlap(projects[ops[o].s], p))]
  /\ UNCHANGED <<rooted, dirs, claims, projects, sess, natives>>
Revoke(s, p) ==
  /\ rows[s][p].gen # 0 /\ ~ rows[s][p].revoked
  /\ rows' = [rows EXCEPT ![s][p].revoked = TRUE]
  /\ ops' = [o \in DOMAIN ops |-> Touch(o, ops[o].s = s /\ Within(projects[s], p))]
  /\ UNCHANGED <<rooted, dirs, admits, claims, projects, cli, sess, natives>>

(* A directory, with all it holds, is replaced by another, or put back. *)
Replaced(p) ==
  /\ dirs[p] < MaxReplaced
  /\ dirs' = [q \in Paths |-> IF Within(q, p) THEN dirs[p] + 1 ELSE dirs[q]]
  /\ ops' = [o \in DOMAIN ops |-> Touch(o, FALSE)]
  /\ UNCHANGED <<rooted, rows, admits, claims, projects, cli, sess, natives>>

(* project.create: the path is claimed before the first await, and looked at again after the last. *)
Claim(s, p) ==
  /\ claims[s] = 0 /\ Allowed(s, p) /\ ~ Claimed(s, p) /\ claims' = [claims EXCEPT ![s] = p]
  /\ UNCHANGED <<rooted, dirs, rows, admits, projects, cli, ops, sess, natives>>
Register(s) ==
  /\ claims[s] # 0 /\ projects[s] = 0 /\ Allowed(s, claims[s])
  /\ projects' = [projects EXCEPT ![s] = claims[s]]
  /\ UNCHANGED <<rooted, dirs, rows, admits, claims, cli, ops, sess, natives>>

(* captureProjectAuthority, and assertProjectAuthority later on; gone: the engine was disposed. *)
At(o) == projects[ops[o].s]
Current(o) == /\ ~ ops[o].gone /\ Allowed(ops[o].s, At(o)) /\ Generation(ops[o].s, At(o)) = ops[o].gen
Lapses(o) ==
  \/ ops[o].cut
  \/ ops[o].gen # 0 /\ Pinned(ops[o].s, At(o)) # ops[o].dir
  \/ \E r \in Rows(At(o)) : r[1] # ops[o].s
Does(o, step) == [ops EXCEPT ![o].step = step, ![o].lapsed = @ \/ Lapses(o)]
Steps(o, step) == [ops EXCEPT ![o].step = step]
Ask(s, step) ==
  /\ Len(ops) < MaxOps /\ projects[s] # 0 /\ Allowed(s, projects[s])
  /\ ops' = Append(ops, [s |-> s, gen |-> Generation(s, projects[s]), dir |-> Pinned(s, projects[s]), step |-> step,
                         into |-> sess[s].turn, cut |-> FALSE, touched |-> FALSE, gone |-> FALSE, lapsed |-> FALSE])

(* create; send on a session that is detached holds it and attaches it first. *)
Create(s) ==
  /\ ~ sess[s].made /\ sess[s].held = 0 /\ Ask(s, "preparing")
  /\ sess' = [sess EXCEPT ![s].held = Len(ops) + 1]
  /\ UNCHANGED <<rooted, dirs, rows, admits, claims, projects, cli, natives>>
Send(s) ==
  LET new == Len(ops) + 1
  IN /\ sess[s].made /\ sess[s].held = 0
     /\ CASE sess[s].live = 0 -> Ask(s, "preparing") /\ sess' = [sess EXCEPT ![s].held = new]
          [] sess[s].live # 0 /\ sess[s].turn = 0 -> Ask(s, "starting") /\ sess' = [sess EXCEPT ![s].turn = new]
          [] OTHER -> Ask(s, "queued") /\ sess' = [sess EXCEPT ![s].queue = Append(@, new)]
     /\ UNCHANGED <<rooted, dirs, rows, admits, claims, projects, cli, natives>>
Insert(s) ==
  /\ sess[s].live # 0 /\ sess[s].turn # 0 /\ ops[sess[s].turn].step = "given" /\ ~ sess[s].stopped
  /\ Ask(s, "inserting")
  /\ UNCHANGED <<rooted, dirs, rows, admits, claims, projects, cli, sess, natives>>

(* The adapter is called, and its session used, only under the same generation; else it is ended. *)
Freed(o) == [sess EXCEPT ![ops[o].s].held = IF @ = o THEN 0 ELSE @]
Prepared(o) ==
  /\ ops[o].step = "preparing"
  /\ IF Current(o) THEN ops' = Does(o, "creating") /\ natives' = natives \cup {o} /\ UNCHANGED sess
     ELSE ops' = Steps(o, "refused") /\ sess' = Freed(o) /\ UNCHANGED natives
  /\ UNCHANGED <<rooted, dirs, rows, admits, claims, projects, cli>>
Created(o) ==
  LET s == ops[o].s
  IN /\ ops[o].step = "creating"
     /\ IF Current(o)
        THEN /\ ops' = Does(o, IF sess[s].made THEN "starting" ELSE "done") /\ UNCHANGED natives
             /\ sess' = [Freed(o) EXCEPT ![s].made = TRUE, ![s].live = o, ![s].turn = IF sess[s].made THEN o ELSE 0]
        ELSE ops' = Steps(o, "refused") /\ sess' = Freed(o) /\ natives' = natives \ {o}
     /\ UNCHANGED <<rooted, dirs, rows, admits, claims, projects, cli>>

(* allowQueueDrain: what was queued under another generation goes; without one, all of it. *)
Kept(s) ==
  SelectSeq(sess[s].queue, LAMBDA o : Allowed(s, projects[s]) /\ Generation(s, projects[s]) = ops[o].gen)
InQueue(q, o) == \E i \in DOMAIN q : q[i] = o
Over(s, step) ==
  LET kept == Kept(s)
      next == IF kept = <<>> \/ sess[s].stopped THEN 0 ELSE Head(kept)
  IN /\ sess' = [sess EXCEPT ![s].turn = next, ![s].stopped = FALSE, ![s].queue = IF next = 0 THEN kept ELSE Tail(kept)]
     /\ ops' = [o \in DOMAIN ops |->
          IF o = sess[s].turn THEN [ops[o] EXCEPT !.step = step]
          ELSE IF o = next THEN [ops[o] EXCEPT !.step = "starting"]
          ELSE IF InQueue(sess[s].queue, o) /\ ~ InQueue(kept, o) THEN [ops[o] EXCEPT !.step = "refused"]
          ELSE ops[o]]

(* runTurn: a last look before the prompt is given to the adapter. *)
Give(s) ==
  LET o == sess[s].turn
  IN /\ o # 0 /\ ops[o].step = "starting"
     /\ IF sess[s].stopped THEN Over(s, "over")
        ELSE IF Current(o) THEN ops' = Does(o, "given") /\ UNCHANGED sess ELSE Over(s, "refused")
     /\ UNCHANGED <<rooted, dirs, rows, admits, claims, projects, cli, natives>>
Apply(o) ==
  /\ ops[o].step = "inserting"
  /\ ops' = IF sess[ops[o].s].turn # ops[o].into \/ sess[ops[o].s].stopped THEN Steps(o, "over")
            ELSE IF Current(o) THEN Does(o, "applied") ELSE Steps(o, "refused")
  /\ UNCHANGED <<rooted, dirs, rows, admits, claims, projects, cli, sess, natives>>
TurnEnds(s) ==
  /\ sess[s].turn # 0 /\ ops[sess[s].turn].step = "given" /\ Over(s, "over")
  /\ UNCHANGED <<rooted, dirs, rows, admits, claims, projects, cli, natives>>

(* stopNative is allowed without an admission; what waits behind the turn is looked at now. *)
Stop(s) ==
  /\ sess[s].turn # 0 /\ ~ sess[s].stopped
  /\ sess' = [sess EXCEPT ![s].stopped = TRUE, ![s].queue = Kept(s)]
  /\ ops' = [o \in DOMAIN ops |-> IF InQueue(sess[s].queue, o) /\ ~ InQueue(Kept(s), o)
                                  THEN [ops[o] EXCEPT !.step = "refused"] ELSE ops[o]]
  /\ UNCHANGED <<rooted, dirs, rows, admits, claims, projects, cli, natives>>

(* dispose, and the next engine, for which the session is detached. *)
Dies == {"starting", "given", "queued", "inserting"}
Dispose(s) ==
  /\ sess[s] # NoSession /\ ~ \E o \in DOMAIN ops : ops[o].gone
  /\ ops' = [o \in DOMAIN ops |-> IF ops[o].s # s THEN ops[o]
                                  ELSE [ops[o] EXCEPT !.gone = TRUE, !.step = IF @ \in Dies THEN "over" ELSE @]]
  /\ natives' = natives \ {sess[s].live}
  /\ sess' = [sess EXCEPT ![s] = [NoSession EXCEPT !.made = sess[s].made]]
  /\ UNCHANGED <<rooted, dirs, rows, admits, claims, projects, cli>>

Next ==
  \/ \E s \in Sources, p \in Paths : Checked(s, p) \/ Revoke(s, p) \/ Claim(s, p)
  \/ Admit \/ \E p \in Paths : Replaced(p)
  \/ \E s \in Sources : Register(s) \/ Create(s) \/ Send(s) \/ Insert(s) \/ Give(s) \/ TurnEnds(s) \/ Stop(s) \/ Dispose(s)
  \/ \E o \in DOMAIN ops : Prepared(o) \/ Created(o) \/ Apply(o)
Spec == Init /\ [][Next]_vars

(* Nothing is done for an operation whose admission was taken back since it was asked for, not even      *)
(* after the directory is admitted again, nor in another directory put in its place, nor where another    *)
(* source is admitted.                                                                                     *)
NothingAfterRevocation == \A o \in DOMAIN ops : ~ ops[o].lapsed

(* One owner's consent per directory: no two rows overlap. *)
OneConsent == \A s \in Sources, p \in Paths : rows[s][p].gen # 0 => Rows(p) = {<<s, p>>}

(* A native session that was begun for a refused operation is ended. *)
NoOrphan == \A o \in natives : sess[ops[o].s].live = o \/ ops[o].step = "creating"

(* What is refused was touched: by the owner, by a change of the directory, or by the engine's end. *)
RefusedForCause == \A o \in DOMAIN ops : ops[o].step = "refused" => ops[o].touched \/ ops[o].gone
=============================================================================
