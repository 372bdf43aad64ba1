------------------------------- MODULE Skills -------------------------------
(***************************************************************************)
(* One skill of a project (skill-manager.ts, skill-install-operations.ts,  *)
(* immutable-skills.ts, the skill tables of store.ts): installs and        *)
(* publications claimed under a request's identity, plain installs and     *)
(* uninstalls without one, the fence a human sets, and turns that are      *)
(* admitted with a selection and later load it.  A directory is two files, *)
(* written one after the other: SKILL.md (entry) and the others.  A task   *)
(* outlives the disposal of its runtime until its next check.              *)
(***************************************************************************)
EXTENDS Naturals, Sequences, FiniteSets

CONSTANTS
  Installs,     \* request identities of skill.install
  Publishes,    \* request identities of skill.publish
  MaxTasks,     \* bound: calls
  MaxTurns,     \* bound: turns admitted with the skill
  MaxLosses     \* bound: runtimes disposed or dead

VARIABLES
  ops,          \* skill_install_operations: st, owner, fenced
  tasks,        \* the calls: kind, request, gen, at, base (the revision a publication is for)
  files,        \* who wrote the entry and the other file of the directory last
  skill,        \* the skills row: the installation selected, whether it is immutable; 0 for none
  versions,     \* managed_skill_versions: published, revoked
  turns,        \* turns: the binding frozen at admission, at, what was read
  gen,          \* the runtime: one that is disposed has a lower number
  loose         \* history: a task without a claim overlapped another or ended halfway

Requests == Installs \union Publishes
vars == <<ops, tasks, files, skill, versions, turns, gen, loose>>

Going(i, at) == [tasks EXCEPT ![i].at = at, ![i].gen = IF at = "over" THEN 0 ELSE @]
Active(i) == tasks[i].gen = gen
Claimed(i) == tasks[i].request # 0
\* The unique index over dispatched and unknown rows: at most one per target.
Locks == {r \in Requests : ops[r].st \in {"dispatched", "unknown"}}
Writable(i) == \A r \in Locks : i # 0 /\ Claimed(i) /\ ops[r].owner = i /\ ops[r].st = "dispatched"
Writing(i) == tasks[i].at \in {"claimed", "other", "entry", "reading", "committing", "removing", "deleting"}
Loading(t) == turns[t].at \in {"checked", "read", "rooted"}
\* Nothing guards a plain install or an uninstall past its first look at the locks.
Overlapping ==
  \E i \in DOMAIN tasks : Writing(i) /\ ~Claimed(i) /\
    \/ \E j \in DOMAIN tasks \ {i} : Writing(j) \/ \E t \in DOMAIN turns : Loading(t)
Watched == loose' = (loose \/ Overlapping')
------------------------------------------------------------------------------
Init ==
  /\ ops = [r \in Requests |-> [st |-> "none", owner |-> 0, fenced |-> FALSE]]
  /\ tasks = <<>> /\ turns = <<>> /\ gen = 1 /\ loose = FALSE
  /\ files = [entry |-> 0, other |-> 0] /\ skill = [inst |-> 0, managed |-> FALSE]
  /\ versions = [live |-> {}, revoked |-> {}]

\* A call with an identity: the row is begun; only one that was never claimed goes on.
Called(kind, r) ==
  /\ Len(tasks) < MaxTasks
  /\ tasks' = Append(tasks, [kind |-> kind, request |-> r, gen |-> gen,
                             base |-> IF kind = "publish" THEN skill.inst ELSE 0,
                             at |-> IF r = 0 THEN "preparing"
                                    ELSE IF ops[r].st \in {"none", "prepared"} THEN "preparing" ELSE "over"])
  /\ ops' = IF r # 0 /\ ops[r].st = "none" THEN [ops EXCEPT ![r].st = "prepared"] ELSE ops
  /\ kind = "uninstall" => versions.live = {}
  /\ UNCHANGED <<files, skill, versions, turns, gen>> /\ Watched

\* The catch of perform(): a claimed write is unknown for good, one never claimed has failed.
Caught(i) ==
  LET r == tasks[i].request IN
  IF r = 0 THEN ops
  ELSE IF ops[r].st = "dispatched" /\ ops[r].owner = i THEN [ops EXCEPT ![r].st = "unknown"]
  ELSE IF ops[r].st = "prepared" THEN [ops EXCEPT ![r].st = "failed"] ELSE ops
Fails(i) ==
  /\ tasks[i].at # "over"
  /\ tasks' = Going(i, "over") /\ ops' = Caught(i)
  /\ UNCHANGED <<files, skill, versions, turns, gen>>
  /\ loose' = (loose \/ Overlapping' \/ (~Claimed(i) /\ Writing(i)))

\* Mutant of Claim: the claim does not look for other writes of its target.
ClaimBeside(i) ==
  LET r == tasks[i].request IN
  /\ tasks[i].at = "preparing" /\ Active(i) /\ Claimed(i)
  /\ ops[r].st = "prepared" /\ ~ops[r].fenced
  /\ ops' = [ops EXCEPT ![r].st = "dispatched", ![r].owner = i]
  /\ tasks' = Going(i, IF tasks[i].kind = "publish" THEN "committing" ELSE "claimed")
  /\ UNCHANGED <<files, skill, versions, turns, gen>> /\ Watched
\* beforeMutation: after the awaits of the preparation, the claim, or a look at the locks.
Claim(i) ==
  LET t == tasks[i]  r == t.request IN
  /\ t.at = "preparing" /\ Active(i) /\ (t.kind = "publish" => t.base = skill.inst)
  /\ IF Claimed(i)
       THEN /\ ops[r].st = "prepared" /\ ~ops[r].fenced /\ Locks = {}
            /\ ops' = [ops EXCEPT ![r].st = "dispatched", ![r].owner = i]
       ELSE Writable(0) /\ UNCHANGED ops
  /\ tasks' = Going(i, IF t.kind = "publish" THEN "committing"
                       ELSE IF t.kind = "uninstall" THEN "removing" ELSE "claimed")
  /\ UNCHANGED <<files, skill, versions, turns, gen>> /\ Watched

\* writeSkillFile: a write that passed its check is done, whatever is disposed meanwhile; the next
\* one is checked anew.
Writes(i) ==
  LET t == tasks[i] IN
  /\ t.at \in {"claimed", "other", "entry"}
  /\ files' = CASE t.at = "other" -> [files EXCEPT !.other = i]
                [] t.at = "entry" -> [files EXCEPT !.entry = i]
                [] OTHER -> files
  /\ UNCHANGED <<skill, versions, turns, gen>>
  /\ IF Active(i)
       THEN /\ tasks' = Going(i, CASE t.at = "claimed" -> "other" [] t.at = "other" -> "entry"
                                   [] OTHER -> "reading")
            /\ UNCHANGED ops /\ Watched
       ELSE /\ tasks' = Going(i, "over") /\ ops' = Caught(i)
            /\ loose' = (loose \/ Overlapping' \/ ~Claimed(i))
\* The entry is read back and has to be what was written.
ReadsBack(i) ==
  /\ tasks[i].at = "reading" /\ files.entry = i
  /\ tasks' = Going(i, "committing")
  /\ UNCHANGED <<ops, files, skill, versions, turns, gen>> /\ Watched

\* confirmSkillInstall, one transaction: the claim still stands, the revision is the expected one,
\* the selection is replaced.  A plain install just writes its row.
Commit(i) ==
  LET t == tasks[i]  r == t.request IN
  /\ t.at = "committing" /\ Active(i)
  /\ IF Claimed(i)
       THEN /\ ops[r].st = "dispatched" /\ ~ops[r].fenced /\ ops[r].owner = i
            /\ t.kind = "publish" => t.base = skill.inst
            /\ ops' = [ops EXCEPT ![r].st = "confirmed"]
       ELSE UNCHANGED ops
  /\ skill' = [inst |-> i, managed |-> t.kind = "publish"]
  /\ versions' = IF t.kind = "publish" THEN [versions EXCEPT !.live = @ \union {i}] ELSE versions
  /\ tasks' = Going(i, "over")
  /\ UNCHANGED <<files, turns, gen>> /\ Watched

\* uninstall: rm, then the row and the versions, without another look.
Removes(i) ==
  /\ tasks[i].at = "removing" /\ tasks' = Going(i, "deleting")
  /\ files' = [entry |-> 0, other |-> 0]
  /\ UNCHANGED <<ops, skill, versions, turns, gen>> /\ Watched
Revoked == [live |-> {}, revoked |-> versions.revoked \union versions.live]
Deletes(i) ==
  /\ tasks[i].at = "deleting" /\ tasks' = Going(i, "over")
  /\ skill' = [inst |-> 0, managed |-> FALSE] /\ versions' = Revoked
  /\ UNCHANGED <<ops, files, turns, gen>> /\ Watched
\* unpublish, one transaction on the revision the caller saw; the files stay.
Unpublish ==
  /\ versions.live # {} /\ Writable(0)
  /\ skill' = [inst |-> 0, managed |-> FALSE] /\ versions' = Revoked
  /\ UNCHANGED <<ops, tasks, files, turns, gen>> /\ Watched
\* fenceSkillInstall: a human declares a claimed, uncertain write lost; its target stays locked.
Fence(r) ==
  /\ ops[r].st \in {"dispatched", "unknown"} /\ ~ops[r].fenced
  /\ ops' = [ops EXCEPT ![r].st = "unknown", ![r].fenced = TRUE]
  /\ UNCHANGED <<tasks, files, skill, versions, turns, gen>> /\ Watched

\* Does a binding still select the installation it was frozen with?
Current(b) ==
  IF b.managed THEN b.inst \in versions.live
  ELSE skill = [inst |-> b.inst, managed |-> FALSE] /\ Locks = {}
Binding(t) == [inst |-> turns[t].inst, managed |-> turns[t].managed]
Admit ==
  /\ Len(turns) < MaxTurns /\ skill.inst # 0 /\ Current(skill)
  /\ turns' = Append(turns, [inst |-> skill.inst, managed |-> skill.managed, at |-> "admitted",
                             entry |-> 0, other |-> 0])
  /\ UNCHANGED <<ops, tasks, files, skill, versions, gen>> /\ Watched
\* loadExecution: looks at the binding before, between and after its reads.
Loads(t) ==
  LET e == turns[t]
      read == [e EXCEPT !.at = "read", !.entry = IF e.managed THEN e.inst ELSE files.entry]
  IN /\ e.at \in {"admitted", "checked", "read", "rooted"}
     /\ turns' = [turns EXCEPT ![t] =
          IF e.at = "checked" THEN read
          ELSE IF ~Current(Binding(t)) \/ (e.at = "read" /\ e.entry # e.inst)
            THEN [e EXCEPT !.at = "refused"]
          ELSE CASE e.at = "admitted" -> [e EXCEPT !.at = "checked"]
                 [] e.at = "read" -> [e EXCEPT !.at = "rooted"]
                 [] e.at = "rooted" -> [e EXCEPT !.at = "loaded",
                                          !.other = IF e.managed THEN e.inst ELSE files.other]]
     /\ UNCHANGED <<ops, tasks, files, skill, versions, gen>> /\ Watched

\* The runtime is disposed: its claims become unknown, its tasks run on to their next check.
Dispose ==
  /\ gen <= MaxLosses /\ gen' = gen + 1
  /\ ops' = [r \in Requests |-> IF ops[r].st = "dispatched" /\ tasks[ops[r].owner].at # "over"
                                  THEN [ops[r] EXCEPT !.st = "unknown"] ELSE ops[r]]
  /\ UNCHANGED <<tasks, files, skill, versions, turns>> /\ Watched
Crash ==
  /\ gen <= MaxLosses /\ gen' = gen + 1
  /\ tasks' = [i \in DOMAIN tasks |-> [tasks[i] EXCEPT !.at = "over", !.gen = 0]]
  /\ turns' = [t \in DOMAIN turns |-> IF turns[t].at = "loaded" THEN turns[t]
                                      ELSE [turns[t] EXCEPT !.at = "refused"]]
  /\ loose' = (loose \/ \E i \in DOMAIN tasks : Writing(i) /\ ~Claimed(i))
  /\ UNCHANGED <<ops, files, skill, versions>>

Next ==
  \/ \E r \in Installs : Called("install", r)
  \/ \E r \in Publishes : Called("publish", r)
  \/ \E kind \in {"plain", "uninstall"} : Called(kind, 0)
  \/ \E i \in DOMAIN tasks :
       Claim(i) \/ Writes(i) \/ ReadsBack(i) \/ Commit(i) \/ Removes(i) \/ Deletes(i) \/ Fails(i)
  \/ \E r \in Requests : Fence(r)
  \/ \E t \in DOMAIN turns : Loads(t)
  \/ Unpublish \/ Admit \/ Dispose \/ Crash

Spec == Init /\ [][Next]_vars
------------------------------------------------------------------------------
(* Of the claimed writes of one target at most one is at work, a disposed runtime's last write
   included: no request, retried, fenced or outlived, lets a second one in beside it. *)
OneWriter ==
  Cardinality({i \in DOMAIN tasks : Claimed(i) /\ Writing(i)} \union
              {ops[r].owner : r \in Locks}) <= 1

(* "failed" means that nothing was written under the request, and "unknown" is final: a fenced or
   unconfirmed write never becomes the selected installation. *)
FailedWroteNothing ==
  \A i \in DOMAIN tasks : Claimed(i) =>
    LET op == ops[tasks[i].request] IN
    /\ op.st = "failed" => op.owner = 0 /\ i \notin {files.entry, files.other}
    /\ skill.inst = i => op.st = "confirmed" /\ op.owner = i /\ ~op.fenced

(* A turn that loads the skill gets all its files from the one installation it was admitted with,
   whatever is installed, published, revoked or abandoned between admission and loading.  Excepted
   are plain installs and uninstalls that overlap another write or a load, or end halfway. *)
LoadedWhole ==
  \A t \in DOMAIN turns : turns[t].at = "loaded" /\ ~loose =>
    turns[t].entry = turns[t].inst /\ turns[t].other = turns[t].inst
=============================================================================
