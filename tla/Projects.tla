------------------------------ MODULE Projects ------------------------------
(***************************************************************************)
(* The directories of a device, shared by the servers it serves: each has  *)
(* its own project manager over one store.  Creating, removing and adding  *)
(* worktrees wait for the file system and git with the checks behind them; *)
(* workflows add worktrees by themselves and clean them up at their end.   *)
(***************************************************************************)
EXTENDS Naturals, FiniteSets

CONSTANTS Namespaces,  (* the servers *)
          Paths,       (* directories: 1 is a project's, 2 lies in it, 3 lies beside it *)
          MaxOps,      (* operations begun *)
          None

VARIABLES owners,    (* path -> the namespace it is reserved for *)
          projects,  (* the rows: number, namespace, path, whether it registers an existing directory *)
          worktrees, (* the rows: number, project, path *)
          ops,       (* the operations begun, by number *)
          dirty,     (* worktree paths with work that is not committed *)
          working,   (* worktree numbers in which a session of the device is active *)
          lost       (* the operations that removed work nobody said could go *)

vars == <<owners, projects, worktrees, ops, dirty, working, lost>>

Init ==
  /\ owners = [p \in Paths |-> None] /\ projects = {} /\ worktrees = {} /\ ops = <<>>
  /\ dirty = {} /\ working = {} /\ lost = {}

(* workspacePathsOverlap *)
Overlap(p, q) == p = q \/ {p, q} = {1, 2}

ProjectOf(id) == {r \in projects : r.id = id}
(* namespacePaths: projects, worktrees through their project, and the reservations. *)
Claims == {[path |-> r.path, by |-> r.by] : r \in projects}
          \union {[path |-> w.path, by |-> IF ProjectOf(w.project) = {} THEN None
                   ELSE (CHOOSE r \in ProjectOf(w.project) : TRUE).by] : w \in worktrees}
          \union {[path |-> p, by |-> owners[p]] : p \in {q \in Paths : owners[q] # None}}
(* assertNamespacePathAvailable *)
Available(p, ns) == \A c \in Claims : Overlap(p, c.path) => c.by = ns
Reserved(p, ns) == [owners EXCEPT ![p] = IF @ = None THEN ns ELSE @]

Begun == DOMAIN ops
Begin(op) ==
  /\ Cardinality(Begun) < MaxOps
  /\ ops' = [n \in Begun \union {Cardinality(Begun) + 1} |-> IF n \in Begun THEN ops[n] ELSE op]
Ends(n, step) == ops' = [ops EXCEPT ![n].step = step]
(* get: a project of this namespace whose directory is still its own. *)
Gettable(ns) == {r \in projects : r.by = ns /\ Available(r.path, ns)}
Registered(p, ns) == {r \in projects : r.dir /\ r.path = p /\ r.by = ns}

(* create, up to mkdir; a directory already registered is answered at once. *)
Create(ns, p, dir) ==
  LET known == dir /\ Registered(p, ns) # {}
      op == [kind |-> "create", by |-> ns, path |-> p, dir |-> dir, force |-> FALSE, target |-> 0,
             step |-> IF known THEN "done" ELSE "waits"]
  IN  /\ Available(p, ns) /\ Begin(op)
      /\ owners' = IF known THEN owners ELSE Reserved(p, ns)
      /\ UNCHANGED <<projects, worktrees, dirty, working, lost>>
(* create, after mkdir, git init and realpath. *)
Created(n) ==
  LET op == ops[n]
  IN  /\ op.kind = "create" /\ op.step = "waits"
      /\ IF ~ Available(op.path, op.by) THEN Ends(n, "refused") /\ UNCHANGED projects
         ELSE /\ Ends(n, "done")
              /\ projects' = IF op.dir /\ Registered(op.path, op.by) # {} THEN projects
                             ELSE projects \union {[id |-> n, by |-> op.by, path |-> op.path, dir |-> op.dir]}
      /\ UNCHANGED <<owners, worktrees, dirty, working, lost>>

(* remove: a project with active sessions only when the caller lets them be terminated; the files, *)
(* when they are to go, are deleted before the rows. *)
Remove(ns, r) ==
  /\ r \in Gettable(ns)
  /\ Begin([kind |-> "remove", by |-> ns, path |-> r.path, dir |-> FALSE, force |-> TRUE, target |-> r.id,
            step |-> "waits"])
  /\ owners' = [p \in Paths |-> IF p = r.path \/ \E w \in worktrees : w.project = r.id /\ w.path = p
                                THEN Reserved(p, ns)[p] ELSE owners[p]]
  /\ UNCHANGED <<projects, worktrees, dirty, working, lost>>
Removed(n) ==
  /\ ops[n].kind = "remove" /\ ops[n].step = "waits" /\ Ends(n, "done")
  /\ projects' = {r \in projects : r.id # ops[n].target}
  /\ worktrees' = {w \in worktrees : w.project # ops[n].target}
  /\ working' = {w.id : w \in worktrees'} \intersect working
  /\ UNCHANGED <<owners, dirty, lost>>

(* worktreeCreate, by a caller or by a workflow's first node that names the worktree. *)
AddWorktree(ns, r, p, dir) ==
  /\ r \in Gettable(ns) /\ Available(p, ns)
  /\ Begin([kind |-> "add", by |-> ns, path |-> p, dir |-> dir, force |-> FALSE, target |-> r.id,
            step |-> "waits"])
  /\ owners' = Reserved(p, ns) /\ UNCHANGED <<projects, worktrees, dirty, working, lost>>
(* git refuses a path that is a worktree already. *)
Added(n) ==
  LET op == ops[n]
  IN  /\ op.kind = "add" /\ op.step = "waits"
      /\ IF (\E w \in worktrees : w.path = op.path) \/ ~ Available(op.path, op.by)
         THEN Ends(n, "refused") /\ UNCHANGED worktrees
         ELSE /\ Ends(n, "done")
              /\ worktrees' = worktrees \union {[id |-> n, project |-> op.target, path |-> op.path]}
      /\ UNCHANGED <<owners, projects, dirty, working, lost>>

(* A session in the worktree starts, writes, commits, ends. *)
Works(w) ==
  /\ w \in worktrees /\ \E r \in projects : r.id = w.project
  /\ \/ w.id \notin working /\ working' = working \union {w.id} /\ UNCHANGED dirty
     \/ w.id \in working /\ working' = working \ {w.id} /\ UNCHANGED dirty
     \/ w.id \in working /\ w.path \notin dirty /\ dirty' = dirty \union {w.path} /\ UNCHANGED working
     \/ w.path \in dirty /\ dirty' = dirty \ {w.path} /\ UNCHANGED working
  /\ UNCHANGED <<owners, projects, worktrees, ops, lost>>

(* worktreeRemove; force is the caller's word, and a workflow's cleanup never gives it. *)
Forces(cleanup) == IF cleanup THEN {FALSE} ELSE {TRUE, FALSE}
DropWorktree(ns, w, force, cleanup) ==
  /\ w \in worktrees /\ \E r \in Gettable(ns) : r.id = w.project
  /\ force \in Forces(cleanup)
  /\ cleanup => ops[w.id].dir /\ w.path \notin dirty  (* cleanupAutoWorktrees looks at git status first *)
  /\ force \/ w.id \notin working
  /\ Begin([kind |-> "drop", by |-> ns, path |-> w.path, dir |-> cleanup, force |-> force, target |-> w.id,
            step |-> "waits"])
  /\ UNCHANGED <<owners, projects, worktrees, dirty, working, lost>>
(* git worktree remove: without force it keeps what has changes. *)
Dropped(n) ==
  LET op == ops[n]
  IN  /\ op.kind = "drop" /\ op.step = "waits"
      /\ IF op.path \in dirty /\ ~ op.force
         THEN Ends(n, "refused") /\ UNCHANGED <<worktrees, dirty, lost>>
         ELSE /\ Ends(n, "done")
              /\ worktrees' = {w \in worktrees : w.id # op.target} /\ dirty' = dirty \ {op.path}
              /\ lost' = IF op.path \in dirty THEN lost \union {n} ELSE lost
      /\ UNCHANGED <<owners, projects, working>>

Next ==
  \/ \E ns \in Namespaces :
       \/ \E p \in Paths, dir \in BOOLEAN : Create(ns, p, dir)
       \/ \E r \in projects : Remove(ns, r) \/ \E p \in Paths, auto \in BOOLEAN : AddWorktree(ns, r, p, auto)
       \/ \E w \in worktrees, force, cleanup \in BOOLEAN : DropWorktree(ns, w, force, cleanup)
  \/ \E n \in Begun : Created(n) \/ Removed(n) \/ Added(n) \/ Dropped(n)
  \/ \E w \in worktrees : Works(w)

Spec == Init /\ [][Next]_vars

(* Two servers never share ground on the device: what one registered, or has mkdir or git under way *)
(* for, does not overlap with anything of the other, in whatever order the checks and the file *)
(* system's answers fall. *)
Ground == {[path |-> c.path, by |-> c.by] : c \in {d \in Claims : d.by # None}}
          \union {[path |-> ops[n].path, by |-> ops[n].by] : n \in {m \in Begun : ops[m].step = "waits"}}
Apart == \A a, b \in Ground : Overlap(a.path, b.path) => a.by = b.by

(* An existing directory is one project of its server, also when it is registered twice at a time. *)
DirectoryOnce == \A r, s \in projects : r.dir /\ s.dir /\ r.path = s.path => r = s

(* A workflow's end never takes work that is not committed, also what is written after its look at *)
(* the status: a worktree goes with its work only when a caller forced it. *)
WorkKept == \A n \in lost : ~ ops[n].dir
=============================================================================
