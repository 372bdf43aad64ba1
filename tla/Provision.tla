----------------------------- MODULE Provision -----------------------------
(***************************************************************************)
(* The creation of one project directory or git worktree that a server     *)
(* asked for (project-provision.ts, worktree-provision.ts, their ledgers,  *)
(* project-manager.ts): concurrent calls and retries of one request,       *)
(* perhaps of several runtimes on one ledger, each a task that awaits the  *)
(* file broker or git; the ledger's row; the projects table, which is      *)
(* another database; an outsider in the file system; process deaths.       *)
(* A check that refuses (policy, closed controller, changed repository)    *)
(* may come at any await: Refused.                                         *)
(***************************************************************************)
EXTENDS Naturals, Sequences

CONSTANTS
  MaxTasks,     \* bound: calls of provision and status
  MaxLosses     \* bound: process deaths
Foreign == MaxTasks + 1     \* the identity of a directory somebody else made

VARIABLES
  kind,         \* "workspace" or "worktree"
  row,          \* the ledger's row: st, the claim, the identity made
  dir,          \* what is at the row's path: 0 nothing, n what task n made
  project,      \* registered in the projects table
  tasks,        \* the calls: at, the row's state as they read it
  sent,         \* history: creations handed to the broker or git
  answers,      \* history: outcomes the server was told as known
  removed,      \* history: project.remove took the registration away
  blamed,       \* history: a creation that was done was settled as refused
  losses

vars == <<kind, row, dir, project, tasks, sent, answers, removed, blamed, losses>>

Going(i, at) == [tasks EXCEPT ![i].at = at]
Over(i) == Going(i, "over")
\* ledger.settle: only of a row this claim still holds
Settle(i, st) == IF row.st = "dispatched" /\ row.claim = i THEN [row EXCEPT !.st = st] ELSE row

\* What a row that is only looked at says; a confirmed worktree is registered again on the way.
View(i) ==
  /\ tasks' = Over(i)
  /\ IF row.st = "confirmed" /\ dir = row.made
       THEN project' = TRUE /\ answers' = answers \union {"confirmed"}
     ELSE UNCHANGED project /\ answers' = answers \union ({row.st} \intersect {"failed"})
  /\ UNCHANGED <<kind, row, dir, sent, removed, blamed, losses>>
ViewedIn == IF kind = "workspace" THEN {"dispatched", "unknown", "failed"}
            ELSE {"prepared", "dispatched", "unknown", "failed", "confirmed"}
------------------------------------------------------------------------------
Init ==
  /\ kind \in {"workspace", "worktree"}
  /\ row = [st |-> "none", claim |-> 0, made |-> 0] /\ dir = 0 /\ project = FALSE
  /\ tasks = <<>> /\ sent = 0 /\ answers = {} /\ removed = FALSE /\ blamed = FALSE /\ losses = 0

\* A call reads the row.  provision goes on where nothing was dispatched yet (a worktree only where
\* nothing was prepared); a recorded workspace is verified; anything else is looked at.
Called(does) ==
  /\ Len(tasks) < MaxTasks
  /\ tasks' = Append(tasks, [saw |-> row.st,
       at |-> IF kind = "workspace" /\ row.st \in {"observed", "confirmed"} THEN "verifying"
              ELSE IF row.st \in ViewedIn THEN "viewing"
              ELSE IF does = "provision" THEN "probing" ELSE "over"])
  /\ UNCHANGED <<kind, row, dir, project, sent, answers, removed, blamed, losses>>
Viewed(i) == tasks[i].at = "viewing" /\ View(i)

\* The broker or git has been probed: the row is written, or one written meanwhile is taken.
Prepare(i) ==
  /\ tasks[i].at = "probing"
  /\ IF row.st \in {"none", "prepared"} /\ (kind = "worktree" => row.st = "none")
       THEN /\ row' = [row EXCEPT !.st = "prepared"] /\ tasks' = Going(i, "claiming")
            /\ UNCHANGED <<kind, dir, project, sent, answers, removed, blamed, losses>>
       ELSE IF row.st \in ViewedIn THEN View(i)
       ELSE /\ tasks' = Over(i)
            /\ UNCHANGED <<kind, row, dir, project, sent, answers, removed, blamed, losses>>
\* Mutant of Claim: the update is unconditional.
ClaimAlways(i) ==
  /\ tasks[i].at = "claiming" /\ row.st \in {"prepared", "dispatched", "unknown"}
  /\ row' = [row EXCEPT !.st = "dispatched", !.claim = i] /\ tasks' = Going(i, "making")
  /\ sent' = sent + 1
  /\ UNCHANGED <<kind, dir, project, answers, removed, blamed, losses>>
\* The claim is a conditional update; a deadline or a refusal after it settles the row.
Claim(i) ==
  /\ tasks[i].at = "claiming"
  /\ IF row.st = "prepared"
       THEN /\ row' = [row EXCEPT !.st = "dispatched", !.claim = i] /\ tasks' = Going(i, "making")
            /\ sent' = sent + 1
            /\ UNCHANGED <<kind, dir, project, answers, removed, blamed, losses>>
       ELSE IF row.st \in ViewedIn THEN View(i)
       ELSE /\ tasks' = Over(i)
            /\ UNCHANGED <<kind, row, dir, project, sent, answers, removed, blamed, losses>>

\* mkdir_new or git worktree add: done; done or not and nobody knows; or certainly refused.
Make(i) ==
  /\ tasks[i].at = "making"
  /\ \/ dir = 0 /\ dir' = i /\ tasks' = Going(i, "made") /\ UNCHANGED row
     \/ dir' \in {dir, IF dir = 0 THEN i ELSE dir} /\ tasks' = Over(i) /\ row' = Settle(i, "unknown")
     \/ /\ UNCHANGED dir /\ tasks' = Over(i)
        /\ row' = Settle(i, IF kind = "workspace" THEN "failed" ELSE "unknown")
  /\ UNCHANGED <<kind, project, sent, answers, removed, blamed, losses>>
\* What was made is looked at again, then recorded.  The broker's refusal of this second look
\* counts as one of the creation.
Observe(i) ==
  /\ tasks[i].at = "made"
  /\ \/ /\ dir = i
        /\ row' = [row EXCEPT !.st = IF kind = "workspace" THEN "observed" ELSE "confirmed", !.made = i]
        /\ tasks' = [tasks EXCEPT ![i] = [saw |-> "observed",
                       at |-> IF kind = "workspace" THEN "verifying" ELSE "viewing"]]
        /\ UNCHANGED blamed
     \/ row' = Settle(i, "unknown") /\ tasks' = Over(i) /\ UNCHANGED blamed
     \/ /\ kind = "workspace" /\ row' = Settle(i, "failed") /\ tasks' = Over(i) /\ blamed' = TRUE
  /\ UNCHANGED <<kind, dir, project, sent, answers, removed, losses>>

\* verify() found the original directory in place: the project is registered, then the row is
\* confirmed; a row read as confirmed has to have its project.
Register(i) ==
  /\ tasks[i].at = "verifying" /\ dir = row.made
  /\ IF tasks[i].saw = "observed"
       THEN project' = TRUE /\ tasks' = Going(i, "confirming") /\ UNCHANGED answers
       ELSE /\ UNCHANGED project /\ tasks' = Over(i)
            /\ answers' = IF project THEN answers \union {"confirmed"} ELSE answers
  /\ UNCHANGED <<kind, row, dir, sent, removed, blamed, losses>>
Confirm(i) ==
  /\ tasks[i].at = "confirming" /\ tasks' = Over(i)
  /\ row' = IF row.st = "observed" THEN [row EXCEPT !.st = "confirmed"] ELSE row
  /\ answers' = answers \union {"confirmed"}
  /\ UNCHANGED <<kind, dir, project, sent, removed, blamed, losses>>

\* A check fails.  Before the claim and in verify() the row stays as it is.
Refused(i) ==
  /\ tasks[i].at \in {"probing", "verifying", "viewing"} /\ tasks' = Over(i)
  /\ UNCHANGED <<kind, row, dir, project, sent, answers, removed, blamed, losses>>
Remove ==
  /\ project /\ project' = FALSE /\ removed' = TRUE /\ dir' \in {0, dir}
  /\ UNCHANGED <<kind, row, tasks, sent, answers, blamed, losses>>
Outsider ==
  /\ dir' \in {0, Foreign} \ {dir} /\ dir # Foreign
  /\ UNCHANGED <<kind, row, project, tasks, sent, answers, removed, blamed, losses>>
\* The tasks die; what was on its way to the broker may still be done.
Crash ==
  /\ losses < MaxLosses /\ losses' = losses + 1
  /\ dir' \in {dir} \union {i \in DOMAIN tasks : tasks[i].at = "making" /\ dir = 0}
  /\ tasks' = [i \in DOMAIN tasks |-> [tasks[i] EXCEPT !.at = "over"]]
  /\ UNCHANGED <<kind, row, project, sent, answers, removed, blamed>>

Next ==
  \/ \E does \in {"provision", "status"} : Called(does)
  \/ \E i \in DOMAIN tasks :
       \/ Viewed(i) \/ Prepare(i) \/ Claim(i) \/ Make(i) \/ Observe(i)
       \/ Register(i) \/ Confirm(i) \/ Refused(i)
  \/ Remove \/ Outsider \/ Crash

Spec == Init /\ [][Next]_vars
------------------------------------------------------------------------------
(* "One committed dispatch per request.  Uncertain Git effects are never replayed" (worktree-
   provision.ts): over retries, concurrent calls, runtimes and deaths, one creation is sent. *)
DispatchedOnce == sent <= 1

(* A registered project is the directory its request's one claim made and saw in place, never one
   somebody else put at the path; a workspace whose row is confirmed has been registered, whichever
   of the two databases a death came between. *)
RegisteredIsOwn ==
  /\ project => row.st \in {"observed", "confirmed"} /\ row.made = row.claim /\ row.made # 0
  /\ kind = "workspace" /\ row.st = "confirmed" => project \/ removed

(* A known outcome is final: the server is never told both, and what it is told failed was not
   made, now or by a helper still running.  Excepted is a directory whose second look was refused. *)
KnownIsFinal ==
  /\ ~({"failed", "confirmed"} \subseteq answers)
  /\ "failed" \in answers \/ row.st = "failed" => blamed \/ (dir # row.claim /\ ~project)
=============================================================================
