------------------------------ MODULE NodeTurns ------------------------------
(***************************************************************************)
(* How the workflow engine runs its nodes (core/src/workflow-engine.ts):   *)
(* where a node works, the session it has, the turn it starts there, and   *)
(* what it takes for the turn's answer.  WorkflowEngine has the plan and   *)
(* the fences; here are the sessions' events, which come before the turn   *)
(* is known and after it is over, the worktree and the branch a node asks  *)
(* for, and what is left of them in the row when the engine dies.          *)
(***************************************************************************)
EXTENDS Naturals, Sequences

CONSTANTS
  MaxObjects,  \* bound: the run and its resumes and recoveries
  MaxTurns     \* bound: turns

VARIABLES
  kind,   \* the plan: two nodes, the second needs the first; or one node for two rounds in one session
  run,    \* the run object in the engine's table, with its executor
     \* the one in the engine's table, 0 if none
  row,    \* the checkpoint row
  known,  \* the engine's tables: session kept for the node, worktree, branch checked out
  sess,   \* sessions
  turns,  \* their turns, with what the engine holds of each
  repo    \* the project's repository

vars == <<kind, run, row, known, sess, turns, repo>>

Kinds ==
  [mode : {"dag"}, at : {"branch", "tree"}, native : {FALSE}]
  \cup {[mode |-> "dag", at |-> "main", native |-> TRUE], [mode |-> "loop", at |-> "main", native |-> FALSE]}

Node == IF kind.mode = "loop" THEN <<1, 1>> ELSE <<1, 2>>
Branch == <<"x", "y">>
NoText == [turn |-> 0, words |-> 0]
Node0 == [st |-> "pending", sess |-> 0, turn |-> 0, text |-> NoText]
Nothing == [sess |-> 0, tree |-> 0, branch |-> ""]

(* up: the engine lives.  owns: and has the row.  open: no control has come since the executor began.  *)
(* fin: a cancellation cleans up.  sess, tree: where the node at hand works.                           *)
Object(id, nodes, round) ==
  [id |-> id, st |-> "queued", up |-> TRUE, owns |-> TRUE, open |-> TRUE, fin |-> FALSE, pc |-> "start",
   round |-> round, node |-> nodes, sess |-> 0, tree |-> 0, turn |-> 0, got |-> NoText, res |-> ""]

Row(o, k) == [st |-> o.st, node |-> o.node, round |-> o.round, known |-> k]

Init ==
  /\ kind \in Kinds
  /\ run = Object(1, <<Node0, Node0>>, 1)
  /\ known = Nothing /\ row = Row(run, Nothing)
  /\ sess = <<>> /\ turns = <<>>
  /\ repo = [trees |-> <<>>, dirty |-> FALSE, at |-> "main", moved |-> FALSE]

At(pc) == run.pc = pc
N == Node[run.round]

(* persist: the object and the engine's tables; refused to who does not own the row. *)
Saves(o, k) == row' = IF run.owns THEN Row(o, k) ELSE row

(* assertCurrent; where it fails the executor is over. *)
Over(o) == [o EXCEPT !.pc = "over"]
Goes(pc) == IF run.open THEN [run EXCEPT !.pc = pc] ELSE Over(run)

Ended(st) == [Over(run) EXCEPT !.st = st, !.open = FALSE, !.owns = FALSE]

(* A node that fails takes the run with it; of an executor that is fenced nobody hears. *)
Fails ==
  LET o == [Ended("failed") EXCEPT !.node[N].st = "failed"] IN
  IF run.open THEN run' = o /\ Saves(o, known) ELSE run' = Over(run) /\ UNCHANGED row

(* ---- the executor ---- *)

Starts ==
  /\ At("start") /\ run.open
  /\ LET o == [run EXCEPT !.pc = "next", !.st = "running"] IN run' = o /\ Saves(o, known)
  /\ UNCHANGED <<kind, known, sess, turns, repo>>

Left == run.round <= 2 /\ (kind.mode = "dag" => run.node[N].st # "completed")

(* executeNode: the turn of the last round is forgotten, so that what the session says before the new one *)
(* has its name is heard.                                                                                 *)
Begins ==
  /\ At("next") /\ run.open /\ Left
  /\ LET o == [run EXCEPT !.pc = "place", !.node[N].st = "running", !.node[N].turn = 0,
                          !.got = NoText, !.res = "", !.turn = 0, !.sess = 0, !.tree = 0] IN
     run' = o /\ Saves(o, known)
  /\ UNCHANGED <<kind, known, sess, turns, repo>>

There(t) == t \in DOMAIN repo.trees /\ repo.trees[t]

(* resolveExecution, up to what it has to wait for. *)
Place ==
  /\ At("place")
  /\ IF kind.at = "tree" /\ known.tree # 0 /\ ~ There(known.tree) THEN Fails
     ELSE /\ run' = [run EXCEPT !.tree = IF kind.at = "tree" THEN known.tree ELSE 0,
                               !.pc = CASE kind.at = "tree" /\ known.tree = 0 -> "making"
                                        [] kind.at = "branch" /\ known.branch # Branch[N] -> "checkout"
                                        [] OTHER -> "session"]
          /\ UNCHANGED row
  /\ UNCHANGED <<kind, known, sess, turns, repo>>

(* git worktree add -b: the branch has the workflow's name, so it is made once; it stays when the worktree *)
(* goes, and nothing makes it again.                                                                       *)
Made ==
  /\ At("making")
  /\ IF repo.trees # <<>> THEN Fails /\ UNCHANGED <<known, repo>>
     ELSE LET k == [known EXCEPT !.tree = 1]
              o == [Goes("session") EXCEPT !.tree = 1] IN
          known' = k /\ repo' = [repo EXCEPT !.trees = <<TRUE>>] /\ run' = o /\ Saves(o, k)
  /\ UNCHANGED <<kind, sess, turns>>

CheckedOut ==
  /\ At("checkout")
  /\ LET k == [known EXCEPT !.branch = Branch[N]]
         o == Goes("session") IN
     /\ known' = k /\ run' = o /\ Saves(o, k)
     /\ repo' = [repo EXCEPT !.at = k.branch, !.moved = FALSE]
  /\ UNCHANGED <<kind, sess, turns>>

(* The session kept for the node goes on, or is replaced if the program lost it; a node of a DAG has its own. *)
HasSession ==
  /\ At("session") /\ run.open
  /\ LET s == IF kind.mode = "loop" THEN known.sess ELSE 0
         o == [run EXCEPT !.pc = "send", !.sess = s, !.node[N].sess = s] IN
     \/ s = 0 /\ run' = [run EXCEPT !.pc = "create"] /\ UNCHANGED <<known, row>>
     \/ s # 0 /\ sess[s] \in {"running", "terminated"} /\ Fails /\ UNCHANGED known
     \/ s # 0 /\ sess[s] \in {"idle", "detached"} /\ run' = o /\ Saves(o, known) /\ UNCHANGED known
     \/ /\ s # 0 /\ sess[s] = "detached"
        /\ known' = [known EXCEPT !.sess = 0] /\ run' = [run EXCEPT !.pc = "create"] /\ UNCHANGED row
  /\ UNCHANGED <<kind, sess, turns, repo>>

Created ==
  /\ At("create")
  /\ LET s == Len(sess) + 1
         k == IF kind.mode = "loop" THEN [known EXCEPT !.sess = s] ELSE known
         o == [Goes("send") EXCEPT !.sess = s, !.node[N].sess = s] IN
     \/ sess' = Append(sess, "idle") /\ known' = k /\ run' = o /\ Saves(o, k)
     \/ Fails /\ UNCHANGED <<sess, known>>
  /\ UNCHANGED <<kind, turns, repo>>

(* composeDagNodeInput: the text of what the node needs, as the object has it. *)
Input ==
  IF kind.mode = "dag" /\ run.round = 2 /\ run.node[1].st = "completed" THEN run.node[1].text ELSE NoText

Turn ==
  [sess |-> run.sess, by |-> run.id, n |-> N, input |-> Input, st |-> "live", settled |-> FALSE,
   said |-> 0, partial |-> 0, quiet |-> FALSE, cache |-> NoText, res |-> "", waits |-> FALSE,
   tree |-> run.tree, branch |-> repo.at, moved |-> repo.moved]

(* The session engine starts the turn; the answer to send comes later. *)
TurnStarts ==
  /\ At("send") /\ Len(turns) < MaxTurns
  /\ IF sess[run.sess] \in {"idle", "detached"}
     THEN /\ turns' = Append(turns, Turn)
          /\ sess' = [sess EXCEPT ![run.sess] = "running"]
          /\ run' = [run EXCEPT !.pc = "sending", !.turn = Len(turns) + 1] /\ UNCHANGED row
     ELSE Fails /\ UNCHANGED <<turns, sess>>
  /\ UNCHANGED <<kind, known, repo>>

(* send answered: awaitTurnResult finds the result kept for it, or waits. *)
Sent ==
  /\ At("sending")
  /\ LET t == run.turn
         o == [run EXCEPT !.node[N].turn = t] IN
     /\ Saves(o, known)
     /\ IF turns[t].res # ""
        THEN /\ run' = [o EXCEPT !.pc = "got", !.got = turns[t].cache, !.res = turns[t].res]
             /\ turns' = [turns EXCEPT ![t].cache = NoText, ![t].res = ""]
        ELSE run' = [o EXCEPT !.pc = "wait"] /\ turns' = [turns EXCEPT ![t].waits = TRUE]
  /\ UNCHANGED <<kind, known, sess, repo>>

(* ---- what the sessions say ---- *)

(* onStreamEvent: the session's node in the run at hand has this turn, or none yet. *)
Hears(t) ==
  /\ run.up /\ run.st = "running"
  /\ run.node[turns[t].n].turn \in {0, t}

Live(t) == turns[t].st = "live"

(* Whose words they are matters in a session that has several turns. *)
Says ==
  /\ \E t \in DOMAIN turns :
       /\ kind.mode = "loop" /\ Live(t) /\ turns[t].said < 1
       /\ turns' = [turns EXCEPT ![t].said = @ + 1, ![t].partial = IF Hears(t) THEN @ + 1 ELSE @]
  /\ UNCHANGED <<kind, run, row, known, sess, repo>>

Idles(s) == sess' = [sess EXCEPT ![s] = IF @ = "terminated" THEN @ ELSE "idle"]
Finishes(text, res) == run' = [run EXCEPT !.pc = "got", !.got = text, !.res = res]

(* A result or an error: to the one who waits, else kept.  A result without words of its own is what was heard. *)
Ends ==
  /\ \E t \in DOMAIN turns, res \in {"completed", "failed"} : \E words \in {turns[t].said, turns[t].partial} :
       LET text == [turn |-> t, words |-> words]
           u == [turns[t] EXCEPT !.st = "over", !.settled = ~ kind.native, !.partial = 0] IN
       /\ Live(t) /\ Idles(turns[t].sess)
       /\ IF ~ Hears(t) THEN turns' = [turns EXCEPT ![t] = [u EXCEPT !.partial = turns[t].partial]] /\ UNCHANGED run
          ELSE IF turns[t].waits
          THEN turns' = [turns EXCEPT ![t] = [u EXCEPT !.waits = FALSE]] /\ Finishes(text, res)
          ELSE turns' = [turns EXCEPT ![t] = [u EXCEPT !.cache = text, !.res = res]] /\ UNCHANGED run
  /\ UNCHANGED <<kind, row, known, repo>>

(* Somebody else terminated the session, or it stopped without a word. *)
GoesQuiet ==
  /\ \E t \in DOMAIN turns, st \in IF kind.mode = "loop" THEN {"idle", "terminated"} ELSE {"terminated"} :
       /\ Live(t)
       /\ turns' = [turns EXCEPT ![t].st = "over", ![t].quiet = TRUE, ![t].settled = TRUE]
       /\ sess' = [sess EXCEPT ![turns[t].sess] = st]
  /\ UNCHANGED <<kind, run, row, known, repo>>

(* The poll of awaitTurnResult, and its timeout. *)
GivesUp ==
  /\ \E t \in DOMAIN turns :
       /\ turns[t].waits /\ turns' = [turns EXCEPT ![t].waits = FALSE]
       /\ \/ /\ sess[turns[t].sess] # "running"
             /\ Finishes([turn |-> t, words |-> turns[t].partial], "completed")
          \/ Finishes([turn |-> t, words |-> 0], "failed")
  /\ UNCHANGED <<kind, row, known, sess, repo>>

(* What a native run waits for before it goes on: the program behind the turn is gone. *)
Settles ==
  /\ \E t \in DOMAIN turns : turns[t].st = "over" /\ ~ turns[t].settled /\ turns' = [turns EXCEPT ![t].settled = TRUE]
  /\ UNCHANGED <<kind, run, row, known, sess, repo>>

(* The node is done; its session with it, unless it is kept. *)
NodeEnds ==
  /\ At("got") /\ (kind.native /\ run.open => turns[run.turn].settled)
  /\ LET done == [run EXCEPT !.pc = "next", !.round = @ + 1, !.node[N].st = "completed", !.node[N].text = run.got] IN
     IF run.open /\ run.res = "completed" THEN run' = done /\ Saves(done, known) ELSE Fails
  /\ IF run.open /\ kind.mode = "dag" /\ ~ kind.native
     THEN /\ sess' = [sess EXCEPT ![run.sess] = "terminated"]
          /\ turns' = [turns EXCEPT ![run.turn].st = "over", ![run.turn].quiet = @ \/ Live(run.turn)]
     ELSE UNCHANGED <<sess, turns>>
  /\ UNCHANGED <<kind, known, repo>>

(* cleanupAutoWorktrees: what is uncommitted stays. *)
Cleaned == [known EXCEPT !.tree = IF @ # 0 /\ There(@) /\ ~ repo.dirty THEN 0 ELSE @, !.branch = ""]
Cleans == repo' = [repo EXCEPT !.trees = IF known.tree # 0 /\ Cleaned.tree = 0 THEN <<FALSE>> ELSE @]

Completes ==
  /\ \/ /\ At("next") /\ run.open /\ ~ Left
        /\ run' = [run EXCEPT !.pc = "clean"] /\ UNCHANGED <<known, repo, row>>
     \/ /\ At("clean") /\ Cleans /\ known' = Cleaned
        /\ IF run.open THEN run' = Ended("completed") /\ Saves(run', Cleaned) ELSE run' = Over(run) /\ UNCHANGED row
  /\ UNCHANGED <<kind, sess, turns>>

(* ---- controls ---- *)

Recast(nodes, from, to) == [n \in 1..2 |-> IF nodes[n].st \in from THEN [nodes[n] EXCEPT !.st = to] ELSE nodes[n]]

(* What waits for an answer ends; what waits for the session engine, or git, goes on to its next fence. *)
Fenced(o, st, nodes) ==
  [o EXCEPT !.st = st, !.open = FALSE, !.node = nodes,
            !.pc = IF @ \in {"start", "next", "session", "wait", "got"} THEN "over" ELSE @]

Active == run.up /\ run.st \in {"queued", "running"}
Unwaited == [t \in DOMAIN turns |-> [turns[t] EXCEPT !.waits = FALSE]]

Pause ==
  /\ Active
  /\ LET o == Fenced(run, "paused", Recast(run.node, {"running"}, "paused")) IN
     run' = o /\ Saves(o, known)
  /\ turns' = Unwaited
  /\ UNCHANGED <<kind, known, sess, repo>>

(* The sessions of nodes not done are terminated; then the cleanup. *)
Cancel ==
  /\ Active
  /\ LET nodes == run.node
         o == [Fenced(run, "cancelled", Recast(nodes, {"running", "pending"}, "cancelled")) EXCEPT !.fin = TRUE]
         cut == {nodes[n].sess : n \in {m \in 1..2 : nodes[m].st \in {"running", "pending"}}} IN
     /\ run' = o /\ Saves(o, known)
     /\ sess' = [s \in DOMAIN sess |-> IF s \in cut THEN "terminated" ELSE sess[s]]
     /\ turns' = [t \in DOMAIN turns |->
                    IF turns[t].sess \in cut /\ Live(t)
                    THEN [Unwaited[t] EXCEPT !.st = "over", !.quiet = TRUE, !.settled = TRUE] ELSE Unwaited[t]]
  /\ UNCHANGED <<kind, known, repo>>

Finalized ==
  /\ run.fin
  /\ LET k == [Cleaned EXCEPT !.sess = 0]
         o == [run EXCEPT !.fin = FALSE, !.owns = FALSE] IN
     known' = k /\ Cleans /\ run' = o /\ Saves(o, k)
  /\ UNCHANGED <<kind, sess, turns>>

(* hydrateCheckpoint: what the row has goes over what the engine has. *)
Hydrated ==
  [sess   |-> IF row.known.sess # 0 THEN row.known.sess ELSE known.sess,
   tree   |-> IF row.known.tree # 0 THEN row.known.tree ELSE known.tree,
   branch |-> IF row.known.branch # "" THEN row.known.branch ELSE known.branch]

(* The row is claimed, and goes with the new object. *)
Opens(nodes, round) ==
  LET o == Object(run.id + 1, Recast(nodes, {"running", "paused"}, "pending"), round) IN
  run.id < MaxObjects /\ run' = o /\ known' = Hydrated /\ row' = Row(o, Hydrated)

(* A resume goes on where the run stood, or begins again at the first node.  The server waits until nothing *)
(* of the last execution is under way any more, which the code does not check: the run workflow_twice.      *)
Resume ==
  /\ row.st \in {"paused", "failed", "cancelled"} /\ ~ run.fin /\ run.pc = "over"
  /\ \/ Opens([n \in 1..2 |-> IF row.node[n].st \in {"paused", "running", "cancelled", "failed"} THEN Node0 ELSE row.node[n]],
              row.round)
     \/ Opens(<<Node0, IF row.node[2].st = "completed" THEN row.node[2] ELSE Node0>>, 1)
  /\ UNCHANGED <<kind, sess, turns, repo>>

Crash ==
  /\ run.up
  /\ run' = [Over(run) EXCEPT !.up = FALSE, !.owns = FALSE, !.open = FALSE, !.fin = FALSE]
  /\ known' = Nothing
  /\ sess' = [s \in DOMAIN sess |-> IF sess[s] = "terminated" THEN sess[s] ELSE "detached"]
  /\ turns' = [t \in DOMAIN turns |->
                 [turns[t] EXCEPT !.waits = FALSE, !.st = "over", !.settled = TRUE, !.quiet = @ \/ Live(t),
                                  !.partial = 0, !.cache = NoText, !.res = ""]]
  /\ UNCHANGED <<kind, row, repo>>

Recover ==
  /\ ~ run.up /\ row.st \in {"queued", "running"} /\ Opens(row.node, row.round)
  /\ UNCHANGED <<kind, sess, turns, repo>>

(* The agent leaves its work uncommitted; somebody checks another branch out, before the run goes on. *)
Works ==
  /\ \/ (\E t \in DOMAIN turns : Live(t) /\ turns[t].tree # 0) /\ ~ repo.dirty /\ repo' = [repo EXCEPT !.dirty = TRUE]
     \/ kind.at = "branch" /\ repo.at # "main" /\ run.id = 1 /\ repo' = [repo EXCEPT !.at = "main", !.moved = TRUE]
  /\ UNCHANGED <<kind, run, row, known, sess, turns>>

Next ==
  \/ Starts \/ Begins \/ Place \/ Made \/ CheckedOut \/ HasSession \/ Created \/ TurnStarts \/ Sent
  \/ Says \/ Ends \/ GoesQuiet \/ GivesUp \/ Settles \/ NodeEnds \/ Completes
  \/ Pause \/ Cancel \/ Finalized \/ Resume \/ Crash \/ Recover \/ Works

Spec == Init /\ [][Next]_vars

-----------------------------------------------------------------------------
(* A node's answer is what the turn of its last attempt said, all of it, and in the node's own session: not  *)
(* what an earlier turn of the session says late, and not without what came before send answered.  Of a turn *)
(* that went quiet, what was heard.                                                                          *)
OwnAnswer ==
  \A n \in 1..2 :
    LET v == run.node[n] IN
    v.st = "completed" => /\ v.text.turn = v.turn /\ turns[v.turn].n = n /\ turns[v.turn].sess = v.sess
                          /\ turns[v.turn].quiet \/ v.text.words = turns[v.turn].said

(* What the second node is given is the answer of the first node's latest turn in this run. *)
InputIsLatest ==
  \A t \in DOMAIN turns : turns[t].n = 2 =>
    /\ turns[t].input.turn # 0 /\ turns[turns[t].input.turn].n = 1
    /\ ~ \E u \in 1..(t - 1) : u > turns[t].input.turn /\ turns[u].n = 1 /\ turns[u].by = turns[t].by

(* A worktree that a turn has worked in is in the row: who goes on after a crash works there too. *)
TreeIsKnown ==
  \A t \in DOMAIN turns : turns[t].tree # 0 /\ There(turns[t].tree) => row.known.tree = turns[t].tree

(* A turn begins on its node's branch, unless somebody else has checked out since. *)
OnBranch == \A t \in DOMAIN turns : kind.at = "branch" => turns[t].moved \/ turns[t].branch = Branch[turns[t].n]
=============================================================================
