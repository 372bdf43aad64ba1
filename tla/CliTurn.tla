------------------------------- MODULE CliTurn -------------------------------
(***************************************************************************)
(* A session of an agent that is a command line program, one process per   *)
(* turn: codex exec, Claude Code, Copilot, OpenCode.  What the program     *)
(* prints and how it exits decide how the turn ends and which conversation *)
(* the next process is asked to continue.  The program is external: it may *)
(* open another conversation than the one asked for, where the adapter     *)
(* looks, print in any order, exit at any moment, and leave descendants,   *)
(* which the supervisor's forced signal ends.                              *)
(***************************************************************************)
EXTENDS Naturals, Sequences

CONSTANTS MaxTurns   \* bound: turns
Other == MaxTurns + 1   \* a conversation that is not the session's; 0 is none

VARIABLES
  kind,    \* the adapter: "codex", "claude", "copilot" or "opencode"
  session, \* the conversation the session knows, and whether it was started
  turns    \* one record per process

vars == <<kind, session, turns>>

N == Len(turns)
Settled(t) == t.final # "none"
Fresh == [asked |-> 0, conv |-> 0, text |-> FALSE, done |-> FALSE, error |-> FALSE, last |-> "none",
          leader |-> TRUE, tree |-> TRUE, code |-> 0, final |-> "none", returned |-> FALSE]

Init ==
  /\ kind \in {"codex", "claude", "copilot", "opencode"}
  /\ session = [conv |-> 0, started |-> FALSE] /\ turns = <<>>

(* What the command line asks for; Claude Code is told the id of a new conversation, 1. *)
Asked ==
  CASE kind \in {"codex", "opencode"} -> session.conv
    [] kind \in {"claude", "copilot"} -> IF session.started THEN session.conv ELSE 0
(* Claude Code's session counts as started with its first command line. *)
Begun ==
  /\ N < MaxTurns /\ (N > 0 => turns[N].returned)
  /\ session' = IF kind = "claude" THEN [conv |-> 1, started |-> TRUE] ELSE session
  /\ UNCHANGED kind
Send == Begun /\ turns' = Append(turns, [Fresh EXCEPT !.asked = Asked])
(* The turn was aborted before its process was there, or there is no such program. *)
NeverStarts ==
  /\ Begun
  /\ \E final \in (IF kind \in {"codex", "copilot"} THEN {"interrupted"} ELSE {}) \union {"failed"} :
       turns' = Append(turns, [Fresh EXCEPT !.asked = Asked, !.leader = FALSE, !.tree = FALSE,
                                            !.final = final, !.returned = TRUE])

Set(t) == turns' = [turns EXCEPT ![N] = t]
Exists(c) == \E n \in 1 .. N : turns[n].conv = c
(* codex and Claude Code: another conversation than the session's ends the turn. *)
Checked(t) ==
  CASE kind = "codex" -> IF session.conv \notin {0, t.conv} THEN [t EXCEPT !.final = "failed"] ELSE t
    [] kind = "claude" -> IF session.conv # t.conv THEN [t EXCEPT !.final = "failed"] ELSE t
    [] OTHER -> t
Known(t) ==
  CASE kind = "codex" /\ ~ Settled(t) -> [session EXCEPT !.conv = t.conv]
    [] kind = "opencode" /\ session.conv = 0 -> [session EXCEPT !.conv = t.conv]
    [] kind = "copilot" -> [session EXCEPT !.conv = t.conv]
    [] OTHER -> session
(* The program opens what it was asked for, or a new conversation; codex says so at once. *)
Opens(c) ==
  /\ N > 0 /\ turns[N].leader /\ turns[N].conv = 0
  /\ c \in (IF turns[N].asked = 0 THEN {IF kind = "claude" THEN 1 ELSE N}
            ELSE {turns[N].asked} \intersect {d \in 1 .. N : Exists(d)})
           \union (IF kind = "claude" \/ (kind = "codex" /\ turns[N].asked # 0) THEN {Other} ELSE {})
  /\ LET t == [turns[N] EXCEPT !.conv = c]
     IN  IF kind = "codex" /\ ~ Settled(t)
         THEN Set(Checked(t)) /\ session' = Known(Checked(t))
         ELSE Set(t) /\ UNCHANGED session
  /\ UNCHANGED kind

(* A message; one with tool requests is not Copilot's final text. *)
Speaks(final) ==
  /\ N > 0 /\ turns[N].conv # 0 /\ ~ Settled(turns[N]) /\ turns[N].leader
  /\ LET t == Checked(turns[N])
     IN  /\ Set(IF Settled(t) THEN t ELSE [t EXCEPT !.text = final \/ (t.text /\ kind # "copilot")])
         /\ session' = IF kind = "opencode" THEN Known(t) ELSE session
  /\ UNCHANGED kind

(* The program says how its turn ended: turn.completed or turn.failed, a result, a step's end, an error. *)
(* codex takes the later word, Claude Code the later result; Copilot and OpenCode keep an error. *)
Reported(t, ok) ==
  CASE kind \in {"codex", "claude"} -> [t EXCEPT !.done = ok \/ (t.done /\ kind = "codex"), !.error = ~ ok]
    [] kind = "copilot" -> [t EXCEPT !.done = TRUE, !.error = t.error \/ ~ ok]
    [] kind = "opencode" -> [t EXCEPT !.done = t.done \/ ok, !.error = t.error \/ ~ ok]
Reports(ok) ==
  /\ N > 0 /\ turns[N].conv # 0 /\ ~ Settled(turns[N]) /\ turns[N].leader
  /\ LET t == Checked(turns[N])
         said == [t EXCEPT !.last = IF ok THEN "done" ELSE "error"]
     IN  \/ Set(IF kind = "claude" /\ Settled(t) THEN t ELSE Reported(said, ok))
            /\ session' = IF kind = "copilot" \/ (kind = "opencode" /\ ok) THEN Known(t) ELSE session
         \/ kind = "opencode" /\ ok /\ Set(said) /\ UNCHANGED session   \* stdout lost it
  /\ UNCHANGED kind

(* OpenCode's own database may say what its output did not. *)
InDatabase(t) == kind = "opencode" /\ ~ t.error /\ session.conv # 0 /\ t.last = "done"
Completed(t, code) == code = 0 /\ ((t.done /\ ~ t.error /\ t.text) \/ InDatabase(t))
(* The process closes; its descendants may live on. *)
Exits(code) ==
  /\ N > 0 /\ turns[N].leader
  /\ \E tree \in BOOLEAN :
       LET t == turns[N]
           final == IF Settled(t) THEN t.final ELSE IF Completed(t, code) THEN "completed" ELSE "failed"
       IN  /\ Set([t EXCEPT !.leader = FALSE, !.tree = tree, !.code = code, !.final = final])
           /\ session' = IF kind = "copilot" /\ final = "completed" THEN [session EXCEPT !.started = TRUE]
                         ELSE session
  /\ UNCHANGED kind

(* Abort, interrupt, or half an hour: the turn has its end at once, the tree is told to stop. *)
Cut(final) ==
  /\ N > 0 /\ ~ Settled(turns[N])
  /\ Set([turns[N] EXCEPT !.final = final]) /\ UNCHANGED <<kind, session>>

(* terminate: the tree of a turn that is settled, or whose leader has exited, is signalled. *)
TreeStops ==
  /\ N > 0 /\ turns[N].tree /\ Settled(turns[N])
  /\ Set([turns[N] EXCEPT !.leader = FALSE, !.tree = FALSE,
                          !.code = IF turns[N].leader THEN 1 ELSE @])
  /\ UNCHANGED <<kind, session>>
(* send returns when the tree is gone. *)
MayReturn(t) == Settled(t) /\ ~ t.tree
Returns ==
  /\ N > 0 /\ ~ turns[N].returned /\ MayReturn(turns[N])
  /\ Set([turns[N] EXCEPT !.returned = TRUE, !.text = FALSE, !.done = FALSE, !.error = FALSE,
                          !.last = IF turns[N].final = "completed" THEN @ ELSE "none",
                          !.code = IF turns[N].final = "completed" THEN @ ELSE 1])
  /\ UNCHANGED <<kind, session>>

Next ==
  \/ Send \/ NeverStarts \/ TreeStops \/ Returns
  \/ \E c \in 1 .. Other : Opens(c)
  \/ \E b \in BOOLEAN : Speaks(b) \/ Reports(b)
  \/ \E code \in {0, 1} : Exits(code)
  \/ \E final \in {"interrupted", "timeout"} : Cut(final)

Spec == Init /\ [][Next]_vars

(* A turn is called completed only if the program itself said so last, in the session's own *)
(* conversation, had something to say and exited with 0. *)
CompletedIsNative ==
  \A n \in 1 .. N : turns[n].final = "completed" =>
    /\ turns[n].last = "done" /\ turns[n].code = 0
    /\ turns[n].conv \notin {0, Other} /\ turns[n].asked \in {0, turns[n].conv}

(* What was said in a completed turn is not forgotten: every later process is asked to continue *)
(* that conversation, whatever failed, was cut or never started in between. *)
Continues ==
  \A m, n \in 1 .. N : m < n /\ turns[m].final = "completed" => turns[n].asked = turns[m].conv

(* Two processes never work in the session's directory and conversation at a time. *)
OneProcess == \A m, n \in 1 .. N : turns[m].tree /\ turns[n].tree => m = n
=============================================================================
