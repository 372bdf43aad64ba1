------------------------------ MODULE PeerHooks ------------------------------
(***************************************************************************)
(* The native end of peer mail in programs that have hooks: the runner     *)
(* beside Claude Code (claude-peer-context.ts), the extension inside       *)
(* Copilot (copilot-peer-context.ts), Codex's ingress                      *)
(* (codex-peer-context.ts) and the plugin inside OpenClaw's gateway        *)
(* (openclaw-plugin/src/peer-context.ts).  A model answers with tool calls, of its own   *)
(* or of an agent it started; the end of a tool runs a hook, whose context *)
(* goes into the model's next request.  The runner follows the program     *)
(* through a stream of events that may be behind, asks the bridge what is  *)
(* waiting (PeerMail, TurnInput) and must keep it in the root's own        *)
(* conversation, within its window, and report it only when it was in a    *)
(* request.  Sizes are units: a tool's result and a batch are one each.    *)
(***************************************************************************)
EXTENDS Naturals, FiniteSets, Sequences

CONSTANTS MaxRequests, MaxTools, Room, MaxCompactions, MaxBehind

VARIABLES kind, prog, tools, stream, runner, taken, sent, told

vars == <<kind, prog, tools, stream, runner, taken, sent, told>>

Begun(at) == [at |-> at, n |-> 0, base |-> 1, extra |-> 0, missed |-> 0, kid |-> 0, kids |-> 0, compacted |-> 0]
Fresh == [usage |-> 0, trailing |-> 0, gen |-> 0, peer |-> 0, debit |-> 0, debitGen |-> 0, pending |-> FALSE,
          seen |-> {}, used |-> {}, kids |-> {}, kidGen |-> 0, open |-> {}, turn |-> 0, apps |-> {}]

(* kind.native: the batch may hold input of the user, so it is authorised before and reported after. *)
Init ==
  /\ kind \in [at : {"claude", "copilot", "openclaw"}, native : BOOLEAN] \cup [at : {"codex"}, native : {FALSE}]
  /\ prog = Begun("new")
  /\ tools = <<>> /\ stream = <<>>
  /\ runner = Fresh
  /\ taken = {} /\ sent = {} /\ told = {}

Is(k) == kind.at = k
Runs == prog.at # "over"
Tool(root, sig) == [root |-> root, sig |-> sig, st |-> "running", gen |-> 0, kidGen |-> 0,
                    room |-> 0, prev |-> 0, match |-> 0]
Past(t) == [Tool(tools[t].root, "plain") EXCEPT !.st = "done"]
At(t, st) == tools[t].st = st
Open == {t \in DOMAIN tools : ~ At(t, "done")}

(* Claude Code's stream says less than Copilot's; Codex has none, and OpenClaw's plugin hears at once. *)
Event(type, tool) == [type |-> type, tool |-> tool, of |-> {}, size |-> 0]
Told == CASE Is("copilot") -> {"begin", "answer", "tool", "hook", "back", "none", "kid", "kidEnd", "compact"}
          [] Is("claude") -> {"begin", "answer", "back", "none", "compact"}
          [] OTHER -> {}
Emits(event) == /\ Len(stream) < MaxBehind
                /\ stream' = IF event.type \in Told THEN Append(stream, event) ELSE stream
Step(t, st) == [tools EXCEPT ![t].st = st]

(* ---- the native program ---- *)

(* llm_input: only OpenClaw's plugin hears what the run starts with. *)
AtStart == IF Is("openclaw") THEN prog.base ELSE 0

(* The prompt is submitted; nothing was known of the window, so its own hook brings nothing. *)
Submitted ==
  /\ prog.at = "new" /\ prog' = [prog EXCEPT !.at = "ready"]
  /\ runner' = [runner EXCEPT !.usage = AtStart, !.gen = @ + 1]
  /\ UNCHANGED <<kind, tools, stream, taken, sent, told>>

(* model_call_started: what the session's file accepted is in this request. *)
ModelCall ==
  /\ runner' = [runner EXCEPT !.gen = @ + 1, !.apps = {}]
  /\ told' = told \cup {a.hook : a \in {x \in runner.apps : x.carried}}

(* A request of the root: what its hooks brought is in it now. *)
Request ==
  /\ prog.at = "ready" /\ prog.n < MaxRequests
  /\ prog' = [prog EXCEPT !.at = "asked", !.n = @ + 1, !.base = prog.base + prog.extra, !.extra = 0, !.missed = 0]
  /\ sent' = sent \cup {x.hook : x \in taken} /\ taken' = {}
  /\ Emits(Event("begin", prog.n + 1))
  /\ IF Is("openclaw") THEN ModelCall ELSE UNCHANGED <<runner, told>>
  /\ UNCHANGED <<kind, tools>>

Sigs == {"plain", "task"}
Answers ==
  /\ prog.at = "asked"
  /\ \E calls \in {<<s>> : s \in Sigs} \cup {<<s, "plain">> : s \in Sigs} :
       /\ Len(tools) + Len(calls) <= MaxTools
       /\ tools' = tools \o [i \in DOMAIN calls |-> Tool(TRUE, calls[i])]
       /\ prog' = [prog EXCEPT !.at = "tools"]
       /\ Emits([Event("answer", 0) EXCEPT !.size = prog.base, !.of = DOMAIN tools' \ DOMAIN tools])
  /\ UNCHANGED <<kind, runner, taken, sent, told>>

(* A task's agent starts, calls tools, and ends before the task's own result or after it. *)
KidStarts ==
  /\ Runs /\ prog.kid = 0 /\ prog.kids = 0
  /\ \E t \in DOMAIN tools :
       /\ tools[t].root /\ tools[t].sig = "task" /\ At(t, "running")
       /\ prog' = [prog EXCEPT !.kid = t, !.kids = 1]
  /\ Emits(Event("kid", prog'.kid))
  /\ UNCHANGED <<kind, tools, runner, taken, sent, told>>
KidCalls ==
  /\ Runs /\ prog.kid # 0 /\ Len(tools) < MaxTools
  /\ \E sig \in Sigs : tools' = Append(tools, Tool(FALSE, sig))
  /\ Emits(Event("tool", Len(tools) + 1))
  /\ UNCHANGED <<kind, prog, runner, taken, sent, told>>
KidEnds ==
  /\ Runs /\ prog.kid # 0 /\ \A t \in Open : tools[t].root
  /\ prog' = [prog EXCEPT !.kid = 0] /\ Emits(Event("kidEnd", prog.kid))
  /\ UNCHANGED <<kind, tools, runner, taken, sent, told>>

(* A tool ends: its result will be in its conversation, and its hook runs. *)
ToolEnds ==
  /\ Runs
  /\ \E t \in DOMAIN tools :
       /\ At(t, "running") /\ tools' = Step(t, "fired")
       /\ prog' = IF tools[t].root THEN [prog EXCEPT !.extra = @ + 1] ELSE prog
       /\ Emits(Event("hook", t))
  /\ UNCHANGED <<kind, runner, taken, sent, told>>

(* Every tool of the answer is through its hook. *)
Goes ==
  /\ prog.at = "tools" /\ \A t \in Open : ~ tools[t].root
  /\ prog' = [prog EXCEPT !.at = "ready"]
  /\ UNCHANGED <<kind, tools, stream, runner, taken, sent, told>>

(* Compaction: Claude Code's PreCompact hook is heard first; the others only have the event. *)
(* The plugin hears of it before it happens. *)
Forgotten(r) == [r EXCEPT !.usage = 0, !.trailing = 0, !.gen = @ + 1, !.apps = {}]
Compacts ==
  /\ prog.at = "ready" /\ prog.compacted < MaxCompactions
  /\ prog' = [prog EXCEPT !.compacted = @ + 1, !.base = 1, !.extra = 0, !.missed = 0]
  /\ taken' = {} /\ Emits(Event("compact", 0))
  /\ runner' = IF Is("claude") \/ Is("openclaw") THEN Forgotten(runner) ELSE runner
  /\ UNCHANGED <<kind, tools, sent, told>>

(* The turn ends, by itself or in the middle; runner and hooks are gone with it. *)
Over ==
  /\ Runs /\ prog.n > 0 /\ prog' = Begun("over")
  /\ tools' = [t \in DOMAIN tools |-> Past(t)] /\ stream' = <<>> /\ runner' = Fresh
  /\ UNCHANGED <<kind, taken, sent, told>>

(* get and remove: the binding expires, is released or loses its owner; or another input or model, and    *)
(* nothing more is known of the window.                                                                  *)
Retired ==
  /\ Is("openclaw") /\ Runs /\ runner.usage # 0
  /\ runner' = [Fresh EXCEPT !.gen = runner.gen + 1, !.pending = runner.pending]
  /\ UNCHANGED <<kind, prog, tools, stream, taken, sent, told>>

(* ---- the runner's view of it ---- *)

(* main and createClaudePeerBudget.observe: the root's usage, its tool calls, what trails them. *)
ClaudeHears(e) ==
  CASE e.type = "begin" -> [runner EXCEPT !.apps = {}]
    [] e.type = "answer" -> [runner EXCEPT !.usage = e.size, !.trailing = 0, !.gen = @ + 1, !.seen = @ \cup e.of]
    [] e.type \in {"back", "none"} -> IF tools[e.tool].root /\ runner.usage # 0 THEN [runner EXCEPT !.trailing = @ + 1] ELSE runner
    [] e.type = "compact" -> Forgotten(runner)

(* observe: tools and agents as they come and go, and what the program says of its hooks: the end of *)
(* the hook and the tool's result both carried the batch, or it does not count.                      *)
Carried(e) == {IF a.hook = e.tool /\ a.match = e.tool THEN [a EXCEPT !.carried = TRUE] ELSE a :
                 a \in {x \in runner.apps : x.hook = e.tool <=> x.match = e.tool}}
CopilotHears(e) ==
  CASE e.type = "begin" -> [runner EXCEPT !.turn = e.tool, !.apps = {}]
    [] e.type = "answer" -> [runner EXCEPT !.usage = e.size, !.gen = @ + 1, !.seen = @ \cup e.of]
    [] e.type = "tool" -> [runner EXCEPT !.seen = @ \cup {e.tool}]
    [] e.type = "hook" -> [runner EXCEPT !.open = @ \cup {e.tool}]
    [] e.type = "back" -> [runner EXCEPT !.open = @ \ {e.tool}, !.seen = @ \ {e.tool}, !.apps = Carried(e)]
    [] e.type = "none" -> [runner EXCEPT !.open = @ \ {e.tool}, !.seen = @ \ {e.tool},
                             !.apps = {a \in @ : a.hook # e.tool /\ a.match # e.tool}]
    [] e.type = "kid" -> [runner EXCEPT !.kids = @ \cup {e.tool}, !.kidGen = @ + 1]
    [] e.type = "kidEnd" -> [runner EXCEPT !.kids = @ \ {e.tool}]
    [] e.type = "compact" -> [Forgotten(runner) EXCEPT !.open = {}, !.turn = 0]

(* The next request shows what was applied: to Claude of the same generation, to Copilot what was carried. *)
Applied(e) ==
  IF e.type # "begin" THEN {}
  ELSE {a.hook : a \in {x \in runner.apps :
                          IF Is("claude") THEN x.gen = runner.gen ELSE x.turn # e.tool /\ x.carried}}

Hears ==
  /\ Runs /\ stream # <<>> /\ LET e == Head(stream) IN
     /\ runner' = IF Is("claude") THEN ClaudeHears(e) ELSE CopilotHears(e)
     /\ told' = told \cup Applied(e)
  /\ stream' = Tail(stream)
  /\ UNCHANGED <<kind, prog, tools, taken, sent>>

(* ---- the hook of a tool ---- *)

(* The hook returns, with the batch or without, and the program takes what it returned. *)
Unseen == {t \in Open : tools[t].root /\ At(t, "fired")}
Returns(t, batch) ==
  /\ tools' = [tools EXCEPT ![t] = Past(t)]
  /\ Emits(Event(IF batch THEN "back" ELSE "none", t))
  /\ taken' = IF ~ batch THEN taken
              ELSE taken \cup {[hook |-> t, full |-> prog.base + prog.extra - prog.missed - Cardinality(Unseen) + 1]}
  /\ prog' = IF ~ tools[t].root THEN prog ELSE
             IF batch THEN [prog EXCEPT !.extra = @ + 1]
             ELSE IF At(t, "fired") /\ ~ Is("openclaw") /\ t \notin runner.seen THEN [prog EXCEPT !.missed = @ + 1] ELSE prog

Left(r) == LET full == r.usage + r.trailing + r.peer + r.debit IN IF full > Room THEN 0 ELSE Room - full

(* deliver in Claude's runner: only a root tool the stream has named; every result is charged, but *)
(* one hook at a time asks.                                                                         *)
ClaudeLooks(t) ==
  IF t \notin runner.seen THEN Returns(t, FALSE) /\ UNCHANGED runner
  ELSE LET kept == IF runner.usage # 0 /\ runner.debitGen # runner.gen THEN 0 ELSE runner.debit
           debitGen == IF runner.usage # 0 THEN runner.gen ELSE runner.debitGen
           charged == [runner EXCEPT !.seen = @ \ {t}, !.debit = kept + 1, !.debitGen = debitGen] IN
       IF runner.pending THEN Returns(t, FALSE) /\ runner' = charged
       ELSE /\ runner' = [charged EXCEPT !.pending = TRUE]
            /\ tools' = [tools EXCEPT ![t].st = "asking", ![t].gen = runner.gen, ![t].prev = kept,
                                      ![t].room = IF runner.usage = 0 THEN 0 ELSE Left(charged)]
            /\ UNCHANGED <<stream, taken, prog>>

(* headroom: nothing else was charged since, and the batch still fits. *)
Headroom(t) ==
  runner.usage # 0 /\ tools[t].room > 0 /\ runner.debit <= tools[t].prev + 1 /\ Left(runner) >= 1

(* readCopilotNativeBudget: the usage the stream last told, the tool's result and what was charged. *)
NativeBudget == IF runner.usage = 0 THEN 0 ELSE Left([runner EXCEPT !.debit = 1])

(* onPostToolUse: the hook does not name its tool, so exactly one tool the stream has named must look *)
(* like it, and be the root's.                                                                        *)
Alike(t) == {m \in runner.seen : tools[m].sig = tools[t].sig}
CopilotLooks(t) ==
  /\ IF Cardinality(Alike(t)) = 1 /\ \A m \in Alike(t) : tools[m].root /\ m \notin runner.used
     THEN /\ tools' = [tools EXCEPT ![t].st = "asks tasks", ![t].match = CHOOSE m \in Alike(t) : TRUE]
          /\ UNCHANGED <<stream, taken, prog>>
     ELSE Returns(t, FALSE)
  /\ UNCHANGED runner

(* nativeTasks: the program's own word on its agents.  A task's hook must be of the task itself.     *)
Hooked(t) == {h \in runner.open : tools[h].sig = tools[t].sig}
AsksTasks ==
  /\ Runs
  /\ \E t \in DOMAIN tools :
       /\ At(t, "asks tasks")
       /\ LET m == tools[t].match
              own == IF tools[t].sig = "task" THEN m = t ELSE runner.kids = {} /\ prog.kid = 0
              bound == kind.native => (Hooked(t) = {t} /\ runner.turn # 0 /\ prog.n = runner.turn) IN
          IF ~ own \/ m \in runner.used THEN Returns(t, FALSE) /\ UNCHANGED runner
          ELSE IF ~ bound \/ runner.pending
          THEN Returns(t, FALSE) /\ runner' = [runner EXCEPT !.used = @ \cup {m}]
          ELSE /\ runner' = [runner EXCEPT !.used = @ \cup {m}, !.pending = TRUE]
               /\ tools' = [tools EXCEPT ![t].st = "asking", ![t].gen = runner.gen, ![t].kidGen = runner.kidGen,
                              ![t].room = IF runner.usage = 0 THEN 0 ELSE Left([runner EXCEPT !.debit = 1])]
               /\ UNCHANGED <<stream, taken, prog>>
  /\ UNCHANGED <<kind, sent, told>>

Eligible(t) == tools[t].match \in runner.seen /\ runner.kidGen = tools[t].kidGen /\ Cardinality(Alike(t)) = 1

(* CodexPeerContext.deliver: a tool of another thread is not the turn's; a second hook is turned away. *)
CodexLooks(t) ==
  IF ~ tools[t].root \/ runner.pending THEN Returns(t, FALSE) /\ UNCHANGED runner
  ELSE /\ runner' = [runner EXCEPT !.pending = TRUE]
       /\ \E left \in 0 .. 1 : tools' = [tools EXCEPT ![t].st = "asking", ![t].room = left]
       /\ UNCHANGED <<stream, taken, prog>>

(* The middleware of tool results: every one is charged, and moves the generation on. *)
OpenClawLooks(t) ==
  IF ~ tools[t].root THEN Returns(t, FALSE) /\ UNCHANGED runner
  ELSE LET charged == IF runner.usage = 0 THEN runner ELSE [runner EXCEPT !.gen = @ + 1, !.debit = @ + 1] IN
       IF runner.pending THEN Returns(t, FALSE) /\ runner' = charged
       ELSE /\ runner' = [charged EXCEPT !.pending = TRUE]
            /\ tools' = [tools EXCEPT ![t].st = "asking", ![t].gen = charged.gen,
                                      ![t].room = IF runner.usage = 0 THEN 0 ELSE Left(charged)]
            /\ UNCHANGED <<stream, taken, prog>>

Looks ==
  /\ Runs
  /\ \E t \in DOMAIN tools :
       /\ At(t, "fired")
       /\ CASE Is("claude") -> ClaudeLooks(t) [] Is("copilot") -> CopilotLooks(t) [] Is("codex") -> CodexLooks(t)
            [] Is("openclaw") -> OpenClawLooks(t)
  /\ UNCHANGED <<kind, sent, told>>

CopilotHolds(t) == tools[t].gen = runner.gen /\ Eligible(t)
OpenClawHolds(t) == tools[t].gen = runner.gen /\ runner.usage # 0

(* What the hook found when it asked still holds. *)
Holds(t) == CASE Is("claude") -> tools[t].gen = runner.gen /\ Headroom(t)
              [] Is("copilot") -> CopilotHolds(t)
              [] Is("codex") -> TRUE
              [] Is("openclaw") -> OpenClawHolds(t)
Idle(r) == [r EXCEPT !.pending = FALSE]

(* The bridge answers: nothing, or a batch that fits what it was told is left. *)
Offered ==
  /\ Runs
  /\ \E t \in DOMAIN tools :
       /\ At(t, "asking")
       /\ \/ Returns(t, FALSE) /\ runner' = Idle(runner)
          \/ /\ tools[t].room >= 1
             /\ IF Holds(t)
                THEN /\ tools' = Step(t, "allowing") /\ UNCHANGED <<stream, taken, prog>>
                     /\ runner' = IF Is("claude") THEN runner ELSE [runner EXCEPT !.peer = @ + 1]
                ELSE Returns(t, FALSE) /\ runner' = Idle(runner)
  /\ UNCHANGED <<kind, sent, told>>

Still(t) == Holds(t) /\ (kind.native /\ Is("copilot") => t \in runner.open)
(* tool_result_persist: OpenClaw's own file kept it, or another middleware rewrote the result. *)
Application(t, kept) ==
  [hook |-> t, match |-> tools[t].match, gen |-> runner.gen, turn |-> runner.turn, carried |-> kept /\ Is("openclaw")]

(* authorize is refused, or the batch goes in if everything is still as it was. *)
Allowed ==
  /\ Runs
  /\ \E t \in DOMAIN tools :
       /\ At(t, "allowing")
       /\ \/ /\ kind.native \/ ~ Still(t)
             /\ Returns(t, FALSE) /\ runner' = Idle(runner)
          \/ /\ Still(t)
             /\ \E kept \in {TRUE} \cup (IF Is("openclaw") THEN {FALSE} ELSE {}) :
                  /\ Returns(t, kept)
                  /\ runner' = [Idle(runner) EXCEPT !.peer = IF Is("claude") THEN @ + 1 ELSE @,
                                                    !.apps = IF kind.native THEN @ \cup {Application(t, kept)} ELSE @]
  /\ UNCHANGED <<kind, sent, told>>

Next == Submitted \/ Request \/ Answers \/ KidStarts \/ KidCalls \/ KidEnds \/ ToolEnds \/ Goes \/ Compacts \/ Over \/ Retired
        \/ Hears \/ Looks \/ AsksTasks \/ Offered \/ Allowed
Spec == Init /\ [][Next]_vars

(* What other agents sent goes into the root's own conversation, never into that of an agent it started. *)
OwnRoot == (\A x \in taken : tools[x.hook].root) /\ \A t \in sent : tools[t].root

(* Only what was in a request of the root is reported applied, although the runner sees requests late   *)
(* and a compaction may swallow what a hook returned.                                                    *)
AppliedIsTrue == told \subseteq sent

(* Claude Code's and OpenClaw's hooks leave room in the window: a batch went in only beside all that was known then to *)
(* be in the next request, every result whose hook had looked and every batch taken.                     *)
Fits == Is("claude") \/ Is("openclaw") => \A x \in taken : x.full <= Room
=============================================================================
