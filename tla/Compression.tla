----------------------------- MODULE Compression -----------------------------
(***************************************************************************)
(* Compression of a session's conversation (session-engine.ts, compress;   *)
(* custom-compress.ts, sqlite-compress.ts): its older tool traffic is taken *)
(* out of the files of the native program, or the program compacts the     *)
(* conversation itself.  A receipt says what became of each request; it is *)
(* what keeps turns and controls out of the session, in this engine and in *)
(* those after it.                                                         *)
(***************************************************************************)
EXTENDS Naturals, Sequences, FiniteSets

CONSTANTS Operations, MaxTurns, MaxLosses

VARIABLES kind, log, rec, turns, op, receipts, active, compact, told, hist

vars == <<kind, log, rec, turns, op, receipts, active, compact, told, hist>>

Modes == {[mode |-> "native", keep |-> 0], [mode |-> "custom", keep |-> 0], [mode |-> "custom", keep |-> 1]}
NoReceipt == [state |-> "none", req |-> [mode |-> "none", keep |-> 0]]
NoOp == [i |-> 0, at |-> "none", req |-> NoReceipt.req, old |-> FALSE, seen |-> <<>>, state |-> "none"]
N == Cardinality({n \in DOMAIN turns : turns[n] # "none"}) + 1

Init ==
  /\ kind \in {"jsonl", "sqlite"} /\ log = <<>>
  /\ rec = [up |-> TRUE, closing |-> FALSE, live |-> TRUE, status |-> "idle", ctl |-> "none", cur |-> 0,
            task |-> 0]
  /\ turns = [n \in 1 .. MaxTurns |-> "none"] /\ op = NoOp
  /\ receipts = [i \in Operations |-> NoReceipt] /\ active = {} /\ told = {}
  /\ compact = [at |-> "none", of |-> 0]
  /\ hist = [sent |-> {}, changed |-> {}, words |-> {}, overrun |-> FALSE, losses |-> 0]
Lose == /\ hist.losses < MaxLosses /\ hist' = [hist EXCEPT !.losses = @ + 1]

(* assertCompressionIdle: no control is running, and the outcome of every compression is known. *)
Blocked == \E i \in Operations : receipts[i].state \in {"running", "unknown"}
Free == rec.up /\ rec.ctl = "none" /\ ~ Blocked
Running == {n \in DOMAIN turns : turns[n] \in {"running", "wrote"}}

(* Turns.  A detached session is attached to a fresh runtime first, as a control. *)
Starts(session, n) ==
  /\ rec' = [session EXCEPT !.status = "running", !.cur = n, !.task = n]
  /\ turns' = [turns EXCEPT ![n] = "running"]
  /\ hist' = [hist EXCEPT !.overrun = @ \/ Running # {}]
Send ==
  /\ Free /\ rec.status = "idle" /\ N <= MaxTurns
  /\ IF rec.live THEN Starts(rec, N)
     ELSE rec' = [rec EXCEPT !.ctl = "send"] /\ UNCHANGED <<turns, hist>>
  /\ UNCHANGED <<kind, log, op, receipts, active, compact, told>>
Recover ==
  /\ Free /\ ~ rec.live /\ rec.status \in {"idle", "paused"} /\ rec' = [rec EXCEPT !.ctl = "recover"]
  /\ UNCHANGED <<kind, log, turns, op, receipts, active, compact, told, hist>>
Reattached ==
  LET attached == [rec EXCEPT !.live = TRUE, !.status = "idle", !.ctl = "none"]
  IN /\ rec.up /\ rec.ctl \in {"send", "recover"}
     /\ IF rec.ctl = "send" /\ N <= MaxTurns THEN Starts(attached, N)
        ELSE rec' = attached /\ UNCHANGED <<turns, hist>>
     /\ UNCHANGED <<kind, log, op, receipts, active, compact, told>>
(* What the native program writes down of a turn: its tool traffic and its words. *)
Writes(n) ==
  /\ turns[n] = "running" /\ turns' = [turns EXCEPT ![n] = "wrote"]
  /\ \E traffic \in {<<"call", "result">>, <<"tool">>} :
       log' = log \o [j \in 1 .. Len(traffic) |-> [kind |-> traffic[j], of |-> n]]
                  \o <<[kind |-> "text", of |-> n]>>
  /\ hist' = [hist EXCEPT !.words = @ \cup {n}]
  /\ UNCHANGED <<kind, rec, op, receipts, active, compact, told>>
TurnEnds(n) ==
  /\ turns[n] \in {"running", "wrote", "stopped"} /\ turns' = [turns EXCEPT ![n] = "over"]
  /\ rec' = [rec EXCEPT !.cur = IF @ = n THEN 0 ELSE @, !.task = IF @ = n THEN 0 ELSE @,
                        !.status = IF rec.cur = n /\ rec.up THEN "idle" ELSE @]
  /\ UNCHANGED <<kind, log, op, receipts, active, compact, told, hist>>

(* Controls: a switch or an injection, and the interrupt of a turn, which the adapter may ignore. *)
Control ==
  /\ Free /\ rec.live /\ rec.status = "idle" /\ rec' = [rec EXCEPT !.ctl = "switch"]
  /\ UNCHANGED <<kind, log, turns, op, receipts, active, compact, told, hist>>
Controlled ==
  /\ rec.ctl = "switch" /\ rec' = [rec EXCEPT !.ctl = "none"]
  /\ UNCHANGED <<kind, log, turns, op, receipts, active, compact, told, hist>>
Interrupt ==
  /\ Free /\ rec.live /\ rec.cur # 0 /\ rec' = [rec EXCEPT !.ctl = "interrupt"]
  /\ UNCHANGED <<kind, log, turns, op, receipts, active, compact, told, hist>>
Interrupted(obeyed) ==
  /\ rec.up /\ rec.ctl = "interrupt"
  /\ rec' = [rec EXCEPT !.ctl = "none", !.status = "idle", !.cur = 0, !.live = obeyed]
  /\ IF obeyed
     THEN /\ turns' = [n \in DOMAIN turns |-> IF n = rec.cur THEN "stopped" ELSE turns[n]] /\ UNCHANGED hist
     ELSE UNCHANGED turns /\ Lose
  /\ UNCHANGED <<kind, log, op, receipts, active, compact, told>>
Terminate ==
  /\ Free /\ rec.status \in {"idle", "running", "paused"}
  /\ rec' = [rec EXCEPT !.status = "terminated", !.cur = 0]
  /\ turns' = [n \in DOMAIN turns |-> IF n = rec.cur THEN "stopped" ELSE turns[n]]
  /\ UNCHANGED <<kind, log, op, receipts, active, compact, told, hist>>

(* compress: a request that has a receipt is answered from it; another needs an idle, settled session. *)
Observed(i) == IF receipts[i].state = "running" /\ i \notin active THEN "unknown" ELSE receipts[i].state
Again(i, req) ==
  /\ rec.up /\ receipts[i].state # "none" /\ receipts[i].req = req
  /\ told' = told \cup {<<i, Observed(i)>>}
  /\ UNCHANGED <<kind, log, rec, turns, op, receipts, active, compact, hist>>
Compress(i, req) ==
  /\ receipts[i].state = "none" /\ Free /\ rec.live /\ rec.status = "idle" /\ rec.cur = 0 /\ rec.task = 0
  /\ req.mode = "custom" => log # <<>>
  /\ receipts' = [receipts EXCEPT ![i] = [state |-> "running", req |-> req]] /\ active' = active \cup {i}
  /\ op' = [NoOp EXCEPT !.i = i, !.at = "tokens", !.req = req]
  /\ UNCHANGED <<kind, log, rec, turns, compact, told, hist>>
(* The context is described, for two seconds at most; then the connection or the authority may be gone. *)
Settles(state) == op' = [op EXCEPT !.at = "settled", !.state = state]
Dispatch ==
  /\ op.at = "tokens" /\ rec.up /\ ~ op.old
  /\ op' = [op EXCEPT !.at = "dispatched"]
  /\ compact' = IF op.req.mode = "native" THEN [at |-> "asked", of |-> op.i] ELSE compact
  /\ hist' = [hist EXCEPT !.sent = @ \cup {op.i}]
  /\ UNCHANGED <<kind, log, rec, turns, receipts, active, told>>
NotDispatched ==
  /\ op.at = "tokens" /\ Settles("failed")
  /\ UNCHANGED <<kind, log, rec, turns, receipts, active, compact, told, hist>>

(* dropToolIO: words stay, and so does the tool traffic since the last calls; what is dropped by a file   *)
(* is dropped from what was read of it, by a database from what is in it.                                  *)
Tool(r) == r.kind # "text"
Calls(s) == {j \in DOMAIN s : s[j].kind = "call"}
LastCalls(s, keep) == {j \in Calls(s) : Cardinality({k \in Calls(s) : k >= j}) <= keep}
Recent(s, k, keep) ==
  /\ keep > 0
  /\ IF Calls(s) # {} THEN \E j \in LastCalls(s, keep) : j <= k
     ELSE kind = "sqlite" \/ Cardinality({j \in k .. Len(s) : Tool(s[j])}) <= keep
Dropped(s, keep) == {s[k] : k \in {j \in DOMAIN s : Tool(s[j]) /\ ~ Recent(s, j, keep)}}
Without(s, rows) == SelectSeq(s, LAMBDA r : r \notin rows)
Custom(at) == op.at = at /\ op.req.mode = "custom"
Read ==
  /\ Custom("dispatched") /\ op' = [op EXCEPT !.at = "read", !.seen = log]
  /\ UNCHANGED <<kind, log, rec, turns, receipts, active, compact, told, hist>>
Backup ==
  /\ Custom("read")
  /\ IF Dropped(op.seen, op.req.keep) = {} THEN Settles("noop") ELSE op' = [op EXCEPT !.at = "backed"]
  /\ UNCHANGED <<kind, log, rec, turns, receipts, active, compact, told, hist>>
Replace ==
  LET rows == Dropped(op.seen, op.req.keep)
  IN /\ Custom("backed") /\ log' = Without(IF kind = "jsonl" THEN op.seen ELSE log, rows)
     /\ Settles("succeeded") /\ hist' = [hist EXCEPT !.changed = @ \cup {op.i}]
     /\ UNCHANGED <<kind, rec, turns, receipts, active, compact, told>>

(* Native: the program compacts when it gets to it, also when nobody waits for its answer any more. *)
Compacts(needed) ==
  /\ compact.at = "asked" /\ compact' = [compact EXCEPT !.at = IF needed THEN "done" ELSE "not needed"]
  /\ log' = IF needed THEN SelectSeq(log, LAMBDA r : ~ Tool(r)) ELSE log
  /\ hist' = [hist EXCEPT !.changed = IF needed THEN @ \cup {compact.of} ELSE @]
  /\ UNCHANGED <<kind, rec, turns, op, receipts, active, told>>
Answered ==
  /\ op.at = "dispatched" /\ op.req.mode = "native" /\ compact.at \in {"done", "not needed"}
  /\ Settles(IF compact.at = "done" THEN "succeeded" ELSE "noop") /\ compact' = [at |-> "none", of |-> 0]
  /\ UNCHANGED <<kind, log, rec, turns, receipts, active, told, hist>>
(* An error on the way, an answer that does not say whether it was applied, or none in time. *)
Unverified ==
  /\ op.at \in {"dispatched", "read", "backed"} /\ Settles("unknown")
  /\ UNCHANGED <<kind, log, rec, turns, receipts, active, compact, told, hist>>
Finish ==
  /\ op.at = "settled" /\ op' = NoOp /\ active' = active \ {op.i}
  /\ rec' = IF op.state = "unknown" /\ rec.up /\ ~ op.old THEN [rec EXCEPT !.status = "paused"] ELSE rec
  /\ \/ /\ receipts' = [receipts EXCEPT ![op.i].state = op.state]
        /\ told' = IF op.old THEN told ELSE told \cup {<<op.i, op.state>>}
        /\ UNCHANGED hist
     \/ Lose /\ UNCHANGED <<receipts, told>>
  /\ UNCHANGED <<kind, log, turns, compact>>

(* The engine is disposed: it waits for the operation, for a while; the next one finds the session        *)
(* detached.  Or the process dies.                                                                         *)
Dispose ==
  /\ rec.up /\ hist.losses < MaxLosses /\ rec' = [rec EXCEPT !.up = FALSE, !.closing = TRUE]
  /\ hist' = [hist EXCEPT !.losses = @ + 1]
  /\ UNCHANGED <<kind, log, turns, op, receipts, active, compact, told>>
Stopped == [n \in DOMAIN turns |-> IF turns[n] \in {"running", "wrote"} THEN "stopped" ELSE turns[n]]
Gone(session) == [session EXCEPT !.up = TRUE, !.closing = FALSE, !.live = FALSE, !.cur = 0, !.task = 0,
                                 !.status = IF @ = "terminated" THEN @ ELSE "paused"]
NextEngine ==
  /\ rec.closing /\ rec' = [Gone(rec) EXCEPT !.ctl = IF @ = "switch" THEN @ ELSE "none"]
  /\ turns' = Stopped /\ op' = [op EXCEPT !.old = op.at # "none"]
  /\ UNCHANGED <<kind, log, receipts, active, compact, told, hist>>
Crash ==
  /\ Lose /\ rec' = [Gone(rec) EXCEPT !.ctl = "none"] /\ turns' = Stopped
  /\ op' = NoOp /\ active' = {}
  /\ UNCHANGED <<kind, log, receipts, compact, told>>

Next ==
  \/ Send \/ Recover \/ Reattached \/ Control \/ Controlled \/ Interrupt \/ Terminate
  \/ \E obeyed \in BOOLEAN : Interrupted(obeyed)
  \/ \E n \in DOMAIN turns : Writes(n) \/ TurnEnds(n)
  \/ \E i \in Operations, req \in Modes : Again(i, req) \/ Compress(i, req)
  \/ Dispatch \/ NotDispatched \/ Read \/ Backup \/ Replace \/ Answered \/ Unverified \/ Finish
  \/ \E needed \in BOOLEAN : Compacts(needed)
  \/ Dispose \/ NextEngine \/ Crash
Spec == Init /\ [][Next]_vars

(* While a compression may still change the conversation, by an engine that was disposed or a program     *)
(* nobody waits for too, no turn runs and nothing is controlled, unless a turn ignored its interrupt.      *)
Touching == op.at \in {"dispatched", "read", "backed"} \/ compact.at = "asked"
Alone == Touching => (Running = {} \/ hist.overrun) /\ rec.ctl = "none"

(* A receipt, and every answer given, is what happened; an answer that is not "running" stays. *)
ReceiptIsTrue ==
  /\ \A answer \in told \cup {<<i, receipts[i].state>> : i \in Operations} :
       /\ answer[2] = "succeeded" => answer[1] \in hist.changed
       /\ answer[2] = "noop" => answer[1] \in hist.sent \ hist.changed
       /\ answer[2] = "failed" => answer[1] \notin hist.sent
  /\ \A s, t \in told : s[1] = t[1] /\ s[2] # "running" /\ t[2] # "running" => s = t

(* No words are lost, of a turn that ran meanwhile either, and the latest tool calls are kept as asked. *)
WordsStay ==
  hist.overrun \/
  /\ \A n \in hist.words : \E j \in DOMAIN log : log[j] = [kind |-> "text", of |-> n]
  /\ op.at = "settled" /\ op.state = "succeeded" /\ op.req.mode = "custom" =>
       \A j \in LastCalls(op.seen, op.req.keep) : \E k \in DOMAIN log : log[k] = op.seen[j]
=============================================================================
