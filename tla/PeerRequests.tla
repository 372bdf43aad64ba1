---------------------------- MODULE PeerRequests ----------------------------
(***************************************************************************)
(* Where the bridge's part runs inside the native program and touches what *)
(* it does: mail put into a request to the model's provider on its way     *)
(* (opencode-peer-context.ts, hermes-peer-context.ts), and the tool for    *)
(* talking to other agents, which the model calls and the bridge carries   *)
(* out (opencode-peer-context.ts, claude-peer-context.ts,                  *)
(* copilot-peer-context.ts).  The program's turn may end at any moment;    *)
(* agents it started make requests and calls too; a request may be tried   *)
(* again, and other plugins change it.                                     *)
(***************************************************************************)
EXTENDS Naturals, FiniteSets, Sequences

CONSTANTS MaxRequests, MaxCalls, MaxRuns

VARIABLES kind, source, requests, calls, runs

vars == <<kind, source, requests, calls, runs>>

(* kind.final: nothing of the owner's changes a request after the bridge's part. *)
Kinds == [at : {"opencode"}, part : {"mail"}, final : BOOLEAN] \cup [at : {"hermes"}, part : {"mail"}, final : {TRUE}]
         \cup [at : {"opencode", "claude", "copilot"}, part : {"tools"}, final : {TRUE}]

Init ==
  /\ kind \in Kinds
  /\ source = [live |-> TRUE, kids |-> 0]
  /\ requests = <<>> /\ calls = <<>> /\ runs = <<>>

Is(k) == kind.at = k

(* The turn is over, by itself or cut: what runs in the program hears of it at once. *)
Ends == source.live /\ source' = [source EXCEPT !.live = FALSE] /\ UNCHANGED <<kind, requests, calls, runs>>

(* ---- requests to the provider ---- *)

Request(root) == [root |-> root, marked |-> FALSE, st |-> "headers", rows |-> "none", granted |-> FALSE,
                  aborted |-> FALSE, tries |-> 0, wire |-> <<>>, told |-> {}]
In(q, st) == requests[q].st = st
Set(q, f, v) == requests' = [requests EXCEPT ![q][f] = v]
Becomes(q, r) == requests' = [requests EXCEPT ![q] = r]

Asks ==
  /\ kind.part = "mail" /\ Len(requests) < MaxRequests
  /\ \E root \in BOOLEAN : requests' = Append(requests, Request(root))
  /\ UNCHANGED <<kind, source, calls, runs>>

(* chat.headers: a request of the root's own message is marked, after a look at the session.  Hermes has *)
(* the request itself.                                                                                   *)
Headers ==
  /\ \E q \in DOMAIN requests :
       /\ In(q, "headers")
       /\ Becomes(q, [requests[q] EXCEPT !.st = "made", !.marked = requests[q].root /\ source.live])
  /\ UNCHANGED <<kind, source, calls, runs>>

Aborts ==
  /\ \E q \in DOMAIN requests :
       ~ requests[q].aborted /\ Is("opencode") /\ requests[q].st \notin {"headers", "sent"} /\ Set(q, "aborted", TRUE)
  /\ UNCHANGED <<kind, source, calls, runs>>

(* Hermes knows whose a request is by its thread and session, OpenCode by the mark alone. *)
Valid(q) == source.live /\ ~ requests[q].aborted /\ (Is("hermes") => requests[q].root)

(* next: the request goes on.  A fetch of the owner's may have its own way with it. *)
Goes(q, r, rows) ==
  \E w \in IF kind.final \/ rows = "none" THEN {rows} ELSE {rows, "none"} :
    Becomes(q, [r EXCEPT !.st = IF r.granted /\ rows # "none" THEN "telling" ELSE "sent",
                         !.rows = rows, !.wire = Append(@, [rows |-> w, granted |-> r.granted])])

(* withPeerRequest takes the mark, so that a second try finds none; prepare of Hermes is asked anew. *)
Fetch ==
  /\ \E q \in DOMAIN requests :
       LET r == [requests[q] EXCEPT !.marked = FALSE, !.tries = @ + 1] IN
       /\ In(q, "made")
       /\ IF requests[q].marked /\ Valid(q) THEN Becomes(q, [r EXCEPT !.st = "asking"]) ELSE Goes(q, r, "none")
  /\ UNCHANGED <<kind, source, calls, runs>>

(* The program tries the same request once more. *)
Again ==
  /\ \E q \in DOMAIN requests :
       /\ In(q, "sent") /\ requests[q].tries = 1
       /\ Becomes(q, [requests[q] EXCEPT !.st = "made", !.rows = "none", !.granted = FALSE,
                                           !.marked = Is("hermes") /\ requests[q].root])
  /\ UNCHANGED <<kind, source, calls, runs>>

(* The bridge answers with a batch or with nothing; the source may have ended meanwhile. *)
Offered ==
  /\ \E q \in DOMAIN requests :
       /\ In(q, "asking")
       /\ \/ Goes(q, requests[q], "none")
          \/ /\ Valid(q)
             /\ Becomes(q, [requests[q] EXCEPT !.rows = "whole", !.st = IF Is("hermes") THEN "prepared" ELSE "offered",
                                               !.told = IF kind.final THEN @ ELSE @ \cup {"context_hook"}])
  /\ UNCHANGED <<kind, source, calls, runs>>

(* authorize: granted or refused, and looked at again. *)
Authorize ==
  /\ \E q \in DOMAIN requests :
       /\ In(q, "offered")
       /\ \/ Goes(q, requests[q], "none")
          \/ Valid(q) /\ Becomes(q, [requests[q] EXCEPT !.granted = TRUE, !.st = "granted"])
  /\ UNCHANGED <<kind, source, calls, runs>>
Granted ==
  /\ \E q \in DOMAIN requests : In(q, "granted") /\ Goes(q, requests[q], IF Valid(q) THEN "whole" ELSE "none")
  /\ UNCHANGED <<kind, source, calls, runs>>

(* Only what the program's own transport was given is said to be in the request. *)
Tells ==
  /\ \E q \in DOMAIN requests :
       /\ In(q, "telling")
       /\ \E e \in {{}} \cup (IF kind.final THEN {{"provider_payload"}} ELSE {}) :
            Becomes(q, [requests[q] EXCEPT !.st = "sent", !.told = @ \cup e])
  /\ UNCHANGED <<kind, source, calls, runs>>

(* Hermes: other middleware sees the request in between and may drop or rewrite its rows. *)
Others ==
  /\ \E q \in DOMAIN requests, rows \in {"whole", "moved", "gone"} :
       In(q, "prepared") /\ Becomes(q, [requests[q] EXCEPT !.st = "executing", !.rows = rows])
  /\ UNCHANGED <<kind, source, calls, runs>>

(* withdraw: our exact rows, or the request cannot go at all. *)
Withdraw(q) ==
  IF requests[q].rows = "whole" THEN Goes(q, requests[q], "none") ELSE Set(q, "st", "raised")

(* execute: what is still in it is reported before the one call of the provider. *)
Execute ==
  /\ \E q \in DOMAIN requests :
       /\ In(q, "executing")
       /\ CASE ~ Valid(q) -> Withdraw(q)
            [] Valid(q) /\ requests[q].rows = "gone" -> Goes(q, requests[q], "none")
            [] OTHER -> \/ Withdraw(q)
                        \/ Becomes(q, [requests[q] EXCEPT !.st = "calling", !.granted = TRUE,
                                                          !.told = @ \cup {"provider_payload"}])
  /\ UNCHANGED <<kind, source, calls, runs>>
Calls ==
  /\ \E q \in DOMAIN requests :
       In(q, "calling") /\ Becomes(q, [requests[q] EXCEPT !.st = "sent", !.wire = Append(@, [rows |-> requests[q].rows, granted |-> TRUE])])
  /\ UNCHANGED <<kind, source, calls, runs>>

Provider == Headers \/ Aborts \/ Fetch \/ Again \/ Offered \/ Authorize \/ Granted \/ Tells \/ Others \/ Execute \/ Calls

(* ---- the model's calls of the tool ---- *)

Call(root) == [root |-> root, known |-> FALSE, admitted |-> FALSE, used |-> FALSE, open |-> TRUE,
               carried |-> 0, foreign |-> 0]
Run(c, own) == [call |-> c, own |-> own, st |-> "enters", kids |-> 0]
With(r, st) == runs' = [runs EXCEPT ![r].st = st]
Now(r, st) == runs[r].st = st
Busy(c) == \E r \in DOMAIN runs : runs[r].call = c /\ runs[r].st \notin {"done", "failed"}

(* The model, or an agent it started, calls; an agent starts and ends. *)
ModelCalls ==
  /\ kind.part = "tools" /\ Len(calls) < MaxCalls
  /\ \E root \in BOOLEAN : (root \/ ~ Is("copilot") \/ source.kids % 2 = 1) /\ calls' = Append(calls, Call(root))
  /\ UNCHANGED <<kind, source, requests, runs>>
Kid ==
  /\ kind.part = "tools" /\ Is("copilot") /\ source.kids < 2 /\ source' = [source EXCEPT !.kids = @ + 1]
  /\ UNCHANGED <<kind, requests, calls, runs>>

(* record, tool.execution_start or tool.execute.before: the program says what was called.  Claude's says  *)
(* only the root's, OpenCode's is refused for any other.                                                  *)
Records ==
  /\ \E c \in DOMAIN calls :
       /\ ~ calls[c].known /\ calls[c].open /\ source.live /\ (Is("copilot") \/ calls[c].root)
       /\ calls' = [calls EXCEPT ![c].known = TRUE]
  /\ UNCHANGED <<kind, source, requests, runs>>

(* The program runs the tool, perhaps twice and with other words than the model's.  Copilot runs one call *)
(* at a time.                                                                                             *)
Runs ==
  /\ Len(runs) < MaxRuns
  /\ \E c \in DOMAIN calls, own \in BOOLEAN :
       calls[c].open /\ (Is("copilot") => ~ Busy(c)) /\ runs' = Append(runs, Run(c, own))
  /\ UNCHANGED <<kind, source, requests, calls>>

(* The first look: OpenCode's call and session, Claude's hook, Copilot's tool. *)
Usable(r) ==
  LET c == calls[runs[r].call] IN
  /\ source.live /\ c.known /\ runs[r].own /\ ~ c.used
  /\ CASE Is("claude") -> ~ c.admitted [] Is("copilot") -> c.root [] OTHER -> TRUE

Enters ==
  /\ \E r \in DOMAIN runs :
       /\ Now(r, "enters")
       /\ IF ~ Usable(r) THEN With(r, "failed") /\ UNCHANGED calls
          ELSE /\ runs' = [runs EXCEPT ![r].st = "looked", ![r].kids = source.kids]
               /\ calls' = IF Is("claude") THEN [calls EXCEPT ![runs[r].call].admitted = TRUE] ELSE calls
  /\ UNCHANGED <<kind, source, requests>>

(* The second look, when the call becomes used: after OpenCode's own look at the session, Claude's own    *)
(* permission, Copilot's word on its agents.                                                              *)
Stands(r) ==
  LET c == calls[runs[r].call] IN
  CASE Is("opencode") -> source.live /\ ~ c.used
    [] Is("claude") -> source.live /\ c.admitted /\ ~ c.used /\ runs[r].own
    [] Is("copilot") -> source.live /\ c.open /\ source.kids = runs[r].kids /\ source.kids % 2 = 0

Uses ==
  /\ \E r \in DOMAIN runs :
       /\ Now(r, "looked")
       /\ IF ~ Stands(r) THEN With(r, "failed") /\ UNCHANGED calls
          ELSE /\ calls' = [calls EXCEPT ![runs[r].call].used = TRUE]
               /\ With(r, IF Is("opencode") THEN "permits" ELSE "invokes")
  /\ UNCHANGED <<kind, source, requests>>

(* Another hook of the owner's may give a call other words after Claude's was let in. *)
Rewrites ==
  /\ \E r \in DOMAIN runs : Is("claude") /\ Now(r, "looked") /\ runs[r].own /\ runs' = [runs EXCEPT ![r].own = FALSE]
  /\ UNCHANGED <<kind, source, requests, calls>>

(* OpenCode asks for the permission itself, and looks once more after it. *)
Permission ==
  /\ \E r \in DOMAIN runs :
       /\ Now(r, "permits")
       /\ \/ With(r, "failed")
          \/ source.live /\ With(r, "invokes")
  /\ UNCHANGED <<kind, source, requests, calls>>

(* The bridge carries it out, and the answer comes or is lost. *)
Invokes ==
  /\ \E r \in DOMAIN runs :
       /\ Now(r, "invokes") /\ With(r, "waits")
       /\ calls' = [calls EXCEPT ![runs[r].call].carried = @ + 1,
                                 ![runs[r].call].foreign = IF runs[r].own THEN @ ELSE @ + 1]
  /\ UNCHANGED <<kind, source, requests>>
Result ==
  /\ \E r \in DOMAIN runs :
       /\ Now(r, "waits")
       /\ \/ With(r, "failed")
          \/ source.live /\ With(r, "done")
  /\ UNCHANGED <<kind, source, requests, calls>>

(* The call is over for the program once a run of it is. *)
Closes ==
  /\ \E c \in DOMAIN calls :
       /\ calls[c].open /\ ~ Busy(c) /\ (\E r \in DOMAIN runs : runs[r].call = c)
       /\ calls' = [calls EXCEPT ![c].open = FALSE, ![c].known = IF Is("copilot") THEN FALSE ELSE @]
  /\ UNCHANGED <<kind, source, requests, runs>>

Tool == ModelCalls \/ Kid \/ Records \/ Runs \/ Enters \/ Uses \/ Rewrites \/ Permission \/ Invokes \/ Result \/ Closes

Next == Ends \/ Asks \/ Provider \/ Tool
Spec == Init /\ [][Next]_vars

(* Every request of the program is passed on once for every time it was tried, with mail or without,      *)
(* unless what was put into it could not be taken out again.                                              *)
PassedOn == \A q \in DOMAIN requests :
  /\ requests[q].st \in {"sent", "telling"} => Len(requests[q].wire) = requests[q].tries
  /\ Len(requests[q].wire) <= requests[q].tries

Mailed(q) == {i \in DOMAIN requests[q].wire : requests[q].wire[i].rows \in {"whole", "moved"}}

(* No mail in a request of another agent, nor in one the bridge has not granted. *)
GrantedOnly == \A q \in DOMAIN requests :
  \A i \in Mailed(q) : requests[q].root /\ requests[q].wire[i].granted

(* "In the provider's request" is said only of what was in it, or is by the next step. *)
PayloadIsTrue == \A q \in DOMAIN requests :
  "provider_payload" \in requests[q].told => In(q, "calling") \/ Mailed(q) # {}

(* A call of the root is carried out once at most, in the model's own words, however often it is run. *)
CarriedOnce == \A c \in DOMAIN calls :
  calls[c].carried <= 1 /\ calls[c].foreign = 0 /\ (calls[c].carried > 0 => calls[c].root)
=============================================================================
