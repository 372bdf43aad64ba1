----------------------------- MODULE HermesTurn -----------------------------
(***************************************************************************)
(* A session of the Hermes adapter: one native process per turn, behind a  *)
(* bridge that runs inside it, and the native store of conversations,      *)
(* which is asked before every resumed turn, after a completed one and     *)
(* after a stop.  What the store said last is the session's checkpoint,    *)
(* from which another daemon may take the session over.  The program is    *)
(* external: it may open another conversation, move its conversation on    *)
(* to a child, or die anywhere; its user may write to or remove one.       *)
(***************************************************************************)
EXTENDS Naturals, Sequences, FiniteSets

CONSTANTS
  MaxTurns,  \* bound: turns sent
  MaxUser,   \* bound: what the user does to the store
  MaxLosses  \* bound: deaths of the daemon
NoCheckpoint == [conv |-> 0, obs |-> 0, settled |-> FALSE]

VARIABLES
  session, \* the adapter's session: its conversation and what was observed of it
  turns,   \* one record per process
  db,      \* the native store
  stopObs, \* the observation a confirmed stop started
  saved,   \* the checkpoint in the engine's row
  user, losses

vars == <<session, turns, db, stopObs, saved, user, losses>>

N == Len(turns)
Conversations == 1 .. 2 * MaxTurns   \* that process n made, and n + MaxTurns its child
Nobody == [up |-> FALSE, step |-> "idle", conv |-> 0, home |-> FALSE, obs |-> 0, gen |-> 0, last |-> 0,
           looked |-> 0]
NoStop == [turn |-> 0, gen |-> 0, conv |-> 0, seen |-> 0]
Settled(t) == t.final # "none"

Init ==
  /\ session = [Nobody EXCEPT !.up = TRUE] /\ turns = <<>> /\ stopObs = NoStop /\ saved = NoCheckpoint
  /\ db = [c \in Conversations |-> [words |-> {}, extra |-> 0, ended |-> FALSE, child |-> 0]]
  /\ user = 0 /\ losses = 0

Size(c) == Cardinality(db[c].words) + db[c].extra
(* observeHermesSession: the messages of a conversation that is there, closed, and its own tip; else 0. *)
Observed(c) == IF db[c].ended /\ db[c].child = 0 THEN Size(c) ELSE 0
Stopped(s) == s.last = 0 \/ ~ turns[s.last].tree
(* recoveryCheckpoint and captureCheckpoint. *)
Checkpoint(s, settled) ==
  IF s.obs # 0 /\ Stopped(s) THEN [conv |-> s.conv, obs |-> s.obs, settled |-> settled] ELSE NoCheckpoint
Persists ==
  /\ session.up /\ session.step = "idle" /\ saved' = Checkpoint(session, TRUE) /\ saved' # saved
  /\ UNCHANGED <<session, turns, db, stopObs, user, losses>>

(* send; the row was unsettled before the adapter is called. *)
Send ==
  /\ session.up /\ session.step = "idle" /\ session.gen < MaxTurns
  /\ saved' = Checkpoint(session, FALSE)
  /\ session' = [session EXCEPT !.step = IF session.conv = 0 THEN "go" ELSE "look", !.gen = @ + 1,
                                !.looked = 0]
  /\ UNCHANGED <<turns, db, stopObs, user, losses>>
Look ==
  /\ session.up /\ session.step = "look"
  /\ \E seen \in {0, Observed(session.conv)} : session' = [session EXCEPT !.step = "go", !.looked = seen]
  /\ UNCHANGED <<turns, db, stopObs, saved, user, losses>>
MayGo(s) == s.conv = 0 \/ (s.looked # 0 /\ s.home /\ s.looked >= s.obs)
Process(s) ==
  [asked |-> s.conv, conv |-> 0, leader |-> TRUE, tree |-> TRUE, hint |-> 0, stop |-> FALSE, result |-> "none",
   saw |-> {}, prompted |-> FALSE, final |-> "none"]
(* The rest of sendNative, and run up to the process; there may be no such program. *)
Go ==
  /\ session.up /\ session.step = "go"
  /\ \/ /\ MayGo(session) /\ turns' = Append(turns, Process(session))
        /\ session' = [session EXCEPT !.step = "run", !.obs = 0, !.last = N + 1]
     \/ /\ session' = [session EXCEPT !.step = "idle", !.obs = IF MayGo(session) THEN 0 ELSE @] /\ UNCHANGED turns
  /\ UNCHANGED <<db, stopObs, saved, user, losses>>

Set(t) == turns' = [turns EXCEPT ![N] = t]
Heard == session.up /\ session.step = "run" /\ ~ Settled(turns[N])
(* observe, in the process: the conversation is told, and the prompt is given to no other than the asked one. *)
MayPrompt(t, c) == t.asked # 0 => c = t.asked /\ Size(c) # 0
Learns(s, c, home) ==
  IF ~ Heard THEN s ELSE [s EXCEPT !.home = home, !.conv = IF home /\ @ \in {0, c} THEN c ELSE @]
(* recordRecoveryHint: once the conversation is known. *)
Hint(s, c, home) == IF Heard /\ home /\ s.conv \in {0, c} THEN c ELSE 0
Opens(c, home) ==
  /\ N > 0 /\ turns[N].leader /\ turns[N].conv = 0
  /\ c = N \/ (c = turns[N].asked /\ (Size(c) # 0 \/ db[c].ended))
  /\ LET t == turns[N]
     IN  /\ Set([t EXCEPT !.conv = c, !.hint = Hint(session, c, home), !.prompted = MayPrompt(t, c),
                          !.saw = IF MayPrompt(t, c) THEN {w[1] : w \in db[c].words} ELSE {}])
         /\ db' = IF MayPrompt(t, c)
                  THEN [db EXCEPT ![c].words = @ \union {<<N, "prompt">>}, ![c].ended = FALSE] ELSE db
         /\ session' = Learns(session, c, home)
  /\ UNCHANGED <<stopObs, saved, user, losses>>
(* Native compression: the conversation goes on in a child. *)
Moves ==
  /\ N > 0 /\ turns[N].leader /\ turns[N].prompted /\ turns[N].conv <= MaxTurns /\ turns[N].result = "none"
  /\ db[N + MaxTurns].words = {} /\ db[turns[N].conv].child = 0
  /\ db' = [db EXCEPT ![turns[N].conv].child = N + MaxTurns, ![turns[N].conv].ended = TRUE,
                      ![N + MaxTurns].words = db[turns[N].conv].words, ![N + MaxTurns].extra = db[turns[N].conv].extra]
  /\ Set([turns[N] EXCEPT !.conv = N + MaxTurns]) /\ UNCHANGED <<session, stopObs, saved, user, losses>>
(* hermes_result names the conversation as it is at the end; a refused prompt's does not. *)
Reports(result) ==
  /\ N > 0 /\ turns[N].leader /\ turns[N].conv # 0 /\ turns[N].result = "none"
  /\ result = "completed" => turns[N].prompted
  /\ Set([turns[N] EXCEPT !.result = result])
  /\ db' = IF turns[N].prompted THEN [db EXCEPT ![turns[N].conv].words = @ \union {<<N, "answer">>}] ELSE db
  /\ session' = IF Heard /\ turns[N].prompted THEN [session EXCEPT !.conv = turns[N].conv] ELSE session
  /\ UNCHANGED <<stopObs, saved, user, losses>>
(* However its process goes, the store may or may not be left with a closed conversation. *)
Left(t) ==
  \/ UNCHANGED db
  \/ t.prompted /\ t.leader /\ db' = [db EXCEPT ![t.conv].ended = TRUE]
(* The process closes; descendants may live on. *)
Final(t, code) == IF t.result = "completed" /\ code = 0 THEN "completed" ELSE "failed"
Exits(code) ==
  /\ N > 0 /\ turns[N].leader /\ Left(turns[N])
  /\ \E tree \in BOOLEAN :
       LET final == Final(turns[N], code)
           looks == Heard /\ final = "completed" /\ session.home
       IN  /\ Set([turns[N] EXCEPT !.leader = FALSE, !.tree = tree,
                                   !.final = IF ~ Heard \/ looks THEN @ ELSE final])
           /\ session' = IF ~ Heard THEN session ELSE [session EXCEPT !.step = IF looks THEN "observe" ELSE "idle"]
  /\ UNCHANGED <<stopObs, saved, user, losses>>
(* The completed turn's end waits for the store's word, if it has one. *)
Observes ==
  /\ session.up /\ session.step = "observe"
  /\ \E seen \in {0, Observed(session.conv)} : session' = [session EXCEPT !.step = "idle", !.obs = seen]
  /\ Set([turns[N] EXCEPT !.final = "completed"]) /\ UNCHANGED <<db, stopObs, saved, user, losses>>
(* Abort, interrupt, half an hour. *)
Cut(stop) ==
  /\ session.up /\ session.step \in {"run", "observe"}
  /\ session' = [session EXCEPT !.step = "idle"]
  /\ Set([turns[N] EXCEPT !.final = "failed", !.stop = stop])
  /\ UNCHANGED <<db, stopObs, saved, user, losses>>
TreeStops ==
  /\ N > 0 /\ turns[N].tree /\ (Settled(turns[N]) \/ ~ session.up) /\ Left(turns[N])
  /\ Set([turns[N] EXCEPT !.leader = FALSE, !.tree = FALSE]) /\ UNCHANGED <<session, stopObs, saved, user, losses>>

(* observeNativeStop: the tree is gone, and the history is read again for a checkpoint. *)
StopObserves ==
  /\ session.up /\ session.step = "idle" /\ session.last # 0 /\ turns[session.last].stop /\ Stopped(session)
  /\ session.obs = 0 /\ session.conv # 0 /\ session.home /\ stopObs = NoStop /\ Observed(session.conv) # 0
  /\ stopObs' = [turn |-> session.last, gen |-> session.gen, conv |-> session.conv, seen |-> Observed(session.conv)]
  /\ UNCHANGED <<session, turns, db, saved, user, losses>>
StillMeant(o) == session.last = o.turn /\ session.gen = o.gen /\ session.conv = o.conv /\ session.home
StopObserved ==
  /\ stopObs # NoStop /\ stopObs' = NoStop
  /\ session' = IF StillMeant(stopObs) THEN [session EXCEPT !.obs = stopObs.seen] ELSE session
  /\ UNCHANGED <<turns, db, saved, user, losses>>

(* The daemon dies; its processes may not. *)
Crash ==
  /\ losses < MaxLosses /\ session.up /\ losses' = losses + 1
  /\ session' = [Nobody EXCEPT !.gen = session.gen] /\ stopObs' = NoStop
  /\ turns' = [n \in 1 .. N |-> IF Settled(turns[n]) THEN turns[n]
                                 ELSE [turns[n] EXCEPT !.final = "failed", !.stop = TRUE]]
  /\ UNCHANGED <<db, saved, user>>
(* recoverSession: from a settled checkpoint, if the store still says the same. *)
Recover ==
  /\ ~ session.up /\ saved.settled /\ Observed(saved.conv) # 0 /\ Observed(saved.conv) >= saved.obs
  /\ session' = [session EXCEPT !.up = TRUE, !.conv = saved.conv, !.home = TRUE, !.obs = Observed(saved.conv)]
  /\ UNCHANGED <<turns, db, stopObs, saved, user, losses>>
(* observeSessionRecovery: the last turn's stop, its process group gone, and the store's word. *)
HintedRecovery ==
  /\ ~ session.up /\ ~ saved.settled /\ N > 0 /\ turns[N].stop /\ turns[N].hint # 0 /\ ~ turns[N].tree
  /\ Observed(turns[N].hint) # 0
  /\ saved' = [conv |-> turns[N].hint, obs |-> Observed(turns[N].hint), settled |-> TRUE]
  /\ UNCHANGED <<session, turns, db, stopObs, user, losses>>

(* The user talks in a closed conversation, or removes it. *)
UserWrites(c) ==
  /\ user < MaxUser /\ user' = user + 1 /\ db[c].ended
  /\ \/ db' = [db EXCEPT ![c].extra = @ + 1]
     \/ db' = [db EXCEPT ![c] = [words |-> {}, extra |-> 0, ended |-> FALSE, child |-> db[c].child]]
  /\ UNCHANGED <<session, turns, stopObs, saved, losses>>

Next ==
  \/ Persists \/ Send \/ Look \/ Go \/ Moves \/ Observes \/ TreeStops \/ StopObserves \/ StopObserved
  \/ Crash \/ Recover \/ HintedRecovery
  \/ \E c \in Conversations : UserWrites(c) \/ \E home \in BOOLEAN : Opens(c, home)
  \/ \E result \in {"completed", "failed"} : Reports(result)
  \/ \E code \in {0, 1} : Exits(code)
  \/ \E stop \in BOOLEAN : Cut(stop)

Spec == Init /\ [][Next]_vars

(* Two processes never work in one conversation, whatever was cut, lost or taken over in between. *)
OneWriter ==
  \A m, n \in 1 .. N :
    turns[m].leader /\ turns[n].leader /\ turns[m].prompted /\ turns[n].prompted
      /\ turns[m].conv = turns[n].conv => m = n

(* A prompt is given to a conversation that holds every completed turn of the session. *)
Remembers ==
  \A m, n \in 1 .. N : m < n /\ turns[m].final = "completed" /\ turns[n].prompted => m \in turns[n].saw

(* A settled checkpoint stands for all the session's turns wrote in its conversation, and none of *)
(* them writes there any more. *)
CheckpointCovers ==
  saved.settled =>
    /\ Cardinality(db[saved.conv].words) <= saved.obs
    /\ \A n \in 1 .. N : turns[n].leader /\ turns[n].prompted => turns[n].conv # saved.conv
=============================================================================
