----------------------------- MODULE ProcessTree -----------------------------
(***************************************************************************)
(* ProcessSupervisor (process-supervisor.ts): one spawned command, the     *)
(* descendants in its process group, and the one way to end them.  The     *)
(* leader may exit before its descendants, ignore the first signal, or     *)
(* never have started; the event loop hears of an exit later than it       *)
(* happens.  A dead leader keeps its process id until it is reaped, and    *)
(* the group keeps it while a member lives.                                *)
(***************************************************************************)
EXTENDS Naturals

CONSTANT MaxForks

VARIABLES leader, kids, forks, term, timer, disposed, forced, stray

vars == <<leader, kids, forks, term, timer, disposed, forced, stray>>

(* leader: alive, zombie, reaped (exitCode is set), closed (onClose ran), unborn (no pid). *)
Init ==
  /\ leader \in {"alive", "unborn"} /\ kids = FALSE /\ forks = 0
  /\ term = "none" /\ timer = FALSE /\ disposed = FALSE
  /\ forced = FALSE /\ stray = FALSE

Exited == leader \in {"reaped", "closed", "failed"}
Pid == leader \notin {"unborn", "failed"}

(* isTreeAlive: signal 0 to the group, which counts a leader not reaped yet. *)
TreeAlive == Pid /\ (leader \in {"alive", "zombie"} \/ kids)

(* dispose: the timer and the listeners go, whoever waits for the termination is told. *)
Finished == IF term = "pending" THEN "resolved" ELSE term
Dispose == disposed' = TRUE /\ timer' = FALSE /\ term' = Finished

(* signalTree to the group -pid. *)
Signals == stray' = (stray \/ (Pid /\ ~ TreeAlive))

(* terminate: by an abort, a timeout, an interrupt, or onClose for what the leader left behind. *)
Starts == term' = "pending" /\ timer' = TRUE /\ Signals
Terminate ==
  /\ term = "none"
  /\ IF Exited /\ ~ TreeAlive THEN UNCHANGED <<term, timer, stray>> ELSE Starts
  /\ UNCHANGED <<leader, kids, forks, disposed, forced>>

(* The force timer: a surviving tree is killed, and the supervisor lets go. *)
Force ==
  /\ timer
  /\ IF TreeAlive THEN Signals /\ forced' = TRUE ELSE UNCHANGED <<stray, forced>>
  /\ Dispose
  /\ UNCHANGED <<leader, kids, forks>>

(* onClose *)
Closes ==
  /\ leader = "reaped" /\ leader' = "closed"
  /\ IF disposed THEN UNCHANGED <<term, timer, disposed, stray>>
     ELSE IF ~ kids THEN Dispose /\ UNCHANGED stray
     ELSE IF term = "none" THEN Starts /\ UNCHANGED disposed
     ELSE UNCHANGED <<term, timer, disposed, stray>>
  /\ UNCHANGED <<kids, forks, forced>>

(* onError: the command could not be started. *)
SpawnFails ==
  /\ leader = "unborn" /\ leader' = "failed"
  /\ IF disposed THEN UNCHANGED <<term, timer, disposed>> ELSE Dispose
  /\ UNCHANGED <<kids, forks, forced, stray>>

(* The processes: a signal may be ignored, a kill may take its time. *)
Forks == /\ leader = "alive"
         /\ ~ kids /\ forks < MaxForks /\ kids' = TRUE /\ forks' = forks + 1
         /\ UNCHANGED <<leader, term, timer, disposed, forced, stray>>
Dies == /\ \/ leader = "alive" /\ leader' = "zombie" /\ UNCHANGED kids
           \/ kids /\ kids' = FALSE /\ UNCHANGED leader
        /\ UNCHANGED <<forks, term, timer, disposed, forced, stray>>
Reaped == /\ leader = "zombie" /\ leader' = "reaped"
          /\ UNCHANGED <<kids, forks, term, timer, disposed, forced, stray>>

Next == Terminate \/ Force \/ Closes \/ SpawnFails \/ Forks \/ Dies \/ Reaped
Spec == Init /\ [][Next]_vars

(* Descendants that outlive the leader are never left alone: once its end was heard, they are on their *)
(* way to the kill, or have had it.                                                                     *)
Owned == leader = "closed" /\ kids => timer \/ forced

(* Whoever waited for the termination is told only when the tree is gone or was sent the kill. *)
ResolvedIsOver == term = "resolved" => forced \/ ~ TreeAlive

(* No signal goes to a process group that no longer exists, whose number may be somebody else's. *)
NoStray == ~ stray
=============================================================================
