--------------------------- MODULE EmployeeProfile ---------------------------
(***************************************************************************)
(* The profile of an employee (employee-profiles.ts): documents a server   *)
(* revises, in the native home of the Hermes profile, and a workspace.     *)
(* apply writes a revision with a process of its own (the bridge of        *)
(* hermes-profile-bridge.ts), which may be cut after any document; the     *)
(* owner edits the same files; sessions read the profile for their turns   *)
(* (session-engine.ts) and keep it from being written meanwhile.           *)
(***************************************************************************)
EXTENDS Naturals, FiniteSets

CONSTANTS Sessions, Docs, MaxRevision, MaxApplies, MaxTurns, MaxUpsets

VARIABLES rec, dir, home, op, child, look, sess, spent

vars == <<rec, dir, home, op, child, look, sess, spent>>

(* A document is absent (0), one revision's text, or the owner's. *)
Edited == MaxRevision + 1
Readers == {"status"} \cup Sessions
NoSeen == [d \in Docs |-> 0]
NoRecord == [rev |-> 0, state |-> "none", seen |-> NoSeen, mount |-> 0, project |-> FALSE, blamed |-> FALSE]
NoOp == [at |-> "idle", rev |-> 0, record |-> NoRecord, known |-> FALSE]
NoChild == [on |-> FALSE, rev |-> 0, old |-> NoSeen, left |-> {}, own |-> FALSE]
NoLook == [at |-> "none", record |-> NoRecord, seen |-> NoSeen, mount |-> 0, ready |-> 0]
NoSession == [at |-> "none", rev |-> 0, why |-> "create"]

(* The owner may have the directory of the workspace already, empty or not. *)
Init ==
  /\ rec = NoRecord /\ dir \in {"absent", "empty", "full"}
  /\ home = [kind |-> "absent", doc |-> NoSeen, mount |-> 0, edited |-> {}]
  /\ op = NoOp /\ child = NoChild
  /\ look = [r \in Readers |-> NoLook] /\ sess = [s \in Sessions |-> NoSession]
  /\ spent = [applies |-> 0, turns |-> 0, upsets |-> 0, cut |-> FALSE, by |-> FALSE, top |-> 0, back |-> FALSE, dir |-> dir]

(* use: a session holds the profile while it resolves it and for the whole of its turn. *)
Uses == \E s \in Sessions : sess[s].at \in {"looking", "turn"}
Busy == \E s \in Sessions : sess[s].at = "unrecovered"
Writing == op.at \notin {"idle", "asked"}

(* apply: the inventory is awaited first; then the revision and the uses are looked at, and the record   *)
(* is written before anything else.                                                                       *)
Apply(r) ==
  /\ op.at = "idle" /\ spent.applies < MaxApplies
  /\ op' = [NoOp EXCEPT !.at = "asked", !.rev = r] /\ spent' = [spent EXCEPT !.applies = @ + 1]
  /\ UNCHANGED <<rec, dir, home, child, look, sess>>
Begin ==
  LET record == [rec EXCEPT !.rev = op.rev, !.state = "provisioning", !.blamed = FALSE]
  IN /\ op.at = "asked"
     /\ IF op.rev < rec.rev \/ (rec.state = "ready" /\ op.rev = rec.rev) \/ Uses \/ Busy
        THEN op' = NoOp /\ UNCHANGED <<rec, spent>>
        ELSE /\ rec' = record /\ spent' = [spent EXCEPT !.top = IF op.rev > @ THEN op.rev ELSE @]
             /\ op' = [op EXCEPT !.at = IF rec.project THEN "check" ELSE "mkdir", !.record = record, !.known = rec.rev # 0]
     /\ UNCHANGED <<dir, home, child, look, sess>>
Saves(state, seen, mount, blamed) ==
  /\ rec' = [op.record EXCEPT !.state = state, !.seen = seen, !.mount = mount, !.blamed = blamed]
  /\ op' = NoOp
Fails(blamed) == Saves("failed", op.record.seen, op.record.mount, blamed)

(* The workspace: a directory of its own making, or an empty one a former attempt left, gets the marker; *)
(* the project is recorded only under it.                                                                 *)
Mkdir ==
  /\ op.at = "mkdir"
  /\ dir' = IF dir = "absent" THEN "made" ELSE dir
  /\ op' = [op EXCEPT !.at = IF dir = "absent" \/ (op.known /\ dir \in {"empty", "made"}) THEN "mark" ELSE "check"]
  /\ UNCHANGED <<rec, home, child, look, sess, spent>>
Mark ==
  /\ op.at = "mark" /\ dir' = "opened" /\ op' = [op EXCEPT !.at = "fill"]
  /\ UNCHANGED <<rec, home, child, look, sess, spent>>
Fill ==
  /\ op.at = "fill" /\ dir' = "marked" /\ op' = [op EXCEPT !.at = "check"]
  /\ UNCHANGED <<rec, home, child, look, sess, spent>>
Check ==
  /\ op.at = "check"
  /\ IF dir # "marked" THEN Fails(FALSE) /\ UNCHANGED child
     ELSE /\ rec' = IF op.record.project THEN rec ELSE [op.record EXCEPT !.project = TRUE]
          /\ op' = [op EXCEPT !.at = "provision", !.record.project = TRUE]
          /\ child' = [on |-> TRUE, rev |-> op.rev, old |-> op.record.seen, left |-> Docs, own |-> TRUE]
  /\ UNCHANGED <<dir, home, look, sess, spent>>

(* The bridge: a home that is not there is staged and published whole, unless it was there before; one    *)
(* that is there gets document by document, each only over what was last seen, or over itself.            *)
Ends(blamed) ==
  /\ child' = NoChild
  /\ IF child.own THEN Fails(blamed) ELSE UNCHANGED <<rec, op>>
Publish ==
  /\ child.on /\ home.kind = "absent"
  /\ IF child.old # NoSeen THEN Ends(FALSE) /\ UNCHANGED home
     ELSE /\ home' = [home EXCEPT !.kind = "ours", !.doc = [d \in Docs |-> child.rev]]
          /\ UNCHANGED <<rec, op, child>>
  /\ UNCHANGED <<dir, look, sess, spent>>
Put(d) ==
  LET there == home.doc[d]
  IN /\ child.on /\ home.kind = "ours" /\ d \in child.left /\ \A e \in child.left : d <= e
     /\ IF there \notin {0, child.rev, child.old[d]} THEN Ends(TRUE) /\ UNCHANGED home
        ELSE /\ home' = [home EXCEPT !.doc[d] = child.rev]
             /\ child' = [child EXCEPT !.left = @ \ {d}] /\ UNCHANGED <<rec, op>>
     /\ UNCHANGED <<dir, look, sess, spent>>
Observed ==
  /\ child.on /\ home.kind = "ours" /\ child.left = {} /\ child' = NoChild
  /\ IF child.own THEN Saves("ready", [d \in Docs |-> child.rev], home.mount, FALSE) ELSE UNCHANGED <<rec, op>>
  /\ UNCHANGED <<dir, home, look, sess, spent>>
(* It takes too long, and is killed. *)
Cut ==
  /\ child.on /\ spent.upsets < MaxUpsets /\ Ends(FALSE)
  /\ spent' = [spent EXCEPT !.upsets = @ + 1, !.cut = TRUE]
  /\ UNCHANGED <<dir, home, look, sess>>

(* status: the record as it was read, and the files as the bridge finds them; a home that came back       *)
(* under another mount is the same one, and the record is written again with it.                         *)
Read(r) ==
  look' = [look EXCEPT ![r] = IF rec.state = "ready" THEN [NoLook EXCEPT !.at = "read", !.record = rec] ELSE [NoLook EXCEPT !.at = "told"]]
Status ==
  /\ look["status"].at \in {"none", "told"} /\ rec.state = "ready" /\ Read("status")
  /\ UNCHANGED <<rec, dir, home, op, child, sess, spent>>
Inspect(r) ==
  /\ look[r].at = "read"
  /\ look' = [look EXCEPT ![r] = IF dir # "marked" \/ home.kind # "ours" THEN [NoLook EXCEPT !.at = "told"]
                                 ELSE [@ EXCEPT !.at = "seen", !.seen = home.doc, !.mount = home.mount]]
  /\ UNCHANGED <<rec, dir, home, op, child, sess, spent>>
Settle(r) ==
  LET record == look[r].record
  IN /\ look[r].at = "seen"
     /\ look' = [look EXCEPT ![r] = [NoLook EXCEPT !.at = "told", !.seen = look[r].seen,
                                                   !.ready = IF look[r].seen = record.seen THEN record.rev ELSE 0]]
     /\ IF look[r].seen = record.seen /\ look[r].mount # record.mount
        THEN /\ rec' = [record EXCEPT !.mount = look[r].mount]
             /\ spent' = [spent EXCEPT !.back = @ \/ rec.rev # record.rev]
        ELSE UNCHANGED <<rec, spent>>
     /\ UNCHANGED <<dir, home, op, child, sess>>

(* A session resolves the profile: when it is made, before a turn, when its revision is refreshed, and    *)
(* when it is recovered.                                                                                   *)
Resolve(s, why) ==
  /\ ~ Writing
  /\ CASE why = "create" -> sess[s].at = "none" /\ rec.rev # 0
       [] why = "turn" -> sess[s].at = "idle" /\ spent.turns < MaxTurns
       [] why = "refresh" -> sess[s].at = "idle" /\ sess[s].rev # rec.rev
       [] why = "recover" -> sess[s].at \in {"detached", "unrecovered"}
  /\ sess' = [sess EXCEPT ![s].at = "looking", ![s].why = IF why = "recover" THEN sess[s].at ELSE why]
  /\ spent' = [spent EXCEPT !.turns = IF why = "turn" THEN @ + 1 ELSE @]
  /\ Read(s)
  /\ UNCHANGED <<rec, dir, home, op, child>>
Before(s) ==
  CASE sess[s].why = "create" -> "none"
    [] sess[s].why \in {"turn", "refresh"} -> "idle"
    [] OTHER -> sess[s].why
Resolved(s) ==
  LET found == look[s].ready
      good == found # 0 /\ (sess[s].why = "turn" => found = sess[s].rev)
  IN /\ sess[s].at = "looking" /\ look[s].at = "told"
     /\ sess' = [sess EXCEPT ![s] = IF good /\ @.why = "turn" THEN [@ EXCEPT !.at = "turn", !.why = "create"]
                                    ELSE IF good THEN [at |-> "idle", rev |-> found, why |-> "create"]
                                    ELSE [@ EXCEPT !.at = Before(s), !.why = "create"]]
     /\ look' = [look EXCEPT ![s] = NoLook]
     /\ UNCHANGED <<rec, dir, home, op, child, spent>>
TurnEnds(s) ==
  /\ sess[s].at = "turn" /\ sess' = [sess EXCEPT ![s].at = "idle"]
  /\ UNCHANGED <<rec, dir, home, op, child, look, spent>>

(* The owner edits a document, or removes the home; the disk is mounted anew. *)
Edit(d) ==
  /\ home.kind = "ours" /\ spent.upsets < MaxUpsets
  /\ home' = [home EXCEPT !.doc[d] = Edited, !.edited = @ \cup {d}]
  /\ spent' = [spent EXCEPT !.upsets = @ + 1, !.by = TRUE]
  /\ UNCHANGED <<rec, dir, op, child, look, sess>>
Remove ==
  /\ home.kind = "ours" /\ spent.upsets < MaxUpsets
  /\ home' = [home EXCEPT !.kind = "absent", !.doc = NoSeen, !.edited = {}]
  /\ spent' = [spent EXCEPT !.upsets = @ + 1]
  /\ UNCHANGED <<rec, dir, op, child, look, sess>>
Remount ==
  /\ home.kind = "ours" /\ home.mount = 0 /\ home' = [home EXCEPT !.mount = 1]
  /\ UNCHANGED <<rec, dir, op, child, look, sess, spent>>

(* The daemon dies; the bridge it began may go on. *)
Crash ==
  /\ spent.upsets < MaxUpsets /\ spent' = [spent EXCEPT !.upsets = @ + 1, !.cut = TRUE]
  /\ op' = NoOp /\ child' = [child EXCEPT !.own = FALSE] /\ look' = [r \in Readers |-> NoLook]
  /\ sess' = [s \in Sessions |->
       CASE sess[s].at \in {"turn", "unrecovered"} -> [sess[s] EXCEPT !.at = "unrecovered"]
         [] sess[s].at = "none" \/ (sess[s].at = "looking" /\ sess[s].why = "create") -> NoSession
         [] OTHER -> [sess[s] EXCEPT !.at = IF @ = "looking" /\ sess[s].why = "unrecovered" THEN @ ELSE "detached",
                                     !.why = "create"]]
  /\ UNCHANGED <<rec, dir, home>>

Next ==
  \/ \E r \in 1 .. MaxRevision : Apply(r)
  \/ Begin \/ Mkdir \/ Mark \/ Fill \/ Check \/ Publish \/ Observed \/ Cut
  \/ Status \/ Remove \/ Remount \/ Crash
  \/ \E d \in Docs : Put(d) \/ Edit(d)
  \/ \E r \in Readers : Inspect(r) \/ Settle(r)
  \/ \E s \in Sessions : Resolved(s) \/ TurnEnds(s) \/ \E why \in {"create", "turn", "refresh", "recover"} : Resolve(s, why)
Spec == Init /\ [][Next]_vars

(* While a turn runs, or was cut by a crash and is not recovered, its documents are of the revision its   *)
(* session knows, or the owner's: nothing is applied under it, by a bridge of a daemon that died neither, *)
(* unless a look wrote its older record back.                                                              *)
TurnKeepsProfile ==
  \A s \in Sessions :
    sess[s].at \in {"turn", "unrecovered"} /\ home.kind = "ours" /\ ~ spent.back =>
      \A d \in Docs : home.doc[d] \in {sess[s].rev, Edited}

(* What the owner wrote is not overwritten. *)
EditsStay == home.edited = {d \in Docs : home.doc[d] = Edited}

(* What is called ready was found whole, at its revision; no older revision takes the place of a newer.   *)
ReadyWasWhole ==
  /\ \A r \in Readers : look[r].ready # 0 => look[r].seen = [d \in Docs |-> look[r].ready]
  /\ ~ spent.back => rec.rev = spent.top

(* Only edits are called edits, unless an apply was cut, or a look wrote its older record back. *)
BlamesEdits == rec.blamed => spent.by \/ spent.cut \/ spent.back

(* A directory that was there before is not taken for the workspace at first sight. *)
NotTaken == rec.project => spent.dir = "absent" \/ (spent.dir = "empty" /\ spent.applies > 1)
=============================================================================
