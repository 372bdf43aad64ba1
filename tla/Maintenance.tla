----------------------------- MODULE Maintenance -----------------------------
(***************************************************************************)
(* Edits and rollbacks of one configuration file (maintenance.ts).  An     *)
(* operation queues for the file, reads it, compares it with what its      *)
(* caller has seen, makes a backup, prunes the older ones, looks at the    *)
(* file again and replaces it.  The file's owner edits it without the      *)
(* queue.  A content is a number; every edit makes a new one.              *)
(***************************************************************************)
EXTENDS Naturals, FiniteSets, Sequences, SequencesExt

CONSTANTS MaxOps, MaxOutside, Retention, MaxCrashes

VARIABLES file, queue, ops, backups, outside, crashes

vars == <<file, queue, ops, backups, outside, crashes>>

(* A backup is known by the operation that made it. *)
Init ==
  /\ file = 0 /\ queue = <<>> /\ ops = <<>> /\ backups = <<>>
  /\ outside = 0 /\ crashes = 0

Kept == {backups[k].id : k \in DOMAIN backups}
BackupOf(id) == backups[CHOOSE k \in DOMAIN backups : backups[k].id = id]

(* configPatch, configEdit: called with the hash the caller has read.  The content an edit makes has *)
(* the number of its operation, the owner's the numbers behind.                                       *)
Op(kind, expected, of) == [kind |-> kind, expected |-> expected, of |-> of, step |-> "waiting", next |-> 0,
                           replaced |-> 0, checked |-> 0, raced |-> FALSE]
Called(op) == ops' = Append(ops, op) /\ queue' = Append(queue, Len(ops) + 1)

Edit ==
  /\ Len(ops) < MaxOps
  /\ Called(Op("edit", file, 0))
  /\ UNCHANGED <<file, backups, outside, crashes>>

(* rollback: its metadata is read before the queue. *)
Rollback ==
  /\ Len(ops) < MaxOps
  /\ \E id \in Kept : Called(Op("rollback", file, id))
  /\ UNCHANGED <<file, backups, outside, crashes>>

(* withConfigLock: the head of the chain runs; the end of its work, good or bad, lets the next go. *)
Running(i) == queue # <<>> /\ Head(queue) = i
Leaves(i, step) == ops' = [ops EXCEPT ![i].step = step] /\ queue' = Tail(queue)

(* mutateConfig and rollback, up to the comparison: the backup a rollback names may be pruned by now. *)
Read ==
  \E i \in DOMAIN ops :
    /\ Running(i) /\ ops[i].step = "waiting"
    /\ IF file # ops[i].expected \/ (ops[i].kind = "rollback" /\ ops[i].of \notin Kept)
       THEN Leaves(i, "refused")
       ELSE /\ ops' = [ops EXCEPT ![i].step = "read",
                         ![i].next = IF ops[i].kind = "edit" THEN i ELSE BackupOf(ops[i].of).content]
            /\ UNCHANGED queue
    /\ UNCHANGED <<file, backups, outside, crashes>>

(* Invalid contents are refused; an edit that changes nothing ends here. *)
Settles ==
  \E i \in DOMAIN ops :
    /\ Running(i) /\ ops[i].step = "read"
    /\ \/ Leaves(i, "refused")
       \/ ops[i].kind = "edit" /\ Leaves(i, "unchanged")
    /\ UNCHANGED <<file, backups, outside, crashes>>

(* createBackup and pruneBackups: of the bytes that were read. *)
Newest(s) == IF Len(s) > Retention THEN SubSeq(s, Len(s) - Retention + 1, Len(s)) ELSE s
Backup ==
  \E i \in DOMAIN ops :
    /\ Running(i) /\ ops[i].step = "read"
    /\ backups' = Newest(Append(backups, [id |-> i, content |-> ops[i].expected]))
    /\ ops' = [ops EXCEPT ![i].step = "backed"]
    /\ UNCHANGED <<file, queue, outside, crashes>>

(* The second look, after the backup was written. *)
Recheck ==
  \E i \in DOMAIN ops :
    /\ Running(i) /\ ops[i].step = "backed"
    /\ IF file # ops[i].expected THEN Leaves(i, "refused")
       ELSE ops' = [ops EXCEPT ![i].step = "checked", ![i].checked = outside] /\ UNCHANGED queue
    /\ UNCHANGED <<file, backups, outside, crashes>>

(* atomicWrite: a temporary file is renamed over the file, or the disk refuses it. *)
Write ==
  \E i \in DOMAIN ops :
    /\ Running(i) /\ ops[i].step = "checked"
    /\ queue' = Tail(queue)
    /\ \/ /\ file' = ops[i].next
          /\ ops' = [ops EXCEPT ![i].step = "done", ![i].replaced = file, ![i].raced = outside > ops[i].checked]
       \/ ops' = [ops EXCEPT ![i].step = "refused"] /\ UNCHANGED file
    /\ UNCHANGED <<backups, outside, crashes>>

(* The owner's editor. *)
OwnerWrites ==
  /\ outside < MaxOutside /\ outside' = outside + 1 /\ file' = MaxOps + outside + 1
  /\ UNCHANGED <<queue, ops, backups, crashes>>

(* The daemon dies with what it was doing. *)
Crash ==
  /\ crashes < MaxCrashes /\ crashes' = crashes + 1
  /\ queue' = <<>>
  /\ ops' = [i \in DOMAIN ops |-> IF i \in ToSet(queue) THEN [ops[i] EXCEPT !.step = "refused"] ELSE ops[i]]
  /\ UNCHANGED <<file, backups, outside>>

Next == Edit \/ Rollback \/ Read \/ Settles \/ Backup \/ Recheck \/ Write \/ OwnerWrites \/ Crash
Spec == Init /\ [][Next]_vars

(* A write replaces the very content its caller had seen, unless the owner wrote after the last look. *)
ReplacesSeen ==
  \A i \in DOMAIN ops : ops[i].step = "done" => ops[i].replaced = ops[i].expected \/ ops[i].raced

(* What was replaced can be brought back: the backup that an edit or a rollback answered with holds it *)
(* until newer operations have filled the retention.                                                     *)
Reversible ==
  \A i \in DOMAIN ops : ops[i].step = "done" =>
    \/ i \in Kept /\ BackupOf(i).content = ops[i].expected
    \/ Cardinality(Kept) >= Retention /\ \A j \in Kept : j > i

(* A rollback brings back what the operation it undoes has replaced. *)
RollbackRestores ==
  \A i \in DOMAIN ops : ops[i].step = "done" /\ ops[i].kind = "rollback" => ops[i].next = ops[ops[i].of].expected
=============================================================================
