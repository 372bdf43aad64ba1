--------------------------- MODULE WorkflowReplay ---------------------------
(***************************************************************************)
(* What a device sends again of the events its workflows have not had      *)
(* acknowledged: one bounded page a pass, rotating over the workflows, the *)
(* rest of a workflow withheld behind a row that cannot be read.           *)
(***************************************************************************)
EXTENDS Naturals, FiniteSets, SequencesExt

CONSTANTS Workflows,  (* 1 .. n, in the order of their ids *)
          MaxEvents,  (* events of one workflow *)
          PageLimit,  (* rows of a page, 32 in the code *)
          Budget,     (* bytes of a pass, 256 KiB in the code *)
          Large,      (* the events of a workflow that are larger than a pass; the others take a byte *)
          MaxDamage   (* unreadable rows *)

VARIABLES events,   (* by workflow, how many events it has *)
          damaged,  (* rows whose event is gone or unreadable *)
          acked,    (* by workflow, the highest acknowledged event *)
          cursor,   (* the workflow the last pass stopped at, 0 for none *)
          sent,     (* the rows of the last pass, in order *)
          missed    (* by workflow, passes in a row that could have sent of it and did not *)

vars == <<events, damaged, acked, cursor, sent, missed>>

Init ==
  /\ events = [w \in Workflows |-> 0] /\ damaged = {} /\ acked = [w \in Workflows |-> 0]
  /\ cursor = 0 /\ sent = <<>> /\ missed = [w \in Workflows |-> 0]

Pending == {<<w, n>> \in Workflows \X (1 .. MaxEvents) : n > acked[w] /\ n <= events[w]}
Readable(w) == acked[w] < events[w] /\ <<w, acked[w] + 1>> \notin damaged

(* emit: the event is durable before it is sent, and whether the link took it is not known. *)
Emit(w) ==
  /\ events[w] < MaxEvents /\ events' = [events EXCEPT ![w] = @ + 1]
  /\ UNCHANGED <<damaged, acked, cursor, sent, missed>>

Damage(row) ==
  /\ row \in Pending \ damaged /\ Cardinality(damaged) < MaxDamage /\ damaged' = damaged \union {row}
  /\ UNCHANGED <<events, acked, cursor, sent, missed>>

(* ack: never beyond the last event, never back; the server has heard all it acknowledges. *)
Ack(w, n) ==
  /\ n > acked[w] /\ n <= events[w] /\ \A k \in 1 .. n : <<w, k>> \notin damaged
  /\ acked' = [acked EXCEPT ![w] = n]
  /\ missed' = [missed EXCEPT ![w] = IF n = events[w] THEN 0 ELSE @]
  /\ UNCHANGED <<events, damaged, cursor, sent>>

Before(a, b) == a[1] < b[1] \/ (a[1] = b[1] /\ a[2] < b[2])
(* workflowReplayPage: the first rows of the workflows after the cursor. *)
Page(after) ==
  LET rows == {r \in Pending : r[1] > after}
      ahead(r) == Cardinality({o \in rows : Before(o, r)})
      page == {r \in rows : ahead(r) < PageLimit}
  IN  [i \in 1 .. Cardinality(page) |-> CHOOSE r \in page : ahead(r) = i - 1]
Wrapped == IF Page(cursor) = <<>> THEN 0 ELSE cursor

Bytes(row) == IF row[2] \in Large THEN Budget + 1 ELSE 1
Fits(pass, row) == Len(pass.sent) = 0 \/ pass.bytes + Bytes(row) <= Budget

(* One row of the pass; the link takes at most room rows. *)
Offer(pass, row, room) ==
  IF pass.over \/ row[1] = pass.rejected THEN pass
  ELSE IF ~ Fits(pass, row) \/ Len(pass.sent) = room
       THEN [pass EXCEPT !.over = TRUE]
  ELSE IF row \in damaged THEN [pass EXCEPT !.rejected = row[1], !.cursor = row[1]]
  ELSE [pass EXCEPT !.sent = Append(@, row), !.bytes = @ + Bytes(row), !.cursor = row[1]]

(* replayUnacked. *)
Pass(room) ==
  LET start == [sent |-> <<>>, bytes |-> 0, cursor |-> Wrapped, rejected |-> 0, over |-> FALSE]
      pass == FoldLeft(LAMBDA p, row : Offer(p, row, room), start, Page(Wrapped))
      had(w) == \E i \in DOMAIN pass.sent : pass.sent[i][1] = w
  IN  /\ Pending # {}
      /\ sent' = pass.sent /\ cursor' = pass.cursor
      /\ missed' = [w \in Workflows |-> IF had(w) \/ ~ Readable(w) THEN 0
                                        ELSE IF room = PageLimit THEN missed[w] + 1 ELSE missed[w]]
      /\ UNCHANGED <<events, damaged, acked>>

Next ==
  \/ \E w \in Workflows : Emit(w)
  \/ \E w \in Workflows, n \in 1 .. MaxEvents : Damage(<<w, n>>) \/ Ack(w, n)
  \/ \E room \in 0 .. PageLimit : Pass(room)

Spec == Init /\ [][Next]_vars

(* The rotation of replayUnacked reaches every workflow: one with an event that can be sent is left *)
(* out by fewer passes in a row than there are workflows, however long the backlog of the others, *)
(* however large their events and whatever of them is damaged. *)
Rotates == \A w \in Workflows : missed[w] < Cardinality(Workflows)

(* A pass sends of a workflow its oldest open events, in order and without a gap: nothing crosses a *)
(* damaged row. *)
NoGap ==
  \A i \in DOMAIN sent : LET r == sent[i] IN
    \A n \in acked[r[1]] + 1 .. r[2] - 1 : \E j \in 1 .. i - 1 : sent[j] = <<r[1], n>>
=============================================================================
