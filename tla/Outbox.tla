------------------------------- MODULE Outbox -------------------------------
(***************************************************************************)
(* The device's downlink outbox: class Outbox (outbox.ts) over the SQLite  *)
(* tables outbox_events, outbox_acks and sessions.stream_seq (store.ts),   *)
(* with the sequence numbers the session engine stamps on every event.     *)
(*                                                                         *)
(* An event is its sequence number.  What the properties need of its       *)
(* content is the upstream identity of a proactive event, kept in log.     *)
(* JavaScript runs each operation to completion, so an operation is one    *)
(* action; a SQLite transaction inside it may fail, or commit and have the *)
(* capacity snapshot after it throw, and the process may die between any   *)
(* two operations.                                                         *)
(***************************************************************************)
EXTENDS Integers, FiniteSets

CONSTANTS
  Sessions,   \* sessions of the tenant
  Upstream,   \* native identities of proactive observations
  Ordinary,   \* content of every other event
  NoEvent,    \* log entry of a number no committed event carries
  MaxSeq,     \* bound: sequence numbers below MaxSeq are stamped
  MaxFaults   \* bound on storage faults and restarts

ASSUME OutboxAssumption ==
  /\ MaxSeq \in Nat
  /\ MaxFaults \in Nat
  /\ Ordinary \notin Upstream
  /\ NoEvent \notin Upstream \cup {Ordinary}

VARIABLES
  \* memory, lost when the process dies
  seq,        \* SessionRecord.seq: the next sequence number
  buffer,     \* Outbox.buffer and Outbox.keys
  acked,      \* Outbox.acked: highest acknowledged number, -1 for none
  healthy,    \* DeliveryCapacity.persistenceHealthy
  \* SQLite
  rows,       \* outbox_events
  mark,       \* outbox_acks.last_seq, -1 for none
  streamSeq,  \* sessions.stream_seq
  seen,       \* native_proactive_seen
  \* history
  log,        \* the content every number was committed with
  lost,       \* numbers stamped on an event whose write failed
  faults

memory  == <<seq, buffer, acked>>
store   == <<rows, mark, streamSeq, seen, log>>
outVars == <<seq, buffer, acked, healthy, rows, mark, streamSeq, seen, log, lost, faults>>

Seqs     == 0..(MaxSeq - 1)
Contents == Upstream \cup {Ordinary}

\* q is the least number above every member of S: MAX(...) + 1, or 0.
IsNext(S, q) == /\ \A m \in S : m < q
                /\ q = 0 \/ (q - 1) \in S

Larger(a, b)  == IF a < b THEN b ELSE a
Smaller(a, b) == IF a < b THEN a ELSE b

Committed(s) == {n \in Seqs : log[s][n] # NoEvent}

-----------------------------------------------------------------------------
OutInit ==
  /\ seq       = [s \in Sessions |-> 0]
  /\ buffer    = [s \in Sessions |-> {}]
  /\ acked     = [s \in Sessions |-> -1]
  /\ healthy   = TRUE
  /\ rows      = [s \in Sessions |-> {}]
  /\ mark      = [s \in Sessions |-> -1]
  /\ streamSeq = [s \in Sessions |-> 0]
  /\ seen      = [s \in Sessions |-> {}]
  /\ log       = [s \in Sessions |-> [n \in Seqs |-> NoEvent]]
  /\ lost      = [s \in Sessions |-> {}]
  /\ faults    = 0

Fault == /\ faults < MaxFaults
         /\ faults' = faults + 1

\* The early returns of enqueue, and the conflict INSERT OR IGNORE ignores.
Fresh(s, n) == n > acked[s] /\ n \notin buffer[s] /\ n \notin rows[s]

\* Mutant of Insert: the proactive identity is not recorded.
InsertForgetsIdentity(s, n, c) ==
  /\ rows'      = [rows EXCEPT ![s] = @ \cup {n}]
  /\ streamSeq' = [streamSeq EXCEPT ![s] = Larger(@, n + 1)]
  /\ log'       = [log EXCEPT ![s][n] = c]
  /\ UNCHANGED <<seen, mark>>

\* outboxAdd: one transaction inserts the row, the proactive identity and
\* advances sessions.stream_seq.
Insert(s, n, c) ==
  /\ rows'      = [rows EXCEPT ![s] = @ \cup {n}]
  /\ streamSeq' = [streamSeq EXCEPT ![s] = Larger(@, n + 1)]
  /\ seen'      = [seen EXCEPT ![s] = @ \cup ({c} \cap Upstream)]
  /\ log'       = [log EXCEPT ![s][n] = c]
  /\ UNCHANGED mark

\* What the engine stamps: nextStreamSeq for an ordinary event; a proactive
\* one takes rec.seq unless its identity was committed before.
MayStamp(s, c) == /\ seq[s] < MaxSeq
                  /\ c \notin seen[s]
                  /\ Fresh(s, seq[s])

\* sink -> sendStreamEvent -> enqueue: the row first, then the buffer.
Emit(s, c) ==
  /\ MayStamp(s, c)
  /\ Insert(s, seq[s], c)
  /\ buffer' = [buffer EXCEPT ![s] = @ \cup {seq[s]}]
  /\ seq'    = [seq EXCEPT ![s] = @ + 1]
  /\ UNCHANGED <<acked, healthy, lost, faults>>

\* Mutant of EmitFails: the buffer is filled before the store is.
EmitFailsMemoryFirst(s, c) ==
  /\ MayStamp(s, c)
  /\ Fault
  /\ healthy' = FALSE
  /\ buffer'  = [buffer EXCEPT ![s] = @ \cup {seq[s]}]
  /\ seq'     = [seq EXCEPT ![s] = @ + 1]
  /\ lost'    = [lost EXCEPT ![s] = @ \cup {seq[s]}]
  /\ UNCHANGED <<acked, store>>

\* The insert is rolled back.  An ordinary event has consumed its number; a
\* proactive one has not, rec.seq advances only after sink returns.
EmitFails(s, c) ==
  /\ MayStamp(s, c)
  /\ Fault
  /\ healthy' = FALSE
  /\ IF c = Ordinary
     THEN /\ seq'  = [seq EXCEPT ![s] = @ + 1]
          /\ lost' = [lost EXCEPT ![s] = @ \cup {seq[s]}]
     ELSE UNCHANGED <<seq, lost>>
  /\ UNCHANGED <<buffer, acked, store>>

\* The insert commits and the capacity snapshot after it throws: the row is
\* durable, the buffer does not hold it.  A proactive emission resynchronises
\* rec.seq with outboxNextSeq, which is the same number.
EmitUnreported(s, c) ==
  /\ MayStamp(s, c)
  /\ Fault
  /\ healthy' = FALSE
  /\ Insert(s, seq[s], c)
  /\ seq' = [seq EXCEPT ![s] = @ + 1]
  /\ UNCHANGED <<buffer, acked, lost>>

\* Mutant of PersistSession: stream_seq runs one number ahead of the engine.
PersistAhead(s) ==
  /\ streamSeq[s] < seq[s]
  /\ streamSeq' = [streamSeq EXCEPT ![s] = Smaller(seq[s] + 1, MaxSeq)]
  /\ UNCHANGED <<memory, healthy, rows, mark, seen, log, lost, faults>>

\* SessionEngine.persist: stream_seq = MAX(stream_seq, rec.seq).
PersistSession(s) ==
  /\ streamSeq[s] < seq[s]
  /\ streamSeq' = [streamSeq EXCEPT ![s] = seq[s]]
  /\ UNCHANGED <<memory, healthy, rows, mark, seen, log, lost, faults>>

-----------------------------------------------------------------------------
\* The watermark ack(s, n) moves to: no further than the buffer reaches.
IsTop(s, top) == top \in buffer[s] /\ \A m \in buffer[s] : m <= top

\* Mutant of Effective: the acknowledged number is believed as it comes.
EffectiveUnbounded(n, top) == n

Effective(n, top) == Smaller(n, top)

AckMoves(s, n, top) == /\ n > acked[s]
                       /\ IsTop(s, top)
                       /\ Effective(n, top) > acked[s]

\* Mutants of Finalize: one row too many is deleted; the watermark is assigned
\* without MAX.
FinalizeOffByOne(s, e) ==
  /\ mark' = [mark EXCEPT ![s] = Larger(@, e)]
  /\ rows' = [rows EXCEPT ![s] = {m \in @ : m > e + 1}]
  /\ UNCHANGED <<streamSeq, seen, log>>

FinalizeNoMax(s, e) ==
  /\ mark' = [mark EXCEPT ![s] = e]
  /\ rows' = [rows EXCEPT ![s] = {m \in @ : m > e}]
  /\ UNCHANGED <<streamSeq, seen, log>>

\* store.outboxAck: watermark and deletion in one transaction.
Finalize(s, e) ==
  /\ mark' = [mark EXCEPT ![s] = Larger(@, e)]
  /\ rows' = [rows EXCEPT ![s] = {m \in @ : m > e}]
  /\ UNCHANGED <<streamSeq, seen, log>>

\* A cumulative acknowledgement, from stream.ack or from welcome.
Ack(s, n) ==
  \E top \in buffer[s] :
    /\ AckMoves(s, n, top)
    /\ Finalize(s, Effective(n, top))
    /\ acked'  = [acked EXCEPT ![s] = Effective(n, top)]
    /\ buffer' = [buffer EXCEPT ![s] = {m \in @ : m > Effective(n, top)}]
    /\ UNCHANGED <<seq, healthy, lost, faults>>

\* The transaction fails: nothing is forgotten.
AckFails(s, n) ==
  \E top \in buffer[s] :
    /\ AckMoves(s, n, top)
    /\ Fault
    /\ healthy' = FALSE
    /\ UNCHANGED <<memory, store, lost>>

\* The transaction commits and the snapshot after it throws.
AckUnreported(s, n) ==
  \E top \in buffer[s] :
    /\ AckMoves(s, n, top)
    /\ Fault
    /\ healthy' = FALSE
    /\ Finalize(s, Effective(n, top))
    /\ UNCHANGED <<memory, lost>>

\* Mutants of Restored: only the rows still stored count; the stored stream_seq
\* is taken for the last number used.
RestoredFromRows(s, q) == IsNext(rows[s], q)
RestoredSkipsOne(s, q) == IsNext(rows[s] \cup {mark[s], streamSeq[s]}, q)

\* The process dies and starts again: the Outbox constructor reloads both
\* tables, restoreSessions takes MAX(stream_seq, outboxNextSeq).
Restored(s, q) == IsNext(rows[s] \cup {mark[s], streamSeq[s] - 1}, q)

Restart ==
  /\ Fault
  /\ healthy' = TRUE
  /\ acked'   = mark
  /\ rows'    = [s \in Sessions |-> {n \in rows[s] : n > mark[s]}]
  /\ buffer'  = rows'
  /\ seq'     \in [Sessions -> 0..MaxSeq]
  /\ \A s \in Sessions : Restored(s, seq'[s])
  /\ lost'    = [s \in Sessions |-> {n \in lost[s] : n < seq'[s]}]
  /\ UNCHANGED <<mark, streamSeq, seen, log>>

OutNext ==
  \/ \E s \in Sessions, c \in Contents : \/ Emit(s, c)
                                         \/ EmitFails(s, c)
                                         \/ EmitUnreported(s, c)
  \/ \E s \in Sessions : PersistSession(s)
  \/ \E s \in Sessions, n \in 0..MaxSeq : \/ Ack(s, n)
                                          \/ AckFails(s, n)
                                          \/ AckUnreported(s, n)
  \/ Restart

OutSpec == OutInit /\ [][OutNext]_outVars

-----------------------------------------------------------------------------
OutTypeOK ==
  /\ seq       \in [Sessions -> 0..MaxSeq]
  /\ buffer    \in [Sessions -> SUBSET Seqs]
  /\ acked     \in [Sessions -> Seqs \cup {-1}]
  /\ healthy   \in BOOLEAN
  /\ rows      \in [Sessions -> SUBSET Seqs]
  /\ mark      \in [Sessions -> Seqs \cup {-1}]
  /\ streamSeq \in [Sessions -> 0..MaxSeq]
  /\ seen      \in [Sessions -> SUBSET Upstream]
  /\ log       \in [Sessions -> [Seqs -> Contents \cup {NoEvent}]]
  /\ lost      \in [Sessions -> SUBSET Seqs]
  /\ faults    \in 0..MaxFaults

\* An oversized acknowledgement cannot push the watermark to or past the
\* number of an event still to come and so swallow it (outbox.ts:76-79), and
\* memory never runs ahead of the durable watermark.
WatermarkBehindStream ==
  \A s \in Sessions : acked[s] <= mark[s] /\ mark[s] < seq[s]

\* Every committed event above the watermark is still stored: neither
\* capacity pressure nor a failed acknowledgement nor a restart evicts it
\* (outbox.ts:10-11).
NothingEvicted ==
  \A s \in Sessions : {n \in Committed(s) : n > mark[s]} \subseteq rows[s]

\* What this process would replay is durable, and as long as no write failed
\* it is exactly what is durable.
ReplayIsDurable ==
  \A s \in Sessions :
    /\ {n \in buffer[s] : n > mark[s]} \subseteq rows[s]
    /\ healthy => buffer[s] = rows[s] /\ acked[s] = mark[s]

\* The number about to be stamped was never used: enqueue's early returns and
\* INSERT OR IGNORE drop no event, and no two events share a number, through
\* failed writes and restarts (store.ts:874-876).
NextNumberUnused ==
  \A s \in Sessions : seq[s] < MaxSeq => Fresh(s, seq[s]) /\ seq[s] \notin Committed(s)

\* The stream has no hole that no failed write explains: a restart neither
\* skips a number nor reuses one.
NoUnexplainedGap ==
  \A s \in Sessions : \A n \in 0..(seq[s] - 1) : n \in Committed(s) \cup lost[s]

\* A native observation is committed at most once, through failed writes,
\* unreported commits and restarts (NATIVE_PROACTIVE.md, Durability).
ObservedOnce ==
  \A s \in Sessions : \A m, n \in Committed(s) :
    log[s][m] = log[s][n] /\ log[s][m] \in Upstream => m = n

\* The durable watermark never retreats: an event acknowledged once is never
\* stored again.
WatermarkMonotone == [][\A s \in Sessions : mark'[s] >= mark[s]]_outVars

-----------------------------------------------------------------------------
\* What makes the invariants above inductive: the sequence numbers memory and
\* store hold are ordered, rows and buffer hold committed events only, and a
\* proactive identity in log is in native_proactive_seen.
Ordered ==
  \A s \in Sessions :
    /\ acked[s] <= mark[s]
    /\ mark[s] < streamSeq[s]
    /\ streamSeq[s] <= seq[s]
    /\ \A n \in Committed(s) : n < streamSeq[s]
    /\ \A n \in lost[s] : n < seq[s]

Backed ==
  \A s \in Sessions :
    /\ rows[s] \subseteq Committed(s)
    /\ buffer[s] \subseteq Committed(s)
    /\ \A n \in rows[s] : n > mark[s]

Recorded ==
  \A s \in Sessions : \A n \in Committed(s) :
    log[s][n] \in Upstream => log[s][n] \in seen[s]

OutInv == /\ OutTypeOK
          /\ Ordered
          /\ Backed
          /\ Recorded
          /\ NothingEvicted
          /\ ReplayIsDurable
          /\ NoUnexplainedGap
          /\ ObservedOnce
=============================================================================
