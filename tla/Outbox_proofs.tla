---------------------------- MODULE Outbox_proofs ----------------------------
(***************************************************************************)
(* Proofs about the outbox for every set of sessions and identities and    *)
(* every bound: OutInv is inductive, and the properties the runs check     *)
(* follow from it.                                                         *)
(***************************************************************************)
EXTENDS Outbox, TLAPS

\* What Insert does to the log: exactly one number becomes committed.
LEMMA InsertCommits ==
  ASSUME OutTypeOK, NEW s \in Sessions, NEW c \in Contents, seq[s] < MaxSeq,
         Insert(s, seq[s], c)
  PROVE  /\ Committed(s)' = Committed(s) \cup {seq[s]}
         /\ \A t \in Sessions \ {s} : Committed(t)' = Committed(t)
         /\ \A t \in Sessions : \A n \in Committed(t) : t # s \/ n # seq[s] => log'[t][n] = log[t][n]
         /\ log'[s][seq[s]] = c
         /\ seq[s] \in Seqs
BY OutboxAssumption DEF OutTypeOK, Insert, Committed, Contents, Seqs

\* The types are inductive on their own.
LEMMA TypeStep == OutTypeOK /\ [OutNext]_outVars => OutTypeOK'
<1> SUFFICES ASSUME OutTypeOK, [OutNext]_outVars PROVE OutTypeOK'
  OBVIOUS
<1> USE OutboxAssumption DEF OutTypeOK, Seqs
<1>1. ASSUME NEW s \in Sessions, NEW c \in Contents, Emit(s, c) PROVE OutTypeOK'
  <2> seq[s] \in Seqs /\ seq[s] + 1 \in 0..MaxSeq
    BY <1>1 DEF Emit, MayStamp
  <2>1. log' \in [Sessions -> [Seqs -> Contents \cup {NoEvent}]]
    BY <1>1 DEF Emit, Insert
  <2>2. streamSeq' \in [Sessions -> 0..MaxSeq]
    BY <1>1 DEF Emit, Insert, Larger
  <2> QED
    BY <1>1, <2>1, <2>2 DEF Emit, Insert
<1>2. ASSUME NEW s \in Sessions, NEW c \in Contents, EmitFails(s, c) PROVE OutTypeOK'
  <2>1. seq[s] \in Seqs /\ seq[s] + 1 \in 0..MaxSeq
    BY <1>2 DEF EmitFails, MayStamp
  <2>2. seq' \in [Sessions -> 0..MaxSeq] /\ lost' \in [Sessions -> SUBSET Seqs]
    <3>1. CASE c = Ordinary
      <4>1. seq' = [seq EXCEPT ![s] = @ + 1] /\ lost' = [lost EXCEPT ![s] = @ \cup {seq[s]}]
        BY <1>2, <3>1 DEF EmitFails
      <4> QED
        BY <2>1, <4>1
    <3>2. CASE c # Ordinary
      BY <1>2, <3>2 DEF EmitFails
    <3> QED
      BY <3>1, <3>2
  <2>3. healthy' \in BOOLEAN
    BY <1>2 DEF EmitFails
  <2>4. faults' \in 0..MaxFaults
    BY <1>2 DEF EmitFails, Fault
  <2>5. UNCHANGED <<buffer, acked, rows, mark, streamSeq, seen, log>>
    BY <1>2 DEF EmitFails, store
  <2> QED
    BY <2>2, <2>3, <2>4, <2>5
<1>3. ASSUME NEW s \in Sessions, NEW c \in Contents, EmitUnreported(s, c) PROVE OutTypeOK'
  <2>1. seq[s] \in Seqs /\ seq[s] + 1 \in 0..MaxSeq
    BY <1>3 DEF EmitUnreported, MayStamp
  <2>2. log' \in [Sessions -> [Seqs -> Contents \cup {NoEvent}]]
    BY <1>3, <2>1 DEF EmitUnreported, Insert
  <2>3. seq' \in [Sessions -> 0..MaxSeq] /\ streamSeq' \in [Sessions -> 0..MaxSeq]
    BY <1>3, <2>1 DEF EmitUnreported, Insert, Larger
  <2>4. rows' \in [Sessions -> SUBSET Seqs] /\ seen' \in [Sessions -> SUBSET Upstream]
    BY <1>3, <2>1 DEF EmitUnreported, Insert
  <2>5. healthy' \in BOOLEAN
    BY <1>3 DEF EmitUnreported
  <2>6. faults' \in 0..MaxFaults
    BY <1>3 DEF EmitUnreported, Fault
  <2> QED
    BY <1>3, <2>2, <2>3, <2>4, <2>5, <2>6 DEF EmitUnreported, Insert
<1>4. ASSUME NEW s \in Sessions, PersistSession(s) PROVE OutTypeOK'
  BY <1>4 DEF PersistSession, memory
<1>5. ASSUME NEW s \in Sessions, NEW n \in 0..MaxSeq, Ack(s, n) PROVE OutTypeOK'
  BY <1>5 DEF Ack, AckMoves, IsTop, Effective, Finalize, Larger, Smaller
<1>6. ASSUME NEW s \in Sessions, NEW n \in 0..MaxSeq, AckFails(s, n) PROVE OutTypeOK'
  <2>1. healthy' \in BOOLEAN
    BY <1>6 DEF AckFails
  <2>2. faults' \in 0..MaxFaults
    BY <1>6 DEF AckFails, Fault
  <2> QED
    BY <1>6, <2>1, <2>2 DEF AckFails, memory, store
<1>7. ASSUME NEW s \in Sessions, NEW n \in 0..MaxSeq, AckUnreported(s, n) PROVE OutTypeOK'
  <2>1. PICK top \in buffer[s] : AckMoves(s, n, top) /\ Finalize(s, Effective(n, top))
    BY <1>7 DEF AckUnreported
  <2>2. mark' \in [Sessions -> Seqs \cup {-1}] /\ rows' \in [Sessions -> SUBSET Seqs]
    BY <2>1 DEF AckMoves, Effective, Finalize, Larger, Smaller
  <2>3. healthy' \in BOOLEAN
    BY <1>7 DEF AckUnreported
  <2>4. faults' \in 0..MaxFaults
    BY <1>7 DEF AckUnreported, Fault
  <2> QED
    BY <1>7, <2>1, <2>2, <2>3, <2>4 DEF AckUnreported, Finalize, memory
<1>8. ASSUME Restart PROVE OutTypeOK'
  BY <1>8 DEF Restart, Fault
<1>9. ASSUME UNCHANGED outVars PROVE OutTypeOK'
  BY <1>9 DEF outVars
<1> QED
  BY <1>1, <1>2, <1>3, <1>4, <1>5, <1>6, <1>7, <1>8, <1>9 DEF OutNext

\* The outbox's variables always have their types.
THEOREM OutboxTypes == OutSpec => []OutTypeOK
<1>1. OutInit => OutTypeOK
  BY OutboxAssumption DEF OutInit, OutTypeOK, Seqs
<1>2. QED
  BY <1>1, TypeStep, PTL DEF OutSpec

-----------------------------------------------------------------------------
(***************************************************************************)
(* Committing a stamped event.  Its number is above everything stored and  *)
(* above the watermark, so every part of OutInv that does not mention the  *)
(* buffer survives.                                                        *)
(***************************************************************************)
LEMMA InsertStep ==
  ASSUME OutInv, NEW s \in Sessions, NEW c \in Contents, MayStamp(s, c),
         Insert(s, seq[s], c), seq' = [seq EXCEPT ![s] = @ + 1],
         UNCHANGED <<acked, lost>>
  PROVE  Ordered' /\ Recorded' /\ NothingEvicted' /\ NoUnexplainedGap' /\ ObservedOnce'
<1> USE OutboxAssumption
<1>1. /\ Committed(s)' = Committed(s) \cup {seq[s]}
      /\ \A t \in Sessions \ {s} : Committed(t)' = Committed(t)
      /\ \A t \in Sessions : \A n \in Committed(t) : t # s \/ n # seq[s] => log'[t][n] = log[t][n]
      /\ log'[s][seq[s]] = c
      /\ seq[s] \in Seqs
  BY InsertCommits DEF OutInv, MayStamp
<1>2. seq[s] \notin Committed(s)
  BY DEF OutInv, Ordered, OutTypeOK, Seqs, Committed
<1>3. Ordered'
  <2> SUFFICES ASSUME NEW t \in Sessions
               PROVE  /\ acked'[t] <= mark'[t]
                      /\ mark'[t] < streamSeq'[t]
                      /\ streamSeq'[t] <= seq'[t]
                      /\ \A n \in Committed(t)' : n < streamSeq'[t]
                      /\ \A n \in lost'[t] : n < seq'[t]
    BY DEF Ordered
  <2>1. CASE t = s
    <3>1. /\ streamSeq'[s] = Larger(streamSeq[s], seq[s] + 1) /\ seq'[s] = seq[s] + 1
          /\ mark'[s] = mark[s] /\ acked'[s] = acked[s] /\ lost'[s] = lost[s]
      BY DEF Insert, OutInv, OutTypeOK
    <3>2. /\ acked[s] \in Int /\ mark[s] \in Int /\ streamSeq[s] \in Int /\ seq[s] \in Int
          /\ lost[s] \subseteq Int /\ Committed(s) \subseteq Int
      BY DEF OutInv, OutTypeOK, Seqs, Committed
    <3>3. /\ acked[s] <= mark[s] /\ mark[s] < streamSeq[s] /\ streamSeq[s] <= seq[s]
          /\ \A n \in Committed(s) : n < streamSeq[s]
          /\ \A n \in lost[s] : n < seq[s]
      BY DEF OutInv, Ordered
    <3>4. streamSeq'[s] = seq[s] + 1
      BY <3>1, <3>2, <3>3 DEF Larger
    <3> QED
      BY <1>1, <2>1, <3>1, <3>2, <3>3, <3>4
  <2>2. CASE t # s
    BY <1>1, <2>2 DEF OutInv, Ordered, OutTypeOK, Insert
  <2> QED
    BY <2>1, <2>2
<1>4. Recorded'
  <2> SUFFICES ASSUME NEW t \in Sessions, NEW n \in Committed(t)', log'[t][n] \in Upstream
               PROVE  log'[t][n] \in seen'[t]
    BY DEF Recorded
  <2>1. seen[t] \subseteq seen'[t]
    BY DEF Insert, OutInv, OutTypeOK
  <2>2. CASE t = s /\ n = seq[s]
    BY <1>1, <2>2 DEF Insert, OutInv, OutTypeOK
  <2>3. CASE ~(t = s /\ n = seq[s])
    <3>1. n \in Committed(t) /\ log'[t][n] = log[t][n]
      BY <1>1, <2>3
    <3> QED
      BY <2>1, <3>1 DEF OutInv, Recorded
  <2> QED
    BY <2>2, <2>3
<1>5. NothingEvicted'
  BY <1>1 DEF OutInv, NothingEvicted, Insert, OutTypeOK
<1>6. NoUnexplainedGap'
  <2> SUFFICES ASSUME NEW t \in Sessions, NEW n \in 0..(seq'[t] - 1)
               PROVE  n \in Committed(t)' \cup lost'[t]
    BY DEF NoUnexplainedGap
  <2>1. CASE t = s
    <3>1. seq'[s] = seq[s] + 1 /\ seq[s] \in Int /\ lost' = lost
      BY DEF OutInv, OutTypeOK
    <3>2. n = seq[s] \/ n \in 0..(seq[s] - 1)
      BY <2>1, <3>1
    <3> QED
      BY <1>1, <2>1, <3>1, <3>2 DEF OutInv, NoUnexplainedGap
  <2>2. CASE t # s
    BY <1>1, <2>2 DEF OutInv, NoUnexplainedGap, OutTypeOK
  <2> QED
    BY <2>1, <2>2
<1>7. ObservedOnce'
  <2> SUFFICES ASSUME NEW t \in Sessions, NEW m \in Committed(t)', NEW n \in Committed(t)',
                      log'[t][m] = log'[t][n], log'[t][m] \in Upstream, m # n
               PROVE  FALSE
    BY DEF ObservedOnce
  <2>1. CASE t # s
    BY <1>1, <2>1 DEF OutInv, ObservedOnce
  <2>2. CASE t = s /\ m # seq[s] /\ n # seq[s]
    BY <1>1, <2>2 DEF OutInv, ObservedOnce
  <2>3. CASE t = s /\ m = seq[s]
    <3>1. n \in Committed(s) /\ log[s][n] = c /\ c \in Upstream
      BY <1>1, <2>3
    <3> QED
      BY <3>1 DEF OutInv, Recorded, MayStamp
  <2>4. CASE t = s /\ n = seq[s]
    <3>1. m \in Committed(s) /\ log[s][m] = c /\ c \in Upstream
      BY <1>1, <2>4
    <3> QED
      BY <3>1 DEF OutInv, Recorded, MayStamp
  <2> QED
    BY <2>1, <2>2, <2>3, <2>4
<1> QED
  BY <1>3, <1>4, <1>5, <1>6, <1>7

(***************************************************************************)
(* Moving the watermark.  It stops at the top of the buffer, a committed   *)
(* number, and so stays below stream_seq.                                  *)
(***************************************************************************)
LEMMA FinalizeStep ==
  ASSUME OutInv, NEW s \in Sessions, NEW n \in 0..MaxSeq, NEW top \in buffer[s],
         AckMoves(s, n, top), Finalize(s, Effective(n, top)),
         UNCHANGED <<seq, lost>>
  PROVE  /\ \A t \in Sessions : /\ mark'[t] < streamSeq'[t]
                                 /\ mark[t] <= mark'[t]
                                 /\ \A k \in rows'[t] : k > mark'[t] /\ k \in rows[t]
         /\ \A t \in Sessions : {k \in rows[t] : k > mark'[t]} \subseteq rows'[t]
         /\ \A t \in Sessions \ {s} : mark'[t] = mark[t] /\ rows'[t] = rows[t]
         /\ Effective(n, top) <= mark'[s]
         /\ healthy => mark'[s] = Effective(n, top)
         /\ Effective(n, top) \in Seqs
         /\ Recorded' /\ NothingEvicted' /\ NoUnexplainedGap' /\ ObservedOnce'
<1> DEFINE e == Effective(n, top)
<1>1. e \in Seqs /\ e < streamSeq[s] /\ e > acked[s]
  BY OutboxAssumption
  DEF OutInv, OutTypeOK, Ordered, Backed, Seqs, AckMoves, IsTop, Effective, Smaller
<1>2. mark' = [mark EXCEPT ![s] = Larger(@, e)] /\ rows' = [rows EXCEPT ![s] = {m \in @ : m > e}]
  BY DEF Finalize
<1>3. log' = log /\ seen' = seen /\ streamSeq' = streamSeq
  BY DEF Finalize
<1> HIDE DEF e
<1>4. \A t \in Sessions : Committed(t)' = Committed(t)
  BY <1>3 DEF Committed
<1>5. \A t \in Sessions : /\ mark'[t] < streamSeq'[t]
                          /\ mark[t] <= mark'[t]
                          /\ \A k \in rows'[t] : k > mark'[t] /\ k \in rows[t]
                          /\ \A k \in rows[t] : k > mark'[t] => k \in rows'[t]
  <2> SUFFICES ASSUME NEW t \in Sessions
               PROVE  /\ mark'[t] < streamSeq'[t]
                      /\ mark[t] <= mark'[t]
                      /\ \A k \in rows'[t] : k > mark'[t] /\ k \in rows[t]
                      /\ \A k \in rows[t] : k > mark'[t] => k \in rows'[t]
    OBVIOUS
  <2>1. /\ mark[t] \in Int /\ streamSeq[t] \in Int /\ rows[t] \subseteq Int /\ e \in Int
        /\ mark[t] < streamSeq[t] /\ \A k \in rows[t] : k > mark[t]
    BY <1>1 DEF OutInv, OutTypeOK, Ordered, Backed, Seqs
  <2>2. CASE t = s
    <3>1. mark'[t] = Larger(mark[t], e) /\ rows'[t] = {m \in rows[t] : m > e} /\ streamSeq'[t] = streamSeq[t]
      BY <1>2, <1>3, <2>2 DEF OutInv, OutTypeOK
    <3> QED
      BY <1>1, <2>1, <2>2, <3>1 DEF Larger
  <2>3. CASE t # s
    <3>1. mark'[t] = mark[t] /\ rows'[t] = rows[t] /\ streamSeq'[t] = streamSeq[t]
      BY <1>2, <1>3, <2>3 DEF OutInv, OutTypeOK
    <3> QED
      BY <2>1, <3>1
  <2> QED
    BY <2>2, <2>3
<1>6. \A t \in Sessions \ {s} : mark'[t] = mark[t] /\ rows'[t] = rows[t]
  BY <1>2 DEF OutInv, OutTypeOK
<1>7. e <= mark'[s] /\ (healthy => mark'[s] = e)
  BY <1>1, <1>2 DEF OutInv, OutTypeOK, ReplayIsDurable, Seqs, Larger
<1>8. Recorded'
  BY <1>3, <1>4 DEF OutInv, Recorded
<1>9. NothingEvicted'
  <2> SUFFICES ASSUME NEW t \in Sessions, NEW k \in Committed(t), k > mark'[t]
               PROVE  k \in rows'[t]
    BY <1>4 DEF NothingEvicted
  <2>1. k \in Int /\ mark[t] \in Int /\ mark'[t] \in Int
    BY <1>1, <1>2 DEF OutInv, OutTypeOK, Committed, Seqs, Larger
  <2>2. k > mark[t]
    BY <1>5, <2>1
  <2> QED
    BY <1>5, <2>2 DEF OutInv, NothingEvicted
<1>10. NoUnexplainedGap'
  BY <1>4 DEF OutInv, NoUnexplainedGap
<1>11. ObservedOnce'
  BY <1>3, <1>4 DEF OutInv, ObservedOnce
<1> QED
  BY <1>1, <1>5, <1>6, <1>7, <1>8, <1>9, <1>10, <1>11 DEF e

-----------------------------------------------------------------------------
\* The numbers of one session, and how they are ordered.
LEMMA Bounds ==
  ASSUME OutInv, NEW t \in Sessions
  PROVE  /\ acked[t] \in Int /\ mark[t] \in Int /\ streamSeq[t] \in Int /\ seq[t] \in Int
         /\ lost[t] \subseteq Int /\ Committed(t) \subseteq Int
         /\ buffer[t] \subseteq Int /\ rows[t] \subseteq Int
         /\ acked[t] <= mark[t] /\ mark[t] < streamSeq[t] /\ streamSeq[t] <= seq[t]
         /\ \A n \in Committed(t) : n < streamSeq[t]
         /\ \A n \in lost[t] : n < seq[t]
<1>1. OutTypeOK /\ Ordered
  BY DEF OutInv
<1>2. /\ acked[t] \in Int /\ mark[t] \in Int /\ streamSeq[t] \in Int /\ seq[t] \in Int
      /\ lost[t] \subseteq Int /\ Committed(t) \subseteq Int
      /\ buffer[t] \subseteq Int /\ rows[t] \subseteq Int
  BY <1>1, OutboxAssumption DEF OutTypeOK, Seqs, Committed
<1> QED
  BY <1>1, <1>2 DEF Ordered

\* Every action preserves the inductive invariant.
LEMMA InvStep == OutInv /\ [OutNext]_outVars => OutInv'
<1> SUFFICES ASSUME OutInv, [OutNext]_outVars PROVE OutInv'
  OBVIOUS
<1> USE OutboxAssumption
<1>0. OutTypeOK'
  BY TypeStep DEF OutInv
<1>1. ASSUME NEW s \in Sessions, NEW c \in Contents, Emit(s, c) PROVE OutInv'
  <2>1. MayStamp(s, c) /\ Insert(s, seq[s], c) /\ seq' = [seq EXCEPT ![s] = @ + 1]
        /\ UNCHANGED <<acked, lost>>
    BY <1>1 DEF Emit
  <2>2. Ordered' /\ Recorded' /\ NothingEvicted' /\ NoUnexplainedGap' /\ ObservedOnce'
    BY <2>1, InsertStep
  <2>3. /\ Committed(s)' = Committed(s) \cup {seq[s]}
        /\ \A t \in Sessions \ {s} : Committed(t)' = Committed(t)
    BY <2>1, InsertCommits DEF OutInv, MayStamp
  <2>4. /\ rows' = [rows EXCEPT ![s] = @ \cup {seq[s]}]
        /\ buffer' = [buffer EXCEPT ![s] = @ \cup {seq[s]}]
        /\ mark' = mark /\ acked' = acked /\ healthy' = healthy
    BY <1>1, <2>1 DEF Emit, Insert
  <2>5. seq[s] > mark[s]
    BY Bounds
  <2>6. Backed'
    BY <2>3, <2>4, <2>5 DEF OutInv, OutTypeOK, Backed
  <2>7. ReplayIsDurable'
    BY <2>4 DEF OutInv, OutTypeOK, ReplayIsDurable
  <2> QED
    BY <1>0, <2>2, <2>6, <2>7 DEF OutInv
<1>2. ASSUME NEW s \in Sessions, NEW c \in Contents, EmitFails(s, c) PROVE OutInv'
  <2>1. UNCHANGED <<buffer, acked, rows, mark, streamSeq, seen, log>> /\ healthy' = FALSE
    BY <1>2 DEF EmitFails, store
  <2>2. \A t \in Sessions : Committed(t)' = Committed(t)
    BY <2>1 DEF Committed
  <2>3. \A t \in Sessions : /\ seq'[t] = seq[t] \/ (seq'[t] = seq[t] + 1 /\ seq[t] \in lost'[t])
                            /\ lost[t] \subseteq lost'[t]
                            /\ \A n \in lost'[t] : n \in lost[t] \/ (n = seq[t] /\ seq'[t] = seq[t] + 1)
    <3>1. CASE c = Ordinary
      <4>1. seq' = [seq EXCEPT ![s] = @ + 1] /\ lost' = [lost EXCEPT ![s] = @ \cup {seq[s]}]
        BY <1>2, <3>1 DEF EmitFails
      <4> QED
        BY <4>1 DEF OutInv, OutTypeOK
    <3>2. CASE c # Ordinary
      BY <1>2, <3>2 DEF EmitFails
    <3> QED
      BY <3>1, <3>2
  <2>4. Ordered'
    <3> SUFFICES ASSUME NEW t \in Sessions
                 PROVE  /\ acked[t] <= mark[t] /\ mark[t] < streamSeq[t] /\ streamSeq[t] <= seq'[t]
                        /\ \A n \in Committed(t) : n < streamSeq[t]
                        /\ \A n \in lost'[t] : n < seq'[t]
      BY <2>1, <2>2 DEF Ordered
    <3>1. seq'[t] = seq[t] \/ seq'[t] = seq[t] + 1
      BY <2>3
    <3>2. \A n \in lost'[t] : n \in lost[t] \/ (n = seq[t] /\ seq'[t] = seq[t] + 1)
      BY <2>3
    <3> QED
      BY <3>1, <3>2, Bounds
  <2>5. NoUnexplainedGap'
    <3> SUFFICES ASSUME NEW t \in Sessions, NEW n \in 0..(seq'[t] - 1)
                 PROVE  n \in Committed(t) \cup lost'[t]
      BY <2>2 DEF NoUnexplainedGap
    <3>1. seq[t] \in Int
      BY Bounds
    <3>2. CASE n \in 0..(seq[t] - 1)
      BY <2>3, <3>2 DEF OutInv, NoUnexplainedGap
    <3>3. CASE n \notin 0..(seq[t] - 1)
      <4>1. seq'[t] = seq[t] + 1 /\ n = seq[t] /\ seq[t] \in lost'[t]
        BY <2>3, <3>1, <3>3
      <4> QED
        BY <4>1
    <3> QED
      BY <3>2, <3>3
  <2>6. Backed' /\ Recorded' /\ NothingEvicted' /\ ObservedOnce'
    BY <2>1, <2>2 DEF OutInv, Backed, Recorded, NothingEvicted, ObservedOnce
  <2>7. ReplayIsDurable'
    BY <2>1 DEF OutInv, ReplayIsDurable
  <2> QED
    BY <1>0, <2>4, <2>5, <2>6, <2>7 DEF OutInv
<1>3. ASSUME NEW s \in Sessions, NEW c \in Contents, EmitUnreported(s, c) PROVE OutInv'
  <2>1. MayStamp(s, c) /\ Insert(s, seq[s], c) /\ seq' = [seq EXCEPT ![s] = @ + 1]
        /\ UNCHANGED <<acked, lost>>
    BY <1>3 DEF EmitUnreported
  <2>2. Ordered' /\ Recorded' /\ NothingEvicted' /\ NoUnexplainedGap' /\ ObservedOnce'
    BY <2>1, InsertStep
  <2>3. /\ Committed(s)' = Committed(s) \cup {seq[s]}
        /\ \A t \in Sessions \ {s} : Committed(t)' = Committed(t)
    BY <2>1, InsertCommits DEF OutInv, MayStamp
  <2>4. /\ rows' = [rows EXCEPT ![s] = @ \cup {seq[s]}]
        /\ buffer' = buffer /\ mark' = mark /\ healthy' = FALSE
    BY <1>3, <2>1 DEF EmitUnreported, Insert
  <2>5. seq[s] > mark[s]
    BY Bounds
  <2>6. Backed'
    BY <2>3, <2>4, <2>5 DEF OutInv, OutTypeOK, Backed
  <2>7. ReplayIsDurable'
    BY <2>4 DEF OutInv, OutTypeOK, ReplayIsDurable
  <2> QED
    BY <1>0, <2>2, <2>6, <2>7 DEF OutInv
<1>4. ASSUME NEW s \in Sessions, PersistSession(s) PROVE OutInv'
  <2>1. UNCHANGED <<seq, buffer, acked, healthy, rows, mark, seen, log, lost>>
        /\ streamSeq' = [streamSeq EXCEPT ![s] = seq[s]] /\ streamSeq[s] < seq[s]
    BY <1>4 DEF PersistSession, memory
  <2>2. \A t \in Sessions : Committed(t)' = Committed(t)
    BY <2>1 DEF Committed
  <2>3. \A t \in Sessions : streamSeq'[t] >= streamSeq[t] /\ streamSeq'[t] <= seq[t] /\ streamSeq'[t] \in Int
    BY <2>1 DEF OutInv, OutTypeOK, Ordered
  <2>4. Ordered'
    <3> SUFFICES ASSUME NEW t \in Sessions
                 PROVE  /\ acked[t] <= mark[t] /\ mark[t] < streamSeq'[t] /\ streamSeq'[t] <= seq[t]
                        /\ \A n \in Committed(t) : n < streamSeq'[t]
                        /\ \A n \in lost[t] : n < seq[t]
      BY <2>1, <2>2 DEF Ordered
    <3> QED
      BY <2>3, Bounds
  <2>5. /\ Backed' /\ Recorded' /\ NothingEvicted' /\ ReplayIsDurable' /\ NoUnexplainedGap'
        /\ ObservedOnce'
    BY <2>1, <2>2
    DEF OutInv, Backed, Recorded, NothingEvicted, ReplayIsDurable, NoUnexplainedGap, ObservedOnce
  <2> QED
    BY <1>0, <2>4, <2>5 DEF OutInv
<1>5. ASSUME NEW s \in Sessions, NEW n \in 0..MaxSeq, Ack(s, n) PROVE OutInv'
  <2>1. PICK top \in buffer[s] :
          /\ AckMoves(s, n, top) /\ Finalize(s, Effective(n, top))
          /\ acked' = [acked EXCEPT ![s] = Effective(n, top)]
          /\ buffer' = [buffer EXCEPT ![s] = {m \in @ : m > Effective(n, top)}]
          /\ UNCHANGED <<seq, healthy, lost>>
    BY <1>5 DEF Ack
  <2> DEFINE e == Effective(n, top)
  <2>2. /\ \A t \in Sessions : /\ mark'[t] < streamSeq'[t]
                                /\ mark[t] <= mark'[t]
                                /\ \A k \in rows'[t] : k > mark'[t] /\ k \in rows[t]
        /\ \A t \in Sessions : {k \in rows[t] : k > mark'[t]} \subseteq rows'[t]
        /\ \A t \in Sessions \ {s} : mark'[t] = mark[t] /\ rows'[t] = rows[t]
        /\ e <= mark'[s] /\ (healthy => mark'[s] = e) /\ e \in Seqs
        /\ Recorded' /\ NothingEvicted' /\ NoUnexplainedGap' /\ ObservedOnce'
    BY <2>1, FinalizeStep
  <2>3. log' = log /\ streamSeq' = streamSeq /\ rows' = [rows EXCEPT ![s] = {m \in @ : m > e}]
    BY <2>1 DEF Finalize
  <2>4. \A t \in Sessions : Committed(t)' = Committed(t)
    BY <2>3 DEF Committed
  <2>5. /\ acked' = [acked EXCEPT ![s] = e]
        /\ buffer' = [buffer EXCEPT ![s] = {m \in @ : m > e}]
        /\ UNCHANGED <<seq, healthy, lost>>
    BY <2>1
  <2> HIDE DEF e
  <2>6. \A t \in Sessions : acked'[t] <= mark'[t]
    BY <2>2, <2>5 DEF OutInv, OutTypeOK, Ordered, Seqs
  <2>7. Ordered'
    BY <2>2, <2>3, <2>4, <2>5, <2>6 DEF OutInv, OutTypeOK, Ordered, Seqs, Committed
  <2>8. \A t \in Sessions : buffer'[t] \subseteq buffer[t]
    BY <2>5 DEF OutInv, OutTypeOK
  <2>9. Backed'
    BY <2>2, <2>4, <2>8 DEF OutInv, Backed
  <2>10. ReplayIsDurable'
    <3> SUFFICES ASSUME NEW t \in Sessions
                 PROVE  /\ {k \in buffer'[t] : k > mark'[t]} \subseteq rows'[t]
                        /\ healthy' => buffer'[t] = rows'[t] /\ acked'[t] = mark'[t]
      BY DEF ReplayIsDurable
    <3>1. {k \in buffer'[t] : k > mark'[t]} \subseteq rows'[t]
      <4> SUFFICES ASSUME NEW k \in buffer'[t], k > mark'[t] PROVE k \in rows'[t]
        OBVIOUS
      <4>1. k \in Int /\ mark[t] \in Int /\ mark'[t] \in Int /\ k \in buffer[t]
        BY <1>0, <2>8 DEF OutInv, OutTypeOK, Seqs
      <4>2. k > mark[t]
        BY <2>2, <4>1
      <4>3. k \in rows[t]
        BY <4>1, <4>2 DEF OutInv, ReplayIsDurable
      <4>4. {j \in rows[t] : j > mark'[t]} \subseteq rows'[t]
        BY <2>2
      <4> QED
        BY <4>3, <4>4
    <3>2. CASE ~healthy
      BY <2>5, <3>1, <3>2
    <3>3. CASE healthy /\ t # s
      BY <2>2, <2>5, <3>1, <3>3 DEF OutInv, OutTypeOK, ReplayIsDurable
    <3>4. CASE healthy /\ t = s
      <4>1. buffer[s] = rows[s] /\ mark'[s] = e /\ acked'[s] = e
        BY <2>2, <2>5, <3>4 DEF OutInv, OutTypeOK, ReplayIsDurable
      <4>2. buffer'[s] = {m \in rows[s] : m > e}
        BY <2>5, <4>1 DEF OutInv, OutTypeOK
      <4>3. rows'[s] = {m \in rows[s] : m > e}
        BY <2>3 DEF OutInv, OutTypeOK
      <4> QED
        BY <3>1, <3>4, <4>1, <4>2, <4>3
    <3> QED
      BY <3>2, <3>3, <3>4
  <2> QED
    BY <1>0, <2>2, <2>7, <2>9, <2>10 DEF OutInv
<1>6. ASSUME NEW s \in Sessions, NEW n \in 0..MaxSeq, AckFails(s, n) PROVE OutInv'
  <2>1. UNCHANGED <<seq, buffer, acked, rows, mark, streamSeq, seen, log, lost>> /\ healthy' = FALSE
    BY <1>6 DEF AckFails, memory, store
  <2>2. \A t \in Sessions : Committed(t)' = Committed(t)
    BY <2>1 DEF Committed
  <2> QED
    BY <1>0, <2>1, <2>2
    DEF OutInv, Ordered, Backed, Recorded, NothingEvicted, ReplayIsDurable, NoUnexplainedGap, ObservedOnce
<1>7. ASSUME NEW s \in Sessions, NEW n \in 0..MaxSeq, AckUnreported(s, n) PROVE OutInv'
  <2>1. PICK top \in buffer[s] :
          /\ AckMoves(s, n, top) /\ Finalize(s, Effective(n, top))
          /\ UNCHANGED <<seq, buffer, acked, lost>> /\ healthy' = FALSE
    BY <1>7 DEF AckUnreported, memory
  <2>2. /\ \A t \in Sessions : /\ mark'[t] < streamSeq'[t]
                                /\ mark[t] <= mark'[t]
                                /\ \A k \in rows'[t] : k > mark'[t] /\ k \in rows[t]
        /\ \A t \in Sessions : {k \in rows[t] : k > mark'[t]} \subseteq rows'[t]
        /\ Recorded' /\ NothingEvicted' /\ NoUnexplainedGap' /\ ObservedOnce'
    BY <2>1, FinalizeStep
  <2>3. log' = log /\ streamSeq' = streamSeq
    BY <2>1 DEF Finalize
  <2>4. \A t \in Sessions : Committed(t)' = Committed(t)
    BY <2>3 DEF Committed
  <2>5. \A t \in Sessions : mark[t] \in Int /\ mark'[t] \in Int /\ acked[t] \in Int
    BY <1>0 DEF OutInv, OutTypeOK, Seqs
  <2>6. Ordered'
    BY <2>1, <2>2, <2>3, <2>4, <2>5 DEF OutInv, Ordered
  <2>7. Backed'
    BY <2>1, <2>2, <2>4 DEF OutInv, Backed
  <2>8. ReplayIsDurable'
    <3> SUFFICES ASSUME NEW t \in Sessions, NEW k \in buffer[t], k > mark'[t] PROVE k \in rows'[t]
      BY <2>1 DEF ReplayIsDurable
    <3>1. k \in Int
      BY DEF OutInv, OutTypeOK, Seqs
    <3>2. k > mark[t]
      BY <2>2, <2>5, <3>1
    <3>3. k \in rows[t]
      BY <3>2 DEF OutInv, ReplayIsDurable
    <3>4. {j \in rows[t] : j > mark'[t]} \subseteq rows'[t]
      BY <2>2
    <3> QED
      BY <3>3, <3>4
  <2> QED
    BY <1>0, <2>2, <2>6, <2>7, <2>8 DEF OutInv
<1>8. ASSUME Restart PROVE OutInv'
  <2>1. /\ UNCHANGED <<mark, streamSeq, seen, log>> /\ acked' = mark /\ buffer' = rows'
        /\ rows' = [s \in Sessions |-> {n \in rows[s] : n > mark[s]}]
        /\ lost' = [s \in Sessions |-> {n \in lost[s] : n < seq'[s]}]
    BY <1>8 DEF Restart
  <2>2. \A t \in Sessions : Committed(t)' = Committed(t) /\ rows'[t] = rows[t]
    BY <2>1 DEF OutInv, Backed, Committed
  <2>3. \A t \in Sessions : seq'[t] = streamSeq[t]
    <3> SUFFICES ASSUME NEW t \in Sessions PROVE seq'[t] = streamSeq[t]
      OBVIOUS
    <3>1. /\ seq'[t] \in Nat /\ streamSeq[t] \in Nat /\ mark[t] \in Int /\ rows[t] \subseteq Int
          /\ mark[t] < streamSeq[t] /\ \A n \in rows[t] : n < streamSeq[t]
      BY <1>0 DEF OutInv, OutTypeOK, Ordered, Backed, Seqs
    <3>2. IsNext(rows[t] \cup {mark[t], streamSeq[t] - 1}, seq'[t])
      BY <1>8 DEF Restart, Restored
    <3> QED
      BY <3>1, <3>2 DEF IsNext
  <2>4. Ordered'
    <3> SUFFICES ASSUME NEW t \in Sessions
                 PROVE  /\ mark[t] <= mark[t] /\ mark[t] < streamSeq[t] /\ streamSeq[t] <= streamSeq[t]
                        /\ \A n \in Committed(t) : n < streamSeq[t]
      BY <2>1, <2>2, <2>3 DEF Ordered
    <3> QED
      BY Bounds
  <2>5. Backed'
    BY <2>1, <2>2 DEF OutInv, Backed
  <2>6. Recorded' /\ NothingEvicted' /\ ObservedOnce'
    BY <2>1, <2>2 DEF OutInv, Recorded, NothingEvicted, ObservedOnce
  <2>7. ReplayIsDurable'
    BY <2>1 DEF ReplayIsDurable
  <2>8. NoUnexplainedGap'
    <3> SUFFICES ASSUME NEW t \in Sessions, NEW n \in 0..(seq'[t] - 1)
                 PROVE  n \in Committed(t)' \cup lost'[t]
      BY DEF NoUnexplainedGap
    <3>1. n \in 0..(seq[t] - 1) /\ n < seq'[t]
      BY <2>3 DEF OutInv, OutTypeOK, Ordered
    <3> QED
      BY <2>1, <2>2, <3>1 DEF OutInv, NoUnexplainedGap
  <2> QED
    BY <1>0, <2>4, <2>5, <2>6, <2>7, <2>8 DEF OutInv
<1>9. ASSUME UNCHANGED outVars PROVE OutInv'
  <2>1. \A t \in Sessions : Committed(t)' = Committed(t)
    BY <1>9 DEF outVars, Committed
  <2> QED
    BY <1>0, <1>9, <2>1
    DEF outVars, OutInv, Ordered, Backed, Recorded, NothingEvicted, ReplayIsDurable, NoUnexplainedGap,
        ObservedOnce
<1> QED
  BY <1>1, <1>2, <1>3, <1>4, <1>5, <1>6, <1>7, <1>8, <1>9 DEF OutNext

\* The invariant holds of an empty outbox.
LEMMA OutboxInit == OutInit => OutInv
<1> SUFFICES ASSUME OutInit PROVE OutInv
  OBVIOUS
<1>1. OutTypeOK
  BY OutboxAssumption DEF OutInit, OutTypeOK, Seqs
<1>2. \A t \in Sessions : Committed(t) = {}
  BY DEF OutInit, Committed
<1> QED
  BY <1>1, <1>2
  DEF OutInit, OutInv, Ordered, Backed, Recorded, NothingEvicted, ReplayIsDurable, NoUnexplainedGap,
      ObservedOnce

\* The inductive invariant holds of every behaviour.
THEOREM OutboxInvariant == OutSpec => []OutInv
  BY OutboxInit, InvStep, PTL DEF OutSpec

\* The watermark stays behind the stream: no acknowledgement, however large,
\* swallows an event to come.
THEOREM WatermarkNeverPoisoned == OutSpec => []WatermarkBehindStream
<1>1. OutInv => WatermarkBehindStream
  <2> SUFFICES ASSUME OutInv, NEW t \in Sessions PROVE acked[t] <= mark[t] /\ mark[t] < seq[t]
    BY DEF WatermarkBehindStream
  <2> QED
    BY Bounds
<1>2. QED
  BY <1>1, OutboxInvariant, PTL

\* No committed event above the watermark is ever evicted.
THEOREM NeverEvicted == OutSpec => []NothingEvicted
<1>1. OutInv => NothingEvicted
  BY DEF OutInv
<1>2. QED
  BY <1>1, OutboxInvariant, PTL

\* What would be replayed is durable, and all of it as long as no write failed.
THEOREM ReplayAlwaysDurable == OutSpec => []ReplayIsDurable
<1>1. OutInv => ReplayIsDurable
  BY DEF OutInv
<1>2. QED
  BY <1>1, OutboxInvariant, PTL

\* The next number is unused, so no event is dropped as a duplicate.
THEOREM NumbersNeverReused == OutSpec => []NextNumberUnused
<1>1. OutInv => NextNumberUnused
  <2> SUFFICES ASSUME OutInv, NEW t \in Sessions
               PROVE  Fresh(t, seq[t]) /\ seq[t] \notin Committed(t)
    BY DEF NextNumberUnused
  <2>1. seq[t] \notin Committed(t) /\ seq[t] > acked[t]
    BY Bounds
  <2>2. buffer[t] \subseteq Committed(t) /\ rows[t] \subseteq Committed(t)
    BY DEF OutInv, Backed
  <2> QED
    BY <2>1, <2>2 DEF Fresh
<1>2. QED
  BY <1>1, OutboxInvariant, PTL

\* A hole in the stream is always the number of an event whose write failed.
THEOREM GapsAreExplained == OutSpec => []NoUnexplainedGap
<1>1. OutInv => NoUnexplainedGap
  BY DEF OutInv
<1>2. QED
  BY <1>1, OutboxInvariant, PTL

\* A native observation is committed at most once.
THEOREM ObservationsCommittedOnce == OutSpec => []ObservedOnce
<1>1. OutInv => ObservedOnce
  BY DEF OutInv
<1>2. QED
  BY <1>1, OutboxInvariant, PTL

\* The durable watermark never retreats.
THEOREM WatermarkNeverRetreats == OutSpec => WatermarkMonotone
<1>1. OutInv /\ [OutNext]_outVars => [\A s \in Sessions : mark'[s] >= mark[s]]_outVars
  <2> SUFFICES ASSUME OutInv, OutNext, NEW s \in Sessions PROVE mark'[s] >= mark[s]
    OBVIOUS
  <2>1. mark[s] \in Int
    BY Bounds
  <2>2. ASSUME NEW t \in Sessions, NEW e \in Int, Finalize(t, e) PROVE mark'[s] >= mark[s]
    BY <2>1, <2>2 DEF Finalize, Larger, OutInv, OutTypeOK
  <2>3. ASSUME NEW t \in Sessions, NEW n \in 0..MaxSeq, NEW top \in buffer[t], Finalize(t, Effective(n, top))
        PROVE  mark'[s] >= mark[s]
    <3>1. Effective(n, top) \in Int
      BY OutboxAssumption DEF OutInv, OutTypeOK, Seqs, Effective, Smaller
    <3> QED
      BY <2>2, <2>3, <3>1
  <2>4. ASSUME mark' = mark PROVE mark'[s] >= mark[s]
    BY <2>1, <2>4
  <2> QED
    BY <2>3, <2>4
    DEF OutNext, Emit, EmitFails, EmitUnreported, Insert, PersistSession, Ack, AckFails, AckUnreported,
        Restart, store
<1>2. QED
  BY <1>1, OutboxInvariant, PTL DEF OutSpec, WatermarkMonotone
=============================================================================
