----------------------- MODULE ReliableConsumer_proofs -----------------------
(***************************************************************************)
(* What delivery to a reliable consumer guarantees, for any number of      *)
(* sessions, events, sockets and faults: the device forgets only what the  *)
(* server has committed, the server never sees an event a restart could    *)
(* take back, and the whole implements ReliableStream.                     *)
(*                                                                         *)
(* The outbox is a component: every step of ReliableConsumer is a step of  *)
(* Outbox or leaves it alone (OutStep), so OutInv comes from               *)
(* Outbox_proofs.  The rest of ReliableInv follows the two sockets.        *)
(***************************************************************************)
EXTENDS ReliableConsumer, Outbox_proofs, SequenceTheorems, FiniteSetTheorems, FunctionTheorems

-----------------------------------------------------------------------------
(***************************************************************************)
(* The replay.  What is pending is finite and committed, so its sorted     *)
(* enumerations are sequences of committed frames.                         *)
(***************************************************************************)
LEMMA PendingCommitted ==
  ASSUME OutInv
  PROVE  /\ AllPending \subseteq CommittedFrames
         /\ \A s \in Sessions, k \in Seqs : Pending(s, k) \subseteq AllPending
         /\ \A s \in Sessions, k \in Seqs : \A f \in Pending(s, k) : f.sid = s
<1>1. \A s \in Sessions : buffer[s] \subseteq Committed(s) /\ buffer[s] \subseteq Seqs
  BY DEF OutInv, Backed, OutTypeOK
<1>2. ASSUME NEW s \in Sessions, NEW n \in buffer[s] PROVE Frame(s, n) \in CommittedFrames
  BY <1>1, <1>2 DEF Frame, CommittedFrames, Frames
<1>3. \A s \in Sessions, k \in Seqs : \A f \in Pending(s, k) : f.sid = s
  BY DEF Pending, Frame
<1>4. AllPending \subseteq CommittedFrames
  BY <1>2 DEF AllPending, Pending
<1>5. \A s \in Sessions, k \in Seqs : Pending(s, k) \subseteq AllPending
  BY <1>1 DEF AllPending, Pending, Seqs
<1> QED
  BY <1>3, <1>4, <1>5

\* What the device keeps for replay is finite.
LEMMA PendingFinite ==
  ASSUME OutTypeOK
  PROVE  IsFiniteSet(AllPending)
<1> DEFINE P == Sessions \X Seqs
           E == {Frame(p[1], p[2]) : p \in P}
           f == [p \in P |-> Frame(p[1], p[2])]
<1>1. IsFiniteSet(Seqs)
  BY FS_Interval, OutboxAssumption DEF Seqs
<1>2. IsFiniteSet(P)
  BY <1>1, LinkAssumption, FS_Product
<1>3. f \in Surjection(P, E)
  BY DEF Surjection
<1>4. IsFiniteSet(E)
  <2> HIDE DEF P, E, f
  <2> QED
    BY <1>2, <1>3, FS_Surjection
<1>5. AllPending \subseteq E
  <2> SUFFICES ASSUME NEW s \in Sessions, NEW n \in buffer[s] PROVE Frame(s, n) \in E
    BY DEF AllPending, Pending
  <2>1. <<s, n>> \in P
    BY DEF OutTypeOK
  <2> QED
    BY <2>1
<1> HIDE DEF E
<1> QED
  BY <1>4, <1>5, FS_Subset

\* A replay is a sorted sequence of what is kept.
LEMMA ReplayIsSequence ==
  ASSUME OutTypeOK, NEW F \in SUBSET AllPending, NEW q \in Replays(F)
  PROVE  q \in Seq(F) /\ Sorted(q)
<1>1. IsFiniteSet(F)
  BY PendingFinite, FS_Subset
<1>2. Cardinality(F) \in Nat
  BY <1>1, FS_CardinalityType
<1> QED
  BY <1>2 DEF Replays

\* A page of the pending frames of one session carries committed frames only,
\* and the number it ends with is that of a pending frame's successor.
LEMMA PageCommitted ==
  ASSUME OutInv, NEW s \in Sessions, NEW k \in Seqs, NEW p \in Replays(Pending(s, k))
  PROVE  Page(s, p) \in Seq(CommittedFrames)
<1> DEFINE F == Pending(s, k)
<1>1. F \in SUBSET AllPending /\ F \subseteq CommittedFrames /\ \A f \in F : f.sid = s
  BY PendingCommitted
<1>2. p \in Seq(F) /\ Sorted(p)
  BY <1>1, ReplayIsSequence DEF OutInv
<1>3. p \in Seq(CommittedFrames)
  <2> HIDE DEF F
  <2> QED
    BY <1>1, <1>2, SeqMonotonic
<1>4. CASE Len(p) <= PageLimit
  BY <1>3, <1>4 DEF Page
<1>5. CASE ~ (Len(p) <= PageLimit)
  <2>1. /\ PageLimit \in Nat \ {0} /\ PageLimit \in 1..Len(p) /\ PageLimit + 1 \in 1..Len(p)
        /\ DOMAIN p = 1..Len(p)
    BY <1>3, <1>5, LinkAssumption, LenProperties
  <2>2. p[PageLimit] \in F /\ p[PageLimit + 1] \in F
    <3> HIDE DEF F
    <3> QED
      BY <2>1, <1>2, ElementOfSeq
  <2>3. /\ p[PageLimit].sid = s /\ p[PageLimit + 1].sid = s
        /\ p[PageLimit].num \in Seqs /\ p[PageLimit + 1].num \in Seqs
    BY <2>2, <1>1 DEF CommittedFrames, Frames
  <2>4. p[PageLimit].num < p[PageLimit + 1].num
    BY <1>2, <2>1, <2>3 DEF Sorted
  <2>5. p[PageLimit].num + 1 \in Seqs
    BY <2>3, <2>4, OutboxAssumption DEF Seqs
  <2>6. NextPage(s, p[PageLimit].num + 1) \in CommittedFrames
    BY <2>5 DEF NextPage, CommittedFrames, Frames
  <2>7. SubSeq(p, 1, PageLimit) \in Seq(CommittedFrames)
    BY <1>3, <2>1
  <2>8. <<NextPage(s, p[PageLimit].num + 1)>> \in Seq(CommittedFrames)
    BY <2>6
  <2>9. SubSeq(p, 1, PageLimit) \o <<NextPage(s, p[PageLimit].num + 1)>> \in Seq(CommittedFrames)
    BY <2>7, <2>8, ConcatProperties
  <2> QED
    BY <2>9, <1>5 DEF Page
<1> QED
  BY <1>4, <1>5

-----------------------------------------------------------------------------
(***************************************************************************)
(* The component: what a step does to the outbox, the sockets and the      *)
(* watermark.                                                              *)
(***************************************************************************)
LEMMA OutStep == TypeOK /\ [Next]_vars => [OutNext]_outVars
<1> SUFFICES ASSUME TypeOK, [Next]_vars PROVE [OutNext]_outVars
  OBVIOUS
<1>1. CASE DeviceActs
  <2>1. ASSUME toDevice # <<>>, Head(toDevice).kind \in {"welcome", "ack"}
        PROVE  Head(toDevice).sid \in Sessions /\ Head(toDevice).num \in 0..MaxSeq
    <3>1. Head(toDevice) \in Messages
      BY <2>1, HeadTailProperties DEF TypeOK, LinkTypeOK
    <3> QED
      BY <3>1, OutboxAssumption DEF Messages, Seqs
  <2>2. CASE DeviceAck
    BY <2>1, <2>2 DEF DeviceAck, OutNext
  <2>3. CASE DeviceAckFails
    BY <2>1, <2>3 DEF DeviceAckFails, OutNext
  <2>4. CASE Publish \/ DeviceReplay
    BY <2>4 DEF Publish, DeviceReplay
  <2>5. CASE \E s \in Sessions, c \in Contents :
               LinkEmit(s, c) \/ LinkEmitFails(s, c) \/ LinkEmitUnreported(s, c)
    BY <2>5 DEF LinkEmit, LinkEmitFails, LinkEmitUnreported, OutNext
  <2>6. CASE \E s \in Sessions : LinkPersist(s)
    BY <2>6 DEF LinkPersist, OutNext
  <2> QED
    BY <1>1, <2>2, <2>3, <2>4, <2>5, <2>6 DEF DeviceActs, DeviceStep
<1>2. CASE ServerAccepts \/ ServerReceives \/ ServerTurnsPage
  BY <1>2 DEF ServerAccepts, Connect, ServerReceives, ServerTurnsPage
<1>3. CASE \E h \in handling : Settle(h)
  BY <1>3 DEF Settle, Accept, AcceptAgain, Reject, Settled
<1>4. CASE SocketLost \/ ServerDies
  BY <1>4 DEF SocketLost, ServerDies, Drop
<1>5. CASE DeviceDies
  BY <1>5 DEF DeviceDies, DeviceRestart, OutNext
<1>6. CASE UNCHANGED vars
  BY <1>6 DEF vars
<1> QED
  BY <1>1, <1>2, <1>3, <1>4, <1>5, <1>6 DEF Next

\* What is committed stays committed, and an emission commits one number above
\* all before it.
LEMMA CommittedGrows ==
  ASSUME OutInv, [OutNext]_outVars
  PROVE  \/ \A s \in Sessions : Committed(s)' = Committed(s)
         \/ \E s \in Sessions, c \in Contents :
              /\ Emit(s, c) \/ EmitUnreported(s, c)
              /\ seq[s] \in Seqs
              /\ \A n \in Committed(s) : n < seq[s]
              /\ Committed(s)' = Committed(s) \cup {seq[s]}
              /\ \A t \in Sessions \ {s} : Committed(t)' = Committed(t)
<1>1. ASSUME NEW s \in Sessions, NEW c \in Contents, Emit(s, c) \/ EmitUnreported(s, c)
      PROVE  /\ seq[s] \in Seqs
             /\ \A n \in Committed(s) : n < seq[s]
             /\ Committed(s)' = Committed(s) \cup {seq[s]}
             /\ \A t \in Sessions \ {s} : Committed(t)' = Committed(t)
  <2>1. seq[s] < MaxSeq /\ Insert(s, seq[s], c)
    BY <1>1 DEF Emit, EmitUnreported, MayStamp
  <2>2. OutTypeOK
    BY DEF OutInv
  <2>3. /\ seq[s] \in Int /\ streamSeq[s] \in Int /\ streamSeq[s] <= seq[s]
        /\ Committed(s) \subseteq Int /\ \A n \in Committed(s) : n < streamSeq[s]
    BY Bounds
  <2>4. \A n \in Committed(s) : n < seq[s]
    BY <2>3
  <2> QED
    BY <2>1, <2>2, <2>4, InsertCommits
<1>2. log' = log => \A s \in Sessions : Committed(s)' = Committed(s)
  BY DEF Committed
<1>3. ASSUME NEW s \in Sessions, NEW c \in Contents, EmitFails(s, c) PROVE log' = log
  BY <1>3 DEF EmitFails, store
<1>4. ASSUME NEW s \in Sessions, PersistSession(s) PROVE log' = log
  BY <1>4 DEF PersistSession
<1>5. ASSUME NEW s \in Sessions, NEW n \in 0..MaxSeq, Ack(s, n) \/ AckFails(s, n) \/ AckUnreported(s, n)
      PROVE  log' = log
  BY <1>5 DEF Ack, AckFails, AckUnreported, Finalize, store
<1>6. Restart => log' = log
  BY DEF Restart
<1>7. UNCHANGED outVars => log' = log
  BY DEF outVars
<1> QED
  BY <1>1, <1>2, <1>3, <1>4, <1>5, <1>6, <1>7 DEF OutNext

\* No step of the outbox takes back a committed number.
LEMMA FramesStayCommitted ==
  ASSUME OutInv, [OutNext]_outVars
  PROVE  /\ \A s \in Sessions : Committed(s) \subseteq Committed(s)'
         /\ CommittedFrames \subseteq CommittedFrames'
<1>1. \A s \in Sessions : Committed(s) \subseteq Committed(s)'
  BY CommittedGrows
<1> QED
  BY <1>1 DEF CommittedFrames, Frames

\* The durable watermark moves with an acknowledgement only, and no further
\* than the acknowledged number.
LEMMA MarkMoves ==
  ASSUME OutInv, NEW s \in Sessions, NEW n \in Seqs,
         Ack(s, n) \/ AckFails(s, n) \/ AckUnreported(s, n)
  PROVE  \A t \in Sessions : mark'[t] = mark[t] \/ (t = s /\ mark'[t] <= n)
<1>1. CASE AckFails(s, n)
  BY <1>1 DEF AckFails, store
<1>2. ASSUME NEW top \in buffer[s], AckMoves(s, n, top), Finalize(s, Effective(n, top))
      PROVE  \A t \in Sessions : mark'[t] = mark[t] \/ (t = s /\ mark'[t] <= n)
  <2>1. top \in Int /\ n \in Int /\ mark[s] \in Int
    BY Bounds DEF Seqs
  <2>2. Effective(n, top) <= n /\ Effective(n, top) \in Int
    BY <2>1 DEF Effective, Smaller
  <2>3. mark' = [mark EXCEPT ![s] = Larger(@, Effective(n, top))]
    BY <1>2 DEF Finalize
  <2>4. mark \in [Sessions -> Seqs \cup {-1}]
    BY DEF OutInv, OutTypeOK
  <2> QED
    BY <2>1, <2>2, <2>3, <2>4 DEF Larger
<1> QED
  BY <1>1, <1>2 DEF Ack, AckFails, AckUnreported

-----------------------------------------------------------------------------
(***************************************************************************)
(* The device's steps.  The cursor does not move, so what was proved stays *)
(* proved, and an acknowledgement takes the watermark no further than the  *)
(* cursor.                                                                 *)
(***************************************************************************)
LEMMA DeviceStepSends ==
  ASSUME ReliableInv, DeviceStep
  PROVE  /\ toServer' \in Seq(CommittedFrames')
         /\ toDevice' \in Seq(ProvedMessages)
         /\ link' \in {"down", "attached", "up"}
         /\ runtime' \in BOOLEAN
         /\ drops' = drops
<1> DEFINE Goal == /\ toServer' \in Seq(CommittedFrames')
                   /\ toDevice' \in Seq(ProvedMessages)
                   /\ link' \in {"down", "attached", "up"}
                   /\ runtime' \in BOOLEAN
                   /\ drops' = drops
<1> SUFFICES Goal
  OBVIOUS
<1>1. OutInv /\ [OutNext]_outVars
  <2>1. DeviceStep => [OutNext]_outVars
    <3>1. DeviceActs => [OutNext]_outVars
      BY OutStep DEF ReliableInv, Next
    <3>2. ASSUME toDevice # <<>>, Head(toDevice).kind \in {"welcome", "ack"}
          PROVE  Head(toDevice).sid \in Sessions /\ Head(toDevice).num \in 0..MaxSeq
      <4>1. Head(toDevice) \in Messages
        BY <3>2, HeadTailProperties DEF ReliableInv, TypeOK, LinkTypeOK
      <4> QED
        BY <4>1, OutboxAssumption DEF Messages, Seqs
    <3>3. DeviceAck => [OutNext]_outVars
      BY <3>2 DEF DeviceAck, OutNext
    <3>4. DeviceAckFails => [OutNext]_outVars
      BY <3>2 DEF DeviceAckFails, OutNext
    <3> QED
      BY <3>3, <3>4 DEF DeviceStep, Publish, DeviceReplay, LinkEmit, LinkEmitFails,
                        LinkEmitUnreported, LinkPersist, OutNext
  <2> QED
    BY <2>1 DEF ReliableInv
<1>2. /\ toServer \in Seq(CommittedFrames) /\ toDevice \in Seq(ProvedMessages)
      /\ toServer \in Seq(CommittedFrames')
      /\ link \in {"down", "attached", "up"} /\ runtime \in BOOLEAN
  <2>1. toServer \in Seq(CommittedFrames)
    BY DEF ReliableInv
  <2> QED
    BY <1>1, <2>1, FramesStayCommitted, SeqMonotonic DEF ReliableInv, TypeOK, LinkTypeOK
<1>3. ASSUME NEW s \in Sessions, NEW c \in Contents, LinkEmit(s, c) PROVE Goal
  <2>1. seq[s] \in Seqs /\ seq[s] \in Committed(s)'
    BY <1>1, <1>3, InsertCommits DEF LinkEmit, Emit, MayStamp, OutInv
  <2>2. Frame(s, seq[s]) \in CommittedFrames'
    BY <2>1 DEF Frame, CommittedFrames, Frames
  <2>3. toServer' \in Seq(CommittedFrames')
    <3>1. Append(toServer, Frame(s, seq[s])) \in Seq(CommittedFrames')
      BY <1>2, <2>2
    <3> QED
      BY <1>2, <1>3, <3>1 DEF LinkEmit, Notify
  <2> QED
    BY <1>2, <1>3, <2>3 DEF LinkEmit
<1>4. ASSUME NEW s \in Sessions, NEW c \in Contents, LinkEmitFails(s, c) \/ LinkEmitUnreported(s, c)
      PROVE  Goal
  BY <1>2, <1>4 DEF LinkEmitFails, LinkEmitUnreported, linkVars
<1>5. ASSUME NEW s \in Sessions, LinkPersist(s) PROVE Goal
  BY <1>2, <1>5 DEF LinkPersist, linkVars
<1>6. CASE Publish
  <2>1. PICK q \in Replays(AllPending) : toServer' = toServer \o q
    BY <1>6 DEF Publish
  <2>2. q \in Seq(AllPending)
    BY <1>1, ReplayIsSequence DEF OutInv
  <2>3. q \in Seq(CommittedFrames)
    BY <1>1, <2>2, PendingCommitted, SeqMonotonic
  <2>4. CommittedFrames' = CommittedFrames
    BY <1>6 DEF Publish, outVars, CommittedFrames, Committed
  <2>5. toServer' \in Seq(CommittedFrames')
    BY <1>2, <2>1, <2>3, <2>4, ConcatProperties
  <2> QED
    BY <1>2, <1>6, <2>5 DEF Publish
<1>7. CASE DeviceAck
  <2>1. Tail(toDevice) \in Seq(ProvedMessages)
    BY <1>2, <1>7, HeadTailProperties DEF DeviceAck
  <2> QED
    BY <1>2, <1>7, <2>1 DEF DeviceAck
<1>8. CASE DeviceAckFails
  <2>1. Tail(toDevice) \in Seq(ProvedMessages)
    BY <1>2, <1>8, HeadTailProperties DEF DeviceAckFails
  <2>2. <<>> \in Seq(ProvedMessages) /\ <<>> \in Seq(CommittedFrames')
    BY EmptySeq
  <2> QED
    BY <1>2, <1>8, <2>1, <2>2 DEF DeviceAckFails
<1>9. CASE DeviceReplay
  <2> DEFINE m == Head(toDevice)
  <2>1. m \in Messages /\ Tail(toDevice) \in Seq(ProvedMessages)
    BY <1>2, <1>9, HeadTailProperties DEF DeviceReplay, ProvedMessages
  <2>2. m.sid \in Sessions /\ m.num \in Seqs
    BY <2>1 DEF Messages
  <2>3. PICK p \in Replays(Pending(m.sid, m.num)) : toServer' = toServer \o Page(m.sid, p)
    BY <1>9 DEF DeviceReplay
  <2>4. Page(m.sid, p) \in Seq(CommittedFrames)
    BY <1>1, <2>2, PageCommitted
  <2>5. CommittedFrames' = CommittedFrames
    BY <1>9 DEF DeviceReplay, outVars, CommittedFrames, Committed
  <2>6. toServer' \in Seq(CommittedFrames')
    BY <1>2, <2>3, <2>4, <2>5, ConcatProperties
  <2> QED
    BY <1>2, <1>9, <2>1, <2>6 DEF DeviceReplay
<1> HIDE DEF Goal
<1> QED
  BY <1>3, <1>4, <1>5, <1>6, <1>7, <1>8, <1>9 DEF DeviceStep

\* A step of the device drops only what the consumer has.
LEMMA DeviceForgetsProved ==
  ASSUME ReliableInv, DeviceActs
  PROVE  ForgetsOnlyConsumed'
<1> SUFFICES ASSUME NEW t \in Sessions PROVE mark'[t] <= cursor'[t]
  BY DEF ForgetsOnlyConsumed
<1>1. mark[t] <= cursor[t] /\ cursor' = cursor /\ OutInv
  BY DEF ReliableInv, ForgetsOnlyConsumed, DeviceActs
<1>2. ASSUME toDevice # <<>>, Head(toDevice).kind \in {"welcome", "ack"}
      PROVE  /\ Head(toDevice).sid \in Sessions /\ Head(toDevice).num \in Seqs
             /\ Head(toDevice).num <= cursor[Head(toDevice).sid]
  <2>1. Head(toDevice) \in ProvedMessages
    BY <1>2, HeadTailProperties DEF ReliableInv
  <2> QED
    BY <1>2, <2>1 DEF ProvedMessages, Messages
<1>3. mark'[t] \in Int /\ mark[t] \in Int /\ cursor[t] \in Int
  <2>1. mark[t] \in Int /\ mark'[t] \in Int
    <3>1. OutInv'
      BY InvStep, OutStep DEF ReliableInv, Next
    <3> QED
      BY <1>1, <3>1 DEF OutInv, OutTypeOK, Seqs
  <2> QED
    BY <2>1 DEF ReliableInv, TypeOK, Seqs
<1>4. ASSUME NEW s \in Sessions, NEW n \in Seqs, n <= cursor[s],
             Ack(s, n) \/ AckFails(s, n) \/ AckUnreported(s, n)
      PROVE  mark'[t] <= cursor[t]
  <2>1. mark'[t] = mark[t] \/ (t = s /\ mark'[t] <= n)
    BY <1>1, <1>4, MarkMoves
  <2>2. n \in Int
    BY DEF Seqs
  <2> QED
    BY <1>1, <1>3, <1>4, <2>1, <2>2
<1>5. CASE DeviceAck
  BY <1>1, <1>2, <1>4, <1>5 DEF DeviceAck, outVars
<1>6. CASE DeviceAckFails
  BY <1>1, <1>2, <1>4, <1>6 DEF DeviceAckFails
<1>7. CASE Publish \/ DeviceReplay
  BY <1>1, <1>7 DEF Publish, DeviceReplay, outVars
<1>8. ASSUME NEW s \in Sessions, NEW c \in Contents,
             LinkEmit(s, c) \/ LinkEmitFails(s, c) \/ LinkEmitUnreported(s, c)
      PROVE  mark' = mark
  BY <1>8 DEF LinkEmit, LinkEmitFails, LinkEmitUnreported, Emit, EmitFails, EmitUnreported,
              Insert, store
<1>9. ASSUME NEW s \in Sessions, LinkPersist(s) PROVE mark' = mark
  BY <1>9 DEF LinkPersist, PersistSession
<1> QED
  BY <1>1, <1>5, <1>6, <1>7, <1>8, <1>9 DEF DeviceActs, DeviceStep

-----------------------------------------------------------------------------
(***************************************************************************)
(* The server's steps.  The cursor only grows, so what is on its way to    *)
(* the device stays proved, and every answer is proved when it is sent.    *)
(***************************************************************************)
LEMMA AnswersStayProved ==
  ASSUME cursor \in [Sessions -> Seqs \cup {-1}], cursor' \in [Sessions -> Seqs \cup {-1}],
         \A s \in Sessions : cursor[s] <= cursor'[s]
  PROVE  ProvedMessages \subseteq ProvedMessages'
<1> SUFFICES ASSUME NEW m \in Messages, m.kind # "replay" => m.num <= cursor[m.sid]
             PROVE  m.kind # "replay" => m.num <= cursor'[m.sid]
  BY DEF ProvedMessages
<1>1. m.sid \in Sessions /\ m.num \in Int /\ cursor[m.sid] \in Int /\ cursor'[m.sid] \in Int
  BY DEF Messages, Seqs
<1> QED
  BY <1>1

\* What a settled handler answers is proved by the cursor it leaves.
LEMMA AnswerProved ==
  ASSUME TypeOK, cursor' \in [Sessions -> Seqs \cup {-1}], NEW h \in handling,
         NEW n \in Seqs, n <= cursor'[h.sid], toDevice \in Seq(ProvedMessages'),
         Answer(h, AckOf(h, n) \o RestOf(h, n))
  PROVE  toDevice' \in Seq(ProvedMessages')
<1>1. h.sid \in Sessions /\ missed[h.sid] \in Seqs \cup {-1}
  BY DEF TypeOK
<1>2. AckOf(h, n) \in Seq(ProvedMessages')
  BY <1>1 DEF AckOf, Message, ProvedMessages, Messages
<1>3. RestOf(h, n) \in Seq(ProvedMessages')
  <2>1. CASE missed[h.sid] > n
    <3>1. n + 1 \in Seqs
      BY <1>1, <2>1, OutboxAssumption DEF Seqs
    <3>2. Message("replay", h.sid, n + 1) \in ProvedMessages'
      BY <1>1, <3>1 DEF Message, ProvedMessages, Messages
    <3>3. RestOf(h, n) = <<Message("replay", h.sid, n + 1)>>
      BY <2>1 DEF RestOf, ReplayOf
    <3> QED
      BY <3>2, <3>3
  <2>2. CASE ~ (missed[h.sid] > n)
    BY <2>2 DEF RestOf
  <2> QED
    BY <2>1, <2>2
<1> DEFINE answer == AckOf(h, n) \o RestOf(h, n)
<1>4. answer \in Seq(ProvedMessages')
  BY <1>2, <1>3, ConcatProperties
<1>5. toDevice \o answer \in Seq(ProvedMessages')
  <2> HIDE DEF answer
  <2> QED
    BY <1>4, ConcatProperties
<1> QED
  BY <1>5 DEF Answer

\* A handler that settles moves its stream's cursor by one committed event, or leaves it.
LEMMA SettleStep ==
  ASSUME ReliableInv, NEW h \in handling, Settle(h)
  PROVE  /\ cursor' \in [Sessions -> Seqs \cup {-1}]
         /\ missed' \in [Sessions -> Seqs \cup {-1}]
         /\ toDevice' \in Seq(ProvedMessages')
         /\ handling' \subseteq handling
         /\ \A s \in Sessions : cursor[s] <= cursor'[s]
         /\ \A s \in Sessions : cursor'[s] = cursor[s] \/ (/\ s = h.sid
                                                           /\ cursor'[s] = cursor[s] + 1
                                                           /\ cursor'[s] \in Committed(s))
<1>1. /\ TypeOK /\ h.sid \in Sessions /\ h.num \in Seqs /\ h.num \in Committed(h.sid)
      /\ cursor \in [Sessions -> Seqs \cup {-1}] /\ missed \in [Sessions -> Seqs \cup {-1}]
      /\ toDevice \in Seq(ProvedMessages)
  BY DEF ReliableInv, TypeOK
<1>2. handling' \subseteq handling
  BY DEF Settle, Accept, AcceptAgain, Reject, Settled
<1>3. \A s \in Sessions : cursor[s] \in Int
  BY <1>1 DEF Seqs
<1>4. CASE Accept(h)
  <2>1. cursor' \in [Sessions -> Seqs \cup {-1}] /\ missed' = missed /\ h.num <= cursor'[h.sid]
    BY <1>1, <1>4 DEF Accept, Seqs
  <2>2. \A s \in Sessions : /\ cursor[s] <= cursor'[s]
                            /\ cursor'[s] = cursor[s] \/ (/\ s = h.sid
                                                          /\ cursor'[s] = cursor[s] + 1
                                                          /\ cursor'[s] \in Committed(s))
    BY <1>1, <1>3, <1>4 DEF Accept
  <2>3. toDevice \in Seq(ProvedMessages')
    BY <1>1, <2>1, <2>2, AnswersStayProved, SeqMonotonic
  <2>4. toDevice' \in Seq(ProvedMessages')
    BY <1>1, <1>4, <2>1, <2>3, AnswerProved DEF Accept
  <2> QED
    BY <1>1, <1>2, <2>1, <2>2, <2>4
<1>5. CASE AcceptAgain(h)
  <2>1. cursor' = cursor /\ missed' = missed /\ cursor[h.sid] \in Seqs
    BY <1>1, <1>5 DEF AcceptAgain, Seqs
  <2>2. ProvedMessages' = ProvedMessages
    BY <2>1 DEF ProvedMessages
  <2>3. toDevice' \in Seq(ProvedMessages')
    <3> DEFINE n == cursor[h.sid]
    <3>1. n \in Seqs /\ n <= cursor'[h.sid] /\ Answer(h, AckOf(h, n) \o RestOf(h, n))
      BY <1>1, <1>3, <1>5, <2>1 DEF AcceptAgain
    <3> HIDE DEF n
    <3> QED
      BY <1>1, <2>1, <2>2, <3>1, AnswerProved
  <2> QED
    BY <1>1, <1>2, <1>3, <2>1, <2>3
<1>6. CASE Reject(h)
  <2>1. cursor' = cursor /\ missed' \in [Sessions -> Seqs \cup {-1}]
    BY <1>1, <1>6 DEF Reject, Larger
  <2>2. ProvedMessages' = ProvedMessages
    BY <2>1 DEF ProvedMessages
  <2>3. cursor[h.sid] + 1 \in Seqs
    BY <1>1, <1>6, OutboxAssumption DEF Reject, Seqs
  <2>4. ReplayOf(h, cursor[h.sid] + 1) \in Seq(ProvedMessages)
    BY <1>1, <2>3 DEF ReplayOf, Message, ProvedMessages, Messages
  <2>5. toDevice \o ReplayOf(h, cursor[h.sid] + 1) \in Seq(ProvedMessages)
    BY <1>1, <2>4, ConcatProperties
  <2>6. toDevice \o <<>> = toDevice
    BY <1>1, ConcatEmptySeq
  <2>7. toDevice' \in Seq(ProvedMessages')
    BY <1>1, <1>6, <2>2, <2>5, <2>6 DEF Reject, Answer
  <2> QED
    BY <1>1, <1>2, <1>3, <2>1, <2>7
<1> QED
  BY <1>4, <1>5, <1>6 DEF Settle

\* A dial is greeted with cursors.
LEMMA GreetingProved ==
  ASSUME ReliableInv, ServerAccepts
  PROVE  toDevice' \in Seq(ProvedMessages) /\ toServer' = <<>>
<1>1. PICK told \in SUBSET {s \in Sessions : cursor[s] >= 0} :
        \E order \in [1..Cardinality(told) -> told] :
          Connect([i \in DOMAIN order |-> Message("welcome", order[i], cursor[order[i]])])
  BY DEF ServerAccepts
<1>2. PICK order \in [1..Cardinality(told) -> told] :
        Connect([i \in DOMAIN order |-> Message("welcome", order[i], cursor[order[i]])])
  BY <1>1
<1>3. Cardinality(told) \in Nat
  BY LinkAssumption, FS_Subset, FS_CardinalityType
<1>4. \A s \in told : Message("welcome", s, cursor[s]) \in ProvedMessages
  <2> SUFFICES ASSUME NEW s \in told PROVE Message("welcome", s, cursor[s]) \in ProvedMessages
    OBVIOUS
  <2>1. s \in Sessions /\ cursor[s] \in Seqs
    BY DEF ReliableInv, TypeOK
  <2> QED
    BY <2>1 DEF Message, ProvedMessages, Messages, Seqs
<1>5. [i \in DOMAIN order |-> Message("welcome", order[i], cursor[order[i]])] \in Seq(ProvedMessages)
  BY <1>3, <1>4
<1> QED
  BY <1>2, <1>5 DEF Connect

-----------------------------------------------------------------------------
(***************************************************************************)
(* The inductive invariant and what follows from it.                       *)
(***************************************************************************)
LEMMA ReliableInit == Init => ReliableInv
<1> SUFFICES ASSUME Init PROVE ReliableInv
  OBVIOUS
<1>1. OutInv
  BY OutboxInit DEF Init, LinkInit
<1>2. TypeOK
  <2>1. OutTypeOK
    BY <1>1 DEF OutInv
  <2>2. <<>> \in Seq(Frames) /\ <<>> \in Seq(Messages) /\ 0 \in 0..MaxDrops
    BY EmptySeq, LinkAssumption
  <2> QED
    BY <2>1, <2>2 DEF Init, LinkInit, TypeOK, LinkTypeOK
<1>3. ForgetsOnlyConsumed
  BY DEF Init, LinkInit, OutInit, ForgetsOnlyConsumed
<1>4. toServer \in Seq(CommittedFrames) /\ toDevice \in Seq(ProvedMessages) /\ handling = {}
  BY EmptySeq DEF Init, LinkInit
<1> QED
  BY <1>1, <1>2, <1>3, <1>4 DEF ReliableInv

\* Every step keeps the invariant.
LEMMA ReliableStep == ReliableInv /\ [Next]_vars => ReliableInv'
<1> SUFFICES ASSUME ReliableInv, [Next]_vars PROVE ReliableInv'
  OBVIOUS
<1> DEFINE Sockets == /\ toServer \in Seq(CommittedFrames)
                      /\ toDevice \in Seq(ProvedMessages)
                      /\ link \in {"down", "attached", "up"}
                      /\ runtime \in BOOLEAN
                      /\ drops \in 0..MaxDrops
           Server  == /\ cursor \in [Sessions -> Seqs \cup {-1}]
                      /\ missed \in [Sessions -> Seqs \cup {-1}]
                      /\ handling \subseteq [sid : Sessions, num : Seqs, live : BOOLEAN]
                      /\ \A h \in handling : h.num \in Committed(h.sid)
                      /\ ForgetsOnlyConsumed
<1>1. TypeOK /\ OutInv /\ Sockets /\ Server
  BY DEF ReliableInv, TypeOK, LinkTypeOK
<1>2. [OutNext]_outVars
  BY <1>1, OutStep
<1>3. OutInv'
  BY <1>1, <1>2, InvStep
<1>4. /\ \A s \in Sessions : Committed(s) \subseteq Committed(s)'
      /\ CommittedFrames \subseteq CommittedFrames'
  BY <1>1, <1>2, FramesStayCommitted
<1>5. toServer \in Seq(CommittedFrames')
  BY <1>1, <1>4, SeqMonotonic
<1>6. cursor' = cursor => ProvedMessages' = ProvedMessages
  BY DEF ProvedMessages
<1>7. UNCHANGED handling \/ handling' \subseteq handling \/ handling' = Orphaned
      => /\ handling' \subseteq [sid : Sessions, num : Seqs, live : BOOLEAN]
         /\ \A h \in handling' : h.num \in Committed(h.sid)'
  <2>1. \A h \in handling : /\ h.sid \in Sessions /\ h.num \in Seqs
                            /\ h.num \in Committed(h.sid)'
    BY <1>1, <1>4
  <2>2. CASE handling' \subseteq handling
    BY <1>1, <2>1, <2>2
  <2>3. CASE handling' = Orphaned
    <3>1. \A g \in Orphaned : \E h \in handling : g.sid = h.sid /\ g.num = h.num
      BY DEF Orphaned, Handler
    <3>2. Orphaned \subseteq [sid : Sessions, num : Seqs, live : BOOLEAN]
      <4>1. ASSUME NEW h \in handling
            PROVE  Handler(h, FALSE) \in [sid : Sessions, num : Seqs, live : BOOLEAN]
        <5>1. h.sid \in Sessions /\ h.num \in Seqs
          BY <2>1
        <5> QED
          BY <5>1 DEF Handler
      <4> QED
        BY <4>1 DEF Orphaned
    <3>3. ASSUME NEW g \in Orphaned PROVE g.num \in Committed(g.sid)'
      BY <2>1, <3>1
    <3> QED
      BY <2>3, <3>2, <3>3
  <2> QED
    BY <2>2, <2>3
<1>8. Forget => missed' \in [Sessions -> Seqs \cup {-1}]
  BY DEF Forget
<1>9. UNCHANGED <<mark, cursor>> => ForgetsOnlyConsumed'
  BY <1>1 DEF ForgetsOnlyConsumed
<1>10. <<>> \in Seq(CommittedFrames') /\ <<>> \in Seq(ProvedMessages')
  BY EmptySeq
<1>11. ASSUME DeviceActs PROVE Sockets' /\ Server'
  <2>1. DeviceStep /\ cursor' = cursor
    BY <1>11 DEF DeviceActs
  <2>2. Sockets'
    BY <1>1, <1>6, <2>1, DeviceStepSends
  <2>3. (handling' = Orphaned /\ Forget) \/ UNCHANGED <<handling, missed>>
    BY <1>11 DEF DeviceActs
  <2>4. ForgetsOnlyConsumed'
    BY <1>11, DeviceForgetsProved
  <2> QED
    BY <1>1, <1>7, <1>8, <2>1, <2>2, <2>3, <2>4
<1>12. ASSUME ServerAccepts PROVE Sockets' /\ Server'
  <2>1. /\ UNCHANGED <<outVars, cursor, missed, handling, drops>>
        /\ link' = "attached" /\ runtime' = TRUE
    BY <1>12 DEF ServerAccepts, Connect
  <2>2. toDevice' \in Seq(ProvedMessages) /\ toServer' = <<>>
    BY <1>12, GreetingProved
  <2>3. mark' = mark
    BY <2>1 DEF outVars
  <2> QED
    BY <1>1, <1>6, <1>7, <1>9, <1>10, <2>1, <2>2, <2>3
<1>13. ASSUME ServerReceives PROVE Sockets' /\ Server'
  <2>1. /\ UNCHANGED <<outVars, link, runtime, toDevice, drops, cursor, missed>>
        /\ toServer' = Tail(toServer) /\ toServer # <<>>
        /\ handling' = handling \cup {Handler(Head(toServer), TRUE)}
        /\ Head(toServer).kind = "event"
    BY <1>13 DEF ServerReceives
  <2>2. Head(toServer) \in CommittedFrames /\ Tail(toServer) \in Seq(CommittedFrames')
    BY <1>1, <1>5, <2>1, HeadTailProperties
  <2>3. Handler(Head(toServer), TRUE) \in [sid : Sessions, num : Seqs, live : BOOLEAN]
        /\ Head(toServer).num \in Committed(Head(toServer).sid)
    BY <2>1, <2>2 DEF CommittedFrames, Frames, Handler
  <2>4. log' = log /\ mark' = mark
    BY <2>1 DEF outVars
  <2>5. \A h \in handling' : h.num \in Committed(h.sid)'
    BY <1>1, <2>1, <2>3, <2>4 DEF Handler, Committed
  <2> QED
    BY <1>1, <1>6, <1>9, <2>1, <2>2, <2>3, <2>4, <2>5
<1>14. ASSUME ServerTurnsPage PROVE Sockets' /\ Server'
  <2>1. /\ UNCHANGED <<outVars, link, runtime, drops, cursor, missed, handling>>
        /\ toServer' = Tail(toServer) /\ toServer # <<>>
        /\ toDevice' = Append(toDevice, Message("replay", Head(toServer).sid, Head(toServer).num))
    BY <1>14 DEF ServerTurnsPage
  <2>2. Head(toServer) \in CommittedFrames /\ Tail(toServer) \in Seq(CommittedFrames')
    BY <1>1, <1>5, <2>1, HeadTailProperties
  <2>3. Message("replay", Head(toServer).sid, Head(toServer).num) \in ProvedMessages
    BY <2>2 DEF CommittedFrames, Frames, Message, ProvedMessages, Messages
  <2>4. toDevice' \in Seq(ProvedMessages)
    BY <1>1, <2>1, <2>3
  <2>5. mark' = mark
    BY <2>1 DEF outVars
  <2> QED
    BY <1>1, <1>6, <1>7, <1>9, <2>1, <2>2, <2>4, <2>5
<1>15. ASSUME NEW h \in handling, Settle(h) PROVE Sockets' /\ Server'
  <2>1. UNCHANGED <<outVars, link, runtime, toServer, drops>>
    BY <1>15 DEF Settle, Accept, AcceptAgain, Reject, Settled
  <2>2. /\ cursor' \in [Sessions -> Seqs \cup {-1}]
        /\ missed' \in [Sessions -> Seqs \cup {-1}]
        /\ toDevice' \in Seq(ProvedMessages')
        /\ handling' \subseteq handling
        /\ \A s \in Sessions : cursor[s] <= cursor'[s]
    BY <1>15, SettleStep
  <2>3. ForgetsOnlyConsumed'
    <3> SUFFICES ASSUME NEW s \in Sessions PROVE mark'[s] <= cursor'[s]
      BY DEF ForgetsOnlyConsumed
    <3>1. mark'[s] = mark[s] /\ mark[s] <= cursor[s] /\ cursor[s] <= cursor'[s]
      BY <1>1, <2>1, <2>2 DEF ForgetsOnlyConsumed, outVars
    <3>2. mark[s] \in Int /\ cursor[s] \in Int /\ cursor'[s] \in Int
      BY <1>1, <2>2, Bounds DEF Seqs
    <3> QED
      BY <3>1, <3>2
  <2> QED
    BY <1>1, <1>5, <1>7, <2>1, <2>2, <2>3
<1>16. ASSUME SocketLost \/ DeviceDies \/ ServerDies PROVE Sockets' /\ Server'
  <2>1. /\ Lose /\ Forget /\ cursor' = cursor /\ mark' = mark
        /\ handling' = Orphaned \/ handling' = {}
        /\ drops' \in {drops, drops + 1} /\ (drops' = drops \/ drops < MaxDrops)
        /\ runtime' \in {runtime, FALSE}
    BY <1>16 DEF SocketLost, DeviceDies, ServerDies, Drop, DeviceRestart, Restart, outVars
  <2>2. drops' \in 0..MaxDrops
    BY <1>1, <2>1, LinkAssumption
  <2> QED
    BY <1>1, <1>7, <1>8, <1>9, <1>10, <2>1, <2>2 DEF Lose
<1>17. ASSUME UNCHANGED vars PROVE Sockets' /\ Server'
  <2>1. UNCHANGED <<link, runtime, toServer, toDevice, drops, cursor, missed, handling, mark>>
    BY <1>17 DEF vars, linkVars, outVars
  <2> QED
    BY <1>1, <1>5, <1>6, <1>7, <1>9, <2>1
<1>18. Sockets' /\ Server'
  <2> HIDE DEF Sockets, Server
  <2> QED
    BY <1>11, <1>12, <1>13, <1>14, <1>15, <1>16, <1>17 DEF Next
<1>19. TypeOK'
  <2>1. toServer' \in Seq(Frames') /\ toDevice' \in Seq(Messages')
    <3>1. CommittedFrames' \subseteq Frames' /\ ProvedMessages' \subseteq Messages'
      BY DEF CommittedFrames, ProvedMessages, Frames, Messages
    <3> QED
      BY <1>18, <3>1, SeqMonotonic
  <2> QED
    BY <1>3, <1>18, <2>1 DEF TypeOK, LinkTypeOK, OutInv
<1> QED
  BY <1>3, <1>18, <1>19 DEF ReliableInv

\* The inductive invariant of the outbox, the wire, the cursors and the handlers
\* (PhononConnection and PhononDevice together).
THEOREM ReliableInvariant == Spec => []ReliableInv
  BY ReliableInit, ReliableStep, PTL DEF Spec

\* Frames, cursors, pages and handlers are what their types say.
THEOREM ReliableTypes == Spec => []TypeOK
<1>1. ReliableInv => TypeOK
  BY DEF ReliableInv
<1> QED
  BY <1>1, ReliableInvariant, PTL

\* The device forgets only what the server has committed.
THEOREM ForgottenIsConsumed == Spec => []ForgetsOnlyConsumed
<1>1. ReliableInv => ForgetsOnlyConsumed
  BY DEF ReliableInv
<1> QED
  BY <1>1, ReliableInvariant, PTL

\* No frame the server can see carries an event a restart could take back.
THEOREM SentWasCommitted == Spec => []SentIsCommitted
<1>1. ReliableInv => SentIsCommitted
  <2> SUFFICES ASSUME ReliableInv PROVE SentIsCommitted
    OBVIOUS
  <2>1. \A i \in DOMAIN toServer : toServer[i] \in CommittedFrames
    BY ElementOfSeq, LenProperties DEF ReliableInv
  <2> QED
    BY <2>1 DEF ReliableInv, SentIsCommitted, CommittedFrames
<1> QED
  BY <1>1, ReliableInvariant, PTL

-----------------------------------------------------------------------------
(***************************************************************************)
(* ReliableConsumer implements ReliableStream: an emission produces, an    *)
(* accepted frame is consumed, every other step stutters.                  *)
(***************************************************************************)
LEMMA RefinedInit == Init => Reliable!Init
<1> SUFFICES ASSUME Init PROVE Reliable!Init
  OBVIOUS
<1>1. \A s \in Sessions : Committed(s) = {}
  BY DEF Init, LinkInit, OutInit, Committed
<1> QED
  BY <1>1 DEF Init, Reliable!Init

\* Every step is one of the abstract stream, or leaves it as it is.
LEMMA RefinedStep ==
  ReliableInv /\ [Next]_vars => [Reliable!Next]_<<[s \in Sessions |-> Committed(s)], cursor>>
<1> SUFFICES ASSUME ReliableInv, [Next]_vars
             PROVE  Reliable!Next \/ UNCHANGED <<[s \in Sessions |-> Committed(s)], cursor>>
  OBVIOUS
<1>1. TypeOK /\ OutInv /\ [OutNext]_outVars
  BY OutStep DEF ReliableInv
<1>2. ASSUME UNCHANGED cursor
      PROVE  Reliable!Next \/ UNCHANGED <<[s \in Sessions |-> Committed(s)], cursor>>
  <2>1. CASE \A s \in Sessions : Committed(s)' = Committed(s)
    BY <1>2, <2>1
  <2>2. CASE \E s \in Sessions :
               /\ seq[s] \in Seqs
               /\ \A n \in Committed(s) : n < seq[s]
               /\ Committed(s)' = Committed(s) \cup {seq[s]}
               /\ \A t \in Sessions \ {s} : Committed(t)' = Committed(t)
    <3>1. PICK s \in Sessions : /\ seq[s] \in Seqs
                                /\ \A n \in Committed(s) : n < seq[s]
                                /\ Committed(s)' = Committed(s) \cup {seq[s]}
                                /\ \A t \in Sessions \ {s} : Committed(t)' = Committed(t)
      BY <2>2
    <3>2. Reliable!Produce(s)
      BY <1>2, <3>1 DEF Reliable!Produce, Seqs
    <3> QED
      BY <3>2 DEF Reliable!Next
  <2> QED
    BY <1>1, <2>1, <2>2, CommittedGrows
<1>3. ASSUME NEW h \in handling, Settle(h)
      PROVE  Reliable!Next \/ UNCHANGED <<[s \in Sessions |-> Committed(s)], cursor>>
  <2>1. h.sid \in Sessions /\ cursor \in [Sessions -> Seqs \cup {-1}]
    BY <1>1 DEF TypeOK
  <2>2. UNCHANGED outVars
    BY <1>3 DEF Settle, Accept, AcceptAgain, Reject, Settled
  <2>3. \A s \in Sessions : Committed(s)' = Committed(s)
    BY <2>2 DEF Committed, outVars
  <2>4. CASE Accept(h)
    <3>1. h.num \in Committed(h.sid) /\ h.num = cursor[h.sid] + 1
      BY <2>4 DEF Accept, ReliableInv
    <3>2. Reliable!Consume(h.sid)
      BY <2>1, <2>3, <2>4, <3>1 DEF Accept, Reliable!Consume
    <3> QED
      BY <2>1, <3>2 DEF Reliable!Next
  <2>5. CASE AcceptAgain(h) \/ Reject(h)
    BY <2>3, <2>5 DEF AcceptAgain, Reject
  <2> QED
    BY <1>3, <2>4, <2>5 DEF Settle
<1>4. ASSUME ~ (\E h \in handling : Settle(h)) PROVE UNCHANGED cursor
  BY <1>4 DEF Next, DeviceActs, ServerAccepts, ServerReceives, ServerTurnsPage, SocketLost,
              DeviceDies, ServerDies, vars
<1> QED
  BY <1>2, <1>3, <1>4

\* Socket losses, replays, restarts and concurrent handlers are invisible in the
\* abstract stream: every committed event is consumed once and in order.
THEOREM ReliableRefines == Spec => ImplementsReliableStream
<1>1. Spec => [][Reliable!Next]_<<[s \in Sessions |-> Committed(s)], cursor>>
  BY RefinedStep, ReliableInvariant, PTL DEF Spec
<1> QED
  BY <1>1, RefinedInit, PTL DEF Spec, ImplementsReliableStream, Reliable!Spec
=============================================================================
