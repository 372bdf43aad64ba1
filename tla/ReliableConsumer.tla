-------------------------- MODULE ReliableConsumer --------------------------
(***************************************************************************)
(* Stream delivery to a server that registered a reliable stream handler   *)
(* (sdk-server-ts, setStreamEventHandler): the handler commits a           *)
(* contiguous prefix and the SDK acknowledges what it proves; a frame      *)
(* beyond a gap is rejected without an acknowledgement and the missing     *)
(* part asked for with stream.replay.  The SDK starts a handler for every  *)
(* frame as it arrives, so handlers of one session run concurrently.  What *)
(* the handler does with a frame is the application's; it is modelled from *)
(* the contract setStreamEventHandler states.                              *)
(***************************************************************************)
EXTENDS StreamLink

VARIABLES
  cursor,    \* the consumer's committed prefix, durable on the server
  missed,    \* highest number rejected on this socket, -1 for none
  handling   \* frames whose handler is running; live while their socket is

vars == <<outVars, linkVars, cursor, missed, handling>>

Handler(f, l) == [sid |-> f.sid, num |-> f.num, live |-> l]

Init == /\ LinkInit
        /\ cursor   = [s \in Sessions |-> -1]
        /\ missed   = [s \in Sessions |-> -1]
        /\ handling = {}

\* The handlers of a lost socket finish; their acknowledgements go nowhere.
Orphaned == {Handler(h, FALSE) : h \in handling}

-----------------------------------------------------------------------------
\* The server accepts a dial; it may report its cursors in the welcome.
ServerAccepts ==
  /\ \E told \in SUBSET {s \in Sessions : cursor[s] >= 0} :
       \E order \in [1..Cardinality(told) -> told] :
         /\ \A i, j \in DOMAIN order : order[i] = order[j] => i = j
         /\ Connect([i \in DOMAIN order |-> Message("welcome", order[i], cursor[order[i]])])
  /\ UNCHANGED <<cursor, missed, handling>>

ServerReceives ==
  /\ toServer # <<>>
  /\ Head(toServer).kind = "event"
  /\ handling' = handling \cup {Handler(Head(toServer), TRUE)}
  /\ toServer' = Tail(toServer)
  /\ UNCHANGED <<outVars, link, runtime, toDevice, drops, cursor, missed>>

\* A replay answered with nextSeq: ask for the next page.
ServerTurnsPage ==
  /\ toServer # <<>>
  /\ LET f == Head(toServer) IN
       /\ f.kind = "page"
       /\ toDevice' = Append(toDevice, Message("replay", f.sid, f.num))
  /\ toServer' = Tail(toServer)
  /\ UNCHANGED <<outVars, link, runtime, drops, cursor, missed, handling>>

\* What the server sends when the handler of h settles; nothing once the
\* socket is gone.
Answer(h, messages) == toDevice' = IF h.live THEN toDevice \o messages ELSE toDevice

AckOf(h, n)    == <<Message("ack", h.sid, n)>>
ReplayOf(h, n) == <<Message("replay", h.sid, n)>>

Settled(h) == /\ handling' = handling \ {h}
              /\ UNCHANGED <<outVars, link, runtime, toServer, drops>>

\* Mutant of Accept: the frame after a gap is committed too.
AcceptAnything(h) ==
  /\ h.num > cursor[h.sid]
  /\ cursor' = [cursor EXCEPT ![h.sid] = h.num]
  /\ Answer(h, AckOf(h, h.num))
  /\ UNCHANGED missed
  /\ Settled(h)

\* If a frame beyond n was rejected on this socket, the rest is asked for.
RestOf(h, n) == IF missed[h.sid] > n THEN ReplayOf(h, n + 1) ELSE <<>>

\* The frame extends the committed prefix.
Accept(h) ==
  /\ h.num = cursor[h.sid] + 1
  /\ cursor' = [cursor EXCEPT ![h.sid] = h.num]
  /\ Answer(h, AckOf(h, h.num) \o RestOf(h, h.num))
  /\ UNCHANGED missed
  /\ Settled(h)

\* Mutant of AcceptAgain: a frame consumed before is dropped without an answer.
AcceptAgainSilently(h) ==
  /\ h.num <= cursor[h.sid]
  /\ UNCHANGED <<cursor, missed, toDevice>>
  /\ Settled(h)

\* The frame was committed before: the cursor is acknowledged again.
AcceptAgain(h) ==
  /\ h.num <= cursor[h.sid]
  /\ Answer(h, AckOf(h, cursor[h.sid]) \o RestOf(h, cursor[h.sid]))
  /\ UNCHANGED <<cursor, missed>>
  /\ Settled(h)

\* Mutant of Reject: a frame beyond the gap is acknowledged as it is received.
RejectAcknowledges(h) ==
  /\ h.num > cursor[h.sid] + 1
  /\ Answer(h, AckOf(h, h.num))
  /\ UNCHANGED <<cursor, missed>>
  /\ Settled(h)

\* The frame lies beyond a gap: no acknowledgement.  The first one to be
\* rejected asks for a replay from the gap on.
Reject(h) ==
  /\ h.num > cursor[h.sid] + 1
  /\ IF h.live
     THEN missed' = [missed EXCEPT ![h.sid] = Larger(@, h.num)]
     ELSE UNCHANGED missed
  /\ Answer(h, IF missed[h.sid] > cursor[h.sid] THEN <<>> ELSE ReplayOf(h, cursor[h.sid] + 1))
  /\ UNCHANGED cursor
  /\ Settled(h)

Settle(h) == Accept(h) \/ AcceptAgain(h) \/ Reject(h)

\* A new socket starts with no rejections: it is replayed to from the start.
Forget == missed' = [s \in Sessions |-> -1]

SocketLost == /\ Drop
              /\ handling' = Orphaned
              /\ Forget
              /\ UNCHANGED cursor

DeviceDies == /\ DeviceRestart
              /\ handling' = Orphaned
              /\ Forget
              /\ UNCHANGED cursor

\* The server process dies: running handlers are lost, the cursors are not.
ServerDies ==
  /\ Drop
  /\ handling' = {}
  /\ Forget
  /\ UNCHANGED cursor

\* DeviceAckFails on a welcome closes the socket.
DeviceActs == /\ DeviceStep
              /\ IF Attached /\ link' = "down"
                 THEN handling' = Orphaned /\ Forget
                 ELSE UNCHANGED <<handling, missed>>
              /\ UNCHANGED cursor

Next ==
  \/ DeviceActs
  \/ ServerAccepts
  \/ ServerReceives
  \/ ServerTurnsPage
  \/ \E h \in handling : Settle(h)
  \/ SocketLost
  \/ DeviceDies
  \/ ServerDies

\* The client redials with backoff for ever, sockets deliver what they hold,
\* and handlers settle.
Fairness ==
  /\ WF_vars(ServerAccepts)
  /\ WF_vars(ServerReceives \/ ServerTurnsPage)
  /\ \A s \in Sessions, n \in Seqs :
       WF_vars(\E h \in handling : h.sid = s /\ h.num = n /\ Settle(h))
  /\ WF_vars(DeviceActs /\ (link' = "up" /\ link = "attached"))
  /\ WF_vars(DeviceActs /\ Len(toDevice') < Len(toDevice))

Spec     == Init /\ [][Next]_vars
FairSpec == Spec /\ Fairness

-----------------------------------------------------------------------------
TypeOK == /\ LinkTypeOK
          /\ cursor \in [Sessions -> Seqs \cup {-1}]
          /\ missed \in [Sessions -> Seqs \cup {-1}]
          /\ handling \subseteq [sid : Sessions, num : Seqs, live : BOOLEAN]

\* The device forgets only what the server has committed: an event is in the
\* outbox or behind the cursor, whatever is lost, repeated or reordered on
\* the way (docs/design.md D18).
ForgetsOnlyConsumed == \A s \in Sessions : mark[s] <= cursor[s]

\* A frame in flight or in a handler is one the outbox committed: the server
\* never sees an event that a restart could take back.
SentIsCommitted ==
  /\ \A i \in DOMAIN toServer :
       toServer[i].kind = "event" => toServer[i].num \in Committed(toServer[i].sid)
  /\ \A h \in handling : h.num \in Committed(h.sid)

\* What makes the two invariants above inductive: every acknowledgement on its
\* way to the device is one the cursor proves.
CommittedFrames == {f \in Frames : f.kind = "event" => f.num \in Committed(f.sid)}
ProvedMessages  == {m \in Messages : m.kind # "replay" => m.num <= cursor[m.sid]}

ReliableInv == /\ TypeOK
               /\ OutInv
               /\ ForgetsOnlyConsumed
               /\ toServer \in Seq(CommittedFrames)
               /\ toDevice \in Seq(ProvedMessages)
               /\ \A h \in handling : h.num \in Committed(h.sid)

\* Events are consumed once and in order, none before it was produced.
Reliable == INSTANCE ReliableStream WITH produced <- [s \in Sessions |-> Committed(s)],
                                         consumed <- cursor
ImplementsReliableStream == Reliable!Spec

\* If from some time on no storage fault is outstanding, everything emitted
\* is consumed and the outbox drains, through any number of lost sockets the
\* device survives.
Sound(s) == healthy /\ lost[s] = {}
EventuallyDrained ==
  \A s \in Sessions : <>[]Sound(s) => <>[](cursor[s] = seq[s] - 1 /\ rows[s] = {})
=============================================================================
