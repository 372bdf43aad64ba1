----------------------------- MODULE StreamLink -----------------------------
(***************************************************************************)
(* The device's half of stream delivery: the outbox behind a replaceable   *)
(* WebSocket.  PhononClient dials, the welcome may carry acknowledgements, *)
(* the tenant runtime is attached to the new socket, what arrived with the *)
(* welcome is processed, and only then is the connection published and the *)
(* outbox replayed (client.ts, connect).  Events emitted in between go out *)
(* on the new socket ahead of the replay.                                  *)
(*                                                                         *)
(* A socket is a FIFO in each direction; what is in flight is lost with    *)
(* it.  The server's half is added by ReliableConsumer and                 *)
(* SessionConsumer.                                                        *)
(***************************************************************************)
EXTENDS Outbox, Sequences

CONSTANTS
  MaxDrops,   \* bound on lost sockets
  PageLimit   \* stream.replay's page size

ASSUME LinkAssumption ==
  /\ MaxDrops \in Nat
  /\ PageLimit \in Nat \ {0}
  /\ IsFiniteSet(Sessions)

VARIABLES
  link,      \* "down", "attached" (runtime on the new socket) or "up" (published)
  runtime,   \* a PhononConnection exists in this process
  toServer,  \* frames in flight: stream.event, and the nextSeq of a replay page
  toDevice,  \* frames in flight: welcome acknowledgements, stream.ack, stream.replay
  drops

linkVars == <<link, runtime, toServer, toDevice, drops>>

Frame(s, n)        == [kind |-> "event", sid |-> s, num |-> n]
NextPage(s, n)     == [kind |-> "page", sid |-> s, num |-> n]
Message(kind, s, n) == [kind |-> kind, sid |-> s, num |-> n]

Attached == link \in {"attached", "up"}

LinkInit ==
  /\ OutInit
  /\ link     = "down"
  /\ runtime  = FALSE
  /\ toServer = <<>>
  /\ toDevice = <<>>
  /\ drops    = 0

\* Outbox.pending: what is buffered of session s from number k on, and of all
\* sessions.
Pending(s, k) == {Frame(s, n) : n \in {m \in buffer[s] : m >= k}}
AllPending    == UNION {Pending(s, 0) : s \in Sessions}

\* It is sent sorted: one session after the other, each by number.
Sorted(q) ==
  \A i, j \in DOMAIN q :
    i < j /\ q[i].sid = q[j].sid => /\ q[i].num < q[j].num
                                  /\ \A k \in i..j : q[k].sid = q[i].sid

Replays(F) == {q \in [1..Cardinality(F) -> F] : Sorted(q)}

-----------------------------------------------------------------------------
\* sendStreamEvent: the outbox first, then the socket; a detached transport
\* only defers delivery.
Notify(s, n) == toServer' = IF Attached THEN Append(toServer, Frame(s, n)) ELSE toServer

LinkEmit(s, c) ==
  /\ runtime
  /\ Emit(s, c)
  /\ Notify(s, seq[s])
  /\ UNCHANGED <<link, runtime, toDevice, drops>>

\* Mutant of LinkEmitFails: the exception of the failed write is swallowed and
\* the event sent all the same.
LinkEmitFailsSends(s, c) ==
  /\ runtime
  /\ EmitFails(s, c)
  /\ Notify(s, seq[s])
  /\ UNCHANGED <<link, runtime, toDevice, drops>>

\* enqueue throws before the socket is used.
LinkEmitFails(s, c) ==
  /\ runtime
  /\ EmitFails(s, c)
  /\ UNCHANGED linkVars

LinkEmitUnreported(s, c) ==
  /\ runtime
  /\ EmitUnreported(s, c)
  /\ UNCHANGED linkVars

LinkPersist(s) == runtime /\ PersistSession(s) /\ UNCHANGED linkVars

-----------------------------------------------------------------------------
\* A dial succeeds: the runtime is created, or the one that outlived the last
\* socket is attached.  greeting is what the welcome acknowledges.
Connect(greeting) ==
  /\ link = "down"
  /\ link'     = "attached"
  /\ runtime'  = TRUE
  /\ toServer' = <<>>
  /\ toDevice' = greeting
  /\ UNCHANGED <<outVars, drops>>

\* The connection is published once the welcome is processed; replayPending
\* sends everything unacknowledged.
Greeted == \A i \in DOMAIN toDevice : toDevice[i].kind # "welcome"

\* Mutant of Publish: the new socket is published without a replay.
PublishNoReplay ==
  /\ link = "attached"
  /\ Greeted
  /\ link' = "up"
  /\ UNCHANGED <<outVars, runtime, toServer, toDevice, drops>>

Publish ==
  /\ link = "attached"
  /\ Greeted
  /\ link'     = "up"
  /\ \E q \in Replays(AllPending) : toServer' = toServer \o q
  /\ UNCHANGED <<outVars, runtime, toDevice, drops>>

NoMove(s, n) == \A top \in buffer[s] : ~AckMoves(s, n, top)

\* stream.ack, or an entry of welcome.ackedSeqs: acknowledgeStream.
DeviceAck ==
  /\ toDevice # <<>>
  /\ LET m == Head(toDevice) IN
       /\ m.kind \in {"welcome", "ack"}
       /\ \/ Ack(m.sid, m.num)
          \/ NoMove(m.sid, m.num) /\ UNCHANGED outVars
  /\ toDevice' = Tail(toDevice)
  /\ UNCHANGED <<link, runtime, toServer, drops>>

\* The write of an acknowledgement fails.  A notification's error is dropped;
\* an error while the welcome is applied closes the socket.
DeviceAckFails ==
  /\ toDevice # <<>>
  /\ LET m == Head(toDevice) IN
       /\ m.kind \in {"welcome", "ack"}
       /\ AckFails(m.sid, m.num) \/ AckUnreported(m.sid, m.num)
       /\ IF m.kind = "welcome"
          THEN link' = "down" /\ toServer' = <<>> /\ toDevice' = <<>>
          ELSE toDevice' = Tail(toDevice) /\ UNCHANGED <<link, toServer>>
  /\ UNCHANGED <<runtime, drops>>

\* Mutant of DeviceReplay: nextSeq counts the page from the wrong end.
DeviceReplaySkipsOne ==
  /\ toDevice # <<>>
  /\ LET m == Head(toDevice)
     IN /\ m.kind = "replay"
        /\ \E p \in Replays(Pending(m.sid, m.num)) :
             toServer' = toServer \o
               IF Len(p) <= PageLimit
               THEN p
               ELSE SubSeq(p, 1, PageLimit) \o <<NextPage(m.sid, m.num + PageLimit + 1)>>
  /\ toDevice' = Tail(toDevice)
  /\ UNCHANGED <<outVars, link, runtime, drops>>

\* The first page of the frames p of session s, and nextSeq if there is more.
Page(s, p) == IF Len(p) <= PageLimit
              THEN p
              ELSE SubSeq(p, 1, PageLimit) \o <<NextPage(s, p[PageLimit].num + 1)>>

\* stream.replay: one page of what is pending from the requested number, and
\* nextSeq if there is more.
DeviceReplay ==
  /\ toDevice # <<>>
  /\ LET m == Head(toDevice)
     IN /\ m.kind = "replay"
        /\ \E p \in Replays(Pending(m.sid, m.num)) : toServer' = toServer \o Page(m.sid, p)
  /\ toDevice' = Tail(toDevice)
  /\ UNCHANGED <<outVars, link, runtime, drops>>

-----------------------------------------------------------------------------
\* The socket is lost; the runtime is detached, not disposed (client.retire).
Lose ==
  /\ link'     = "down"
  /\ toServer' = <<>>
  /\ toDevice' = <<>>

Drop ==
  /\ Attached
  /\ drops < MaxDrops
  /\ drops' = drops + 1
  /\ Lose
  /\ UNCHANGED <<outVars, runtime>>

\* The device process dies, and with it runtime and socket.
DeviceRestart ==
  /\ Restart
  /\ Lose
  /\ runtime' = FALSE
  /\ UNCHANGED drops

DeviceStep ==
  \/ \E s \in Sessions, c \in Contents : \/ LinkEmit(s, c)
                                         \/ LinkEmitFails(s, c)
                                         \/ LinkEmitUnreported(s, c)
  \/ \E s \in Sessions : LinkPersist(s)
  \/ Publish
  \/ DeviceAck
  \/ DeviceAckFails
  \/ DeviceReplay

Frames   == [kind : {"event", "page"}, sid : Sessions, num : Seqs]
Messages == [kind : {"welcome", "ack", "replay"}, sid : Sessions, num : Seqs]

LinkTypeOK ==
  /\ OutTypeOK
  /\ link \in {"down", "attached", "up"}
  /\ runtime \in BOOLEAN
  /\ toServer \in Seq(Frames)
  /\ toDevice \in Seq(Messages)
  /\ drops \in 0..MaxDrops
=============================================================================
