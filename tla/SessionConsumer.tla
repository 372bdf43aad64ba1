--------------------------- MODULE SessionConsumer ---------------------------
(***************************************************************************)
(* Stream delivery to a server that uses PhononSession objects and no      *)
(* stream handler: PhononDevice routes a frame to the session registered   *)
(* on this connection, which passes it to its listeners, and acknowledges  *)
(* the highest number the session has seen (server.ts, _handleInbound).    *)
(* Registrations live in the PhononDevice of one socket; after a reconnect *)
(* the application repeats createSession with its clientRequestId and the  *)
(* device answers with the same session (D28).                             *)
(***************************************************************************)
EXTENDS StreamLink

CONSTANT MaxReplays   \* bound on replayStream calls

VARIABLES
  created,      \* sessions the device has created
  answered,     \* createSession responses the application has yet to see
  registered,   \* PhononDevice.sessions of the current socket
  lastSeq,      \* PhononSession.lastSeq
  heard,        \* history: how often listeners got each number, capped at 2
  replays

sdkVars == <<created, answered, registered, lastSeq, heard, replays>>
vars    == <<outVars, linkVars, sdkVars>>

Init == /\ LinkInit
        /\ created    = {}
        /\ answered   = {}
        /\ registered = {}
        /\ lastSeq    = [s \in Sessions |-> -1]
        /\ heard      = [s \in Sessions |-> [n \in Seqs |-> 0]]
        /\ replays    = 0

-----------------------------------------------------------------------------
\* A PhononDevice of its own for every socket.  PhononServer's welcome
\* acknowledges nothing.
ServerAccepts ==
  /\ Connect(<<>>)
  /\ answered'   = {}
  /\ registered' = {}
  /\ UNCHANGED <<created, lastSeq, heard, replays>>

\* createSession: the request travels to the device, its response back behind
\* the frames already sent.
ServerCreates(s) ==
  /\ Attached
  /\ s \notin registered \cup answered
  /\ \A i \in DOMAIN toDevice : toDevice[i].kind # "create"
  /\ \A i \in DOMAIN toServer : toServer[i].kind # "created"
  /\ toDevice' = Append(toDevice, Message("create", s, 0))
  /\ UNCHANGED <<outVars, link, runtime, toServer, drops, sdkVars>>

DeviceCreates ==
  /\ toDevice # <<>>
  /\ Head(toDevice).kind = "create"
  /\ toDevice' = Tail(toDevice)
  /\ toServer' = Append(toServer, [kind |-> "created", sid |-> Head(toDevice).sid, num |-> 0])
  /\ created'  = created \cup {Head(toDevice).sid}
  /\ UNCHANGED <<outVars, link, runtime, drops, answered, registered, lastSeq, heard, replays>>

\* The response settles a promise; the application's continuation registers a
\* new PhononSession later.
ServerSeesResponse ==
  /\ toServer # <<>>
  /\ Head(toServer).kind = "created"
  /\ answered' = answered \cup {Head(toServer).sid}
  /\ toServer' = Tail(toServer)
  /\ UNCHANGED <<outVars, link, runtime, toDevice, drops, created, registered, lastSeq, heard, replays>>

Register(s) ==
  /\ s \in answered
  /\ answered'   = answered \ {s}
  /\ registered' = registered \cup {s}
  /\ lastSeq'    = [lastSeq EXCEPT ![s] = -1]
  /\ UNCHANGED <<outVars, linkVars, created, heard, replays>>

-----------------------------------------------------------------------------
Hear(s, n) == heard' = [heard EXCEPT ![s][n] = Smaller(2, @ + 1)]

\* Mutant of AckUpTo: one more than was seen is acknowledged.
AckUpToNext(s, n) ==
  toDevice' = Append(toDevice, Message("ack", s, n + 1))

AckUpTo(s, n) == toDevice' = Append(toDevice, Message("ack", s, n))

\* stream.event for a registered session: every frame is emitted, and the
\* highest number seen is acknowledged.
Route ==
  /\ toServer # <<>>
  /\ LET f == Head(toServer) IN
       /\ f.kind = "event"
       /\ f.sid \in registered
       /\ log[f.sid][f.num] = Ordinary
       /\ Hear(f.sid, f.num)
       /\ lastSeq' = [lastSeq EXCEPT ![f.sid] = Larger(@, f.num)]
       /\ AckUpTo(f.sid, lastSeq'[f.sid])
  /\ toServer' = Tail(toServer)
  /\ UNCHANGED <<outVars, link, runtime, drops, created, answered, registered, replays>>

\* Mutant of Discard: a frame nobody is registered for is acknowledged.
DiscardAcknowledges ==
  /\ toServer # <<>>
  /\ LET f == Head(toServer) IN
       /\ f.kind = "event"
       /\ f.sid \notin registered \/ log[f.sid][f.num] # Ordinary
       /\ AckUpTo(f.sid, f.num)
  /\ toServer' = Tail(toServer)
  /\ UNCHANGED <<outVars, link, runtime, drops, sdkVars>>

\* A frame of no registered session, or a proactive one, is neither routed
\* nor acknowledged.
Discard ==
  /\ toServer # <<>>
  /\ LET f == Head(toServer) IN
       /\ f.kind = "event"
       /\ f.sid \notin registered \/ log[f.sid][f.num] # Ordinary
  /\ toServer' = Tail(toServer)
  /\ UNCHANGED <<outVars, link, runtime, toDevice, drops, sdkVars>>

\* PhononDevice.replayStream; what the page's nextSeq says is left to the
\* application, which here asks once more at most.
ServerReplays(s) ==
  /\ s \in registered
  /\ replays < MaxReplays
  /\ replays'  = replays + 1
  /\ toDevice' = Append(toDevice, Message("replay", s, 0))
  /\ UNCHANGED <<outVars, link, runtime, toServer, drops, created, answered, registered, lastSeq, heard>>

IgnorePage ==
  /\ toServer # <<>>
  /\ Head(toServer).kind = "page"
  /\ toServer' = Tail(toServer)
  /\ UNCHANGED <<outVars, link, runtime, toDevice, drops, sdkVars>>

SocketLost ==
  /\ Drop
  /\ answered'   = {}
  /\ registered' = {}
  /\ UNCHANGED <<created, lastSeq, heard, replays>>

DeviceDies ==
  /\ DeviceRestart
  /\ answered'   = {}
  /\ registered' = {}
  /\ UNCHANGED <<created, lastSeq, heard, replays>>

\* Input is sent through a PhononSession, so a turn emits only after its
\* session was registered once; s \in created stands for that, the first
\* registration being settled before the first send.
MayRun(s) == s \in created /\ (Committed(s) = {} => s \in registered)

DeviceActs ==
  /\ \/ \E s \in Sessions, c \in Contents : /\ MayRun(s)
                                            /\ LinkEmit(s, c) \/ LinkEmitFails(s, c)
     \/ Publish
     \/ DeviceAck
     \/ DeviceReplay
  /\ UNCHANGED sdkVars

Next ==
  \/ DeviceActs
  \/ DeviceCreates
  \/ ServerAccepts
  \/ ServerSeesResponse
  \/ \E s \in Sessions : ServerCreates(s) \/ Register(s) \/ ServerReplays(s)
  \/ Route
  \/ Discard
  \/ IgnorePage
  \/ SocketLost
  \/ DeviceDies

Spec == Init /\ [][Next]_vars

-----------------------------------------------------------------------------
\* What the device has been told it may forget reached the session's
\* listeners: no ordinary event is lost (docs/design.md D18, "messages are
\* lost in neither direction").
AckedWasHeard ==
  \A s \in Sessions : \A n \in Committed(s) :
    n <= mark[s] /\ log[s][n] = Ordinary => heard[s][n] >= 1

\* On the first socket, with no storage fault, that holds: registration is
\* settled before the first send, and the socket keeps the order.
FirstSocketLosesNothing == drops = 0 /\ faults = 0 => AckedWasHeard

\* Whatever is lost, the durable watermark is the number of an event that
\* listeners heard: the SDK never acknowledges what it did not route.
WatermarkWasHeard == \A s \in Sessions : mark[s] >= 0 => heard[s][mark[s]] >= 1
=============================================================================
