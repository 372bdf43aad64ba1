---------------------------- MODULE GatewayClient ----------------------------
(***************************************************************************)
(* The connection to a native gateway (gateway-client.ts): one attempt to  *)
(* connect is shared by whoever needs it and cancelled by any of them; an  *)
(* unpaired device asks once for its own approval (openclaw-pairing.ts)    *)
(* and tries once more.  Calls wait on the socket they were sent on, and a *)
(* chat goes out on the connection its policy was bound on, or not at all. *)
(***************************************************************************)
EXTENDS Naturals, Sequences

CONSTANTS MaxAttempts, MaxCalls, MaxCloses, MaxDrops

VARIABLES client, attempts, sockets, calls, gateway, closes, drops

vars == <<client, attempts, sockets, calls, gateway, closes, drops>>

(* auto: the owner lets this device approve itself on the local gateway. *)
Init ==
  /\ client = [ws |-> 0, connected |-> FALSE, epoch |-> 0, gen |-> 0, controller |-> 0, promise |-> 0]
  /\ attempts = <<>> /\ sockets = <<>> /\ calls = <<>> /\ closes = 0 /\ drops = 0
  /\ gateway \in {[paired |-> p, auto |-> a] : p, a \in BOOLEAN}

(* assertCurrent *)
Current(a) == attempts[a].gen = client.gen /\ ~ attempts[a].aborted

(* What an attempt does outside; cut: its callers or its owner have given it up before. *)
Acts(a, step) == [attempts EXCEPT ![a].step = step, ![a].acted = @ \/ attempts[a].cut]

Socket(a) == [of |-> a, step |-> "open"]
SocketOf(a) == {s \in DOMAIN sockets : sockets[s].of = a /\ sockets[s].step \in {"open", "challenged"}}
Closed(S) == [s \in DOMAIN sockets |-> IF s \in S THEN [sockets[s] EXCEPT !.step = "closed"] ELSE sockets[s]]
Gone(S) == IF client.ws \in S THEN 0 ELSE client.ws

(* connect: joins the attempt there is, uses the connection there is, or starts an attempt, whose     *)
(* first socket is opened at once.                                                                       *)
Call(kind) ==
  LET new == Len(attempts) + 1
      of  == IF client.promise # 0 THEN client.promise ELSE IF client.connected THEN 0 ELSE new
  IN /\ Len(calls) < MaxCalls
     /\ calls' = Append(calls, [kind |-> kind, of |-> of, epoch |-> 0, on |-> 0, bound |-> 0,
                                step |-> IF of # 0 THEN "joining" ELSE IF kind = "open" THEN "done" ELSE "ready"])
     /\ IF of # new THEN UNCHANGED <<client, attempts, sockets>>
        ELSE /\ new <= MaxAttempts
             /\ attempts' = Append(attempts, [gen |-> client.gen + 1, aborted |-> FALSE, cut |-> FALSE,
                                              acted |-> FALSE, step |-> "connecting"])
             /\ sockets' = Append(sockets, Socket(new))
             /\ client' = [client EXCEPT !.gen = @ + 1, !.controller = new, !.promise = new,
                                         !.ws = Len(sockets) + 1]
     /\ UNCHANGED <<gateway, closes, drops>>

(* doConnect, fail: the attempt's socket is given up. *)
Failed(s, step) ==
  /\ sockets' = Closed({s})
  /\ client' = [client EXCEPT !.ws = Gone({s})]
  /\ attempts' = [attempts EXCEPT ![sockets[s].of].step = step]

(* Promise reactions run before the next message, timer or close event. *)
Micro == (\E a \in DOMAIN attempts : attempts[a].step \in {"refused", "approved", "connected", "failed"})
         \/ \E c \in DOMAIN calls : calls[c].step = "ready"

Challenge(s) ==
  /\ ~ Micro /\ client.ws = s /\ sockets[s].step = "open"
  /\ IF Current(sockets[s].of)
     THEN /\ sockets' = [sockets EXCEPT ![s].step = "challenged"]
          /\ attempts' = Acts(sockets[s].of, attempts[sockets[s].of].step)
          /\ UNCHANGED client
     ELSE Failed(s, "failed")
  /\ UNCHANGED <<calls, gateway, closes, drops>>

(* hello-ok: the device token is kept, and the connection is a new epoch. *)
Hello(s) ==
  /\ ~ Micro /\ client.ws = s /\ sockets[s].step = "challenged" /\ gateway.paired
  /\ IF Current(sockets[s].of)
     THEN /\ sockets' = [sockets EXCEPT ![s].step = "done"]
          /\ client' = [client EXCEPT !.connected = TRUE, !.epoch = @ + 1]
          /\ attempts' = [attempts EXCEPT ![sockets[s].of].step = "connected"]
     ELSE Failed(s, "failed")
  /\ UNCHANGED <<calls, gateway, closes, drops>>

(* The gateway asks for a pairing; any other refusal, a close or the timer ends the attempt. *)
Refused(s) ==
  /\ ~ Micro /\ sockets[s].step \in {"open", "challenged"}
  /\ \/ Failed(s, "failed")
     \/ /\ client.ws = s /\ sockets[s].step = "challenged" /\ ~ gateway.paired
        /\ Failed(s, IF attempts[sockets[s].of].step = "connecting" THEN "refused" ELSE "failed")
  /\ UNCHANGED <<calls, gateway, closes, drops>>

(* connectWithPairing: a refused attempt asks for its own approval, over a socket of its own. *)
Pair(a) ==
  /\ attempts[a].step = "refused"
  /\ attempts' = IF Current(a) /\ gateway.auto THEN Acts(a, "pairing")
                 ELSE [attempts EXCEPT ![a].step = "failed"]
  /\ UNCHANGED <<client, sockets, calls, gateway, closes, drops>>

(* approveLocalGatewayPairing: the list must hold exactly this request; then it is approved. *)
List(a) ==
  /\ ~ Micro /\ attempts[a].step = "pairing"
  /\ attempts' = IF Current(a) THEN Acts(a, "approving") ELSE [attempts EXCEPT ![a].step = "failed"]
  /\ UNCHANGED <<client, sockets, calls, gateway, closes, drops>>
Approves(a) ==
  /\ ~ Micro /\ attempts[a].step = "approving" /\ gateway' = [gateway EXCEPT !.paired = TRUE]
  /\ attempts' = [attempts EXCEPT ![a].step = IF Current(a) THEN "approved" ELSE "failed"]
  /\ UNCHANGED <<client, sockets, calls, closes, drops>>
PairingFails(a) ==
  /\ ~ Micro /\ attempts[a].step \in {"pairing", "approving"}
  /\ attempts' = [attempts EXCEPT ![a].step = "failed"]
  /\ UNCHANGED <<client, sockets, calls, gateway, closes, drops>>

(* One retry only. *)
Again(a) ==
  /\ attempts[a].step = "approved"
  /\ IF Current(a)
     THEN /\ attempts' = Acts(a, "again") /\ sockets' = Append(sockets, Socket(a))
          /\ client' = [client EXCEPT !.ws = Len(sockets) + 1]
     ELSE attempts' = [attempts EXCEPT ![a].step = "failed"] /\ UNCHANGED <<client, sockets>>
  /\ UNCHANGED <<calls, gateway, closes, drops>>

(* Calls that wait on the connection are rejected with it. *)
Rejected == [c \in DOMAIN calls |-> IF calls[c].step \in {"waiting", "dispatched"}
                                    THEN [calls[c] EXCEPT !.step = "failed"] ELSE calls[c]]

(* connect, finally: an attempt that was aborted after its handshake takes its connection down. *)
Settled(a) ==
  /\ attempts[a].step \in {"connected", "failed"}
  /\ LET undo == attempts[a].aborted /\ client.controller = a
         own  == IF undo THEN Rejected ELSE calls
     IN /\ client' = IF undo THEN [client EXCEPT !.gen = @ + 1, !.ws = 0, !.connected = FALSE,
                                                 !.controller = 0, !.promise = 0]
                     ELSE [client EXCEPT !.controller = IF @ = a THEN 0 ELSE @,
                                         !.promise = IF @ = a THEN 0 ELSE @]
        /\ sockets' = Closed(IF undo THEN {client.ws} ELSE {})
        /\ attempts' = [attempts EXCEPT ![a].step = "over"]
        /\ calls' = [c \in DOMAIN calls |->
             IF own[c].step # "joining" \/ own[c].of # a THEN own[c]
             ELSE [own[c] EXCEPT !.step = IF attempts[a].step = "failed" \/ ~ Current(a) THEN "failed"
                                          ELSE IF own[c].kind = "open" THEN "done" ELSE "ready"]]
  /\ UNCHANGED <<gateway, closes, drops>>

(* What an abort does at once: a handshake or a pairing under way fails, a finished one is left. *)
Unfinished == {"connecting", "refused", "pairing", "approving", "approved", "again"}
Aborted(a) == [attempts EXCEPT ![a].aborted = TRUE, ![a].cut = TRUE,
                               ![a].step = IF @ \in Unfinished THEN "failed" ELSE @]

(* attachConnectSignal: a caller cancels the attempt it shares, never a settled connection. *)
Cancel(c) ==
  LET a == calls[c].of
  IN /\ calls[c].kind = "open" /\ calls[c].step = "joining" /\ ~ attempts[a].aborted
     /\ client.controller = a /\ client.promise = a
     /\ attempts' = Aborted(a) /\ sockets' = Closed(SocketOf(a))
     /\ client' = [client EXCEPT !.ws = Gone(SocketOf(a))]
     /\ UNCHANGED <<calls, gateway, closes, drops>>

Close ==
  LET a == client.controller
  IN /\ closes < MaxCloses /\ closes' = closes + 1
     /\ attempts' = IF a = 0 THEN attempts ELSE Aborted(a)
     /\ sockets' = Closed({client.ws} \cup IF a = 0 THEN {} ELSE SocketOf(a))
     /\ client' = [client EXCEPT !.gen = @ + 1, !.controller = 0, !.promise = 0, !.ws = 0, !.connected = FALSE]
     /\ calls' = Rejected
     /\ UNCHANGED <<gateway, drops>>

(* onClose of a connection. *)
Drop(s) ==
  /\ ~ Micro /\ sockets[s].step = "done" /\ drops < MaxDrops /\ drops' = drops + 1
  /\ sockets' = Closed({s})
  /\ IF client.ws = s
     THEN /\ client' = [client EXCEPT !.connected = FALSE, !.promise = 0]
          /\ calls' = Rejected
     ELSE UNCHANGED <<client, calls>>
  /\ UNCHANGED <<attempts, gateway, closes>>

(* rpc, after its connect: a client closed in between has no socket, or one that is still connecting,   *)
(* and the call fails.  The policy of a chat is bound over the connection whose epoch it takes.          *)
Send(c) ==
  /\ calls[c].step = "ready"
  /\ calls' = [calls EXCEPT ![c].step = IF client.connected THEN "waiting" ELSE "failed", ![c].on = client.ws,
                            ![c].epoch = client.epoch, ![c].bound = client.ws]
  /\ UNCHANGED <<client, attempts, sockets, gateway, closes, drops>>

(* rpcOnConnection: the chat itself. *)
Dispatch(c) ==
  /\ calls[c].step = "bound"
  /\ calls' = IF ~ client.connected \/ client.epoch # calls[c].epoch THEN [calls EXCEPT ![c].step = "failed"]
              ELSE [calls EXCEPT ![c].step = "dispatched", ![c].on = client.ws]
  /\ UNCHANGED <<client, attempts, sockets, gateway, closes, drops>>

Reply(c) ==
  /\ ~ Micro /\ calls[c].step \in {"waiting", "dispatched"} /\ client.ws = calls[c].on
  /\ calls' = [calls EXCEPT ![c].step = IF calls[c].kind = "chat" /\ @ = "waiting" THEN "bound" ELSE "done"]
  /\ UNCHANGED <<client, attempts, sockets, gateway, closes, drops>>
Timeout(c) ==
  /\ ~ Micro /\ calls[c].step \in {"waiting", "dispatched"}
  /\ calls' = [calls EXCEPT ![c].step = "failed"]
  /\ UNCHANGED <<client, attempts, sockets, gateway, closes, drops>>

Next ==
  \/ \E kind \in {"open", "rpc", "chat"} : Call(kind)
  \/ \E s \in DOMAIN sockets : Challenge(s) \/ Hello(s) \/ Refused(s) \/ Drop(s)
  \/ \E a \in DOMAIN attempts :
       Pair(a) \/ List(a) \/ Approves(a) \/ PairingFails(a) \/ Again(a) \/ Settled(a)
  \/ \E c \in DOMAIN calls : Cancel(c) \/ Send(c) \/ Dispatch(c) \/ Reply(c) \/ Timeout(c)
  \/ Close
Spec == Init /\ [][Next]_vars

(* The gateway sees at most one connection of this client, the one in use; and a client that is not    *)
(* connected holds none open.                                                                            *)
OneConnection ==
  \A s \in DOMAIN sockets : sockets[s].step = "done" => client.ws = s /\ client.connected

(* An attempt that was cancelled does nothing more: no handshake, no approval, no second socket; and   *)
(* no connection of its outlives it.                                                                     *)
CancelledIsOver ==
  \A a \in DOMAIN attempts : attempts[a].cut =>
    /\ ~ attempts[a].acted
    /\ attempts[a].step = "over" => \A s \in DOMAIN sockets : sockets[s].of = a => sockets[s].step = "closed"

(* Whoever waits is waited for: a joined attempt will settle, a sent call is on the live connection.    *)
WaitsOnLive ==
  \A c \in DOMAIN calls :
    /\ calls[c].step = "joining" => attempts[calls[c].of].step # "over"
    /\ calls[c].step \in {"waiting", "dispatched"} =>
         client.connected /\ client.ws = calls[c].on /\ sockets[calls[c].on].step = "done"

(* A chat is sent over the very connection its policy was bound on. *)
DispatchedWhereBound == \A c \in DOMAIN calls : calls[c].step = "dispatched" => calls[c].on = calls[c].bound
=============================================================================
