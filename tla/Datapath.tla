------------------------------ MODULE Datapath ------------------------------
(***************************************************************************)
(* The packet workers of one session: tlsChannel and dtlsChannel with      *)
(* their writers, tunToPayloadOut, payloadInToTun, the user-space tunnel   *)
(* of the proxy, the DPD timer and the dynamic route worker, the channels  *)
(* between them and the pool of packet buffers.                            *)
(*                                                                         *)
(* A place is a worker or a channel, and at[p] the buffers it holds, a     *)
(* worker at most one.  The buffer of a read that has not returned is not  *)
(* shown: a packet gets its buffer when it arrives.  What a packet carries *)
(* is chosen when payloadInToTun looks at it.  Frames that only return     *)
(* their buffer (keepalive, DPD response, an empty read) change nothing.   *)
(* ConnSession.Close and the deferred calls of a worker are one step, and  *)
(* TunnelController.Close is the stop of the route worker, then the close  *)
(* of the device; the module Tunnel has their steps.                       *)
(***************************************************************************)
EXTENDS DynamicRoutes, Functions

CONSTANTS
    Loads,      \* what a behaviour may have, sets of members of AllLoads
    NumBuffers, \* bound on the packet buffers in use
    Cap         \* capacity of the channels, 64 in the code

\* Packets from the device, a DTLS channel, the proxy's user tunnel, dead peer
\* detection, DNS answers, answers for names of the split lists, and what ends a session.
AllLoads == {"out", "dtls", "user", "dpd", "dns", "split", "loss"}

ASSUME DatapathAssumption ==
    /\ NumBuffers \in Nat /\ Cap \in Nat \ {0}
    /\ Loads \subseteq SUBSET AllLoads

VARIABLES
    load,       \* the traffic of this behaviour
    s,          \* ConnSession, DtlsSession, the sockets, the device, the server
    pc, at,     \* the workers, and who holds which buffer
    pool,       \* how often a buffer is in the sync.Pool
    user,       \* the user tunnel
    answers     \* the number of packets in the channel DynamicRoutePackets

dataVars == <<s, pc, at, pool, user>>
vars == <<load, s, pc, at, pool, user, answers, leases, routes, health, shown>>

-----------------------------------------------------------------------------
Buffers == 1..NumBuffers
TlsDpd == 0                         \* the payloads the DPD timer owns and sends again
DtlsDpd == NumBuffers + 1           \* and again; too small for the pool
Objects == 0..(NumBuffers + 1)

Workers == {"tlsR", "tlsW", "dtlsR", "dtlsW", "tun", "user", "in", "timer", "routes"}
Channels == {"PayloadIn", "PayloadOutTLS", "PayloadOutDTLS"}
Places == Workers \cup Channels

Copies(b) == pool[b] + Cardinality({p \in Places : b \in Range(at[p])})

\* The states of the workers.  "read" waits for a packet, "idle" for a channel; "in",
\* "reply", "dtls", "tls" and "dns" offer to a channel.
Step == {"off", "dial", "read", "in", "reply", "dtls", "tls", "idle", "write", "route",
         "dns", "sync", "gone"}

TypeOK ==
    /\ load \in Loads
    /\ s \in [closed : BOOLEAN, dtlsConnected : BOOLEAN, dtlsClosed : BOOLEAN,
              tlsSocket : BOOLEAN, dtlsSocket : BOOLEAN, device : BOOLEAN, peer : BOOLEAN]
    /\ pc \in [Workers -> Step]
    /\ at \in [Places -> Seq(Objects)]
    /\ \A w \in Workers : Len(at[w]) <= 1
    /\ \A q \in Channels : Len(at[q]) <= Cap
    /\ pool \in [Objects -> 0..2]
    /\ user \in [dialer : {"idle", "made", "done"}, stored : BOOLEAN, open : BOOLEAN, flow : BOOLEAN]
    /\ answers \in 0..Cap
    /\ RoutesTypeOK

Init ==
    /\ load \in Loads
    /\ s = [closed |-> FALSE, dtlsConnected |-> FALSE, dtlsClosed |-> FALSE, tlsSocket |-> TRUE,
            dtlsSocket |-> FALSE, device |-> TRUE, peer |-> TRUE]
    /\ pc = [w \in Workers |->
                CASE w \in {"tlsR", "tun"} -> "read"
                  [] w = "dtlsR" -> (IF "dtls" \in load THEN "dial" ELSE "off")
                  [] w \in {"dtlsW", "user"} -> "off"
                  [] OTHER -> "idle"]
    /\ at = [p \in Places |-> <<>>]
    /\ pool = [b \in Objects |-> IF b \in Buffers THEN 1 ELSE 0]
    /\ user = [dialer |-> "idle", stored |-> FALSE, open |-> FALSE, flow |-> FALSE]
    /\ answers = 0
    /\ RoutesInit

-----------------------------------------------------------------------------
(* Buffers.                                                                *)

Pooled == {b \in Objects : pool[b] > 0}

\* getPayloadBuffer; the buffers it would make are in the pool from the start.
GetPayloadBuffer(w) ==
    /\ Pooled # {}
    /\ LET b == CHOOSE x \in Pooled : TRUE
       IN /\ at' = [at EXCEPT ![w] = <<b>>]
          /\ pool' = [pool EXCEPT ![b] = @ - 1]

\* Mutant: every payload is put into the pool, whatever its capacity.
PooledAny(held) == [b \in Objects |-> IF b \in Range(held) /\ pool[b] < 2 THEN pool[b] + 1 ELSE pool[b]]

\* putPayloadBuffer
PooledWith(held) == [b \in Objects |-> IF b \in Range(held) \cap Buffers THEN pool[b] + 1 ELSE pool[b]]

PutPayloadBuffer(w) ==
    /\ at' = [at EXCEPT ![w] = <<>>]
    /\ pool' = PooledWith(at[w])

Become(w, step) == pc' = [pc EXCEPT ![w] = step]

\* A send on a channel and a receive from it.
Send(w, q, next) ==
    /\ Len(at[q]) < Cap
    /\ at' = [at EXCEPT ![q] = @ \o at[w], ![w] = <<>>]
    /\ Become(w, next)
    /\ UNCHANGED <<pool, s, user>>

Receive(w, q, next) ==
    /\ at[q] # <<>>
    /\ at' = [at EXCEPT ![q] = Tail(@), ![w] = <<Head(at[q])>>]
    /\ Become(w, next)
    /\ UNCHANGED <<pool, s, user>>

-----------------------------------------------------------------------------
(* Closing.                                                                *)

\* ConnSession.Close; DtlsSession.Close closes CloseChan and resets DtlsConnected.
Closed(x) == [x EXCEPT !.closed = TRUE,
                       !.dtlsClosed = (~x.closed /\ x.dtlsConnected) \/ @,
                       !.dtlsConnected = IF x.closed THEN @ ELSE FALSE]
TlsClosed(x) == Closed([x EXCEPT !.tlsSocket = FALSE])
DtlsEnd(x) == [x EXCEPT !.dtlsSocket = FALSE, !.dtlsClosed = TRUE, !.dtlsConnected = FALSE]

\* userTunnel.Close
TunnelClosed(u) == [u EXCEPT !.stored = FALSE, !.open = FALSE]

\* A worker returns: it puts the buffer it holds back and runs its deferred calls.
Return(w, session, tunnel) ==
    /\ Become(w, "gone")
    /\ PutPayloadBuffer(w)
    /\ s' = session
    /\ user' = tunnel

\* Backend.Disconnect, an underlay change, the device going down (watchTunEvents).
CloseSession ==
    /\ "loss" \in load /\ ~s.closed
    /\ s' = Closed(s)
    /\ UNCHANGED <<pc, at, pool, user>>

\* TunnelController.Close: the route worker has returned, then the device is closed.
CloseDevice ==
    /\ s.closed /\ s.device /\ pc["routes"] = "gone"
    /\ s' = [s EXCEPT !.device = FALSE]
    /\ UNCHANGED <<pc, at, pool, user>>

\* The path to the server breaks without a word.
PeerDies ==
    /\ "loss" \in load /\ s.peer /\ ~s.closed
    /\ s' = [s EXCEPT !.peer = FALSE]
    /\ UNCHANGED <<pc, at, pool, user>>

-----------------------------------------------------------------------------
(* tlsChannel and payloadOutTLSToServer.                                   *)

TlsFrame(step) ==
    /\ step = "in" \/ "dpd" \in load
    /\ pc["tlsR"] = "read" /\ s.tlsSocket /\ s.peer
    /\ GetPayloadBuffer("tlsR")
    /\ Become("tlsR", step)
    /\ UNCHANGED <<s, user>>

\* 0x00 goes to PayloadIn, a DPD request becomes the response in the same buffer.
TlsOffer ==
    \/ pc["tlsR"] = "in" /\ Send("tlsR", "PayloadIn", "read")
    \/ pc["tlsR"] = "reply" /\ Send("tlsR", "PayloadOutTLS", "read")

TlsOfferEnds ==
    /\ pc["tlsR"] \in {"in", "reply"} /\ s.closed
    /\ Return("tlsR", TlsClosed(s), user)

\* A read error, DISCONNECT, TERMINATE, an unknown frame.
TlsReadFails ==
    /\ "loss" \in load /\ pc["tlsR"] = "read" /\ s.peer /\ s.tlsSocket
    /\ Return("tlsR", TlsClosed(s), user)

\* Mutant: only a closed socket ends the read.
TlsReadEndsOnClose ==
    /\ pc["tlsR"] = "read" /\ ~s.tlsSocket
    /\ Return("tlsR", TlsClosed(s), user)

\* The read deadline or a closed socket.
TlsReadEnds ==
    /\ pc["tlsR"] = "read" /\ (~s.peer \/ ~s.tlsSocket)
    /\ Return("tlsR", TlsClosed(s), user)

TlsTake == pc["tlsW"] = "idle" /\ Receive("tlsW", "PayloadOutTLS", "write")

TlsTakeEnds ==
    /\ pc["tlsW"] = "idle" /\ s.closed
    /\ Return("tlsW", TlsClosed(s), user)

TlsWriteOk ==
    /\ pc["tlsW"] = "write" /\ s.tlsSocket
    /\ PutPayloadBuffer("tlsW")
    /\ Become("tlsW", "idle")
    /\ UNCHANGED <<s, user>>

TlsWriteFails ==
    /\ "loss" \in load /\ pc["tlsW"] = "write"
    /\ Return("tlsW", TlsClosed(s), user)

-----------------------------------------------------------------------------
(* dtlsChannel and payloadOutDTLSToServer.  The handshake is not tied to   *)
(* the session: it may succeed after ConnSession.Close.                    *)

DtlsReady ==
    /\ pc["dtlsR"] = "dial" /\ s.peer
    /\ s' = [s EXCEPT !.dtlsConnected = TRUE, !.dtlsSocket = TRUE]
    /\ pc' = [pc EXCEPT !["dtlsR"] = "read", !["dtlsW"] = "idle"]
    /\ UNCHANGED <<at, pool, user>>

\* dSess is still nil.
DtlsDialFails ==
    /\ pc["dtlsR"] = "dial"
    /\ Become("dtlsR", "gone")
    /\ UNCHANGED <<s, at, pool, user>>

DtlsFrame(step) ==
    /\ step = "in" \/ "dpd" \in load
    /\ pc["dtlsR"] = "read" /\ s.dtlsSocket /\ s.peer
    /\ GetPayloadBuffer("dtlsR")
    /\ Become("dtlsR", step)
    /\ UNCHANGED <<s, user>>

DtlsOffer ==
    \/ pc["dtlsR"] = "in" /\ Send("dtlsR", "PayloadIn", "read")
    \/ pc["dtlsR"] = "reply" /\ Send("dtlsR", "PayloadOutDTLS", "read")

DtlsOfferEnds ==
    /\ pc["dtlsR"] \in {"in", "reply"} /\ s.dtlsClosed
    /\ Return("dtlsR", DtlsEnd(s), user)

\* A read error, an invalid or unknown frame, DISCONNECT, which keeps its buffer.
DtlsReadFails ==
    /\ "loss" \in load /\ pc["dtlsR"] = "read" /\ s.peer /\ s.dtlsSocket
    /\ Return("dtlsR", DtlsEnd(s), user)

\* The read deadline, which nobody moves any more once the session is closed.
DtlsReadEnds ==
    /\ pc["dtlsR"] = "read" /\ (~s.peer \/ ~s.dtlsSocket \/ s.closed)
    /\ Return("dtlsR", DtlsEnd(s), user)

\* A datagram is written at once.
DtlsWriteOk ==
    /\ pc["dtlsW"] = "idle" /\ at["PayloadOutDTLS"] # <<>> /\ s.dtlsSocket
    /\ at' = [at EXCEPT !["PayloadOutDTLS"] = Tail(@)]
    /\ pool' = PooledWith(<<Head(at["PayloadOutDTLS"])>>)
    /\ UNCHANGED <<s, pc, user>>

DtlsWriteFails ==
    /\ "loss" \in load /\ pc["dtlsW"] = "idle" /\ at["PayloadOutDTLS"] # <<>>
    /\ at' = [at EXCEPT !["PayloadOutDTLS"] = Tail(@)]
    /\ pool' = PooledWith(<<Head(at["PayloadOutDTLS"])>>)
    /\ Become("dtlsW", "gone")
    /\ s' = DtlsEnd(s)
    /\ UNCHANGED user

\* Mutant: the writer waits for payloads only.
DtlsTakeNeverEnds == FALSE /\ UNCHANGED dataVars

DtlsTakeEnds ==
    /\ pc["dtlsW"] = "idle" /\ s.dtlsClosed
    /\ Return("dtlsW", DtlsEnd(s), user)

-----------------------------------------------------------------------------
(* tunToPayloadOut and userTunToPayloadOut, with sendPayloadToServer.      *)

\* A packet arrives and DtlsConnected is read.
Packet(w) ==
    /\ pc[w] = "read"
    /\ IF w = "tun" THEN s.device /\ "out" \in load ELSE user.open
    /\ GetPayloadBuffer(w)
    /\ Become(w, IF s.dtlsConnected THEN "dtls" ELSE "tls")
    /\ user' = IF w = "user" THEN [user EXCEPT !.flow = TRUE] ELSE user
    /\ UNCHANGED s

SendDtls(w) == pc[w] = "dtls" /\ Send(w, "PayloadOutDTLS", "read")
SendTls(w) == pc[w] = "tls" /\ Send(w, "PayloadOutTLS", "read")

\* Mutant: a packet that waits for DTLS does not notice that DTLS has ended.
FallBackNever(w) == FALSE /\ UNCHANGED dataVars

FallBack(w) ==
    /\ pc[w] = "dtls" /\ s.dtlsClosed
    /\ Become(w, "tls")
    /\ UNCHANGED <<s, at, pool, user>>

\* What the deferred calls of a sender close.
SenderEnds(w) == Return(w, s, IF w = "user" THEN TunnelClosed(user) ELSE user)

SendEnds(w) == pc[w] \in {"dtls", "tls"} /\ s.closed /\ SenderEnds(w)

TunReadFails == "loss" \in load /\ pc["tun"] = "read" /\ s.device /\ Return("tun", Closed(s), user)
TunReadEnds == pc["tun"] = "read" /\ ~s.device /\ Return("tun", Closed(s), user)
UserReadEnds == pc["user"] = "read" /\ ~user.open /\ SenderEnds("user")

\* SessionTunnelDialer, called when the proxy starts: the tunnel and its worker exist
\* before the tunnel is stored.
NewUserTunnel ==
    /\ "user" \in load /\ user.dialer = "idle"
    /\ user' = [user EXCEPT !.dialer = "made", !.open = TRUE]
    /\ Become("user", "read")
    /\ UNCHANGED <<s, at, pool>>

StoreUserTunnel ==
    /\ user.dialer = "made"
    /\ user' = [user EXCEPT !.dialer = "done", !.stored = TRUE]
    /\ UNCHANGED <<s, pc, at, pool>>

-----------------------------------------------------------------------------
(* payloadInToTun.                                                         *)

TakeIn == pc["in"] = "idle" /\ Receive("in", "PayloadIn", "route")

\* closeUserTunnel
CloseStored(u) == IF u.stored THEN TunnelClosed(u) ELSE u

InReturns == Return("in", Closed(s), CloseStored(user))

\* The select for a payload, and the one for the route worker.
TakeInEnds == pc["in"] \in {"idle", "dns"} /\ s.closed /\ InReturns

\* routeUserInbound: the user tunnel has sent something the packet may answer.
Mine == user.stored /\ user.flow /\ user.open
ToUser ==
    /\ pc["in"] = "route" /\ Mine
    /\ PutPayloadBuffer("in")
    /\ Become("in", "idle")
    /\ UNCHANGED <<s, user>>

\* A packet of another flow or of one that is idle for userFlowTTL, or one the user
\* tunnel did not take.
NotToUser(step) ==
    /\ pc["in"] = "route"
    /\ step = "write" \/ "dns" \in load
    /\ Become("in", step)
    /\ user' \in {user, IF Mine THEN TunnelClosed(user) ELSE user}
    /\ UNCHANGED <<s, at, pool>>

\* A DNS answer is copied for the route worker.
SendAnswer ==
    /\ pc["in"] = "dns" /\ answers < Cap
    /\ answers' = answers + 1
    /\ Become("in", "write")
    /\ UNCHANGED <<s, at, pool, user>>

WriteOk ==
    /\ pc["in"] = "write" /\ s.device
    /\ PutPayloadBuffer("in")
    /\ Become("in", "idle")
    /\ UNCHANGED <<s, user>>

WriteFails == "loss" \in load /\ pc["in"] = "write" /\ InReturns

-----------------------------------------------------------------------------
(* DPDTimer and dynamicRouteWorker.                                        *)

\* Both sends are dropped when the channel is full.
DpdTick ==
    /\ "dpd" \in load /\ pc["timer"] = "idle"
    /\ at' = [at EXCEPT !["PayloadOutTLS"] = IF Len(@) < Cap THEN Append(@, TlsDpd) ELSE @,
                        !["PayloadOutDTLS"] = IF s.dtlsConnected /\ Len(@) < Cap
                                              THEN Append(@, DtlsDpd) ELSE @]
    /\ at' # at
    /\ UNCHANGED <<s, pc, pool, user>>

WorkerStops(w) ==
    /\ pc[w] = "idle" /\ s.closed
    /\ Become(w, "gone")
    /\ UNCHANGED <<s, at, pool, user>>

RouteWorker(step) == Become("routes", step) /\ UNCHANGED <<s, at, pool, user>>

TakeAnswer(a) ==
    /\ pc["routes"] = "idle" /\ answers > 0
    /\ answers' = answers - 1
    /\ "split" \in load \/ Ignored(a)
    /\ \/ Ignored(a) /\ RouteWorker("idle") /\ UNCHANGED routeVars
       \/ ~Ignored(a) /\ Refuse(a) /\ RouteWorker("idle")
       \/ ~Ignored(a) /\ Grant(a) /\ RouteWorker("sync")

RoutesTick == pc["routes"] = "idle" /\ Expire /\ RouteWorker("sync")

Reconcile == pc["routes"] = "sync" /\ (ReconcileOk \/ ReconcileFails) /\ RouteWorker("idle")

-----------------------------------------------------------------------------
(* The specification.                                                      *)

\* A packet arrives.
Arrives ==
    \/ \E step \in {"in", "reply"} : TlsFrame(step) \/ DtlsFrame(step)
    \/ \E w \in {"tun", "user"} : Packet(w)
    \/ DpdTick

Environment ==
    \/ CloseSession \/ PeerDies \/ TlsReadFails \/ DtlsReady \/ DtlsReadFails
    \/ TunReadFails \/ NewUserTunnel \/ StoreUserTunnel

TlsReader == TlsOffer \/ TlsOfferEnds \/ TlsReadEnds
TlsWriter == TlsTake \/ TlsTakeEnds \/ TlsWriteOk \/ TlsWriteFails
DtlsReader == DtlsDialFails \/ DtlsOffer \/ DtlsOfferEnds \/ DtlsReadEnds
DtlsWriter == DtlsWriteOk \/ DtlsWriteFails \/ DtlsTakeEnds
Sender(w) ==
    \/ SendDtls(w) \/ SendTls(w) \/ FallBack(w) \/ SendEnds(w)
    \/ (w = "tun" /\ TunReadEnds) \/ (w = "user" /\ UserReadEnds)
InWorker ==
    \/ TakeIn \/ TakeInEnds \/ ToUser \/ WriteOk \/ WriteFails
    \/ \E step \in {"write", "dns"} : NotToUser(step)
Stops == WorkerStops("timer") \/ WorkerStops("routes") \/ CloseDevice

\* What the data path does leaves the route worker's state alone.
Data(A) == A /\ UNCHANGED <<load, answers, routeVars>>

InStep == Data(InWorker) \/ (SendAnswer /\ UNCHANGED <<load, routeVars>>)

RoutesWorker ==
    \/ (\E a \in Answer : TakeAnswer(a)) /\ UNCHANGED load
    \/ (RoutesTick \/ Reconcile) /\ UNCHANGED <<load, answers>>

Next ==
    \/ Data(Arrives) \/ Data(Environment)
    \/ Data(TlsReader) \/ Data(TlsWriter) \/ Data(DtlsReader) \/ Data(DtlsWriter)
    \/ Data(Sender("tun")) \/ Data(Sender("user")) \/ InStep \/ RoutesWorker \/ Data(Stops)
    \/ (Age \/ ReportHealth) /\ UNCHANGED <<load, answers, dataVars>>

Spec == Init /\ [][Next]_vars

\* The workers run, and a write to the server returns, if only when the kernel gives the
\* connection up.  Sessions need not end, reports need not be read.  Traffic comes in a
\* finite burst: a select chooses at random and a channel queues its senders, so that
\* under traffic without end a worker is served too, but weak fairness does not say so.
FairSpec ==
    /\ Spec
    /\ WF_vars(Data(TlsReader)) /\ WF_vars(Data(TlsWriter))
    /\ WF_vars(Data(DtlsReader)) /\ WF_vars(Data(DtlsWriter))
    /\ WF_vars(Data(Sender("tun"))) /\ WF_vars(Data(Sender("user")))
    /\ WF_vars(InStep) /\ WF_vars(RoutesWorker) /\ WF_vars(Data(Stops))
    /\ <>[][~Data(Arrives)]_vars

-----------------------------------------------------------------------------
(* Properties.                                                             *)

\* A packet buffer has one owner: a worker, a channel or the pool, on every path through
\* the workers, their errors and their ends.  The two payloads DPDTimer sends again and
\* again never get into the pool, where a reader would fill them while they are queued.
BuffersOwned ==
    /\ \A b \in Buffers : Copies(b) <= 1
    /\ pool[TlsDpd] = 0 /\ pool[DtlsDpd] = 0

\* While the daemon shows healthy routes and no report is on its way, the kernel has the
\* host routes of the current leases, whatever failed before and however slowly the
\* reports are read.
HealthyRoutes ==
    (pc["routes"] = "idle" /\ health = <<>> /\ shown = "ok") => routes = Wanted

\* Again and again no worker holds a packet: one that waits for DTLS falls back to TLS
\* when DTLS ends, and one that waits for a full channel is sent or given up.
\* (dtlsChannel may wait for ever when its handshake ended after the session.)
PacketsMove ==
    []<>(\A w \in Workers \ {"dtlsR"} : at[w] = <<>>)

\* A server that stops answering is noticed: the read deadline ends the session, also
\* when tlsChannel had to wait for the writer with a DPD response.
PeerLossNoticed == ~s.peer ~> s.closed

\* Every worker of a closed session returns, wherever it waits, and the device is closed.
\* Both DTLS workers return when DTLS ends, and so does the worker of a user tunnel that
\* payloadInToTun finds when the session ends.
WorkersStop ==
    /\ s.closed ~> /\ ~s.device
                   /\ \A w \in {"tlsR", "tlsW", "tun", "in", "timer", "routes"} : pc[w] = "gone"
    /\ s.dtlsClosed ~> pc["dtlsR"] = "gone" /\ pc["dtlsW"] = "gone"
    /\ (s.closed /\ user.stored /\ pc["in"] # "gone") ~> (~user.open /\ pc["user"] = "gone")

=============================================================================
