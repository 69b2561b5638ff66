------------------------------- MODULE Proxy -------------------------------
(***************************************************************************)
(* The SOCKS5 server of internal/socks5: the accept loop, one handler for  *)
(* each client, the two copies of a relayed connection, and CloseContext   *)
(* against all of them.                                                    *)
(*                                                                         *)
(* The upstream connection is one of the user-space tunnel; it ends with   *)
(* the tunnel, which goes away when the session does (Datapath).  What a   *)
(* client asks for is abstracted to whether the server accepts it, and     *)
(* data to the moment it makes a copy fail.                                *)
(***************************************************************************)
EXTENDS Naturals, FiniteSets

CONSTANTS Clients

ASSUME ProxyAssumption == IsFiniteSet(Clients)

VARIABLES
    serve,      \* the accept loop, and the connection it has just accepted
    srv,        \* listener, closed, conns, the WaitGroup
    conn,       \* the connections of the clients and their handlers
    close,      \* the call of CloseContext
    tunnel      \* the user tunnel is open

vars == <<serve, srv, conn, close, tunnel>>

-----------------------------------------------------------------------------
Steps == {"none", "accepted", "greet", "dial", "reply", "relay", "gone"}

\* sock and up are the server's ends; eof says that the client has closed its end.
\* out copies from the client to the upstream, back the other way.
Conn == [step : Steps, sock : BOOLEAN, eof : BOOLEAN, up : BOOLEAN,
         out : BOOLEAN, back : BOOLEAN]
NoConn == [step |-> "none", sock |-> FALSE, eof |-> FALSE, up |-> FALSE,
           out |-> FALSE, back |-> FALSE]

TypeOK ==
    /\ serve \in {"accept", "got", "gone"}
    /\ srv \in [listener : BOOLEAN, closed : BOOLEAN, conns : SUBSET Clients,
                wg : 0..(Cardinality(Clients) + 1)]
    /\ conn \in [Clients -> Conn]
    /\ close \in {"idle", "wait", "ok", "timeout"}
    /\ tunnel \in BOOLEAN

\* Listen
Init ==
    /\ serve = "accept"
    /\ srv = [listener |-> TRUE, closed |-> FALSE, conns |-> {}, wg |-> 1]
    /\ conn = [c \in Clients |-> NoConn]
    /\ close = "idle"
    /\ tunnel = TRUE

-----------------------------------------------------------------------------
(* serve                                                                   *)

Accept(c) ==
    /\ serve = "accept" /\ srv.listener /\ conn[c].step = "none"
    /\ conn' = [conn EXCEPT ![c].step = "accepted", ![c].sock = TRUE]
    /\ serve' = "got"
    /\ UNCHANGED <<srv, close, tunnel>>

\* Accept failed: the listener stays open until the server is closed.
AcceptFails ==
    /\ serve = "accept"
    /\ serve' = "gone"
    /\ srv' = [srv EXCEPT !.wg = @ - 1]
    /\ UNCHANGED <<conn, close, tunnel>>

\* Mutant: serve does not ask whether the server was closed meanwhile.
TrackAnyway(c) ==
    /\ serve = "got" /\ conn[c].step = "accepted"
    /\ srv' = [srv EXCEPT !.conns = @ \cup {c}, !.wg = @ + 1]
    /\ conn' = [conn EXCEPT ![c].step = "greet"]
    /\ serve' = "accept"
    /\ UNCHANGED <<close, tunnel>>

\* Mutant: the handler is counted when it is started and again when it runs.
TrackTwice(c) ==
    /\ serve = "got" /\ conn[c].step = "accepted" /\ ~srv.closed
    /\ srv' = [srv EXCEPT !.conns = @ \cup {c}, !.wg = @ + 2]
    /\ conn' = [conn EXCEPT ![c].step = "greet"]
    /\ serve' = "accept"
    /\ UNCHANGED <<close, tunnel>>

\* Mutant: the handler is counted by itself, once it runs.
TrackUncounted(c) ==
    /\ serve = "got" /\ conn[c].step = "accepted" /\ ~srv.closed
    /\ srv' = [srv EXCEPT !.conns = @ \cup {c}]
    /\ conn' = [conn EXCEPT ![c].step = "greet"]
    /\ serve' = "accept"
    /\ UNCHANGED <<close, tunnel>>

\* Under mu: the handler starts, or the connection is closed and serve returns.
Track(c) ==
    /\ serve = "got" /\ conn[c].step = "accepted"
    /\ IF srv.closed
       THEN /\ conn' = [conn EXCEPT ![c].step = "gone", ![c].sock = FALSE]
            /\ srv' = [srv EXCEPT !.wg = @ - 1]
            /\ serve' = "gone"
       ELSE /\ srv' = [srv EXCEPT !.conns = @ \cup {c}, !.wg = @ + 1]
            /\ conn' = [conn EXCEPT ![c].step = "greet"]
            /\ serve' = "accept"
    /\ UNCHANGED <<close, tunnel>>

-----------------------------------------------------------------------------
(* handleConn                                                              *)

\* The deferred calls.
Ended(x) == [x EXCEPT !.step = "gone", !.sock = FALSE, !.up = FALSE]

Finish(c) ==
    /\ conn' = [conn EXCEPT ![c] = Ended(@)]
    /\ srv' = [srv EXCEPT !.conns = @ \ {c}, !.wg = IF @ > 0 THEN @ - 1 ELSE 0]
    /\ UNCHANGED <<serve, close, tunnel>>

Step(c, x) ==
    /\ conn' = [conn EXCEPT ![c] = x]
    /\ UNCHANGED <<serve, srv, close, tunnel>>

\* Method and request are read and accepted.
Greet(c) ==
    /\ conn[c].step = "greet" /\ conn[c].sock
    /\ Step(c, [conn[c] EXCEPT !.step = "dial"])

\* The client sent something else, nothing for 30 seconds, or its connection is closed.
GreetFails(c) == conn[c].step = "greet" /\ Finish(c)

\* dialTarget, whose context is its own and not the server's.
Dial(c) ==
    /\ conn[c].step = "dial" /\ tunnel
    /\ Step(c, [conn[c] EXCEPT !.step = "reply", !.up = TRUE])

DialFails(c) == conn[c].step = "dial" /\ Finish(c)

Reply(c) ==
    /\ conn[c].step = "reply" /\ conn[c].sock
    /\ Step(c, [conn[c] EXCEPT !.step = "relay", !.out = TRUE, !.back = TRUE])

ReplyFails(c) == conn[c].step = "reply" /\ (~conn[c].sock \/ conn[c].eof) /\ Finish(c)

\* io.Copy to the upstream ends.  The upstream is no *net.TCPConn: it hears nothing.
OutEnds(c) ==
    /\ conn[c].step = "relay" /\ conn[c].out
    /\ ~conn[c].sock \/ conn[c].eof
    /\ Step(c, [conn[c] EXCEPT !.out = FALSE])

\* io.Copy to the client ends with the upstream.  CloseWrite tells the client.
BackEnds(c) ==
    /\ conn[c].step = "relay" /\ conn[c].back /\ ~tunnel
    /\ Step(c, [conn[c] EXCEPT !.back = FALSE])

\* The target closes the upstream, or sends data for a client that has gone.
TargetEnds(c) ==
    /\ conn[c].step = "relay" /\ conn[c].back /\ tunnel
    /\ Step(c, [conn[c] EXCEPT !.back = FALSE])

\* Data from the client for an upstream that has gone.
ClientData(c) ==
    /\ conn[c].step = "relay" /\ conn[c].out /\ ~tunnel
    /\ Step(c, [conn[c] EXCEPT !.out = FALSE])

RelayEnds(c) == conn[c].step = "relay" /\ ~conn[c].out /\ ~conn[c].back /\ Finish(c)

ClientGoes(c) ==
    /\ conn[c].sock /\ ~conn[c].eof
    /\ Step(c, [conn[c] EXCEPT !.eof = TRUE])

-----------------------------------------------------------------------------
(* CloseContext, and the session's end.                                    *)

CloseContext ==
    /\ close = "idle"
    /\ close' = "wait"
    /\ srv' = [srv EXCEPT !.closed = TRUE, !.listener = FALSE]
    /\ conn' = [c \in Clients |-> IF c \in srv.conns THEN [conn[c] EXCEPT !.sock = FALSE] ELSE conn[c]]
    /\ UNCHANGED <<serve, tunnel>>

CloseReturns ==
    /\ close = "wait" /\ srv.wg = 0
    /\ close' = "ok"
    /\ UNCHANGED <<serve, srv, conn, tunnel>>

CloseTimesOut ==
    /\ close = "wait"
    /\ close' = "timeout"
    /\ UNCHANGED <<serve, srv, conn, tunnel>>

TunnelCloses ==
    /\ tunnel
    /\ tunnel' = FALSE
    /\ UNCHANGED <<serve, srv, conn, close>>

-----------------------------------------------------------------------------
(* The specification.                                                      *)

Handler(c) ==
    \/ Greet(c) \/ GreetFails(c) \/ Dial(c) \/ DialFails(c) \/ Reply(c) \/ ReplyFails(c)
    \/ OutEnds(c) \/ BackEnds(c) \/ RelayEnds(c)

Next ==
    \/ \E c \in Clients :
          Accept(c) \/ Track(c) \/ Handler(c) \/ TargetEnds(c) \/ ClientData(c) \/ ClientGoes(c)
    \/ AcceptFails \/ CloseContext \/ CloseReturns \/ CloseTimesOut \/ TunnelCloses

Spec == Init /\ [][Next]_vars

\* The server's goroutines run, and what waits for a client, a target or a resolver has
\* a deadline until the relay begins.  Clients and targets owe nothing.
FairSpec ==
    /\ Spec
    /\ \A c \in Clients : WF_vars(Track(c)) /\ WF_vars(Handler(c))
    /\ WF_vars(AcceptFails /\ ~srv.listener)

-----------------------------------------------------------------------------
(* Properties.                                                             *)

\* When CloseContext reports success nothing of the server is left: the accept loop and
\* every handler have returned, and no client or upstream connection is open, though
\* connections were being accepted, dialled or relayed when it was called.
CloseComplete ==
    close = "ok" =>
        /\ serve = "gone" /\ srv.conns = {}
        /\ \A c \in Clients : conn[c].step \in {"none", "gone"} /\ ~conn[c].sock /\ ~conn[c].up

\* Once the server is closed and the tunnel is gone every handler returns, whatever its
\* client and its target do.  Without the end of the tunnel this is not so: an idle target
\* keeps its handler, and CloseContext waits until its own deadline.
HandlersEnd == (srv.closed /\ ~tunnel) ~> srv.wg = 0

=============================================================================
