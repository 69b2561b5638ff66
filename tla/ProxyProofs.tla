---------------------------- MODULE ProxyProofs ----------------------------
(* Proofs about Proxy, for every finite set of clients.                     *)
EXTENDS Proxy, FiniteSetTheorems, TLAPS

\* Handlers that have started and not returned.
Handling == {"greet", "dial", "reply", "relay"}

\* The connections the server knows are those of the running handlers, and the
\* WaitGroup counts them and the accept loop.
Counted ==
    /\ \A c \in Clients : c \in srv.conns <=> conn[c].step \in Handling
    /\ srv.wg = Cardinality(srv.conns) + (IF serve = "gone" THEN 0 ELSE 1)

\* At most one connection is accepted and not yet a handler's, and only by serve.
AcceptedOne ==
    \A c \in Clients : conn[c].step = "accepted" =>
        /\ serve = "got"
        /\ \A e \in Clients : conn[e].step = "accepted" => e = c

\* A connection that has no handler has no upstream, and without an accept loop in
\* between no socket either.
Released ==
    \A c \in Clients :
        /\ conn[c].step \in {"none", "gone", "accepted"} => ~conn[c].up
        /\ conn[c].step \in {"none", "gone"} => ~conn[c].sock

IInv ==
    /\ TypeOK
    /\ Counted
    /\ AcceptedOne
    /\ Released
    /\ close = "ok" => srv.wg = 0

-----------------------------------------------------------------------------
(* Facts about counting.                                                    *)

\* Every set of clients has a size, at most that of all clients; only the empty one has 0.
LEMMA ClientSets ==
    ASSUME NEW S \in SUBSET Clients
    PROVE  /\ Cardinality(S) \in Nat /\ Cardinality(Clients) \in Nat
           /\ Cardinality(S) <= Cardinality(Clients)
           /\ Cardinality(S) = 0 <=> S = {}
           /\ \A c \in Clients \ S : Cardinality(S \cup {c}) = Cardinality(S) + 1
           /\ \A c \in S : Cardinality(S \ {c}) = Cardinality(S) - 1
<1>1. IsFiniteSet(S) /\ Cardinality(S) <= Cardinality(Clients)
  BY ProxyAssumption, FS_Subset
<1>2. Cardinality(S) \in Nat /\ Cardinality(Clients) \in Nat
  BY <1>1, ProxyAssumption, FS_CardinalityType
<1>3. Cardinality(S) = 0 <=> S = {}
  BY <1>1, FS_EmptySet
<1>4. \A c \in Clients \ S : Cardinality(S \cup {c}) = Cardinality(S) + 1
  BY <1>1, FS_AddElement
<1>5. \A c \in S : Cardinality(S \ {c}) = Cardinality(S) - 1
  BY <1>1, FS_RemoveElement
<1> QED
  BY <1>1, <1>2, <1>3, <1>4, <1>5

\* Two sets of clients with one client more in the second differ by one in size, so the
\* second still fits the bound of the WaitGroup.
LEMMA WaitGroupBound ==
    ASSUME TypeOK, Counted
    PROVE  /\ srv.wg \in Nat
           /\ \A c \in Clients \ srv.conns :
                 Cardinality(srv.conns) + 1 <= Cardinality(Clients)
           /\ srv.conns # {} => srv.wg > 0
           /\ serve # "gone" => srv.wg > 0
<1>1. srv.conns \in SUBSET Clients
  BY DEF TypeOK
<1>2. \A c \in Clients \ srv.conns : Cardinality(srv.conns) + 1 <= Cardinality(Clients)
  <2> TAKE c \in Clients \ srv.conns
  <2>1. srv.conns \cup {c} \in SUBSET Clients
    BY <1>1
  <2> QED
    BY <1>1, <2>1, ClientSets
<1>3. Cardinality(srv.conns) \in Nat /\ (Cardinality(srv.conns) = 0 <=> srv.conns = {})
  BY <1>1, ClientSets
<1> QED
  BY <1>2, <1>3 DEF Counted

\* Changing both fields of the server that count keeps it well typed.
LEMMA CountsTyped ==
    ASSUME NEW x \in [listener : BOOLEAN, closed : BOOLEAN, conns : SUBSET Clients,
                      wg : 0..(Cardinality(Clients) + 1)],
           NEW S \in SUBSET Clients, NEW n \in 0..(Cardinality(Clients) + 1)
    PROVE  /\ [x EXCEPT !.conns = S, !.wg = n] \in
                 [listener : BOOLEAN, closed : BOOLEAN, conns : SUBSET Clients,
                  wg : 0..(Cardinality(Clients) + 1)]
           /\ [x EXCEPT !.conns = S, !.wg = n].conns = S
           /\ [x EXCEPT !.conns = S, !.wg = n].wg = n
OBVIOUS

-----------------------------------------------------------------------------
(* The steps.                                                               *)

\* A handler that goes on without returning disturbs nothing that is counted.
LEMMA StepKeeps ==
    ASSUME IInv, NEW c \in Clients, NEW x \in Conn, Step(c, x),
           \/ x.step \in Handling /\ conn[c].step \in Handling
           \/ x.step = conn[c].step /\ x.up = conn[c].up /\ x.sock = conn[c].sock
    PROVE  IInv'
<1>1. conn \in [Clients -> Conn] /\ conn' = [conn EXCEPT ![c] = x] /\ UNCHANGED <<serve, srv, close, tunnel>>
  BY DEF IInv, TypeOK, Step
<1>2. \A e \in Clients : conn'[e] = IF e = c THEN x ELSE conn[e]
  BY <1>1
<1>3. TypeOK'
  BY <1>1 DEF IInv, TypeOK
<1>4. Counted'
  BY <1>1, <1>2 DEF IInv, Counted, Handling
<1>5. AcceptedOne'
  BY <1>1, <1>2 DEF IInv, AcceptedOne, Handling
<1>6. Released'
  BY <1>1, <1>2 DEF IInv, Released, Handling
<1> QED
  BY <1>1, <1>3, <1>4, <1>5, <1>6 DEF IInv

\* A handler that returns takes its connection and its count with it.
LEMMA FinishKeeps ==
    ASSUME IInv, NEW c \in Clients, Finish(c), conn[c].step \in Handling
    PROVE  IInv'
<1>1. conn \in [Clients -> Conn] /\ conn' = [conn EXCEPT ![c] = Ended(@)]
      /\ UNCHANGED <<serve, close, tunnel>>
  BY DEF IInv, TypeOK, Finish
<1>2. /\ Ended(conn[c]) \in Conn /\ Ended(conn[c]).step = "gone"
      /\ ~Ended(conn[c]).sock /\ ~Ended(conn[c]).up
  BY <1>1 DEF Ended, Conn, Steps
<1>3. \A e \in Clients : conn'[e] = IF e = c THEN Ended(conn[c]) ELSE conn[e]
  BY <1>1
<1>4. conn' \in [Clients -> Conn]
  BY <1>1, <1>2
<1>5. c \in srv.conns /\ srv.conns \in SUBSET Clients
  BY DEF IInv, Counted, TypeOK
<1>6. srv.wg \in Nat /\ srv.wg > 0 /\ srv.wg <= Cardinality(Clients) + 1
      /\ Cardinality(srv.conns \ {c}) = Cardinality(srv.conns) - 1
      /\ Cardinality(srv.conns) \in Nat /\ Cardinality(Clients) \in Nat
  BY <1>5, WaitGroupBound, ClientSets DEF IInv, TypeOK
<1>7. /\ srv'.conns = srv.conns \ {c} /\ srv'.wg = srv.wg - 1
      /\ srv' \in [listener : BOOLEAN, closed : BOOLEAN, conns : SUBSET Clients,
                   wg : 0..(Cardinality(Clients) + 1)]
  <2>1. srv' = [srv EXCEPT !.conns = srv.conns \ {c}, !.wg = srv.wg - 1]
    BY <1>6 DEF Finish
  <2>2. srv.conns \ {c} \in SUBSET Clients /\ srv.wg - 1 \in 0..(Cardinality(Clients) + 1)
    BY <1>5, <1>6
  <2> QED
    BY <2>1, <2>2, CountsTyped DEF IInv, TypeOK
<1>8. TypeOK'
  BY <1>1, <1>4, <1>7 DEF IInv, TypeOK
<1>9. Counted'
  BY <1>1, <1>2, <1>3, <1>6, <1>7 DEF IInv, Counted, Handling
<1>10. AcceptedOne'
  BY <1>1, <1>2, <1>3 DEF IInv, AcceptedOne
<1>11. Released'
  BY <1>2, <1>3 DEF IInv, Released
<1>12. (close = "ok" => srv.wg = 0)'
  BY <1>1, <1>6 DEF IInv
<1> QED
  BY <1>8, <1>9, <1>10, <1>11, <1>12 DEF IInv

\* A client is accepted: it has a socket, and serve is busy with it.
LEMMA AcceptKeeps ==
    ASSUME IInv, NEW c \in Clients, Accept(c)
    PROVE  IInv'
<1> DEFINE x == [conn[c] EXCEPT !.step = "accepted", !.sock = TRUE]
<1>1. conn \in [Clients -> Conn] /\ serve' = "got" /\ UNCHANGED <<srv, close, tunnel>>
  BY DEF IInv, TypeOK, Accept
<1>2. x \in Conn /\ x.step = "accepted" /\ x.sock /\ x.up = conn[c].up
  BY <1>1 DEF Conn, Steps
<1>3. conn' = [conn EXCEPT ![c] = x]
  BY <1>1 DEF Accept
<1> HIDE DEF x
<1>4. \A e \in Clients : conn'[e] = IF e = c THEN x ELSE conn[e]
  BY <1>1, <1>3
<1>5. TypeOK'
  BY <1>1, <1>2, <1>3 DEF IInv, TypeOK
<1>6. Counted'
  BY <1>1, <1>2, <1>4 DEF IInv, Counted, Handling, Accept
<1>7. AcceptedOne'
  BY <1>1, <1>2, <1>4 DEF IInv, AcceptedOne, Accept
<1>8. Released'
  BY <1>1, <1>2, <1>4 DEF IInv, Released, Accept
<1> QED
  BY <1>1, <1>5, <1>6, <1>7, <1>8 DEF IInv

\* Under mu the connection becomes a handler's, or is closed with the accept loop.
LEMMA TrackKeeps ==
    ASSUME IInv, NEW c \in Clients, Track(c)
    PROVE  IInv'
<1>1. conn \in [Clients -> Conn] /\ serve = "got" /\ conn[c].step = "accepted"
      /\ UNCHANGED <<close, tunnel>>
  BY DEF IInv, TypeOK, Track
<1>2. c \notin srv.conns /\ srv.conns \in SUBSET Clients
  BY <1>1 DEF IInv, Counted, TypeOK, Handling
<1>3. srv.wg \in Nat /\ srv.wg > 0 /\ srv.wg <= Cardinality(Clients) + 1
      /\ Cardinality(srv.conns) \in Nat /\ Cardinality(Clients) \in Nat
      /\ Cardinality(srv.conns) + 1 <= Cardinality(Clients)
      /\ Cardinality(srv.conns \cup {c}) = Cardinality(srv.conns) + 1
      /\ srv.wg = Cardinality(srv.conns) + 1
  BY <1>1, <1>2, WaitGroupBound, ClientSets DEF IInv, TypeOK, Counted
<1>4. close # "ok"
  BY <1>3 DEF IInv
<1>5. CASE srv.closed
  <2> DEFINE x == [conn[c] EXCEPT !.step = "gone", !.sock = FALSE]
  <2>1. x \in Conn /\ x.step = "gone" /\ ~x.sock /\ x.up = conn[c].up
    BY <1>1 DEF Conn, Steps
  <2>2. conn' = [conn EXCEPT ![c] = x] /\ serve' = "gone"
    BY <1>1, <1>5 DEF Track
  <2> HIDE DEF x
  <2>3. \A e \in Clients : conn'[e] = IF e = c THEN x ELSE conn[e]
    BY <1>1, <2>2
  <2>4. /\ srv'.conns = srv.conns /\ srv'.wg = srv.wg - 1
        /\ srv' \in [listener : BOOLEAN, closed : BOOLEAN, conns : SUBSET Clients,
                     wg : 0..(Cardinality(Clients) + 1)]
    BY <1>3, <1>5 DEF IInv, TypeOK, Track
  <2>5. TypeOK'
    BY <1>1, <2>1, <2>2, <2>4 DEF IInv, TypeOK
  <2>6. Counted'
    BY <1>1, <1>3, <2>1, <2>2, <2>3, <2>4 DEF IInv, Counted, Handling
  <2>7. AcceptedOne'
    BY <1>1, <2>1, <2>2, <2>3 DEF IInv, AcceptedOne
  <2>8. Released'
    BY <1>1, <2>1, <2>3 DEF IInv, Released
  <2> QED
    BY <1>1, <1>4, <2>5, <2>6, <2>7, <2>8 DEF IInv
<1>6. CASE ~srv.closed
  <2> DEFINE x == [conn[c] EXCEPT !.step = "greet"]
  <2>1. x \in Conn /\ x.step = "greet"
    BY <1>1 DEF Conn, Steps
  <2>2. conn' = [conn EXCEPT ![c] = x] /\ serve' = "accept"
    BY <1>1, <1>6 DEF Track
  <2> HIDE DEF x
  <2>3. \A e \in Clients : conn'[e] = IF e = c THEN x ELSE conn[e]
    BY <1>1, <2>2
  <2>4. /\ srv'.conns = srv.conns \cup {c} /\ srv'.wg = srv.wg + 1
        /\ srv' \in [listener : BOOLEAN, closed : BOOLEAN, conns : SUBSET Clients,
                     wg : 0..(Cardinality(Clients) + 1)]
    <3>1. srv' = [srv EXCEPT !.conns = srv.conns \cup {c}, !.wg = srv.wg + 1]
      BY <1>6 DEF Track
    <3>2. /\ srv.conns \cup {c} \in SUBSET Clients
          /\ srv.wg + 1 \in 0..(Cardinality(Clients) + 1)
      BY <1>2, <1>3
    <3> QED
      BY <3>1, <3>2, CountsTyped DEF IInv, TypeOK
  <2>5. TypeOK'
    BY <1>1, <2>1, <2>2, <2>4 DEF IInv, TypeOK
  <2>6. Counted'
    BY <1>1, <1>3, <2>1, <2>2, <2>3, <2>4 DEF IInv, Counted, Handling
  <2>7. AcceptedOne'
    BY <1>1, <2>1, <2>2, <2>3 DEF IInv, AcceptedOne
  <2>8. Released'
    BY <1>1, <2>1, <2>3 DEF IInv, Released
  <2> QED
    BY <1>1, <1>4, <2>5, <2>6, <2>7, <2>8 DEF IInv
<1> QED
  BY <1>5, <1>6

\* The accept loop gives up.
LEMMA AcceptFailsKeeps ==
    ASSUME IInv, AcceptFails
    PROVE  IInv'
<1>1. serve = "accept" /\ serve' = "gone" /\ UNCHANGED <<conn, close, tunnel>>
  BY DEF AcceptFails
<1>2. srv.conns \in SUBSET Clients
  BY DEF IInv, TypeOK
<1>3. srv.wg \in Nat /\ srv.wg > 0 /\ srv.wg <= Cardinality(Clients) + 1
      /\ Cardinality(srv.conns) \in Nat /\ Cardinality(Clients) \in Nat
      /\ srv.wg = Cardinality(srv.conns) + 1
  BY <1>1, <1>2, WaitGroupBound, ClientSets DEF IInv, TypeOK, Counted
<1>4. /\ srv'.conns = srv.conns /\ srv'.wg = srv.wg - 1
      /\ srv' \in [listener : BOOLEAN, closed : BOOLEAN, conns : SUBSET Clients,
                   wg : 0..(Cardinality(Clients) + 1)]
  BY <1>3 DEF IInv, TypeOK, AcceptFails
<1>5. TypeOK'
  BY <1>1, <1>4 DEF IInv, TypeOK
<1>6. Counted'
  BY <1>1, <1>3, <1>4 DEF IInv, Counted
<1>7. AcceptedOne' /\ Released'
  BY <1>1 DEF IInv, AcceptedOne, Released
<1> QED
  BY <1>1, <1>3, <1>5, <1>6, <1>7 DEF IInv

\* CloseContext closes the sockets of the handlers and leaves the counting to them.
LEMMA CloseContextKeeps ==
    ASSUME IInv, CloseContext
    PROVE  IInv'
<1>1. conn \in [Clients -> Conn] /\ close' = "wait" /\ UNCHANGED <<serve, tunnel>>
  BY DEF IInv, TypeOK, CloseContext
<1>2. conn' \in [Clients -> Conn] /\ \A e \in Clients :
        /\ conn'[e].step = conn[e].step /\ conn'[e].up = conn[e].up
        /\ conn'[e].sock => conn[e].sock
  BY <1>1 DEF CloseContext, Conn
<1>3. /\ srv'.conns = srv.conns /\ srv'.wg = srv.wg
      /\ srv' \in [listener : BOOLEAN, closed : BOOLEAN, conns : SUBSET Clients,
                   wg : 0..(Cardinality(Clients) + 1)]
  BY DEF IInv, TypeOK, CloseContext
<1>4. TypeOK'
  BY <1>1, <1>2, <1>3 DEF IInv, TypeOK
<1>5. Counted' /\ AcceptedOne' /\ Released'
  BY <1>1, <1>2, <1>3 DEF IInv, Counted, AcceptedOne, Released
<1> QED
  BY <1>1, <1>4, <1>5 DEF IInv

\* What a running handler does before it returns.
LEMMA HandlerKeeps ==
    ASSUME IInv, NEW c \in Clients,
           Handler(c) \/ TargetEnds(c) \/ ClientData(c) \/ ClientGoes(c)
    PROVE  IInv'
<1>1. conn[c] \in Conn
  BY DEF IInv, TypeOK
<1>2. CASE Greet(c)
  <2>1. [conn[c] EXCEPT !.step = "dial"] \in Conn /\ [conn[c] EXCEPT !.step = "dial"].step = "dial"
    BY <1>1 DEF Conn, Steps
  <2> QED
    BY <1>2, <2>1, StepKeeps DEF Greet, Handling
<1>3. CASE Dial(c)
  <2>1. /\ [conn[c] EXCEPT !.step = "reply", !.up = TRUE] \in Conn
        /\ [conn[c] EXCEPT !.step = "reply", !.up = TRUE].step = "reply"
    BY <1>1 DEF Conn, Steps
  <2> QED
    BY <1>3, <2>1, StepKeeps DEF Dial, Handling
<1>4. CASE Reply(c)
  <2>1. /\ [conn[c] EXCEPT !.step = "relay", !.out = TRUE, !.back = TRUE] \in Conn
        /\ [conn[c] EXCEPT !.step = "relay", !.out = TRUE, !.back = TRUE].step = "relay"
    BY <1>1 DEF Conn, Steps
  <2> QED
    BY <1>4, <2>1, StepKeeps DEF Reply, Handling
<1>5. CASE OutEnds(c) \/ ClientData(c)
  <2>1. /\ [conn[c] EXCEPT !.out = FALSE] \in Conn
        /\ [conn[c] EXCEPT !.out = FALSE].step = conn[c].step
    BY <1>1 DEF Conn
  <2> QED
    BY <1>5, <2>1, StepKeeps DEF OutEnds, ClientData, Handling
<1>6. CASE BackEnds(c) \/ TargetEnds(c)
  <2>1. /\ [conn[c] EXCEPT !.back = FALSE] \in Conn
        /\ [conn[c] EXCEPT !.back = FALSE].step = conn[c].step
    BY <1>1 DEF Conn
  <2> QED
    BY <1>6, <2>1, StepKeeps DEF BackEnds, TargetEnds, Handling
<1>7. CASE ClientGoes(c)
  <2>1. /\ [conn[c] EXCEPT !.eof = TRUE] \in Conn
        /\ [conn[c] EXCEPT !.eof = TRUE].step = conn[c].step
        /\ [conn[c] EXCEPT !.eof = TRUE].up = conn[c].up
        /\ [conn[c] EXCEPT !.eof = TRUE].sock = conn[c].sock
    BY <1>1 DEF Conn
  <2> QED
    BY <1>7, <2>1, StepKeeps DEF ClientGoes
<1>8. CASE GreetFails(c) \/ DialFails(c) \/ ReplyFails(c) \/ RelayEnds(c)
  BY <1>8, FinishKeeps DEF GreetFails, DialFails, ReplyFails, RelayEnds, Handling
<1> QED
  BY <1>2, <1>3, <1>4, <1>5, <1>6, <1>7, <1>8 DEF Handler

\* A server that starts has an accept loop and no connection.
LEMMA InvInit == Init => IInv
<1> SUFFICES ASSUME Init PROVE IInv
  OBVIOUS
<1>1. NoConn \in Conn /\ \A c \in Clients : conn[c] = NoConn
  BY DEF Init, NoConn, Conn, Steps
<1>2. Cardinality(Clients) \in Nat /\ Cardinality({}) = 0
  BY ProxyAssumption, FS_CardinalityType, FS_EmptySet
<1>3. TypeOK
  BY <1>1, <1>2 DEF Init, TypeOK
<1>4. Counted
  BY <1>1, <1>2 DEF Init, Counted, NoConn, Handling
<1>5. AcceptedOne /\ Released
  BY <1>1 DEF AcceptedOne, Released, NoConn
<1> QED
  BY <1>3, <1>4, <1>5 DEF Init, IInv

\* The inductive invariant is inductive.
LEMMA InvNext == IInv /\ [Next]_vars => IInv'
<1> SUFFICES ASSUME IInv, [Next]_vars PROVE IInv'
  OBVIOUS
<1>1. ASSUME NEW c \in Clients, Accept(c) PROVE IInv'
  BY <1>1, AcceptKeeps
<1>2. ASSUME NEW c \in Clients, Track(c) PROVE IInv'
  BY <1>2, TrackKeeps
<1>3. ASSUME NEW c \in Clients, Handler(c) \/ TargetEnds(c) \/ ClientData(c) \/ ClientGoes(c)
      PROVE IInv'
  BY <1>3, HandlerKeeps
<1>4. CASE AcceptFails
  BY <1>4, AcceptFailsKeeps
<1>5. CASE CloseContext
  BY <1>5, CloseContextKeeps
<1>6. CASE CloseReturns \/ CloseTimesOut
  BY <1>6 DEF CloseReturns, CloseTimesOut, IInv, TypeOK, Counted, AcceptedOne, Released
<1>7. CASE TunnelCloses \/ UNCHANGED vars
  BY <1>7 DEF TunnelCloses, vars, IInv, TypeOK, Counted, AcceptedOne, Released
<1> QED
  BY <1>1, <1>2, <1>3, <1>4, <1>5, <1>6, <1>7 DEF Next

\* A WaitGroup at 0 means that accept loop and handlers have returned, and nothing is open.
LEMMA InvComplete == IInv => CloseComplete
<1> SUFFICES ASSUME IInv, close = "ok" PROVE CloseComplete
  BY DEF CloseComplete
<1>1. srv.conns \in SUBSET Clients /\ srv.wg = 0
  BY DEF IInv, TypeOK
<1>2. serve = "gone" /\ srv.conns = {}
  BY <1>1, WaitGroupBound DEF IInv
<1>3. \A c \in Clients : conn[c].step \in {"none", "gone"}
  BY <1>2 DEF IInv, TypeOK, Counted, AcceptedOne, Handling, Conn, Steps
<1> QED
  BY <1>2, <1>3 DEF IInv, Released, CloseComplete

\* The server's state is always well formed; in particular the WaitGroup never goes below
\* zero, which would panic, and never counts more than the handlers and the accept loop.
THEOREM TypeCorrect == Spec => []TypeOK
<1>1. IInv => TypeOK
  BY DEF IInv
<1> QED
  BY <1>1, InvInit, InvNext, PTL DEF Spec

\* A CloseContext that reports success leaves no goroutine and no connection behind, for
\* any number of clients and wherever their handlers were when it was called.
THEOREM CloseAlwaysComplete == Spec => []CloseComplete
BY InvInit, InvNext, InvComplete, PTL DEF Spec
=============================================================================
