---------------------------- MODULE TunnelProofs ----------------------------
(* Proofs about Tunnel, for any number of connections and any faults.       *)
EXTENDS Tunnel, SequenceTheorems, TLAPS

-----------------------------------------------------------------------------
(* The inductive invariant.                                                 *)

BeforeHook == {"off", "dial", "login", "session", "device", "network", "start", "stuck"}

\* The connection has a device: from its creation until TunnelController.Close.
Holds(x) ==
    \/ x.setup \in {"network", "start", "stuck", "workers"}
    \/ x.owned /\ x.ctl \in {"off", "stop", "device"}

\* The fields of one connection agree with each other: the controller closes what setup
\* has handed over to it, once, and the manager before the device.
Coherent(x) ==
    /\ x.setup \in BeforeHook => ~x.hook
    /\ x.setup \in BeforeHook \cup {"workers"} => ~x.owned
    /\ x.hook => x.setup = "workers" \/ x.owned
    /\ x.ctl # "off" => x.hook /\ x.closed
    /\ x.ctl \notin {"off", "stop"} => x.owned
    /\ x.net => \/ x.setup \in {"start", "stuck", "workers"}
                \/ x.owned /\ x.ctl \in {"off", "stop"}
    /\ x.closed => x.reason # "none"

\* There is one device, and it belongs to the connection that holds it.
DeviceInv == \A c \in Conns : Coherent(cn[c]) /\ (Holds(cn[c]) => dev = c)

\* A Disconnect under way has a connection to work on.
BusyInv == \A k \in Callers : disc[k].step = "idle" <=> disc[k].todo = <<>>

\* The registered attempt is one whose Connect has not returned or been published.
RegisteredInv ==
    \A c \in Conns : be.connecting = c =>
        call[c].step \in {"stale", "wait", "cancel", "fail", "check", "monitor", "publish"}

Targets(k) == {disc[k].todo[i] : i \in DOMAIN disc[k].todo}

\* Nobody has asked to end an attempt that is still going to be announced.
Undisturbed(c) ==
    \/ call[c].step = "idle"
    \/ be.connecting = c /\ call[c].step \in {"stale", "wait", "check", "monitor", "publish"}

UndisturbedInv ==
    \A c \in Conns : Undisturbed(c) =>
        /\ \A k \in Callers : c \notin Targets(k)
        /\ ~cn[c].activeClose /\ cn[c].reason # "local"
        /\ cn[c].setup \notin {"off", "dial", "err"} => cn[c].auth

\* An announced connection, or one about to be, is hung up and ended as a local one only
\* after activeClose was set; nothing resets that any more.
Published(c) == call[c].step = "announce" \/ Announced(c)

PublishedInv ==
    \A c \in Conns :
        /\ call[c].step \in {"idle", "stale"} => cn[c].setup = "off"
        /\ call[c].step \in {"check", "monitor", "publish"} => cn[c].setup = "ok"
        /\ be.active = c => Published(c)
        /\ Published(c) =>
             /\ cn[c].setup = "ok"
             /\ ~cn[c].auth \/ cn[c].reason = "local" => cn[c].activeClose
             /\ \A k \in Callers : disc[k].step \in {"hangup", "close"} /\ Target(k) = c
                                     => cn[c].activeClose

\* Events come in order, each at most once.
EventInv ==
    \A c \in Conns :
        /\ Announced(c) => call[c].step = "returned"
        /\ cn[c].watch => Announced(c) /\ ~Sent(c, "disconnected")
        /\ Sent(c, "disconnected") => Announced(c) /\ cn[c].closed

IInv ==
    /\ TypeOK
    /\ DeviceInv /\ BusyInv /\ RegisteredInv
    /\ UndisturbedInv /\ PublishedInv /\ EventInv

-----------------------------------------------------------------------------
(* Facts about sequences, calls of Disconnect and connections.              *)

Elems(s) == {s[i] : i \in DOMAIN s}

\* Head and tail of what a Disconnect still has to do.
LEMMA Rest ==
    ASSUME NEW s \in Seq(Conns), s # <<>>
    PROVE  /\ Head(s) \in Conns /\ Tail(s) \in Seq(Conns)
           /\ Len(s) > 1 <=> Tail(s) # <<>>
           /\ Head(s) \in Elems(s) /\ Elems(Tail(s)) \subseteq Elems(s)
<1>1. Head(s) \in Conns /\ Tail(s) \in Seq(Conns) /\ Len(s) \in Nat /\ Len(s) > 0
  OBVIOUS
<1>2. Len(Tail(s)) = Len(s) - 1 /\ \A i \in 1..(Len(s) - 1) : Tail(s)[i] = s[i + 1]
  OBVIOUS
<1>3. Head(s) = s[1] /\ DOMAIN s = 1..Len(s) /\ DOMAIN Tail(s) = 1..(Len(s) - 1)
  BY <1>1, <1>2
<1>4. Tail(s) = <<>> <=> Len(Tail(s)) = 0
  BY <1>1, EmptySeq
<1>5. Elems(Tail(s)) \subseteq Elems(s)
  <2> SUFFICES ASSUME NEW i \in 1..(Len(s) - 1) PROVE Tail(s)[i] \in Elems(s)
    BY <1>3 DEF Elems
  <2>1. i + 1 \in DOMAIN s /\ Tail(s)[i] = s[i + 1]
    BY <1>1, <1>2, <1>3
  <2> QED
    BY <2>1 DEF Elems
<1> QED
  BY <1>1, <1>2, <1>3, <1>4, <1>5 DEF Elems

\* A Disconnect that starts has the given connections to do.
LEMMA StartTyped ==
    ASSUME NEW s \in Seq(Conns)
    PROVE  /\ Start(s) \in Disconnecting
           /\ Start(s).step \in {"idle", "mark"} /\ Start(s).todo = s /\ ~Start(s).err
           /\ Start(s).step = "idle" <=> s = <<>>
BY DEF Start, Disconnecting

\* Present yields at most the one connection.
LEMMA PresentTyped ==
    ASSUME NEW c \in Conns \cup {None}
    PROVE  Present(c) \in Seq(Conns) /\ \A e \in Conns : e \in Elems(Present(c)) => e = c
BY DEF Present, Elems

\* The elements of a concatenation.
LEMMA ElemsConcat ==
    ASSUME NEW s \in Seq(Conns), NEW t \in Seq(Conns)
    PROVE  s \o t \in Seq(Conns) /\ Elems(s \o t) \subseteq Elems(s) \cup Elems(t)
<1>1. s \o t \in Seq(Conns) /\ Len(s \o t) = Len(s) + Len(t) /\ Len(s) \in Nat /\ Len(t) \in Nat
  OBVIOUS
<1>2. \A i \in 1..(Len(s) + Len(t)) :
        (s \o t)[i] = IF i <= Len(s) THEN s[i] ELSE t[i - Len(s)]
  OBVIOUS
<1> SUFFICES ASSUME NEW i \in 1..(Len(s) + Len(t))
             PROVE  (s \o t)[i] \in Elems(s) \cup Elems(t)
  BY <1>1 DEF Elems
<1>3. CASE i <= Len(s)
  BY <1>1, <1>2, <1>3 DEF Elems
<1>4. CASE i > Len(s)
  <2>1. i - Len(s) \in 1..Len(t)
    BY <1>1, <1>4
  <2> QED
    BY <1>1, <1>2, <1>4, <2>1 DEF Elems
<1> QED
  BY <1>1, <1>3, <1>4

\* One connection is all a Disconnect of its own has to do.
LEMMA SingleTyped ==
    ASSUME NEW c \in Conns
    PROVE  <<c>> \in Seq(Conns) /\ <<c>> # <<>> /\ Elems(<<c>>) = {c}
BY DEF Elems

-----------------------------------------------------------------------------
(* The refinement of BackendContract.                                       *)

\* What the contract lets happen to one connection in a step.
Moves(c) ==
    \/ /\ Phase(c)' = Phase(c) /\ Asked(c)' = Asked(c) /\ Cause(c)' = Cause(c)
    \/ /\ Phase(c) = "idle" /\ Phase(c)' = "trying"
       /\ Asked(c)' = Asked(c) /\ Cause(c)' = Cause(c)
    \/ /\ Phase(c) \in {"idle", "trying"} /\ Phase(c)' = "failed"
       /\ Asked(c)' = Asked(c) /\ Cause(c)' = Cause(c)
    \/ /\ Phase(c) = "trying" /\ Phase(c)' = "up"
       /\ Asked(c)' \in {"no", "asked", "cut"} /\ Cause(c)' \in {"none", "local", "loss"}
       /\ Cause(c)' = "local" => Asked(c)' # "no"
    \/ /\ Phase(c) \in {"up", "ended"} /\ Phase(c)' = Phase(c) /\ Cause(c)' = Cause(c)
       /\ \/ Asked(c) = "no" /\ Asked(c)' = "asked"
          \/ Asked(c) = "asked" /\ Asked(c)' = "cut"
    \/ /\ Phase(c) = "up" /\ Phase(c)' = "up" /\ Asked(c)' = Asked(c) /\ Cause(c) = "none"
       /\ \/ Asked(c) # "no" /\ Cause(c)' = "local"
          \/ Asked(c) = "no" /\ Cause(c)' = "loss"
    \/ /\ ~crashed /\ Phase(c) = "up" /\ Phase(c)' = "ended" /\ Cause(c) # "none"
       /\ Asked(c)' = Asked(c) /\ Cause(c)' = Cause(c)

\* A step of Tunnel keeps the invariant and is a step of the contract, or none.
Sound == IInv' /\ (Contract!Next \/ UNCHANGED Contract!vars)

\* A step in which one connection moves as the contract says and nothing else changes.
LEMMA ContractStep ==
    ASSUME NEW c \in Conns, UNCHANGED crashed, Moves(c),
           \A d \in Conns \ {c} :
              Phase(d)' = Phase(d) /\ Asked(d)' = Asked(d) /\ Cause(d)' = Cause(d)
    PROVE  Contract!Next \/ UNCHANGED Contract!vars
<1> DEFINE F == [d \in Conns |-> Phase(d)]
           G == [d \in Conns |-> Asked(d)]
           H == [d \in Conns |-> Cause(d)]
<1>1. F' = [F EXCEPT ![c] = Phase(c)'] /\ F[c] = Phase(c)
  OBVIOUS
<1>2. G' = [G EXCEPT ![c] = Asked(c)'] /\ G[c] = Asked(c) /\ (Asked(c)' = Asked(c) => G' = G)
  OBVIOUS
<1>3. H' = [H EXCEPT ![c] = Cause(c)'] /\ H[c] = Cause(c) /\ (Cause(c)' = Cause(c) => H' = H)
  OBVIOUS
<1>4. Phase(c)' = Phase(c) => F' = F
  OBVIOUS
<1>5. CASE Phase(c)' = Phase(c) /\ Asked(c)' = Asked(c) /\ Cause(c)' = Cause(c)
  BY <1>2, <1>3, <1>4, <1>5 DEF Contract!vars
<1>6. CASE /\ Phase(c) = "idle" /\ Phase(c)' = "trying"
           /\ Asked(c)' = Asked(c) /\ Cause(c)' = Cause(c)
  <2>1. Contract!Try(c)
    BY <1>1, <1>2, <1>3, <1>6 DEF Contract!Try
  <2> QED
    BY <2>1 DEF Contract!Next
<1>7. CASE /\ Phase(c) \in {"idle", "trying"} /\ Phase(c)' = "failed"
           /\ Asked(c)' = Asked(c) /\ Cause(c)' = Cause(c)
  <2>1. Contract!Fail(c)
    BY <1>1, <1>2, <1>3, <1>7 DEF Contract!Fail
  <2> QED
    BY <2>1 DEF Contract!Next
<1>8. CASE /\ Phase(c) = "trying" /\ Phase(c)' = "up"
           /\ Asked(c)' \in {"no", "asked", "cut"} /\ Cause(c)' \in {"none", "local", "loss"}
           /\ Cause(c)' = "local" => Asked(c)' # "no"
  <2>1. Contract!Announce(c)
    BY <1>1, <1>2, <1>3, <1>8 DEF Contract!Announce
  <2> QED
    BY <2>1 DEF Contract!Next
<1>9. CASE /\ Phase(c) \in {"up", "ended"} /\ Phase(c)' = Phase(c) /\ Cause(c)' = Cause(c)
           /\ \/ Asked(c) = "no" /\ Asked(c)' = "asked"
              \/ Asked(c) = "asked" /\ Asked(c)' = "cut"
  <2>1. Contract!Ask(c)
    BY <1>1, <1>2, <1>3, <1>4, <1>9 DEF Contract!Ask
  <2> QED
    BY <2>1 DEF Contract!Next
<1>10. CASE /\ Phase(c) = "up" /\ Phase(c)' = "up" /\ Asked(c)' = Asked(c) /\ Cause(c) = "none"
            /\ \/ Asked(c) # "no" /\ Cause(c)' = "local"
               \/ Asked(c) = "no" /\ Cause(c)' = "loss"
  <2>1. Contract!End(c)
    BY <1>1, <1>2, <1>3, <1>4, <1>10 DEF Contract!End
  <2> QED
    BY <2>1 DEF Contract!Next
<1>11. CASE /\ ~crashed /\ Phase(c) = "up" /\ Phase(c)' = "ended" /\ Cause(c) # "none"
            /\ Asked(c)' = Asked(c) /\ Cause(c)' = Cause(c)
  <2>1. Contract!Report(c)
    BY <1>1, <1>2, <1>3, <1>11 DEF Contract!Report
  <2> QED
    BY <2>1 DEF Contract!Next
<1> QED
  BY <1>5, <1>6, <1>7, <1>8, <1>9, <1>10, <1>11 DEF Moves

-----------------------------------------------------------------------------
(* Steps of a connection's own goroutines.                                  *)

\* What setup, channels, workers and the controller may do to a connection: hang up only
\* with an error of setup, reset activeClose but never set it, and record the first
\* reason, which is the local one only after activeClose.
Evolved(x, y) ==
    /\ Coherent(y)
    /\ y.watch = x.watch /\ (x.closed => y.closed)
    /\ x.setup = "ok" => y.setup = "ok" /\ y.activeClose = x.activeClose /\ y.auth = x.auth
    /\ x.setup = "off" => y.setup = "off"
    /\ ~x.activeClose => ~y.activeClose
    /\ \/ y.reason = x.reason
       \/ x.reason = "none" /\ (y.reason = "local" => x.activeClose)
                            /\ (x.setup = "ok" /\ x.activeClose => y.reason = "local")
    /\ y.setup \notin {"off", "dial", "err"} =>
          y.auth \/ (x.setup \notin {"off", "dial", "err"} /\ ~x.auth)

\* Such a step keeps the invariant if the device goes to and from this connection only.
LEMMA ConnectionStep ==
    ASSUME IInv, NEW c \in Conns, NEW y \in Connection, cn' = [cn EXCEPT ![c] = y],
           UNCHANGED Backend, Evolved(cn[c], y),
           dev' \in Conns \cup {None}, UNCHANGED crashed,
           Holds(y) => dev' = c,
           \A d \in Conns \ {c} : Holds(cn[d]) => dev' = d
    PROVE  Sound
<1>1. cn \in [Conns -> Connection] /\ UNCHANGED <<be, call, disc, events>>
  BY DEF IInv, TypeOK, Backend
<1>2. cn' \in [Conns -> Connection] /\ \A d \in Conns : cn'[d] = IF d = c THEN y ELSE cn[d]
  BY <1>1
<1>3. TypeOK'
  BY <1>1, <1>2 DEF IInv, TypeOK
<1>4. DeviceInv'
  BY <1>2 DEF IInv, DeviceInv, Evolved
<1>5. BusyInv' /\ RegisteredInv'
  BY <1>1 DEF IInv, BusyInv, RegisteredInv
<1>6. \A d \in Conns : /\ Undisturbed(d)' <=> Undisturbed(d)
                       /\ Published(d)' <=> Published(d)
                       /\ Announced(d)' <=> Announced(d)
                       /\ Sent(d, "disconnected")' <=> Sent(d, "disconnected")
  BY <1>1 DEF Undisturbed, Published, Announced, Sent
<1>7. \A k \in Callers : Targets(k)' = Targets(k) /\ Target(k)' = Target(k)
  BY <1>1 DEF Targets, Target
<1>8. UndisturbedInv'
  <2> SUFFICES ASSUME NEW d \in Conns, Undisturbed(d)'
               PROVE  /\ \A k \in Callers : d \notin Targets(k)'
                      /\ ~cn'[d].activeClose /\ cn'[d].reason # "local"
                      /\ cn'[d].setup \notin {"off", "dial", "err"} => cn'[d].auth
    BY DEF UndisturbedInv
  <2>1. /\ \A k \in Callers : d \notin Targets(k)
        /\ ~cn[d].activeClose /\ cn[d].reason # "local"
        /\ cn[d].setup \notin {"off", "dial", "err"} => cn[d].auth
    BY <1>6 DEF IInv, UndisturbedInv
  <2>2. CASE d # c
    BY <1>1, <1>2, <1>7, <2>1, <2>2
  <2>3. CASE d = c
    BY <1>1, <1>2, <1>7, <2>1, <2>3 DEF Evolved
  <2> QED
    BY <2>2, <2>3
<1>9. PublishedInv'
  <2> SUFFICES ASSUME NEW d \in Conns
               PROVE  /\ call'[d].step \in {"idle", "stale"} => cn'[d].setup = "off"
                      /\ call'[d].step \in {"check", "monitor", "publish"} => cn'[d].setup = "ok"
                      /\ be'.active = d => Published(d)'
                      /\ Published(d)' =>
                           /\ cn'[d].setup = "ok"
                           /\ ~cn'[d].auth \/ cn'[d].reason = "local" => cn'[d].activeClose
                           /\ \A k \in Callers : disc'[k].step \in {"hangup", "close"}
                                /\ Target(k)' = d => cn'[d].activeClose
    BY DEF PublishedInv
  <2>1. /\ call[d].step \in {"idle", "stale"} => cn[d].setup = "off"
        /\ call[d].step \in {"check", "monitor", "publish"} => cn[d].setup = "ok"
        /\ be.active = d => Published(d)
        /\ Published(d) =>
             /\ cn[d].setup = "ok"
             /\ ~cn[d].auth \/ cn[d].reason = "local" => cn[d].activeClose
             /\ \A k \in Callers : disc[k].step \in {"hangup", "close"} /\ Target(k) = d
                                     => cn[d].activeClose
    BY DEF IInv, PublishedInv
  <2>2. CASE d # c
    BY <1>1, <1>2, <1>6, <1>7, <2>1, <2>2
  <2>3. CASE d = c
    BY <1>1, <1>2, <1>6, <1>7, <2>1, <2>3 DEF Evolved
  <2> QED
    BY <2>2, <2>3
<1>10. EventInv'
  BY <1>1, <1>2, <1>6 DEF IInv, EventInv, Evolved
<1>11. \A d \in Conns : Phase(d)' = Phase(d)
  BY <1>1, <1>6 DEF Phase
<1>12. \A d \in Conns \ {c} : Asked(d)' = Asked(d) /\ Cause(d)' = Cause(d)
  BY <1>2, <1>6 DEF Asked, Cause
<1>13. Moves(c)
  <2>1. CASE ~Announced(c)
    BY <1>6, <1>11, <2>1 DEF Moves, Asked, Cause
  <2>2. CASE Announced(c)
    <3>1. cn[c].setup = "ok" /\ (~cn[c].auth => cn[c].activeClose)
      BY <2>2 DEF IInv, PublishedInv, Published
    <3>2. cn'[c].activeClose = cn[c].activeClose /\ cn'[c].auth = cn[c].auth
      BY <1>2, <3>1 DEF Evolved
    <3>3. Asked(c)' = Asked(c)
      BY <1>6, <3>2 DEF Asked
    <3>4. CASE cn'[c].reason = cn[c].reason
      BY <1>6, <1>11, <3>3, <3>4 DEF Moves, Cause
    <3>5. CASE cn'[c].reason # cn[c].reason
      <4>1. /\ cn[c].reason = "none" /\ cn'[c].reason # "none"
            /\ cn'[c].reason = "local" <=> cn[c].activeClose
        BY <1>2, <3>1, <3>5 DEF Evolved
      <4>2. Phase(c) = "up"
        <5>1. ~cn[c].closed
          BY <4>1 DEF IInv, DeviceInv, Coherent
        <5> QED
          BY <2>2, <5>1 DEF IInv, EventInv, Phase
      <4>3. Cause(c) = "none" /\ Cause(c)' = IF cn[c].activeClose THEN "local" ELSE "loss"
        BY <1>6, <2>2, <4>1 DEF Cause
      <4>4. Asked(c) # "no" <=> cn[c].activeClose
        BY <2>2, <3>1 DEF Asked
      <4> QED
        BY <1>11, <3>3, <4>2, <4>3, <4>4 DEF Moves
    <3> QED
      BY <3>4, <3>5
  <2> QED
    BY <2>1, <2>2
<1>14. Contract!Next \/ UNCHANGED Contract!vars
  BY <1>11, <1>12, <1>13, ContractStep
<1> QED
  BY <1>3, <1>4, <1>5, <1>8, <1>9, <1>10, <1>14 DEF IInv, Sound

\* A panic stops everything: the contract lets the process die.
LEMMA PanicStep ==
    ASSUME IInv, UNCHANGED <<be, dev, cn, call, disc, events>>, crashed' \in {crashed, TRUE}
    PROVE  Sound
<1>1. crashed \in BOOLEAN /\ crashed' \in BOOLEAN
  BY DEF IInv, TypeOK
<1>2. IInv'
  BY <1>1 DEF IInv, TypeOK, DeviceInv, BusyInv, RegisteredInv, UndisturbedInv, PublishedInv, EventInv,
       Undisturbed, Published, Announced, Sent, Targets, Target
<1>3. \A d \in Conns : Phase(d)' = Phase(d) /\ Asked(d)' = Asked(d) /\ Cause(d)' = Cause(d)
  BY DEF Phase, Asked, Cause, Announced, Sent
<1>4. Contract!Next \/ UNCHANGED Contract!vars
  <2>1. CASE UNCHANGED crashed
    BY <1>3, <2>1 DEF Contract!vars
  <2>2. CASE ~crashed /\ crashed' = TRUE
    <3>1. Contract!Die
      BY <1>3, <2>2 DEF Contract!Die
    <3> QED
      BY <3>1 DEF Contract!Next
  <2> QED
    BY <1>1, <2>1, <2>2
<1> QED
  BY <1>2, <1>4 DEF Sound

\* RecordClose changes the reason only, and only the first time.
LEMMA RecordCloseFields ==
    ASSUME NEW x \in Connection, NEW r \in Reasons
    PROVE  /\ RecordClose(x, r) \in Connection
           /\ RecordClose(x, r).reason =
                IF x.reason # "none" THEN x.reason ELSE IF x.activeClose THEN "local" ELSE r
           /\ \A f \in {"setup", "auth", "sock", "csess", "activeClose", "closed", "net", "hook",
                        "owned", "workers", "ctl", "tls", "dtls", "monitor", "watch"} :
                RecordClose(x, r)[f] = x[f]
<1>1. CASE x.reason # "none"
  BY <1>1 DEF RecordClose
<1>2. CASE x.reason = "none"
  <2> DEFINE v == IF x.activeClose THEN "local" ELSE r
  <2>1. v \in Reasons
    BY DEF Reasons
  <2>2. RecordClose(x, r) = [x EXCEPT !.reason = v]
    BY <1>2 DEF RecordClose
  <2> HIDE DEF v
  <2>3. [x EXCEPT !.reason = v] \in Connection /\ [x EXCEPT !.reason = v].reason = v
        /\ \A f \in {"setup", "auth", "sock", "csess", "activeClose", "closed", "net", "hook",
                     "owned", "workers", "ctl", "tls", "dtls", "monitor", "watch"} :
             [x EXCEPT !.reason = v][f] = x[f]
    BY <2>1 DEF Connection
  <2> QED
    BY <1>2, <2>2, <2>3 DEF v
<1> QED
  BY <1>1, <1>2

\* The updates of CloseSession are well typed.
LEMMA ClosedTyped ==
    ASSUME NEW z \in Connection, NEW d \in {"off", "dial", "ready", "gone"},
           NEW t \in {"off", "stop", "device", "wait", "done"}
    PROVE  [z EXCEPT !.closed = TRUE, !.csess = FALSE, !.dtls = d, !.ctl = t] \in Connection
<1> DEFINE y == [z EXCEPT !.closed = TRUE, !.csess = FALSE]
<1>1. y \in Connection
  BY DEF Connection
<1>2. [z EXCEPT !.closed = TRUE, !.csess = FALSE, !.dtls = d, !.ctl = t]
        = [y EXCEPT !.dtls = d, !.ctl = t]
  BY DEF Connection
<1> HIDE DEF y
<1>3. [y EXCEPT !.dtls = d, !.ctl = t] \in Connection
  BY <1>1 DEF Connection
<1> QED
  BY <1>2, <1>3

\* CloseSession closes, starts the controller if setup has hung it in, and records why.
LEMMA CloseSessionFields ==
    ASSUME NEW x \in Connection, Coherent(x), NEW r \in Reasons
    PROVE  /\ CloseSession(x, r) \in Connection
           /\ CloseSession(x, r).closed
           /\ CloseSession(x, r).reason =
                IF x.reason # "none" THEN x.reason ELSE IF x.activeClose THEN "local" ELSE r
           /\ CloseSession(x, r).ctl = IF ~x.closed /\ x.hook THEN "stop" ELSE x.ctl
           /\ \A f \in {"setup", "auth", "sock", "activeClose", "net", "hook", "owned",
                        "workers", "tls", "monitor", "watch"} : CloseSession(x, r)[f] = x[f]
<1>1. CASE x.closed
  BY <1>1 DEF CloseSession, Coherent
<1>2. CASE ~x.closed
  <2> DEFINE z == RecordClose(x, r)
             d == IF z.dtls = "ready" THEN "gone" ELSE z.dtls
             t == IF x.hook THEN "stop" ELSE z.ctl
             y == [z EXCEPT !.closed = TRUE, !.csess = FALSE, !.dtls = d, !.ctl = t]
  <2>1. CloseSession(x, r) = y
    BY <1>2 DEF CloseSession
  <2>2. z \in Connection
    BY RecordCloseFields
  <2>3. d \in {"off", "dial", "ready", "gone"} /\ t \in {"off", "stop", "device", "wait", "done"}
    BY <2>2 DEF Connection
  <2>4. t = IF x.hook THEN "stop" ELSE x.ctl
    BY RecordCloseFields
  <2> HIDE DEF z, d, t
  <2>5. /\ y \in Connection /\ y.closed /\ y.ctl = t /\ y.reason = z.reason
        /\ \A f \in {"setup", "auth", "sock", "activeClose", "net", "hook", "owned",
                     "workers", "tls", "monitor", "watch"} : y[f] = z[f]
    <3>1. y \in Connection
      BY <2>2, <2>3, ClosedTyped
    <3>2. y.closed /\ y.ctl = t /\ y.reason = z.reason
      BY <2>2 DEF Connection
    <3>3. \A f \in {"setup", "auth", "sock", "activeClose", "net", "hook", "owned",
                    "workers", "tls", "monitor", "watch"} : y[f] = z[f]
      BY <2>2 DEF Connection
    <3> QED
      BY <3>1, <3>2, <3>3
  <2>6. /\ z.reason = IF x.reason # "none" THEN x.reason
                      ELSE IF x.activeClose THEN "local" ELSE r
        /\ \A f \in {"setup", "auth", "sock", "activeClose", "net", "hook", "owned",
                     "workers", "tls", "monitor", "watch"} : z[f] = x[f]
    BY RecordCloseFields DEF z
  <2> HIDE DEF y
  <2>7. \A f \in {"setup", "auth", "sock", "activeClose", "net", "hook", "owned",
                  "workers", "tls", "monitor", "watch"} : y[f] = x[f]
    BY <2>5, <2>6
  <2>8. y.ctl = IF ~x.closed /\ x.hook THEN "stop" ELSE x.ctl
    BY <1>2, <2>4, <2>5
  <2> QED
    BY <2>1, <2>5, <2>6, <2>7, <2>8
<1> QED
  BY <1>1, <1>2

\* HangUp touches the socket only.
LEMMA HangUpFields ==
    ASSUME NEW x \in Connection
    PROVE  /\ HangUp(x) \in Connection /\ ~HangUp(x).auth
           /\ \A f \in {"setup", "csess", "activeClose", "closed", "reason", "net", "hook",
                        "owned", "workers", "ctl", "tls", "dtls", "monitor", "watch"} :
                HangUp(x)[f] = x[f]
<1> DEFINE s == IF x.auth THEN "closed" ELSE x.sock
<1>1. s \in {"none", "open", "closed"}
  BY DEF Connection
<1>2. HangUp(x) = [x EXCEPT !.auth = FALSE, !.sock = s]
  BY DEF HangUp
<1> HIDE DEF s
<1> QED
  BY <1>1, <1>2 DEF Connection

\* A step that neither creates nor closes a device.
LEMMA QuietStep ==
    ASSUME IInv, NEW c \in Conns, NEW y \in Connection, cn' = [cn EXCEPT ![c] = y],
           UNCHANGED <<dev, crashed, Backend>>, Evolved(cn[c], y), Holds(y) => Holds(cn[c])
    PROVE  Sound
<1>1. Holds(y) => dev' = c
  BY DEF IInv, DeviceInv
<1>2. \A d \in Conns \ {c} : Holds(cn[d]) => dev' = d
  BY DEF IInv, DeviceInv
<1>3. dev' \in Conns \cup {None} /\ UNCHANGED crashed /\ UNCHANGED Backend
  BY DEF IInv, TypeOK
<1> QED
  BY <1>1, <1>2, <1>3, ConnectionStep


\* The controller owns the device and the workers from here on.
LEMMA StartWorkersKeeps ==
    ASSUME IInv, NEW c \in Conns, StartWorkers(c)
    PROVE  Sound
<1> DEFINE x == cn[c]
           y == [x EXCEPT !.setup = "channels", !.owned = TRUE, !.workers = TRUE]
<1>1. x \in Connection /\ Coherent(x)
  BY DEF IInv, TypeOK, DeviceInv
<1>2. UNCHANGED <<dev, crashed, Backend>> /\ x.setup = "workers" /\ cn' = [cn EXCEPT ![c] = y]
  BY DEF StartWorkers, SetupAt
<1>3. y \in Connection
  BY <1>1 DEF Connection, Setup
<1>4. Evolved(x, y) /\ (Holds(y) => Holds(x))
  BY <1>1, <1>2 DEF Evolved, Coherent, Holds, BeforeHook, Connection
<1> HIDE DEF y
<1> QED
  BY <1>2, <1>3, <1>4, QuietStep


\* Losing DTLS alone disturbs nothing.
LEMMA DtlsEndsKeeps ==
    ASSUME IInv, NEW c \in Conns, DtlsEnds(c)
    PROVE  Sound
<1> DEFINE x == cn[c]
           y == [x EXCEPT !.dtls = "gone"]
<1>1. x \in Connection /\ Coherent(x)
  BY DEF IInv, TypeOK, DeviceInv
<1>2. UNCHANGED <<dev, crashed, Backend>> /\ TRUE /\ cn' = [cn EXCEPT ![c] = y]
  BY DEF DtlsEnds
<1>3. y \in Connection
  BY <1>1 DEF Connection, Setup
<1>4. Evolved(x, y) /\ (Holds(y) => Holds(x))
  BY <1>1, <1>2 DEF Evolved, Coherent, Holds, BeforeHook, Connection
<1> HIDE DEF y
<1> QED
  BY <1>2, <1>3, <1>4, QuietStep


\* The workers return after the device was closed.
LEMMA PacketsStopKeeps ==
    ASSUME IInv, NEW c \in Conns, PacketsStop(c)
    PROVE  Sound
<1> DEFINE x == cn[c]
           y == [x EXCEPT !.workers = FALSE]
<1>1. x \in Connection /\ Coherent(x)
  BY DEF IInv, TypeOK, DeviceInv
<1>2. UNCHANGED <<dev, crashed, Backend>> /\ TRUE /\ cn' = [cn EXCEPT ![c] = y]
  BY DEF PacketsStop
<1>3. y \in Connection
  BY <1>1 DEF Connection, Setup
<1>4. Evolved(x, y) /\ (Holds(y) => Holds(x))
  BY <1>1, <1>2 DEF Evolved, Coherent, Holds, BeforeHook, Connection
<1> HIDE DEF y
<1> QED
  BY <1>2, <1>3, <1>4, QuietStep


\* The manager goes before the device.
LEMMA CloseManagerKeeps ==
    ASSUME IInv, NEW c \in Conns, CloseManager(c)
    PROVE  Sound
<1> DEFINE x == cn[c]
           y == [x EXCEPT !.net = FALSE, !.ctl = "device"]
<1>1. x \in Connection /\ Coherent(x)
  BY DEF IInv, TypeOK, DeviceInv
<1>2. UNCHANGED <<dev, crashed, Backend>> /\ x.ctl = "stop" /\ x.owned /\ cn' = [cn EXCEPT ![c] = y]
  BY DEF CloseManager
<1>3. y \in Connection
  BY <1>1 DEF Connection, Setup
<1>4. Evolved(x, y) /\ (Holds(y) => Holds(x))
  BY <1>1, <1>2 DEF Evolved, Coherent, Holds, BeforeHook, Connection
<1> HIDE DEF y
<1> QED
  BY <1>2, <1>3, <1>4, QuietStep


\* The controller has finished.
LEMMA DrainedKeeps ==
    ASSUME IInv, NEW c \in Conns, Drained(c)
    PROVE  Sound
<1> DEFINE x == cn[c]
           y == [x EXCEPT !.ctl = "done"]
<1>1. x \in Connection /\ Coherent(x)
  BY DEF IInv, TypeOK, DeviceInv
<1>2. UNCHANGED <<dev, crashed, Backend>> /\ x.ctl = "wait" /\ cn' = [cn EXCEPT ![c] = y]
  BY DEF Drained
<1>3. y \in Connection
  BY <1>1 DEF Connection, Setup
<1>4. Evolved(x, y) /\ (Holds(y) => Holds(x))
  BY <1>1, <1>2 DEF Evolved, Coherent, Holds, BeforeHook, Connection
<1> HIDE DEF y
<1> QED
  BY <1>2, <1>3, <1>4, QuietStep


\* A change of the underlay is received.
LEMMA UnderlayChangesKeeps ==
    ASSUME IInv, NEW c \in Conns, UnderlayChanges(c)
    PROVE  Sound
<1> DEFINE x == cn[c]
           y == [x EXCEPT !.monitor = "got"]
<1>1. x \in Connection /\ Coherent(x)
  BY DEF IInv, TypeOK, DeviceInv
<1>2. UNCHANGED <<dev, crashed, Backend>> /\ TRUE /\ cn' = [cn EXCEPT ![c] = y]
  BY DEF UnderlayChanges, Backend
<1>3. y \in Connection
  BY <1>1 DEF Connection, Setup
<1>4. Evolved(x, y) /\ (Holds(y) => Holds(x))
  BY <1>1, <1>2 DEF Evolved, Coherent, Holds, BeforeHook, Connection
<1> HIDE DEF y
<1> QED
  BY <1>2, <1>3, <1>4, QuietStep

\* The server is dialled, or cannot be.
LEMMA DialKeeps ==
    ASSUME IInv, NEW c \in Conns, Dial(c)
    PROVE  Sound
<1> DEFINE x == cn[c]
<1>1. x \in Connection /\ Coherent(x)
  BY DEF IInv, TypeOK, DeviceInv
<1>2. UNCHANGED <<dev, crashed, Backend>> /\ x.setup = "dial"
  BY DEF Dial, SetupAt
<1>3. CASE cn' = [cn EXCEPT ![c].setup = "login", ![c].auth = TRUE, ![c].sock = "open"]
  <2> DEFINE y == [x EXCEPT !.setup = "login", !.auth = TRUE, !.sock = "open"]
  <2>1. cn' = [cn EXCEPT ![c] = y] /\ y \in Connection
    BY <1>1, <1>3 DEF Connection, Setup
  <2>2. Evolved(x, y) /\ (Holds(y) => Holds(x))
    BY <1>1, <1>2 DEF Evolved, Coherent, Holds, BeforeHook, Connection
  <2> HIDE DEF y
  <2> QED
    BY <1>2, <2>1, <2>2, QuietStep
<1>4. CASE cn' = [cn EXCEPT ![c].setup = "err"]
  <2> DEFINE y == [x EXCEPT !.setup = "err"]
  <2>1. cn' = [cn EXCEPT ![c] = y] /\ y \in Connection
    BY <1>1, <1>4 DEF Connection, Setup
  <2>2. Evolved(x, y) /\ (Holds(y) => Holds(x))
    BY <1>1, <1>2 DEF Evolved, Coherent, Holds, BeforeHook, Connection
  <2> HIDE DEF y
  <2> QED
    BY <1>2, <2>1, <2>2, QuietStep
<1> QED
  BY <1>3, <1>4 DEF Dial

\* Logging in leads to a session, to an error, or to a nil connection.
LEMMA LoginKeeps ==
    ASSUME IInv, NEW c \in Conns, Login(c)
    PROVE  Sound
<1> DEFINE x == cn[c]
<1>1. x \in Connection /\ Coherent(x)
  BY DEF IInv, TypeOK, DeviceInv
<1>2. UNCHANGED Backend /\ x.setup = "login"
  BY DEF Login, SetupAt
<1>3. CASE x.auth /\ cn' = [cn EXCEPT ![c].setup = "session"] /\ UNCHANGED <<dev, crashed>>
  <2> DEFINE y == [x EXCEPT !.setup = "session"]
  <2>1. cn' = [cn EXCEPT ![c] = y] /\ y \in Connection
    BY <1>1, <1>3 DEF Connection, Setup
  <2>2. Evolved(x, y) /\ (Holds(y) => Holds(x))
    BY <1>1, <1>2, <1>3 DEF Evolved, Coherent, Holds, BeforeHook, Connection
  <2> HIDE DEF y
  <2> QED
    BY <1>2, <1>3, <2>1, <2>2, QuietStep
<1>4. ASSUME NEW z \in {x, HangUp(x)}, cn' = [cn EXCEPT ![c] = [z EXCEPT !.setup = "err"]],
             UNCHANGED <<dev, crashed>>
      PROVE  Sound
  <2> DEFINE y == [z EXCEPT !.setup = "err"]
  <2>1. z \in Connection /\ \A f \in {"setup", "csess", "activeClose", "closed", "reason", "net",
             "hook", "owned", "workers", "ctl", "tls", "dtls", "monitor", "watch"} : z[f] = x[f]
    BY <1>1, HangUpFields
  <2>2. y \in Connection /\ y.setup = "err"
        /\ \A f \in {"csess", "activeClose", "closed", "reason", "net", "hook", "owned",
                     "workers", "ctl", "tls", "dtls", "monitor", "watch"} : y[f] = x[f]
    BY <2>1 DEF Connection, Setup
  <2> HIDE DEF y
  <2>3. Evolved(x, y) /\ (Holds(y) => Holds(x))
    BY <1>1, <1>2, <2>2 DEF Evolved, Coherent, Holds, BeforeHook
  <2>4. cn' = [cn EXCEPT ![c] = y]
    BY <1>4 DEF y
  <2> QED
    BY <1>2, <1>4, <2>2, <2>3, <2>4, QuietStep
<1>5. CASE Panic(c)
  BY <1>2, <1>5, PanicStep DEF Panic, Backend
<1> QED
  BY <1>3, <1>4, <1>5 DEF Login

\* Every error before Start closes the session, the manager and the device.
LEMMA AbandonKeeps ==
    ASSUME IInv, NEW c \in Conns, Abandon(c), UNCHANGED Backend,
           cn[c].setup \in {"device", "network"}
    PROVE  Sound
<1> DEFINE x == cn[c]
           u == HangUp(x)
           z == CloseSession(u, "setup")
           y == [z EXCEPT !.net = FALSE, !.setup = "err"]
<1>1. x \in Connection /\ Coherent(x)
  BY DEF IInv, TypeOK, DeviceInv
<1>2. cn' = [cn EXCEPT ![c] = y] /\ UNCHANGED crashed /\ dev' = IF dev = c THEN None ELSE dev
  BY DEF Abandon
<1>3. /\ u \in Connection
      /\ \A f \in {"setup", "activeClose", "closed", "reason", "net", "hook", "owned",
                   "workers", "ctl", "tls", "monitor", "watch"} : u[f] = x[f]
  BY <1>1, HangUpFields
<1> HIDE DEF u
<1>4. Coherent(u) /\ "setup" \in Reasons
  BY <1>1, <1>3 DEF Coherent, Reasons
<1>5. /\ z \in Connection /\ z.closed
      /\ z.reason = IF u.reason # "none" THEN u.reason ELSE IF u.activeClose THEN "local" ELSE "setup"
      /\ z.ctl = IF ~u.closed /\ u.hook THEN "stop" ELSE u.ctl
      /\ \A f \in {"setup", "activeClose", "net", "hook", "owned", "workers", "tls", "monitor",
                   "watch"} : z[f] = u[f]
  BY <1>3, <1>4, CloseSessionFields
<1> HIDE DEF z
<1>6. /\ y \in Connection /\ y.setup = "err" /\ ~y.net
      /\ \A f \in {"activeClose", "closed", "reason", "ctl", "hook", "owned", "workers", "tls",
                   "monitor", "watch"} : y[f] = z[f]
  BY <1>5 DEF Connection, Setup
<1> HIDE DEF y
<1>7. ~x.hook /\ ~x.owned /\ x.ctl = "off" /\ x.setup \notin {"ok", "off", "dial", "err", "session"}
  BY <1>1 DEF Coherent, BeforeHook
<1>8. /\ y.ctl = "off" /\ ~y.hook /\ ~y.owned /\ y.closed /\ y.activeClose = x.activeClose
      /\ y.watch = x.watch
      /\ y.reason = IF x.reason # "none" THEN x.reason
                    ELSE IF x.activeClose THEN "local" ELSE "setup"
  BY <1>3, <1>5, <1>6, <1>7
<1>9. Evolved(x, y) /\ ~Holds(y)
  BY <1>6, <1>7, <1>8 DEF Evolved, Coherent, Holds, BeforeHook
<1>10. /\ dev' \in Conns \cup {None} /\ UNCHANGED crashed
       /\ \A d \in Conns \ {c} : Holds(cn[d]) => dev' = d
  BY <1>2 DEF IInv, TypeOK, DeviceInv
<1> QED
  BY <1>2, <1>6, <1>9, <1>10, ConnectionStep

\* A new session resets activeClose; a session that cannot be used is closed again.
LEMMA NewSessionKeeps ==
    ASSUME IInv, NEW c \in Conns, NewSession(c)
    PROVE  Sound
<1> DEFINE x == cn[c]
<1>1. x \in Connection /\ Coherent(x)
  BY DEF IInv, TypeOK, DeviceInv
<1>2. UNCHANGED Backend /\ x.setup = "session"
  BY DEF NewSession, SetupAt
<1>3. CASE Panic(c)
  BY <1>2, <1>3, PanicStep DEF Panic, Backend
<1>4. CASE /\ x.auth /\ UNCHANGED <<dev, crashed>>
           /\ cn' = [cn EXCEPT ![c].setup = "device", ![c].csess = TRUE, ![c].activeClose = FALSE]
  <2> DEFINE y == [x EXCEPT !.setup = "device", !.csess = TRUE, !.activeClose = FALSE]
  <2>1. cn' = [cn EXCEPT ![c] = y] /\ y \in Connection
    BY <1>1, <1>4 DEF Connection, Setup
  <2>2. Evolved(x, y) /\ (Holds(y) => Holds(x))
    BY <1>1, <1>2, <1>4 DEF Evolved, Coherent, Holds, BeforeHook, Connection
  <2> HIDE DEF y
  <2> QED
    BY <1>2, <1>4, <2>1, <2>2, QuietStep
<1>5. CASE /\ UNCHANGED <<dev, crashed>>
           /\ cn' = [cn EXCEPT ![c] = [CloseSession(HangUp([@ EXCEPT !.activeClose = FALSE]),
                                                    "setup") EXCEPT !.setup = "err"]]
  <2> DEFINE v == [x EXCEPT !.activeClose = FALSE]
             u == HangUp(v)
             z == CloseSession(u, "setup")
             y == [z EXCEPT !.setup = "err"]
  <2>1. cn' = [cn EXCEPT ![c] = y]
    BY <1>5
  <2>2. /\ v \in Connection /\ ~v.activeClose
        /\ \A f \in {"setup", "closed", "reason", "net", "hook", "owned", "workers", "ctl",
                     "watch"} : v[f] = x[f]
    BY <1>1 DEF Connection
  <2> HIDE DEF v
  <2>3. /\ u \in Connection /\ ~u.activeClose
        /\ \A f \in {"setup", "closed", "reason", "net", "hook", "owned", "workers", "ctl",
                     "watch"} : u[f] = x[f]
    BY <2>2, HangUpFields
  <2> HIDE DEF u
  <2>4. Coherent(u) /\ "setup" \in Reasons
    BY <1>1, <2>3 DEF Coherent, Reasons
  <2>5. /\ z \in Connection /\ z.closed /\ ~z.activeClose
        /\ z.reason = IF u.reason # "none" THEN u.reason ELSE "setup"
        /\ z.ctl = IF ~u.closed /\ u.hook THEN "stop" ELSE u.ctl
        /\ \A f \in {"net", "hook", "owned", "watch"} : z[f] = u[f]
    BY <2>3, <2>4, CloseSessionFields
  <2> HIDE DEF z
  <2>6. /\ y \in Connection /\ y.setup = "err"
        /\ \A f \in {"activeClose", "closed", "reason", "net", "ctl", "hook", "owned",
                     "watch"} : y[f] = z[f]
    BY <2>5 DEF Connection, Setup
  <2> HIDE DEF y
  <2>7. ~x.hook /\ ~x.owned /\ x.ctl = "off" /\ ~x.net
    BY <1>1, <1>2 DEF Coherent, BeforeHook
  <2>8. /\ y.ctl = "off" /\ ~y.hook /\ ~y.owned /\ ~y.net /\ y.closed /\ ~y.activeClose
        /\ y.watch = x.watch /\ y.reason = IF x.reason # "none" THEN x.reason ELSE "setup"
    BY <2>3, <2>5, <2>6, <2>7
  <2>9. Evolved(x, y) /\ ~Holds(y)
    BY <1>2, <2>6, <2>7, <2>8 DEF Evolved, Coherent, Holds, BeforeHook
  <2> QED
    BY <1>2, <1>5, <2>1, <2>6, <2>9, QuietStep
<1> QED
  BY <1>3, <1>4, <1>5 DEF NewSession

\* The device is created only if there is none.
LEMMA CreateDeviceKeeps ==
    ASSUME IInv, NEW c \in Conns, CreateDevice(c)
    PROVE  Sound
<1> DEFINE x == cn[c]
<1>1. x \in Connection /\ Coherent(x)
  BY DEF IInv, TypeOK, DeviceInv
<1>2. UNCHANGED Backend /\ x.setup = "device"
  BY DEF CreateDevice, SetupAt
<1>3. CASE Abandon(c)
  BY <1>2, <1>3, AbandonKeeps
<1>4. CASE /\ dev = None /\ dev' = c /\ UNCHANGED crashed
           /\ cn' = [cn EXCEPT ![c].setup = "network"]
  <2> DEFINE y == [x EXCEPT !.setup = "network"]
  <2>1. cn' = [cn EXCEPT ![c] = y] /\ y \in Connection
    BY <1>1, <1>4 DEF Connection, Setup
  <2>2. Evolved(x, y)
    BY <1>1, <1>2 DEF Evolved, Coherent, BeforeHook, Connection
  <2> HIDE DEF y
  <2>3. \A d \in Conns : ~Holds(cn[d])
    BY <1>4, TunnelAssumption DEF IInv, DeviceInv
  <2>4. dev' \in Conns \cup {None} /\ UNCHANGED crashed
    BY <1>4 DEF IInv, TypeOK
  <2> QED
    BY <1>2, <1>4, <2>1, <2>2, <2>3, <2>4, ConnectionStep
<1>5. CASE Panic(c)
  BY <1>2, <1>5, PanicStep DEF Panic, Backend
<1> QED
  BY <1>3, <1>4, <1>5 DEF CreateDevice

\* Routes are set while the device is the connection's own.
LEMMA ConfigureKeeps ==
    ASSUME IInv, NEW c \in Conns, Configure(c)
    PROVE  Sound
<1> DEFINE x == cn[c]
           y == [x EXCEPT !.setup = "start", !.net = TRUE]
<1>1. x \in Connection /\ Coherent(x)
  BY DEF IInv, TypeOK, DeviceInv
<1>2. UNCHANGED Backend /\ x.setup = "network"
  BY DEF Configure, SetupAt
<1>3. CASE Abandon(c)
  BY <1>2, <1>3, AbandonKeeps
<1>4. CASE cn' = [cn EXCEPT ![c].setup = "start", ![c].net = TRUE] /\ UNCHANGED <<dev, crashed>>
  <2>1. cn' = [cn EXCEPT ![c] = y] /\ y \in Connection
    BY <1>1, <1>4 DEF Connection, Setup
  <2>2. Evolved(x, y) /\ (Holds(y) => Holds(x))
    BY <1>1, <1>2 DEF Evolved, Coherent, Holds, BeforeHook, Connection
  <2> HIDE DEF y
  <2> QED
    BY <1>2, <1>4, <2>1, <2>2, QuietStep
<1> QED
  BY <1>3, <1>4 DEF Configure

\* Start either hangs the controller into the session or is stuck with a closed one.
LEMMA SetCloseHookKeeps ==
    ASSUME IInv, NEW c \in Conns, SetCloseHook(c)
    PROVE  Sound
<1> DEFINE x == cn[c]
           s == IF x.closed THEN "stuck" ELSE "workers"
           h == IF x.closed THEN FALSE ELSE TRUE
           y == [x EXCEPT !.setup = s, !.hook = h]
<1>1. x \in Connection /\ Coherent(x)
  BY DEF IInv, TypeOK, DeviceInv
<1>2. UNCHANGED <<dev, crashed, Backend>> /\ x.setup = "start" /\ cn' = [cn EXCEPT ![c] = y]
  BY <1>1 DEF SetCloseHook, SetupAt, Connection
<1>3. s \in Setup /\ h \in BOOLEAN /\ (x.closed => s = "stuck" /\ ~h)
      /\ (~x.closed => s = "workers" /\ h)
  BY DEF Setup
<1> HIDE DEF s, h
<1>4. y \in Connection
  BY <1>1, <1>3 DEF Connection
<1>5. y.setup = s /\ y.hook = h
      /\ \A f \in {"auth", "activeClose", "closed", "reason", "net", "ctl", "owned",
                   "watch"} : y[f] = x[f]
  BY <1>1 DEF Connection
<1> HIDE DEF y
<1>6. Evolved(x, y) /\ (Holds(y) => Holds(x))
  BY <1>1, <1>2, <1>3, <1>5 DEF Evolved, Coherent, Holds, BeforeHook
<1> QED
  BY <1>2, <1>4, <1>6, QuietStep

\* The channels start with a connection that is still there.
LEMMA StartChannelsKeeps ==
    ASSUME IInv, NEW c \in Conns, StartChannels(c)
    PROVE  Sound
<1> DEFINE x == cn[c]
<1>1. x \in Connection /\ Coherent(x)
  BY DEF IInv, TypeOK, DeviceInv
<1>2. UNCHANGED Backend /\ x.setup = "channels"
  BY DEF StartChannels, SetupAt
<1>3. CASE Panic(c)
  BY <1>2, <1>3, PanicStep DEF Panic, Backend
<1>4. ASSUME NEW offered \in BOOLEAN, x.auth, UNCHANGED <<dev, crashed>>,
             cn' = [cn EXCEPT ![c].setup = IF offered THEN "dtls" ELSE "ok",
                              ![c].tls = "run", ![c].dtls = IF offered THEN "dial" ELSE "off"]
      PROVE  Sound
  <2> DEFINE s == IF offered THEN "dtls" ELSE "ok"
             t == IF offered THEN "dial" ELSE "off"
             y == [x EXCEPT !.setup = s, !.tls = "run", !.dtls = t]
  <2>1. cn' = [cn EXCEPT ![c] = y]
    BY <1>4
  <2>2. s \in Setup \ BeforeHook /\ s \notin {"workers", "dial", "off", "err"}
        /\ t \in {"off", "dial", "ready", "gone"}
    BY DEF Setup, BeforeHook
  <2> HIDE DEF s, t
  <2>3. y \in Connection
    BY <1>1, <2>2 DEF Connection
  <2>4. /\ y.setup = s
        /\ \A f \in {"auth", "activeClose", "closed", "reason", "net", "ctl", "hook", "owned",
                     "watch"} : y[f] = x[f]
    BY <1>1 DEF Connection
  <2> HIDE DEF y
  <2>5. Evolved(x, y) /\ (Holds(y) => Holds(x))
    BY <1>1, <1>2, <1>4, <2>2, <2>4 DEF Evolved, Coherent, Holds, BeforeHook
  <2> QED
    BY <1>2, <1>4, <2>1, <2>3, <2>5, QuietStep
<1> QED
  BY <1>3, <1>4 DEF StartChannels

\* Waiting for DTLS ends with success or hangs up.
LEMMA AwaitDtlsKeeps ==
    ASSUME IInv, NEW c \in Conns, AwaitDtls(c)
    PROVE  Sound
<1> DEFINE x == cn[c]
<1>1. x \in Connection /\ Coherent(x)
  BY DEF IInv, TypeOK, DeviceInv
<1>2. UNCHANGED <<dev, crashed, Backend>> /\ x.setup = "dtls"
  BY DEF AwaitDtls, SetupAt
<1>3. CASE cn' = [cn EXCEPT ![c].setup = "ok"]
  <2> DEFINE y == [x EXCEPT !.setup = "ok"]
  <2>1. cn' = [cn EXCEPT ![c] = y] /\ y \in Connection
    BY <1>1, <1>3 DEF Connection, Setup
  <2>2. Evolved(x, y) /\ (Holds(y) => Holds(x))
    BY <1>1, <1>2 DEF Evolved, Coherent, Holds, BeforeHook, Connection
  <2> HIDE DEF y
  <2> QED
    BY <1>2, <2>1, <2>2, QuietStep
<1>4. CASE cn' = [cn EXCEPT ![c] = [HangUp(@) EXCEPT !.setup = "err"]]
  <2> DEFINE z == HangUp(x)
             y == [z EXCEPT !.setup = "err"]
  <2>1. z \in Connection /\ \A f \in {"activeClose", "closed", "reason", "net", "hook", "owned",
                                      "ctl", "watch"} : z[f] = x[f]
    BY <1>1, HangUpFields
  <2>2. cn' = [cn EXCEPT ![c] = y]
    BY <1>4
  <2> HIDE DEF z
  <2>3. y \in Connection /\ y.setup = "err"
        /\ \A f \in {"activeClose", "closed", "reason", "net", "hook", "owned", "ctl",
                     "watch"} : y[f] = x[f]
    BY <2>1 DEF Connection, Setup
  <2> HIDE DEF y
  <2>4. Evolved(x, y) /\ (Holds(y) => Holds(x))
    BY <1>1, <1>2, <2>3 DEF Evolved, Coherent, Holds, BeforeHook
  <2> QED
    BY <1>2, <2>2, <2>3, <2>4, QuietStep
<1> QED
  BY <1>3, <1>4 DEF AwaitDtls

\* The TLS channel ends: a reason unless the session is closed, and a closed socket.
LEMMA TlsEndsKeeps ==
    ASSUME IInv, NEW c \in Conns, TlsEnds(c)
    PROVE  Sound
<1> DEFINE x == cn[c]
           z == IF x.closed THEN x ELSE RecordClose(x, "remote")
           y == [z EXCEPT !.sock = "closed", !.tls = "exit"]
<1>1. x \in Connection /\ Coherent(x) /\ "remote" \in Reasons
  BY DEF IInv, TypeOK, DeviceInv, Reasons
<1>2. UNCHANGED <<dev, crashed, Backend>> /\ x.tls = "run" /\ cn' = [cn EXCEPT ![c] = y]
  BY DEF TlsEnds
<1>3. /\ z \in Connection
      /\ \/ z.reason = x.reason
         \/ x.reason = "none" /\ z.reason = IF x.activeClose THEN "local" ELSE "remote"
      /\ \A f \in {"setup", "auth", "activeClose", "closed", "net", "hook", "owned", "ctl",
                   "watch"} : z[f] = x[f]
  <2>1. CASE x.closed
    BY <1>1, <2>1
  <2>2. CASE ~x.closed
    BY <1>1, <2>2, RecordCloseFields
  <2> QED
    BY <2>1, <2>2
<1> HIDE DEF z
<1>4. y \in Connection
  BY <1>3 DEF Connection
<1>5. \A f \in {"setup", "auth", "activeClose", "closed", "reason", "net", "hook", "owned", "ctl",
                "watch"} : y[f] = z[f]
  BY <1>3 DEF Connection
<1> HIDE DEF y
<1>6. \A f \in {"setup", "auth", "activeClose", "closed", "net", "hook", "owned", "ctl",
                "watch"} : y[f] = x[f]
  BY <1>3, <1>5
<1>7. \/ y.reason = x.reason
      \/ x.reason = "none" /\ y.reason = IF x.activeClose THEN "local" ELSE "remote"
  <2>1. y.reason = z.reason
    BY <1>5
  <2> QED
    BY <1>3, <2>1
<1>8. Evolved(x, y) /\ (Holds(y) => Holds(x))
  BY <1>1, <1>6, <1>7 DEF Evolved, Coherent, Holds
<1> QED
  BY <1>2, <1>4, <1>8, QuietStep

\* Closing the session in another goroutine than that of Disconnect.
LEMMA SessionCloses ==
    ASSUME NEW x \in Connection, Coherent(x), NEW r \in Reasons \ {"none", "local"}
    PROVE  Evolved(x, CloseSession(x, r)) /\ (Holds(CloseSession(x, r)) => Holds(x))
<1> DEFINE y == CloseSession(x, r)
<1>1. /\ y.closed
      /\ y.reason = IF x.reason # "none" THEN x.reason ELSE IF x.activeClose THEN "local" ELSE r
      /\ y.ctl = IF ~x.closed /\ x.hook THEN "stop" ELSE x.ctl
      /\ \A f \in {"setup", "auth", "activeClose", "net", "hook", "owned", "watch"} : y[f] = x[f]
  BY CloseSessionFields
<1> HIDE DEF y
<1>2. ~x.closed => x.ctl = "off"
  BY DEF Coherent
<1>3. Coherent(y)
  BY <1>1, <1>2 DEF Coherent
<1>4. Evolved(x, y) /\ (Holds(y) => Holds(x))
  BY <1>1, <1>2, <1>3 DEF Evolved, Holds
<1> QED
  BY <1>4 DEF y

\* ... and then the session ends with it.
LEMMA TlsClosesKeeps ==
    ASSUME IInv, NEW c \in Conns, TlsCloses(c)
    PROVE  Sound
<1> DEFINE x == cn[c]
           z == CloseSession(x, "unknown")
           y == [z EXCEPT !.tls = "gone"]
<1>1. x \in Connection /\ Coherent(x) /\ "unknown" \in Reasons \ {"none", "local"}
  BY DEF IInv, TypeOK, DeviceInv, Reasons
<1>2. UNCHANGED <<dev, crashed, Backend>> /\ cn' = [cn EXCEPT ![c] = y]
  BY DEF TlsCloses
<1>3. z \in Connection /\ Evolved(x, z) /\ (Holds(z) => Holds(x))
  BY <1>1, CloseSessionFields, SessionCloses
<1> HIDE DEF z
<1>4. y \in Connection
  BY <1>3 DEF Connection
<1>5. \A f \in {"setup", "auth", "activeClose", "closed", "reason", "net", "hook", "owned", "ctl",
                "watch"} : y[f] = z[f]
  BY <1>3 DEF Connection
<1> HIDE DEF y
<1>6. Evolved(x, y) /\ (Holds(y) => Holds(x))
  BY <1>3, <1>5 DEF Evolved, Coherent, Holds
<1> QED
  BY <1>2, <1>4, <1>6, QuietStep

\* The device fails under the workers.
LEMMA DeviceFailsKeeps ==
    ASSUME IInv, NEW c \in Conns, DeviceFails(c)
    PROVE  Sound
<1> DEFINE x == cn[c]
           y == CloseSession(x, "device")
<1>1. x \in Connection /\ Coherent(x) /\ "device" \in Reasons \ {"none", "local"}
  BY DEF IInv, TypeOK, DeviceInv, Reasons
<1>2. UNCHANGED <<dev, crashed, Backend>> /\ cn' = [cn EXCEPT ![c] = y]
  BY DEF DeviceFails
<1>3. y \in Connection /\ Evolved(x, y) /\ (Holds(y) => Holds(x))
  BY <1>1, CloseSessionFields, SessionCloses
<1> HIDE DEF y
<1> QED
  BY <1>2, <1>3, QuietStep

\* The DTLS handshake ends one way or the other.
LEMMA DtlsSettlesKeeps ==
    ASSUME IInv, NEW c \in Conns, DtlsSettles(c)
    PROVE  Sound
<1> DEFINE x == cn[c]
<1>1. x \in Connection /\ Coherent(x)
  BY DEF IInv, TypeOK, DeviceInv
<1>2. UNCHANGED <<dev, crashed, Backend>>
  BY DEF DtlsSettles
<1>3. PICK s \in {"ready", "gone"} : cn' = [cn EXCEPT ![c].dtls = s]
  BY DEF DtlsSettles
<1> DEFINE y == [x EXCEPT !.dtls = s]
<1>4. cn' = [cn EXCEPT ![c] = y]
  BY <1>3
<1>5. y \in Connection
  BY <1>1 DEF Connection
<1>6. \A f \in {"setup", "auth", "activeClose", "closed", "reason", "net", "hook", "owned", "ctl",
                "watch"} : y[f] = x[f]
  BY <1>1 DEF Connection
<1> HIDE DEF y
<1>7. Evolved(x, y) /\ (Holds(y) => Holds(x))
  BY <1>1, <1>6 DEF Evolved, Coherent, Holds
<1> QED
  BY <1>2, <1>4, <1>5, <1>7, QuietStep

\* The controller closes the device of its own connection: no other has one.
LEMMA CloseDeviceKeeps ==
    ASSUME IInv, NEW c \in Conns, CloseDevice(c)
    PROVE  Sound
<1> DEFINE x == cn[c]
           y == [x EXCEPT !.ctl = "wait"]
<1>1. x \in Connection /\ Coherent(x) /\ (Holds(x) => dev = c)
  BY DEF IInv, TypeOK, DeviceInv
<1>2. /\ UNCHANGED <<crashed, Backend>> /\ dev' = None /\ x.ctl = "device"
      /\ cn' = [cn EXCEPT ![c] = y]
  BY DEF CloseDevice
<1>3. y \in Connection
  BY <1>1 DEF Connection
<1>4. y.ctl = "wait"
      /\ \A f \in {"setup", "auth", "activeClose", "closed", "reason", "net", "hook", "owned",
                   "watch"} : y[f] = x[f]
  BY <1>1 DEF Connection
<1> HIDE DEF y
<1>5. x.owned /\ x.setup \notin BeforeHook \cup {"workers"} /\ dev = c
  BY <1>1, <1>2 DEF Coherent, Holds
<1>6. Evolved(x, y) /\ ~Holds(y)
  BY <1>1, <1>2, <1>4, <1>5 DEF Evolved, Coherent, Holds, BeforeHook
<1>7. /\ \A d \in Conns \ {c} : Holds(cn[d]) => dev' = d
      /\ dev' \in Conns \cup {None} /\ UNCHANGED crashed
  BY <1>2, <1>5 DEF IInv, TypeOK, DeviceInv
<1> QED
  BY <1>2, <1>3, <1>6, <1>7, ConnectionStep

-----------------------------------------------------------------------------
(* Steps of Connection.Disconnect.                                          *)

\* What Disconnect may do to the connection it works on.
Stopped(x, y) ==
    /\ Coherent(y) /\ (Holds(y) => Holds(x))
    /\ y.setup = x.setup /\ y.watch = x.watch
    /\ (x.closed => y.closed) /\ (x.activeClose => y.activeClose)

\* It takes one step at a time: asks, hangs up, or ends the session as a local one.
Progress(x, y) ==
    /\ ~x.auth => ~y.auth
    /\ \/ y.reason = x.reason /\ y.auth = x.auth
       \/ y.reason = x.reason /\ x.activeClose
       \/ y.auth = x.auth /\ x.activeClose /\ x.reason = "none" /\ y.reason = "local"

\* A step of Disconnect keeps the invariant if it hangs up and ends an announced
\* connection only with activeClose set, and adds nothing to what it has to do.
LEMMA DisconnectKeeps ==
    ASSUME IInv, NEW k \in Callers, disc[k].todo # <<>>,
           NEW y \in Connection, cn' = [cn EXCEPT ![Target(k)] = y], Stopped(cn[Target(k)], y),
           NEW q \in Disconnecting, disc' = [disc EXCEPT ![k] = q],
           q.step = "idle" <=> q.todo = <<>>, Elems(q.todo) \subseteq Targets(k),
           q.step \in {"hangup", "close"} => Head(q.todo) = Target(k),
           Published(Target(k)) =>
              (~y.auth \/ y.reason = "local" \/ q.step \in {"hangup", "close"} => y.activeClose),
           Published(Target(k)) => Progress(cn[Target(k)], y),
           UNCHANGED <<be, dev, call, events, crashed>>
    PROVE  Sound
<1>1. cn \in [Conns -> Connection] /\ disc \in [Callers -> Disconnecting]
  BY DEF IInv, TypeOK
<1>2. PICK c \in Conns : c = Target(k) /\ c \in Targets(k)
  BY <1>1, Rest DEF Disconnecting, Target, Targets, Elems
<1>3. /\ cn' \in [Conns -> Connection] /\ \A d \in Conns : cn'[d] = IF d = c THEN y ELSE cn[d]
      /\ Stopped(cn[c], y)
  BY <1>1, <1>2
<1>4. /\ disc' \in [Callers -> Disconnecting]
      /\ \A m \in Callers : disc'[m] = IF m = k THEN q ELSE disc[m]
  BY <1>1
<1>5. TypeOK'
  BY <1>3, <1>4 DEF IInv, TypeOK
<1>6. DeviceInv'
  BY <1>3 DEF IInv, DeviceInv, Stopped
<1>7. BusyInv' /\ RegisteredInv'
  BY <1>4 DEF IInv, BusyInv, RegisteredInv
<1>8. \A d \in Conns : /\ Undisturbed(d)' <=> Undisturbed(d)
                       /\ Published(d)' <=> Published(d)
                       /\ Announced(d)' <=> Announced(d)
                       /\ Sent(d, "disconnected")' <=> Sent(d, "disconnected")
  BY DEF Undisturbed, Published, Announced, Sent
<1>9. \A m \in Callers : Targets(m)' \subseteq Targets(m)
  <2> TAKE m \in Callers
  <2>1. CASE m = k
    <3>1. Targets(m)' = Elems(q.todo)
      BY <1>4, <2>1 DEF Targets, Elems
    <3> QED
      BY <2>1, <3>1
  <2>2. CASE m # k
    BY <1>4, <2>2 DEF Targets
  <2> QED
    BY <2>1, <2>2
<1>10. UndisturbedInv'
  <2> SUFFICES ASSUME NEW d \in Conns, Undisturbed(d)'
               PROVE  /\ \A m \in Callers : d \notin Targets(m)'
                      /\ ~cn'[d].activeClose /\ cn'[d].reason # "local"
                      /\ cn'[d].setup \notin {"off", "dial", "err"} => cn'[d].auth
    BY DEF UndisturbedInv
  <2>1. /\ \A m \in Callers : d \notin Targets(m)
        /\ ~cn[d].activeClose /\ cn[d].reason # "local"
        /\ cn[d].setup \notin {"off", "dial", "err"} => cn[d].auth
    BY <1>8 DEF IInv, UndisturbedInv
  <2>2. d # c
    BY <1>2, <2>1
  <2> QED
    BY <1>3, <1>9, <2>1, <2>2
<1>11. PublishedInv'
  <2> SUFFICES ASSUME NEW d \in Conns
               PROVE  /\ call'[d].step \in {"idle", "stale"} => cn'[d].setup = "off"
                      /\ call'[d].step \in {"check", "monitor", "publish"} => cn'[d].setup = "ok"
                      /\ be'.active = d => Published(d)'
                      /\ Published(d)' =>
                           /\ cn'[d].setup = "ok"
                           /\ ~cn'[d].auth \/ cn'[d].reason = "local" => cn'[d].activeClose
                           /\ \A m \in Callers : disc'[m].step \in {"hangup", "close"}
                                /\ Target(m)' = d => cn'[d].activeClose
    BY DEF PublishedInv
  <2>1. /\ call[d].step \in {"idle", "stale"} => cn[d].setup = "off"
        /\ call[d].step \in {"check", "monitor", "publish"} => cn[d].setup = "ok"
        /\ be.active = d => Published(d)
        /\ Published(d) =>
             /\ cn[d].setup = "ok"
             /\ ~cn[d].auth \/ cn[d].reason = "local" => cn[d].activeClose
             /\ \A m \in Callers : disc[m].step \in {"hangup", "close"} /\ Target(m) = d
                                     => cn[d].activeClose
    BY DEF IInv, PublishedInv
  <2>2. cn'[d].setup = cn[d].setup /\ (cn[d].activeClose => cn'[d].activeClose)
    BY <1>3 DEF Stopped
  <2>3. ASSUME NEW m \in Callers, Published(d), disc'[m].step \in {"hangup", "close"},
               Target(m)' = d
        PROVE  cn'[d].activeClose
    <3>1. CASE m = k
      <4>1. disc'[m] = q /\ Target(m)' = Head(q.todo)
        BY <1>4, <3>1 DEF Target
      <4> QED
        BY <1>2, <1>3, <2>3, <4>1
    <3>2. CASE m # k
      <4>1. disc'[m] = disc[m] /\ Target(m)' = Target(m)
        BY <1>4, <3>2 DEF Target
      <4> QED
        BY <2>1, <2>2, <2>3, <4>1
    <3> QED
      BY <3>1, <3>2
  <2>4. Published(d) => (~cn'[d].auth \/ cn'[d].reason = "local" => cn'[d].activeClose)
    BY <1>2, <1>3, <2>1
  <2> QED
    BY <1>8, <2>1, <2>2, <2>3, <2>4
<1>12. EventInv'
  BY <1>3, <1>8 DEF IInv, EventInv, Stopped
<1>13. \A d \in Conns : Phase(d)' = Phase(d)
  BY <1>8 DEF Phase
<1>14. \A d \in Conns \ {c} : Asked(d)' = Asked(d) /\ Cause(d)' = Cause(d)
  BY <1>3, <1>8 DEF Asked, Cause
<1>15. Moves(c)
  <2>1. CASE ~Announced(c)
    BY <1>2, <1>8, <1>13, <2>1 DEF Moves, Asked, Cause
  <2>2. CASE Announced(c)
    <3>1. Progress(cn[c], y) /\ (cn[c].activeClose => y.activeClose) /\ cn'[c] = y
      BY <1>2, <1>3, <2>2 DEF Stopped, Published
    <3>2. Asked(c) = IF ~cn[c].auth THEN "cut" ELSE IF cn[c].activeClose THEN "asked" ELSE "no"
      BY <2>2 DEF Asked
    <3>3. Asked(c)' = IF ~y.auth THEN "cut" ELSE IF y.activeClose THEN "asked" ELSE "no"
      BY <1>2, <1>8, <2>2, <3>1 DEF Asked
    <3>4. Phase(c) \in {"up", "ended"}
      BY <2>2 DEF Phase
    <3>5. CASE y.reason = cn[c].reason
      <4>1. Cause(c)' = Cause(c)
        BY <1>2, <1>8, <3>1, <3>5 DEF Cause
      <4>2. \/ Asked(c)' = Asked(c)
            \/ Asked(c) = "no" /\ Asked(c)' = "asked"
            \/ Asked(c) = "asked" /\ Asked(c)' = "cut"
        <5>1. \/ y.auth = cn[c].auth \/ cn[c].activeClose
          BY <3>1, <3>5 DEF Progress
        <5> QED
          BY <3>1, <3>2, <3>3, <5>1 DEF Progress
      <4> QED
        BY <1>2, <1>13, <3>4, <4>1, <4>2 DEF Moves
    <3>6. CASE y.reason # cn[c].reason
      <4>1. y.auth = cn[c].auth /\ cn[c].activeClose /\ cn[c].reason = "none" /\ y.reason = "local"
        BY <3>1, <3>6 DEF Progress
      <4>2. Phase(c) = "up"
        <5>1. ~cn[c].closed
          BY <1>2, <4>1 DEF IInv, DeviceInv, Coherent
        <5> QED
          BY <1>2, <2>2, <5>1 DEF IInv, EventInv, Phase
      <4>3. Cause(c) = "none" /\ Cause(c)' = "local"
        BY <1>2, <1>8, <2>2, <3>1, <4>1 DEF Cause
      <4>4. Asked(c)' = Asked(c) /\ Asked(c) # "no"
        BY <3>1, <3>2, <3>3, <4>1
      <4> QED
        BY <1>2, <1>13, <4>2, <4>3, <4>4 DEF Moves
    <3> QED
      BY <3>5, <3>6
  <2> QED
    BY <2>1, <2>2
<1>16. Contract!Next \/ UNCHANGED Contract!vars
  BY <1>2, <1>13, <1>14, <1>15, ContractStep
<1> QED
  BY <1>5, <1>6, <1>7, <1>10, <1>11, <1>12, <1>16 DEF IInv, Sound

\* What Finish leaves to do.
LEMMA FinishFields ==
    ASSUME IInv, NEW k \in Callers, disc[k].todo # <<>>, NEW err \in BOOLEAN, Finish(k, err)
    PROVE  \E q \in Disconnecting :
             /\ disc' = [disc EXCEPT ![k] = q]
             /\ q.step \in {"idle", "mark"} /\ (q.step = "idle" <=> q.todo = <<>>)
             /\ Elems(q.todo) \subseteq Targets(k)
<1> DEFINE s == IF Len(disc[k].todo) > 1 THEN "mark" ELSE "idle"
           e == disc[k].err \/ err
           q == [step |-> s, todo |-> Tail(disc[k].todo), err |-> e]
<1>1. disc \in [Callers -> Disconnecting] /\ disc[k].todo \in Seq(Conns) /\ disc[k].err \in BOOLEAN
  BY DEF IInv, TypeOK, Disconnecting
<1>2. disc' = [disc EXCEPT ![k] = q]
  BY DEF Finish
<1>3. /\ Tail(disc[k].todo) \in Seq(Conns) /\ Elems(Tail(disc[k].todo)) \subseteq Targets(k)
      /\ Len(disc[k].todo) > 1 <=> Tail(disc[k].todo) # <<>>
  BY <1>1, Rest DEF Targets, Elems
<1>4. s \in {"idle", "mark"} /\ (s = "idle" <=> Tail(disc[k].todo) = <<>>) /\ e \in BOOLEAN
  BY <1>1, <1>3
<1> HIDE DEF s, e
<1>5. q \in Disconnecting /\ q.step = s /\ q.todo = Tail(disc[k].todo)
  BY <1>3, <1>4 DEF Disconnecting
<1> QED
  BY <1>2, <1>3, <1>4, <1>5

\* A Disconnect under way has a target of its own.
LEMMA TargetFields ==
    ASSUME IInv, NEW k \in Callers, disc[k].step # "idle"
    PROVE  /\ disc[k].todo # <<>> /\ disc[k] \in Disconnecting /\ Target(k) \in Conns
           /\ cn[Target(k)] \in Connection /\ Coherent(cn[Target(k)])
           /\ Elems(disc[k].todo) = Targets(k)
<1>1. disc[k].todo # <<>> /\ disc[k] \in Disconnecting
  BY DEF IInv, TypeOK, BusyInv
<1>2. Target(k) \in Conns
  BY <1>1, Rest DEF Target, Disconnecting
<1> QED
  BY <1>1, <1>2 DEF IInv, TypeOK, DeviceInv, Elems, Targets

\* A step within one connection.
LEMMA SameTarget ==
    ASSUME IInv, NEW k \in Callers, disc[k].step # "idle",
           NEW s \in {"hangup", "close", "drain"}, NEW e \in BOOLEAN
    PROVE  \E q \in Disconnecting :
             /\ q = [disc[k] EXCEPT !.step = s, !.err = e]
             /\ q.step = s /\ (q.step = "idle" <=> q.todo = <<>>)
             /\ Elems(q.todo) \subseteq Targets(k) /\ Head(q.todo) = Target(k)
<1> DEFINE q == [disc[k] EXCEPT !.step = s, !.err = e]
<1>1. q \in Disconnecting /\ q.step = s /\ q.todo = disc[k].todo
  BY TargetFields DEF Disconnecting
<1> QED
  BY <1>1, TargetFields DEF Target

\* activeClose is set first.
LEMMA MarkKeeps ==
    ASSUME IInv, NEW k \in Callers, Mark(k)
    PROVE  Sound
<1> DEFINE x == cn[Target(k)]
           y == [x EXCEPT !.activeClose = TRUE]
<1>1. disc[k].step = "mark" /\ UNCHANGED <<be, dev, call, events, crashed>>
  BY DEF Mark, At
<1>2. disc[k].todo # <<>> /\ x \in Connection /\ Coherent(x) /\ Target(k) \in Conns
  BY <1>1, TargetFields
<1>3. disc[k] \in Disconnecting /\ disc[k].err \in BOOLEAN /\ disc \in [Callers -> Disconnecting]
  BY DEF IInv, TypeOK, Disconnecting
<1>4. PICK q \in Disconnecting :
        /\ q = [disc[k] EXCEPT !.step = "hangup", !.err = disc[k].err]
        /\ q.step = "hangup" /\ (q.step = "idle" <=> q.todo = <<>>)
        /\ Elems(q.todo) \subseteq Targets(k) /\ Head(q.todo) = Target(k)
  BY <1>1, <1>3, SameTarget
<1>5. [disc[k] EXCEPT !.step = "hangup"] = q
  BY <1>3, <1>4 DEF Disconnecting
<1>6. disc' = [disc EXCEPT ![k] = q]
  BY <1>5 DEF Mark
<1>7. cn' = [cn EXCEPT ![Target(k)] = y]
  BY DEF Mark
<1>8. y \in Connection
  BY <1>2 DEF Connection
<1>9. y.activeClose
      /\ \A f \in {"setup", "auth", "closed", "reason", "net", "hook", "owned", "ctl",
                   "watch"} : y[f] = x[f]
  BY <1>2 DEF Connection
<1> HIDE DEF y
<1>10. Stopped(x, y) /\ Progress(x, y)
  BY <1>2, <1>9 DEF Stopped, Coherent, Holds, Progress
<1> HIDE DEF x
<1> QED
  BY <1>1, <1>2, <1>4, <1>6, <1>7, <1>8, <1>9, <1>10, DisconnectKeeps DEF x

\* Somebody is about to hang up or close a connection that was announced: activeClose is set.
LEMMA MarkedFirst ==
    ASSUME IInv, NEW k \in Callers, disc[k].step \in {"hangup", "close"}
    PROVE  Published(Target(k)) => cn[Target(k)].activeClose
<1>1. Target(k) \in Conns
  BY TargetFields
<1> QED
  BY <1>1 DEF IInv, PublishedInv

\* The socket is hung up next.
LEMMA HangUpAuthKeeps ==
    ASSUME IInv, NEW k \in Callers, HangUpAuth(k)
    PROVE  Sound
<1> DEFINE x == cn[Target(k)]
           y == HangUp(x)
           err == x.auth /\ x.sock = "closed"
<1>1. disc[k].step = "hangup" /\ UNCHANGED <<be, dev, call, events, crashed>>
  BY DEF HangUpAuth, At
<1>2. disc[k].todo # <<>> /\ x \in Connection /\ Coherent(x) /\ Target(k) \in Conns
  BY <1>1, TargetFields
<1>3. disc[k] \in Disconnecting /\ disc[k].err \in BOOLEAN /\ err \in BOOLEAN
  BY <1>2 DEF IInv, TypeOK, Disconnecting
<1>4. cn' = [cn EXCEPT ![Target(k)] = y]
  BY DEF HangUpAuth
<1>5. /\ y \in Connection /\ ~y.auth
      /\ \A f \in {"setup", "activeClose", "closed", "reason", "net", "hook", "owned", "ctl",
                   "watch"} : y[f] = x[f]
  BY <1>2, HangUpFields
<1>6. Published(Target(k)) => x.activeClose
  BY <1>1, MarkedFirst
<1> HIDE DEF y
<1>7. Stopped(x, y) /\ (Published(Target(k)) => y.activeClose /\ Progress(x, y))
  BY <1>2, <1>5, <1>6 DEF Stopped, Coherent, Holds, Progress
<1>8. CASE disc' = [disc EXCEPT ![k].step = "close", ![k].err = @ \/ err]
  <2> DEFINE e == disc[k].err \/ err
  <2>1. e \in BOOLEAN
    BY <1>3
  <2>2. disc' = [disc EXCEPT ![k] = [disc[k] EXCEPT !.step = "close", !.err = e]]
    BY <1>8
  <2> HIDE DEF e
  <2>3. PICK q \in Disconnecting :
          /\ q = [disc[k] EXCEPT !.step = "close", !.err = e]
          /\ q.step = "close" /\ (q.step = "idle" <=> q.todo = <<>>)
          /\ Elems(q.todo) \subseteq Targets(k) /\ Head(q.todo) = Target(k)
    BY <1>1, <2>1, SameTarget
  <2>4. disc' = [disc EXCEPT ![k] = q]
    BY <2>2, <2>3
  <2> QED
    BY <1>1, <1>2, <1>4, <1>5, <1>7, <2>3, <2>4, DisconnectKeeps
<1>9. CASE Finish(k, err)
  <2> HIDE DEF err
  <2>1. PICK q \in Disconnecting :
          /\ disc' = [disc EXCEPT ![k] = q]
          /\ q.step \in {"idle", "mark"} /\ (q.step = "idle" <=> q.todo = <<>>)
          /\ Elems(q.todo) \subseteq Targets(k)
    BY <1>2, <1>3, <1>9, FinishFields
  <2> QED
    BY <1>1, <1>2, <1>4, <1>5, <1>7, <2>1, DisconnectKeeps
<1> QED
  BY <1>8, <1>9 DEF HangUpAuth

\* Then the session is closed as a local one.
LEMMA CloseLocallyKeeps ==
    ASSUME IInv, NEW k \in Callers, CloseLocally(k)
    PROVE  Sound
<1> DEFINE x == cn[Target(k)]
           z == RecordClose(x, "local")
           y == CloseSession(z, "local")
<1>1. disc[k].step = "close" /\ UNCHANGED <<be, dev, call, events, crashed>>
  BY DEF CloseLocally, At
<1>2. disc[k].todo # <<>> /\ x \in Connection /\ Coherent(x) /\ Target(k) \in Conns
  BY <1>1, TargetFields
<1>3. disc[k] \in Disconnecting /\ disc[k].err \in BOOLEAN /\ "local" \in Reasons
  BY <1>2 DEF IInv, TypeOK, Disconnecting, Reasons
<1>4. cn' = [cn EXCEPT ![Target(k)] = y]
  BY DEF CloseLocally
<1>5. /\ z \in Connection /\ z.reason # "none"
      /\ z.reason = IF x.reason # "none" THEN x.reason ELSE "local"
      /\ \A f \in {"setup", "auth", "activeClose", "closed", "net", "hook", "owned", "ctl",
                   "watch"} : z[f] = x[f]
  BY <1>2, <1>3, RecordCloseFields
<1> HIDE DEF z
<1>6. Coherent(z)
  BY <1>2, <1>5 DEF Coherent
<1>7. /\ y \in Connection /\ y.closed /\ y.reason = z.reason
      /\ y.ctl = IF ~z.closed /\ z.hook THEN "stop" ELSE z.ctl
      /\ \A f \in {"setup", "auth", "activeClose", "net", "hook", "owned", "watch"} : y[f] = z[f]
  BY <1>3, <1>5, <1>6, CloseSessionFields
<1>8. Published(Target(k)) => x.activeClose
  BY <1>1, MarkedFirst
<1> HIDE DEF y
<1>9. ~z.closed => z.ctl = "off"
  BY <1>6 DEF Coherent
<1>10. Stopped(z, y)
  BY <1>5, <1>6, <1>7, <1>9 DEF Stopped, Coherent, Holds
<1>11. Stopped(x, y) /\ (Published(Target(k)) => y.activeClose /\ Progress(x, y))
  <2>1. y.auth = x.auth /\ y.activeClose = x.activeClose
        /\ y.reason = IF x.reason # "none" THEN x.reason ELSE "local"
    BY <1>5, <1>7
  <2> QED
    BY <1>5, <1>7, <1>8, <1>10, <2>1 DEF Stopped, Holds, Progress
<1>12. PICK q \in Disconnecting :
        /\ q = [disc[k] EXCEPT !.step = "drain", !.err = disc[k].err]
        /\ q.step = "drain" /\ (q.step = "idle" <=> q.todo = <<>>)
        /\ Elems(q.todo) \subseteq Targets(k) /\ Head(q.todo) = Target(k)
  BY <1>1, <1>3, SameTarget
<1>13. [disc[k] EXCEPT !.step = "drain"] = q
  BY <1>3, <1>12 DEF Disconnecting
<1>14. disc' = [disc EXCEPT ![k] = q]
  BY <1>13 DEF CloseLocally
<1> QED
  BY <1>1, <1>2, <1>4, <1>7, <1>11, <1>12, <1>14, DisconnectKeeps

\* The controller has drained or is not waited for: the manager is closed, or was.
LEMMA DrainKeeps ==
    ASSUME IInv, NEW k \in Callers, NEW e \in BOOLEAN, disc[k].step = "drain", Finish(k, e),
           cn' = cn \/ cn' = [cn EXCEPT ![Target(k)].net = FALSE],
           UNCHANGED <<be, dev, call, events, crashed>>
    PROVE  Sound
<1> DEFINE x == cn[Target(k)]
<1>1. disc[k].todo # <<>> /\ x \in Connection /\ Coherent(x) /\ Target(k) \in Conns
  BY TargetFields
<1>2. PICK q \in Disconnecting :
        /\ disc' = [disc EXCEPT ![k] = q]
        /\ q.step \in {"idle", "mark"} /\ (q.step = "idle" <=> q.todo = <<>>)
        /\ Elems(q.todo) \subseteq Targets(k)
  BY <1>1, FinishFields
<1>3. \E y \in Connection : cn' = [cn EXCEPT ![Target(k)] = y] /\ (y.net => x.net)
        /\ \A f \in {"setup", "auth", "activeClose", "closed", "reason", "hook", "owned", "ctl",
                     "watch"} : y[f] = x[f]
  <2>1. CASE cn' = cn
    <3>1. cn' = [cn EXCEPT ![Target(k)] = x]
      BY <1>1, <2>1 DEF IInv, TypeOK
    <3> QED
      BY <1>1, <3>1
  <2>2. CASE cn' = [cn EXCEPT ![Target(k)].net = FALSE]
    <3> DEFINE y == [x EXCEPT !.net = FALSE]
    <3>1. cn' = [cn EXCEPT ![Target(k)] = y]
      BY <2>2
    <3>2. y \in Connection
      BY <1>1 DEF Connection
    <3>3. ~y.net /\ \A f \in {"setup", "auth", "activeClose", "closed", "reason", "hook",
                              "owned", "ctl", "watch"} : y[f] = x[f]
      BY <1>1 DEF Connection
    <3> HIDE DEF y
    <3> QED
      BY <3>1, <3>2, <3>3
  <2> QED
    BY <2>1, <2>2
<1>4. PICK y \in Connection : /\ cn' = [cn EXCEPT ![Target(k)] = y] /\ (y.net => x.net)
        /\ \A f \in {"setup", "auth", "activeClose", "closed", "reason", "hook", "owned", "ctl",
                     "watch"} : y[f] = x[f]
  BY <1>3
<1>5. Stopped(x, y) /\ Progress(x, y)
  BY <1>1, <1>4 DEF Stopped, Coherent, Holds, Progress
<1>6. Published(Target(k)) => (~y.auth \/ y.reason = "local" => y.activeClose)
  BY <1>1, <1>4 DEF IInv, PublishedInv
<1> HIDE DEF x
<1> QED
  BY <1>1, <1>2, <1>4, <1>5, <1>6, DisconnectKeeps DEF x

-----------------------------------------------------------------------------
(* Steps of Backend.Connect and Backend.Disconnect.                         *)

Fields == [active : Conns \cup {None}, connecting : Conns \cup {None}, monitor : Conns \cup {None}]
Registered == {"stale", "wait", "cancel", "fail", "check", "monitor", "publish"}

\* What Connect itself does to its connection: it starts setup and the monitor.
Launched(x, y) ==
    /\ \A f \in {"auth", "activeClose", "closed", "reason", "net", "hook", "owned", "ctl",
                 "watch"} : y[f] = x[f]
    /\ y.setup = x.setup \/ (x.setup = "off" /\ y.setup = "dial")

\* A step of Connect, which may start a Disconnect of its own or of another caller, keeps
\* the invariant if it registers and publishes only c, and publishes only an attempt that is
\* still registered.
LEMMA CallKeeps ==
    ASSUME IInv, NEW c \in Conns, NEW p \in Call, call' = [call EXCEPT ![c] = p],
           be' \in Fields, NEW y \in Connection, cn' = [cn EXCEPT ![c] = y], Launched(cn[c], y),
           NEW k \in Callers, NEW s \in Seq(Conns),
           \/ disc' = disc
           \/ disc' = [disc EXCEPT ![k] = Start(s)] /\ \A d \in Elems(s) : ~Undisturbed(d)',
           call[c].step \notin {"announce", "returned"} \/ p.step = call[c].step,
           p.step # "idle" \/ p.step = call[c].step,
           be'.connecting \in {None, be.connecting, c}, be'.connecting = c => p.step \in Registered,
           be'.active \in {None, be.active, c}, be'.active = c => be.active = c \/ p.step = "announce",
           p.step = "announce" => p.step = call[c].step \/ (Undisturbed(c) /\ cn[c].setup = "ok"
                                                            /\ disc' = disc),
           Undisturbed(c)' => Undisturbed(c),
           p.step \in {"idle", "stale"} => y.setup = "off",
           p.step \in {"check", "monitor", "publish"} => y.setup = "ok",
           UNCHANGED <<dev, events, crashed>>
    PROVE  Sound
<1>1. /\ cn \in [Conns -> Connection] /\ disc \in [Callers -> Disconnecting]
      /\ call \in [Conns -> Call] /\ None \notin Conns
  BY TunnelAssumption DEF IInv, TypeOK
<1>2. cn' \in [Conns -> Connection] /\ \A d \in Conns : cn'[d] = IF d = c THEN y ELSE cn[d]
  BY <1>1
<1>3. call' \in [Conns -> Call] /\ \A d \in Conns : call'[d] = IF d = c THEN p ELSE call[d]
  BY <1>1
<1>4. /\ disc' \in [Callers -> Disconnecting]
      /\ \A m \in Callers : \/ disc'[m] = disc[m]
                            \/ disc'[m] = Start(s) /\ \A d \in Elems(s) : ~Undisturbed(d)'
  BY <1>1, StartTyped
<1>5. TypeOK'
  BY <1>2, <1>3, <1>4 DEF IInv, TypeOK, Fields
<1>6. DeviceInv'
  <2>1. Coherent(cn[c]) => Coherent(y) /\ (Holds(y) => Holds(cn[c]))
    BY DEF Launched, Coherent, Holds, BeforeHook
  <2> QED
    BY <1>2, <2>1 DEF IInv, DeviceInv
<1>7. BusyInv'
  BY <1>4, StartTyped DEF IInv, BusyInv
<1>8. RegisteredInv'
  BY <1>1, <1>3 DEF IInv, RegisteredInv, Registered
<1>9. \A d \in Conns : /\ Announced(d)' <=> Announced(d)
                       /\ Sent(d, "disconnected")' <=> Sent(d, "disconnected")
                       /\ Undisturbed(d)' => Undisturbed(d)
                       /\ d # c => (Published(d)' <=> Published(d))
  <2>1. \A d \in Conns : /\ Announced(d)' <=> Announced(d)
                         /\ Sent(d, "disconnected")' <=> Sent(d, "disconnected")
    BY DEF Announced, Sent
  <2>2. \A d \in Conns \ {c} : (Undisturbed(d)' => Undisturbed(d)) /\ (Published(d)' <=> Published(d))
    BY <1>1, <1>3, <2>1 DEF Undisturbed, Published
  <2> QED
    BY <2>1, <2>2
<1>10. UndisturbedInv'
  <2> SUFFICES ASSUME NEW d \in Conns, Undisturbed(d)'
               PROVE  /\ \A m \in Callers : d \notin Targets(m)'
                      /\ ~cn'[d].activeClose /\ cn'[d].reason # "local"
                      /\ cn'[d].setup \notin {"off", "dial", "err"} => cn'[d].auth
    BY DEF UndisturbedInv
  <2>1. /\ \A m \in Callers : d \notin Targets(m)
        /\ ~cn[d].activeClose /\ cn[d].reason # "local"
        /\ cn[d].setup \notin {"off", "dial", "err"} => cn[d].auth
    BY <1>9 DEF IInv, UndisturbedInv
  <2>2. ASSUME NEW m \in Callers PROVE d \notin Targets(m)'
    <3>1. CASE disc'[m] = disc[m]
      BY <2>1, <3>1 DEF Targets
    <3>2. CASE disc'[m] = Start(s) /\ \A e \in Elems(s) : ~Undisturbed(e)'
      <4>1. Targets(m)' = Elems(s)
        BY <3>2, StartTyped DEF Targets, Elems
      <4> QED
        BY <3>2, <4>1
    <3> QED
      BY <1>4, <3>1, <3>2
  <2>3. ~cn'[d].activeClose /\ cn'[d].reason # "local"
    BY <1>2, <2>1 DEF Launched
  <2>4. cn'[d].setup \notin {"off", "dial", "err"} => cn'[d].auth
    BY <1>2, <2>1 DEF Launched
  <2> QED
    BY <2>2, <2>3, <2>4
<1>11. PublishedInv'
  <2> SUFFICES ASSUME NEW d \in Conns
               PROVE  /\ call'[d].step \in {"idle", "stale"} => cn'[d].setup = "off"
                      /\ call'[d].step \in {"check", "monitor", "publish"} => cn'[d].setup = "ok"
                      /\ be'.active = d => Published(d)'
                      /\ Published(d)' =>
                           /\ cn'[d].setup = "ok"
                           /\ ~cn'[d].auth \/ cn'[d].reason = "local" => cn'[d].activeClose
                           /\ \A m \in Callers : disc'[m].step \in {"hangup", "close"}
                                /\ Target(m)' = d => cn'[d].activeClose
    BY DEF PublishedInv
  <2>1. /\ call[d].step \in {"idle", "stale"} => cn[d].setup = "off"
        /\ call[d].step \in {"check", "monitor", "publish"} => cn[d].setup = "ok"
        /\ be.active = d => Published(d)
        /\ Published(d) =>
             /\ cn[d].setup = "ok"
             /\ ~cn[d].auth \/ cn[d].reason = "local" => cn[d].activeClose
             /\ \A m \in Callers : disc[m].step \in {"hangup", "close"} /\ Target(m) = d
                                     => cn[d].activeClose
    BY DEF IInv, PublishedInv
  <2>2. \A m \in Callers : disc'[m].step \in {"hangup", "close"}
            => disc[m].step \in {"hangup", "close"} /\ Target(m)' = Target(m)
    BY <1>4, StartTyped DEF Target
  <2>3. be'.active = d => Published(d)'
    <3>1. CASE d # c
      BY <1>1, <1>9, <2>1, <3>1
    <3>2. CASE d = c
      BY <1>3, <1>9, <2>1, <3>2 DEF Published
    <3> QED
      BY <3>1, <3>2
  <2>4. /\ cn'[d].activeClose = cn[d].activeClose /\ cn'[d].auth = cn[d].auth
        /\ cn'[d].reason = cn[d].reason /\ (cn[d].setup = "ok" => cn'[d].setup = "ok")
    BY <1>2 DEF Launched
  <2>5. Published(d)' /\ ~Published(d) => d = c /\ Undisturbed(c) /\ cn[c].setup = "ok"
    BY <1>3, <1>9 DEF Published
  <2>6. CASE Published(d)' /\ ~Published(d)
    <3>1. /\ ~cn[d].activeClose /\ cn[d].reason # "local" /\ cn[d].auth
          /\ \A m \in Callers : d \notin Targets(m)
      BY <2>5, <2>6 DEF IInv, UndisturbedInv
    <3>2. \A m \in Callers : disc[m].step # "idle" => Target(m) \in Targets(m)
      BY TargetFields, Rest DEF Target, Disconnecting
    <3>3. \A m \in Callers : disc'[m].step \in {"hangup", "close"} => Target(m)' # d
      BY <2>2, <3>1, <3>2
    <3> QED
      BY <1>3, <2>3, <2>4, <2>5, <2>6, <3>1, <3>3, <1>2
  <2>7. CASE Published(d)' => Published(d)
    BY <1>2, <1>3, <2>1, <2>2, <2>3, <2>4, <2>7
  <2> QED
    BY <2>6, <2>7
<1>12. EventInv'
  BY <1>2, <1>3, <1>9 DEF IInv, EventInv, Launched
<1>13. \A d \in Conns \ {c} :
         Phase(d)' = Phase(d) /\ Asked(d)' = Asked(d) /\ Cause(d)' = Cause(d)
  BY <1>2, <1>3, <1>9 DEF Phase, Asked, Cause
<1>14. Asked(c)' = Asked(c) /\ Cause(c)' = Cause(c)
  BY <1>2, <1>9 DEF Asked, Cause, Launched
<1>15. Moves(c)
  <2>1. CASE Announced(c)
    <3>1. call'[c].step = call[c].step
      BY <1>3, <2>1 DEF IInv, EventInv
    <3> QED
      BY <1>9, <1>14, <3>1 DEF Moves, Phase
  <2>2. CASE ~Announced(c)
    <3>1. ~Sent(c, "disconnected")
      BY <2>2 DEF IInv, EventInv
    <3>2. Phase(c) = IF call[c].step = "returned" THEN "failed"
                     ELSE IF call[c].step = "idle" THEN "idle" ELSE "trying"
      BY <2>2, <3>1 DEF Phase
    <3>3. Phase(c)' = IF p.step = "returned" THEN "failed"
                      ELSE IF p.step = "idle" THEN "idle" ELSE "trying"
      BY <1>3, <1>9, <2>2, <3>1 DEF Phase
    <3> QED
      BY <1>14, <3>2, <3>3 DEF Moves
  <2> QED
    BY <2>1, <2>2
<1>16. Contract!Next \/ UNCHANGED Contract!vars
  BY <1>13, <1>15, ContractStep
<1> QED
  BY <1>5, <1>6, <1>7, <1>8, <1>10, <1>11, <1>12, <1>16 DEF IInv, Sound

\* The records a call works on.
LEMMA CallFields ==
    ASSUME IInv, NEW c \in Conns
    PROVE  /\ call[c] \in Call /\ cn[c] \in Connection /\ be \in Fields /\ c \in Callers
           /\ cn = [cn EXCEPT ![c] = cn[c]] /\ Launched(cn[c], cn[c])
           /\ None \notin Conns /\ <<>> \in Seq(Conns)
<1>1. /\ call[c] \in Call /\ cn[c] \in Connection /\ be \in Fields /\ c \in Callers
      /\ cn = [cn EXCEPT ![c] = cn[c]] /\ None \notin Conns
  BY TunnelAssumption DEF IInv, TypeOK, Fields, Callers
<1>2. Launched(cn[c], cn[c])
  BY DEF Launched
<1>3. <<>> \in Seq(Conns)
  OBVIOUS
<1> QED
  BY <1>1, <1>2, <1>3

\* The step of a call changes.
LEMMA GotoFields ==
    ASSUME IInv, NEW c \in Conns,
           NEW s \in {"stale", "wait", "cancel", "join", "fail", "check", "monitor", "publish",
                      "supersede", "announce"}
    PROVE  [call[c] EXCEPT !.step = s] \in Call /\ [call[c] EXCEPT !.step = s].step = s
<1>1. call[c] \in Call
  BY CallFields
<1> QED
  BY <1>1 DEF Call

\* clearConnecting.
LEMMA ClearedFields ==
    ASSUME IInv, NEW c \in Conns
    PROVE  /\ Cleared(c) \in Fields /\ Cleared(c).active = be.active
           /\ Cleared(c).connecting # c /\ Cleared(c).connecting \in {None, be.connecting}
<1> DEFINE v == IF be.connecting = c THEN None ELSE be.connecting
<1>1. be \in Fields /\ None \notin Conns
  BY CallFields
<1>2. v \in Conns \cup {None} /\ v # c /\ v \in {None, be.connecting}
  BY <1>1 DEF Fields
<1>3. Cleared(c) = [be EXCEPT !.connecting = v]
  BY DEF Cleared
<1> HIDE DEF v
<1> QED
  BY <1>1, <1>2, <1>3 DEF Fields

\* A call that was waiting for itself returns and is no longer registered.
LEMMA ReturnKeeps ==
    ASSUME IInv, NEW c \in Conns, NEW r \in {"ok", "busy", "lingering", "canceled", "failed"},
           ReturnCall(c, r), call[c].step \notin {"announce", "returned"},
           be' = Cleared(c) \/ (be' = be /\ be.connecting # c),
           UNCHANGED <<dev, cn, disc, events, crashed>>
    PROVE  Sound
<1> DEFINE p == [step |-> "returned", ctx |-> "live", ret |-> r]
<1>1. call' = [call EXCEPT ![c] = p] /\ p \in Call /\ p.step = "returned"
  BY DEF ReturnCall, Call
<1> HIDE DEF p
<1>2. /\ be' \in Fields /\ be'.active = be.active
      /\ be'.connecting \in {None, be.connecting} /\ be'.connecting # c
  BY CallFields, ClearedFields
<1>3. ~Undisturbed(c)'
  <2>1. call'[c].step = "returned"
    BY <1>1 DEF IInv, TypeOK
  <2> QED
    BY <2>1 DEF Undisturbed
<1>4. cn[c] \in Connection /\ cn' = [cn EXCEPT ![c] = cn[c]] /\ Launched(cn[c], cn[c])
      /\ c \in Callers /\ <<>> \in Seq(Conns)
  BY CallFields
<1> QED
  BY <1>1, <1>2, <1>3, <1>4, CallKeeps

\* The call gives up and disconnects its own attempt.
LEMMA GiveUpKeeps ==
    ASSUME IInv, NEW c \in Conns, NEW t \in {"cancel", "fail", "supersede"}, GotoCall(c, t),
           disc' = [disc EXCEPT ![c] = Start(<<c>>)],
           call[c].step \notin {"announce", "returned"},
           be' \in Fields, be'.active = be.active, be'.connecting = be.connecting,
           t = "supersede" => be.connecting # c,
           UNCHANGED <<dev, cn, events, crashed>>
    PROVE  Sound
<1> DEFINE p == [call[c] EXCEPT !.step = t]
<1>1. call' = [call EXCEPT ![c] = p] /\ p \in Call /\ p.step = t
  <2>1. t \in {"stale", "wait", "cancel", "join", "fail", "check", "monitor", "publish",
               "supersede", "announce"}
    OBVIOUS
  <2>2. p \in Call /\ p.step = t
    BY <2>1, GotoFields
  <2>3. call' = [call EXCEPT ![c] = p]
    BY DEF GotoCall
  <2> QED
    BY <2>2, <2>3
<1> HIDE DEF p
<1>2. ~Undisturbed(c)'
  <2>1. call'[c].step = t
    BY <1>1 DEF IInv, TypeOK
  <2> QED
    BY <2>1 DEF Undisturbed
<1>3. <<c>> \in Seq(Conns) /\ \A d \in Elems(<<c>>) : ~Undisturbed(d)'
  BY <1>2, SingleTyped
<1>4. cn[c] \in Connection /\ cn' = [cn EXCEPT ![c] = cn[c]] /\ Launched(cn[c], cn[c]) /\ c \in Callers
  BY CallFields
<1>5. be'.connecting = c => p.step \in Registered
  BY <1>1 DEF Registered
<1> QED
  BY <1>1, <1>2, <1>3, <1>4, <1>5, CallKeeps

\* The call goes on with an attempt that is set up.
LEMMA ProceedKeeps ==
    ASSUME IInv, NEW c \in Conns, NEW t \in {"check", "monitor", "publish"}, GotoCall(c, t),
           call[c].step \in {"wait", "check", "monitor"},
           be' \in Fields, be'.active = be.active, be'.connecting = be.connecting,
           NEW y \in Connection, cn' = [cn EXCEPT ![c] = y], Launched(cn[c], y), cn[c].setup = "ok",
           UNCHANGED <<dev, disc, events, crashed>>
    PROVE  Sound
<1> DEFINE p == [call[c] EXCEPT !.step = t]
<1>1. call' = [call EXCEPT ![c] = p] /\ p \in Call /\ p.step = t
  <2>1. call' = [call EXCEPT ![c] = p]
    BY DEF GotoCall
  <2>2. p \in Call /\ p.step = t
    <3>1. t \in {"stale", "wait", "cancel", "join", "fail", "check", "monitor", "publish",
                 "supersede", "announce"}
      OBVIOUS
    <3> QED
      BY <3>1, GotoFields
  <2> QED
    BY <2>1, <2>2
<1> HIDE DEF p
<1>2. Undisturbed(c)' => Undisturbed(c)
  <2>1. call'[c].step = t
    BY <1>1 DEF IInv, TypeOK
  <2> QED
    BY <2>1 DEF Undisturbed
<1>3. y.setup = "ok" /\ c \in Callers /\ <<>> \in Seq(Conns)
  BY CallFields DEF Launched
<1>4. be'.connecting = c => p.step \in Registered
  BY <1>1 DEF Registered
<1> QED
  BY <1>1, <1>2, <1>3, <1>4, CallKeeps

\* The deadline or the cancellation of a call.
LEMMA CancelKeeps ==
    ASSUME IInv, NEW c \in Conns, Cancel(c)
    PROVE  Sound
<1> DEFINE p == [call[c] EXCEPT !.ctx = "done"]
<1>1. UNCHANGED <<be, dev, cn, disc, events, crashed>> /\ call' = [call EXCEPT ![c] = p]
  BY DEF Cancel
<1>2. p \in Call /\ p.step = call[c].step
  <2>1. call[c] \in Call
    BY CallFields
  <2> QED
    BY <2>1 DEF Call
<1> HIDE DEF p
<1>3. Undisturbed(c)' => Undisturbed(c)
  <2>1. call'[c].step = call[c].step
    BY <1>1, <1>2 DEF IInv, TypeOK
  <2> QED
    BY <1>1, <2>1 DEF Undisturbed
<1>4. cn[c] \in Connection /\ cn' = [cn EXCEPT ![c] = cn[c]] /\ Launched(cn[c], cn[c])
      /\ c \in Callers /\ <<>> \in Seq(Conns) /\ be' \in Fields
  BY <1>1, CallFields
<1>5. be.connecting = c => p.step \in Registered
  BY <1>2 DEF IInv, RegisteredInv, Registered
<1>6. p.step \in {"check", "monitor", "publish"} => cn[c].setup = "ok"
  BY <1>2 DEF IInv, PublishedInv
<1>7. p.step \in {"idle", "stale"} => cn[c].setup = "off"
  BY <1>2 DEF IInv, PublishedInv
<1> QED
  BY <1>1, <1>2, <1>3, <1>4, <1>5, <1>6, <1>7, CallKeeps

\* Disconnect takes over the registered attempt and the active connection: the first is no
\* longer registered, the other was published.
LEMMA BackendDisconnectKeeps ==
    ASSUME IInv, BackendDisconnect
    PROVE  Sound
<1> DEFINE s == Present(be.connecting) \o Present(be.active)
<1>1. /\ be' = [active |-> None, connecting |-> None, monitor |-> None]
      /\ disc' = [disc EXCEPT ![Other] = Start(s)] /\ UNCHANGED <<dev, cn, call, events, crashed>>
      /\ be.active # None \/ be.connecting # None
  BY DEF BackendDisconnect
<1>2. PICK c \in Conns : c = be.active \/ c = be.connecting
  BY <1>1 DEF IInv, TypeOK
<1>3. be' \in Fields /\ be'.connecting = None /\ be'.active = None /\ Other \in Callers
  BY <1>1 DEF Fields, Callers
<1>4. be.connecting \in Conns \cup {None} /\ be.active \in Conns \cup {None}
  BY DEF IInv, TypeOK
<1>5. /\ s \in Seq(Conns)
      /\ \A d \in Elems(s) : d \in Conns /\ (d = be.connecting \/ d = be.active)
  <2>1. /\ Present(be.connecting) \in Seq(Conns) /\ Present(be.active) \in Seq(Conns)
        /\ \A e \in Conns : e \in Elems(Present(be.connecting)) => e = be.connecting
        /\ \A e \in Conns : e \in Elems(Present(be.active)) => e = be.active
    BY <1>4, PresentTyped
  <2>2. /\ s \in Seq(Conns)
        /\ Elems(s) \subseteq Elems(Present(be.connecting)) \cup Elems(Present(be.active))
    BY <2>1, ElemsConcat
  <2>3. Elems(s) \subseteq Conns
    BY <2>2 DEF Elems
  <2> QED
    BY <2>1, <2>2, <2>3
<1>6. \A d \in Elems(s) : ~Undisturbed(d)'
  <2> TAKE d \in Elems(s)
  <2>1. d \in Conns /\ (d = be.connecting \/ d = be.active) /\ None \notin Conns
    BY <1>5, CallFields
  <2>2. d = be.connecting => call[d].step # "idle"
    BY <2>1 DEF IInv, RegisteredInv
  <2>3. d = be.active => call[d].step # "idle"
    BY <2>1 DEF IInv, PublishedInv, EventInv, Published
  <2> QED
    BY <1>1, <1>3, <2>1, <2>2, <2>3 DEF Undisturbed
<1> HIDE DEF s
<1>7. /\ cn[c] \in Connection /\ cn' = [cn EXCEPT ![c] = cn[c]] /\ Launched(cn[c], cn[c])
      /\ call[c] \in Call /\ None \notin Conns
  BY <1>1, CallFields
<1>8. call' = [call EXCEPT ![c] = call[c]]
  BY <1>1 DEF IInv, TypeOK
<1>9. Undisturbed(c)' => Undisturbed(c)
  BY <1>1, <1>3, <1>7 DEF Undisturbed
<1>10. /\ call[c].step \in {"idle", "stale"} => cn[c].setup = "off"
       /\ call[c].step \in {"check", "monitor", "publish"} => cn[c].setup = "ok"
  BY DEF IInv, PublishedInv
<1> QED
  BY <1>1, <1>3, <1>5, <1>6, <1>7, <1>8, <1>9, <1>10, CallKeeps

\* A connection that is active was published, so it is another than the new one.
LEMMA ConnectKeeps ==
    ASSUME IInv, NEW c \in Conns, Connect(c)
    PROVE  Sound
<1>1. call[c].step = "idle" /\ UNCHANGED <<dev, cn, events, crashed>>
  BY DEF Connect, CallAt
<1>2. CASE ReturnCall(c, "busy") /\ UNCHANGED <<be, disc>>
  <2>1. be.connecting # c
    BY <1>1 DEF IInv, RegisteredInv
  <2> QED
    BY <1>1, <1>2, <2>1, ReturnKeeps
<1>3. CASE /\ be.connecting = None /\ be' = [be EXCEPT !.active = None, !.connecting = c]
           /\ disc' = [disc EXCEPT ![c] = Start(Present(be.active))] /\ GotoCall(c, "stale")
  <2> DEFINE p == [call[c] EXCEPT !.step = "stale"]
             s == Present(be.active)
  <2>1. call' = [call EXCEPT ![c] = p] /\ p \in Call /\ p.step = "stale"
    BY <1>3, GotoFields DEF GotoCall
  <2>2. call'[c].step = "stale" /\ \A d \in Conns \ {c} : call'[d] = call[d]
    BY <2>1 DEF IInv, TypeOK
  <2> HIDE DEF p
  <2>3. /\ cn[c] \in Connection /\ cn' = [cn EXCEPT ![c] = cn[c]] /\ Launched(cn[c], cn[c])
        /\ be \in Fields /\ c \in Callers /\ None \notin Conns
    BY <1>1, CallFields
  <2>4. be' \in Fields /\ be'.active = None /\ be'.connecting = c
    BY <1>3, <2>3 DEF Fields
  <2>5. s \in Seq(Conns) /\ \A e \in Conns : e \in Elems(s) => e = be.active
    BY <2>3, PresentTyped DEF Fields
  <2>6. Elems(s) \subseteq Conns
    BY <2>5 DEF Elems
  <2>7. \A d \in Elems(s) : ~Undisturbed(d)'
    <3> TAKE d \in Elems(s)
    <3>1. d \in Conns /\ d = be.active
      BY <2>5, <2>6
    <3>2. Published(d)
      BY <3>1 DEF IInv, PublishedInv
    <3>3. call[d].step \in {"announce", "returned"}
      BY <3>1, <3>2 DEF IInv, EventInv, Published
    <3> QED
      BY <1>1, <2>2, <2>4, <3>1, <3>3 DEF Undisturbed
  <2> HIDE DEF s
  <2>8. cn[c].setup = "off" /\ Undisturbed(c)
    BY <1>1 DEF IInv, PublishedInv, Undisturbed
  <2>9. p.step \in Registered
    BY <2>1 DEF Registered
  <2>10. disc' = [disc EXCEPT ![c] = Start(s)]
    BY <1>3 DEF s
  <2> QED
    BY <1>1, <2>1, <2>3, <2>4, <2>5, <2>7, <2>8, <2>9, <2>10, CallKeeps
<1> QED
  BY <1>2, <1>3 DEF Connect

\* Setup is started, once; or what lingers makes the call fail.
LEMMA CloseStaleKeeps ==
    ASSUME IInv, NEW c \in Conns, CloseStale(c)
    PROVE  Sound
<1>1. call[c].step = "stale" /\ UNCHANGED <<dev, disc, events, crashed>>
  BY DEF CloseStale, CallAt
<1>2. CASE ReturnCall(c, "lingering") /\ be' = Cleared(c) /\ UNCHANGED cn
  BY <1>1, <1>2, ReturnKeeps
<1>3. CASE GotoCall(c, "wait") /\ cn' = [cn EXCEPT ![c].setup = "dial"] /\ UNCHANGED be
  <2> DEFINE p == [call[c] EXCEPT !.step = "wait"]
             y == [cn[c] EXCEPT !.setup = "dial"]
  <2>1. call' = [call EXCEPT ![c] = p] /\ p \in Call /\ p.step = "wait"
    BY <1>3, GotoFields DEF GotoCall
  <2>2. call'[c].step = "wait"
    BY <2>1 DEF IInv, TypeOK
  <2> HIDE DEF p
  <2>3. cn[c] \in Connection /\ be' \in Fields /\ c \in Callers /\ <<>> \in Seq(Conns)
    BY <1>3, CallFields
  <2>4. cn[c].setup = "off"
    BY <1>1 DEF IInv, PublishedInv
  <2>5. cn' = [cn EXCEPT ![c] = y] /\ y \in Connection
    BY <1>3, <2>3 DEF Connection, Setup
  <2>6. Launched(cn[c], y)
    BY <2>3, <2>4 DEF Launched, Connection
  <2> HIDE DEF y
  <2>7. Undisturbed(c)' => Undisturbed(c)
    BY <1>1, <1>3, <2>2 DEF Undisturbed
  <2>8. p.step \in Registered
    BY <2>1 DEF Registered
  <2> QED
    BY <1>1, <1>3, <2>1, <2>3, <2>5, <2>6, <2>7, <2>8, CallKeeps
<1> QED
  BY <1>2, <1>3 DEF CloseStale

\* The cancelled call disconnects its attempt and joins it.
LEMMA CanceledKeeps ==
    ASSUME IInv, NEW c \in Conns, Canceled(c) \/ Join(c) \/ Failed(c)
    PROVE  Sound
<1>1. be \in Fields
  BY CallFields
<1>2. CASE Canceled(c)
  BY <1>1, <1>2, GiveUpKeeps DEF Canceled, CallAt
<1>3. CASE Join(c)
  BY <1>3, ReturnKeeps DEF Join, CallAt
<1>4. CASE Failed(c)
  BY <1>4, ReturnKeeps DEF Failed, CallAt
<1> QED
  BY <1>2, <1>3, <1>4

\* The result of setup is looked at.
LEMMA SetupReturnsKeeps ==
    ASSUME IInv, NEW c \in Conns, SetupReturns(c)
    PROVE  Sound
<1>1. call[c].step = "wait" /\ UNCHANGED <<dev, cn, events, crashed>>
  BY DEF SetupReturns, CallAt
<1>2. cn[c] \in Connection /\ cn' = [cn EXCEPT ![c] = cn[c]] /\ Launched(cn[c], cn[c]) /\ be \in Fields
  BY <1>1, CallFields
<1>3. CASE disc' = [disc EXCEPT ![c] = Start(<<c>>)] /\ GotoCall(c, "fail") /\ UNCHANGED be
  BY <1>1, <1>2, <1>3, GiveUpKeeps
<1>4. CASE be' = Cleared(c) /\ ReturnCall(c, "failed") /\ UNCHANGED disc
  BY <1>1, <1>4, ReturnKeeps
<1>5. CASE cn[c].setup = "ok" /\ GotoCall(c, "check") /\ UNCHANGED <<be, disc>>
  BY <1>1, <1>2, <1>5, ProceedKeeps
<1> QED
  BY <1>3, <1>4, <1>5 DEF SetupReturns

\* An attempt that is no longer registered is superseded.
LEMMA CheckKeeps ==
    ASSUME IInv, NEW c \in Conns, Check(c)
    PROVE  Sound
<1>1. call[c].step = "check" /\ UNCHANGED <<be, dev, cn, events, crashed>>
  BY DEF Check, CallAt
<1>2. /\ cn[c] \in Connection /\ cn' = [cn EXCEPT ![c] = cn[c]] /\ Launched(cn[c], cn[c])
      /\ be' \in Fields
  BY <1>1, CallFields
<1>3. CASE be.connecting # c /\ Superseded(c)
  BY <1>1, <1>2, <1>3, GiveUpKeeps DEF Superseded
<1>4. CASE GotoCall(c, "monitor") /\ UNCHANGED disc
  <2>1. cn[c].setup = "ok"
    BY <1>1 DEF IInv, PublishedInv
  <2> QED
    BY <1>1, <1>2, <1>4, <2>1, ProceedKeeps
<1> QED
  BY <1>3, <1>4 DEF Check

\* The monitor starts, or the attempt fails for it.
LEMMA StartMonitorKeeps ==
    ASSUME IInv, NEW c \in Conns, StartMonitor(c)
    PROVE  Sound
<1>1. call[c].step = "monitor" /\ UNCHANGED <<dev, events, crashed>>
  BY DEF StartMonitor, CallAt
<1>2. cn[c] \in Connection /\ be \in Fields
  BY CallFields
<1>3. CASE /\ be' = [be EXCEPT !.monitor = c] /\ cn' = [cn EXCEPT ![c].monitor = "run"]
           /\ GotoCall(c, "publish") /\ UNCHANGED disc
  <2> DEFINE y == [cn[c] EXCEPT !.monitor = "run"]
  <2>1. cn' = [cn EXCEPT ![c] = y] /\ y \in Connection
    BY <1>2, <1>3 DEF Connection
  <2>2. Launched(cn[c], y)
    BY <1>2 DEF Launched, Connection
  <2> HIDE DEF y
  <2>3. be' \in Fields /\ be'.active = be.active /\ be'.connecting = be.connecting
    BY <1>2, <1>3 DEF Fields
  <2>4. cn[c].setup = "ok"
    BY <1>1 DEF IInv, PublishedInv
  <2> QED
    BY <1>1, <1>3, <2>1, <2>2, <2>3, <2>4, ProceedKeeps
<1>4. CASE /\ be' = [be EXCEPT !.monitor = None]
           /\ disc' = [disc EXCEPT ![c] = Start(<<c>>)]
           /\ GotoCall(c, "fail") /\ UNCHANGED cn
  <2>1. be' \in Fields /\ be'.active = be.active /\ be'.connecting = be.connecting
    BY <1>2, <1>4 DEF Fields
  <2> QED
    BY <1>1, <1>4, <2>1, GiveUpKeeps
<1> QED
  BY <1>3, <1>4 DEF StartMonitor

\* stopMonitorFor leaves the connections of the backend alone.
LEMMA StopMonitorFields ==
    ASSUME IInv, NEW c \in Conns
    PROVE  /\ StopMonitorFor(c) \in Fields /\ StopMonitorFor(c).active = be.active
           /\ StopMonitorFor(c).connecting = be.connecting
<1> DEFINE v == IF be.monitor = c THEN None ELSE be.monitor
<1>1. be \in Fields
  BY CallFields
<1>2. v \in Conns \cup {None}
  BY <1>1 DEF Fields
<1>3. StopMonitorFor(c) = [be EXCEPT !.monitor = v]
  BY DEF StopMonitorFor
<1> HIDE DEF v
<1> QED
  BY <1>1, <1>2, <1>3 DEF Fields

\* Only a registered attempt, which nobody has asked to end, is published.
LEMMA PublishKeeps ==
    ASSUME IInv, NEW c \in Conns, Publish(c)
    PROVE  Sound
<1>1. call[c].step = "publish" /\ UNCHANGED <<dev, cn, events, crashed>>
  BY DEF Publish, CallAt
<1>2. CASE be.connecting # c /\ be' = StopMonitorFor(c) /\ Superseded(c)
  BY <1>1, <1>2, StopMonitorFields, GiveUpKeeps DEF Superseded
<1>3. CASE /\ be.connecting = c /\ be' = [be EXCEPT !.connecting = None, !.active = c]
           /\ GotoCall(c, "announce") /\ UNCHANGED disc
  <2> DEFINE p == [call[c] EXCEPT !.step = "announce"]
  <2>1. call' = [call EXCEPT ![c] = p] /\ p \in Call /\ p.step = "announce"
    BY <1>3, GotoFields DEF GotoCall
  <2>2. call'[c].step = "announce"
    BY <2>1 DEF IInv, TypeOK
  <2> HIDE DEF p
  <2>3. /\ cn[c] \in Connection /\ cn' = [cn EXCEPT ![c] = cn[c]] /\ Launched(cn[c], cn[c])
        /\ be \in Fields /\ c \in Callers /\ None \notin Conns /\ <<>> \in Seq(Conns)
    BY <1>1, CallFields
  <2>4. be' \in Fields /\ be'.active = c /\ be'.connecting = None
    BY <1>3, <2>3 DEF Fields
  <2>5. cn[c].setup = "ok" /\ Undisturbed(c)
    BY <1>1, <1>3 DEF IInv, PublishedInv, Undisturbed
  <2>6. ~Undisturbed(c)'
    BY <2>2 DEF Undisturbed
  <2> QED
    BY <1>1, <1>3, <2>1, <2>3, <2>4, <2>5, <2>6, CallKeeps
<1> QED
  BY <1>2, <1>3 DEF Publish

\* A superseded call returns.
LEMMA SupersededReturnsKeeps ==
    ASSUME IInv, NEW c \in Conns, SupersededReturns(c)
    PROVE  Sound
<1>1. call[c].step = "supersede"
  BY DEF SupersededReturns, CallAt
<1>2. be.connecting # c
  BY <1>1 DEF IInv, RegisteredInv
<1> QED
  BY <1>1, <1>2, ReturnKeeps DEF SupersededReturns

-----------------------------------------------------------------------------
(* Steps that report.                                                       *)

\* One more event is sent for one connection.
LEMMA SentAppend ==
    ASSUME IInv, NEW c \in Conns, NEW t \in EventTypes,
           events' = [events EXCEPT ![c] = Append(@, t)]
    PROVE  /\ events' \in [Conns -> Seq(EventTypes)]
           /\ \A d \in Conns, u \in EventTypes : Sent(d, u)' <=> Sent(d, u) \/ (d = c /\ u = t)
<1> DEFINE e == Append(events[c], t)
<1>1. events \in [Conns -> Seq(EventTypes)]
  BY DEF IInv, TypeOK
<1>2. e \in Seq(EventTypes) /\ Len(e) = Len(events[c]) + 1 /\ Len(events[c]) \in Nat
      /\ e[Len(events[c]) + 1] = t /\ \A i \in 1..Len(events[c]) : e[i] = events[c][i]
  BY <1>1
<1>3. events' = [events EXCEPT ![c] = e]
  OBVIOUS
<1> HIDE DEF e
<1>4. events' \in [Conns -> Seq(EventTypes)] /\ \A d \in Conns : events'[d] = IF d = c THEN e ELSE events[d]
  BY <1>1, <1>2, <1>3
<1>5. ASSUME NEW u \in EventTypes PROVE Sent(c, u)' <=> Sent(c, u) \/ u = t
  <2>1. Sent(c, u)' <=> \E i \in 1..Len(e) : e[i] = u
    BY <1>4 DEF Sent
  <2>2. 1..Len(e) = 1..Len(events[c]) \cup {Len(events[c]) + 1}
    BY <1>2
  <2> QED
    BY <1>2, <2>1, <2>2 DEF Sent
<1>6. ASSUME NEW d \in Conns, d # c, NEW u \in EventTypes PROVE Sent(d, u)' <=> Sent(d, u)
  BY <1>4, <1>6 DEF Sent
<1> QED
  BY <1>4, <1>5, <1>6

\* Reporting and monitoring leave everything but the events, the monitors and the end of the
\* watch alone.
LEMMA ReportKeeps ==
    ASSUME IInv, NEW c \in Conns, NEW y \in Connection, cn' = [cn EXCEPT ![c] = y],
           \A f \in {"setup", "auth", "activeClose", "closed", "reason", "net", "hook", "owned",
                     "ctl"} : y[f] = cn[c][f],
           be' \in Fields, be'.active = be.active, be'.connecting = be.connecting,
           events' \in [Conns -> Seq(EventTypes)],
           \A d \in Conns : /\ Announced(d)' <=> Announced(d)
                            /\ d # c => (Sent(d, "disconnected")' <=> Sent(d, "disconnected")),
           Sent(c, "disconnected") => Sent(c, "disconnected")',
           Sent(c, "disconnected")' => Announced(c) /\ cn[c].closed,
           y.watch => cn[c].watch /\ ~Sent(c, "disconnected")', ~crashed,
           UNCHANGED <<dev, call, disc, crashed>>
    PROVE  Sound
<1>1. cn \in [Conns -> Connection] /\ be \in Fields
  BY CallFields DEF IInv, TypeOK
<1>2. cn' \in [Conns -> Connection] /\ \A d \in Conns : cn'[d] = IF d = c THEN y ELSE cn[d]
  BY <1>1
<1>3. TypeOK'
  BY <1>2 DEF IInv, TypeOK, Fields
<1>4. DeviceInv'
  <2>1. (Coherent(y) <=> Coherent(cn[c])) /\ (Holds(y) <=> Holds(cn[c]))
    BY DEF Coherent, Holds
  <2> QED
    BY <1>2, <2>1 DEF IInv, DeviceInv
<1>5. BusyInv' /\ RegisteredInv'
  BY DEF IInv, BusyInv, RegisteredInv
<1>6. \A d \in Conns : (Undisturbed(d)' <=> Undisturbed(d)) /\ (Published(d)' <=> Published(d))
  BY DEF Undisturbed, Published
<1>7. \A k \in Callers : Targets(k)' = Targets(k) /\ Target(k)' = Target(k)
  BY DEF Targets, Target
<1>8. \A d \in Conns : \A f \in {"setup", "auth", "activeClose", "closed", "reason"} :
        cn'[d][f] = cn[d][f]
  BY <1>2
<1>9. UndisturbedInv'
  BY <1>6, <1>7, <1>8 DEF IInv, UndisturbedInv
<1>10. PublishedInv'
  BY <1>6, <1>7, <1>8 DEF IInv, PublishedInv
<1>11. EventInv'
  BY <1>2, <1>8 DEF IInv, EventInv
<1>12. \A d \in Conns : Asked(d)' = Asked(d) /\ Cause(d)' = Cause(d)
  BY <1>8 DEF Asked, Cause
<1>13. \A d \in Conns \ {c} : Phase(d)' = Phase(d)
  BY DEF Phase
<1>14. Moves(c)
  <2>1. CASE Sent(c, "disconnected")' <=> Sent(c, "disconnected")
    <3>1. Phase(c)' = Phase(c)
      BY <2>1 DEF Phase
    <3> QED
      BY <1>12, <3>1 DEF Moves
  <2>2. CASE Sent(c, "disconnected")' /\ ~Sent(c, "disconnected")
    <3>1. Phase(c) = "up" /\ Phase(c)' = "ended"
      BY <2>2 DEF Phase
    <3>2. cn[c].reason # "none"
      BY <2>2 DEF IInv, DeviceInv, Coherent
    <3>3. Cause(c) # "none"
      BY <2>2, <3>2 DEF Cause
    <3> QED
      BY <1>12, <3>1, <3>3 DEF Moves
  <2> QED
    BY <2>1, <2>2
<1>15. Contract!Next \/ UNCHANGED Contract!vars
  BY <1>12, <1>13, <1>14, ContractStep
<1> QED
  BY <1>3, <1>4, <1>5, <1>9, <1>10, <1>11, <1>15 DEF IInv, Sound

\* monitorClose reports a closed session, once.
LEMMA MonitorCloseKeeps ==
    ASSUME IInv, NEW c \in Conns, MonitorClose(c)
    PROVE  Sound
<1> DEFINE x == cn[c]
           y == [x EXCEPT !.watch = FALSE]
<1>1. /\ ~crashed /\ x.watch /\ x.closed /\ be' = StopMonitorFor(c) /\ UNCHANGED <<dev, call, disc, crashed>>
      /\ events' = [events EXCEPT ![c] = Append(@, "disconnected")]
      /\ cn' = [cn EXCEPT ![c] = y]
  BY DEF MonitorClose
<1>2. x \in Connection
  BY CallFields
<1>3. y \in Connection
  BY <1>2 DEF Connection
<1>4. ~y.watch /\ \A f \in {"setup", "auth", "activeClose", "closed", "reason", "net", "hook",
                            "owned", "ctl"} : y[f] = x[f]
  BY <1>2 DEF Connection
<1> HIDE DEF y
<1>5. be' \in Fields /\ be'.active = be.active /\ be'.connecting = be.connecting
  BY <1>1, StopMonitorFields
<1>6. "disconnected" \in EventTypes /\ "connected" \in EventTypes
  BY DEF EventTypes
<1>7. /\ events' \in [Conns -> Seq(EventTypes)]
      /\ \A d \in Conns : /\ Announced(d)' <=> Announced(d)
                          /\ d # c => (Sent(d, "disconnected")' <=> Sent(d, "disconnected"))
      /\ Sent(c, "disconnected")'
  BY <1>1, <1>6, SentAppend DEF Announced
<1>8. Announced(c)
  BY <1>1 DEF IInv, EventInv
<1> QED
  BY <1>1, <1>3, <1>4, <1>5, <1>7, <1>8, ReportKeeps

\* A change of the network is forwarded, or dropped.
LEMMA ForwardChangeKeeps ==
    ASSUME IInv, NEW c \in Conns, ForwardChange(c)
    PROVE  Sound
<1> DEFINE x == cn[c]
<1>1. ~crashed /\ UNCHANGED <<be, dev, call, disc, crashed>>
  BY DEF ForwardChange
<1>2. x \in Connection /\ be' \in Fields
  BY <1>1, CallFields
<1>3. PICK m \in {"sent", "off"} : cn' = [cn EXCEPT ![c].monitor = m]
  BY DEF ForwardChange
<1> DEFINE y == [x EXCEPT !.monitor = m]
<1>4. cn' = [cn EXCEPT ![c] = y]
  BY <1>3
<1>5. y \in Connection
  BY <1>2 DEF Connection
<1>6. \A f \in {"setup", "auth", "activeClose", "closed", "reason", "net", "hook",
                "owned", "ctl", "watch"} : y[f] = x[f]
  BY <1>2 DEF Connection
<1> HIDE DEF y
<1>7. /\ events' \in [Conns -> Seq(EventTypes)]
      /\ \A d \in Conns : /\ Announced(d)' <=> Announced(d)
                          /\ Sent(d, "disconnected")' <=> Sent(d, "disconnected")
  <2>1. CASE UNCHANGED events
    BY <2>1 DEF IInv, TypeOK, Announced, Sent
  <2>2. CASE events' = [events EXCEPT ![c] = Append(@, "network_change")]
    <3>1. {"disconnected", "connected", "network_change"} \subseteq EventTypes
      BY DEF EventTypes
    <3> QED
      BY <2>2, <3>1, SentAppend DEF Announced
  <2> QED
    BY <2>1, <2>2 DEF ForwardChange
<1>8. (Sent(c, "disconnected") => Announced(c) /\ x.closed) /\ (x.watch => ~Sent(c, "disconnected"))
  BY DEF IInv, EventInv
<1> QED
  BY <1>1, <1>2, <1>4, <1>5, <1>6, <1>7, <1>8, ReportKeeps

\* The monitor of the backend is stopped.
LEMMA StopMonitorKeeps ==
    ASSUME IInv, NEW c \in Conns, StopMonitor(c)
    PROVE  Sound
<1> DEFINE x == cn[c]
           y == [x EXCEPT !.monitor = "off"]
<1>1. /\ ~crashed /\ be' = [be EXCEPT !.monitor = None] /\ cn' = [cn EXCEPT ![c] = y]
      /\ UNCHANGED <<dev, call, disc, events, crashed>>
  BY DEF StopMonitor
<1>2. x \in Connection /\ be \in Fields
  BY CallFields
<1>3. y \in Connection
  BY <1>2 DEF Connection
<1>4. \A f \in {"setup", "auth", "activeClose", "closed", "reason", "net", "hook",
                "owned", "ctl", "watch"} : y[f] = x[f]
  BY <1>2 DEF Connection
<1> HIDE DEF y
<1>5. be' \in Fields /\ be'.active = be.active /\ be'.connecting = be.connecting
  BY <1>1, <1>2 DEF Fields
<1>6. /\ events' \in [Conns -> Seq(EventTypes)]
      /\ \A d \in Conns : /\ Announced(d)' <=> Announced(d)
                          /\ Sent(d, "disconnected")' <=> Sent(d, "disconnected")
  BY <1>1 DEF IInv, TypeOK, Announced, Sent
<1>7. (Sent(c, "disconnected") => Announced(c) /\ x.closed) /\ (x.watch => ~Sent(c, "disconnected"))
  BY DEF IInv, EventInv
<1> QED
  BY <1>1, <1>3, <1>4, <1>5, <1>6, <1>7, ReportKeeps

\* The connection is announced and the call returns; it stays published.
LEMMA AnnounceKeeps ==
    ASSUME IInv, NEW c \in Conns, Announce(c)
    PROVE  Sound
<1> DEFINE x == cn[c]
           y == [x EXCEPT !.watch = TRUE]
           p == [step |-> "returned", ctx |-> "live", ret |-> "ok"]
<1>1. /\ call[c].step = "announce" /\ UNCHANGED <<be, dev, disc, crashed>>
      /\ events' = [events EXCEPT ![c] = Append(@, "connected")]
      /\ cn' = [cn EXCEPT ![c] = y] /\ call' = [call EXCEPT ![c] = p]
  BY DEF Announce, CallAt, ReturnCall
<1>2. /\ x \in Connection /\ cn \in [Conns -> Connection] /\ call \in [Conns -> Call]
      /\ p \in Call /\ p.step = "returned"
  BY DEF IInv, TypeOK, Call
<1> HIDE DEF p
<1>3. y \in Connection
  BY <1>2 DEF Connection
<1>4. \A f \in {"setup", "auth", "activeClose", "closed", "reason", "net", "hook",
                "owned", "ctl"} : y[f] = x[f]
  BY <1>2 DEF Connection
<1> HIDE DEF y
<1>5. cn' \in [Conns -> Connection] /\ \A d \in Conns : cn'[d] = IF d = c THEN y ELSE cn[d]
  BY <1>1, <1>2, <1>3
<1>6. call' \in [Conns -> Call] /\ \A d \in Conns : call'[d] = IF d = c THEN p ELSE call[d]
  BY <1>1, <1>2
<1>7. "disconnected" \in EventTypes /\ "connected" \in EventTypes
  BY DEF EventTypes
<1>8. /\ events' \in [Conns -> Seq(EventTypes)]
      /\ \A d \in Conns : /\ Announced(d)' <=> (Announced(d) \/ d = c)
                          /\ Sent(d, "disconnected")' <=> Sent(d, "disconnected")
  BY <1>1, <1>7, SentAppend DEF Announced
<1>9. TypeOK'
  BY <1>1, <1>5, <1>6, <1>8 DEF IInv, TypeOK
<1>10. DeviceInv'
  <2>1. (Coherent(y) <=> Coherent(x)) /\ (Holds(y) <=> Holds(x))
    BY <1>4 DEF Coherent, Holds
  <2> QED
    BY <1>1, <1>5, <2>1 DEF IInv, DeviceInv
<1>11. BusyInv' /\ RegisteredInv'
  BY <1>1, <1>6 DEF IInv, BusyInv, RegisteredInv
<1>12. \A d \in Conns : (Undisturbed(d)' => Undisturbed(d)) /\ (Published(d)' <=> Published(d))
  BY <1>1, <1>2, <1>6, <1>8 DEF Undisturbed, Published
<1>13. \A k \in Callers : Targets(k)' = Targets(k) /\ Target(k)' = Target(k)
  BY <1>1 DEF Targets, Target
<1>14. \A d \in Conns : \A f \in {"setup", "auth", "activeClose", "closed", "reason"} :
        cn'[d][f] = cn[d][f]
  BY <1>4, <1>5
<1>15. UndisturbedInv'
  BY <1>12, <1>13, <1>14 DEF IInv, UndisturbedInv
<1>16. PublishedInv'
  BY <1>1, <1>2, <1>6, <1>12, <1>13, <1>14 DEF IInv, PublishedInv
<1>17. EventInv'
  <2>1. ~Announced(c) /\ ~Sent(c, "disconnected")
    BY <1>1 DEF IInv, EventInv
  <2> QED
    BY <1>1, <1>2, <1>5, <1>6, <1>8, <1>14, <2>1 DEF IInv, EventInv
<1>18. \A d \in Conns \ {c} :
         Phase(d)' = Phase(d) /\ Asked(d)' = Asked(d) /\ Cause(d)' = Cause(d)
  BY <1>6, <1>8, <1>14 DEF Phase, Asked, Cause
<1>19. Moves(c)
  <2>1. ~Announced(c) /\ ~Sent(c, "disconnected")
    BY <1>1 DEF IInv, EventInv
  <2>2. Phase(c) = "trying" /\ Phase(c)' = "up"
    BY <1>1, <1>8, <2>1 DEF Phase
  <2>3. cn[c].reason = "local" => cn[c].activeClose
    BY <1>1 DEF IInv, PublishedInv, Published
  <2>4. Cause(c)' = "local" => Asked(c)' # "no"
    BY <1>8, <1>14, <2>3 DEF Cause, Asked
  <2>5. Asked(c)' \in {"no", "asked", "cut"} /\ Cause(c)' \in {"none", "local", "loss"}
    BY DEF Cause, Asked
  <2> QED
    BY <2>2, <2>4, <2>5 DEF Moves
<1>20. Contract!Next \/ UNCHANGED Contract!vars
  BY <1>1, <1>18, <1>19, ContractStep
<1> QED
  BY <1>9, <1>10, <1>11, <1>15, <1>16, <1>17, <1>20 DEF IInv, Sound

-----------------------------------------------------------------------------
(* The theorems.                                                            *)

\* Nothing has happened yet.
LEMMA InvInit == Init => IInv
<1> SUFFICES ASSUME Init PROVE IInv
  OBVIOUS
<1>1. NewConnection \in Connection /\ Coherent(NewConnection) /\ ~Holds(NewConnection)
  BY DEF NewConnection, Connection, Coherent, Holds, BeforeHook, Setup, Reasons
<1>2. /\ ~NewConnection.activeClose /\ NewConnection.reason = "none" /\ ~NewConnection.watch
      /\ NewConnection.setup = "off"
  BY DEF NewConnection
<1>3. NoDisconnect \in Disconnecting /\ NoDisconnect.step = "idle" /\ NoDisconnect.todo = <<>>
  BY DEF NoDisconnect, Disconnecting
<1>4. /\ \A c \in Conns : cn[c] = NewConnection /\ events[c] = <<>> /\ call[c].step = "idle"
      /\ \A k \in Callers : disc[k] = NoDisconnect
  BY DEF Init
<1>5. \A c \in Conns : \A t \in EventTypes : ~Sent(c, t)
  BY <1>4 DEF Sent
<1>6. TypeOK
  <2>1. be \in [active : Conns \cup {None}, connecting : Conns \cup {None},
                monitor : Conns \cup {None}] /\ dev \in Conns \cup {None} /\ crashed \in BOOLEAN
    BY DEF Init
  <2>2. cn \in [Conns -> Connection] /\ disc \in [Callers -> Disconnecting]
    BY <1>1, <1>3 DEF Init
  <2>3. call \in [Conns -> Call] /\ events \in [Conns -> Seq(EventTypes)]
    BY DEF Init, Call
  <2> QED
    BY <2>1, <2>2, <2>3 DEF TypeOK
<1>7. DeviceInv /\ BusyInv
  BY <1>1, <1>3, <1>4 DEF DeviceInv, BusyInv
<1>8. RegisteredInv
  BY TunnelAssumption DEF Init, RegisteredInv
<1>9. UndisturbedInv
  BY <1>2, <1>3, <1>4 DEF UndisturbedInv, Targets
<1>10. \A c \in Conns : ~Announced(c) /\ ~Sent(c, "disconnected") /\ ~Published(c)
  BY <1>4, <1>5 DEF Announced, Published, EventTypes
<1>11. PublishedInv /\ EventInv
  <2>1. \A c \in Conns : be.active # c
    BY TunnelAssumption DEF Init
  <2> QED
    BY <1>2, <1>4, <1>10, <2>1 DEF PublishedInv, EventInv
<1> QED
  BY <1>6, <1>7, <1>8, <1>9, <1>11 DEF IInv

\* Every step of every goroutine keeps the invariant and is a step of the contract, or none.
LEMMA InvNext == IInv /\ [Next]_vars => Sound
<1> SUFFICES ASSUME IInv, [Next]_vars PROVE Sound
  OBVIOUS
<1>1. CASE BackendDisconnect
  BY <1>1, BackendDisconnectKeeps
<1>2. CASE DrainCanceled
  <2>1. Other \in Callers
    BY DEF Callers
  <2> QED
    BY <1>2, <2>1, DrainKeeps DEF DrainCanceled, At
<1>3. ASSUME NEW k \in Callers, DisconnectStep(k) PROVE Sound
  <2>1. CASE Drain(k)
    <3>1. disc[k].step = "drain" /\ UNCHANGED <<be, dev, call, events, crashed>> /\ Finish(k, FALSE)
          /\ (cn' = cn \/ cn' = [cn EXCEPT ![Target(k)].net = FALSE])
      BY <2>1 DEF Drain, At
    <3> QED
      BY <3>1, DrainKeeps
  <2> QED
    BY <1>3, <2>1, MarkKeeps, HangUpAuthKeeps, CloseLocallyKeeps DEF DisconnectStep
<1>4. ASSUME NEW c \in Conns, Connect(c) \/ Cancel(c) \/ CallStep(c) PROVE Sound
  BY <1>4, ConnectKeeps, CancelKeeps, CloseStaleKeeps, CanceledKeeps, SetupReturnsKeeps, CheckKeeps,
     StartMonitorKeeps, PublishKeeps, SupersededReturnsKeeps, AnnounceKeeps DEF CallStep
<1>5. ASSUME NEW c \in Conns, SetupStep(c) \/ Login(c) PROVE Sound
  BY <1>5, DialKeeps, LoginKeeps, NewSessionKeeps, CreateDeviceKeeps, ConfigureKeeps,
     SetCloseHookKeeps, StartWorkersKeeps, StartChannelsKeeps, AwaitDtlsKeeps DEF SetupStep
<1>6. ASSUME NEW c \in Conns, \/ WindDown(c) \/ TlsEnds(c) \/ DtlsEnds(c) \/ DeviceFails(c)
                              \/ UnderlayChanges(c)
      PROVE  Sound
  BY <1>6, TlsEndsKeeps, TlsClosesKeeps, DtlsSettlesKeeps, PacketsStopKeeps, CloseManagerKeeps,
     CloseDeviceKeeps, DrainedKeeps, DtlsEndsKeeps, DeviceFailsKeeps, UnderlayChangesKeeps
     DEF WindDown
<1>7. ASSUME NEW c \in Conns, Reporter(c) PROVE Sound
  BY <1>7, MonitorCloseKeeps, ForwardChangeKeeps, StopMonitorKeeps DEF Reporter
<1>8. CASE UNCHANGED vars
  BY <1>8, PanicStep DEF vars
<1> QED
  BY <1>1, <1>2, <1>3, <1>4, <1>5, <1>6, <1>7, <1>8 DEF Next

\* The invariant holds in every state of every behaviour.
LEMMA Invariance == Spec => []IInv
<1>1. IInv /\ [Next]_vars => IInv'
  BY InvNext DEF Sound
<1> QED
  BY <1>1, InvInit, PTL DEF Spec

\* Every state of the connections, the backend and the calls is one the types describe.
THEOREM TypeCorrect == Spec => []TypeOK
<1>1. IInv => TypeOK
  BY DEF IInv
<1> QED
  BY <1>1, Invariance, PTL

\* Routes and addresses are installed only while the device is the one of their connection,
\* for any number of connections, however setup, the controller and Disconnect interleave.
THEOREM ConfigAlwaysOwnsDevice == Spec => []ConfigOwnsDevice
<1>1. IInv => ConfigOwnsDevice
  <2> SUFFICES ASSUME IInv, NEW c \in Conns, cn[c].net PROVE dev = c
    BY DEF ConfigOwnsDevice
  <2>1. Coherent(cn[c]) /\ (Holds(cn[c]) => dev = c)
    BY DEF IInv, DeviceInv
  <2> QED
    BY <2>1 DEF Coherent, Holds
<1> QED
  BY <1>1, Invariance, PTL

\* Backend.Connect never leaves its attempt registered when it returns, whichever of its
\* error paths, its cancellation or a Disconnect ends it.
THEOREM AttemptAlwaysReleased == Spec => []AttemptReleased
<1>1. IInv => AttemptReleased
  <2> SUFFICES ASSUME IInv, be.connecting # None PROVE call[be.connecting].step # "returned"
    BY DEF AttemptReleased
  <2>1. be.connecting \in Conns
    BY DEF IInv, TypeOK
  <2> QED
    BY <2>1 DEF IInv, RegisteredInv
<1> QED
  BY <1>1, Invariance, PTL

\* Backend keeps the safety part of its contract: what the supervisor is told of a connection
\* comes in order and once, an end is reported only of a session that has ended, and it is
\* called a loss only if nobody had asked for it, whichever goroutine got there first.
THEOREM KeepsContract == Spec => Contract!Init /\ [][Contract!Next]_(Contract!vars)
<1>1. Init => Contract!Init
  <2> SUFFICES ASSUME Init PROVE Contract!Init
    OBVIOUS
  <2>1. \A c \in Conns : events[c] = <<>> /\ call[c].step = "idle"
    BY DEF Init
  <2>2. \A c \in Conns : ~Announced(c) /\ ~Sent(c, "disconnected")
    BY <2>1 DEF Announced, Sent
  <2>3. \A c \in Conns : Phase(c) = "idle" /\ Asked(c) = "no" /\ Cause(c) = "none"
    BY <2>1, <2>2 DEF Phase, Asked, Cause
  <2>4. crashed = FALSE
    BY DEF Init
  <2> QED
    BY <2>3, <2>4 DEF Contract!Init
<1>2. IInv /\ [Next]_vars => [Contract!Next]_(Contract!vars)
  BY InvNext DEF Sound
<1> QED
  BY <1>1, <1>2, Invariance, PTL DEF Spec

=============================================================================
