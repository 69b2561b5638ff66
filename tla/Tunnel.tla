------------------------------- MODULE Tunnel -------------------------------
(***************************************************************************)
(* One VPN connection from Backend.Connect to the last packet worker:      *)
(* internal/vpn/anyconnect.Backend, rpc.Connection, SetupTunnelWithClient, *)
(* TunnelController, ConnSession, the TLS and DTLS channels and the        *)
(* underlay monitor.                                                       *)
(*                                                                         *)
(* The goroutines are the caller of Backend.Connect, the one it starts for *)
(* rpc.Connection.Connect (setup), another caller of Backend.Disconnect    *)
(* (Service.Close, a deletion), the TLS channel, the DTLS channel, the     *)
(* dynamic route worker, the packet workers, the runner of                 *)
(* TunnelController.Close, monitorClose and watchUnderlay.  Everything is  *)
(* per connection except the fields of Backend and the TUN device, whose   *)
(* name is fixed.                                                          *)
(*                                                                         *)
(* Left out: payloads (Datapath), what a configuration consists of and a   *)
(* manager that fails to remove it (NetworkJournal), and the lifecycle,    *)
(* TLS and DTLS state strings, which are only shown.                       *)
(***************************************************************************)
EXTENDS Naturals, Sequences, FiniteSets

CONSTANTS
    MaxConns,   \* bound on the calls of Backend.Connect
    Faults,     \* what may go wrong with each of them, subsets of AllFaults
    Other,      \* the goroutine that calls Backend.Disconnect on its own
    None

Conns == 1..MaxConns
AllFaults == {"setup", "cancel", "loss", "device", "dtls", "underlay"}

ASSUME TunnelAssumption ==
    /\ MaxConns \in Nat
    /\ None \notin Conns /\ Other \notin Conns \cup {None}
    /\ Faults \in [Conns -> SUBSET AllFaults]

VARIABLES
    be,         \* the fields of Backend
    dev,        \* the connection whose TUN device exists
    cn,         \* the connections
    call,       \* Backend.Connect
    disc,       \* calls of Connection.Disconnect, by the goroutine that makes them
    events,     \* what Backend sent for each connection, oldest first
    crashed     \* a goroutine has panicked: the process is gone

vars == <<be, dev, cn, call, disc, events, crashed>>

-----------------------------------------------------------------------------
Callers == Conns \cup {Other}
Reasons == {"none", "local", "remote", "device", "setup", "unknown"}

Setup == {"off", "dial", "login", "session", "device", "network", "start", "workers",
          "channels", "dtls", "ok", "err", "stuck"}

\* auth says whether Auth.Conn points to the socket; the TLS channel keeps a pointer
\* of its own.  csess is Session.CSess # nil, owned a cSess.TunnelDone() # nil.
Connection ==
    [setup : Setup, auth : BOOLEAN, sock : {"none", "open", "closed"},
     csess : BOOLEAN, activeClose : BOOLEAN, closed : BOOLEAN, reason : Reasons,
     net : BOOLEAN, hook : BOOLEAN, owned : BOOLEAN, workers : BOOLEAN,
     ctl : {"off", "stop", "device", "wait", "done"},
     tls : {"off", "run", "exit", "gone"}, dtls : {"off", "dial", "ready", "gone"},
     monitor : {"off", "run", "got", "sent"}, watch : BOOLEAN]

NewConnection ==
    [setup |-> "off", auth |-> FALSE, sock |-> "none", csess |-> FALSE,
     activeClose |-> FALSE, closed |-> FALSE, reason |-> "none", net |-> FALSE,
     hook |-> FALSE, owned |-> FALSE, workers |-> FALSE, ctl |-> "off", tls |-> "off",
     dtls |-> "off", monitor |-> "off", watch |-> FALSE]

Call == [step : {"idle", "stale", "wait", "cancel", "join", "fail", "check", "monitor",
                 "publish", "supersede", "announce", "returned"},
         ctx : {"live", "done"},
         ret : {"none", "ok", "busy", "lingering", "canceled", "failed"}]

Disconnecting == [step : {"idle", "mark", "hangup", "close", "drain"},
                  todo : Seq(Conns), err : BOOLEAN]
NoDisconnect == [step |-> "idle", todo |-> <<>>, err |-> FALSE]

EventTypes == {"connected", "network_change", "disconnected"}

TypeOK ==
    /\ be \in [active : Conns \cup {None}, connecting : Conns \cup {None},
               monitor : Conns \cup {None}]
    /\ dev \in Conns \cup {None}
    /\ cn \in [Conns -> Connection] /\ call \in [Conns -> Call]
    /\ disc \in [Callers -> Disconnecting]
    /\ events \in [Conns -> Seq(EventTypes)]
    /\ crashed \in BOOLEAN

Init ==
    /\ be = [active |-> None, connecting |-> None, monitor |-> None]
    /\ dev = None
    /\ cn = [c \in Conns |-> NewConnection]
    /\ call = [c \in Conns |-> [step |-> "idle", ctx |-> "live", ret |-> "none"]]
    /\ disc = [k \in Callers |-> NoDisconnect]
    /\ events = [c \in Conns |-> <<>>]
    /\ crashed = FALSE

-----------------------------------------------------------------------------
(* ConnSession.                                                            *)

\* Mutant: the last reason wins.
RecordCloseLast(x, r) == [x EXCEPT !.reason = IF x.activeClose THEN "local" ELSE r]

\* The first reason is kept; once Disconnect was called it is the local one.
RecordClose(x, r) ==
    IF x.reason # "none" THEN x
    ELSE [x EXCEPT !.reason = IF x.activeClose THEN "local" ELSE r]

\* ConnSession.Close, once: up to the hook, which runs TunnelController.Close in the
\* goroutine that closes.  DSess is closed only if DTLS is connected by now.
CloseSession(x, r) ==
    IF x.closed THEN x
    ELSE [RecordClose(x, r) EXCEPT
            !.closed = TRUE, !.csess = FALSE,
            !.dtls = IF @ = "ready" THEN "gone" ELSE @,
            !.ctl = IF x.hook THEN "stop" ELSE @]

\* A caller of Close returns when the one that runs the hook has finished it.
CloseReturns(x) == x.ctl \notin {"stop", "device"}

\* auth.Client.Close.
HangUp(x) == [x EXCEPT !.auth = FALSE, !.sock = IF x.auth THEN "closed" ELSE @]

-----------------------------------------------------------------------------
(* Connection.Disconnect(ctx): activeClose, Auth.Close, CSess.Close, drain. *)

Target(k) == Head(disc[k].todo)
Start(targets) == [step |-> IF targets = <<>> THEN "idle" ELSE "mark",
                   todo |-> targets, err |-> FALSE]
\* What is left of a connection that may be nil.
Present(c) == IF c = None THEN <<>> ELSE <<c>>
At(k, step) == ~crashed /\ disc[k].step = step

\* The next connection of the same call, or the end of it; err is kept.
Finish(k, err) ==
    disc' = [disc EXCEPT ![k] =
               [step |-> IF Len(@.todo) > 1 THEN "mark" ELSE "idle",
                todo |-> Tail(@.todo), err |-> @.err \/ err]]

Mark(k) ==
    /\ At(k, "mark")
    /\ cn' = [cn EXCEPT ![Target(k)].activeClose = TRUE]
    /\ disc' = [disc EXCEPT ![k].step = "hangup"]
    /\ UNCHANGED <<be, dev, call, events, crashed>>

\* Closing a tls.Conn a second time is an error.  Without a CSess that is all.
HangUpAuth(k) ==
    /\ At(k, "hangup")
    /\ LET x == cn[Target(k)]
           err == x.auth /\ x.sock = "closed"
       IN /\ cn' = [cn EXCEPT ![Target(k)] = HangUp(x)]
          /\ IF x.csess THEN disc' = [disc EXCEPT ![k].step = "close", ![k].err = @ \/ err]
             ELSE Finish(k, err)
    /\ UNCHANGED <<be, dev, call, events, crashed>>

CloseLocally(k) ==
    /\ At(k, "close")
    /\ cn' = [cn EXCEPT ![Target(k)] = CloseSession(RecordClose(@, "local"), "local")]
    /\ disc' = [disc EXCEPT ![k].step = "drain"]
    /\ UNCHANGED <<be, dev, call, events, crashed>>

\* The controller has drained; or there is none, or it takes more than 15 seconds:
\* the manager is closed from here.
Drain(k) ==
    /\ At(k, "drain") /\ CloseReturns(cn[Target(k)])
    /\ LET x == cn[Target(k)]
       IN cn' = IF x.owned /\ x.ctl = "done" THEN cn
                ELSE [cn EXCEPT ![Target(k)].net = FALSE]
    /\ Finish(k, FALSE)
    /\ UNCHANGED <<be, dev, call, events, crashed>>

\* The context of Backend.Disconnect ends first.
DrainCanceled ==
    /\ At(Other, "drain") /\ CloseReturns(cn[Target(Other)])
    /\ cn[Target(Other)].owned /\ cn[Target(Other)].ctl # "done"
    /\ Finish(Other, TRUE)
    /\ UNCHANGED <<be, dev, cn, call, events, crashed>>

\* Mutant: without the nil checks.
BackendDisconnectNil ==
    /\ At(Other, "idle")
    /\ be.active # None \/ be.connecting # None
    /\ disc' = [disc EXCEPT ![Other] = Start(<<be.connecting, be.active>>)]
    /\ be' = [active |-> None, connecting |-> None, monitor |-> None]
    /\ UNCHANGED <<dev, cn, call, events, crashed>>

\* Backend.Disconnect: both connections are taken over under b.mu.
BackendDisconnect ==
    /\ At(Other, "idle")
    /\ be.active # None \/ be.connecting # None
    /\ disc' = [disc EXCEPT ![Other] = Start(Present(be.connecting) \o Present(be.active))]
    /\ be' = [active |-> None, connecting |-> None, monitor |-> None]
    /\ UNCHANGED <<dev, cn, call, events, crashed>>

-----------------------------------------------------------------------------
(* Backend.Connect.                                                        *)

CallAt(c, step) == ~crashed /\ call[c].step = step
Idle(c) == disc[c].step = "idle"
GotoCall(c, step) == call' = [call EXCEPT ![c].step = step]
ReturnCall(c, ret) == call' = [call EXCEPT ![c] = [step |-> "returned", ctx |-> "live", ret |-> ret]]
Cleared(c) == [be EXCEPT !.connecting = IF @ = c THEN None ELSE @]

\* commandMu lets one call run at a time.
Connect(c) ==
    /\ CallAt(c, "idle") /\ \A d \in 1..(c - 1) : call[d].step # "idle"
    /\ \A d \in Conns : call[d].step \in {"idle", "returned"}
    /\ IF be.connecting # None
       THEN ReturnCall(c, "busy") /\ UNCHANGED <<be, disc>>
       ELSE /\ be' = [be EXCEPT !.active = None, !.connecting = c]
            /\ disc' = [disc EXCEPT ![c] = Start(Present(be.active))]
            /\ GotoCall(c, "stale")
    /\ UNCHANGED <<dev, cn, events, crashed>>

\* A lingering connection is closed first; then rpc.Connection.Connect is started.
CloseStale(c) ==
    /\ CallAt(c, "stale") /\ Idle(c)
    /\ IF disc[c].err
       THEN ReturnCall(c, "lingering") /\ be' = Cleared(c) /\ UNCHANGED cn
       ELSE GotoCall(c, "wait") /\ cn' = [cn EXCEPT ![c].setup = "dial"] /\ UNCHANGED be
    /\ UNCHANGED <<dev, disc, events, crashed>>

\* The attempt is cancelled, or its deadline passes.
Cancel(c) ==
    /\ ~crashed /\ "cancel" \in Faults[c] /\ call[c].ctx = "live"
    /\ call[c].step \notin {"idle", "returned"}
    /\ call' = [call EXCEPT ![c].ctx = "done"]
    /\ UNCHANGED <<be, dev, cn, disc, events, crashed>>

\* case <-ctx.Done().
Canceled(c) ==
    /\ CallAt(c, "wait") /\ call[c].ctx = "done"
    /\ disc' = [disc EXCEPT ![c] = Start(<<c>>)]
    /\ GotoCall(c, "cancel")
    /\ UNCHANGED <<be, dev, cn, events, crashed>>

\* Mutant: the attempt is waited for however long it takes.
JoinForever(c) ==
    /\ CallAt(c, "cancel") /\ Idle(c) /\ cn[c].setup \in {"ok", "err"}
    /\ ReturnCall(c, "canceled") /\ be' = Cleared(c)
    /\ UNCHANGED <<dev, cn, disc, events, crashed>>

\* The attempt is waited for, at most 30 seconds; its result is not looked at.
Join(c) ==
    /\ CallAt(c, "cancel") /\ Idle(c)
    /\ ReturnCall(c, "canceled") /\ be' = Cleared(c)
    /\ UNCHANGED <<dev, cn, disc, events, crashed>>

\* case err := <-done.
SetupReturns(c) ==
    /\ CallAt(c, "wait")
    /\ \/ /\ cn[c].setup = "err"
          /\ disc' = [disc EXCEPT ![c] = Start(<<c>>)] /\ GotoCall(c, "fail")
          /\ UNCHANGED be
       \/ /\ cn[c].setup = "ok" /\ ~cn[c].csess
          /\ be' = Cleared(c) /\ ReturnCall(c, "failed") /\ UNCHANGED disc
       \/ /\ cn[c].setup = "ok" /\ cn[c].csess
          /\ GotoCall(c, "check") /\ UNCHANGED <<be, disc>>
    /\ UNCHANGED <<dev, cn, events, crashed>>

\* Mutant: without clearConnecting.
FailedKeeps(c) ==
    /\ CallAt(c, "fail") /\ Idle(c)
    /\ ReturnCall(c, "failed")
    /\ UNCHANGED <<be, dev, cn, disc, events, crashed>>

Failed(c) ==
    /\ CallAt(c, "fail") /\ Idle(c)
    /\ ReturnCall(c, "failed") /\ be' = Cleared(c)
    /\ UNCHANGED <<dev, cn, disc, events, crashed>>

\* Somebody took the attempt over meanwhile.
Superseded(c) ==
    /\ disc' = [disc EXCEPT ![c] = Start(<<c>>)]
    /\ GotoCall(c, "supersede")

Check(c) ==
    /\ CallAt(c, "check")
    /\ IF be.connecting # c THEN Superseded(c)
       ELSE GotoCall(c, "monitor") /\ UNCHANGED disc
    /\ UNCHANGED <<be, dev, cn, events, crashed>>

\* startUnderlayMonitor: one left over is replaced; the first snapshot may fail.
StartMonitor(c) ==
    /\ CallAt(c, "monitor")
    /\ \/ /\ be' = [be EXCEPT !.monitor = c]
          /\ cn' = [cn EXCEPT ![c].monitor = "run"]
          /\ GotoCall(c, "publish") /\ UNCHANGED disc
       \/ /\ "setup" \in Faults[c]
          /\ be' = [be EXCEPT !.monitor = None]
          /\ disc' = [disc EXCEPT ![c] = Start(<<c>>)]
          /\ GotoCall(c, "fail") /\ UNCHANGED cn
    /\ UNCHANGED <<dev, events, crashed>>

\* stopMonitorFor.
StopMonitorFor(c) == [be EXCEPT !.monitor = IF @ = c THEN None ELSE @]

Publish(c) ==
    /\ CallAt(c, "publish")
    /\ IF be.connecting # c THEN be' = StopMonitorFor(c) /\ Superseded(c)
       ELSE /\ be' = [be EXCEPT !.connecting = None, !.active = c]
            /\ GotoCall(c, "announce") /\ UNCHANGED disc
    /\ UNCHANGED <<dev, cn, events, crashed>>

SupersededReturns(c) ==
    /\ CallAt(c, "supersede") /\ Idle(c)
    /\ ReturnCall(c, "canceled")
    /\ UNCHANGED <<be, dev, cn, disc, events, crashed>>

Announce(c) ==
    /\ CallAt(c, "announce")
    /\ events' = [events EXCEPT ![c] = Append(@, "connected")]
    /\ cn' = [cn EXCEPT ![c].watch = TRUE]
    /\ ReturnCall(c, "ok")
    /\ UNCHANGED <<be, dev, disc, crashed>>

\* monitorClose.
MonitorClose(c) ==
    /\ ~crashed /\ cn[c].watch /\ cn[c].closed
    /\ be' = StopMonitorFor(c)
    /\ events' = [events EXCEPT ![c] = Append(@, "disconnected")]
    /\ cn' = [cn EXCEPT ![c].watch = FALSE]
    /\ UNCHANGED <<dev, call, disc, crashed>>

\* The monitor sees another underlay, or none, and watchUnderlay receives the change.
UnderlayChanges(c) ==
    /\ ~crashed /\ "underlay" \in Faults[c] /\ be.monitor = c /\ cn[c].monitor = "run"
    /\ cn' = [cn EXCEPT ![c].monitor = "got"]
    /\ UNCHANGED <<be, dev, call, disc, events, crashed>>

\* It sends the event, even when it was stopped meanwhile: select may take either.
ForwardChange(c) ==
    /\ ~crashed /\ cn[c].monitor = "got"
    /\ \/ /\ events' = [events EXCEPT ![c] = Append(@, "network_change")]
          /\ cn' = [cn EXCEPT ![c].monitor = "sent"]
       \/ /\ be.monitor # c
          /\ cn' = [cn EXCEPT ![c].monitor = "off"] /\ UNCHANGED events
    /\ UNCHANGED <<be, dev, call, disc, crashed>>

\* Then it stops the monitor of the backend, whosever that is by now.
StopMonitor(c) ==
    /\ ~crashed /\ cn[c].monitor = "sent"
    /\ be' = [be EXCEPT !.monitor = None]
    /\ cn' = [cn EXCEPT ![c].monitor = "off"]
    /\ UNCHANGED <<dev, call, disc, events, crashed>>

-----------------------------------------------------------------------------
(* rpc.Connection.Connect and SetupTunnelWithClient.                       *)

SetupAt(c, step) == ~crashed /\ cn[c].setup = step
Backend == <<be, call, disc, events>>
\* A nil Auth.Conn is used: Disconnect hung up in between.
Panic(c) == crashed' = TRUE /\ UNCHANGED <<dev, cn>>

\* The error paths of SetupTunnelWithClient before Start, as one step: the session, the
\* manager and the device are closed in this order by the goroutine that set them up.
Abandon(c) ==
    /\ cn' = [cn EXCEPT ![c] = [CloseSession(HangUp(@), "setup") EXCEPT
                                  !.net = FALSE, !.setup = "err"]]
    /\ dev' = IF dev = c THEN None ELSE dev
    /\ UNCHANGED crashed

\* The underlay is looked up, the server dialled; the context plays no part.
Dial(c) ==
    /\ SetupAt(c, "dial")
    /\ \/ cn' = [cn EXCEPT ![c].setup = "login", ![c].auth = TRUE, ![c].sock = "open"]
       \/ "setup" \in Faults[c] /\ cn' = [cn EXCEPT ![c].setup = "err"]
    /\ UNCHANGED <<dev, crashed, Backend>>

\* InitAuth's and PasswordAuth's requests and CONNECT.  An error of InitAuth leaves
\* the socket open, the others close it.
Login(c) ==
    /\ SetupAt(c, "login")
    /\ \/ /\ cn[c].auth
          /\ cn' = [cn EXCEPT ![c].setup = "session"] /\ UNCHANGED <<dev, crashed>>
       \/ /\ "setup" \in Faults[c] \/ ~cn[c].auth
          /\ \E x \in {cn[c], HangUp(cn[c])} : cn' = [cn EXCEPT ![c] = [x EXCEPT !.setup = "err"]]
          /\ UNCHANGED <<dev, crashed>>
       \/ ~cn[c].auth /\ Panic(c)
    /\ UNCHANGED Backend

\* NewConnSession and what is read off the socket for it; an unusable MTU.
NewSession(c) ==
    /\ SetupAt(c, "session")
    /\ IF ~cn[c].auth THEN Panic(c)
       ELSE \/ /\ cn' = [cn EXCEPT ![c].setup = "device", ![c].csess = TRUE,
                                   ![c].activeClose = FALSE]
               /\ UNCHANGED <<dev, crashed>>
            \/ /\ "setup" \in Faults[c]
               /\ cn' = [cn EXCEPT ![c] = [CloseSession(HangUp([@ EXCEPT !.activeClose = FALSE]),
                                                        "setup") EXCEPT !.setup = "err"]]
               /\ UNCHANGED <<dev, crashed>>
    /\ UNCHANGED Backend

\* Mutant: without a look at the name.
CreateDeviceTwice(c) ==
    /\ SetupAt(c, "device")
    /\ \/ "setup" \in Faults[c] /\ Abandon(c)
       \/ /\ dev' = c /\ cn' = [cn EXCEPT ![c].setup = "network"] /\ UNCHANGED crashed
    /\ UNCHANGED Backend

\* setupTun: it fails when a device of that name exists.  The last use of Auth.Conn for
\* NewConnSession may come after a Disconnect.
CreateDevice(c) ==
    /\ SetupAt(c, "device")
    /\ \/ ("setup" \in Faults[c] \/ dev # None) /\ Abandon(c)
       \/ /\ dev = None
          /\ dev' = c /\ cn' = [cn EXCEPT ![c].setup = "network"] /\ UNCHANGED crashed
       \/ ~cn[c].auth /\ Panic(c)
    /\ UNCHANGED Backend

\* GetUnderlaySnapshot, buildOSNetConfig and Manager.Set.
Configure(c) ==
    /\ SetupAt(c, "network")
    /\ \/ "setup" \in Faults[c] /\ Abandon(c)
       \/ /\ cn' = [cn EXCEPT ![c].setup = "start", ![c].net = TRUE]
          /\ UNCHANGED <<dev, crashed>>
    /\ UNCHANGED Backend

\* TunnelController.Start: SetCloseHook runs the hook at once if the session is
\* closed, and the hook waits for a worker that is started only afterwards.
SetCloseHook(c) ==
    /\ SetupAt(c, "start")
    /\ cn' = [cn EXCEPT ![c].setup = IF cn[c].closed THEN "stuck" ELSE "workers",
                        ![c].hook = ~cn[c].closed]
    /\ UNCHANGED <<dev, crashed, Backend>>

\* SetTunnelDone and the workers.
StartWorkers(c) ==
    /\ SetupAt(c, "workers")
    /\ cn' = [cn EXCEPT ![c].setup = "channels", ![c].owned = TRUE, ![c].workers = TRUE]
    /\ UNCHANGED <<dev, crashed, Backend>>

\* go tlsChannel, and go dtlsChannel if the server offers DTLS.
StartChannels(c) ==
    /\ SetupAt(c, "channels")
    /\ IF ~cn[c].auth THEN Panic(c)
       ELSE /\ \E offered \in {FALSE, "dtls" \in Faults[c]} :
                 cn' = [cn EXCEPT ![c].setup = IF offered THEN "dtls" ELSE "ok",
                                  ![c].tls = "run", ![c].dtls = IF offered THEN "dial" ELSE "off"]
            /\ UNCHANGED <<dev, crashed>>
    /\ UNCHANGED Backend

\* DTLS is up, has failed, takes 25 seconds, or the session is closed.
AwaitDtls(c) ==
    /\ SetupAt(c, "dtls")
    /\ \/ cn[c].dtls = "ready" /\ cn' = [cn EXCEPT ![c].setup = "ok"]
       \/ /\ cn[c].dtls # "ready" \/ cn[c].closed
          /\ cn' = [cn EXCEPT ![c] = [HangUp(@) EXCEPT !.setup = "err"]]
    /\ UNCHANGED <<dev, crashed, Backend>>

-----------------------------------------------------------------------------
(* The channels, the workers and TunnelController.Close.                   *)

\* The TLS channel ends: the server says so or cannot be heard, the socket was
\* closed, or the session.  It records why and closes the socket ...
TlsEnds(c) ==
    /\ ~crashed /\ cn[c].tls = "run"
    /\ "loss" \in Faults[c] \/ cn[c].closed \/ cn[c].sock = "closed"
    /\ cn' = [cn EXCEPT ![c] = [IF cn[c].closed THEN @ ELSE RecordClose(@, "remote") EXCEPT
                                  !.sock = "closed", !.tls = "exit"]]
    /\ UNCHANGED <<dev, crashed, Backend>>

\* ... and then the session.
TlsCloses(c) ==
    /\ ~crashed /\ cn[c].tls = "exit"
    /\ cn' = [cn EXCEPT ![c] = [CloseSession(@, "unknown") EXCEPT !.tls = "gone"]]
    /\ UNCHANGED <<dev, crashed, Backend>>

\* The handshake ends; it is not stopped when the session is.
DtlsSettles(c) ==
    /\ ~crashed /\ cn[c].dtls = "dial"
    /\ \E s \in {"ready", "gone"} : cn' = [cn EXCEPT ![c].dtls = s]
    /\ UNCHANGED <<dev, crashed, Backend>>

\* DTLS alone is lost: the session goes on over TLS.
DtlsEnds(c) ==
    /\ ~crashed /\ cn[c].dtls = "ready"
    /\ cn' = [cn EXCEPT ![c].dtls = "gone"]
    /\ UNCHANGED <<dev, crashed, Backend>>

\* A packet worker cannot read or write, or the device reports that it is down.
DeviceFails(c) ==
    /\ ~crashed /\ "device" \in Faults[c] /\ cn[c].workers /\ ~cn[c].closed
    /\ cn' = [cn EXCEPT ![c] = CloseSession(@, "device")]
    /\ UNCHANGED <<dev, crashed, Backend>>

\* tunToPayloadOut sits in dev.Read until the device is closed.
PacketsStop(c) ==
    /\ ~crashed /\ cn[c].workers /\ cn[c].closed /\ dev # c
    /\ cn' = [cn EXCEPT ![c].workers = FALSE]
    /\ UNCHANGED <<dev, crashed, Backend>>

\* TunnelController.Close: the dynamic worker sees dynamicStop and is joined, which
\* takes a worker that was started; the manager is closed ...
CloseManager(c) ==
    /\ ~crashed /\ cn[c].ctl = "stop" /\ cn[c].owned
    /\ cn' = [cn EXCEPT ![c].net = FALSE, ![c].ctl = "device"]
    /\ UNCHANGED <<dev, crashed, Backend>>

\* Mutant: the workers are waited for first.
CloseDeviceLast(c) ==
    /\ ~crashed /\ cn[c].ctl = "device" /\ ~cn[c].workers
    /\ dev' = None
    /\ cn' = [cn EXCEPT ![c].ctl = "wait"]
    /\ UNCHANGED <<crashed, Backend>>

\* ... then the device ...
CloseDevice(c) ==
    /\ ~crashed /\ cn[c].ctl = "device"
    /\ dev' = None
    /\ cn' = [cn EXCEPT ![c].ctl = "wait"]
    /\ UNCHANGED <<crashed, Backend>>

\* ... and TunnelDone when the last worker has gone.
Drained(c) ==
    /\ ~crashed /\ cn[c].ctl = "wait" /\ ~cn[c].workers
    /\ cn' = [cn EXCEPT ![c].ctl = "done"]
    /\ UNCHANGED <<dev, crashed, Backend>>

-----------------------------------------------------------------------------
DisconnectStep(k) == Mark(k) \/ HangUpAuth(k) \/ CloseLocally(k) \/ Drain(k)

CallStep(c) ==
    \/ CloseStale(c) \/ Canceled(c) \/ Join(c) \/ SetupReturns(c) \/ Failed(c)
    \/ Check(c) \/ StartMonitor(c) \/ Publish(c) \/ SupersededReturns(c) \/ Announce(c)

\* What is bounded by a timer or does not wait.  Login is not: its requests have no
\* deadline; with the socket closed it returns.
SetupStep(c) ==
    \/ Dial(c) \/ (~cn[c].auth /\ Login(c)) \/ NewSession(c) \/ CreateDevice(c)
    \/ Configure(c) \/ SetCloseHook(c) \/ StartWorkers(c) \/ StartChannels(c)
    \/ AwaitDtls(c)

\* The goroutines of a session that has been closed, or whose socket has.
WindDown(c) ==
    \/ (cn[c].closed \/ cn[c].sock = "closed") /\ TlsEnds(c)
    \/ TlsCloses(c) \/ DtlsSettles(c) \/ PacketsStop(c)
    \/ CloseManager(c) \/ CloseDevice(c) \/ Drained(c)

Reporter(c) == MonitorClose(c) \/ ForwardChange(c) \/ StopMonitor(c)

Next ==
    \/ BackendDisconnect \/ DrainCanceled
    \/ \E k \in Callers : DisconnectStep(k)
    \/ \E c \in Conns :
         \/ Connect(c) \/ Cancel(c) \/ CallStep(c) \/ SetupStep(c) \/ Login(c)
         \/ WindDown(c) \/ Reporter(c)
         \/ TlsEnds(c) \/ DtlsEnds(c) \/ DeviceFails(c) \/ UnderlayChanges(c)

Spec == Init /\ [][Next]_vars

\* Goroutines run; dials, handshakes and waits have time limits.
Fairness ==
    /\ \A k \in Callers : WF_vars(DisconnectStep(k))
    /\ \A c \in Conns : /\ WF_vars(CallStep(c)) /\ WF_vars(SetupStep(c))
                        /\ WF_vars(WindDown(c)) /\ WF_vars(Reporter(c))

FairSpec == Spec /\ Fairness

-----------------------------------------------------------------------------
(* Properties.                                                             *)

Sent(c, type) == \E i \in 1..Len(events[c]) : events[c][i] = type
Announced(c) == Sent(c, "connected")

\* What the supervisor has been told of a connection, what it was asked for, how it ended.
Phase(c) == IF Sent(c, "disconnected") THEN "ended"
            ELSE IF Announced(c) THEN "up"
            ELSE IF call[c].step = "returned" THEN "failed"
            ELSE IF call[c].step = "idle" THEN "idle" ELSE "trying"
Asked(c) == IF ~Announced(c) THEN "no"
            ELSE IF ~cn[c].auth THEN "cut"
            ELSE IF cn[c].activeClose THEN "asked" ELSE "no"
Cause(c) == IF ~Announced(c) \/ cn[c].reason = "none" THEN "none"
            ELSE IF cn[c].reason = "local" THEN "local" ELSE "loss"

Contract == INSTANCE BackendContract WITH
    phase <- [c \in Conns |-> Phase(c)],
    asked <- [c \in Conns |-> Asked(c)],
    cause <- [c \in Conns |-> Cause(c)],
    gone <- crashed

\* Backend keeps its contract: every announced connection is reported disconnected,
\* once and after that, and never as lost when Disconnect cut it, although closing the
\* socket makes the TLS channel fail as a loss does (Connection.Disconnect, RecordClose).
ImplementsContract == Contract!Spec

\* Routes and addresses are only ever installed on the device of their connection:
\* whichever of setup, controller and Disconnect ends it, the manager goes first, and
\* with a device of the same name in the way the next connection gets none.
ConfigOwnsDevice == \A c \in Conns : cn[c].net => dev = c

\* An attempt that has returned is no longer registered, whoever cancelled, replaced or
\* failed it: Backend.Connect never refuses the next one ("already in progress").
AttemptReleased == be.connecting # None => call[be.connecting].step # "returned"

\* An attempt is refused for what is left of an earlier connection only if something
\* is.  Violated: after a loss the TLS channel has closed the socket, Auth.Close reports
\* that it was closed already, and the next attempt fails for that alone.
RefusedWithCause ==
    \A c \in Conns : call[c].ret = "lingering" => \E d \in Conns : cn[d].net \/ dev = d

\* A cancelled Connect returns, though the setup it started may sit in a dial, in a
\* server that does not answer or in Start; and Backend.Disconnect returns whatever the
\* packet workers and the controller do.
CallsReturn ==
    /\ \A c \in Conns : call[c].ctx = "done" ~> (call[c].step = "returned" \/ crashed)
    /\ disc[Other].step # "idle" ~> (disc[Other].step = "idle" \/ crashed)

\* A session that is closed once its controller runs gives the device back, so the
\* next connection can be set up.
ClosedReleases == \A c \in Conns : (cn[c].closed /\ cn[c].owned) ~> (dev # c \/ crashed)
=============================================================================
