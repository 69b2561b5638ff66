----------------------------- MODULE Supervisor -----------------------------
(***************************************************************************)
(* The connection supervisor of internal/appd (Service) together with the  *)
(* part of internal/vpn/anyconnect.Backend it drives: connect, disconnect, *)
(* switch, control mode, active update, delete, network repair, automatic  *)
(* reconnect, SOCKS5 proxy and shutdown.                                   *)
(*                                                                         *)
(* Three goroutines can be inside these functions at once: the holder of   *)
(* commandMu ("command"), an API handler that calls DeleteProfile directly *)
(* ("request") and Service.Close ("closer").  consumeBackendEvents is a    *)
(* fourth.  A critical section of s.mu is one action; between two sections *)
(* the others may run.                                                     *)
(*                                                                         *)
(* Identifiers drawn by newID are taken from Conns: any value nothing      *)
(* refers to any more is fresh.  The attempt and the connection identifier *)
(* of an attempt are drawn together and are one value here.  reconnectID   *)
(* and networkReconnectID only tell a superseded timer or repair from the  *)
(* present one, so a superseded timer is simply gone, and a repair is      *)
(* known by the connection it repairs (a monitor reports one change).      *)
(*                                                                         *)
(* What a session does while it is set up and closed is module Tunnel; in  *)
(* this one a dial that was given up does not come up later all the same.  *)
(***************************************************************************)
EXTENDS Naturals, FiniteSets

CONSTANTS
    Profiles,       \* all profiles that ever exist
    Unborn,         \* those not created yet
    AutoReconnect,  \* profiles with AutoReconnect set
    Socks,          \* profiles with SOCKS5Enabled set
    MachineScope,   \* profiles with scope "machine"
    Owner,          \* [Profiles -> Actors]
    Actors, System, Admins,
    Clients,        \* the actors that call the API
    ClientOps,      \* what they ask for
    Faults,         \* what the environment may do, a subset of AllFaults
    Conns,          \* connection identifiers
    MaxTries,       \* autoReconnectMaxTries
    MaxQueue,       \* bound on operations waiting for commandMu
    MaxEvents,      \* bound: with so many events unread no session ends, no network changes
    None

AllOps == {"connect", "disconnect", "machine", "user", "update", "delete", "create", "close"}
AllFaults == {"loss", "network", "proxy", "cleanup", "deadline", "secret"}

ASSUME SupervisorAssumption ==
    /\ Unborn \subseteq Profiles /\ AutoReconnect \subseteq Profiles
    /\ Socks \subseteq Profiles /\ MachineScope \subseteq Profiles
    /\ System \in Admins /\ Admins \subseteq Actors /\ Clients \subseteq Actors
    /\ Owner \in [Profiles -> Actors]
    /\ ClientOps \subseteq AllOps /\ Faults \subseteq AllFaults
    /\ MaxTries \in Nat \ {0} /\ MaxQueue \in Nat /\ MaxEvents \in Nat \ {0}
    /\ None \notin Profiles \cup Actors \cup Conns

VARIABLES
    svc,        \* the fields of Service that s.mu guards
    be,         \* the fields of Backend, and which sessions are really up
    events,     \* backend events sent and not yet consumed
    pending,    \* the profile consumeBackendEvents is about to schedule
    queue,      \* operations and repairs waiting for commandMu
    th          \* the goroutines

vars == <<svc, be, events, pending, queue, th>>

-----------------------------------------------------------------------------
Threads == {"command", "request", "closer"}

\* What is waiting for commandMu: API operations, repairs and proxy failures; and the last
\* section of a create, which waits for s.mu only.
Work == [kind : {"connect", "disconnect", "machine", "user", "update", "reapply",
                 "delete", "repair", "proxy", "select"},
         actor : Actors, p : Profiles \cup {None}, conn : Conns \cup {None}]

Steps == {"idle", "cut", "unproxy", "detach", "teardown", "cleared", "resume",
          "mode", "prepare", "check", "begin", "call", "dial", "dialFailed", "proxy",
          "rollback", "rollTeardown", "rolledBack", "commit", "delete", "finish",
          "closed", "exit"}

\* kind, p, rep and n say what the goroutine runs: for which profile, which
\* connection it repairs (or whose proxy failed) and which retry it is.  conn is
\* its attempt.  next is where disconnect returns to, active and drop are the
\* local variables of disconnect and Backend.Disconnect.
Thread == [step : Steps, kind : {"none", "connect", "disconnect", "machine", "user",
                                 "reapply", "delete", "repair", "retry", "proxy", "close"},
           actor : Actors, p : Profiles \cup {None}, conn : Conns \cup {None},
           rep : Conns \cup {None}, n : 0..MaxTries, next : Steps, active : BOOLEAN,
           drop : SUBSET Conns, err : {"none", "retryable", "other"}]

IdleThread == [step |-> "idle", kind |-> "none", actor |-> System, p |-> None,
               conn |-> None, rep |-> None, n |-> 0, next |-> "idle", active |-> FALSE,
               drop |-> {}, err |-> "none"]

States == {"Disconnected", "Connecting", "Connected", "Reconnecting", "Error"}
Timer == [p : Profiles, n : 1..MaxTries]
Repair == [conn : Conns, p : Profiles]

Service == [profiles : SUBSET Profiles, unborn : SUBSET Profiles,
            current : Profiles \cup {None},    \* currentID
            shown : Profiles \cup {None},      \* status.CurrentProfileID
            connected : Profiles \cup {None},  \* connectedID
            state : States,
            attempt : Conns \cup {None},       \* attemptID; attemptCancel goes with it
            ctx : {"live", "canceled", "expired"},   \* the attempt's context
            conn : Conns \cup {None},          \* activeConnectionID
            owner : Actors \cup {None},        \* activeOwnerID
            mode : {"user", "machine"}, machine : Profiles \cup {None},
            manual : Profiles \cup {None},     \* manualProfileID
            timer : Timer \cup {None},         \* reconnectTimer
            net : Repair \cup {None},          \* networkReconnect*
            proxy : Conns \cup {None},         \* proxyServer, by the session it dials through
            socks : BOOLEAN,                   \* status.SOCKS5Enabled
            closed : BOOLEAN, fatal : BOOLEAN,
            doomed : Conns \cup {None}]        \* history: the attempt Close found running

Backend == [active : Conns \cup {None}, connecting : Conns \cup {None},
            monitor : Conns \cup {None}, live : SUBSET Conns,
            left : SUBSET Conns]    \* history: the live ones an operation gave up

Event == [type : {"disconnected"}, conn : Conns, code : {"local", "transient", "ended"}]
         \cup [type : {"network_change"}, conn : Conns, code : {"none"}]

TypeOK ==
    /\ svc \in Service /\ be \in Backend
    /\ events \subseteq Event
    /\ pending \in Profiles \cup {None}
    /\ queue \subseteq Work
    /\ th \in [Threads -> Thread]

\* load() restores the profiles, the selection and the control mode; nobody owns the daemon.
Init ==
    /\ \E current \in (Profiles \ Unborn) \cup {None}, machine \in (MachineScope \ Unborn) \cup {None} :
         svc = [profiles |-> Profiles \ Unborn, unborn |-> Unborn, current |-> current,
                shown |-> current, connected |-> None, state |-> "Disconnected",
                attempt |-> None, ctx |-> "live", conn |-> None, owner |-> None,
                mode |-> IF machine = None THEN "user" ELSE "machine", machine |-> machine,
                manual |-> None, timer |-> None, net |-> None, proxy |-> None, socks |-> FALSE,
                closed |-> FALSE, fatal |-> FALSE, doomed |-> None]
    /\ be = [active |-> None, connecting |-> None, monitor |-> None, live |-> {}, left |-> {}]
    /\ events = {} /\ pending = None /\ queue = {}
    /\ th = [t \in Threads |-> IdleThread]

-----------------------------------------------------------------------------
(* Predicates of Service.                                                  *)

ConnectionActive == svc.connected # None \/ svc.attempt # None
ProfileIsActive(p) == svc.connected = p \/ (svc.shown = p /\ svc.attempt # None)

\* authorize(actor, write).
Authorized(a) ==
    \/ a = System
    \/ /\ ~svc.closed /\ ~svc.fatal
       /\ svc.mode = "machine" => a \in Admins
       /\ svc.mode = "user" => svc.owner \in {None, a}

CanMutate(a, p) ==
    \/ a = System
    \/ IF p \in MachineScope THEN a \in Admins ELSE Owner[p] = a

\* autoReconnectEnabledLocked.
AutoEnabled(s, p) == (s.mode = "machine" /\ s.machine = p) \/ p \in AutoReconnect

\* startReconnectLocked.
StartReconnect(s, p, n) ==
    IF /\ p \in s.profiles /\ s.current = p /\ s.connected = None /\ AutoEnabled(s, p)
    THEN [s EXCEPT !.timer = [p |-> p, n |-> n]]
    ELSE s

\* Mutant: in machine mode too.
ReleaseOwnerAlways(s) == [s EXCEPT !.owner = None]

\* The daemon is free for other users again; machine mode keeps it.
ReleaseOwner(s) == IF s.mode = "user" THEN [s EXCEPT !.owner = None] ELSE s

\* No attempt is current any more; the context of an old one is never looked at.
EndAttempt(s) == [s EXCEPT !.attempt = None, !.ctx = "live"]

\* failCleanup.
FailCleanup(s) == [s EXCEPT !.fatal = TRUE, !.state = "Error"]

-----------------------------------------------------------------------------
(* Goroutines.                                                             *)

Exited == th["closer"].step = "exit"
At(t, step) == ~Exited /\ th[t].step = step
Goto(t, step) == th' = [th EXCEPT ![t].step = step]
Return(t, err) == th' = [th EXCEPT ![t].step = "finish", ![t].err = err]
Done(t) == th' = [th EXCEPT ![t] = IdleThread]
\* Call disconnect, coming back at step next.
CallDisconnect(t, next) == th' = [th EXCEPT ![t].step = "cut", ![t].next = next]

Fault(f) == f \in Faults

-----------------------------------------------------------------------------
(* The HTTP API: what is queued for commandMu and what is not.             *)

\* PUT and DELETE /v2/connection, PUT /v2/control-mode, PATCH and DELETE of an
\* active profile: the operation is registered and waits for commandMu.  A
\* disconnect with nothing connected or attempted is answered at once instead.
Submit(a, kind, p) ==
    /\ ~Exited /\ ~svc.closed /\ kind \in ClientOps /\ Cardinality(queue) < MaxQueue
    /\ CASE kind = "connect"    -> p # None /\ Authorized(a) /\ CanMutate(a, p)
         [] kind = "disconnect" -> p = None /\ Authorized(a) /\ ConnectionActive
         [] kind = "machine"    -> p \in MachineScope /\ a \in Admins /\ ~svc.fatal
         [] kind = "user"       -> p = None /\ a \in Admins /\ ~svc.fatal
         [] OTHER               -> /\ p \in svc.profiles /\ ProfileIsActive(p)
                                   /\ Authorized(a) /\ CanMutate(a, p)
    /\ queue' = queue \cup {[kind |-> kind, actor |-> a, p |-> p, conn |-> None]}
    /\ UNCHANGED <<svc, be, events, pending, th>>

\* CreateProfile, called by CreateProfileFor, which never waits for commandMu ...
CreateProfile(a, p) ==
    /\ ~Exited /\ ~svc.closed /\ "create" \in ClientOps
    /\ Authorized(a) /\ p \in svc.unborn
    /\ IF p \in MachineScope THEN a \in Admins ELSE Owner[p] = a
    /\ svc' = [svc EXCEPT !.profiles = @ \cup {p}, !.unborn = @ \ {p},
                          !.current = IF @ = None THEN p ELSE @,
                          !.shown = IF svc.current = None THEN p ELSE @]
    /\ queue' = queue \cup (IF a \in Admins
                            THEN {[kind |-> "select", actor |-> a, p |-> p, conn |-> None]} ELSE {})
    /\ UNCHANGED <<be, events, pending, th>>

\* ... and its last section, which selects the profile an administrator created, whatever
\* has become of it and is running by then.
SelectCreated(w) ==
    /\ ~Exited /\ w.kind = "select" /\ queue' = queue \ {w}
    /\ svc' = [svc EXCEPT !.current = w.p]
    /\ UNCHANGED <<be, events, pending, th>>

\* DeleteProfileFor's checks.
DeleteAllowed(a, p) ==
    /\ Authorized(a) /\ p \in svc.profiles /\ CanMutate(a, p)
    /\ ~(svc.mode = "machine" /\ svc.machine = p)

\* The first section of DeleteProfile.
EnterDelete(t, a, p) ==
    th' = [th EXCEPT ![t] = [IdleThread EXCEPT
             !.kind = "delete", !.actor = a, !.p = p, !.next = "delete",
             !.step = IF ProfileIsActive(p) THEN "cut" ELSE "delete"]]

\* DELETE of a profile the handler saw inactive: DeleteProfileFor runs at once,
\* in the handler, on a profile that may have become active meanwhile.
DeleteDirectly(a, p) ==
    /\ At("request", "idle") /\ ~svc.closed /\ "delete" \in ClientOps
    /\ DeleteAllowed(a, p) /\ EnterDelete("request", a, p)
    /\ UNCHANGED <<svc, be, events, pending, queue>>

-----------------------------------------------------------------------------
(* The holder of commandMu starts on something that waited for it.         *)

Take(w) == At("command", "idle") /\ w \in queue /\ queue' = queue \ {w}

\* The command goroutine begins w at the given step.
Run(w, step, next) ==
    th' = [th EXCEPT !["command"] = [IdleThread EXCEPT
             !.kind = w.kind, !.actor = w.actor, !.p = w.p, !.rep = w.conn,
             !.step = step, !.next = next]]

\* The checks and the section of ConnectFor up to Connect.
ConnectForAllowed(a, p) ==
    /\ Authorized(a) /\ p \in svc.profiles /\ CanMutate(a, p)
    /\ a # System => svc.owner \in {None, a}
    /\ p \in MachineScope => svc.mode = "machine" /\ svc.machine = p

StartConnect(w) ==
    /\ Take(w) /\ w.kind = "connect"
    /\ IF ConnectForAllowed(w.actor, w.p)
       THEN /\ svc' = [svc EXCEPT
                 !.current = w.p,
                 !.owner = IF w.actor # System /\ svc.mode = "user" THEN w.actor ELSE @]
            /\ Run(w, "prepare", "idle")
       ELSE UNCHANGED <<svc, th>>
    /\ UNCHANGED <<be, events, pending>>

StartDisconnect(w) ==
    /\ Take(w) /\ w.kind = "disconnect"
    /\ IF Authorized(w.actor) THEN Run(w, "cut", "finish") ELSE UNCHANGED th
    /\ UNCHANGED <<svc, be, events, pending>>

StartControlMode(w) ==
    /\ Take(w) /\ w.kind \in {"machine", "user"}
    /\ IF w.kind = "machine" /\ w.p \notin svc.profiles
       THEN UNCHANGED th
       ELSE Run(w, IF w.kind = "user" \/ ConnectionActive THEN "cut" ELSE "mode", "mode")
    /\ UNCHANGED <<svc, be, events, pending>>

\* UpdateActiveProfileFor commits the profile under commandMu, then registers
\* the reconnect as an operation.
UpdateActive(w) ==
    /\ At("command", "idle") /\ w \in queue /\ w.kind = "update"
    /\ queue' = (queue \ {w}) \cup
                (IF w.p \in svc.profiles /\ ~svc.closed
                 THEN {[w EXCEPT !.kind = "reapply"]} ELSE {})
    /\ UNCHANGED <<svc, be, events, pending, th>>

\* reconnectProfile.
StartReapply(w) ==
    /\ Take(w) /\ w.kind = "reapply"
    /\ Run(w, "cut", "prepare")
    /\ UNCHANGED <<svc, be, events, pending>>

StartDelete(w) ==
    /\ Take(w) /\ w.kind = "delete"
    /\ IF DeleteAllowed(w.actor, w.p)
       THEN EnterDelete("command", w.actor, w.p) ELSE UNCHANGED th
    /\ UNCHANGED <<svc, be, events, pending>>

\* runNetworkReconnect, up to its disconnect.
StartRepair(w) ==
    /\ Take(w) /\ w.kind = "repair"
    /\ IF svc.net = None \/ svc.net.conn # w.conn THEN UNCHANGED th
       ELSE IF svc.net.p \in svc.profiles
            THEN Run([w EXCEPT !.p = svc.net.p], "cut", "resume")
            ELSE th' = [th EXCEPT !["command"] = [IdleThread EXCEPT
                          !.kind = "repair", !.p = svc.net.p, !.rep = w.conn,
                          !.step = "finish", !.err = "other"]]
    /\ UNCHANGED <<svc, be, events, pending>>

\* monitorProxy.
StartProxyFailure(w) ==
    /\ Take(w) /\ w.kind = "proxy"
    /\ IF /\ svc.proxy = w.conn /\ svc.current = w.p
          /\ svc.connected = w.p \/ svc.attempt # None
       THEN Run(w, "cut", "finish") ELSE UNCHANGED th
    /\ UNCHANGED <<svc, be, events, pending>>

\* Mutant: without a look at what has happened since it was scheduled.
StartRetryBlindly ==
    /\ At("command", "idle") /\ svc.timer # None
    /\ svc' = [svc EXCEPT !.timer = None, !.state = "Reconnecting"]
    /\ th' = [th EXCEPT !["command"] = [IdleThread EXCEPT
                !.kind = "retry", !.p = svc.timer.p, !.n = svc.timer.n,
                !.step = "cut", !.next = "check"]]
    /\ UNCHANGED <<be, events, pending, queue>>

\* The timer fires and runScheduledReconnect gets commandMu.
StartRetry ==
    /\ At("command", "idle") /\ svc.timer # None
    /\ LET p == svc.timer.p
       IN IF /\ p \in svc.profiles /\ svc.current = p
             /\ svc.connected = None /\ AutoEnabled(svc, p)
          THEN /\ svc' = [svc EXCEPT !.timer = None, !.state = "Reconnecting"]
               /\ th' = [th EXCEPT !["command"] = [IdleThread EXCEPT
                           !.kind = "retry", !.p = p, !.n = svc.timer.n,
                           !.step = "cut", !.next = "check"]]
          ELSE svc' = [svc EXCEPT !.timer = None] /\ UNCHANGED th
    /\ UNCHANGED <<be, events, pending, queue>>

-----------------------------------------------------------------------------
(* Service.disconnect and Backend.Disconnect.                              *)

\* The first section: only DisconnectFor passes manual = true.
Cut(t) ==
    /\ At(t, "cut")
    /\ LET manual == th[t].kind = "disconnect"
           marked == manual /\ svc.connected # None
           active == ConnectionActive \/ svc.state \in {"Connecting", "Reconnecting"}
       IN /\ svc' = [svc EXCEPT
                !.timer = IF manual THEN None ELSE @,
                !.net = IF manual THEN None ELSE @,
                !.manual = IF marked THEN svc.connected ELSE @,
                !.ctx = IF svc.attempt # None /\ @ = "live" THEN "canceled" ELSE @]
          \* disconnectSeq moved on: startReconnectLocked will refuse.
          /\ pending' = IF marked THEN None ELSE pending
          /\ th' = [th EXCEPT ![t].step = "unproxy", ![t].active = active]
    /\ UNCHANGED <<be, events, queue>>

\* stopProxy.
StoppedProxy(s) == [s EXCEPT !.proxy = None, !.socks = FALSE]

Unproxy(t) ==
    /\ At(t, "unproxy")
    /\ \/ /\ svc' = StoppedProxy(svc)
          /\ Goto(t, IF th[t].active THEN "detach" ELSE th[t].next)
       \/ /\ Fault("cleanup") /\ svc.proxy # None /\ t # "closer"
          /\ svc' = FailCleanup(StoppedProxy(svc))
          /\ Return(t, "other")
    /\ UNCHANGED <<be, events, pending, queue>>

\* Mutant: a connection that is not there is taken over as well.
DetachUnchecked(t) ==
    /\ \E step \in {"detach", "rollback"} : At(t, step)
    /\ be' = [be EXCEPT !.active = None, !.connecting = None, !.monitor = None]
    /\ th' = [th EXCEPT ![t].drop = {be.active}, ![t].active = FALSE,
                        ![t].step = IF @ = "detach" THEN "teardown" ELSE "rollTeardown"]
    /\ UNCHANGED <<svc, events, pending, queue>>

\* Backend.Disconnect takes the connections over, then closes them unlocked.  An
\* attempt whose connection is no longer be.connecting cannot publish itself.
Detach(t) ==
    /\ \E step \in {"detach", "rollback"} : At(t, step)
    /\ be' = [be EXCEPT !.active = None, !.connecting = None, !.monitor = None]
    /\ th' = [th EXCEPT ![t].drop = {be.active, be.connecting} \ {None}, ![t].active = FALSE,
                        ![t].step = IF @ = "detach" THEN "teardown" ELSE "rollTeardown"]
    /\ UNCHANGED <<svc, events, pending, queue>>

\* monitorClose reports each connection closed here that had not ended by itself.
Reports(drop) ==
    {[type |-> "disconnected", conn |-> c, code |-> "local"] : c \in drop \cap be.live}

Down(b, conns) == [b EXCEPT !.live = @ \ conns, !.left = @ \ conns]

CloseLocally(drop) ==
    /\ be' = Down(be, drop)
    /\ events' = events \cup Reports(drop)

\* rpc.Connection.Disconnect may report an error: the clean-up fails, or the control
\* connection was closed before, by the session that ended or by its own attempt.
CloseMayFail(drop) == drop # {} /\ (Fault("cleanup") \/ ~(drop \subseteq be.live))

\* Mutant: the control plane forgets the connection without closing it.
TeardownForgets(t) ==
    /\ At(t, "teardown")
    /\ th' = [th EXCEPT ![t].step = IF t = "closer" THEN "closed" ELSE "cleared", ![t].drop = {}]
    /\ UNCHANGED <<svc, be, events, pending, queue>>

Teardown(t) ==
    /\ At(t, "teardown")
    /\ CloseLocally(th[t].drop)
    /\ \/ /\ th' = [th EXCEPT ![t].step = IF t = "closer" THEN "closed" ELSE "cleared",
                              ![t].drop = {}]
          /\ UNCHANGED svc
       \/ /\ CloseMayFail(th[t].drop) /\ t # "closer"
          /\ svc' = FailCleanup(svc)
          /\ th' = [th EXCEPT ![t].step = "finish", ![t].err = "other", ![t].drop = {}]
    /\ UNCHANGED <<pending, queue>>

\* A connection the backend still has, and nobody is closing, is left as it is.
GiveUp(c) == be' = [be EXCEPT !.left = @ \cup ({c} \cap {be.active} \cap be.live)]

\* The last section of disconnect.  What was committed since its first one is forgotten.
Cleared(t) ==
    /\ At(t, "cleared")
    /\ svc' = ReleaseOwner([EndAttempt(svc) EXCEPT !.connected = None,
                                                   !.state = "Disconnected"])
    /\ GiveUp(IF svc.connected = None THEN None ELSE svc.conn)
    /\ Goto(t, th[t].next)
    /\ UNCHANGED <<events, pending, queue>>

-----------------------------------------------------------------------------
(* Service.Connect, connectPreparedProfile and Backend.Connect.            *)

Prepare(t) ==
    /\ At(t, "prepare")
    /\ svc' = [svc EXCEPT !.timer = None, !.net = None]
    /\ IF th[t].p \in svc.profiles THEN Goto(t, "check") ELSE Return(t, "other")
    /\ UNCHANGED <<be, events, pending, queue>>

Automatic(t) == th[t].kind \in {"repair", "retry"}

\* connectAllowedFromStateLocked.
AllowedFromState(t) ==
    Automatic(t) /\ svc.state = "Reconnecting" /\ svc.shown = th[t].p

Busy(t) == svc.state \in {"Connecting", "Reconnecting"} /\ ~AllowedFromState(t)

\* "connect ignored": success is reported and nothing is done.
Ignored(t) ==
    \/ Busy(t) /\ svc.shown = th[t].p
    \/ svc.state = "Connected" /\ svc.connected = th[t].p

\* The password is loaded, or cannot be; then the checks made before and again
\* after the disconnect of another profile.
Check(t) ==
    /\ At(t, "check")
    /\ \/ Fault("secret") /\ Return(t, "other")
       \/ IF Ignored(t) THEN Return(t, "none")
          ELSE IF Busy(t) THEN Return(t, "other")
          ELSE IF svc.connected \notin {None, th[t].p} THEN CallDisconnect(t, "begin")
          ELSE Goto(t, "begin")
    /\ UNCHANGED <<svc, be, events, pending, queue>>

\* Identifiers nothing refers to.  A waiting repair or proxy failure whose connection
\* is gone does nothing when it runs; it is forgotten when its identifier is drawn.
FreshConns ==
    Conns \ (be.live \cup {be.active, be.connecting, be.monitor, svc.conn, svc.proxy, svc.attempt}
             \cup {e.conn : e \in events}
             \cup UNION {th[t].drop \cup {th[t].conn, th[t].rep} : t \in Threads}
             \cup (IF svc.net = None THEN {} ELSE {svc.net.conn}))

Begin(t) ==
    /\ At(t, "begin")
    /\ IF Ignored(t) THEN Return(t, "none") /\ UNCHANGED <<svc, queue>>
       ELSE IF Busy(t) THEN Return(t, "other") /\ UNCHANGED <<svc, queue>>
       ELSE \E c \in FreshConns :
              /\ svc' = [svc EXCEPT
                   !.state = IF Automatic(t) THEN "Reconnecting" ELSE "Connecting",
                   !.current = th[t].p, !.shown = th[t].p, !.attempt = c, !.ctx = "live",
                   !.doomed = IF @ = c THEN None ELSE @]
              /\ th' = [th EXCEPT ![t].step = "call", ![t].conn = c]
              /\ queue' = {w \in queue : w.conn # c}
    /\ UNCHANGED <<be, events, pending>>

\* Backend.Connect registers the attempt and closes a connection left over, which may
\* fail ("disconnect lingering VPN connection").  Its dial cannot beat a context that is
\* over already.
CallBackend(t) ==
    /\ At(t, "call")
    /\ \E closed \in BOOLEAN :
       LET stale == {be.active} \ {None}
           dial == /\ be.connecting = None /\ closed
                   /\ svc.attempt = th[t].conn /\ svc.ctx = "live"
       IN /\ ~closed => be.connecting = None /\ CloseMayFail(stale)
          /\ be' = IF be.connecting # None THEN be
                   ELSE [Down(be, stale) EXCEPT
                           !.active = None, !.connecting = IF dial THEN th[t].conn ELSE None,
                           !.monitor = IF @ \in stale THEN None ELSE @]
          /\ events' = IF be.connecting # None THEN events ELSE events \cup Reports(stale)
          /\ th' = [th EXCEPT ![t].step = IF dial THEN "dial" ELSE "dialFailed",
                              ![t].err = IF dial THEN "none" ELSE "other"]
    /\ UNCHANGED <<svc, pending, queue>>

\* The session is up and still wanted: the monitor starts, the connection is
\* published.
Established(t) ==
    /\ At(t, "dial") /\ be.connecting = th[t].conn
    /\ be' = [be EXCEPT !.active = th[t].conn, !.connecting = None, !.monitor = th[t].conn,
                        !.live = @ \cup {th[t].conn}]
    /\ Goto(t, "proxy")
    /\ UNCHANGED <<svc, events, pending, queue>>

\* Backend.Connect returns an error: its own, or that of the context.
DialError(t) ==
    /\ At(t, "dial")
    /\ be' = [be EXCEPT !.connecting = IF @ = th[t].conn THEN None ELSE @]
    /\ \E err \in {"retryable", "other"} :
         th' = [th EXCEPT ![t].step = "dialFailed", ![t].err = err]
    /\ UNCHANGED <<svc, events, pending, queue>>


DialFailed(t) ==
    /\ At(t, "dialFailed")
    /\ IF svc.attempt = th[t].conn
       THEN /\ svc' = [EndAttempt(svc) EXCEPT
                         !.state = IF svc.ctx = "canceled" THEN "Disconnected" ELSE "Error"]
            /\ Goto(t, "finish")
       ELSE Return(t, "other") /\ UNCHANGED svc
    /\ UNCHANGED <<be, events, pending, queue>>

\* An operation that runs after Close: the goroutine beside it sees loopStop closed and
\* cancels its context, at some time.
CancelOperation ==
    /\ ~Exited /\ svc.closed
    /\ th["command"].kind \in {"connect", "machine", "reapply"}
    /\ svc.attempt # None /\ svc.attempt = th["command"].conn /\ svc.ctx = "live"
    /\ svc' = [svc EXCEPT !.ctx = "canceled"]
    /\ UNCHANGED <<be, events, pending, queue, th>>

\* The deadline runNetworkReconnect puts on its connect.
DeadlineExpires(t) ==
    /\ Fault("deadline") /\ th[t].kind = "repair"
    /\ \E step \in {"dial", "proxy", "commit"} : At(t, step)
    /\ svc.attempt = th[t].conn /\ svc.ctx = "live"
    /\ svc' = [svc EXCEPT !.ctx = "expired"]
    /\ UNCHANGED <<be, events, pending, queue, th>>

\* Mutant: any server that runs is kept.
SetProxyReuses(t) ==
    /\ At(t, "proxy")
    /\ svc' = IF th[t].p \notin Socks THEN StoppedProxy(svc)
              ELSE [svc EXCEPT !.proxy = IF @ # None THEN @ ELSE be.active, !.socks = TRUE]
    /\ Goto(t, "commit")
    /\ UNCHANGED <<be, events, pending, queue>>

\* startProxy keeps a server its status calls enabled, and otherwise replaces it;
\* a profile without SOCKS5 stops it.
SetProxy(t) ==
    /\ At(t, "proxy")
    /\ \/ /\ th[t].p \in Socks => be.active # None
          /\ svc' = IF th[t].p \notin Socks THEN StoppedProxy(svc)
                    ELSE IF svc.proxy # None /\ svc.socks THEN svc
                    ELSE [svc EXCEPT !.proxy = be.active, !.socks = TRUE]
          /\ Goto(t, "commit")
       \/ /\ \/ th[t].p \in Socks /\ be.active = None
             \/ Fault("proxy") /\ (th[t].p \in Socks \/ svc.proxy # None)
          /\ svc' = StoppedProxy(svc)
          /\ Goto(t, "rollback")
    /\ UNCHANGED <<be, events, pending, queue>>

RollTeardown(t) ==
    /\ At(t, "rollTeardown")
    /\ CloseLocally(th[t].drop)
    /\ \/ th' = [th EXCEPT ![t].step = "rolledBack", ![t].drop = {}] /\ UNCHANGED svc
       \/ /\ CloseMayFail(th[t].drop)
          /\ svc' = FailCleanup(IF svc.attempt = th[t].conn THEN EndAttempt(svc) ELSE svc)
          /\ th' = [th EXCEPT ![t].step = "finish", ![t].err = "other", ![t].drop = {}]
    /\ UNCHANGED <<pending, queue>>

RolledBack(t) ==
    /\ At(t, "rolledBack")
    /\ svc' = IF svc.attempt = th[t].conn
              THEN [EndAttempt(svc) EXCEPT !.state = "Error"] ELSE svc
    /\ Return(t, "other")
    /\ UNCHANGED <<be, events, pending, queue>>

\* Only the current attempt may commit; any other one just reports Canceled, and leaves
\* its session as it is.
Commit(t) ==
    /\ At(t, "commit")
    /\ IF svc.attempt = th[t].conn /\ svc.ctx = "live"
       THEN /\ svc' = [EndAttempt(svc) EXCEPT !.connected = th[t].p,
                         !.state = "Connected", !.conn = th[t].conn]
            /\ Return(t, "none") /\ UNCHANGED be
       ELSE GiveUp(th[t].conn) /\ Return(t, "other") /\ UNCHANGED svc
    /\ UNCHANGED <<events, pending, queue>>

-----------------------------------------------------------------------------
(* What each kind of command does between and after these.                 *)

\* runNetworkReconnect after its disconnect; a repair that was superseded
\* returns without a word.
Resume(t) ==
    /\ At(t, "resume")
    /\ IF /\ svc.net # None /\ svc.net.conn = th[t].rep
          /\ svc.current = th[t].p
       THEN Goto(t, "check") ELSE Done(t)
    /\ UNCHANGED <<svc, be, events, pending, queue>>

\* The section of SetControlMode.
SetMode(t) ==
    /\ At(t, "mode")
    /\ IF th[t].kind = "machine"
       THEN /\ svc' = [svc EXCEPT !.mode = "machine", !.machine = th[t].p,
                         !.current = th[t].p, !.shown = th[t].p, !.owner = System]
            /\ Goto(t, "prepare")
       ELSE /\ svc' = [svc EXCEPT !.mode = "user", !.machine = None, !.owner = None]
            /\ Done(t)
    /\ UNCHANGED <<be, events, pending, queue>>

\* Mutant: the retry that is scheduled is not stopped.
DeleteKeepsTimer(t) ==
    /\ At(t, "delete")
    /\ svc' = [svc EXCEPT !.profiles = @ \ {th[t].p}]
    /\ Done(t)
    /\ UNCHANGED <<be, events, pending, queue>>

\* The second section of DeleteProfile.
Delete(t) ==
    /\ At(t, "delete")
    /\ LET p == th[t].p
           left == svc.profiles \ {p}
           heir == IF Cardinality(left) = 1 THEN CHOOSE q \in left : TRUE ELSE None
       IN svc' = IF p \notin svc.profiles THEN svc
                 ELSE [svc EXCEPT !.profiles = left,
                         !.timer = IF @ # None /\ @.p = p THEN None ELSE @,
                         !.current = IF @ = p THEN heir ELSE @,
                         !.shown = IF svc.current = p THEN heir ELSE @]
    /\ Done(t)
    /\ UNCHANGED <<be, events, pending, queue>>

FinishRepair(t) ==
    /\ At(t, "finish") /\ th[t].kind = "repair"
    /\ LET s == [svc EXCEPT !.net = None]
           failed == [s EXCEPT !.state = "Error"]
       IN svc' = IF svc.net = None \/ svc.net.conn # th[t].rep THEN svc
                 ELSE IF th[t].err = "none" THEN s
                 ELSE IF AutoEnabled(svc, th[t].p)
                      THEN StartReconnect(failed, th[t].p, 1)
                 ELSE ReleaseOwner(failed)
    /\ Done(t)
    /\ UNCHANGED <<be, events, pending, queue>>

\* The end of runScheduledReconnect, with retryReconnectLocked.
FinishRetry(t) ==
    /\ At(t, "finish") /\ th[t].kind = "retry"
    /\ svc' = IF th[t].err = "none" THEN [svc EXCEPT !.timer = None]
              ELSE IF th[t].err = "retryable" /\ th[t].n < MaxTries
                   THEN StartReconnect(svc, th[t].p, th[t].n + 1)
              ELSE ReleaseOwner([svc EXCEPT !.state = "Error", !.timer = None])
    /\ Done(t)
    /\ UNCHANGED <<be, events, pending, queue>>

\* releaseIdleOwner.
ReleasedIdleOwner(a) ==
    IF a # System /\ svc.owner = a /\ ~ConnectionActive THEN ReleaseOwner(svc) ELSE svc

\* An operation ends and is published.
FinishOperation(t) ==
    /\ At(t, "finish") /\ th[t].kind \notin {"repair", "retry"}
    /\ svc' = CASE th[t].kind = "connect" /\ th[t].err # "none" ->
                     ReleasedIdleOwner(th[t].actor)
                [] th[t].kind = "machine" /\ th[t].err = "retryable" ->
                     StartReconnect(svc, th[t].p, 1)
                [] OTHER -> svc
    /\ Done(t)
    /\ UNCHANGED <<be, events, pending, queue>>

\* Mutant: without attemptCancel.
StartCloseNoCancel ==
    /\ At("closer", "idle") /\ ("close" \in ClientOps \/ svc.fatal)
    /\ svc' = [svc EXCEPT !.closed = TRUE, !.timer = None, !.net = None, !.doomed = svc.attempt]
    /\ th' = [th EXCEPT !["closer"] = [IdleThread EXCEPT
                !.kind = "close", !.step = "unproxy", !.active = TRUE]]
    /\ UNCHANGED <<be, events, pending, queue>>

\* Mutant: a fatal error is only logged.
StartCloseLogsFatal ==
    /\ At("closer", "idle") /\ svc.fatal
    /\ svc' = [svc EXCEPT !.fatal = FALSE]
    /\ UNCHANGED <<be, events, pending, queue, th>>

\* Service.Close: at a signal or after failCleanup.  It does not take commandMu.
StartClose ==
    /\ At("closer", "idle") /\ ("close" \in ClientOps \/ svc.fatal)
    /\ svc' = [svc EXCEPT !.closed = TRUE, !.timer = None, !.net = None,
                 !.ctx = IF svc.attempt # None /\ @ = "live" THEN "canceled" ELSE @,
                 !.doomed = svc.attempt]
    /\ th' = [th EXCEPT !["closer"] = [IdleThread EXCEPT
                !.kind = "close", !.step = "unproxy", !.active = TRUE]]
    /\ UNCHANGED <<be, events, pending, queue>>

FinishClose ==
    /\ At("closer", "closed")
    /\ svc' = [EndAttempt(svc) EXCEPT !.connected = None, !.state = "Disconnected"]
    /\ Goto("closer", "exit")
    /\ UNCHANGED <<be, events, pending, queue>>

-----------------------------------------------------------------------------
(* consumeBackendEvents.                                                    *)

\* Both identities are known and differ.
Stale(e) == svc.conn # None /\ e.conn # svc.conn

Consume(type, e) ==
    /\ ~Exited /\ pending = None
    /\ e \in events /\ e.type = type
    /\ events' = events \ {e}

ConsumeNetworkChange(e) ==
    /\ Consume("network_change", e)
    /\ IF Stale(e) \/ svc.connected = None \/ svc.net # None
       THEN UNCHANGED <<svc, queue>>
       ELSE /\ svc' = [svc EXCEPT !.net = [conn |-> e.conn, p |-> svc.connected],
                                  !.state = "Reconnecting"]
            /\ queue' = queue \cup {[kind |-> "repair", actor |-> System,
                                     p |-> None, conn |-> e.conn]}
    /\ UNCHANGED <<be, pending, th>>

ConsumeDisconnected(e) ==
    /\ Consume("disconnected", e)
    /\ LET lost == IF svc.connected # None THEN svc.connected ELSE svc.manual
           repair == svc.net # None /\ svc.net.conn = e.conn
           manual == lost # None /\ lost = svc.manual
           intentional == manual \/ e.code = "local"
           schedule == /\ ~intentional /\ ~repair
                       /\ lost # None /\ svc.current = lost /\ lost \in svc.profiles
                       /\ AutoEnabled(svc, lost)
                       /\ svc.timer = None /\ e.code = "transient"
       IN IF Stale(e) THEN UNCHANGED <<svc, pending>>
          ELSE /\ \E state \in CASE repair      -> {"Reconnecting"}
                                 [] intentional -> {"Disconnected"}
                                 [] OTHER       -> {"Disconnected", "Error"} :
                    LET s == [svc EXCEPT !.connected = None, !.state = state,
                                !.socks = FALSE, !.conn = None,
                                !.manual = IF manual THEN None ELSE @]
                    IN svc' = IF schedule \/ repair THEN s ELSE ReleaseOwner(s)
               /\ pending' = IF schedule THEN lost ELSE None
    /\ UNCHANGED <<be, queue, th>>

\* s.mu was released in between.
ScheduleReconnect ==
    /\ ~Exited /\ pending # None
    /\ svc' = StartReconnect(svc, pending, 1)
    /\ pending' = None
    /\ UNCHANGED <<be, events, queue, th>>

-----------------------------------------------------------------------------
(* The world outside: sessions end, networks change, proxies fail.         *)

\* A session ends by itself; monitorClose stops its monitor and reports it.
SessionEnds(c, code) ==
    /\ Fault("loss") /\ ~Exited /\ Cardinality(events) < MaxEvents /\ c \in be.live
    /\ be' = [Down(be, {c}) EXCEPT !.monitor = IF @ = c THEN None ELSE @]
    /\ events' = events \cup {[type |-> "disconnected", conn |-> c, code |-> code]}
    /\ UNCHANGED <<svc, pending, queue, th>>

\* watchUnderlay reports one change and stops its monitor.
UnderlayChanges ==
    /\ Fault("network") /\ ~Exited /\ Cardinality(events) < MaxEvents /\ be.monitor # None
    /\ events' = events \cup {[type |-> "network_change", conn |-> be.monitor, code |-> "none"]}
    /\ be' = [be EXCEPT !.monitor = None]
    /\ UNCHANGED <<svc, pending, queue, th>>

\* The SOCKS5 listener fails; monitorProxy remembers the profile it was for.
\* Bound: one such failure waits for commandMu at a time.
ProxyFails ==
    /\ Fault("proxy") /\ ~Exited /\ svc.proxy # None /\ svc.connected # None
    /\ \A w \in queue : w.kind # "proxy"
    /\ queue' = queue \cup {[kind |-> "proxy", actor |-> System,
                             p |-> svc.connected, conn |-> svc.proxy]}
    /\ UNCHANGED <<svc, be, events, pending, th>>

-----------------------------------------------------------------------------
ThreadStep(t) ==
    \/ Cut(t) \/ Unproxy(t) \/ Detach(t) \/ Teardown(t) \/ Cleared(t)
    \/ Prepare(t) \/ Check(t) \/ Begin(t) \/ CallBackend(t) \/ Established(t)
    \/ DialError(t) \/ DialFailed(t) \/ SetProxy(t) \/ RollTeardown(t) \/ RolledBack(t)
    \/ Commit(t) \/ Resume(t) \/ SetMode(t) \/ Delete(t)
    \/ FinishRepair(t) \/ FinishRetry(t) \/ FinishOperation(t)

StartWork ==
    \E w \in queue :
        \/ StartConnect(w) \/ StartDisconnect(w) \/ StartControlMode(w) \/ UpdateActive(w)
        \/ StartReapply(w) \/ StartDelete(w) \/ StartRepair(w) \/ StartProxyFailure(w)
        \/ SelectCreated(w)

Consumer ==
    \/ \E e \in events : ConsumeNetworkChange(e) \/ ConsumeDisconnected(e)
    \/ ScheduleReconnect

Client ==
    \/ \E a \in Clients, p \in Profiles \cup {None} :
         \E kind \in AllOps \ {"create", "close"} : Submit(a, kind, p)
    \/ \E a \in Clients, p \in Profiles : CreateProfile(a, p) \/ DeleteDirectly(a, p)

Environment ==
    \/ \E c \in be.live, code \in {"transient", "ended"} : SessionEnds(c, code)
    \/ UnderlayChanges \/ ProxyFails
    \/ \E t \in Threads : DeadlineExpires(t)

\* The process is gone.
Terminated == Exited /\ UNCHANGED vars

Next ==
    \/ \E t \in Threads : ThreadStep(t)
    \/ StartWork \/ StartRetry \/ StartClose \/ CancelOperation \/ FinishClose
    \/ Consumer \/ Client \/ Environment \/ Terminated

Spec == Init /\ [][Next]_vars

\* Goroutines are scheduled, Backend.Connect returns, events are delivered and
\* timers fire.  commandMu is a sync.Mutex, which hands itself over to a waiter
\* that has starved: a waiting operation gets it though others keep asking.
Fairness ==
    /\ \A t \in Threads : WF_vars(ThreadStep(t))
    /\ WF_vars(Consumer)
    /\ SF_vars(StartRetry)
    /\ WF_vars(svc.fatal /\ StartClose) /\ WF_vars(FinishClose)
    /\ \A a \in Clients :
         SF_vars(StartDisconnect([kind |-> "disconnect", actor |-> a, p |-> None, conn |-> None]))
    /\ \A a \in Clients, p \in Profiles :
         SF_vars(StartConnect([kind |-> "connect", actor |-> a, p |-> p, conn |-> None]))
    /\ SF_vars(\E w \in queue : StartRepair(w))

FairSpec == Spec /\ Fairness

-----------------------------------------------------------------------------
(* Properties.                                                             *)

\* Nobody is inside the supervisor.
Quiet == \A t \in Threads : th[t].step = "idle"

\* When no operation is under way, the only sessions that may be up are the one the status
\* calls connected and those an operation gave up knowingly: an attempt that finds at its
\* commit that it was superseded or cancelled (daemon.go:1937), a disconnect that ends after
\* something else was committed.  A failed SOCKS5 listener, a lost race, a delete beside a
\* connect, a deadline, a switch lose no other one.
NoGhostTunnel ==
    Quiet =>
        be.live \subseteq be.left \cup (IF svc.connected = None THEN {} ELSE {svc.conn})

\* Between operations, a Connected profile with SOCKS5 has a proxy that dials
\* through the present session and not through an earlier one that startProxy found
\* running; a profile without SOCKS5 has none.
ProxyBound ==
    (Quiet /\ svc.state = "Connected") =>
        svc.proxy = IF svc.connected \in Socks THEN svc.conn ELSE None

\* While the daemon serves, a scheduled reconnect cuts no session that is in use: the timer
\* does not race a user's connect that commandMu let go first and tear down what it built.
\* (A session given up before, or being closed by a delete, it may cut.)
RetryCutsNothing ==
    (/\ ~svc.closed /\ th["command"].kind = "retry"
     /\ th["command"].step \in {"cut", "unproxy", "detach", "teardown"})
        => be.live \subseteq be.left \cup th["request"].drop

\* Machine mode stays locked: whatever fails, is exhausted, repaired, refused or
\* disconnected, nobody but the system becomes the owner of the daemon and the system does
\* not give it up, until an administrator leaves the mode.  (A daemon that starts in
\* machine mode has no owner before the first connection.)
MachineLocked ==
    [][(svc.mode = "machine" /\ svc'.mode = "machine") => svc'.owner \in {svc.owner, System}]_vars

\* A retry is only ever scheduled for a profile that exists, however its deletion
\* races the lost session's event, the running retry and its failure.
TimerForExisting == svc.timer # None => svc.timer.p \in svc.profiles

\* The attempt Service.Close found running, in whatever phase and of whatever kind, is
\* never committed.  (An operation or a retry that begins its attempt after Close may still
\* be: only the goroutine beside an operation cancels it, and at no certain time.)
CloseCancels == (svc.doomed # None /\ svc.connected # None) => svc.conn # svc.doomed

\* A cleanup failure makes the daemon exit, whatever is waiting or running, so that
\* the next start can restore what the journal recorded.
FatalExits == svc.fatal ~> Exited

\* A disconnect that was accepted ends the tunnel, though connects and retries keep
\* competing for commandMu, unless the daemon is stopped first.
DisconnectEnds == (\E w \in queue : w.kind = "disconnect") ~> (be.live = {} \/ Exited)

\* Reconnecting with nothing that would end it: a connect that got commandMu before the
\* repair has cancelled the repair (daemon.go:903) and is then ignored, because the state
\* says that a connect is under way (daemon.go:1793).
Stranded ==
    /\ svc.state = "Reconnecting" /\ svc.attempt = None
    /\ svc.net = None /\ svc.timer = None


=============================================================================
