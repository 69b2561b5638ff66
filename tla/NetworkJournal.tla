--------------------------- MODULE NetworkJournal ---------------------------
(***************************************************************************)
(* The network ownership journal of internal/osnet: what a connection      *)
(* installs in the operating system, the journal that says so on disk, the *)
(* rollback and cleanup that take it back, and the recovery the daemon     *)
(* runs before it opens its API.  The platform manager is Linux's.         *)
(*                                                                         *)
(* An object is a route or the DNS setting of the connection.  Each call   *)
(* to the kernel and each write of the journal is a step of its own: the   *)
(* daemon may stop between any two.  m.mu of the journaled manager makes   *)
(* one call of it indivisible to the others (op), whose callers are the    *)
(* connection's setup, its dynamic route worker, its controller and the    *)
(* client's Disconnect.  One connection exists at a time: CreateTUN of the *)
(* fixed name "flexconnect" fails until the previous device is closed, and *)
(* the device is closed after its manager.                                 *)
(*                                                                         *)
(* Abstractions.  The phase in the journal is left out, nothing reads it.  *)
(* The VPN address and the MTU live and die with the TUN device; their     *)
(* calls fail like those of a route of that device.  A call that reports   *)
(* an error changed nothing, except a journal write or removal, which may  *)
(* fail after it took effect (the directory is synced last).               *)
(***************************************************************************)
EXTENDS Naturals

CONSTANTS
    Objects,     \* routes and the DNS setting a connection may install
    Group,       \* [Objects -> 1..6], the order of platformManager.Close:
                 \* server, include, exclude, dynamic include, dynamic
                 \* exclude, DNS
    TunBound,    \* the objects that vanish with the TUN device
    Configs,     \* the configurations Set may be given, sets of objects
    HostRoutes   \* routes the host itself may have, identical to one of Objects

Dns     == {o \in Objects : Group[o] = 6}
Dynamic == {o \in Objects : Group[o] \in {4, 5}}
Static  == Objects \ Dynamic

ASSUME NetworkJournalAssumption ==
    /\ Group \in [Objects -> 1..6]
    /\ {o \in Objects : Group[o] \in {2, 4}} \subseteq TunBound
    /\ TunBound \subseteq {o \in Objects : Group[o] \in {2, 4, 6}}
    /\ Configs \subseteq SUBSET Static
    /\ HostRoutes \subseteq Objects \ (TunBound \cup Dns)

VARIABLES
    ours,     \* objects in the kernel that the daemon installed
    host,     \* objects in the kernel that the host had before
    file,     \* network-ownership.json: {} when there is none, and
              \* {objects} for one that names these objects
    journal,  \* m.journal of the connection's manager
    own,      \* the route maps and dnsBackend of its platform manager
    daemon,   \* "down", "recover" (RecoverNetworkJournal) or "up"
    conn,     \* the connection: "none", "setup", "failed", "running", "stuck",
              \* "stopped" (the route worker is gone), "closed", or
              \* "aborted" when the setup failed
    ended,    \* its session is closed (CloseChan)
    disc,     \* Disconnect: "none", "begun", "wait" (for the drain),
              \* "close", "done"
    drainErr, \* what the controller's Close returned
    fatal,    \* Disconnect reported an error: failCleanup ends the daemon
    op,       \* the call inside m.mu, or the recovery
    leaked    \* history: objects whose removal by a cleanup failed

kernel == <<ours, host>>
manager == <<journal, own>>
life == <<daemon, conn, ended, disc, drainErr, fatal>>
vars == <<ours, host, file, journal, own, daemon, conn, ended, disc, drainErr, fatal, op, leaked>>

SetSteps   == {"plan", "apply", "commit", "undo", "drop"}
DynSteps   == {"dplan", "dsync", "dcommit"}
CloseSteps == {"close", "keep", "unlink"}
Gone       == {"closed", "aborted"}
Callers    == {"setup", "worker", "controller", "disconnect", "nobody"}

Op == [pc   : {"idle", "recover"} \cup SetSteps \cup DynSteps \cup CloseSteps,
       by   : Callers,        \* who called
       want : SUBSET Objects, \* the objects asked for
       todo : SUBSET Objects, \* the objects still to handle
       err  : BOOLEAN]        \* firstErr of the loop

Idle == [pc |-> "idle", by |-> "nobody", want |-> {}, todo |-> {}, err |-> FALSE]

\* Every part of the state has its type, and an object in the kernel is either
\* the daemon's or the host's (netlink.RouteAdd never takes a route over,
\* manager_linux.go:181).
TypeOK ==
    /\ ours \subseteq Objects /\ leaked \subseteq ours
    /\ host \subseteq HostRoutes /\ ours \cap host = {}
    /\ file = {} \/ \E objects \in SUBSET Objects : file = {objects}
    /\ journal \subseteq Objects /\ own \subseteq Objects
    /\ daemon \in {"down", "recover", "up"}
    /\ conn \in {"none", "setup", "failed", "running", "stuck", "stopped"} \cup Gone
    /\ disc \in {"none", "begun", "wait", "close", "done"}
    /\ ended \in BOOLEAN /\ drainErr \in BOOLEAN /\ fatal \in BOOLEAN
    /\ op \in Op

Init ==
    /\ ours = {} /\ host \in SUBSET HostRoutes /\ leaked = {}
    /\ file = {} /\ journal = {} /\ own = {}
    /\ daemon = "down" /\ conn = "none" /\ disc = "none"
    /\ ended = FALSE /\ drainErr = FALSE /\ fatal = FALSE
    /\ op = Idle

-----------------------------------------------------------------------------
(* The journal file and the kernel.                                         *)

\* writeNetworkJournal: a failing write may have replaced the file or not.
Write(objects, ok) == file' = {objects} \/ (~ok /\ UNCHANGED file)

\* removeNetworkJournal: a failing removal may have removed it or not.
Remove(ok) == file' = {} \/ (~ok /\ UNCHANGED file)

\* What recovery would find in a journal.
Covered(f) == UNION f

\* Mutant: netlink.RouteReplace, which takes over a route of the host.
InstallReplaces(o) ==
    /\ ours' = ours \cup {o}
    /\ UNCHANGED <<host, leaked>>

\* netlink.RouteAdd fails for a route that exists.
Install(o) ==
    /\ o \notin ours \cup host
    /\ ours' = ours \cup {o}
    /\ UNCHANGED <<host, leaked>>

\* routeDel removes every route that matches, whoever added it.
Uninstall(o) ==
    /\ ours' = ours \ {o}
    /\ host' = host \ {o}
    /\ leaked' = leaked \ {o}

\* The TUN device is closed, by dev.Close or with the process.
DropDevice ==
    /\ ours' = ours \ TunBound
    /\ leaked' = leaked \ TunBound
    /\ UNCHANGED host

First(o, objects) == o \in objects /\ \A p \in objects : Group[o] <= Group[p]

Step(pc) == op' = [op EXCEPT !.pc = pc]

\* A call of the manager begins: m.mu is free.
Call(pc, by, want, todo) ==
    /\ daemon = "up" /\ op.pc = "idle"
    /\ op' = [pc |-> pc, by |-> by, want |-> want, todo |-> todo, err |-> FALSE]

-----------------------------------------------------------------------------
(* The life of a connection around the manager's calls.                     *)

\* setupTun: a new TUN device and a new manager, wrapped by the journal.  After a fatal
\* cleanup error the system may still connect, until the process is gone.
NewConnection ==
    /\ daemon = "up" /\ conn = "none"
    /\ conn' = "setup" /\ journal' = {} /\ own' = {}
    /\ UNCHANGED <<kernel, file, daemon, ended, disc, drainErr, fatal, op, leaked>>

\* The underlay snapshot or the configuration fails: Set is never called.
AbandonSetup ==
    /\ daemon = "up" /\ conn = "setup" /\ op.by # "setup"
    /\ conn' = "failed"
    /\ UNCHANGED <<kernel, file, manager, daemon, ended, disc, drainErr, fatal, op, leaked>>

\* The session of a started tunnel ends by itself.
SessionEnds ==
    /\ conn = "running" /\ ~ended
    /\ ended' = TRUE
    /\ UNCHANGED <<kernel, file, manager, daemon, conn, disc, drainErr, fatal, op, leaked>>

\* Connection.Disconnect finds a session that is not closed and closes it.
Disconnect ==
    /\ conn # "none" /\ ~ended
    /\ ended' = TRUE /\ disc' = "begun"
    /\ UNCHANGED <<kernel, file, manager, daemon, conn, drainErr, fatal, op, leaked>>

\* It waits for the controller, or closes the manager when none has started.
AwaitDrain ==
    /\ disc = "begun"
    /\ disc' = IF conn \in {"running", "stopped", "closed"} THEN "wait" ELSE "close"
    /\ UNCHANGED <<kernel, file, manager, daemon, conn, ended, drainErr, fatal, op, leaked>>

\* The controller closed its done channel: Disconnect returns TunnelError, which a second
\* goroutine sets at the same time and may not have set yet (controller.go:137-148).
Drained ==
    /\ disc = "wait" /\ conn = "closed"
    /\ disc' = "done"
    /\ fatal' \in {fatal, fatal \/ drainErr}
    /\ UNCHANGED <<kernel, file, manager, daemon, conn, ended, drainErr, op, leaked>>

\* disconnectDrainTimeout: Disconnect closes the manager itself.
DrainTimeout ==
    /\ disc = "wait"
    /\ disc' = "close"
    /\ UNCHANGED <<kernel, file, manager, daemon, conn, ended, drainErr, fatal, op, leaked>>

\* The caller's context ends first: its error is Disconnect's.
DrainCancelled ==
    /\ disc = "wait"
    /\ disc' = "done" /\ fatal' = TRUE
    /\ UNCHANGED <<kernel, file, manager, daemon, conn, ended, drainErr, op, leaked>>

\* dynamicRouteWorker returns between two reconciliations.
WorkerStops ==
    /\ conn = "running" /\ ended /\ op.by # "worker"
    /\ conn' = "stopped"
    /\ UNCHANGED <<kernel, file, manager, daemon, ended, disc, drainErr, fatal, op, leaked>>

\* The connection is gone and nobody refers to its manager any more.  (Left out: a Disconnect
\* that timed out waiting for the drain and calls the old manager's Close only when the next
\* connection has written its journal, which that call would remove.)
Release ==
    /\ conn \in Gone /\ disc \in {"none", "done"} /\ op = Idle
    /\ conn' = "none" /\ disc' = "none" /\ ended' = FALSE /\ drainErr' = FALSE
    /\ journal' = {} /\ own' = {}
    /\ UNCHANGED <<kernel, file, daemon, fatal, op, leaked>>

-----------------------------------------------------------------------------
(* journaledManager.Set over platformManager.Set.                           *)

StartSet(cfg) ==
    /\ conn = "setup"
    /\ Call("plan", "setup", cfg, cfg)
    /\ journal' = cfg
    /\ UNCHANGED <<kernel, file, own, life, leaked>>

\* A failing plan returns at once, with no rollback.
WritePlan(ok) ==
    /\ op.pc = "plan"
    /\ Write(journal, ok)
    /\ IF ok THEN Step("apply") /\ UNCHANGED conn
             ELSE op' = Idle /\ conn' = "failed"
    /\ UNCHANGED <<kernel, manager, daemon, ended, disc, drainErr, fatal, leaked>>

Apply(o) ==
    /\ op.pc = "apply" /\ First(o, op.todo)
    /\ Install(o)
    /\ own' = own \cup {o}
    /\ op' = [op EXCEPT !.todo = @ \ {o}]
    /\ UNCHANGED <<file, journal, life>>

\* Mutant: a route is recorded as owned before the kernel accepted it.
ApplyFailsOwning ==
    /\ op.pc = "apply" /\ op.todo # {}
    /\ own' = own \cup {o \in op.todo : First(o, op.todo)}
    /\ op' = [op EXCEPT !.pc = "undo", !.todo = own']
    /\ UNCHANGED <<kernel, file, journal, life, leaked>>

\* A call of platformManager.Set fails: the rollback begins.
ApplyFails ==
    /\ op.pc = "apply" /\ op.todo # {}
    /\ op' = [op EXCEPT !.pc = "undo", !.todo = own]
    /\ UNCHANGED <<kernel, file, manager, life, leaked>>

Applied ==
    /\ op.pc = "apply" /\ op.todo = {}
    /\ Step("commit")
    /\ UNCHANGED <<kernel, file, manager, life, leaked>>

\* Set returns and Tunnel goes on to startTun, or the commit fails.  When the session has
\* been closed meanwhile, TunnelController.Start runs its own close hook, which waits for
\* a route worker that was not started: the setup is stuck until the process ends.
WriteCommit(ok) ==
    /\ op.pc = "commit"
    /\ Write(journal, ok)
    /\ IF ok THEN op' = Idle /\ conn' = (IF ended THEN "stuck" ELSE "running")
             ELSE op' = [op EXCEPT !.pc = "undo", !.todo = own] /\ UNCHANGED conn
    /\ UNCHANGED <<kernel, manager, daemon, ended, disc, drainErr, fatal, leaked>>

\* The rollback ran to its end.  Set drops the journal only after a clean one.
UndoEnds ==
    /\ op.pc = "undo" /\ op.todo = {}
    /\ IF op.err THEN op' = Idle /\ conn' = "failed"
                 ELSE Step("drop") /\ UNCHANGED conn
    /\ UNCHANGED <<kernel, file, manager, daemon, ended, disc, drainErr, fatal, leaked>>

\* The result of this removal is ignored.
DropPlan(ok) ==
    /\ op.pc = "drop"
    /\ Remove(ok)
    /\ op' = Idle /\ conn' = "failed"
    /\ UNCHANGED <<kernel, manager, daemon, ended, disc, drainErr, fatal, leaked>>

-----------------------------------------------------------------------------
(* journaledManager.SetDynamicRoutes, called by the route worker.           *)

StartDynamic(next) ==
    /\ conn = "running"
    /\ Call("dplan", "worker", next, {})
    /\ UNCHANGED <<kernel, file, manager, life, leaked>>

\* Mutant: the plan names the new dynamic routes only.
PlannedReplaces == (journal \ Dynamic) \cup op.want

\* The plan names the old and the new dynamic routes (unionStrings).
Planned == journal \cup op.want
Committed == (journal \ Dynamic) \cup op.want

\* platformManager.syncRoutes has still to add or to delete these.
ToAdd == op.want \ own
ToDelete == (own \cap Dynamic) \ op.want

WriteDynamicPlan(ok) ==
    /\ op.pc = "dplan"
    /\ Write(Planned, ok)
    /\ IF ok THEN Step("dsync") ELSE op' = Idle
    /\ UNCHANGED <<kernel, manager, life, leaked>>

DynamicAdd(o) ==
    /\ op.pc = "dsync" /\ o \in ToAdd /\ First(o, ToAdd \cup ToDelete)
    /\ Install(o)
    /\ own' = own \cup {o}
    /\ UNCHANGED <<file, journal, life, op>>

\* The group's additions come first.
DynamicDelete(o) ==
    /\ op.pc = "dsync" /\ o \in ToDelete /\ First(o, ToAdd \cup ToDelete)
    /\ \A p \in ToAdd : Group[p] # Group[o]
    /\ Uninstall(o)
    /\ own' = own \ {o}
    /\ UNCHANGED <<file, journal, life, op>>

\* One call fails: the rest is not tried, the plan stays in force.
DynamicFails ==
    /\ op.pc = "dsync" /\ ToAdd \cup ToDelete # {}
    /\ journal' = Planned
    /\ op' = Idle
    /\ UNCHANGED <<kernel, file, own, life, leaked>>

DynamicSynced ==
    /\ op.pc = "dsync" /\ ToAdd \cup ToDelete = {}
    /\ Step("dcommit")
    /\ UNCHANGED <<kernel, file, manager, life, leaked>>

WriteDynamicCommit(ok) ==
    /\ op.pc = "dcommit"
    /\ Write(Committed, ok)
    /\ journal' = IF ok THEN Committed ELSE Planned
    /\ op' = Idle
    /\ UNCHANGED <<kernel, own, life, leaked>>

-----------------------------------------------------------------------------
(* platformManager.Close, in the rollback of Set and in closeLocked.        *)

\* Removing one object.  The route maps are emptied whatever happened; the
\* DNS backend is forgotten only when DNS was restored.
CloseObject(o, ok) ==
    /\ op.pc \in {"undo", "close"} /\ First(o, op.todo)
    /\ op' = [op EXCEPT !.todo = @ \ {o}, !.err = @ \/ ~ok]
    /\ IF ok THEN Uninstall(o)
             ELSE leaked' = leaked \cup ({o} \cap ours) /\ UNCHANGED kernel
    /\ own' = IF ok \/ o \notin Dns THEN own \ {o} ELSE own
    /\ UNCHANGED <<file, journal, life>>

\* Close by the setup that failed, by the controller once the route worker has
\* stopped, and by Disconnect.
StartClose(by) ==
    /\ \/ by = "setup" /\ conn = "failed"
       \/ by = "controller" /\ conn = "stopped"
       \/ by = "disconnect" /\ disc = "close"
    /\ Call("close", by, {}, own)
    /\ UNCHANGED <<kernel, file, manager, life, leaked>>

\* closeLocked has removed what it could: keep the journal or remove it.
CloseEnds ==
    /\ op.pc = "close" /\ op.todo = {}
    /\ Step(IF op.err THEN "keep" ELSE "unlink")
    /\ UNCHANGED <<kernel, file, manager, life, leaked>>

\* Close returns to its caller.  Setup and controller go on to dev.Close; an
\* error reaches the daemon only through Disconnect.
Return(failed) ==
    /\ op' = Idle
    /\ IF op.by = "disconnect"
         THEN /\ disc' = "done" /\ fatal' = (fatal \/ failed)
              /\ UNCHANGED <<kernel, leaked, conn, ended, drainErr>>
         ELSE /\ DropDevice
              /\ conn' = IF op.by = "setup" THEN "aborted" ELSE "closed"
              /\ ended' = TRUE
              /\ drainErr' = (op.by = "controller" /\ failed)
              /\ UNCHANGED <<disc, fatal>>
    /\ UNCHANGED <<manager, daemon>>

\* The journal is written again, the result is ignored.
KeepJournal(ok) ==
    /\ op.pc = "keep"
    /\ Write(journal, ok)
    /\ Return(TRUE)

Unlink(ok) ==
    /\ op.pc = "unlink"
    /\ Remove(ok)
    /\ Return(~ok)

-----------------------------------------------------------------------------
(* The daemon: stop at any moment, recovery at the next start.              *)

Stop ==
    /\ daemon # "down"
    /\ daemon' = "down" /\ conn' = "none" /\ disc' = "none"
    /\ ended' = FALSE /\ drainErr' = FALSE /\ fatal' = FALSE
    /\ journal' = {} /\ own' = {} /\ op' = Idle
    /\ DropDevice
    /\ UNCHANGED file

\* RecoverNetworkJournal.  Without the TUN device its routes are skipped.
Start ==
    /\ daemon = "down"
    /\ IF file = {}
         THEN daemon' = "up" /\ UNCHANGED op
         ELSE /\ daemon' = "recover"
              /\ op' = [Idle EXCEPT !.pc = "recover", !.todo = Covered(file) \ TunBound]
    /\ UNCHANGED <<kernel, file, manager, conn, ended, disc, drainErr, fatal, leaked>>

\* platformRecoverJournal: physical routes, then DNS; errors are collected.
RecoverObject(o, ok) ==
    /\ op.pc = "recover" /\ o \in op.todo
    /\ o \in Dns => op.todo \subseteq Dns
    /\ op' = [op EXCEPT !.todo = @ \ {o}, !.err = @ \/ ~ok]
    /\ IF ok THEN Uninstall(o) ELSE UNCHANGED <<kernel, leaked>>
    /\ UNCHANGED <<file, manager, life>>

\* Mutant: a failed recovery is logged and the daemon starts all the same.
RecoverEndsAnyway(ok) ==
    /\ op.pc = "recover" /\ op.todo = {}
    /\ IF op.err THEN UNCHANGED file ELSE Remove(ok)
    /\ daemon' = "up"
    /\ op' = Idle
    /\ UNCHANGED <<kernel, manager, conn, ended, disc, drainErr, fatal, leaked>>

\* Any error ends the daemon and leaves the journal to the next start.
RecoverEnds(ok) ==
    /\ op.pc = "recover" /\ op.todo = {}
    /\ IF op.err THEN UNCHANGED file ELSE Remove(ok)
    /\ daemon' = IF ok /\ ~op.err THEN "up" ELSE "down"
    /\ op' = Idle
    /\ UNCHANGED <<kernel, manager, conn, ended, disc, drainErr, fatal, leaked>>

-----------------------------------------------------------------------------
Next ==
    \/ NewConnection \/ AbandonSetup \/ SessionEnds \/ WorkerStops \/ Release
    \/ Disconnect \/ AwaitDrain \/ Drained \/ DrainTimeout \/ DrainCancelled
    \/ \E cfg \in Configs : StartSet(cfg)
    \/ \E next \in SUBSET Dynamic : StartDynamic(next)
    \/ \E by \in {"setup", "controller", "disconnect"} : StartClose(by)
    \/ \E o \in Objects : Apply(o) \/ DynamicAdd(o) \/ DynamicDelete(o)
    \/ \E o \in Objects, ok \in BOOLEAN : CloseObject(o, ok) \/ RecoverObject(o, ok)
    \/ \E ok \in BOOLEAN :
          \/ WritePlan(ok) \/ WriteCommit(ok) \/ DropPlan(ok)
          \/ WriteDynamicPlan(ok) \/ WriteDynamicCommit(ok)
          \/ KeepJournal(ok) \/ Unlink(ok) \/ RecoverEnds(ok)
    \/ ApplyFails \/ Applied \/ UndoEnds \/ DynamicFails \/ DynamicSynced \/ CloseEnds
    \/ Start \/ Stop

Spec == Init /\ [][Next]_vars

-----------------------------------------------------------------------------
(* Properties.                                                              *)

\* Whatever the daemon has in the kernel is named by the journal on disk, so
\* that a stop at any moment can be recovered from; the only exceptions are
\* objects whose removal by a cleanup has already failed (journal.go:49-105,
\* "persists network-ownership.json before applying", docs/ARCH.md:48).
JournalCovers == ours \ leaked \subseteq Covered(file)

\* A running daemon without a connection has nothing left in the kernel but
\* what a cleanup reported it could not remove: every way a connection can end
\* and every start after a crash take everything back (journal.go:122-166).
NothingLeftBehind == daemon = "up" /\ conn = "none" => ours \subseteq leaked

\* A running daemon never removes a route the host had before, not even one
\* equal to a route it wanted to add ("Cleanup removes only exact objects owned
\* by the connection", docs/ARCH.md:49; manager_linux.go:166-196).
HostRoutesKept == [][daemon = "up" => host \subseteq host']_vars

=============================================================================
