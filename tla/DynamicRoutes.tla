---------------------------- MODULE DynamicRoutes ----------------------------
(***************************************************************************)
(* Split tunnelling by domain name: the leases that DNS answers create,    *)
(* their expiry, the host routes reconciled with them and the health that  *)
(* is reported (internal/anyconnect/tunnel/tun.go).  Datapath extends this *)
(* module and hands the answers over.                                      *)
(*                                                                         *)
(* An answer is what dynamicSplitRoutes extracts from a packet: the name   *)
(* asked for, the addresses its CNAME chain leads to and their least TTL.  *)
(* A route of the kernel is its address; the journal and the steps of the  *)
(* manager are in NetworkJournal, here a reconciliation ends somewhere on  *)
(* their way.  Time is a number of ticks, a lease holds the ticks it has   *)
(* left.                                                                   *)
(***************************************************************************)
EXTENDS Naturals, Sequences, FiniteSets

CONSTANTS
    IncludeDomains, ExcludeDomains, OtherDomains,   \* names that answers are about
    Addrs,              \* addresses in answers
    MaxAnswer,          \* bound on the addresses of one answer
    TTLs,               \* and their TTL, in ticks
    MinTTL, MaxTTL,     \* minimumDynamicRouteTTL and maximumDynamicRouteTTL, in ticks
    MaxRoutes,          \* maximumDynamicRoutes, 4096 in the code
    HealthCap           \* capacity of NetworkErrors, 8 in the code

Domains == IncludeDomains \cup ExcludeDomains
Tables == {"include", "exclude"}

ASSUME RoutesAssumption ==
    /\ MinTTL \in Nat \ {0} /\ MaxTTL \in Nat /\ MinTTL <= MaxTTL /\ TTLs \subseteq Nat
    /\ MaxRoutes \in Nat /\ HealthCap \in Nat \ {0}
    /\ Domains \cap OtherDomains = {}

VARIABLES
    leases,     \* DynamicSplitIncludeResolved and DynamicSplitExcludeResolved
    routes,     \* the host routes in the kernel, by table
    health,     \* the channel NetworkErrors
    shown       \* what the daemon heard last

routeVars == <<leases, routes, health, shown>>

-----------------------------------------------------------------------------
Lease == [addrs : SUBSET Addrs, left : 0..MaxTTL]
NoLease == [addrs |-> {}, left |-> 0]       \* no entry in either table

Answer == [name : Domains \cup OtherDomains,
           addrs : {A \in SUBSET Addrs : Cardinality(A) <= MaxAnswer}, ttl : TTLs]

RoutesTypeOK ==
    /\ leases \in [Domains -> Lease]
    /\ routes \in [Tables -> SUBSET Addrs]
    /\ health \in Seq({"ok", "err"}) /\ Len(health) <= HealthCap
    /\ shown \in {"ok", "err"}

RoutesInit ==
    /\ leases = [d \in Domains |-> NoLease]
    /\ routes = [t \in Tables |-> {}]
    /\ health = <<>>
    /\ shown = "ok"

\* A name on both lists is included.
Table(d) == IF d \in IncludeDomains THEN "include" ELSE "exclude"

\* collectDynamicRoutes
Wanted == [t \in Tables |-> UNION {leases[d].addrs : d \in {x \in Domains : Table(x) = t}}]

\* Mutant: a full channel drops the new report.
RecordedOrDropped(reports, h) ==
    IF Len(reports) < HealthCap THEN Append(reports, h) ELSE reports

\* recordNetworkHealth makes room by dropping the oldest report.
Recorded(reports, h) ==
    Append(IF Len(reports) < HealthCap THEN reports ELSE Tail(reports), h)

\* Mutant: a server may ask for any time.
ClampBelow(ttl) == IF ttl < MinTTL THEN MinTTL ELSE ttl

\* The lease of an answer, in dynamicSplitRoutes.
Clamp(ttl) == IF ttl < MinTTL THEN MinTTL ELSE IF ttl > MaxTTL THEN MaxTTL ELSE ttl

\* prospectiveDynamicRouteCount: an address in both tables counts once.
Prospective(d, addrs) == Cardinality(UNION {leases[x].addrs : x \in Domains \ {d}} \cup addrs)

\* dynamicSplitRoutes returns before it looks at the leases.
Ignored(a) == a.name \notin Domains \/ a.addrs = {}

\* dynamicSplitRoutes: the answer replaces the lease of its name, or is refused.
Refuse(a) ==
    /\ Prospective(a.name, a.addrs) > MaxRoutes
    /\ health' = Recorded(health, "err")
    /\ UNCHANGED <<leases, routes, shown>>

Grant(a) ==
    /\ Prospective(a.name, a.addrs) <= MaxRoutes
    /\ leases' = [leases EXCEPT ![a.name] = [addrs |-> a.addrs, left |-> Clamp(a.ttl)]]
    /\ UNCHANGED <<routes, health, shown>>

Expired == {d \in Domains : leases[d].addrs # {} /\ leases[d].left = 0}

\* expireDynamicRoutes found something to remove; the worker reconciles next.
Expire ==
    /\ Expired # {}
    /\ leases' = [d \in Domains |-> IF d \in Expired THEN NoLease ELSE leases[d]]
    /\ UNCHANGED <<routes, health, shown>>

Age ==
    /\ leases' = [d \in Domains |-> [leases[d] EXCEPT !.left = IF @ > 0 THEN @ - 1 ELSE 0]]
    /\ leases' # leases
    /\ UNCHANGED <<routes, health, shown>>

\* syncRoutes adds what is missing, then deletes the rest.
OnTheWay(old, next) ==
    {p \in SUBSET (old \cup next) : old \cap next \subseteq p /\ (old \ p = {} \/ next \subseteq p)}

\* reconcileDynamicRoutes: the manager syncs the includes before the excludes; a failure,
\* also of the journal, leaves it on the way.
ReconcileOk ==
    /\ routes' = Wanted
    /\ health' = Recorded(health, "ok")
    /\ UNCHANGED <<leases, shown>>

ReconcileFails ==
    /\ \E p \in OnTheWay(routes["include"], Wanted["include"]),
          q \in OnTheWay(routes["exclude"], Wanted["exclude"]) :
          /\ q = routes["exclude"] \/ p = Wanted["include"]
          /\ routes' = [t \in Tables |-> IF t = "include" THEN p ELSE q]
    /\ health' = Recorded(health, "err")
    /\ UNCHANGED <<leases, shown>>

\* Backend.monitorNetworkHealth passes the report on.
ReportHealth ==
    /\ health # <<>>
    /\ shown' = Head(health)
    /\ health' = Tail(health)
    /\ UNCHANGED <<leases, routes>>

=============================================================================
