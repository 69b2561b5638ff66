-------------------------- MODULE MCNetworkJournal --------------------------
(* One object of each kind, and a host that may already have the routes to  *)
(* the server and to an excluded address.                                   *)
EXTENDS NetworkJournal, TLC

CONSTANTS server, include, dynInclude, dynExclude, dynExclude2, dns

MCObjects == {server, include, dynInclude, dynExclude, dynExclude2, dns}
MCGroup == (server :> 1) @@ (include :> 2) @@ (dynInclude :> 4) @@ (dynExclude :> 5) @@ (dynExclude2 :> 5) @@ (dns :> 6)
\* With and without a DNS server; the server route is always there.
MCConfigs == {{server, include}, {server, include, dns}}

=============================================================================
