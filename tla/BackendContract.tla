--------------------------- MODULE BackendContract ---------------------------
(***************************************************************************)
(* What vpn.Backend promises the supervisor about a connection: Connect    *)
(* fails or the connection is announced; an announced one is reported      *)
(* disconnected once, after it was announced, whatever ended it; and the   *)
(* reason tells an end somebody asked for from a loss, since only a loss   *)
(* is reconnected.                                                         *)
(***************************************************************************)
CONSTANT Conns

VARIABLES
    phase,  \* what the supervisor has been told
    asked,  \* "no", "asked": Disconnect was called, "cut": it closed the socket
    cause,  \* why the session has ended, as far as it has
    gone    \* the process has died

vars == <<phase, asked, cause, gone>>

TypeOK ==
    /\ phase \in [Conns -> {"idle", "trying", "failed", "up", "ended"}]
    /\ asked \in [Conns -> {"no", "asked", "cut"}]
    /\ cause \in [Conns -> {"none", "local", "loss"}]
    /\ gone \in BOOLEAN

Init ==
    /\ phase = [c \in Conns |-> "idle"]
    /\ asked = [c \in Conns |-> "no"]
    /\ cause = [c \in Conns |-> "none"]
    /\ gone = FALSE

Try(c) ==
    /\ phase[c] = "idle"
    /\ phase' = [phase EXCEPT ![c] = "trying"]
    /\ UNCHANGED <<asked, cause, gone>>

Fail(c) ==
    /\ phase[c] \in {"idle", "trying"}
    /\ phase' = [phase EXCEPT ![c] = "failed"]
    /\ UNCHANGED <<asked, cause, gone>>

\* A connection may have ended or been asked to before it is announced.
Announce(c) ==
    /\ phase[c] = "trying"
    /\ phase' = [phase EXCEPT ![c] = "up"]
    /\ \E a \in {"no", "asked", "cut"}, r \in {"none", "local", "loss"} :
         /\ r = "local" => a # "no"
         /\ asked' = [asked EXCEPT ![c] = a] /\ cause' = [cause EXCEPT ![c] = r]
    /\ UNCHANGED gone

Ask(c) ==
    /\ phase[c] \in {"up", "ended"}
    /\ \/ asked[c] = "no" /\ asked' = [asked EXCEPT ![c] = "asked"]
       \/ asked[c] = "asked" /\ asked' = [asked EXCEPT ![c] = "cut"]
    /\ UNCHANGED <<phase, cause, gone>>

End(c) ==
    /\ phase[c] = "up" /\ cause[c] = "none"
    /\ \/ asked[c] # "no" /\ cause' = [cause EXCEPT ![c] = "local"]
       \/ asked[c] = "no" /\ cause' = [cause EXCEPT ![c] = "loss"]
    /\ UNCHANGED <<phase, asked, gone>>

Report(c) ==
    /\ ~gone /\ phase[c] = "up" /\ cause[c] # "none"
    /\ phase' = [phase EXCEPT ![c] = "ended"]
    /\ UNCHANGED <<asked, cause, gone>>

Die == ~gone /\ gone' = TRUE /\ UNCHANGED <<phase, asked, cause>>

Next ==
    \/ \E c \in Conns : Try(c) \/ Fail(c) \/ Announce(c) \/ Ask(c) \/ End(c) \/ Report(c)
    \/ Die

\* While the process lives an end is reported in the end.
Spec == Init /\ [][Next]_vars /\ \A c \in Conns : WF_vars(Report(c))
=============================================================================
