---------------------------- MODULE MCProfileTxn ----------------------------
(* Model values and symmetry for the ProfileTxn runs.                       *)
EXTENDS ProfileTxn, TLC

CONSTANTS p1, p2, n1, n2, n3, u1, sys, r1, r2, nil

MCProfiles == {p1, p2}
\* p1 belongs to an ordinary user, p2 is a machine profile.
MCOwner == (p1 :> u1) @@ (p2 :> sys)
\* On Unix every profile is created, and owned, by System.
MCUnixOwner == (p1 :> sys) @@ (p2 :> sys)
\* Without a machine profile the two profiles are interchangeable.
UnixSymmetry == {f @@ g @@ h : f \in Permutations({n1, n2, n3}), g \in Permutations({r1, r2}),
                               h \in Permutations({p1, p2})}
ModeSymmetry == {f @@ g : f \in Permutations({n1, n2}), g \in Permutations({r1, r2})}

=============================================================================
