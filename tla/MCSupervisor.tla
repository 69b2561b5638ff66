---------------------------- MODULE MCSupervisor ----------------------------
(* Model values and symmetry for the Supervisor runs.                       *)
EXTENDS Supervisor, TLC

CONSTANTS p1, p2, p3, u1, u2, sys, c1, c2, c3, nil

MCOwner == [p \in Profiles |-> IF p \in MachineScope THEN sys ELSE u1]
ConnSymmetry == Permutations({c1, c2, c3})

=============================================================================
