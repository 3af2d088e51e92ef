------------------------------ MODULE MCSession ------------------------------
(***************************************************************************)
(* Instances of Session: who runs with which config.                       *)
(***************************************************************************)
EXTENDS Session, TLC

CONSTANTS t1, t2, x1, x2

\* Both trays run the default config: one Credential Manager entry is shared.
SharedTarget == [t \in Trays |-> x1]

\* The second tray was started with --config for another cluster.
OwnTarget == [t \in Trays |-> IF t = t1 THEN x1 ELSE x2]

TraySymmetry == Permutations(Trays)
=============================================================================
