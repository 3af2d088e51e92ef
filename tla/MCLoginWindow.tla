---------------------------- MODULE MCLoginWindow ----------------------------
(***************************************************************************)
(* Instances of LoginWindow: one window with several rounds, or several    *)
(* processes with a round each.                                            *)
(***************************************************************************)
EXTENDS LoginWindow

CONSTANTS c1, c2, r1, r2

\* Every round belongs to the first process.
OneWindow == [r \in Rounds |-> c1]

\* Each process has a round of its own.
RoundEach == [r \in Rounds |-> IF r = r1 THEN c1 ELSE c2]
=============================================================================
