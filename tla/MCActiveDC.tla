------------------------------ MODULE MCActiveDC ------------------------------
(***************************************************************************)
(* Instances of ActiveDC.                                                  *)
(***************************************************************************)
EXTENDS ActiveDC

CONSTANTS dc1, dc2, d1, d2
=============================================================================
