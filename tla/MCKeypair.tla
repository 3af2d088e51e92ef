------------------------------ MODULE MCKeypair ------------------------------
(***************************************************************************)
(* Instances of Keypair: all processes use configs of the same issuer.     *)
(***************************************************************************)
EXTENDS Keypair

CONSTANTS w1, w2, w3, p1, i1

OneIssuer == [p \in Processes |-> i1]
=============================================================================
