------------------------------- MODULE MCDriver -------------------------------
(* Instances of DriverClients for TLC.                                     *)
EXTENDS DriverClients, TLC

CONSTANTS c1, c2, d1, d2

OwnDriver == (c1 :> d1) @@ (c2 :> d2)

Bodies == Permutations(Body)
=============================================================================
