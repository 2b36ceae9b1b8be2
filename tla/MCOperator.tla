----------------------------- MODULE MCOperator -----------------------------
(***************************************************************************)
(* An instance of Operator: two promotion steps, and two requests to the   *)
(* lease proxy.                                                            *)
(***************************************************************************)
EXTENDS Operator

CONSTANTS p1, p2, r1, r2

Promotions == {p1, p2}
Requests == {r1, r2}
=============================================================================
