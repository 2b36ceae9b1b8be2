------------------------------ MODULE MCIPPool ------------------------------
(***************************************************************************)
(* An instance of IPPool: two tests that want two chunks each of a pool of *)
(* two.                                                                    *)
(***************************************************************************)
EXTENDS IPPool

CONSTANTS a, b, none, r1, r2

Steps == {a, b}
Pool == {r1, r2}
=============================================================================
