------------------------------ MODULE MCLease ------------------------------
(***************************************************************************)
(* An instance of Lease: two tests that name the same two types in         *)
(* opposite orders, one of them with two leases of a type.                 *)
(***************************************************************************)
EXTENDS Lease

CONSTANTS a, b, none, r1, r2, r3

Steps == {a, b}

Lease(type, count, profile) == [type |-> type, count |-> count, profile |-> profile]

ThreeResources == {r1, r2, r3}

CrossedTypes == [r \in ThreeResources |-> IF r = r1 THEN 1 ELSE 2]

CrossedNeeds ==
    [s \in Steps |-> IF s = a THEN <<Lease(2, 2, FALSE), Lease(1, 1, TRUE)>>
                     ELSE <<Lease(1, 1, FALSE), Lease(2, 1, FALSE)>>]

ASSUME NeedsAreOrderly == Orderly
=============================================================================
