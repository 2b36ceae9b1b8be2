---------------------------- MODULE LeaseClient ----------------------------
(***************************************************************************)
(* What the lease client (pkg/lease/client.go) keeps, and the Boskos       *)
(* client and server below it: the state that the steps of modules Lease   *)
(* and IPPool share.                                                       *)
(***************************************************************************)

CONSTANTS
    NoStep,      \* not one of the steps
    Resource     \* resources of the Boskos server

VARIABLES
    server,      \* the resources that the server has leased to this process
    storage,     \* the Boskos client's own list of them
    leases       \* resource -> the step whose cancel the lease holds, or NoStep
=============================================================================
