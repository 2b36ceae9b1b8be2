------------------------- MODULE MCEphemeralCluster -------------------------
(***************************************************************************)
(* The instance of EphemeralCluster that its configurations describe: an   *)
(* EC for which up to two jobs are created, with one fault.                *)
(***************************************************************************)
EXTENDS EphemeralCluster
=============================================================================
