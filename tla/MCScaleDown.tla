---------------------------- MODULE MCScaleDown ----------------------------
(***************************************************************************)
(* The instance of ScaleDown that ScaleDown.cfg describes: two nodes, a    *)
(* pod that arrives at some time, and one fault of any kind.               *)
(***************************************************************************)
EXTENDS ScaleDown
=============================================================================
