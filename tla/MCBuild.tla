------------------------------- MODULE MCBuild -------------------------------
(***************************************************************************)
(* Two ci-operators with two attempts each; builds enough for both to use  *)
(* all of them one after the other.                                        *)
(***************************************************************************)
EXTENDS Build

CONSTANTS o1, o2

Ops == {o1, o2}
=============================================================================
