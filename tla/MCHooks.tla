------------------------------- MODULE MCHooks -------------------------------
(***************************************************************************)
(* A small instance of Hooks for TLC.                                      *)
(***************************************************************************)
EXTENDS Hooks

CONSTANTS p1, p2, p3

ThreeParts == {p1, p2, p3}
ThreeInOrder == <<p1, p2, p3>>

================================================================================
