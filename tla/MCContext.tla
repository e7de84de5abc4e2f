------------------------------ MODULE MCContext ------------------------------
(***************************************************************************)
(* Small instances of Context for TLC.                                     *)
(***************************************************************************)
EXTENDS Context

CONSTANTS c1, c2, w1, w2

TwoCalls == {c1, c2}
OneWhen == {w1}
OneWatch == {w2}

================================================================================
