------------------------------ MODULE MCExports ------------------------------
(***************************************************************************)
(* A small instance of Exports for TLC.                                    *)
(***************************************************************************)
EXTENDS Exports, TLC

CONSTANTS own, exported, method, t1, t2, t3

TwoAttributes == {own, exported}
OneMethod == {method}
OwnFields == {own, method}
ThreeThreads == {t1, t2, t3}
OneOrZero == 0 .. 1

================================================================================
