---------------------------- MODULE MCAcquisition ----------------------------
(***************************************************************************)
(* Small instances of Acquisition for TLC.                                 *)
(***************************************************************************)
EXTENDS Acquisition

Dim(size, axes) == [size |-> size, axes |-> axes]

Rows == <<Dim(2, {"y"}), Dim(2, {"x"})>>
Row == <<Dim(3, {"x"})>>
Repeated == <<Dim(3, {}), Dim(1, {"x"})>>

Setup(dims, breakpoints, hardware) ==
  [dims |-> dims, moved |-> {"x"}, breakpoints |-> breakpoints, hardware |-> hardware]

\* Two rows, each a run; a row with a breakpoint; a point that a dimension without
\* axes repeats, with a breakpoint within its repeats and a software trigger.
SmallGenerators ==
  {Setup(Rows, << >>, TRUE), Setup(Row, <<1>>, TRUE), Setup(Repeated, <<2>>, FALSE)}

================================================================================
