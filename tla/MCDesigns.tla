------------------------------ MODULE MCDesigns ------------------------------
(***************************************************************************)
(* Small instances of Designs for TLC.                                     *)
(***************************************************************************)
EXTENDS Designs

CONSTANTS p1, p2, a1, a2, v1, v2, t1, t2, d1, d2

OnePart == {p1}
TwoParts == {p1, p2}
OneAttr == {a1}
TwoValues == {v1, v2}
TwoTables == {t1, t2}
TwoNames == {d1, d2}
OneName == {d1}

Symmetry ==
  Permutations(Parts) \cup Permutations(Attrs) \cup Permutations(Values)
    \cup Permutations(Tables) \cup Permutations(Names)

================================================================================
