------------------------------ MODULE MCNotifier ------------------------------
(***************************************************************************)
(* A small instance of Notifier for TLC.                                   *)
(***************************************************************************)
EXTENDS Notifier

CONSTANTS f1, f2, l1, o1, o2, o3, s1, s2, v1, v2

TwoFields == {f1, f2}
OneLeaf == {l1}
TwoValues == {v1, v2}
ThreeObjects == {o1, o2, o3}
TwoSubscribers == {s1, s2}

Symmetry ==
  Permutations(Fields) \cup Permutations(Leaves) \cup Permutations(Objects)
    \cup Permutations(Subscribers)

================================================================================
