---------------------------- MODULE NotifierProofs ----------------------------
(***************************************************************************)
(* What the notifier of a block promises for any fields, values, models    *)
(* and subscribers and however deep squashes are nested: its tree has the  *)
(* nodes that its subscribers need, and after each squash every client     *)
(* holds what the block does.                                              *)
(***************************************************************************)
EXTENDS Notifier, WellFoundedInduction, SequenceTheorems, TLAPS

--------------------------------------------------------------------------------
(***************************************************************************)
(* Sequences, and what the library makes of them                           *)
(***************************************************************************)
\* A set of numbers that is not empty has a smallest.
LEMMA SmallestOf ==
  ASSUME NEW S \in SUBSET Nat, S # {}
  PROVE  \E x \in S : \A y \in S : x <= y
<1> DEFINE R == {ss \in Nat \X Nat : ss[1] < ss[2]}
<1>1. IsWellFoundedOn(R, Nat)
  BY NatLessThanWellFounded DEF OpToRel
<1>2. PICK x \in S : \A y \in S : ~(<<y, x>> \in R)
  BY <1>1, WFMin
<1>3. \A y \in S : <<y, x>> \in Nat \X Nat /\ <<y, x>>[1] = y /\ <<y, x>>[2] = x
  OBVIOUS
<1>4. \A y \in S : ~(y < x)
  BY <1>2, <1>3
<1> QED BY <1>4

\* What holds of 0 and of the number after each that it holds of holds of all: S are
\* those that it does not hold of.
LEMMA NoneIsFirst ==
  ASSUME NEW N \in Nat, NEW S \in SUBSET (0 .. N), 0 \notin S,
         \A n \in 1 .. N : n \in S => n - 1 \in S
  PROVE  S = {}
<1> SUFFICES ASSUME S # {} PROVE FALSE
  OBVIOUS
<1>1. S \in SUBSET Nat
  OBVIOUS
<1>2. PICK x \in S : \A y \in S : x <= y
  BY <1>1, SmallestOf
<1>3. x \in 1 .. N /\ x - 1 \in S
  BY <1>2
<1> QED BY <1>2, <1>3

\* A finite set of numbers has a largest one, and Max is it.
LEMMA MaxIs ==
  ASSUME NEW N \in Nat, NEW S \in SUBSET (1 .. N), S # {}
  PROVE  Max(S) \in S /\ \A y \in S : y <= Max(S)
<1> DEFINE R == {N - y : y \in S}
<1>1. R \in SUBSET Nat /\ R # {}
  <2>1. \A y \in S : y \in Nat /\ N - y \in Nat
    OBVIOUS
  <2> QED BY <2>1
<1>2. PICK x \in R : \A y \in R : x <= y
  <2> HIDE DEF R
  <2> QED BY <1>1, SmallestOf
<1>3. PICK z \in S : x = N - z
  OBVIOUS
<1>4. \A y \in S : y <= z
  <2> SUFFICES ASSUME NEW y \in S PROVE y <= z
    OBVIOUS
  <2>1. N - y \in R
    OBVIOUS
  <2> QED BY <1>2, <1>3, <2>1
<1> QED BY <1>3, <1>4 DEF Max

\* A node has the data of the last change of all of it.
LEMMA NewDataIs ==
  ASSUME NEW p, NEW X, NEW seq \in Seq(X)
  PROVE  \/ NewData(p, seq) = nodes[p] /\ \A n \in 1 .. Len(seq) : seq[n].path # Root
         \/ \E last \in 1 .. Len(seq) :
              /\ NewData(p, seq) = seq[last].data
              /\ seq[last].path = Root
              /\ \A n \in 1 .. Len(seq) : n > last => seq[n].path # Root
<1> DEFINE I == {i \in 1 .. Len(seq) : seq[i].path = Root}
<1>1. NewData(p, seq) = LET last == IF I # {} THEN Max(I) ELSE 0
                        IN  IF last = 0 THEN nodes[p] ELSE seq[last].data
  BY DEF NewData, SelectLastInSeq
<1>2. CASE I = {}
  BY <1>1, <1>2
<1>3. CASE I # {}
  <2>1. Len(seq) \in Nat /\ I \in SUBSET (1 .. Len(seq))
    OBVIOUS
  <2>2. Max(I) \in I /\ \A y \in I : y <= Max(I)
    <3> HIDE DEF I
    <3> QED BY <1>3, <2>1, MaxIs
  <2>3. Max(I) \in 1 .. Len(seq) /\ Max(I) # 0 /\ seq[Max(I)].path = Root
    BY <2>1, <2>2
  <2>4. NewData(p, seq) = seq[Max(I)].data
    <3> HIDE DEF I
    <3> QED BY <1>1, <1>3, <2>3
  <2>5. \A n \in 1 .. Len(seq) : n > Max(I) => seq[n].path # Root
    <3> SUFFICES ASSUME NEW n \in 1 .. Len(seq), n > Max(I), seq[n].path = Root PROVE FALSE
      OBVIOUS
    <3>1. n \in I
      OBVIOUS
    <3> QED BY <2>1, <2>2, <2>3, <3>1
  <2> QED BY <2>3, <2>4, <2>5
<1> QED BY <1>2, <1>3

LEMMA OneMore ==
  ASSUME NEW X, NEW s \in Seq(X), NEW t \in Seq(X)
  PROVE  Len(t) = 1 => (s \o t)[Len(s \o t)] = t[1]
<1>1. Len(s) \in Nat /\ Len(t) \in Nat /\ Len(s \o t) = Len(s) + Len(t)
  OBVIOUS
<1>2. \A i \in 1 .. Len(s) + Len(t) : (s \o t)[i] = IF i <= Len(s) THEN s[i] ELSE t[i - Len(s)]
  OBVIOUS
<1> SUFFICES ASSUME Len(t) = 1 PROVE (s \o t)[Len(s \o t)] = t[1]
  OBVIOUS
<1>3. Len(s) + 1 \in 1 .. Len(s) + Len(t) /\ Len(s \o t) = Len(s) + 1
  BY <1>1
<1>4. (s \o t)[Len(s) + 1] = t[Len(s) + 1 - Len(s)]
  BY <1>1, <1>2, <1>3
<1>5. Len(s) + 1 - Len(s) = 1
  BY <1>1
<1> QED BY <1>3, <1>4, <1>5

\* FlattenSeq of sequences with one or no item each: k counts the items.
LEMMA FlattenIs ==
  ASSUME NEW X, NEW N \in Nat, N > 0, NEW seqs \in Seq(Seq(X)), Len(seqs) = N
  PROVE  \E flat :
           /\ flat = [i \in 1 .. N |-> IF i = 1 THEN seqs[i] ELSE flat[i - 1] \o seqs[i]]
           /\ FlattenSeq(seqs) = flat[N]
<1> DEFINE Upto(m, f) == f = [i \in 1 .. m |-> IF i = 1 THEN seqs[i] ELSE f[i - 1] \o seqs[i]]
           Bad == {m \in 0 .. N : ~\E f : Upto(m, f)}
           it == CHOOSE flatten : flatten = [i \in 1..Len(seqs) |->
                                   IF i = 1 THEN seqs[i] ELSE flatten[i - 1] \o seqs[i]]
<1>1. 0 \notin Bad
  <2>1. Upto(0, << >>)
    OBVIOUS
  <2> QED BY <2>1
<1>2. ASSUME NEW m \in 1 .. N, m - 1 \notin Bad PROVE m \notin Bad
  <2>1. PICK f : Upto(m - 1, f)
    <3>1. m - 1 \in 0 .. N
      OBVIOUS
    <3> HIDE DEF Upto
    <3> QED BY <1>2, <3>1
  <2>2. \A i \in 1 .. m - 1 : f[i] = IF i = 1 THEN seqs[i] ELSE f[i - 1] \o seqs[i]
    <3> SUFFICES ASSUME NEW i \in 1 .. m - 1
                 PROVE  f[i] = IF i = 1 THEN seqs[i] ELSE f[i - 1] \o seqs[i]
      OBVIOUS
    <3> QED BY <2>1, Zenon
  <2> DEFINE g == [i \in 1 .. m |-> IF i = 1 THEN seqs[1] ELSE
                     IF i = m THEN f[m - 1] \o seqs[m] ELSE f[i]]
  <2>3. ASSUME NEW i \in 1 .. m PROVE g[i] = IF i = 1 THEN seqs[i] ELSE g[i - 1] \o seqs[i]
    <3>1. CASE i = 1
      BY <3>1
    <3>2. CASE i # 1
      <4>1. i - 1 \in 1 .. m /\ i - 1 # m /\ i - 1 \in 1 .. m - 1
        BY <3>2
      <4>2. g[i - 1] = f[i - 1]
        <5>1. CASE i - 1 = 1
          BY <2>2, <4>1, <5>1
        <5>2. CASE i - 1 # 1
          BY <4>1, <5>2
        <5> QED BY <5>1, <5>2
      <4>3. CASE i = m
        BY <3>2, <4>2, <4>3
      <4>4. CASE i # m
        <5>1. i \in 1 .. m - 1
          BY <4>4
        <5> QED BY <2>2, <3>2, <4>2, <4>4, <5>1
      <4> QED BY <4>3, <4>4
    <3> QED BY <3>1, <3>2
  <2>4. Upto(m, g)
    <3> DEFINE h == [i \in 1 .. m |-> IF i = 1 THEN seqs[i] ELSE g[i - 1] \o seqs[i]]
    <3>1. DOMAIN g = 1 .. m /\ DOMAIN h = 1 .. m
      OBVIOUS
    <3>2. \A i \in 1 .. m : g[i] = h[i]
      <4> HIDE DEF g
      <4> QED BY <2>3
    <3>3. g = h
      <4>1. g = [i \in 1 .. m |-> g[i]] /\ h = [i \in 1 .. m |-> h[i]]
        OBVIOUS
      <4> HIDE DEF g, h
      <4> QED BY <3>2, <4>1
    <3> QED BY <3>3
  <2> QED
    <3> HIDE DEF Upto
    <3> QED BY <2>4
<1>3. Bad = {}
  <2>1. Bad \in SUBSET (0 .. N)
    OBVIOUS
  <2> HIDE DEF Bad
  <2> QED BY <1>1, <1>2, <2>1, NoneIsFirst
<1>4. \E f : Upto(N, f)
  <2>1. N \in 0 .. N /\ N \notin Bad
    <3> HIDE DEF Bad
    <3> QED BY <1>3
  <2> HIDE DEF Upto
  <2> QED BY <2>1
<1>5. it = [i \in 1 .. Len(seqs) |-> IF i = 1 THEN seqs[i] ELSE it[i - 1] \o seqs[i]]
  BY <1>4
<1>6. FlattenSeq(seqs) = it[Len(seqs)]
  BY DEF FlattenSeq
<1> HIDE DEF it
<1> QED BY <1>5, <1>6

\* k counts the numbers in W.
Places(W, N, k) ==
  /\ k \in [0 .. N -> Nat] /\ k[0] = 0
  /\ \A n \in 1 .. N : k[n] = k[n - 1] + IF n \in W THEN 1 ELSE 0

\* The sequences with a number in W have one item, the others none.
OneEach(seqs, W, N) == \A n \in 1 .. N : Len(seqs[n]) = IF n \in W THEN 1 ELSE 0

\* What is flattened from them has the item of the nth sequence at k[n].
LEMMA FlattenShort ==
  ASSUME NEW X, NEW N \in Nat, NEW seqs \in Seq(Seq(X)), Len(seqs) = N,
         NEW W \in SUBSET (1 .. N), OneEach(seqs, W, N)
  PROVE  /\ FlattenSeq(seqs) \in Seq(X)
         /\ \E k : /\ Places(W, N, k)
                   /\ Len(FlattenSeq(seqs)) = k[N]
                   /\ \A n \in W : k[n] \in 1 .. k[N] /\ FlattenSeq(seqs)[k[n]] = seqs[n][1]
<1>0. \A n \in 1 .. N : Len(seqs[n]) = IF n \in W THEN 1 ELSE 0
  BY DEF OneEach
<1>1. CASE N = 0
  <2> DEFINE k == [n \in 0 .. 0 |-> 0]
  <2>1. FlattenSeq(seqs) = seqs /\ seqs = << >>
    BY <1>1 DEF FlattenSeq
  <2>2. Places(W, N, k) /\ k[N] = 0
    BY <1>1 DEF Places
  <2> HIDE DEF k
  <2> QED BY <1>1, <2>1, <2>2
<1>2. CASE N > 0
  <2>1. PICK flat :
           /\ flat = [i \in 1 .. N |-> IF i = 1 THEN seqs[i] ELSE flat[i - 1] \o seqs[i]]
           /\ FlattenSeq(seqs) = flat[N]
    BY <1>2, FlattenIs
  <2>2. \A n \in 1 .. N : flat[n] = IF n = 1 THEN seqs[n] ELSE flat[n - 1] \o seqs[n]
    <3> SUFFICES ASSUME NEW n \in 1 .. N
                 PROVE  flat[n] = IF n = 1 THEN seqs[n] ELSE flat[n - 1] \o seqs[n]
      OBVIOUS
    <3> QED BY <2>1, Zenon
  <2> HIDE <2>1
  <2> DEFINE k == [n \in 0 .. N |-> IF n = 0 THEN 0 ELSE Len(flat[n])]
             Bad == {n \in 0 .. N : n > 0 /\
                       ~(/\ flat[n] \in Seq(X)
                         /\ \A m \in 1 .. n : Len(flat[m]) <= Len(flat[n])
                         /\ \A m \in 1 .. n : \A j \in 1 .. Len(flat[m]) :
                              flat[n][j] = flat[m][j])}
  <2>3. ASSUME NEW n \in 1 .. N, n - 1 \notin Bad PROVE n \notin Bad
    <3>1. seqs[n] \in Seq(X)
      OBVIOUS
    <3>2. CASE n = 1
      BY <2>2, <3>1, <3>2
    <3>3. CASE n # 1
      <4>1. n - 1 \in 1 .. N /\ n - 1 \in 0 .. N
        BY <3>3
      <4>2. /\ flat[n - 1] \in Seq(X)
            /\ \A m \in 1 .. n - 1 : Len(flat[m]) <= Len(flat[n - 1])
            /\ \A m \in 1 .. n - 1 : \A j \in 1 .. Len(flat[m]) :
                 flat[n - 1][j] = flat[m][j]
        BY <2>3, <4>1
      <4>3. flat[n] = flat[n - 1] \o seqs[n]
        BY <2>2, <3>3
      <4>4. flat[n] \in Seq(X) /\ Len(flat[n]) = Len(flat[n - 1]) + Len(seqs[n])
        BY <3>1, <4>2, <4>3
      <4>5. \A j \in 1 .. Len(flat[n - 1]) : flat[n][j] = flat[n - 1][j]
        BY <3>1, <4>2, <4>3
      <4>6. ASSUME NEW m \in 1 .. n
            PROVE  /\ Len(flat[m]) <= Len(flat[n])
                   /\ \A j \in 1 .. Len(flat[m]) : flat[n][j] = flat[m][j]
        <5>1. CASE m = n
          BY <4>4, <5>1
        <5>2. CASE m # n
          <6>1. m \in 1 .. n - 1
            BY <5>2
          <6>2. Len(flat[m]) <= Len(flat[n - 1])
            BY <4>2, <6>1
          <6>3. \A j \in 1 .. Len(flat[m]) : flat[n - 1][j] = flat[m][j]
            BY <4>2, <6>1
          <6>4. Len(seqs[n]) \in Nat /\ Len(flat[n - 1]) \in Nat
            BY <3>1, <4>2
          <6> QED BY <4>4, <4>5, <6>2, <6>3, <6>4
        <5> QED BY <5>1, <5>2
      <4> QED BY <4>4, <4>6
    <3> QED BY <3>2, <3>3
  <2>4. Bad = {}
    <3>1. Bad \in SUBSET (0 .. N) /\ 0 \notin Bad
      OBVIOUS
    <3> HIDE DEF Bad
    <3> QED BY <2>3, <3>1, NoneIsFirst
  <2>5. ASSUME NEW n \in 1 .. N
        PROVE  /\ flat[n] \in Seq(X)
               /\ \A m \in 1 .. n : Len(flat[m]) <= Len(flat[n])
               /\ \A m \in 1 .. n : \A j \in 1 .. Len(flat[m]) : flat[n][j] = flat[m][j]
    <3>1. n \in 0 .. N /\ n > 0
      OBVIOUS
    <3>2. n \notin Bad
      <4> HIDE DEF Bad
      <4> QED BY <2>4
    <3> QED BY <3>1, <3>2, Zenon
  <2> HIDE DEF Bad
  <2>6. ASSUME NEW n \in 1 .. N PROVE k[n] = k[n - 1] + Len(seqs[n])
    <3>1. seqs[n] \in Seq(X) /\ k[n] = Len(flat[n])
      OBVIOUS
    <3>2. CASE n = 1
      BY <2>2, <3>1, <3>2
    <3>3. CASE n # 1
      <4>1. n - 1 \in 1 .. N /\ k[n - 1] = Len(flat[n - 1])
        BY <3>3
      <4>2. flat[n - 1] \in Seq(X) /\ flat[n] = flat[n - 1] \o seqs[n]
        BY <2>2, <2>5, <3>3, <4>1
      <4> QED BY <3>1, <4>1, <4>2
    <3> QED BY <3>2, <3>3
  <2>7. Places(W, N, k)
    <3>1. k \in [0 .. N -> Nat] /\ k[0] = 0
      BY <2>5
    <3> HIDE DEF k
    <3> QED BY <1>0, <2>6, <3>1 DEF Places
  <2>8. FlattenSeq(seqs) = flat[N] /\ k[N] = Len(flat[N]) /\ flat[N] \in Seq(X)
    BY <1>2, <2>1, <2>5
  <2>9. ASSUME NEW n \in W
        PROVE  k[n] \in 1 .. k[N] /\ flat[N][k[n]] = seqs[n][1]
    <3> n \in 1 .. N /\ Len(seqs[n]) = 1
      BY <1>0
    <3>1. n - 1 \in 0 .. N /\ k[n] = k[n - 1] + 1 /\ k[n - 1] \in Nat
      <4>1. n - 1 \in 0 .. N
        OBVIOUS
      <4> HIDE DEF k
      <4> QED BY <2>6, <2>7, <2>9, <4>1 DEF Places
    <3>2. k[n] = Len(flat[n]) /\ Len(flat[n]) <= Len(flat[N]) /\ flat[n] \in Seq(X)
      BY <1>2, <2>5
    <3>3. flat[N][k[n]] = flat[n][k[n]]
      <4>1. k[n] \in 1 .. Len(flat[n])
        BY <3>1, <3>2
      <4> HIDE DEF k
      <4> QED BY <1>2, <2>5, <4>1
    <3>4. flat[n][Len(flat[n])] = seqs[n][1]
      <4>1. seqs[n] \in Seq(X)
        OBVIOUS
      <4>2. CASE n = 1
        BY <2>2, <2>9, <4>1, <4>2
      <4>3. CASE n # 1
        <5>1. n - 1 \in 1 .. N
          BY <4>3
        <5>2. flat[n - 1] \in Seq(X) /\ flat[n] = flat[n - 1] \o seqs[n]
          BY <2>2, <2>5, <4>3, <5>1
        <5> QED BY <2>9, <4>1, <5>2, OneMore
      <4> QED BY <4>2, <4>3
    <3> HIDE DEF k
    <3>5. k[n] \in 1 .. k[N]
      BY <2>8, <3>1, <3>2
    <3>6. flat[N][k[n]] = seqs[n][1]
      BY <3>2, <3>3, <3>4
    <3> QED BY <3>5, <3>6
  <2> HIDE DEF k
  <2> QED BY <2>7, <2>8, <2>9
<1> QED BY <1>1, <1>2

\* What comes later has a later place, and every place is that of something.
LEMMA PlacesInOrder ==
  ASSUME NEW N \in Nat, NEW W, NEW k, Places(W, N, k)
  PROVE  /\ \A n \in 0 .. N : \A m \in n .. N : k[n] <= k[m]
         /\ \A j \in 1 .. k[N] : \E n \in 1 .. N : k[n] = j /\ n \in W
<1>1. \A n \in 0 .. N : k[n] \in Nat
  BY DEF Places
<1>2. \A n \in 1 .. N : k[n] = k[n - 1] + (IF n \in W THEN 1 ELSE 0) /\ n - 1 \in 0 .. N
  BY DEF Places
<1>3. ASSUME NEW n \in 0 .. N, NEW m \in n .. N PROVE k[n] <= k[m]
  <2> DEFINE Bad == {x \in 0 .. N : x >= n /\ ~(k[n] <= k[x])}
  <2>1. ASSUME NEW x \in 1 .. N, x \in Bad PROVE x - 1 \in Bad
    <3>1. k[x] = k[x - 1] + (IF x \in W THEN 1 ELSE 0) /\ x - 1 \in 0 .. N /\ k[x - 1] \in Nat
      BY <1>1, <1>2
    <3>2. x # n
      BY <1>1, <2>1
    <3> QED BY <1>1, <2>1, <3>1, <3>2
  <2>2. 0 \notin Bad /\ Bad \in SUBSET (0 .. N)
    BY <1>1
  <2>3. Bad = {}
    <3> HIDE DEF Bad
    <3> QED BY <2>1, <2>2, NoneIsFirst
  <2> QED BY <2>3
<1>4. ASSUME NEW j \in 1 .. k[N]
      PROVE  \E n \in 1 .. N : k[n] = j /\ n \in W
  <2> DEFINE S == {n \in 0 .. N : k[n] >= j}
  <2>1. S \in SUBSET Nat /\ N \in S
    BY <1>1
  <2>2. PICK n \in S : \A y \in S : n <= y
    <3> HIDE DEF S
    <3> QED BY <2>1, SmallestOf
  <2>3. n # 0
    BY <2>2 DEF Places
  <2>4. n \in 1 .. N /\ n - 1 \in 0 .. N /\ k[n - 1] \in Nat /\ k[n] \in Nat
    BY <1>1, <2>3
  <2>5. n - 1 \notin S
    BY <2>2, <2>4
  <2>6. k[n - 1] < j
    BY <2>4, <2>5
  <2>7. k[n] = k[n - 1] + (IF n \in W THEN 1 ELSE 0) /\ k[n] >= j
    BY <1>2, <2>2, <2>4
  <2>8. k[n] = j /\ n \in W
    BY <2>4, <2>6, <2>7
  <2> QED BY <2>4, <2>8
<1> QED BY <1>3, <1>4

\* A client that applies the changes, one after the other
Applied(held, local) == FoldLeft(Apply, held, local)

\* What it holds after each of them
Chained(g, held, local, N) ==
  /\ g[0] = held
  /\ \A n \in 1 .. N : g[n] = Apply(g[n - 1], local[n])
  /\ Applied(held, local) = g[N]

\* The fold of the library applies them in this order.
LEMMA FoldIs ==
  ASSUME NEW v, NEW N \in Nat, NEW local, DOMAIN local = 1 .. N
  PROVE  \E g : Chained(g, v, local, N)
<1> DEFINE Upto(m, f) ==
             f = [T \in SUBSET (1 .. m) |->
                    IF T = {} THEN v ELSE Apply(f[T \ {Max(T)}], local[Max(T)])]
           Bad == {m \in 0 .. N : ~\E f : Upto(m, f)}
           it == CHOOSE iter : iter = [s \in SUBSET DOMAIN local |->
                   IF s = {} THEN v ELSE Apply(iter[s \ {Max(s)}], local[Max(s)])]
<1>1. 0 \notin Bad
  <2> DEFINE f == [T \in SUBSET (1 .. 0) |-> v]
  <2>1. \A T \in SUBSET (1 .. 0) : T = {}
    OBVIOUS
  <2>2. Upto(0, f)
    BY <2>1
  <2> HIDE DEF Upto, f
  <2> QED BY <2>2
<1>2. ASSUME NEW m \in 1 .. N, m - 1 \notin Bad PROVE m \notin Bad
  <2>1. PICK f : Upto(m - 1, f)
    <3>1. m - 1 \in 0 .. N
      OBVIOUS
    <3> HIDE DEF Upto
    <3> QED BY <1>2, <3>1
  <2>2. \A T \in SUBSET (1 .. m - 1) :
          f[T] = IF T = {} THEN v ELSE Apply(f[T \ {Max(T)}], local[Max(T)])
    <3> SUFFICES ASSUME NEW T \in SUBSET (1 .. m - 1)
                 PROVE  f[T] = IF T = {} THEN v ELSE Apply(f[T \ {Max(T)}], local[Max(T)])
      OBVIOUS
    <3> QED BY <2>1, Zenon
  <2> DEFINE g == [T \in SUBSET (1 .. m) |->
                     IF m \in T THEN Apply(f[T \ {m}], local[m]) ELSE f[T]]
  <2>3. ASSUME NEW T \in SUBSET (1 .. m)
        PROVE  g[T] = IF T = {} THEN v ELSE Apply(g[T \ {Max(T)}], local[Max(T)])
    <3>1. CASE m \in T
      <4>1. Max(T) = m
        <5>1. m \in Nat /\ T # {}
          BY <3>1
        <5>2. Max(T) \in T /\ \A y \in T : y <= Max(T)
          BY <5>1, MaxIs
        <5>3. Max(T) \in 1 .. m /\ m <= Max(T)
          BY <3>1, <5>2
        <5> QED BY <5>1, <5>3
      <4>2. g[T \ {m}] = f[T \ {m}] /\ T # {}
        BY <3>1
      <4> QED BY <3>1, <4>1, <4>2
    <3>2. CASE m \notin T
      <4>1. T \in SUBSET (1 .. m - 1)
        BY <3>2
      <4>2. g[T] = f[T] /\ g[T \ {Max(T)}] = f[T \ {Max(T)}]
        BY <3>2
      <4> QED BY <2>2, <4>1, <4>2
    <3> QED BY <3>1, <3>2
  <2>4. Upto(m, g)
    <3> DEFINE h == [T \in SUBSET (1 .. m) |->
                       IF T = {} THEN v ELSE Apply(g[T \ {Max(T)}], local[Max(T)])]
    <3>1. \A T \in SUBSET (1 .. m) : g[T] = h[T]
      <4> HIDE DEF g
      <4> QED BY <2>3
    <3>2. g = [T \in SUBSET (1 .. m) |-> g[T]] /\ h = [T \in SUBSET (1 .. m) |-> h[T]]
      OBVIOUS
    <3>3. g = h
      <4> HIDE DEF g, h
      <4> QED BY <3>1, <3>2
    <3> HIDE DEF g
    <3> QED BY <3>3
  <2> QED
    <3> HIDE DEF Upto
    <3> QED BY <2>4
<1>3. Bad = {}
  <2>1. Bad \in SUBSET (0 .. N)
    OBVIOUS
  <2> HIDE DEF Bad
  <2> QED BY <1>1, <1>2, <2>1, NoneIsFirst
<1>4. \E f : Upto(N, f)
  <2>1. N \in 0 .. N /\ N \notin Bad
    <3> HIDE DEF Bad
    <3> QED BY <1>3
  <2> HIDE DEF Upto
  <2> QED BY <2>1
<1>5. it = [T \in SUBSET (1 .. N) |->
              IF T = {} THEN v ELSE Apply(it[T \ {Max(T)}], local[Max(T)])]
  BY <1>4
<1>6. Applied(v, local) = it[1 .. N]
  BY DEF Applied, FoldLeft, MapThenFoldSet
<1> HIDE DEF it
<1> DEFINE held == [n \in 0 .. N |-> it[1 .. n]]
<1>7. held[0] = v
  <2>1. 1 .. 0 = {} /\ {} \in SUBSET (1 .. N) /\ 0 \in 0 .. N
    OBVIOUS
  <2>2. it[{}] = v
    BY <1>5, <2>1, Zenon
  <2> QED BY <2>1, <2>2
<1>8. ASSUME NEW n \in 1 .. N PROVE held[n] = Apply(held[n - 1], local[n])
  <2>1. n - 1 \in 0 .. N /\ n \in Nat /\ 1 .. n \in SUBSET (1 .. n) /\ 1 .. n # {}
    OBVIOUS
  <2>2. Max(1 .. n) \in 1 .. n /\ \A y \in 1 .. n : y <= Max(1 .. n)
    BY <2>1, MaxIs
  <2>3. Max(1 .. n) = n
    BY <2>2
  <2>4. (1 .. n) \ {n} = 1 .. n - 1 /\ 1 .. n \in SUBSET (1 .. N)
    OBVIOUS
  <2>5. it[1 .. n] = Apply(it[(1 .. n) \ {Max(1 .. n)}], local[Max(1 .. n)])
    BY <1>5, <2>1, <2>4, Zenon
  <2>6. held[n] = it[1 .. n] /\ held[n - 1] = it[1 .. n - 1]
    BY <2>1
  <2>7. it[1 .. n] = Apply(it[1 .. n - 1], local[n])
    BY <2>3, <2>4, <2>5
  <2> HIDE DEF held
  <2> QED BY <2>6, <2>7
<1> HIDE DEF held
<1>9. held[N] = it[1 .. N]
  BY DEF held
<1> HIDE DEF it
<1> QED BY <1>6, <1>7, <1>8, <1>9 DEF Chained

--------------------------------------------------------------------------------
(***************************************************************************)
(* Paths                                                                   *)
(***************************************************************************)
\* A path is that of the block, of a field or of a value in a field.
LEMMA PathKinds ==
  /\ Root \in Paths /\ Len(Root) = 0
  /\ \A f \in Fields : /\ <<f>> \in Paths /\ <<f>> # Root /\ Len(<<f>>) = 1 /\ <<f>>[1] = f
                       /\ Front(<<f>>) = Root /\ Last(<<f>>) = f
  /\ \A f \in Fields, l \in Leaves :
       /\ <<f, l>> \in Paths /\ <<f, l>> # Root /\ Len(<<f, l>>) = 2
       /\ <<f, l>>[1] = f /\ <<f, l>>[2] = l
       /\ Front(<<f, l>>) = <<f>> /\ Last(<<f, l>>) = l
  /\ \A p \in Paths : \/ p = Root
                      \/ \E f \in Fields : p = <<f>>
                      \/ \E f \in Fields, l \in Leaves : p = <<f, l>>
<1>1. Root \in Paths /\ Len(Root) = 0
  BY DEF Root, Paths
<1>2. ASSUME NEW f \in Fields
      PROVE  /\ <<f>> \in Paths /\ <<f>> # Root /\ Len(<<f>>) = 1 /\ <<f>>[1] = f
             /\ Front(<<f>>) = Root /\ Last(<<f>>) = f
  <2>1. Front(<<f>>) = Root
    <3>1. SubSeq(<<f>>, 1, 0) = << >>
      BY SubSeqEmpty
    <3> QED BY <3>1 DEF Front, Root
  <2> QED BY <2>1 DEF Root, Paths, Last
<1>3. ASSUME NEW f \in Fields, NEW l \in Leaves
      PROVE  /\ <<f, l>> \in Paths /\ <<f, l>> # Root /\ Len(<<f, l>>) = 2
             /\ <<f, l>>[1] = f /\ <<f, l>>[2] = l
             /\ Front(<<f, l>>) = <<f>> /\ Last(<<f, l>>) = l
  <2>1. Front(<<f, l>>) = <<f>>
    <3> DEFINE s == SubSeq(<<f, l>>, 1, 1)
    <3>1. <<f, l>> \in Seq({f, l}) /\ <<f>> \in Seq({f, l})
      OBVIOUS
    <3>2. s \in Seq({f, l}) /\ Len(s) = 1 /\ s[1] = f
      BY <3>1
    <3>3. s = <<f>>
      <4>1. Len(<<f>>) = 1 /\ \A i \in 1 .. Len(s) : s[i] = <<f>>[i]
        BY <3>2
      <4> HIDE DEF s
      <4> QED BY <3>1, <3>2, <4>1, SeqEqual
    <3> QED BY <3>3 DEF Front
  <2> QED BY <2>1 DEF Root, Paths, Last
<1>4. \A p \in Paths : \/ p = Root
                       \/ \E f \in Fields : p = <<f>>
                       \/ \E f \in Fields, l \in Leaves : p = <<f, l>>
  BY DEF Paths
<1> QED BY <1>1, <1>2, <1>3, <1>4

LEMMA PathsDiffer ==
  /\ \A f, g \in Fields : <<f>> = <<g>> => f = g
  /\ \A f, g \in Fields, l \in Leaves : <<f>> # <<g, l>>
  /\ \A f, g \in Fields, l, k \in Leaves : <<f, l>> = <<g, k>> => f = g /\ l = k
OBVIOUS

LEMMA PrefixKinds ==
  /\ Prefixes(Root) = {Root}
  /\ \A f \in Fields : Prefixes(<<f>>) = {Root, <<f>>}
  /\ \A f \in Fields, l \in Leaves : Prefixes(<<f, l>>) = {Root, <<f>>, <<f, l>>}
<1>1. Prefixes(Root) = {Root}
  <2>1. Prefixes(Root) = {SubSeq(Root, 1, n) : n \in 0 .. 0}
    BY PathKinds DEF Prefixes
  <2>2. SubSeq(Root, 1, 0) = Root
    BY SubSeqEmpty DEF Root
  <2>3. 0 .. 0 = {0}
    OBVIOUS
  <2> QED BY <2>1, <2>2, <2>3
<1>2. ASSUME NEW f \in Fields PROVE Prefixes(<<f>>) = {Root, <<f>>}
  <2>1. Prefixes(<<f>>) = {SubSeq(<<f>>, 1, n) : n \in 0 .. 1}
    BY DEF Prefixes
  <2>2. SubSeq(<<f>>, 1, 0) = Root
    BY SubSeqEmpty DEF Root
  <2>3. SubSeq(<<f>>, 1, 1) = <<f>>
    <3>1. <<f>> \in Seq({f}) /\ Len(<<f>>) = 1
      OBVIOUS
    <3> QED BY <3>1, SubSeqFull
  <2>4. 0 .. 1 = {0, 1}
    OBVIOUS
  <2> QED BY <2>1, <2>2, <2>3, <2>4
<1>3. ASSUME NEW f \in Fields, NEW l \in Leaves
      PROVE  Prefixes(<<f, l>>) = {Root, <<f>>, <<f, l>>}
  <2>1. Prefixes(<<f, l>>) = {SubSeq(<<f, l>>, 1, n) : n \in 0 .. 2}
    BY DEF Prefixes
  <2>2. SubSeq(<<f, l>>, 1, 0) = Root
    BY SubSeqEmpty DEF Root
  <2>3. SubSeq(<<f, l>>, 1, 1) = <<f>>
    BY PathKinds DEF Front
  <2>4. SubSeq(<<f, l>>, 1, 2) = <<f, l>>
    <3>1. <<f, l>> \in Seq({f, l}) /\ Len(<<f, l>>) = 2
      OBVIOUS
    <3> QED BY <3>1, SubSeqFull
  <2>5. 0 .. 2 = {0, 1, 2}
    OBVIOUS
  <2> QED BY <2>1, <2>2, <2>3, <2>4, <2>5
<1> QED BY <1>1, <1>2, <1>3

\* What is changed in a squash: a field as a whole or a value in one
FieldChanges == {Changed(<<f>>, d) : f \in Fields, d \in Objects \cup {None}}
LeafChanges == {Changed(<<f, l>>, v) : f \in Fields, l \in Leaves, v \in Values}

\* A change in a squash is one of the two.
LEMMA ChangeKinds ==
  ASSUME NEW c \in FieldChanges \cup LeafChanges
  PROVE  \/ \E f \in Fields : c.path = <<f>> /\ c.data \in Objects \cup {None}
         \/ \E f \in Fields, l \in Leaves : c.path = <<f, l>> /\ c.data \in Values
BY DEF FieldChanges, LeafChanges, Changed

\* What the nodes below a field and below a value get of a change.
LEMMA ForFieldIs ==
  ASSUME NEW c \in FieldChanges \cup LeafChanges, NEW f \in Fields
  PROVE  /\ c.path = <<f>> => ForChild(f, c) = <<Changed(Root, c.data)>>
         /\ \A l \in Leaves : c.path = <<f, l>> => ForChild(f, c) = <<Changed(<<l>>, c.data)>>
         /\ \A g \in Fields \ {f} : c.path = <<g>> => ForChild(f, c) = << >>
         /\ \A g \in Fields \ {f}, l \in Leaves : c.path = <<g, l>> => ForChild(f, c) = << >>
<1>1. \A g \in Fields : Head(<<g>>) = g /\ Tail(<<g>>) = Root /\ <<g>> # Root
  BY DEF Root
<1>2. \A g \in Fields, l \in Leaves : Head(<<g, l>>) = g /\ Tail(<<g, l>>) = <<l>> /\ <<g, l>> # Root
  BY DEF Root
<1> QED BY <1>1, <1>2 DEF ForChild

LEMMA ForLeafIs ==
  ASSUME NEW l \in Leaves, NEW data
  PROVE  /\ ForChild(l, Changed(Root, data)) = <<Changed(Root, Child(data, l))>>
         /\ ForChild(l, Changed(<<l>>, data)) = <<Changed(Root, data)>>
         /\ \A k \in Leaves \ {l} : ForChild(l, Changed(<<k>>, data)) = << >>
<1>1. \A k \in Leaves : Head(<<k>>) = k /\ Tail(<<k>>) = Root /\ <<k>> # Root
  BY DEF Root
<1>2. \A p : Changed(p, data).path = p /\ Changed(p, data).data = data
  BY DEF Changed
<1> QED BY <1>1, <1>2 DEF ForChild, Reflected

\* What the recursive definitions of the model are for each kind of path.
FieldLocal(f) == FlattenSeq([n \in DOMAIN changes |-> ForChild(f, changes[n])])
LeafLocal(f, l) == FlattenSeq([n \in DOMAIN FieldLocal(f) |-> ForChild(l, FieldLocal(f)[n])])

\* The changes at the nodes of a field and of a value come down from the block.
LEMMA LocalIs ==
  /\ Local[Root] = changes
  /\ \A f \in Fields : Local[<<f>>] = FieldLocal(f)
  /\ \A f \in Fields, l \in Leaves : Local[<<f, l>>] = LeafLocal(f, l)
<1> DEFINE Step(at) ==
             [p \in Paths |->
                IF p = Root THEN changes
                ELSE LET above == at[Front(p)]
                     IN  FlattenSeq([n \in DOMAIN above |-> ForChild(Last(p), above[n])])]
           w == [p \in Paths |-> IF p = Root THEN changes
                                 ELSE IF Len(p) = 1 THEN FieldLocal(p[1])
                                 ELSE LeafLocal(p[1], p[2])]
<1>1. /\ w[Root] = changes
      /\ \A f \in Fields : w[<<f>>] = FieldLocal(f)
      /\ \A f \in Fields, l \in Leaves : w[<<f, l>>] = LeafLocal(f, l)
  <2> HIDE DEF FieldLocal, LeafLocal
  <2> QED BY PathKinds
<1>2. ASSUME NEW at, at = Step(at)
      PROVE  /\ at[Root] = changes
             /\ \A f \in Fields : at[<<f>>] = FieldLocal(f)
             /\ \A f \in Fields, l \in Leaves : at[<<f, l>>] = LeafLocal(f, l)
  <2>1. ASSUME NEW p \in Paths
        PROVE  at[p] = IF p = Root THEN changes
                       ELSE FlattenSeq([n \in DOMAIN at[Front(p)] |-> ForChild(Last(p), at[Front(p)][n])])
    BY <1>2, Zenon
  <2>2. at[Root] = changes
    BY <2>1, PathKinds
  <2>3. ASSUME NEW f \in Fields PROVE at[<<f>>] = FieldLocal(f)
    BY <2>1, <2>2, PathKinds DEF FieldLocal
  <2>4. ASSUME NEW f \in Fields, NEW l \in Leaves PROVE at[<<f, l>>] = LeafLocal(f, l)
    <3>1. at[<<f, l>>] = FlattenSeq([n \in DOMAIN at[<<f>>] |-> ForChild(l, at[<<f>>][n])])
      BY <2>1, PathKinds
    <3> QED BY <2>3, <3>1 DEF LeafLocal
  <2> QED BY <2>2, <2>3, <2>4
<1>3. w = Step(w)
  <2>1. ASSUME NEW p \in Paths
        PROVE  w[p] = IF p = Root THEN changes
                      ELSE FlattenSeq([n \in DOMAIN w[Front(p)] |-> ForChild(Last(p), w[Front(p)][n])])
    <3> HIDE DEF w
    <3>1. CASE p = Root
      BY <1>1, <3>1
    <3>2. ASSUME NEW f \in Fields, p = <<f>> PROVE <2>1!2
      BY <1>1, <3>2, PathKinds DEF FieldLocal
    <3>3. ASSUME NEW f \in Fields, NEW l \in Leaves, p = <<f, l>> PROVE <2>1!2
      BY <1>1, <3>3, PathKinds DEF LeafLocal
    <3> QED BY <3>1, <3>2, <3>3, PathKinds
  <2> DEFINE u == Step(w)
  <2>2. \A p \in Paths : w[p] = u[p]
    <3> HIDE DEF w
    <3> QED BY <2>1
  <2>3. w = [p \in Paths |-> w[p]] /\ u = [p \in Paths |-> u[p]]
    OBVIOUS
  <2>4. w = u
    <3> HIDE DEF w, u
    <3> QED BY <2>2, <2>3
  <2> QED BY <2>4
<1>4. Local = CHOOSE at : at = Step(at)
  BY DEF Local
<1>5. Local = Step(Local)
  <2>1. \E at : at = Step(at)
    <3> HIDE DEF w, Step
    <3> QED BY <1>3
  <2> HIDE DEF Step
  <2> QED BY <1>4, <2>1
<1> HIDE DEF Step
<1> QED BY <1>2, <1>5

\* A node that is made takes its data from its parent's.
LEMMA NodeDataIs ==
  ASSUME Root \in DOMAIN nodes
  PROVE  /\ NodeData[Root] = nodes[Root]
         /\ \A f \in Fields :
              NodeData[<<f>>] = IF <<f>> \in DOMAIN nodes THEN nodes[<<f>>] ELSE Child(nodes[Root], f)
         /\ \A f \in Fields, l \in Leaves :
              NodeData[<<f, l>>] = IF <<f, l>> \in DOMAIN nodes THEN nodes[<<f, l>>]
                                   ELSE Child(NodeData[<<f>>], l)
<1> DEFINE Step(at) ==
             [p \in Paths |-> IF p \in DOMAIN nodes THEN nodes[p] ELSE Child(at[Front(p)], Last(p))]
           one(f) == IF <<f>> \in DOMAIN nodes THEN nodes[<<f>>] ELSE Child(nodes[Root], f)
           w == [p \in Paths |-> IF p \in DOMAIN nodes THEN nodes[p]
                                 ELSE IF Len(p) = 1 THEN one(p[1]) ELSE Child(one(p[1]), p[2])]
<1>1. ASSUME NEW at, at = Step(at), NEW p \in Paths
      PROVE  at[p] = IF p \in DOMAIN nodes THEN nodes[p] ELSE Child(at[Front(p)], Last(p))
  BY <1>1, Zenon
<1>2. w = Step(w)
  <2>0. /\ w[Root] = nodes[Root]
        /\ \A f \in Fields : w[<<f>>] = one(f)
    BY PathKinds
  <2>1. ASSUME NEW p \in Paths
        PROVE  w[p] = IF p \in DOMAIN nodes THEN nodes[p] ELSE Child(w[Front(p)], Last(p))
    <3>1. CASE p \in DOMAIN nodes
      BY <3>1
    <3>2. CASE p \notin DOMAIN nodes
      <4>1. p # Root
        BY <3>2
      <4>2. ASSUME NEW f \in Fields, p = <<f>> PROVE w[p] = Child(w[Front(p)], Last(p))
        <5> HIDE DEF w
        <5> QED BY <2>0, <3>2, <4>2, PathKinds
      <4>3. ASSUME NEW f \in Fields, NEW l \in Leaves, p = <<f, l>>
            PROVE  w[p] = Child(w[Front(p)], Last(p))
        <5>1. w[p] = Child(one(p[1]), p[2]) /\ p[1] = f /\ p[2] = l
          BY <3>2, <4>3, PathKinds
        <5> HIDE DEF w, one
        <5> QED BY <2>0, <4>3, <5>1, PathKinds
      <4> QED BY <3>2, <4>1, <4>2, <4>3, PathKinds
    <3> QED BY <3>1, <3>2
  <2> DEFINE u == Step(w)
  <2>2. \A p \in Paths : w[p] = u[p]
    <3> HIDE DEF w
    <3> QED BY <2>1
  <2>3. w = [p \in Paths |-> w[p]] /\ u = [p \in Paths |-> u[p]]
    OBVIOUS
  <2>4. w = u
    <3> HIDE DEF w, u
    <3> QED BY <2>2, <2>3
  <2> QED BY <2>4
<1>3. NodeData = CHOOSE at : at = Step(at)
  BY DEF NodeData
<1>4. NodeData = Step(NodeData)
  <2>1. \E at : at = Step(at)
    <3> HIDE DEF w, Step
    <3> QED BY <1>2
  <2> HIDE DEF Step
  <2> QED BY <1>3, <2>1
<1>5. \A p \in Paths : NodeData[p] = IF p \in DOMAIN nodes THEN nodes[p]
                                     ELSE Child(NodeData[Front(p)], Last(p))
  <2> HIDE DEF Step
  <2> QED BY <1>1, <1>4
<1> QED BY <1>5, PathKinds

\* Changes of a field as a whole or of a value in it, and those of a value
Concerns(f, c) == c.path = <<f>> \/ \E l \in Leaves : c.path = <<f, l>>
ConcernsLeaf(f, l, c) == c.path = <<f>> \/ c.path = <<f, l>>

LocalChanges ==
  {Changed(Root, d) : d \in Objects \cup {None}} \cup {Changed(<<l>>, v) : l \in Leaves, v \in Values}
LeafData == Values \cup {None}

\* Below a field there are values, below where there is nothing nothing.
LEMMA ChildIs ==
  ASSUME TypeOK
  PROVE  /\ \A f \in Fields : Child("block", f) = block[f]
         /\ \A l \in Leaves, o \in Objects : Child(o, l) = heap[o][l] /\ heap[o][l] \in Values
         /\ \A l \in Leaves : Child(None, l) = None
         /\ \A l \in Leaves, d \in Objects \cup {None} : Child(d, l) \in LeafData
BY NamesAssumption DEF TypeOK, Child, LeafData

LEMMA LocalChangeIs ==
  ASSUME NEW c \in LocalChanges
  PROVE  /\ c = Changed(c.path, c.data)
         /\ \/ c.path = Root /\ c.data \in Objects \cup {None}
            \/ \E i \in Leaves : c.path = <<i>> /\ c.data \in Values
<1>1. CASE \E d \in Objects \cup {None} : c = Changed(Root, d)
  BY <1>1 DEF Changed
<1>2. CASE \E i \in Leaves, v \in Values : c = Changed(<<i>>, v)
  BY <1>2 DEF Changed
<1>3. \/ \E d \in Objects \cup {None} : c = Changed(Root, d)
      \/ \E i \in Leaves, v \in Values : c = Changed(<<i>>, v)
  BY DEF LocalChanges
<1> QED BY <1>1, <1>2, <1>3

\* The node of a field gets the changes that concern it, in their order,
LEMMA FieldLocalIs ==
  ASSUME changes \in Seq(FieldChanges \cup LeafChanges), NEW f \in Fields
  PROVE  /\ Local[<<f>>] \in Seq(LocalChanges)
         /\ \E k : /\ Places({n \in 1 .. Len(changes) : Concerns(f, changes[n])}, Len(changes), k)
                   /\ Len(Local[<<f>>]) = k[Len(changes)]
                   /\ \A n \in 1 .. Len(changes) : Concerns(f, changes[n]) =>
                        /\ k[n] \in 1 .. k[Len(changes)]
                        /\ changes[n].path = <<f>> =>
                             Local[<<f>>][k[n]] = Changed(Root, changes[n].data)
                        /\ \A l \in Leaves : changes[n].path = <<f, l>> =>
                             Local[<<f>>][k[n]] = Changed(<<l>>, changes[n].data)
<1> DEFINE N == Len(changes)
           seqs == [n \in 1 .. N |-> ForChild(f, changes[n])]
           W == {n \in 1 .. N : Concerns(f, changes[n])}
<1>1. N \in Nat /\ DOMAIN changes = 1 .. N
  OBVIOUS
<1>2. ASSUME NEW n \in 1 .. N
      PROVE  /\ ForChild(f, changes[n]) \in Seq(LocalChanges)
             /\ Len(ForChild(f, changes[n])) = IF Concerns(f, changes[n]) THEN 1 ELSE 0
             /\ changes[n].path = <<f>> =>
                  ForChild(f, changes[n])[1] = Changed(Root, changes[n].data)
             /\ \A l \in Leaves : changes[n].path = <<f, l>> =>
                  ForChild(f, changes[n])[1] = Changed(<<l>>, changes[n].data)
  <2>1. changes[n] \in FieldChanges \cup LeafChanges
    OBVIOUS
  <2>2. CASE changes[n].path = <<f>>
    <3>1. ForChild(f, changes[n]) = <<Changed(Root, changes[n].data)>>
      BY <2>1, <2>2, ForFieldIs
    <3>2. changes[n].data \in Objects \cup {None}
      BY <2>1, <2>2, ChangeKinds, PathsDiffer
    <3>3. Changed(Root, changes[n].data) \in LocalChanges
      BY <3>2 DEF LocalChanges
    <3>4. \A l \in Leaves : changes[n].path # <<f, l>>
      BY <2>2
    <3> QED BY <2>2, <3>1, <3>3, <3>4 DEF Concerns
  <2>3. ASSUME NEW l \in Leaves, changes[n].path = <<f, l>> PROVE <1>2!2
    <3>1. ForChild(f, changes[n]) = <<Changed(<<l>>, changes[n].data)>>
      BY <2>1, <2>3, ForFieldIs
    <3>2. changes[n].data \in Values
      BY <2>1, <2>3, ChangeKinds, PathsDiffer
    <3>3. Changed(<<l>>, changes[n].data) \in LocalChanges
      BY <3>2 DEF LocalChanges
    <3>4. changes[n].path # <<f>> /\ \A m \in Leaves : changes[n].path = <<f, m>> => m = l
      BY <2>3
    <3> QED BY <2>3, <3>1, <3>3, <3>4 DEF Concerns
  <2>4. CASE ~Concerns(f, changes[n])
    <3>1. ForChild(f, changes[n]) = << >>
      BY <2>1, <2>4, ChangeKinds, ForFieldIs DEF Concerns
    <3> QED BY <2>4, <3>1 DEF Concerns
  <2> QED BY <2>2, <2>3, <2>4 DEF Concerns
<1>3. seqs \in Seq(Seq(LocalChanges)) /\ Len(seqs) = N
  BY <1>1, <1>2
<1>4. OneEach(seqs, W, N)
  BY <1>2 DEF OneEach
<1>5. Local[<<f>>] = FlattenSeq(seqs)
  BY <1>1, LocalIs DEF FieldLocal
<1>6. W \in SUBSET (1 .. N)
  OBVIOUS
<1>7. /\ FlattenSeq(seqs) \in Seq(LocalChanges)
      /\ \E k : /\ Places(W, N, k)
                /\ Len(FlattenSeq(seqs)) = k[N]
                /\ \A n \in W : k[n] \in 1 .. k[N] /\ FlattenSeq(seqs)[k[n]] = seqs[n][1]
  <2> HIDE DEF N, seqs, W
  <2> QED BY <1>1, <1>3, <1>4, <1>6, FlattenShort, SMTT(60)
<1>8. PICK k : /\ Places(W, N, k)
               /\ Len(FlattenSeq(seqs)) = k[N]
               /\ \A n \in W : k[n] \in 1 .. k[N] /\ FlattenSeq(seqs)[k[n]] = seqs[n][1]
  BY <1>7
<1>9. \A n \in 1 .. N : Concerns(f, changes[n]) =>
        /\ k[n] \in 1 .. k[N]
        /\ changes[n].path = <<f>> => Local[<<f>>][k[n]] = Changed(Root, changes[n].data)
        /\ \A l \in Leaves : changes[n].path = <<f, l>> =>
             Local[<<f>>][k[n]] = Changed(<<l>>, changes[n].data)
  <2> SUFFICES ASSUME NEW n \in 1 .. N, Concerns(f, changes[n])
               PROVE  /\ k[n] \in 1 .. k[N]
                      /\ changes[n].path = <<f>> => Local[<<f>>][k[n]] = Changed(Root, changes[n].data)
                      /\ \A l \in Leaves : changes[n].path = <<f, l>> =>
                           Local[<<f>>][k[n]] = Changed(<<l>>, changes[n].data)
    OBVIOUS
  <2>1. n \in W /\ seqs[n] = ForChild(f, changes[n])
    OBVIOUS
  <2> HIDE DEF W, seqs, N
  <2> QED BY <1>2, <1>5, <1>8, <2>1
<1> QED BY <1>5, <1>7, <1>8, <1>9

\* and the node of a value those of the value and those of all of its field.
LEMMA LeafLocalIs ==
  ASSUME changes \in Seq(FieldChanges \cup LeafChanges), TypeOK, NEW f \in Fields, NEW l \in Leaves
  PROVE  /\ Local[<<f, l>>] \in Seq({Changed(Root, d) : d \in LeafData})
         /\ \E k : /\ Places({n \in 1 .. Len(changes) : ConcernsLeaf(f, l, changes[n])}, Len(changes), k)
                   /\ Len(Local[<<f, l>>]) = k[Len(changes)]
                   /\ \A n \in 1 .. Len(changes) : ConcernsLeaf(f, l, changes[n]) =>
                        /\ k[n] \in 1 .. k[Len(changes)]
                        /\ changes[n].path = <<f>> =>
                             Local[<<f, l>>][k[n]] = Changed(Root, Child(changes[n].data, l))
                        /\ changes[n].path = <<f, l>> =>
                             Local[<<f, l>>][k[n]] = Changed(Root, changes[n].data)
<1> DEFINE N == Len(changes)
           above == Local[<<f>>]
           M == Len(above)
           seqs == [n \in 1 .. M |-> ForChild(l, above[n])]
           W == {n \in 1 .. N : Concerns(f, changes[n])}
           V == {n \in 1 .. M : above[n].path = Root \/ above[n].path = <<l>>}
           X == {Changed(Root, d) : d \in LeafData}
<1>1. above \in Seq(LocalChanges) /\ M \in Nat /\ DOMAIN above = 1 .. M
  <2>1. above \in Seq(LocalChanges)
    <3> HIDE DEF N
    <3> QED BY FieldLocalIs
  <2> HIDE DEF above
  <2> QED BY <2>1
<1>2. PICK j : /\ Places(W, N, j)
               /\ M = j[N]
               /\ \A n \in 1 .. N : Concerns(f, changes[n]) =>
                    /\ j[n] \in 1 .. j[N]
                    /\ changes[n].path = <<f>> => above[j[n]] = Changed(Root, changes[n].data)
                    /\ \A i \in Leaves : changes[n].path = <<f, i>> =>
                         above[j[n]] = Changed(<<i>>, changes[n].data)
  BY FieldLocalIs
<1>3. ASSUME NEW n \in 1 .. M
      PROVE  /\ seqs[n] \in Seq(X)
             /\ Len(seqs[n]) = IF n \in V THEN 1 ELSE 0
             /\ above[n].path = Root => seqs[n][1] = Changed(Root, Child(above[n].data, l))
             /\ above[n].path = <<l>> => seqs[n][1] = Changed(Root, above[n].data)
  <2>1. above[n] \in LocalChanges
    BY <1>1
  <2>2. /\ above[n] = Changed(above[n].path, above[n].data)
        /\ \/ above[n].path = Root /\ above[n].data \in Objects \cup {None}
           \/ \E i \in Leaves : above[n].path = <<i>> /\ above[n].data \in Values
    BY <2>1, LocalChangeIs
  <2>3. \A i \in Leaves : <<i>> # Root /\ (<<i>> = <<l>> => i = l)
    BY DEF Root
  <2>4. seqs[n] = ForChild(l, above[n])
    OBVIOUS
  <2>5. CASE above[n].path = Root
    <3>1. seqs[n] = <<Changed(Root, Child(above[n].data, l))>>
      BY <2>2, <2>4, <2>5, ForLeafIs
    <3>2. Changed(Root, Child(above[n].data, l)) \in X
      <4>1. Child(above[n].data, l) \in LeafData
        BY <2>2, <2>3, <2>5, ChildIs
      <4> HIDE DEF above
      <4> QED BY <4>1
    <3>3. n \in V /\ above[n].path # <<l>>
      BY <2>3, <2>5
    <3> HIDE DEF V, X, seqs, above, M
    <3> QED BY <3>1, <3>2, <3>3
  <2>6. ASSUME NEW i \in Leaves, above[n].path = <<i>> PROVE <1>3!2
    <3>1. CASE i = l
      <4>1. seqs[n] = <<Changed(Root, above[n].data)>>
        BY <2>2, <2>4, <2>6, <3>1, ForLeafIs
      <4>2. Changed(Root, above[n].data) \in X
        <5>1. above[n].data \in LeafData
          BY <2>2, <2>3, <2>6 DEF LeafData
        <5> HIDE DEF above
        <5> QED BY <5>1
      <4>3. n \in V /\ above[n].path # Root
        BY <2>3, <2>6, <3>1
      <4> HIDE DEF V, X, seqs, above, M
      <4> QED BY <4>1, <4>2, <4>3
    <3>2. CASE i # l
      <4>1. seqs[n] = << >>
        <5>1. i \in Leaves \ {l} /\ above[n] = Changed(<<i>>, above[n].data)
          BY <2>2, <2>6, <3>2
        <5>2. ForChild(l, Changed(<<i>>, above[n].data)) = << >>
          <6> HIDE DEF seqs, above
          <6> QED BY <5>1, ForLeafIs
        <5> HIDE DEF seqs, above
        <5> QED BY <2>4, <5>1, <5>2
      <4>2. n \notin V /\ above[n].path # Root /\ above[n].path # <<l>>
        BY <2>3, <2>6, <3>2
      <4> HIDE DEF V, X, seqs, above, M
      <4> QED BY <4>1, <4>2
    <3> QED BY <3>1, <3>2
  <2>7. above[n].path = Root \/ \E i \in Leaves : above[n].path = <<i>>
    BY <2>2
  <2> QED BY <2>5, <2>6, <2>7
<1>4. /\ FlattenSeq(seqs) \in Seq(X)
      /\ \E k : /\ Places(V, M, k)
                /\ Len(FlattenSeq(seqs)) = k[M]
                /\ \A n \in V : k[n] \in 1 .. k[M] /\ FlattenSeq(seqs)[k[n]] = seqs[n][1]
  <2>1. seqs \in Seq(Seq(X)) /\ Len(seqs) = M /\ V \in SUBSET (1 .. M)
    <3>1. seqs \in [1 .. M -> Seq(X)]
      <4>1. seqs = [n \in 1 .. M |-> seqs[n]]
        OBVIOUS
      <4> HIDE DEF seqs, X, M
      <4> QED BY <1>3, <4>1
    <3> HIDE DEF X, seqs
    <3> QED BY <1>1, <3>1, SMTT(60)
  <2>2. OneEach(seqs, V, M)
    <3> HIDE DEF V, seqs, M
    <3> QED BY <1>3 DEF OneEach
  <2>3. M \in Nat
    BY <1>1
  <2> HIDE DEF M, seqs, V, X
  <2> QED BY <2>1, <2>2, <2>3, FlattenShort, SMTT(60)
<1>5. Local[<<f, l>>] = FlattenSeq(seqs)
  BY <1>1, LocalIs DEF LeafLocal
<1>6. PICK k : /\ Places(V, M, k)
               /\ Len(FlattenSeq(seqs)) = k[M]
               /\ \A n \in V : k[n] \in 1 .. k[M] /\ FlattenSeq(seqs)[k[n]] = seqs[n][1]
  BY <1>4
<1> DEFINE K == [n \in 0 .. N |-> k[j[n]]]
           U == {n \in 1 .. N : ConcernsLeaf(f, l, changes[n])}
<1>7. N \in Nat /\ j \in [0 .. N -> Nat] /\ j[0] = 0
  BY <1>2 DEF Places
<1>8. \A n \in 0 .. N : j[n] \in 0 .. M
  <2>1. \A n \in 0 .. N : \A m \in n .. N : j[n] <= j[m]
    <3> HIDE DEF N, W, M
    <3> QED BY <1>2, <1>7, PlacesInOrder
  <2> SUFFICES ASSUME NEW n \in 0 .. N PROVE j[n] \in 0 .. M
    OBVIOUS
  <2>2. N \in n .. N /\ j[n] \in Nat /\ j[N] \in Nat
    BY <1>7
  <2> QED BY <1>2, <2>1, <2>2
<1>9. ASSUME NEW n \in 1 .. N
      PROVE  /\ K[n] = K[n - 1] + IF n \in U THEN 1 ELSE 0
             /\ n \in U => j[n] \in V
  <2>1. n - 1 \in 0 .. N /\ K[n] = k[j[n]] /\ K[n - 1] = k[j[n - 1]]
    OBVIOUS
  <2>2. CASE ~Concerns(f, changes[n])
    <3>1. n \notin U /\ n \notin W
      BY <2>2 DEF Concerns, ConcernsLeaf
    <3>2. j[n] = j[n - 1]
      <4> HIDE DEF W, N
      <4> QED BY <1>2, <1>7, <2>1, <3>1 DEF Places
    <3>3. k[j[n - 1]] \in Nat
      <4> HIDE DEF V, M
      <4> QED BY <1>6, <1>8, <2>1 DEF Places
    <3> HIDE DEF U, K
    <3> QED BY <2>1, <3>1, <3>2, <3>3
  <2>3. CASE Concerns(f, changes[n])
    <3>1. n \in W
      BY <2>3
    <3>2. j[n] = j[n - 1] + 1 /\ j[n] \in 1 .. M
      <4> HIDE DEF W, N
      <4> QED BY <1>2, <1>7, <2>1, <2>3, <3>1 DEF Places
    <3>3. j[n] - 1 = j[n - 1]
      BY <1>7, <2>1, <3>2
    <3>4. k[j[n]] = k[j[n - 1]] + IF j[n] \in V THEN 1 ELSE 0
      <4> HIDE DEF V, M
      <4> QED BY <1>6, <3>2, <3>3 DEF Places
    <3>5. j[n] \in V <=> n \in U
      <4>0. \A i \in Leaves : <<i>> # Root /\ (<<i>> = <<l>> => i = l)
        BY DEF Root
      <4>1. CASE changes[n].path = <<f>>
        <5>1. above[j[n]] = Changed(Root, changes[n].data)
          BY <1>2, <2>3, <4>1
        <5> QED BY <3>2, <4>1, <5>1 DEF ConcernsLeaf, Changed
      <4>2. ASSUME NEW i \in Leaves, changes[n].path = <<f, i>> PROVE j[n] \in V <=> n \in U
        <5>1. above[j[n]] = Changed(<<i>>, changes[n].data)
          BY <1>2, <2>3, <4>2
        <5>2. above[j[n]].path = <<i>>
          BY <5>1 DEF Changed
        <5>3. j[n] \in V <=> i = l
          BY <3>2, <4>0, <5>2
        <5>4. n \in U <=> i = l
          BY <4>2, PathsDiffer DEF ConcernsLeaf
        <5> QED BY <5>3, <5>4
      <4> QED BY <2>3, <4>1, <4>2 DEF Concerns
    <3> HIDE DEF U, K, V
    <3> QED BY <2>1, <3>4, <3>5
  <2> QED BY <2>2, <2>3
<1>10. Places(U, N, K) /\ K[N] = k[M]
  <2>1. K \in [0 .. N -> Nat] /\ K[0] = 0 /\ K[N] = k[M]
    <3>1. k \in [0 .. M -> Nat] /\ k[0] = 0
      <4> HIDE DEF M, V
      <4> QED BY <1>6 DEF Places
    <3>2. K[N] = k[j[N]] /\ K[0] = k[j[0]]
      BY <1>7
    <3> HIDE DEF M, N
    <3> QED BY <1>2, <1>7, <1>8, <3>1, <3>2
  <2> HIDE DEF K, U, N
  <2> QED BY <1>9, <2>1 DEF Places
<1>11. ASSUME NEW n \in 1 .. N, ConcernsLeaf(f, l, changes[n])
       PROVE  /\ K[n] \in 1 .. K[N]
              /\ changes[n].path = <<f>> =>
                   Local[<<f, l>>][K[n]] = Changed(Root, Child(changes[n].data, l))
              /\ changes[n].path = <<f, l>> =>
                   Local[<<f, l>>][K[n]] = Changed(Root, changes[n].data)
  <2>1. n \in U /\ Concerns(f, changes[n]) /\ K[n] = k[j[n]]
    BY <1>11 DEF Concerns, ConcernsLeaf
  <2>2. j[n] \in V
    <3> HIDE DEF U, V
    <3> QED BY <1>9, <2>1
  <2>3. k[j[n]] \in 1 .. k[M] /\ Local[<<f, l>>][k[j[n]]] = seqs[j[n]][1] /\ j[n] \in 1 .. M
    <3>1. j[n] \in 1 .. M
      BY <2>2
    <3> HIDE DEF V, seqs, M
    <3> QED BY <1>5, <1>6, <2>2, <3>1
  <2>4. ASSUME changes[n].path = <<f>>
        PROVE  seqs[j[n]][1] = Changed(Root, Child(changes[n].data, l))
    <3>1. above[j[n]] = Changed(Root, changes[n].data)
      BY <1>2, <2>1, <2>4
    <3>2. above[j[n]].path = Root /\ above[j[n]].data = changes[n].data
      BY <3>1 DEF Changed
    <3> HIDE DEF above, seqs, M
    <3> QED BY <1>3, <2>3, <3>2
  <2>5. ASSUME changes[n].path = <<f, l>>
        PROVE  seqs[j[n]][1] = Changed(Root, changes[n].data)
    <3>1. above[j[n]] = Changed(<<l>>, changes[n].data)
      BY <1>2, <2>1, <2>5
    <3>2. above[j[n]].path = <<l>> /\ above[j[n]].data = changes[n].data
      BY <3>1 DEF Changed
    <3> HIDE DEF above, seqs, M
    <3> QED BY <1>3, <2>3, <3>2
  <2> HIDE DEF K, seqs, M, V
  <2> QED BY <1>10, <2>1, <2>3, <2>4, <2>5
<1>12. Len(Local[<<f, l>>]) = K[N] /\ Local[<<f, l>>] \in Seq(X)
  <2> HIDE DEF K, seqs, M, V, X
  <2> QED BY <1>4, <1>5, <1>6, <1>10
<1> HIDE DEF K
<1> QED BY <1>10, <1>11, <1>12

--------------------------------------------------------------------------------
(***************************************************************************)
(* The invariant                                                           *)
(***************************************************************************)
\* What a client may hold of a field, and that a field is not replaced or a
\* value in it not set by a change after the nth
Frozen == [Leaves -> Values] \cup {None}
NoField(n, f) == \A m \in n + 1 .. Len(changes) : changes[m].path # <<f>>
NoLeaf(n, f, l) == \A m \in n + 1 .. Len(changes) : changes[m].path # <<f, l>>

\* What is held of a field once the first n changes of a squash are known, but
\* for what later changes are going to tell.
FieldHeld(held, f, n) ==
  /\ held \in Frozen
  /\ NoField(n, f) =>
       /\ held = None <=> block[f] = None
       /\ \A l \in Leaves : held # None /\ NoLeaf(n, f, l) => held[l] = heap[block[f]][l]

LeafHeld(held, f, l, n) ==
  /\ held \in LeafData
  /\ NoField(n, f) /\ NoLeaf(n, f, l) => held = Child(block[f], l)

ChangesOK ==
  /\ changes \in Seq(FieldChanges \cup LeafChanges)
  /\ count = 0 => changes = << >>

\* A model notifies the changes of a field while it is the model of the field.
Wired == \A o \in Objects, f \in Fields : wired[o] = f <=> block[f] = o

NodesTyped ==
  /\ nodes[Root] = "block"
  /\ \A f \in Fields : <<f>> \in DOMAIN nodes => nodes[<<f>>] \in Objects \cup {None}
  /\ \A f \in Fields, l \in Leaves : <<f, l>> \in DOMAIN nodes => nodes[<<f, l>>] \in LeafData

Typed == TreeFits /\ ChangesOK /\ Wired /\ NodesTyped

\* The last of the changes of a field, and of a value, tells what there is now.
FieldTold ==
  \A f \in Fields : \A n \in 1 .. Len(changes) :
    changes[n].path = <<f>> /\ NoField(n, f) => changes[n].data = block[f]

LeafTold ==
  \A f \in Fields, l \in Leaves : \A n \in 1 .. Len(changes) :
    changes[n].path = <<f, l>> /\ NoField(n, f) /\ NoLeaf(n, f, l) =>
      block[f] \in Objects /\ changes[n].data = heap[block[f]][l]

\* The nodes and the clients know all but what the changes are going to tell.
NodesTold ==
  /\ \A f \in Fields : <<f>> \in DOMAIN nodes /\ NoField(0, f) => nodes[<<f>>] = block[f]
  /\ \A f \in Fields, l \in Leaves :
       <<f, l>> \in DOMAIN nodes => LeafHeld(nodes[<<f, l>>], f, l, 0)

Told(held, p, n) ==
  /\ p = Root => /\ held \in [Fields -> Frozen]
                 /\ \A f \in Fields : FieldHeld(held[f], f, n)
  /\ \A f \in Fields : p = <<f>> => FieldHeld(held, f, n)
  /\ \A f \in Fields, l \in Leaves : p = <<f, l>> => LeafHeld(held, f, l, n)

ViewsTold == \A s \in Subscribers : request[s] # None => Told(view[s], request[s].path, 0)

IInv == Typed /\ FieldTold /\ LeafTold /\ NodesTold /\ ViewsTold

--------------------------------------------------------------------------------
(***************************************************************************)
(* A client that applies changes                                           *)
(***************************************************************************)
LEMMA FreezeIs ==
  /\ Freeze("block") = [f \in Fields |-> FrozenField(block[f])]
  /\ \A d \in Objects \cup {None} : Freeze(d) = FrozenField(d)
  /\ \A d \in LeafData : Freeze(d) = d
BY NamesAssumption DEF Freeze, FrozenField, LeafData

\* What a client makes of a change of a field or of a value, in what it holds
\* of the field and of the value.
TellField(f, held, c) ==
  IF c.path = <<f>> THEN FrozenField(c.data)
  ELSE IF held # None /\ \E l \in Leaves : c.path = <<f, l>>
  THEN [held EXCEPT ![c.path[2]] = c.data]
  ELSE held

TellLeaf(f, l, held, c) ==
  IF c.path = <<f>> THEN Child(c.data, l)
  ELSE IF c.path = <<f, l>> THEN c.data
  ELSE held

LEMMA TellFieldIs ==
  ASSUME NEW c, NEW f \in Fields, NEW held
  PROVE  /\ c.path = <<f>> => TellField(f, held, c) = FrozenField(c.data)
         /\ \A l \in Leaves : c.path = <<f, l>> =>
              TellField(f, held, c) = IF held = None THEN None ELSE [held EXCEPT ![l] = c.data]
         /\ ~Concerns(f, c) => TellField(f, held, c) = held
<1>1. \A l \in Leaves : <<f, l>>[2] = l /\ <<f, l>> # <<f>>
  OBVIOUS
<1> QED BY <1>1 DEF TellField, Concerns

\* A client of the block makes of a change what its fields make of it.
LEMMA ApplyToBlock ==
  ASSUME NEW c \in FieldChanges \cup LeafChanges, NEW held \in [Fields -> Frozen]
  PROVE  Apply(held, c) = [f \in Fields |-> TellField(f, held[f], c)]
<1>1. held # None
  <2>1. Frozen = [Leaves -> Values] \cup {None}
    BY DEF Frozen
  <2> QED BY <2>1, NoneAssumption
<1>2. ASSUME NEW f \in Fields, c.path = <<f>>, c.data \in Objects \cup {None}
      PROVE  Apply(held, c) = [g \in Fields |-> TellField(g, held[g], c)]
  <2>1. Apply(held, c) = [held EXCEPT ![f] = FrozenField(c.data)]
    <3>1. Freeze(c.data) = FrozenField(c.data)
      BY <1>2, FreezeIs
    <3> QED BY <1>1, <1>2, <3>1, PathKinds DEF Apply
  <2>2. TellField(f, held[f], c) = FrozenField(c.data)
    BY <1>2, TellFieldIs
  <2>3. ASSUME NEW g \in Fields \ {f} PROVE TellField(g, held[g], c) = held[g]
    <3>1. ~Concerns(g, c)
      BY <1>2 DEF Concerns
    <3> QED BY <3>1, TellFieldIs
  <2> QED BY <2>1, <2>2, <2>3
<1>3. ASSUME NEW f \in Fields, NEW l \in Leaves, c.path = <<f, l>>, c.data \in Values
      PROVE  Apply(held, c) = [g \in Fields |-> TellField(g, held[g], c)]
  <2>1. Apply(held, c) = IF held[f] = None THEN held ELSE [held EXCEPT ![f][l] = c.data]
    <3>1. Freeze(c.data) = c.data
      BY <1>3, FreezeIs DEF LeafData
    <3>2. c.path # Root /\ Len(c.path) # 1 /\ c.path[1] = f /\ c.path[2] = l
      BY <1>3, PathKinds
    <3> QED BY <1>1, <3>1, <3>2 DEF Apply
  <2>2. TellField(f, held[f], c) = IF held[f] = None THEN None ELSE [held[f] EXCEPT ![l] = c.data]
    BY <1>3, TellFieldIs
  <2>3. ASSUME NEW g \in Fields \ {f} PROVE TellField(g, held[g], c) = held[g]
    <3>1. ~Concerns(g, c)
      BY <1>3 DEF Concerns
    <3> QED BY <3>1, TellFieldIs
  <2> QED BY <2>1, <2>2, <2>3
<1> QED BY <1>2, <1>3, ChangeKinds

\* What a client of a field makes of the changes there
LEMMA ApplyToField ==
  ASSUME NEW c \in FieldChanges \cup LeafChanges, NEW f \in Fields, NEW held
  PROVE  /\ c.path = <<f>> => Apply(held, Changed(Root, c.data)) = TellField(f, held, c)
         /\ \A l \in Leaves : c.path = <<f, l>> =>
              Apply(held, Changed(<<l>>, c.data)) = TellField(f, held, c)
<1>1. \A p : Changed(p, c.data).path = p /\ Changed(p, c.data).data = c.data
  BY DEF Changed
<1>2. ASSUME c.path = <<f>> PROVE Apply(held, Changed(Root, c.data)) = TellField(f, held, c)
  <2>1. c.data \in Objects \cup {None}
    BY <1>2, ChangeKinds, PathsDiffer
  <2>2. Freeze(c.data) = FrozenField(c.data)
    BY <2>1, FreezeIs
  <2> QED BY <1>1, <1>2, <2>2, TellFieldIs DEF Apply
<1>3. ASSUME NEW l \in Leaves, c.path = <<f, l>>
      PROVE  Apply(held, Changed(<<l>>, c.data)) = TellField(f, held, c)
  <2>1. c.data \in LeafData
    BY <1>3, ChangeKinds, PathsDiffer DEF LeafData
  <2>2. Freeze(c.data) = c.data
    BY <2>1, FreezeIs
  <2>3. <<l>> # Root /\ Len(<<l>>) = 1 /\ <<l>>[1] = l
    BY DEF Root
  <2>4. Apply(held, Changed(<<l>>, c.data)) = IF held = None THEN None ELSE [held EXCEPT ![l] = c.data]
    BY <1>1, <2>2, <2>3 DEF Apply
  <2> QED BY <1>3, <2>4, TellFieldIs
<1> QED BY <1>2, <1>3

\* and one of a value
LEMMA ApplyToLeaf ==
  ASSUME NEW d \in LeafData, NEW held
  PROVE  Apply(held, Changed(Root, d)) = d
BY FreezeIs DEF Apply, Changed

\* What comes after a change, and what is from it on
LEMMA NothingLater ==
  ASSUME NEW f \in Fields, NEW n \in 1 .. Len(changes), Len(changes) \in Nat
  PROVE  /\ NoField(n - 1, f) <=> NoField(n, f) /\ changes[n].path # <<f>>
         /\ \A l \in Leaves : NoLeaf(n - 1, f, l) <=> NoLeaf(n, f, l) /\ changes[n].path # <<f, l>>
<1>1. n - 1 + 1 .. Len(changes) = (n + 1 .. Len(changes)) \cup {n}
  OBVIOUS
<1> QED BY <1>1 DEF NoField, NoLeaf

\* The nth change tells a client of a field what it has to,
LEMMA FieldHears ==
  ASSUME Typed, FieldTold, LeafTold, NEW f \in Fields, NEW n \in 1 .. Len(changes), NEW held,
         FieldHeld(held, f, n - 1)
  PROVE  FieldHeld(TellField(f, held, changes[n]), f, n)
<1> DEFINE c == changes[n]
<1>1. /\ Len(changes) \in Nat /\ c \in FieldChanges \cup LeafChanges
      /\ block[f] \in Objects \cup {None} /\ None \notin Objects
      /\ heap \in [Objects -> [Leaves -> Values]]
  BY NamesAssumption DEF Typed, ChangesOK, TreeFits, TypeOK
<1>2. /\ NoField(n - 1, f) <=> NoField(n, f) /\ c.path # <<f>>
      /\ \A l \in Leaves : NoLeaf(n - 1, f, l) <=> NoLeaf(n, f, l) /\ c.path # <<f, l>>
  BY <1>1, NothingLater
<1>8. /\ c.path = <<f>> /\ NoField(n, f) => c.data = block[f]
      /\ \A l \in Leaves : c.path = <<f, l>> /\ NoField(n, f) /\ NoLeaf(n, f, l) =>
           block[f] \in Objects /\ c.data = heap[block[f]][l]
  BY DEF FieldTold, LeafTold
<1> SUFFICES FieldHeld(TellField(f, held, c), f, n)
  OBVIOUS
<1> HIDE DEF c
<1>3. /\ held \in Frozen
      /\ NoField(n - 1, f) =>
           /\ held = None <=> block[f] = None
           /\ \A l \in Leaves : held # None /\ NoLeaf(n - 1, f, l) => held[l] = heap[block[f]][l]
  BY DEF FieldHeld
<1>4. None \notin [Leaves -> Values]
  BY NoneAssumption
<1>5. CASE c.path = <<f>>
  <2>1. TellField(f, held, c) = FrozenField(c.data)
    BY <1>5, TellFieldIs
  <2>2. c.data \in Objects \cup {None}
    BY <1>1, <1>5, ChangeKinds, PathsDiffer
  <2>3. FrozenField(c.data) \in Frozen /\ (FrozenField(c.data) = None <=> c.data = None)
    BY <1>1, <1>4, <2>2 DEF FrozenField, Frozen
  <2>4. NoField(n, f) => c.data = block[f]
    BY <1>8, <1>5
  <2>5. c.data # None => FrozenField(c.data) = heap[c.data]
    BY DEF FrozenField
  <2> QED BY <2>1, <2>3, <2>4, <2>5 DEF FieldHeld
<1>6. ASSUME NEW i \in Leaves, c.path = <<f, i>>
      PROVE  FieldHeld(TellField(f, held, c), f, n)
  <2>1. TellField(f, held, c) = IF held = None THEN None ELSE [held EXCEPT ![i] = c.data]
    <3>1. \A l \in Leaves : c.path = <<f, l>> =>
            TellField(f, held, c) = IF held = None THEN None ELSE [held EXCEPT ![l] = c.data]
      BY TellFieldIs
    <3> QED BY <1>6, <3>1
  <2>2. c.data \in Values
    <3>1. \/ \E g \in Fields : c.path = <<g>>
          \/ c.data \in Values
      BY <1>1, ChangeKinds
    <3> QED BY <1>6, <3>1, PathsDiffer
  <2>3. c.path # <<f>> /\ \A l \in Leaves \ {i} : c.path # <<f, l>>
    BY <1>6
  <2>4. NoField(n, f) /\ NoLeaf(n, f, i) => block[f] \in Objects /\ c.data = heap[block[f]][i]
    BY <1>8, <1>6
  <2>5. CASE held = None
    BY <1>2, <1>3, <2>1, <2>3, <2>5 DEF FieldHeld, Frozen
  <2>6. CASE held # None
    <3>1. held \in [Leaves -> Values]
      BY <1>3, <2>6 DEF Frozen
    <3>2. TellField(f, held, c) = [held EXCEPT ![i] = c.data]
      BY <2>1, <2>6
    <3>3. /\ TellField(f, held, c) \in [Leaves -> Values]
          /\ TellField(f, held, c)[i] = c.data
          /\ \A l \in Leaves \ {i} : TellField(f, held, c)[l] = held[l]
      BY <2>2, <3>1, <3>2
    <3> QED BY <1>2, <1>3, <1>4, <2>3, <2>4, <2>6, <3>3 DEF FieldHeld, Frozen
  <2> QED BY <2>5, <2>6
<1>7. CASE ~Concerns(f, c)
  <2>1. TellField(f, held, c) = held
    BY <1>7, TellFieldIs
  <2>2. c.path # <<f>> /\ \A l \in Leaves : c.path # <<f, l>>
    BY <1>7 DEF Concerns
  <2> QED BY <1>2, <1>3, <2>1, <2>2 DEF FieldHeld
<1> QED BY <1>5, <1>6, <1>7 DEF Concerns

\* and a client of a value.
LEMMA LeafHears ==
  ASSUME Typed, FieldTold, LeafTold, NEW f \in Fields, NEW l \in Leaves,
         NEW n \in 1 .. Len(changes), NEW held, LeafHeld(held, f, l, n - 1)
  PROVE  LeafHeld(TellLeaf(f, l, held, changes[n]), f, l, n)
<1> DEFINE c == changes[n]
<1>1. TypeOK /\ Len(changes) \in Nat /\ c \in FieldChanges \cup LeafChanges
  BY DEF Typed, ChangesOK, TreeFits
<1>2. /\ NoField(n - 1, f) <=> NoField(n, f) /\ c.path # <<f>>
      /\ NoLeaf(n - 1, f, l) <=> NoLeaf(n, f, l) /\ c.path # <<f, l>>
  BY <1>1, NothingLater
<1>8. /\ c.path = <<f>> /\ NoField(n, f) => c.data = block[f]
      /\ c.path = <<f, l>> /\ NoField(n, f) /\ NoLeaf(n, f, l) =>
           block[f] \in Objects /\ c.data = heap[block[f]][l]
  BY DEF FieldTold, LeafTold
<1> SUFFICES LeafHeld(TellLeaf(f, l, held, c), f, l, n)
  OBVIOUS
<1> HIDE DEF c
<1>3. CASE c.path = <<f>>
  <2>1. TellLeaf(f, l, held, c) = Child(c.data, l)
    BY <1>3 DEF TellLeaf
  <2>2. c.data \in Objects \cup {None}
    BY <1>1, <1>3, ChangeKinds, PathsDiffer
  <2>3. Child(c.data, l) \in LeafData
    BY <1>1, <2>2, ChildIs
  <2>4. NoField(n, f) => c.data = block[f]
    BY <1>8, <1>3
  <2> QED BY <2>1, <2>3, <2>4 DEF LeafHeld
<1>4. CASE c.path = <<f, l>>
  <2>1. TellLeaf(f, l, held, c) = c.data
    BY <1>4, PathsDiffer DEF TellLeaf
  <2>2. c.data \in LeafData
    BY <1>1, <1>4, ChangeKinds, PathsDiffer DEF LeafData
  <2>3. NoField(n, f) /\ NoLeaf(n, f, l) => block[f] \in Objects /\ c.data = heap[block[f]][l]
    BY <1>8, <1>4
  <2>4. block[f] \in Objects => Child(block[f], l) = heap[block[f]][l]
    BY <1>1, ChildIs
  <2> QED BY <2>1, <2>2, <2>3, <2>4 DEF LeafHeld
<1>5. CASE ~ConcernsLeaf(f, l, c)
  BY <1>2, <1>5 DEF ConcernsLeaf, TellLeaf, LeafHeld
<1> QED BY <1>3, <1>4, <1>5 DEF ConcernsLeaf

\* In the end it holds what there is.
LEMMA AllHeld ==
  ASSUME Typed, NEW held, NEW f \in Fields
  PROVE  /\ FieldHeld(held, f, Len(changes)) => held = FrozenField(block[f])
         /\ \A l \in Leaves : LeafHeld(held, f, l, Len(changes)) => held = Child(block[f], l)
<1>1. Len(changes) \in Nat /\ block[f] \in Objects \cup {None} /\ heap \in [Objects -> [Leaves -> Values]]
  BY DEF Typed, ChangesOK, TreeFits, TypeOK
<1>2. Len(changes) + 1 .. Len(changes) = {}
  BY <1>1
<1>3. NoField(Len(changes), f) /\ \A l \in Leaves : NoLeaf(Len(changes), f, l)
  BY <1>2 DEF NoField, NoLeaf
<1>4. ASSUME FieldHeld(held, f, Len(changes)) PROVE held = FrozenField(block[f])
  <2>1. /\ held \in Frozen /\ (held = None <=> block[f] = None)
        /\ \A l \in Leaves : held # None => held[l] = heap[block[f]][l]
    BY <1>3, <1>4 DEF FieldHeld
  <2>2. CASE held = None
    BY <2>1, <2>2 DEF FrozenField
  <2>3. CASE held # None
    <3>1. held \in [Leaves -> Values] /\ heap[block[f]] \in [Leaves -> Values]
      BY <1>1, <2>1, <2>3 DEF Frozen
    <3>2. held = heap[block[f]]
      BY <2>1, <2>3, <3>1
    <3> QED BY <2>1, <2>3, <3>2 DEF FrozenField
  <2> QED BY <2>2, <2>3
<1> QED BY <1>3, <1>4 DEF LeafHeld

LEMMA DataAtIs ==
  /\ DataAt(Root) = "block"
  /\ \A f \in Fields : DataAt(<<f>>) = block[f]
  /\ \A f \in Fields, l \in Leaves : DataAt(<<f, l>>) = Child(block[f], l)
BY PathKinds DEF DataAt

\* Whoever is told of every change holds what there is in the end: a client of
\* the block,
LEMMA BlockFollows ==
  ASSUME Typed, FieldTold, LeafTold, NEW held, Told(held, Root, 0)
  PROVE  Applied(held, Local[Root]) = Freeze(DataAt(Root))
<1> DEFINE N == Len(changes)
           local == Local[Root]
<1>1. /\ N \in Nat /\ DOMAIN local = 1 .. N
      /\ \A n \in 1 .. N : changes[n] \in FieldChanges \cup LeafChanges /\ local[n] = changes[n]
  BY LocalIs DEF Typed, ChangesOK
<1> HIDE DEF local
<1>2. PICK g : Chained(g, held, local, N)
  <2> HIDE DEF N
  <2> QED BY <1>1, FoldIs
<1>8. g[0] = held /\ (\A n \in 1 .. N : g[n] = Apply(g[n - 1], local[n])) /\ Applied(held, local) = g[N]
  BY <1>2 DEF Chained
<1> DEFINE Follows(n) == g[n] \in [Fields -> Frozen] /\ \A f \in Fields : FieldHeld(g[n][f], f, n)
           Bad == {n \in 0 .. N : ~Follows(n)}
<1>3. Follows(0)
  BY <1>8 DEF Told
<1>4. ASSUME NEW n \in 1 .. N, Follows(n - 1) PROVE Follows(n)
  <2>1. g[n] = [f \in Fields |-> TellField(f, g[n - 1][f], changes[n])]
    <3>1. g[n - 1] \in [Fields -> Frozen]
      BY <1>4
    <3> QED BY <1>1, <1>8, <3>1, ApplyToBlock
  <2>2. ASSUME NEW f \in Fields PROVE FieldHeld(g[n][f], f, n)
    <3>1. FieldHeld(g[n - 1][f], f, n - 1)
      BY <1>4
    <3>2. FieldHeld(TellField(f, g[n - 1][f], changes[n]), f, n)
      BY <3>1, FieldHears
    <3>3. g[n][f] = TellField(f, g[n - 1][f], changes[n])
      BY <2>1
    <3> QED BY <3>2, <3>3
  <2>3. \A f \in Fields : g[n][f] \in Frozen
    BY <2>2 DEF FieldHeld
  <2>4. g[n] \in [Fields -> Frozen]
    BY <2>1, <2>3
  <2> QED BY <2>2, <2>4
<1>5. Bad = {}
  <2> HIDE DEF Follows
  <2>1. Bad \in SUBSET (0 .. N) /\ 0 \notin Bad
    BY <1>3
  <2>2. ASSUME NEW n \in 1 .. N, n \in Bad PROVE n - 1 \in Bad
    <3>1. n - 1 \in 0 .. N
      BY <1>1
    <3> QED BY <1>4, <2>2, <3>1
  <2> HIDE DEF Bad, N
  <2> QED BY <1>1, <2>1, <2>2, NoneIsFirst
<1>6. Follows(N)
  <2>1. N \in 0 .. N
    BY <1>1
  <2> HIDE DEF Follows
  <2> QED BY <1>5, <2>1
<1>7. g[N] = [f \in Fields |-> FrozenField(block[f])]
  <2>1. ASSUME NEW f \in Fields PROVE g[N][f] = FrozenField(block[f])
    <3>1. FieldHeld(g[N][f], f, Len(changes))
      BY <1>6
    <3> QED BY <3>1, AllHeld
  <2> QED BY <1>6, <2>1
<1> QED BY <1>7, <1>8, DataAtIs, FreezeIs DEF local

\* of a field,
LEMMA FieldFollows ==
  ASSUME Typed, FieldTold, LeafTold, NEW f \in Fields, NEW held, FieldHeld(held, f, 0)
  PROVE  Applied(held, Local[<<f>>]) = Freeze(DataAt(<<f>>))
<1> DEFINE N == Len(changes)
           local == Local[<<f>>]
           M == Len(local)
<1>1. N \in Nat /\ \A n \in 1 .. N : changes[n] \in FieldChanges \cup LeafChanges
  BY DEF Typed, ChangesOK
<1>2. changes \in Seq(FieldChanges \cup LeafChanges)
  BY DEF Typed, ChangesOK
<1>3. /\ local \in Seq(LocalChanges)
      /\ \E k : /\ Places({n \in 1 .. N : Concerns(f, changes[n])}, N, k)
                /\ M = k[N]
                /\ \A n \in 1 .. N : Concerns(f, changes[n]) =>
                     /\ k[n] \in 1 .. k[N]
                     /\ changes[n].path = <<f>> => local[k[n]] = Changed(Root, changes[n].data)
                     /\ \A l \in Leaves : changes[n].path = <<f, l>> =>
                          local[k[n]] = Changed(<<l>>, changes[n].data)
  BY <1>2, FieldLocalIs
<1> HIDE DEF local
<1>4. M \in Nat /\ DOMAIN local = 1 .. M
  BY <1>3
<1>5. PICK k : /\ Places({n \in 1 .. N : Concerns(f, changes[n])}, N, k)
               /\ M = k[N]
               /\ \A n \in 1 .. N : Concerns(f, changes[n]) =>
                    /\ k[n] \in 1 .. k[N]
                    /\ changes[n].path = <<f>> => local[k[n]] = Changed(Root, changes[n].data)
                    /\ \A l \in Leaves : changes[n].path = <<f, l>> =>
                         local[k[n]] = Changed(<<l>>, changes[n].data)
  BY <1>3
<1>6. PICK g : Chained(g, held, local, M)
  <2> HIDE DEF M
  <2> QED BY <1>4, FoldIs
<1>13. g[0] = held /\ (\A n \in 1 .. M : g[n] = Apply(g[n - 1], local[n])) /\ Applied(held, local) = g[M]
  BY <1>6 DEF Chained
<1> DEFINE W == {n \in 1 .. N : Concerns(f, changes[n])}
           Bad == {n \in 0 .. N : ~FieldHeld(g[k[n]], f, n)}
<1>7. k[0] = 0 /\ \A n \in 1 .. N : k[n - 1] \in Nat /\ k[n] = k[n - 1] + IF n \in W THEN 1 ELSE 0
  <2>1. k \in [0 .. N -> Nat] /\ k[0] = 0 /\ \A n \in 1 .. N : k[n] = k[n - 1] + IF n \in W THEN 1 ELSE 0
    BY <1>5 DEF Places
  <2>2. \A n \in 1 .. N : n - 1 \in 0 .. N
    BY <1>1
  <2> HIDE DEF N, W
  <2> QED BY <2>1, <2>2
<1>8. ASSUME NEW n \in 1 .. N, FieldHeld(g[k[n - 1]], f, n - 1) PROVE FieldHeld(g[k[n]], f, n)
  <2>1. FieldHeld(TellField(f, g[k[n - 1]], changes[n]), f, n)
    BY <1>8, FieldHears
  <2>2. g[k[n]] = TellField(f, g[k[n - 1]], changes[n])
    <3>1. CASE Concerns(f, changes[n])
      <4>1. n \in W
        BY <3>1
      <4>2. k[n] = k[n - 1] + 1 /\ k[n - 1] \in Nat
        BY <1>7, <4>1
      <4>3. k[n] \in 1 .. M
        BY <1>5, <3>1
      <4>4. k[n] - 1 = k[n - 1]
        BY <4>2
      <4>5. g[k[n]] = Apply(g[k[n - 1]], local[k[n]])
        <5> HIDE DEF M
        <5> QED BY <1>13, <4>3, <4>4
      <4>6. changes[n] \in FieldChanges \cup LeafChanges
        BY <1>1
      <4>7. CASE changes[n].path = <<f>>
        <5>1. local[k[n]] = Changed(Root, changes[n].data)
          BY <1>5, <3>1, <4>7
        <5> QED BY <4>5, <4>6, <4>7, <5>1, ApplyToField
      <4>8. ASSUME NEW l \in Leaves, changes[n].path = <<f, l>>
            PROVE  g[k[n]] = TellField(f, g[k[n - 1]], changes[n])
        <5>1. local[k[n]] = Changed(<<l>>, changes[n].data)
          BY <1>5, <3>1, <4>8
        <5>2. Apply(g[k[n - 1]], Changed(<<l>>, changes[n].data)) = TellField(f, g[k[n - 1]], changes[n])
          BY <4>6, <4>8, ApplyToField
        <5> QED BY <4>5, <5>1, <5>2
      <4> QED BY <3>1, <4>7, <4>8 DEF Concerns
    <3>2. CASE ~Concerns(f, changes[n])
      <4>1. n \notin W
        BY <3>2
      <4>2. k[n] = k[n - 1]
        BY <1>7, <4>1
      <4>3. TellField(f, g[k[n - 1]], changes[n]) = g[k[n - 1]]
        BY <3>2, TellFieldIs
      <4> QED BY <4>2, <4>3
    <3> QED BY <3>1, <3>2
  <2> QED BY <2>1, <2>2
<1>9. Bad = {}
  <2>1. Bad \in SUBSET (0 .. N) /\ 0 \notin Bad
    BY <1>7, <1>13
  <2>2. ASSUME NEW n \in 1 .. N, n \in Bad PROVE n - 1 \in Bad
    <3>1. n - 1 \in 0 .. N
      BY <1>1
    <3> QED BY <1>8, <2>2, <3>1
  <2> HIDE DEF Bad, N
  <2> QED BY <1>1, <2>1, <2>2, NoneIsFirst
<1>10. FieldHeld(g[k[N]], f, N)
  <2>1. N \in 0 .. N
    BY <1>1
  <2> QED BY <1>9, <2>1
<1>11. g[M] = FrozenField(block[f])
  BY <1>5, <1>10, AllHeld
<1>12. block[f] \in Objects \cup {None}
  BY DEF Typed, TreeFits, TypeOK
<1> QED BY <1>11, <1>12, <1>13, DataAtIs, FreezeIs DEF local

\* and of a value.
LEMMA LeafFollows ==
  ASSUME Typed, FieldTold, LeafTold, NEW f \in Fields, NEW l \in Leaves, NEW held,
         LeafHeld(held, f, l, 0)
  PROVE  Applied(held, Local[<<f, l>>]) = Freeze(DataAt(<<f, l>>))
<1> DEFINE N == Len(changes)
           local == Local[<<f, l>>]
           M == Len(local)
<1>1. N \in Nat /\ \A n \in 1 .. N : changes[n] \in FieldChanges \cup LeafChanges
  BY DEF Typed, ChangesOK
<1>2. TypeOK /\ changes \in Seq(FieldChanges \cup LeafChanges)
  BY DEF Typed, ChangesOK, TreeFits
<1>3. /\ local \in Seq({Changed(Root, d) : d \in LeafData})
      /\ \E k : /\ Places({n \in 1 .. N : ConcernsLeaf(f, l, changes[n])}, N, k)
                /\ M = k[N]
                /\ \A n \in 1 .. N : ConcernsLeaf(f, l, changes[n]) =>
                     /\ k[n] \in 1 .. k[N]
                     /\ changes[n].path = <<f>> =>
                          local[k[n]] = Changed(Root, Child(changes[n].data, l))
                     /\ changes[n].path = <<f, l>> => local[k[n]] = Changed(Root, changes[n].data)
  BY <1>2, LeafLocalIs
<1> HIDE DEF local
<1>4. M \in Nat /\ DOMAIN local = 1 .. M
  BY <1>3
<1>5. PICK k : /\ Places({n \in 1 .. N : ConcernsLeaf(f, l, changes[n])}, N, k)
               /\ M = k[N]
               /\ \A n \in 1 .. N : ConcernsLeaf(f, l, changes[n]) =>
                    /\ k[n] \in 1 .. k[N]
                    /\ changes[n].path = <<f>> =>
                         local[k[n]] = Changed(Root, Child(changes[n].data, l))
                    /\ changes[n].path = <<f, l>> => local[k[n]] = Changed(Root, changes[n].data)
  BY <1>3
<1>6. PICK g : Chained(g, held, local, M)
  <2> HIDE DEF M
  <2> QED BY <1>4, FoldIs
<1>7. g[0] = held /\ (\A n \in 1 .. M : g[n] = Apply(g[n - 1], local[n])) /\ Applied(held, local) = g[M]
  BY <1>6 DEF Chained
<1> DEFINE W == {n \in 1 .. N : ConcernsLeaf(f, l, changes[n])}
           Bad == {n \in 0 .. N : ~LeafHeld(g[k[n]], f, l, n)}
<1>8. k[0] = 0 /\ \A n \in 1 .. N : k[n - 1] \in Nat /\ k[n] = k[n - 1] + IF n \in W THEN 1 ELSE 0
  <2>1. k \in [0 .. N -> Nat] /\ k[0] = 0 /\ \A n \in 1 .. N : k[n] = k[n - 1] + IF n \in W THEN 1 ELSE 0
    BY <1>5 DEF Places
  <2>2. \A n \in 1 .. N : n - 1 \in 0 .. N
    BY <1>1
  <2> HIDE DEF N, W
  <2> QED BY <2>1, <2>2
<1>9. ASSUME NEW n \in 1 .. N, LeafHeld(g[k[n - 1]], f, l, n - 1) PROVE LeafHeld(g[k[n]], f, l, n)
  <2>1. LeafHeld(TellLeaf(f, l, g[k[n - 1]], changes[n]), f, l, n)
    BY <1>9, LeafHears
  <2>2. g[k[n]] = TellLeaf(f, l, g[k[n - 1]], changes[n])
    <3>1. CASE ConcernsLeaf(f, l, changes[n])
      <4>1. n \in W
        BY <3>1
      <4>2. k[n] = k[n - 1] + 1 /\ k[n - 1] \in Nat
        BY <1>8, <4>1
      <4>3. k[n] \in 1 .. M
        BY <1>5, <3>1
      <4>4. k[n] - 1 = k[n - 1]
        BY <4>2
      <4>5. g[k[n]] = Apply(g[k[n - 1]], local[k[n]])
        <5> HIDE DEF M
        <5> QED BY <1>7, <4>3, <4>4
      <4>6. changes[n] \in FieldChanges \cup LeafChanges
        BY <1>1
      <4>7. CASE changes[n].path = <<f>>
        <5>1. local[k[n]] = Changed(Root, Child(changes[n].data, l))
          BY <1>5, <3>1, <4>7
        <5>2. changes[n].data \in Objects \cup {None}
          BY <4>6, <4>7, ChangeKinds, PathsDiffer
        <5>3. Child(changes[n].data, l) \in LeafData
          BY <1>2, <5>2, ChildIs
        <5>4. Apply(g[k[n - 1]], local[k[n]]) = Child(changes[n].data, l)
          BY <5>1, <5>3, ApplyToLeaf
        <5> QED BY <4>5, <4>7, <5>4 DEF TellLeaf
      <4>8. CASE changes[n].path = <<f, l>>
        <5>1. local[k[n]] = Changed(Root, changes[n].data)
          BY <1>5, <3>1, <4>8
        <5>2. changes[n].data \in LeafData
          BY <4>6, <4>8, ChangeKinds, PathsDiffer DEF LeafData
        <5>3. Apply(g[k[n - 1]], local[k[n]]) = changes[n].data
          BY <5>1, <5>2, ApplyToLeaf
        <5>4. changes[n].path # <<f>>
          BY <4>8
        <5> QED BY <4>5, <4>8, <5>3, <5>4 DEF TellLeaf
      <4> QED BY <3>1, <4>7, <4>8 DEF ConcernsLeaf
    <3>2. CASE ~ConcernsLeaf(f, l, changes[n])
      <4>1. n \notin W
        BY <3>2
      <4>2. k[n] = k[n - 1]
        BY <1>8, <4>1
      <4> QED BY <3>2, <4>2 DEF ConcernsLeaf, TellLeaf
    <3> QED BY <3>1, <3>2
  <2> QED BY <2>1, <2>2
<1>10. Bad = {}
  <2>1. Bad \in SUBSET (0 .. N) /\ 0 \notin Bad
    BY <1>7, <1>8
  <2>2. ASSUME NEW n \in 1 .. N, n \in Bad PROVE n - 1 \in Bad
    <3>1. n - 1 \in 0 .. N
      BY <1>1
    <3> QED BY <1>9, <2>2, <3>1
  <2> HIDE DEF Bad, N
  <2> QED BY <1>1, <2>1, <2>2, NoneIsFirst
<1>11. LeafHeld(g[k[N]], f, l, N)
  <2>1. N \in 0 .. N
    BY <1>1
  <2> QED BY <1>10, <2>1
<1>12. g[M] = Child(block[f], l)
  BY <1>5, <1>11, AllHeld
<1>13. Child(block[f], l) \in LeafData
  <2>1. block[f] \in Objects \cup {None}
    BY <1>2 DEF TypeOK
  <2> QED BY <1>2, <2>1, ChildIs
<1> QED BY <1>7, <1>12, <1>13, DataAtIs, FreezeIs DEF local

\* A client of a path holds what there is, once it has been told of all changes.
LEMMA ClientFollows ==
  ASSUME Typed, FieldTold, LeafTold, NEW p \in Paths, NEW held, Told(held, p, 0)
  PROVE  Applied(held, Local[p]) = Freeze(DataAt(p))
<1>1. CASE p = Root
  BY <1>1, BlockFollows
<1>2. ASSUME NEW f \in Fields, p = <<f>> PROVE Applied(held, Local[p]) = Freeze(DataAt(p))
  <2>1. FieldHeld(held, f, 0)
    BY <1>2 DEF Told
  <2> QED BY <1>2, <2>1, FieldFollows
<1>3. ASSUME NEW f \in Fields, NEW l \in Leaves, p = <<f, l>>
      PROVE  Applied(held, Local[p]) = Freeze(DataAt(p))
  <2>1. LeafHeld(held, f, l, 0)
    BY <1>3 DEF Told
  <2> QED BY <1>3, <2>1, LeafFollows
<1> QED BY <1>1, <1>2, <1>3, PathKinds

\* A node is pointed at what there is: that of a field
LEMMA FieldNodeFollows ==
  ASSUME Typed, FieldTold, NodesTold, NEW f \in Fields, <<f>> \in DOMAIN nodes
  PROVE  NewData(<<f>>, Local[<<f>>]) = block[f]
<1> DEFINE N == Len(changes)
           local == Local[<<f>>]
           W == {n \in 1 .. N : Concerns(f, changes[n])}
<1>1. N \in Nat /\ changes \in Seq(FieldChanges \cup LeafChanges)
  BY DEF Typed, ChangesOK
<1>2. /\ local \in Seq(LocalChanges)
      /\ \E k : /\ Places(W, N, k)
                /\ Len(local) = k[N]
                /\ \A n \in 1 .. N : Concerns(f, changes[n]) =>
                     /\ k[n] \in 1 .. k[N]
                     /\ changes[n].path = <<f>> => local[k[n]] = Changed(Root, changes[n].data)
                     /\ \A l \in Leaves : changes[n].path = <<f, l>> =>
                          local[k[n]] = Changed(<<l>>, changes[n].data)
  BY <1>1, FieldLocalIs
<1> SUFFICES NewData(<<f>>, local) = block[f]
  OBVIOUS
<1> HIDE DEF local
<1>3. PICK k : /\ Places(W, N, k)
               /\ Len(local) = k[N]
               /\ \A n \in 1 .. N : Concerns(f, changes[n]) =>
                    /\ k[n] \in 1 .. k[N]
                    /\ changes[n].path = <<f>> => local[k[n]] = Changed(Root, changes[n].data)
                    /\ \A l \in Leaves : changes[n].path = <<f, l>> =>
                         local[k[n]] = Changed(<<l>>, changes[n].data)
  BY <1>2
<1>4. /\ \A n \in 0 .. N : \A m \in n .. N : k[n] <= k[m]
      /\ \A j \in 1 .. k[N] : \E n \in 1 .. N : k[n] = j /\ n \in W
  <2> HIDE DEF N, W
  <2> QED BY <1>1, <1>3, PlacesInOrder
<1>5. \A n \in 1 .. N : k[n - 1] \in Nat /\ k[n] = k[n - 1] + IF n \in W THEN 1 ELSE 0
  <2>1. k \in [0 .. N -> Nat] /\ \A n \in 1 .. N : k[n] = k[n - 1] + IF n \in W THEN 1 ELSE 0
    BY <1>3 DEF Places
  <2>2. \A n \in 1 .. N : n - 1 \in 0 .. N
    BY <1>1
  <2> HIDE DEF N, W
  <2> QED BY <2>1, <2>2
<1>6. \A i \in Leaves : \A d :
        Changed(<<i>>, d).path # Root /\ Changed(Root, d).path = Root /\ Changed(Root, d).data = d
  BY DEF Changed, Root
\* The changes of all of the field are the changes of all of it here.
<1>7. \A n \in 1 .. N : changes[n].path = <<f>> =>
        k[n] \in 1 .. Len(local) /\ local[k[n]].path = Root /\ local[k[n]].data = changes[n].data
  <2> SUFFICES ASSUME NEW n \in 1 .. N, changes[n].path = <<f>>
               PROVE  /\ k[n] \in 1 .. Len(local)
                      /\ local[k[n]].path = Root /\ local[k[n]].data = changes[n].data
    OBVIOUS
  <2>1. Concerns(f, changes[n])
    BY DEF Concerns
  <2>2. k[n] \in 1 .. Len(local) /\ local[k[n]] = Changed(Root, changes[n].data)
    BY <1>3, <2>1
  <2> QED BY <2>2 DEF Changed
<1>8. ASSUME NEW j \in 1 .. Len(local), local[j].path = Root
      PROVE  \E n \in 1 .. N : k[n] = j /\ changes[n].path = <<f>>
  <2>1. PICK n \in 1 .. N : k[n] = j /\ n \in W
    BY <1>3, <1>4
  <2>2. Concerns(f, changes[n])
    BY <2>1
  <2>3. \A l \in Leaves : changes[n].path # <<f, l>>
    BY <1>3, <1>6, <1>8, <2>1, <2>2
  <2> QED BY <2>1, <2>2, <2>3 DEF Concerns
<1>9. CASE NewData(<<f>>, local) = nodes[<<f>>] /\ \A n \in 1 .. Len(local) : local[n].path # Root
  <2>1. \A n \in 1 .. N : changes[n].path # <<f>>
    BY <1>7, <1>9
  <2>2. NoField(0, f)
    BY <2>1 DEF NoField
  <2>3. nodes[<<f>>] = block[f]
    BY <2>2 DEF NodesTold
  <2> QED BY <1>9, <2>3
<1>10. ASSUME NEW last \in 1 .. Len(local), NewData(<<f>>, local) = local[last].data,
              local[last].path = Root, \A n \in 1 .. Len(local) : n > last => local[n].path # Root
       PROVE  NewData(<<f>>, local) = block[f]
  <2>1. PICK n \in 1 .. N : k[n] = last /\ changes[n].path = <<f>>
    BY <1>8, <1>10
  <2>2. ASSUME NEW m \in n + 1 .. N PROVE changes[m].path # <<f>>
    <3> SUFFICES ASSUME changes[m].path = <<f>> PROVE FALSE
      OBVIOUS
    <3>1. m \in 1 .. N /\ m - 1 \in n .. N /\ n \in 0 .. N
      BY <1>1
    <3>2. m \in W
      BY <3>1 DEF Concerns
    <3>3. k[m] = k[m - 1] + 1 /\ k[m - 1] \in Nat /\ k[n] <= k[m - 1]
      BY <1>4, <1>5, <3>1, <3>2
    <3>4. k[m] \in 1 .. Len(local) /\ local[k[m]].path = Root
      BY <1>7, <3>1
    <3>5. k[m] > last
      BY <2>1, <3>3
    <3> QED BY <1>10, <3>4, <3>5
  <2>3. NoField(n, f)
    BY <2>2 DEF NoField
  <2>4. changes[n].data = block[f]
    BY <2>1, <2>3 DEF FieldTold
  <2> QED BY <1>7, <1>10, <2>1, <2>4
<1>11. \/ NewData(<<f>>, local) = nodes[<<f>>] /\ \A n \in 1 .. Len(local) : local[n].path # Root
       \/ \E last \in 1 .. Len(local) :
            /\ NewData(<<f>>, local) = local[last].data
            /\ local[last].path = Root
            /\ \A n \in 1 .. Len(local) : n > last => local[n].path # Root
  BY <1>2, NewDataIs
<1> QED BY <1>9, <1>10, <1>11

\* and that of a value, where a node is told what a client of it is.
LEMMA LeafNodeFollows ==
  ASSUME Typed, FieldTold, LeafTold, NodesTold, NEW f \in Fields, NEW l \in Leaves,
         <<f, l>> \in DOMAIN nodes
  PROVE  NewData(<<f, l>>, Local[<<f, l>>]) = Child(block[f], l)
<1> DEFINE local == Local[<<f, l>>]
           M == Len(local)
           p == <<f, l>>
<1>1. TypeOK /\ changes \in Seq(FieldChanges \cup LeafChanges)
  BY DEF Typed, ChangesOK, TreeFits
<1>2. local \in Seq({Changed(Root, d) : d \in LeafData})
  BY <1>1, LeafLocalIs
<1>3. Applied(nodes[p], local) = Child(block[f], l)
  <2>1. LeafHeld(nodes[p], f, l, 0)
    BY DEF NodesTold
  <2>2. Applied(nodes[p], local) = Freeze(DataAt(p))
    BY <2>1, LeafFollows
  <2>3. block[f] \in Objects \cup {None}
    BY <1>1 DEF TypeOK
  <2>4. Child(block[f], l) \in LeafData
    BY <1>1, <2>3, ChildIs
  <2> HIDE DEF local
  <2> QED BY <2>2, <2>4, DataAtIs, FreezeIs
<1> SUFFICES NewData(p, local) = Applied(nodes[p], local)
  BY <1>3
<1> HIDE DEF local
<1>4. M \in Nat /\ DOMAIN local = 1 .. M
  BY <1>2
<1>5. ASSUME NEW n \in 1 .. M
      PROVE  local[n].path = Root /\ \A held : Apply(held, local[n]) = local[n].data
  <2>1. local[n] \in {Changed(Root, d) : d \in LeafData}
    BY <1>2
  <2>2. PICK d \in LeafData : local[n] = Changed(Root, d)
    BY <2>1
  <2>3. local[n].path = Root /\ local[n].data = d
    BY <2>2 DEF Changed
  <2> QED BY <2>2, <2>3, ApplyToLeaf
<1> DEFINE v == nodes[p]
<1> HIDE DEF v
<1>6. PICK g : Chained(g, v, local, M)
  <2> HIDE DEF M
  <2> QED BY <1>4, FoldIs
<1>7. g[0] = v /\ (\A n \in 1 .. M : g[n] = Apply(g[n - 1], local[n])) /\ Applied(v, local) = g[M]
  BY <1>6 DEF Chained
<1>8. \/ NewData(p, local) = nodes[p] /\ \A n \in 1 .. Len(local) : local[n].path # Root
      \/ \E last \in 1 .. Len(local) :
           /\ NewData(p, local) = local[last].data
           /\ local[last].path = Root
           /\ \A n \in 1 .. Len(local) : n > last => local[n].path # Root
  <2> HIDE DEF p
  <2> QED BY <1>2, NewDataIs
<1>9. CASE M = 0
  <2>1. 1 .. Len(local) = {}
    BY <1>9
  <2>2. NewData(p, local) = nodes[p]
    BY <1>8, <2>1
  <2> QED BY <1>7, <1>9, <2>2 DEF v
<1>10. CASE M # 0
  <2>1. M \in 1 .. M
    BY <1>4, <1>10
  <2>2. g[M] = local[M].data
    BY <1>5, <1>7, <2>1
  <2>3. local[M].path = Root
    BY <1>5, <2>1
  <2>4. PICK last \in 1 .. M : /\ NewData(p, local) = local[last].data
                               /\ \A n \in 1 .. M : n > last => local[n].path # Root
    BY <1>8, <2>1, <2>3
  <2>5. last = M
    BY <1>4, <2>1, <2>3, <2>4
  <2> QED BY <1>7, <2>2, <2>4, <2>5 DEF v
<1> QED BY <1>9, <1>10

\* Every node is pointed at what there is at its path.
LEMMA NodeFollows ==
  ASSUME Typed, FieldTold, LeafTold, NodesTold, NEW p \in DOMAIN nodes
  PROVE  NewData(p, Local[p]) = DataAt(p)
<1>1. p \in Paths
  BY DEF Typed, TreeFits, TypeOK
<1>2. CASE p = Root
  <2> DEFINE local == Local[Root]
  <2>1. local \in Seq(FieldChanges \cup LeafChanges)
    BY LocalIs DEF Typed, ChangesOK
  <2> SUFFICES NewData(Root, local) = "block"
    BY <1>2, DataAtIs
  <2> HIDE DEF local
  <2>2. \A n \in 1 .. Len(local) : local[n].path # Root
    <3>1. \A n \in 1 .. Len(local) : local[n] \in FieldChanges \cup LeafChanges
      BY <2>1
    <3>2. \A f \in Fields : <<f>> # Root /\ \A l \in Leaves : <<f, l>> # Root
      BY DEF Root
    <3> QED BY <3>1, <3>2, ChangeKinds
  <2>3. NewData(Root, local) = nodes[Root]
    BY <2>1, <2>2, NewDataIs
  <2> QED BY <2>3 DEF Typed, NodesTyped
<1>3. ASSUME NEW f \in Fields, p = <<f>> PROVE NewData(p, Local[p]) = DataAt(p)
  BY <1>3, FieldNodeFollows, DataAtIs
<1>4. ASSUME NEW f \in Fields, NEW l \in Leaves, p = <<f, l>>
      PROVE  NewData(p, Local[p]) = DataAt(p)
  BY <1>4, LeafNodeFollows, DataAtIs
<1> QED BY <1>1, <1>2, <1>3, <1>4, PathKinds

--------------------------------------------------------------------------------
(***************************************************************************)
(* Between squashes                                                        *)
(***************************************************************************)
InStep ==
  /\ \A p \in DOMAIN nodes : nodes[p] = DataAt(p)
  /\ \A s \in Subscribers : request[s] # None => view[s] = Freeze(DataAt(request[s].path))

\* Who holds what there is has been told.
LEMMA HeldIsTold ==
  ASSUME TypeOK, NEW p \in Paths, NEW n
  PROVE  Told(Freeze(DataAt(p)), p, n)
<1>1. ASSUME NEW f \in Fields PROVE FieldHeld(FrozenField(block[f]), f, n)
  <2>1. block[f] \in Objects \cup {None} /\ heap \in [Objects -> [Leaves -> Values]]
    BY DEF TypeOK
  <2>2. CASE block[f] = None
    <3>1. FrozenField(block[f]) = None
      BY <2>2 DEF FrozenField
    <3> QED BY <2>2, <3>1 DEF FieldHeld, Frozen
  <2>3. CASE block[f] # None
    <3>1. FrozenField(block[f]) = heap[block[f]] /\ heap[block[f]] \in [Leaves -> Values]
      BY <2>1, <2>3 DEF FrozenField
    <3>2. heap[block[f]] # None
      BY <3>1, NoneAssumption
    <3> QED BY <2>3, <3>1, <3>2 DEF FieldHeld, Frozen
  <2> QED BY <2>2, <2>3
<1>2. CASE p = Root
  <2>1. Freeze(DataAt(p)) = [f \in Fields |-> FrozenField(block[f])]
    BY <1>2, DataAtIs, FreezeIs
  <2>2. \A f \in Fields : FrozenField(block[f]) \in Frozen
    BY <1>1 DEF FieldHeld
  <2>3. \A f \in Fields : Root # <<f>> /\ \A l \in Leaves : Root # <<f, l>>
    BY DEF Root
  <2> QED BY <1>1, <1>2, <2>1, <2>2, <2>3 DEF Told
<1>3. ASSUME NEW f \in Fields, p = <<f>> PROVE Told(Freeze(DataAt(p)), p, n)
  <2>1. block[f] \in Objects \cup {None}
    BY DEF TypeOK
  <2>2. Freeze(DataAt(p)) = FrozenField(block[f])
    BY <1>3, <2>1, DataAtIs, FreezeIs
  <2>3. FieldHeld(Freeze(DataAt(p)), f, n)
    BY <1>1, <2>2
  <2>4. p # Root /\ (\A g \in Fields : p = <<g>> => g = f) /\ \A g \in Fields, l \in Leaves : p # <<g, l>>
    BY <1>3 DEF Root
  <2> QED BY <2>3, <2>4 DEF Told
<1>4. ASSUME NEW f \in Fields, NEW l \in Leaves, p = <<f, l>> PROVE Told(Freeze(DataAt(p)), p, n)
  <2>1. block[f] \in Objects \cup {None}
    BY DEF TypeOK
  <2>2. Child(block[f], l) \in LeafData
    BY <2>1, ChildIs
  <2>3. Freeze(DataAt(p)) = Child(block[f], l)
    BY <1>4, <2>2, DataAtIs, FreezeIs
  <2>4. LeafHeld(Freeze(DataAt(p)), f, l, n)
    BY <2>2, <2>3 DEF LeafHeld
  <2>5. /\ p # Root /\ \A g \in Fields : p # <<g>>
        /\ \A g \in Fields, k \in Leaves : p = <<g, k>> => g = f /\ k = l
    BY <1>4 DEF Root
  <2> QED BY <2>4, <2>5 DEF Told
<1> QED BY <1>2, <1>3, <1>4, PathKinds

\* When nothing is being squashed it is the same.
LEMMA ToldIsHeld ==
  ASSUME Typed, changes = << >>, NEW p \in Paths, NEW held, Told(held, p, 0)
  PROVE  held = Freeze(DataAt(p))
<1>1. Len(changes) = 0
  OBVIOUS
<1>2. \A f \in Fields : block[f] \in Objects \cup {None}
  BY DEF Typed, TreeFits, TypeOK
<1>3. CASE p = Root
  <2>1. held \in [Fields -> Frozen] /\ \A f \in Fields : FieldHeld(held[f], f, Len(changes))
    BY <1>1, <1>3 DEF Told
  <2>2. \A f \in Fields : held[f] = FrozenField(block[f])
    BY <2>1, AllHeld
  <2>3. held = [f \in Fields |-> FrozenField(block[f])]
    BY <2>1, <2>2
  <2> QED BY <1>3, <2>3, DataAtIs, FreezeIs
<1>4. ASSUME NEW f \in Fields, p = <<f>> PROVE held = Freeze(DataAt(p))
  <2>1. FieldHeld(held, f, Len(changes))
    BY <1>1, <1>4 DEF Told
  <2>2. held = FrozenField(block[f])
    BY <2>1, AllHeld
  <2> QED BY <1>2, <1>4, <2>2, DataAtIs, FreezeIs
<1>5. ASSUME NEW f \in Fields, NEW l \in Leaves, p = <<f, l>> PROVE held = Freeze(DataAt(p))
  <2>1. LeafHeld(held, f, l, Len(changes))
    BY <1>1, <1>5 DEF Told
  <2>2. held = Child(block[f], l) /\ held \in LeafData
    BY <2>1, AllHeld DEF LeafHeld
  <2> QED BY <1>5, <2>2, DataAtIs, FreezeIs
<1> QED BY <1>3, <1>4, <1>5, PathKinds

\* Between squashes nothing is left to tell,
LEMMA InStepIsTold ==
  TypeOK /\ Root \in DOMAIN nodes /\ changes = << >> /\ InStep =>
    NodesTyped /\ FieldTold /\ LeafTold /\ NodesTold /\ ViewsTold
<1> SUFFICES ASSUME TypeOK, Root \in DOMAIN nodes, changes = << >>, InStep
             PROVE  NodesTyped /\ FieldTold /\ LeafTold /\ NodesTold /\ ViewsTold
  OBVIOUS
<1>1. \A f \in Fields : block[f] \in Objects \cup {None}
  BY DEF TypeOK
<1>2. \A f \in Fields, l \in Leaves : Child(block[f], l) \in LeafData
  BY <1>1, ChildIs
<1>3. /\ nodes[Root] = "block"
      /\ \A f \in Fields : <<f>> \in DOMAIN nodes => nodes[<<f>>] = block[f]
      /\ \A f \in Fields, l \in Leaves : <<f, l>> \in DOMAIN nodes => nodes[<<f, l>>] = Child(block[f], l)
  BY DataAtIs DEF InStep
<1>4. NodesTyped
  BY <1>1, <1>2, <1>3 DEF NodesTyped
<1>5. FieldTold /\ LeafTold
  BY DEF FieldTold, LeafTold
<1>6. NodesTold
  BY <1>2, <1>3 DEF NodesTold, LeafHeld
<1>7. ViewsTold
  <2> SUFFICES ASSUME NEW s \in Subscribers, request[s] # None
               PROVE  Told(view[s], request[s].path, 0)
    BY DEF ViewsTold
  <2>1. request[s].path \in Paths
    BY DEF TypeOK, Requests
  <2>2. view[s] = Freeze(DataAt(request[s].path))
    BY DEF InStep
  <2> QED BY <2>1, <2>2, HeldIsTold
<1> QED BY <1>4, <1>5, <1>6, <1>7

\* and who has been told is in step.
LEMMA ToldIsInStep ==
  IInv /\ changes = << >> => InStep
<1> SUFFICES ASSUME IInv, changes = << >> PROVE InStep
  OBVIOUS
<1>1. Typed /\ FieldTold /\ LeafTold /\ NodesTold /\ ViewsTold
  BY DEF IInv
<1>2. ASSUME NEW p \in DOMAIN nodes PROVE nodes[p] = DataAt(p)
  <2>1. p \in Paths
    BY <1>1 DEF Typed, TreeFits, TypeOK
  <2>2. Len(changes) = 0 /\ 1 .. Len(changes) = {}
    OBVIOUS
  <2>3. CASE p = Root
    BY <1>1, <2>3, DataAtIs DEF Typed, NodesTyped
  <2>4. ASSUME NEW f \in Fields, p = <<f>> PROVE nodes[p] = DataAt(p)
    <3>1. NoField(0, f)
      BY <2>2 DEF NoField
    <3> QED BY <1>1, <2>4, <3>1, DataAtIs DEF NodesTold
  <2>5. ASSUME NEW f \in Fields, NEW l \in Leaves, p = <<f, l>> PROVE nodes[p] = DataAt(p)
    <3>1. LeafHeld(nodes[p], f, l, Len(changes))
      BY <1>1, <2>2, <2>5 DEF NodesTold
    <3>2. nodes[p] = Child(block[f], l)
      BY <1>1, <3>1, AllHeld
    <3> QED BY <2>5, <3>2, DataAtIs
  <2> QED BY <2>1, <2>3, <2>4, <2>5, PathKinds
<1>3. ASSUME NEW s \in Subscribers, request[s] # None
      PROVE  view[s] = Freeze(DataAt(request[s].path))
  <2>1. request[s].path \in Paths
    BY <1>1, <1>3 DEF Typed, TreeFits, TypeOK, Requests
  <2>2. Told(view[s], request[s].path, 0)
    BY <1>1, <1>3 DEF ViewsTold
  <2> QED BY <1>1, <2>1, <2>2, ToldIsHeld
<1> QED BY <1>2, <1>3 DEF InStep

\* The last to leave a squash has everybody told.
LEMMA NotifyTells ==
  ASSUME IInv, NotifyChanges
  PROVE  /\ DOMAIN nodes' = DOMAIN nodes /\ DOMAIN view' = Subscribers
         /\ \A p \in DOMAIN nodes : nodes'[p] = DataAt(p)
         /\ \A s \in Subscribers : request[s] # None => view'[s] = Freeze(DataAt(request[s].path))
<1>1. Typed /\ FieldTold /\ LeafTold /\ NodesTold /\ ViewsTold
  BY DEF IInv
<1>2. /\ DOMAIN nodes' = DOMAIN nodes /\ DOMAIN view' = Subscribers
      /\ \A p \in DOMAIN nodes : nodes'[p] = NewData(p, Local[p])
  BY DEF NotifyChanges
<1>3. \A p \in DOMAIN nodes : nodes'[p] = DataAt(p)
  BY <1>1, <1>2, NodeFollows
<1>4. ASSUME NEW s \in Subscribers, request[s] # None
      PROVE  view'[s] = Freeze(DataAt(request[s].path))
  <2> DEFINE p == request[s].path
  <2>1. p \in Paths /\ request[s] \in Requests
    BY <1>1, <1>4 DEF Typed, TreeFits, TypeOK, Requests
  <2>2. Told(view[s], p, 0)
    BY <1>1, <1>4 DEF ViewsTold
  <2>3. Applied(view[s], Local[p]) = Freeze(DataAt(p))
    <3> DEFINE held == view[s]
               q == p
    <3>1. q \in Paths /\ Told(held, q, 0)
      BY <2>1, <2>2
    <3>2. Applied(held, Local[q]) = Freeze(DataAt(q))
      <4> HIDE DEF held, q
      <4> QED BY <1>1, <3>1, ClientFollows
    <3> QED BY <3>2
  <2>4. view'[s] = IF Local[p] = << >> THEN view[s] ELSE Response(s, Local[p])
    BY <1>4 DEF NotifyChanges
  <2>5. CASE Local[p] = << >>
    <3> DEFINE held == view[s]
               local == Local[p]
    <3>1. PICK g : Chained(g, held, local, 0)
      <4>1. DOMAIN local = 1 .. 0 /\ 0 \in Nat
        BY <2>5
      <4> HIDE DEF local, held
      <4> QED BY <4>1, FoldIs
    <3>2. Applied(held, local) = held
      <4> HIDE DEF local, held
      <4> QED BY <3>1 DEF Chained
    <3> QED BY <2>3, <2>4, <2>5, <3>2
  <2>6. CASE Local[p] # << >> /\ request[s].delta
    BY <2>3, <2>4, <2>6 DEF Response, Applied
  <2>7. CASE Local[p] # << >> /\ ~request[s].delta
    <3>1. p \in DOMAIN nodes
      <4>1. p \in Prefixes(p)
        BY <2>1, PathKinds, PrefixKinds
      <4> QED BY <1>1, <1>4, <4>1 DEF Typed, TreeFits
    <3>2. NewData(p, Local[p]) = DataAt(p)
      BY <1>1, <3>1, NodeFollows
    <3> QED BY <2>4, <2>7, <3>2 DEF Response
  <2> QED BY <2>5, <2>6, <2>7
<1> QED BY <1>2, <1>3, <1>4

\* The same of the next state
LEMMA InStepIsToldNext ==
  TypeOK' /\ (Root \in DOMAIN nodes)' /\ (changes = << >>)' /\ InStep' =>
    NodesTyped' /\ FieldTold' /\ LeafTold' /\ NodesTold' /\ ViewsTold'
BY InStepIsTold, PTL

--------------------------------------------------------------------------------
(***************************************************************************)
(* Within a squash                                                         *)
(***************************************************************************)
\* A change is added at the end.
LEMMA OneMoreChange ==
  ASSUME NEW X, changes \in Seq(X), NEW c, changes' = Append(changes, c)
  PROVE  /\ Len(changes) \in Nat /\ Len(changes') = Len(changes) + 1
         /\ \A n \in 1 .. Len(changes) : changes'[n] = changes[n]
         /\ changes'[Len(changes) + 1] = c
         /\ \A f \in Fields : \A n \in 0 .. Len(changes) :
              NoField(n, f)' <=> NoField(n, f) /\ c.path # <<f>>
         /\ \A f \in Fields, l \in Leaves : \A n \in 0 .. Len(changes) :
              NoLeaf(n, f, l)' <=> NoLeaf(n, f, l) /\ c.path # <<f, l>>
<1>1. /\ Len(changes) \in Nat /\ Len(changes') = Len(changes) + 1
      /\ \A n \in 1 .. Len(changes) : changes'[n] = changes[n]
      /\ changes'[Len(changes) + 1] = c
  OBVIOUS
<1>2. ASSUME NEW n \in 0 .. Len(changes)
      PROVE  n + 1 .. Len(changes') = (n + 1 .. Len(changes)) \cup {Len(changes) + 1}
  BY <1>1
<1>3. \A n \in 0 .. Len(changes) : \A m \in n + 1 .. Len(changes) : changes'[m] = changes[m]
  BY <1>1
<1>4. ASSUME NEW f \in Fields, NEW n \in 0 .. Len(changes)
      PROVE  NoField(n, f)' <=> NoField(n, f) /\ c.path # <<f>>
  BY <1>1, <1>2, <1>3 DEF NoField
<1>5. ASSUME NEW f \in Fields, NEW l \in Leaves, NEW n \in 0 .. Len(changes)
      PROVE  NoLeaf(n, f, l)' <=> NoLeaf(n, f, l) /\ c.path # <<f, l>>
  BY <1>1, <1>2, <1>3 DEF NoLeaf
<1> QED BY <1>1, <1>4, <1>5

\* A field is replaced and the change tells so, or it stays, and each value in
\* it is set and the change tells so, or stays.
Announced ==
  \A f \in Fields :
    \/ \A n \in 0 .. Len(changes) : ~NoField(n, f)'
    \/ /\ block'[f] = block[f]
       /\ \A n \in 0 .. Len(changes) : NoField(n, f)' <=> NoField(n, f)
       /\ \A l \in Leaves :
            \/ \A n \in 0 .. Len(changes) : ~NoLeaf(n, f, l)'
            \/ /\ block[f] \in Objects => heap'[block[f]][l] = heap[block[f]][l]
               /\ \A n \in 0 .. Len(changes) : NoLeaf(n, f, l)' <=> NoLeaf(n, f, l)

\* So what a client and a node hold is all right, but for what is to be told,
LEMMA FieldStillHeld ==
  ASSUME TypeOK, Len(changes) \in Nat, Announced, NEW f \in Fields, NEW held, FieldHeld(held, f, 0)
  PROVE  FieldHeld(held, f, 0)'
<1>1. block[f] \in Objects \cup {None} /\ 0 \in 0 .. Len(changes)
  BY DEF TypeOK
<1>2. CASE \A n \in 0 .. Len(changes) : ~NoField(n, f)'
  BY <1>1, <1>2 DEF FieldHeld
<1>3. CASE /\ block'[f] = block[f]
           /\ \A n \in 0 .. Len(changes) : NoField(n, f)' <=> NoField(n, f)
           /\ \A l \in Leaves :
                \/ \A n \in 0 .. Len(changes) : ~NoLeaf(n, f, l)'
                \/ /\ block[f] \in Objects => heap'[block[f]][l] = heap[block[f]][l]
                   /\ \A n \in 0 .. Len(changes) : NoLeaf(n, f, l)' <=> NoLeaf(n, f, l)
  <2>1. \A l \in Leaves : \/ ~NoLeaf(0, f, l)'
                          \/ /\ block[f] \in Objects => heap'[block[f]][l] = heap[block[f]][l]
                             /\ NoLeaf(0, f, l)' <=> NoLeaf(0, f, l)
    BY <1>1, <1>3
  <2>2. NoField(0, f)' <=> NoField(0, f)
    BY <1>1, <1>3
  <2> QED BY <1>1, <1>3, <2>1, <2>2 DEF FieldHeld
<1> QED BY <1>2, <1>3 DEF Announced

\* of a value,
LEMMA LeafStillHeld ==
  ASSUME TypeOK, Len(changes) \in Nat, Announced, NEW f \in Fields, NEW l \in Leaves, NEW held,
         LeafHeld(held, f, l, 0)
  PROVE  LeafHeld(held, f, l, 0)'
<1>1. block[f] \in Objects \cup {None} /\ 0 \in 0 .. Len(changes)
  BY DEF TypeOK
<1>2. CASE \A n \in 0 .. Len(changes) : ~NoField(n, f)'
  BY <1>1, <1>2 DEF LeafHeld
<1>3. CASE /\ block'[f] = block[f]
           /\ \A n \in 0 .. Len(changes) : NoField(n, f)' <=> NoField(n, f)
           /\ \A n \in 0 .. Len(changes) : ~NoLeaf(n, f, l)'
  BY <1>1, <1>3 DEF LeafHeld
<1>4. CASE /\ block'[f] = block[f]
           /\ \A n \in 0 .. Len(changes) : NoField(n, f)' <=> NoField(n, f)
           /\ block[f] \in Objects => heap'[block[f]][l] = heap[block[f]][l]
           /\ \A n \in 0 .. Len(changes) : NoLeaf(n, f, l)' <=> NoLeaf(n, f, l)
  <2>1. (NoField(0, f)' <=> NoField(0, f)) /\ (NoLeaf(0, f, l)' <=> NoLeaf(0, f, l))
    BY <1>1, <1>4
  <2>2. Child(block[f], l)' = Child(block[f], l)
    BY <1>1, <1>4, NamesAssumption DEF Child
  <2> QED BY <2>1, <2>2 DEF LeafHeld
<1> QED BY <1>2, <1>3, <1>4 DEF Announced

\* whatever it is of,
LEMMA ViewsStillTold ==
  ASSUME TypeOK, Len(changes) \in Nat, Announced, UNCHANGED tree
  PROVE  /\ ViewsTold => ViewsTold'
         /\ NodesTold => NodesTold'
<1>1. nodes' = nodes /\ request' = request /\ view' = view
  BY DEF tree
<1>2. ASSUME NEW p, NEW held, Told(held, p, 0) PROVE Told(held, p, 0)'
  <2>1. p = Root => held \in [Fields -> Frozen] /\ \A f \in Fields : FieldHeld(held[f], f, 0)'
    <3> SUFFICES ASSUME p = Root
                 PROVE  held \in [Fields -> Frozen] /\ \A f \in Fields : FieldHeld(held[f], f, 0)'
      OBVIOUS
    <3>1. held \in [Fields -> Frozen] /\ \A f \in Fields : FieldHeld(held[f], f, 0)
      BY <1>2 DEF Told
    <3> QED BY <3>1, FieldStillHeld
  <2>2. \A f \in Fields : p = <<f>> => FieldHeld(held, f, 0)'
    BY <1>2, FieldStillHeld DEF Told
  <2>3. \A f \in Fields, l \in Leaves : p = <<f, l>> => LeafHeld(held, f, l, 0)'
    BY <1>2, LeafStillHeld DEF Told
  <2> QED BY <2>1, <2>2, <2>3 DEF Told
<1>3. ASSUME ViewsTold PROVE ViewsTold'
  <2> SUFFICES ASSUME NEW s \in Subscribers, request[s] # None
               PROVE  Told(view[s], request[s].path, 0)'
    BY <1>1 DEF ViewsTold
  <2>1. PICK held, p : held = view[s] /\ p = request[s].path
    OBVIOUS
  <2>2. Told(held, p, 0)
    BY <1>3, <2>1 DEF ViewsTold
  <2>3. Told(held, p, 0)'
    BY <1>2, <2>2
  <2>4. view'[s] = held /\ request'[s].path = p
    BY <1>1, <2>1
  <2> QED BY <2>3, <2>4
<1>4. ASSUME NodesTold PROVE NodesTold'
  <2>1. ASSUME NEW f \in Fields, <<f>> \in DOMAIN nodes, NoField(0, f)' PROVE nodes[<<f>>] = block'[f]
    <3>1. 0 \in 0 .. Len(changes)
      OBVIOUS
    <3>2. block'[f] = block[f] /\ NoField(0, f)
      BY <2>1, <3>1 DEF Announced
    <3> QED BY <1>4, <2>1, <3>2 DEF NodesTold
  <2>2. ASSUME NEW f \in Fields, NEW l \in Leaves, <<f, l>> \in DOMAIN nodes
        PROVE  LeafHeld(nodes[<<f, l>>], f, l, 0)'
    <3>1. PICK held : held = nodes[<<f, l>>]
      OBVIOUS
    <3>2. LeafHeld(held, f, l, 0)
      BY <1>4, <2>2, <3>1 DEF NodesTold
    <3>3. LeafHeld(held, f, l, 0)'
      BY <3>2, LeafStillHeld
    <3>4. nodes'[<<f, l>>] = held
      BY <1>1, <3>1
    <3> QED BY <3>3, <3>4
  <2> QED BY <1>1, <2>1, <2>2 DEF NodesTold
<1> QED BY <1>3, <1>4

\* and what the last changes tell.
LEMMA ChangesStillTold ==
  ASSUME FieldTold, LeafTold, Len(changes) \in Nat, Len(changes') \in Nat, Announced,
         \A n \in 1 .. Len(changes) : changes'[n] = changes[n],
         \A n \in 1 .. Len(changes') : n \notin 1 .. Len(changes) =>
           /\ \A f \in Fields : changes'[n].path = <<f>> => changes'[n].data = block'[f]
           /\ \A f \in Fields, l \in Leaves : changes'[n].path = <<f, l>> =>
                block'[f] \in Objects /\ changes'[n].data = heap'[block'[f]][l]
  PROVE  FieldTold' /\ LeafTold'
<1>1. ASSUME NEW f \in Fields, NEW n \in 1 .. Len(changes'), changes'[n].path = <<f>>, NoField(n, f)'
      PROVE  changes'[n].data = block'[f]
  <2>1. CASE n \in 1 .. Len(changes)
    <3>1. n \in 0 .. Len(changes)
      BY <2>1
    <3>2. block'[f] = block[f] /\ NoField(n, f)
      BY <1>1, <3>1 DEF Announced
    <3>3. changes[n].path = <<f>>
      BY <1>1, <2>1
    <3> QED BY <2>1, <3>2, <3>3 DEF FieldTold
  <2> QED BY <1>1, <2>1
<1>2. ASSUME NEW f \in Fields, NEW l \in Leaves, NEW n \in 1 .. Len(changes'),
             changes'[n].path = <<f, l>>, NoField(n, f)', NoLeaf(n, f, l)'
      PROVE  block'[f] \in Objects /\ changes'[n].data = heap'[block'[f]][l]
  <2>1. CASE n \in 1 .. Len(changes)
    <3>1. n \in 0 .. Len(changes)
      BY <2>1
    <3>2. block'[f] = block[f] /\ NoField(n, f)
      BY <1>2, <3>1 DEF Announced
    <3>3. (block[f] \in Objects => heap'[block[f]][l] = heap[block[f]][l]) /\ NoLeaf(n, f, l)
      BY <1>2, <3>1 DEF Announced
    <3>4. changes[n].path = <<f, l>>
      BY <1>2, <2>1
    <3>5. block[f] \in Objects /\ changes[n].data = heap[block[f]][l]
      BY <2>1, <3>2, <3>3, <3>4 DEF LeafTold
    <3> QED BY <2>1, <3>2, <3>3, <3>5
  <2> QED BY <1>2, <2>1
<1> QED BY <1>1, <1>2 DEF FieldTold, LeafTold

\* A step that announces what it changes keeps the invariant.
LEMMA AnnouncedIsTold ==
  ASSUME IInv, Announced, Typed', UNCHANGED tree,
         \A n \in 1 .. Len(changes) : changes'[n] = changes[n],
         \A n \in 1 .. Len(changes') : n \notin 1 .. Len(changes) =>
           /\ \A f \in Fields : changes'[n].path = <<f>> => changes'[n].data = block'[f]
           /\ \A f \in Fields, l \in Leaves : changes'[n].path = <<f, l>> =>
                block'[f] \in Objects /\ changes'[n].data = heap'[block'[f]][l]
  PROVE  IInv'
<1>1. Len(changes) \in Nat /\ Len(changes') \in Nat /\ TypeOK
  BY DEF IInv, Typed, ChangesOK, TreeFits
<1>2. FieldTold' /\ LeafTold'
  BY <1>1, ChangesStillTold DEF IInv
<1>3. ViewsTold' /\ NodesTold'
  BY <1>1, ViewsStillTold DEF IInv
<1> QED BY <1>2, <1>3 DEF IInv

\* The subscribers and their nodes are not touched.
LEMMA TreeStays ==
  ASSUME Typed, UNCHANGED tree, TypeOK'
  PROVE  TreeFits' /\ NodesTyped'
<1>1. nodes' = nodes /\ request' = request
  BY DEF tree
<1>2. TreeFits'
  BY <1>1 DEF Typed, TreeFits
<1>3. NodesTyped'
  BY <1>1 DEF Typed, NodesTyped
<1> QED BY <1>2, <1>3

LEMMA SquashedIs ==
  ASSUME ChangesOK, NEW c \in FieldChanges \cup LeafChanges, Squashed(c), count' = count
  PROVE  ChangesOK' /\ changes' = Append(changes, c)
BY DEF ChangesOK, Squashed

\* set_endpoint_data of the block puts a model that nobody has seen where another was.
LEMMA SetFieldKeeps ==
  ASSUME IInv, NEW f \in Fields, NEW o \in Objects, NEW values \in [Leaves -> Values],
         SetField(f, o, values)
  PROVE  IInv'
<1> DEFINE c == Changed(<<f>>, o)
<1>1. TypeOK /\ ChangesOK /\ Wired /\ Typed
  BY DEF IInv, Typed, TreeFits
<1>2. c \in FieldChanges /\ c.path = <<f>> /\ c.data = o
  BY DEF FieldChanges, Changed
<1>3. /\ wired[o] = None /\ heap' = [heap EXCEPT ![o] = values] /\ block' = [block EXCEPT ![f] = o]
      /\ wired' = [x \in Objects |-> IF x = o THEN f ELSE IF x = block[f] THEN None ELSE wired[x]]
      /\ Squashed(c) /\ UNCHANGED <<count, tree>>
  BY DEF SetField, Fresh, Rewired
<1>4. TypeOK'
  BY <1>1, <1>3 DEF TypeOK, tree
<1>5. ChangesOK' /\ changes' = Append(changes, c)
  BY <1>1, <1>2, <1>3, SquashedIs
<1>6. \A g \in Fields : block[g] # o
  BY <1>1, <1>3, NamesAssumption DEF Wired
<1>7. Wired'
  <2>1. ASSUME NEW x \in Objects, NEW g \in Fields PROVE wired'[x] = g <=> block'[g] = x
    <3>1. wired[x] = g <=> block[g] = x
      BY <1>1 DEF Wired
    <3>2. wired[x] = f <=> block[f] = x
      BY <1>1 DEF Wired
    <3>3. None # g
      BY NamesAssumption
    <3>4. block'[g] = IF g = f THEN o ELSE block[g]
      BY <1>1, <1>3 DEF TypeOK
    <3>5. wired'[x] = IF x = o THEN f ELSE IF x = block[f] THEN None ELSE wired[x]
      BY <1>3
    <3> QED BY <1>6, <3>1, <3>2, <3>3, <3>4, <3>5
  <2> QED BY <2>1 DEF Wired
<1>8. Typed'
  <2>1. UNCHANGED tree
    BY <1>3
  <2> QED BY <1>1, <1>4, <1>5, <1>7, <2>1, TreeStays DEF Typed
<1>9. /\ Len(changes) \in Nat /\ Len(changes') = Len(changes) + 1
      /\ \A n \in 1 .. Len(changes) : changes'[n] = changes[n]
      /\ changes'[Len(changes) + 1] = c
      /\ \A g \in Fields : \A n \in 0 .. Len(changes) : NoField(n, g)' <=> NoField(n, g) /\ c.path # <<g>>
      /\ \A g \in Fields, l \in Leaves : \A n \in 0 .. Len(changes) :
           NoLeaf(n, g, l)' <=> NoLeaf(n, g, l) /\ c.path # <<g, l>>
  <2>1. changes \in Seq(FieldChanges \cup LeafChanges)
    BY <1>1 DEF ChangesOK
  <2> HIDE DEF c
  <2> QED BY <1>5, <2>1, OneMoreChange
<1>10. Announced
  <2>1. \A n \in 0 .. Len(changes) : ~NoField(n, f)'
    BY <1>2, <1>9
  <2>2. ASSUME NEW g \in Fields \ {f}
        PROVE  /\ block'[g] = block[g]
               /\ \A n \in 0 .. Len(changes) : NoField(n, g)' <=> NoField(n, g)
               /\ \A l \in Leaves :
                    /\ block[g] \in Objects => heap'[block[g]][l] = heap[block[g]][l]
                    /\ \A n \in 0 .. Len(changes) : NoLeaf(n, g, l)' <=> NoLeaf(n, g, l)
    <3>1. block'[g] = block[g]
      BY <1>1, <1>3 DEF TypeOK
    <3>2. c.path # <<g>> /\ \A l \in Leaves : c.path # <<g, l>>
      BY <1>2
    <3>3. block[g] \in Objects => heap'[block[g]] = heap[block[g]]
      BY <1>1, <1>3, <1>6 DEF TypeOK
    <3> QED BY <1>9, <3>1, <3>2, <3>3
  <2> QED BY <2>1, <2>2 DEF Announced
<1>11. block'[f] = o
  BY <1>1, <1>3 DEF TypeOK
<1>12. ASSUME NEW n \in 1 .. Len(changes'), n \notin 1 .. Len(changes)
       PROVE  /\ \A g \in Fields : changes'[n].path = <<g>> => changes'[n].data = block'[g]
              /\ \A g \in Fields, l \in Leaves : changes'[n].path # <<g, l>>
  <2>1. n = Len(changes) + 1
    BY <1>9, <1>12
  <2>2. changes'[n].path = <<f>> /\ changes'[n].data = o
    BY <1>2, <1>9, <2>1
  <2> QED BY <1>11, <2>2
<1>13. UNCHANGED tree
  BY <1>3
<1> QED BY <1>8, <1>9, <1>10, <1>12, <1>13, AnnouncedIsTold

\* remove_endpoint silences the model that it takes out.
LEMMA RemoveFieldKeeps ==
  ASSUME IInv, NEW f \in Fields, RemoveField(f)
  PROVE  IInv'
<1> DEFINE c == Changed(<<f>>, None)
<1>1. TypeOK /\ ChangesOK /\ Wired /\ Typed
  BY DEF IInv, Typed, TreeFits
<1>2. c \in FieldChanges /\ c.path = <<f>> /\ c.data = None
  BY DEF FieldChanges, Changed
<1>3. /\ block[f] # None /\ heap' = heap /\ block' = [block EXCEPT ![f] = None]
      /\ wired' = [wired EXCEPT ![block[f]] = None]
      /\ Squashed(c) /\ count' = count /\ UNCHANGED tree
  BY DEF RemoveField
<1>4. TypeOK'
  BY <1>1, <1>3 DEF TypeOK, tree
<1>5. ChangesOK' /\ changes' = Append(changes, c)
  BY <1>1, <1>2, <1>3, SquashedIs
<1>6. block[f] \in Objects
  BY <1>1, <1>3 DEF TypeOK
<1>7. Wired'
  <2>1. ASSUME NEW x \in Objects, NEW g \in Fields PROVE wired'[x] = g <=> block'[g] = x
    <3>1. wired[x] = g <=> block[g] = x
      BY <1>1 DEF Wired
    <3>2. wired[x] = f <=> block[f] = x
      BY <1>1 DEF Wired
    <3>3. None # g /\ None # x
      BY NamesAssumption
    <3>4. block'[g] = IF g = f THEN None ELSE block[g]
      BY <1>1, <1>3 DEF TypeOK
    <3>5. wired'[x] = IF x = block[f] THEN None ELSE wired[x]
      BY <1>1, <1>3, <1>6 DEF TypeOK
    <3> QED BY <3>1, <3>2, <3>3, <3>4, <3>5
  <2> QED BY <2>1 DEF Wired
<1>8. Typed'
  BY <1>1, <1>3, <1>4, <1>5, <1>7, TreeStays DEF Typed
<1>9. /\ Len(changes) \in Nat /\ Len(changes') = Len(changes) + 1
      /\ \A n \in 1 .. Len(changes) : changes'[n] = changes[n]
      /\ changes'[Len(changes) + 1] = c
      /\ \A g \in Fields : \A n \in 0 .. Len(changes) : NoField(n, g)' <=> NoField(n, g) /\ c.path # <<g>>
      /\ \A g \in Fields, l \in Leaves : \A n \in 0 .. Len(changes) :
           NoLeaf(n, g, l)' <=> NoLeaf(n, g, l) /\ c.path # <<g, l>>
  <2>1. changes \in Seq(FieldChanges \cup LeafChanges)
    BY <1>1 DEF ChangesOK
  <2> HIDE DEF c
  <2> QED BY <1>5, <2>1, OneMoreChange
<1>10. Announced
  <2>1. \A n \in 0 .. Len(changes) : ~NoField(n, f)'
    BY <1>2, <1>9
  <2>2. ASSUME NEW g \in Fields \ {f}
        PROVE  /\ block'[g] = block[g]
               /\ \A n \in 0 .. Len(changes) : NoField(n, g)' <=> NoField(n, g)
               /\ \A l \in Leaves :
                    /\ block[g] \in Objects => heap'[block[g]][l] = heap[block[g]][l]
                    /\ \A n \in 0 .. Len(changes) : NoLeaf(n, g, l)' <=> NoLeaf(n, g, l)
    <3>1. block'[g] = block[g]
      BY <1>1, <1>3 DEF TypeOK
    <3>2. c.path # <<g>> /\ \A l \in Leaves : c.path # <<g, l>>
      BY <1>2
    <3> QED BY <1>3, <1>9, <3>1, <3>2
  <2> QED BY <2>1, <2>2 DEF Announced
<1>11. block'[f] = None
  BY <1>1, <1>3 DEF TypeOK
<1>12. ASSUME NEW n \in 1 .. Len(changes'), n \notin 1 .. Len(changes)
       PROVE  /\ \A g \in Fields : changes'[n].path = <<g>> => changes'[n].data = block'[g]
              /\ \A g \in Fields, l \in Leaves : changes'[n].path # <<g, l>>
  <2>1. n = Len(changes) + 1
    BY <1>9, <1>12
  <2>2. changes'[n].path = <<f>> /\ changes'[n].data = None
    BY <1>2, <1>9, <2>1
  <2> QED BY <1>11, <2>2
<1> QED BY <1>3, <1>8, <1>9, <1>10, <1>12, AnnouncedIsTold

\* A model in the block tells that a value in it was set, others are not heard.
LEMMA SetLeafKeeps ==
  ASSUME IInv, NEW o \in Objects, NEW l \in Leaves, NEW v \in Values, SetLeaf(o, l, v)
  PROVE  IInv'
<1>1. TypeOK /\ ChangesOK /\ Wired /\ Typed
  BY DEF IInv, Typed, TreeFits
<1>2. heap' = [heap EXCEPT ![o][l] = v] /\ UNCHANGED <<block, wired, count, tree>>
  BY DEF SetLeaf
<1>3. UNCHANGED tree /\ block' = block /\ count' = count
  BY <1>2
<1>4. TypeOK'
  BY <1>1, <1>2 DEF TypeOK, tree
<1>5. Wired'
  BY <1>1, <1>2 DEF Wired
<1>6. TreeFits' /\ NodesTyped'
  BY <1>1, <1>3, <1>4, TreeStays
<1>7. /\ \A x \in Objects \ {o} : heap'[x] = heap[x]
      /\ heap'[o][l] = v
      /\ \A k \in Leaves \ {l} : heap'[o][k] = heap[o][k]
  BY <1>1, <1>2 DEF TypeOK
<1>8. CASE wired[o] = None
  <2>1. changes' = changes
    BY <1>8 DEF SetLeaf
  <2>2. ChangesOK'
    BY <1>1, <1>3, <2>1 DEF ChangesOK
  <2>3. Typed'
    BY <1>5, <1>6, <2>2 DEF Typed
  <2>4. \A g \in Fields : block[g] # o
    BY <1>1, <1>8, NamesAssumption DEF Wired
  <2>5. Announced
    <3>1. \A g \in Fields : \A n : NoField(n, g)' <=> NoField(n, g)
      BY <2>1 DEF NoField
    <3>2. \A g \in Fields, k \in Leaves : \A n : NoLeaf(n, g, k)' <=> NoLeaf(n, g, k)
      BY <2>1 DEF NoLeaf
    <3>3. \A g \in Fields : block[g] \in Objects => heap'[block[g]] = heap[block[g]]
      BY <1>7, <2>4
    <3> QED BY <1>3, <3>1, <3>2, <3>3 DEF Announced
  <2> QED BY <1>3, <2>1, <2>3, <2>5, AnnouncedIsTold
<1>9. CASE wired[o] # None
  <2> DEFINE f == wired[o]
             c == Changed(<<f, l>>, v)
  <2>1. f \in Fields /\ block[f] = o /\ block'[f] = o
    BY <1>1, <1>3, <1>9 DEF TypeOK, Wired
  <2>2. Squashed(c)
    BY <1>9 DEF SetLeaf
  <2> HIDE DEF f
  <2>3. c \in LeafChanges /\ c.path = <<f, l>> /\ c.data = v
    BY <2>1 DEF LeafChanges, Changed
  <2>4. ChangesOK' /\ changes' = Append(changes, c)
    BY <1>1, <1>3, <2>2, <2>3, SquashedIs
  <2>5. Typed'
    BY <1>5, <1>6, <2>4 DEF Typed
  <2>6. /\ Len(changes) \in Nat /\ Len(changes') = Len(changes) + 1
        /\ \A n \in 1 .. Len(changes) : changes'[n] = changes[n]
        /\ changes'[Len(changes) + 1] = c
        /\ \A g \in Fields : \A n \in 0 .. Len(changes) : NoField(n, g)' <=> NoField(n, g) /\ c.path # <<g>>
        /\ \A g \in Fields, k \in Leaves : \A n \in 0 .. Len(changes) :
             NoLeaf(n, g, k)' <=> NoLeaf(n, g, k) /\ c.path # <<g, k>>
    <3>1. changes \in Seq(FieldChanges \cup LeafChanges)
      BY <1>1 DEF ChangesOK
    <3> HIDE DEF c
    <3> QED BY <2>4, <3>1, OneMoreChange
  <2>7. Announced
    <3> SUFFICES ASSUME NEW g \in Fields
                 PROVE  /\ block'[g] = block[g]
                        /\ \A n \in 0 .. Len(changes) : NoField(n, g)' <=> NoField(n, g)
                        /\ \A k \in Leaves :
                             \/ \A n \in 0 .. Len(changes) : ~NoLeaf(n, g, k)'
                             \/ /\ block[g] \in Objects => heap'[block[g]][k] = heap[block[g]][k]
                                /\ \A n \in 0 .. Len(changes) : NoLeaf(n, g, k)' <=> NoLeaf(n, g, k)
      BY DEF Announced
    <3>1. c.path # <<g>>
      BY <2>3
    <3>2. ASSUME NEW k \in Leaves, g = f /\ k = l
          PROVE  \A n \in 0 .. Len(changes) : ~NoLeaf(n, g, k)'
      BY <2>3, <2>6, <3>2
    <3>3. ASSUME NEW k \in Leaves, ~(g = f /\ k = l)
          PROVE  /\ block[g] \in Objects => heap'[block[g]][k] = heap[block[g]][k]
                 /\ \A n \in 0 .. Len(changes) : NoLeaf(n, g, k)' <=> NoLeaf(n, g, k)
      <4>1. c.path # <<g, k>>
        BY <2>3, <3>3
      <4>2. g # f => block[g] # o
        BY <1>1, <2>1 DEF Wired
      <4>3. block[g] \in Objects => heap'[block[g]][k] = heap[block[g]][k]
        BY <1>7, <2>1, <3>3, <4>2
      <4> QED BY <2>6, <4>1, <4>3
    <3> QED BY <1>3, <2>6, <3>1, <3>2, <3>3
  <2>8. ASSUME NEW n \in 1 .. Len(changes'), n \notin 1 .. Len(changes)
        PROVE  /\ \A g \in Fields : changes'[n].path # <<g>>
               /\ \A g \in Fields, k \in Leaves : changes'[n].path = <<g, k>> =>
                    block'[g] \in Objects /\ changes'[n].data = heap'[block'[g]][k]
    <3>1. n = Len(changes) + 1
      BY <2>6, <2>8
    <3>2. changes'[n].path = <<f, l>> /\ changes'[n].data = v
      BY <2>3, <2>6, <3>1
    <3> QED BY <1>7, <2>1, <3>2
  <2> QED BY <1>3, <2>5, <2>6, <2>7, <2>8, AnnouncedIsTold
<1> QED BY <1>8, <1>9

--------------------------------------------------------------------------------
(***************************************************************************)
(* The steps and the theorems                                              *)
(***************************************************************************)
\* A block that was just made has no fields and no subscribers.
LEMMA InitTold ==
  Init => IInv
<1> SUFFICES ASSUME Init PROVE IInv
  OBVIOUS
<1>1. (CHOOSE v \in Values : TRUE) \in Values
  BY NamesAssumption
<1>2. /\ heap = [o \in Objects |-> [l \in Leaves |-> CHOOSE v \in Values : TRUE]]
      /\ block = [f \in Fields |-> None] /\ wired = [o \in Objects |-> None]
      /\ count = 0 /\ changes = << >>
      /\ nodes = [p \in {Root} |-> "block"]
      /\ request = [s \in Subscribers |-> None] /\ view = [s \in Subscribers |-> None]
  BY DEF Init
<1>3. TypeOK
  <2>1. heap \in [Objects -> [Leaves -> Values]]
    <3> DEFINE u == CHOOSE v \in Values : TRUE
    <3>1. u \in Values /\ heap = [o \in Objects |-> [l \in Leaves |-> u]]
      BY <1>1, <1>2
    <3> HIDE DEF u
    <3> QED BY <3>1
  <2>2. DOMAIN nodes \subseteq Paths /\ \A p \in DOMAIN nodes : nodes[p] = "block"
    BY <1>2, PathKinds
  <2> QED BY <1>2, <2>1, <2>2, NamesAssumption DEF TypeOK
<1>4. TreeFits
  <2>1. {s \in Subscribers : request[s] # None} = {}
    BY <1>2
  <2>2. UNION {Prefixes(request[s].path) : s \in {s \in Subscribers : request[s] # None}} = {}
    BY <2>1
  <2>3. DOMAIN nodes = {Root}
    BY <1>2
  <2> QED BY <1>3, <2>2, <2>3 DEF TreeFits
<1>5. ChangesOK
  BY <1>2 DEF ChangesOK
<1>6. Wired
  BY <1>2, NamesAssumption DEF Wired
<1>7. InStep
  BY <1>2, DataAtIs DEF InStep
<1>8. NodesTyped /\ FieldTold /\ LeafTold /\ NodesTold /\ ViewsTold
  <2>1. Root \in DOMAIN nodes /\ changes = << >>
    BY <1>2
  <2> QED BY <1>3, <1>7, <2>1, InStepIsTold
<1> QED BY <1>4, <1>5, <1>6, <1>8 DEF IInv, Typed

\* What holds of the model, the changes and the tree holds as long as they do.
LEMMA NothingChanges ==
  ASSUME IInv, UNCHANGED <<model, changes, tree>>, count' \in 0 .. MaxNesting,
         count' = 0 => changes' = << >>
  PROVE  IInv'
<1>1. /\ heap' = heap /\ block' = block /\ wired' = wired /\ changes' = changes
      /\ nodes' = nodes /\ request' = request /\ view' = view /\ UNCHANGED tree
  BY DEF model, tree
<1>2. TypeOK /\ ChangesOK /\ Wired /\ Typed
  BY DEF IInv, Typed, TreeFits
<1>3. TypeOK'
  BY <1>1, <1>2 DEF TypeOK
<1>4. ChangesOK'
  BY <1>1, <1>2 DEF ChangesOK
<1>5. Wired'
  BY <1>1, <1>2 DEF Wired
<1>6. Typed'
  BY <1>1, <1>2, <1>3, <1>4, <1>5, TreeStays DEF Typed
<1>7. Announced
  <2>1. \A g \in Fields : \A n : NoField(n, g)' <=> NoField(n, g)
    BY <1>1 DEF NoField
  <2>2. \A g \in Fields, k \in Leaves : \A n : NoLeaf(n, g, k)' <=> NoLeaf(n, g, k)
    BY <1>1 DEF NoLeaf
  <2> QED BY <1>1, <2>1, <2>2 DEF Announced
<1> QED BY <1>1, <1>6, <1>7, AnnouncedIsTold

\* Subscribing, unsubscribing and the end of a squash leave the model alone.
LEMMA SameData ==
  ASSUME UNCHANGED model
  PROVE  /\ \A p : DataAt(p)' = DataAt(p)
         /\ \A d : Freeze(d)' = Freeze(d)
<1>1. heap' = heap /\ block' = block
  BY DEF model
<1> QED BY <1>1 DEF DataAt, Child, Freeze, FrozenField

\* Outside a squash it is enough that nodes and clients hold what there is.
LEMMA AllToldAgain ==
  ASSUME IInv, UNCHANGED model, TreeFits', count' = 0, changes' = << >>,
         \A p \in DOMAIN nodes' : nodes'[p] = DataAt(p),
         \A s \in Subscribers : request'[s] # None => view'[s] = Freeze(DataAt(request'[s].path))
  PROVE  IInv'
<1>1. TypeOK' /\ Root \in DOMAIN nodes'
  BY DEF TreeFits
<1>2. (\A p : DataAt(p)' = DataAt(p)) /\ (\A d : Freeze(d)' = Freeze(d))
  BY SameData
<1>3. InStep'
  <2>1. ASSUME NEW p \in DOMAIN nodes' PROVE nodes'[p] = DataAt(p)'
    BY <1>2
  <2>2. ASSUME NEW s \in Subscribers, request'[s] # None
        PROVE  view'[s] = Freeze(DataAt(request[s].path))'
    <3>1. PICK p, d : p = request'[s].path /\ d = DataAt(p)
      OBVIOUS
    <3>2. view'[s] = Freeze(d)
      BY <2>2, <3>1
    <3>3. Freeze(d)' = Freeze(d) /\ DataAt(p)' = d
      BY <1>2, <3>1
    <3> QED BY <3>1, <3>2, <3>3
  <2> QED BY <2>1, <2>2 DEF InStep
<1>4. NodesTyped' /\ FieldTold' /\ LeafTold' /\ NodesTold' /\ ViewsTold'
  BY <1>1, <1>3, InStepIsToldNext
<1>5. ChangesOK'
  BY DEF ChangesOK
<1>6. Wired'
  BY DEF IInv, Typed, Wired, model
<1> QED BY <1>4, <1>5, <1>6 DEF IInv, Typed

\* changes_squashed is entered,
LEMMA EnterKeeps ==
  ASSUME IInv, Enter
  PROVE  IInv'
<1>1. count \in 0 .. MaxNesting /\ MaxNesting \in Nat
  BY NamesAssumption DEF IInv, Typed, TreeFits, TypeOK
<1>2. count' \in 0 .. MaxNesting /\ count' # 0 /\ UNCHANGED <<model, changes, tree>>
  BY <1>1 DEF Enter
<1> QED BY <1>2, NothingChanges

\* and left: the last to leave tells everybody.
LEMMA ExitKeeps ==
  ASSUME IInv, Exit
  PROVE  IInv'
<1>1. TypeOK /\ Typed /\ TreeFits
  BY DEF IInv, Typed, TreeFits
<1>2. count \in 0 .. MaxNesting /\ count > 0 /\ count' = count - 1 /\ UNCHANGED model
  BY <1>1 DEF TypeOK, Exit, Lower
<1>3. count' \in 0 .. MaxNesting
  BY <1>2, NamesAssumption
<1>4. CASE count' # 0
  <2>1. UNCHANGED <<model, changes, tree>>
    BY <1>4 DEF Exit
  <2> QED BY <1>3, <1>4, <2>1, NothingChanges
<1>5. CASE count' = 0
  <2>1. changes' = << >> /\ NotifyChanges /\ request' = request
    BY <1>5 DEF Exit
  <2>2. /\ DOMAIN nodes' = DOMAIN nodes /\ DOMAIN view' = Subscribers
        /\ \A p \in DOMAIN nodes : nodes'[p] = DataAt(p)
        /\ \A s \in Subscribers : request[s] # None => view'[s] = Freeze(DataAt(request[s].path))
    BY <2>1, NotifyTells
  <2>3. TypeOK'
    <3>1. heap' = heap /\ block' = block /\ wired' = wired
      BY <1>2 DEF model
    <3>2. \A p \in DOMAIN nodes : DataAt(p) \in {"block", None} \cup Objects \cup Values
      <4>1. \A f \in Fields : block[f] \in Objects \cup {None}
        BY <1>1 DEF TypeOK
      <4>2. \A f \in Fields, l \in Leaves : Child(block[f], l) \in LeafData
        BY <1>1, <4>1, ChildIs
      <4>3. \A p \in DOMAIN nodes : p \in Paths
        BY <1>1 DEF TypeOK
      <4> QED BY <4>1, <4>2, <4>3, PathKinds, DataAtIs DEF LeafData
    <3> QED BY <1>1, <1>3, <2>1, <2>2, <3>1, <3>2 DEF TypeOK
  <2>4. TreeFits'
    BY <1>1, <2>1, <2>2, <2>3 DEF TreeFits
  <2> QED BY <1>2, <1>5, <2>1, <2>2, <2>4, AllToldAgain
<1> QED BY <1>4, <1>5

\* The data of a node that is made is that of its path.
LEMMA NodeDataInStep ==
  ASSUME TypeOK, Root \in DOMAIN nodes, InStep, NEW p \in Paths
  PROVE  NodeData[p] = DataAt(p)
<1>1. nodes[Root] = "block" /\ \A q \in DOMAIN nodes : nodes[q] = DataAt(q)
  BY DataAtIs DEF InStep
<1>2. NodeData[Root] = "block"
  BY <1>1, NodeDataIs
<1>3. ASSUME NEW f \in Fields PROVE NodeData[<<f>>] = block[f]
  <2>1. NodeData[<<f>>] = IF <<f>> \in DOMAIN nodes THEN nodes[<<f>>] ELSE Child(nodes[Root], f)
    BY NodeDataIs
  <2>2. Child("block", f) = block[f]
    BY ChildIs
  <2> QED BY <1>1, <2>1, <2>2, DataAtIs
<1>4. ASSUME NEW f \in Fields, NEW l \in Leaves PROVE NodeData[<<f, l>>] = Child(block[f], l)
  <2>1. NodeData[<<f, l>>] = IF <<f, l>> \in DOMAIN nodes THEN nodes[<<f, l>>]
                             ELSE Child(NodeData[<<f>>], l)
    BY NodeDataIs
  <2> QED BY <1>1, <1>3, <2>1, DataAtIs
<1> QED BY <1>2, <1>3, <1>4, PathKinds, DataAtIs

\* Above a path there are paths.
LEMMA PrefixesArePaths ==
  ASSUME NEW p \in Paths
  PROVE  Prefixes(p) \subseteq Paths /\ Root \in Prefixes(p) /\ p \in Prefixes(p)
BY PathKinds, PrefixKinds

\* Whom there is a node for
LEMMA WhoNeeds ==
  TypeOK =>
    (TreeFits <=>
       \A q : q \in DOMAIN nodes <=>
         q = Root \/ \E x \in Subscribers : request[x] # None /\ q \in Prefixes(request[x].path))
<1> DEFINE all == UNION {Prefixes(request[x].path) : x \in {x \in Subscribers : request[x] # None}}
<1>1. \A q : q \in all <=> \E x \in Subscribers : request[x] # None /\ q \in Prefixes(request[x].path)
  OBVIOUS
<1>2. TreeFits <=> TypeOK /\ DOMAIN nodes = {Root} \cup all
  BY DEF TreeFits
<1> HIDE DEF all
<1> QED BY <1>1, <1>2

LEMMA WhoNeedsNext ==
  TypeOK' =>
    (TreeFits' <=>
       \A q : q \in DOMAIN nodes' <=>
         q = Root \/ \E x \in Subscribers : request'[x] # None /\ q \in Prefixes(request'[x].path))
<1> DEFINE all == UNION {Prefixes(request'[x].path) : x \in {x \in Subscribers : request'[x] # None}}
<1>1. \A q : q \in all <=> \E x \in Subscribers : request'[x] # None /\ q \in Prefixes(request'[x].path)
  OBVIOUS
<1>2. TreeFits' <=> TypeOK' /\ DOMAIN nodes' = {Root} \cup all
  BY DEF TreeFits
<1> HIDE DEF all
<1> QED BY <1>1, <1>2

\* A subscriber gets what there is at its path, and nodes down to it.
LEMMA SubscribeKeeps ==
  ASSUME IInv, NEW s \in Subscribers, NEW r \in Requests, Subscribe(s, r)
  PROVE  IInv'
<1>1. TypeOK /\ Typed /\ TreeFits /\ ChangesOK
  BY DEF IInv, Typed, TreeFits
<1>2. /\ count = 0 /\ count' = 0 /\ UNCHANGED model /\ request[s] = None
      /\ request' = [request EXCEPT ![s] = r]
      /\ nodes' = [p \in DOMAIN nodes \cup Prefixes(r.path) |-> NodeData[p]]
      /\ view' = [view EXCEPT ![s] = Freeze(NodeData[r.path])]
      /\ changes = << >> /\ changes' = << >>
  BY <1>1 DEF Subscribe, ChangesOK
<1>3. InStep /\ Root \in DOMAIN nodes
  BY <1>1, <1>2, ToldIsInStep DEF TreeFits
<1>4. r.path \in Paths /\ r # None
  BY NoneAssumption DEF Requests
<1>5. /\ DOMAIN nodes' = DOMAIN nodes \cup Prefixes(r.path)
      /\ DOMAIN nodes' \subseteq Paths
      /\ \A p \in DOMAIN nodes' : nodes'[p] = DataAt(p)
  <2>1. DOMAIN nodes' = DOMAIN nodes \cup Prefixes(r.path)
    BY <1>2
  <2>2. DOMAIN nodes' \subseteq Paths
    BY <1>1, <1>4, <2>1, PrefixesArePaths DEF TypeOK
  <2>3. \A p \in DOMAIN nodes' : nodes'[p] = NodeData[p]
    BY <1>2
  <2>4. \A p \in Paths : NodeData[p] = DataAt(p)
    BY <1>1, <1>3, NodeDataInStep
  <2> QED BY <2>1, <2>2, <2>3, <2>4
<1>6. TypeOK'
  <2>1. heap' = heap /\ block' = block /\ wired' = wired
    BY <1>2 DEF model
  <2>2. \A p \in Paths : DataAt(p) \in {"block", None} \cup Objects \cup Values
    <3>1. \A f \in Fields : block[f] \in Objects \cup {None}
      BY <1>1 DEF TypeOK
    <3>2. \A f \in Fields, l \in Leaves : Child(block[f], l) \in LeafData
      BY <1>1, <3>1, ChildIs
    <3> QED BY <3>1, <3>2, PathKinds, DataAtIs DEF LeafData
  <2>3. request' \in [Subscribers -> Requests \cup {None}]
    BY <1>1, <1>2 DEF TypeOK
  <2>4. \A p \in DOMAIN nodes' : nodes'[p] \in {"block", None} \cup Objects \cup Values
    BY <1>5, <2>2
  <2> QED BY <1>1, <1>2, <1>5, <2>1, <2>3, <2>4 DEF TypeOK
<1>7. /\ request'[s] = r
      /\ \A x \in Subscribers \ {s} : request'[x] = request[x]
  BY <1>1, <1>2 DEF TypeOK
<1>8. TreeFits'
  <2>1. \A q : q \in DOMAIN nodes <=>
          q = Root \/ \E x \in Subscribers : request[x] # None /\ q \in Prefixes(request[x].path)
    BY <1>1, WhoNeeds
  <2>2. \A q : q \in DOMAIN nodes' <=>
          q = Root \/ \E x \in Subscribers : request'[x] # None /\ q \in Prefixes(request'[x].path)
    BY <1>2, <1>4, <1>5, <1>7, <2>1
  <2> QED BY <1>6, <2>2, WhoNeedsNext
<1>9. ASSUME NEW x \in Subscribers, request'[x] # None
      PROVE  view'[x] = Freeze(DataAt(request'[x].path))
  <2>1. CASE x = s
    <3>1. NodeData[r.path] = DataAt(r.path)
      BY <1>1, <1>3, <1>4, NodeDataInStep
    <3>2. view'[s] = Freeze(NodeData[r.path])
      BY <1>1, <1>2 DEF TypeOK
    <3> QED BY <1>7, <2>1, <3>1, <3>2
  <2>2. CASE x # s
    <3>1. request'[x] = request[x]
      BY <1>7, <2>2
    <3>2. view'[x] = view[x]
      BY <1>2, <2>2
    <3>3. view[x] = Freeze(DataAt(request[x].path))
      BY <1>3, <1>9, <3>1 DEF InStep
    <3> QED BY <3>1, <3>2, <3>3
  <2> QED BY <2>1, <2>2
<1> QED BY <1>2, <1>5, <1>8, <1>9, AllToldAgain

\* The two notions of a prefix in the library are the same for paths.
LEMMA PrefixIsPrefix ==
  ASSUME NEW p \in Paths, NEW q \in Paths
  PROVE  p \in Prefixes(q) => IsPrefix(p, q)
<1>1. ASSUME NEW x \in Paths PROVE Root \in Paths /\ IsPrefix(Root, x) /\ IsPrefix(x, x)
  <2>1. Len(x) \in Nat /\ Len(Root) = 0
    BY PathKinds
  <2>2. SubSeq(Root, 1, 0) = << >> /\ SubSeq(x, 1, 0) = << >>
    BY DEF Root
  <2> QED BY <2>1, <2>2, PathKinds DEF IsPrefix
<1>2. ASSUME NEW f \in Fields, NEW l \in Leaves PROVE IsPrefix(<<f>>, <<f, l>>)
  <2>1. SubSeq(<<f>>, 1, 1) = <<f>>
    <3>1. <<f>> \in Seq({f}) /\ Len(<<f>>) = 1
      OBVIOUS
    <3> QED BY <3>1, SubSeqFull
  <2>2. SubSeq(<<f, l>>, 1, 1) = <<f>>
    BY PathKinds DEF Front
  <2>3. Len(<<f>>) = 1 /\ Len(<<f, l>>) = 2
    OBVIOUS
  <2> QED BY <2>1, <2>2, <2>3 DEF IsPrefix
<1> QED BY <1>1, <1>2, PathKinds, PrefixKinds

LEMMA PrefixIsAPrefix ==
  ASSUME NEW p \in Paths, NEW q \in Paths
  PROVE  IsPrefix(p, q) => p \in Prefixes(q)
<1> SUFFICES ASSUME IsPrefix(p, q) PROVE p \in Prefixes(q)
  OBVIOUS
<1>1. ASSUME NEW x \in Paths PROVE x \in Seq(Fields \cup Leaves)
  <2>1. CASE x = Root
    BY <2>1 DEF Root
  <2>2. ASSUME NEW f \in Fields, x = <<f>> PROVE x \in Seq(Fields \cup Leaves)
    BY <2>2
  <2>3. ASSUME NEW f \in Fields, NEW l \in Leaves, x = <<f, l>> PROVE x \in Seq(Fields \cup Leaves)
    BY <2>3
  <2> QED BY <2>1, <2>2, <2>3, PathKinds
<1>2. Len(p) \in 0 .. Len(q) /\ SubSeq(p, 1, Len(p)) = SubSeq(q, 1, Len(p))
  BY <1>1 DEF IsPrefix
<1>3. SubSeq(p, 1, Len(p)) = p
  BY <1>1, SubSeqFull
<1> QED BY <1>2, <1>3 DEF Prefixes

\* Who leaves takes along the nodes that nobody else needs.
LEMMA UnsubscribeKeeps ==
  ASSUME IInv, NEW s \in Subscribers, Unsubscribe(s)
  PROVE  IInv'
<1>1. TypeOK /\ Typed /\ TreeFits /\ ChangesOK
  BY DEF IInv, Typed, TreeFits
<1>2. /\ count = 0 /\ count' = 0 /\ UNCHANGED model /\ request[s] # None
      /\ request' = [request EXCEPT ![s] = None]
      /\ view' = [view EXCEPT ![s] = None]
      /\ changes = << >> /\ changes' = << >>
  BY <1>1 DEF Unsubscribe, ChangesOK
<1>3. /\ \A q : q \in DOMAIN nodes' <=>
           q \in DOMAIN nodes /\ (q = Root \/ q \notin Prefixes(request[s].path) \/ Needed(q, s))
      /\ \A q \in DOMAIN nodes' : nodes'[q] = nodes[q]
  BY DEF Unsubscribe
<1>4. InStep
  BY <1>2, ToldIsInStep
<1>5. request'[s] = None /\ \A x \in Subscribers \ {s} : request'[x] = request[x]
  BY <1>1, <1>2 DEF TypeOK
<1>6. \A q : q \in DOMAIN nodes <=>
        q = Root \/ \E x \in Subscribers : request[x] # None /\ q \in Prefixes(request[x].path)
  BY <1>1, WhoNeeds
<1>7. ASSUME NEW x \in Subscribers, request[x] # None PROVE request[x].path \in Paths
  BY <1>1, <1>7 DEF TypeOK, Requests
<1>8. ASSUME NEW q \in DOMAIN nodes, NEW x \in Subscribers \ {s}, request[x] # None,
             q \in Prefixes(request[x].path)
      PROVE  Needed(q, s)
  <2>1. q \in Paths /\ request[x].path \in Paths
    BY <1>1, <1>7, <1>8 DEF TypeOK
  <2>2. IsPrefix(q, request[x].path)
    BY <1>8, <2>1, PrefixIsPrefix
  <2> QED BY <1>8, <2>2 DEF Needed
<1>9. ASSUME NEW q \in DOMAIN nodes, Needed(q, s), q # Root
      PROVE  \E x \in Subscribers \ {s} : request[x] # None /\ q \in Prefixes(request[x].path)
  <2>1. PICK x \in Subscribers \ {s} : request[x] # None /\ IsPrefix(q, request[x].path)
    BY <1>9 DEF Needed
  <2>2. q \in Paths /\ request[x].path \in Paths
    BY <1>1, <1>7, <2>1 DEF TypeOK
  <2>3. q \in Prefixes(request[x].path)
    BY <1>9, <2>1, <2>2, PrefixIsAPrefix
  <2> QED BY <2>1, <2>3
<1>10. TypeOK'
  <2>1. heap' = heap /\ block' = block /\ wired' = wired
    BY <1>2 DEF model
  <2>2. request' \in [Subscribers -> Requests \cup {None}]
    BY <1>1, <1>2 DEF TypeOK
  <2> QED BY <1>1, <1>2, <1>3, <2>1, <2>2 DEF TypeOK
<1>11. TreeFits'
  <2>1. ASSUME NEW q
        PROVE  q \in DOMAIN nodes' <=>
                 q = Root \/ \E x \in Subscribers : request'[x] # None /\ q \in Prefixes(request'[x].path)
    <3>1. ASSUME q \in DOMAIN nodes', q # Root
          PROVE  \E x \in Subscribers : request'[x] # None /\ q \in Prefixes(request'[x].path)
      <4>1. \E x \in Subscribers \ {s} : request[x] # None /\ q \in Prefixes(request[x].path)
        BY <1>3, <1>6, <1>9, <3>1
      <4> QED BY <1>5, <4>1
    <3>2. ASSUME NEW x \in Subscribers, request'[x] # None, q \in Prefixes(request'[x].path)
          PROVE  q \in DOMAIN nodes'
      <4>1. x \in Subscribers \ {s} /\ request[x] # None /\ q \in Prefixes(request[x].path)
        BY <1>5, <3>2
      <4>2. q \in DOMAIN nodes
        BY <1>6, <4>1
      <4>3. Needed(q, s)
        BY <1>8, <4>1, <4>2
      <4> QED BY <1>3, <4>2, <4>3
    <3>3. Root \in DOMAIN nodes'
      BY <1>3, <1>6
    <3> QED BY <3>1, <3>2, <3>3
  <2> QED BY <1>10, <2>1, WhoNeedsNext
<1>12. \A p \in DOMAIN nodes' : nodes'[p] = DataAt(p)
  BY <1>3, <1>4 DEF InStep
<1>13. ASSUME NEW x \in Subscribers, request'[x] # None
       PROVE  view'[x] = Freeze(DataAt(request'[x].path))
  <2>1. x # s /\ request'[x] = request[x] /\ request[x] # None
    BY <1>5, <1>13
  <2>2. view'[x] = view[x]
    BY <1>1, <1>2, <2>1 DEF TypeOK
  <2>3. view[x] = Freeze(DataAt(request[x].path))
    BY <1>4, <2>1 DEF InStep
  <2> QED BY <2>1, <2>2, <2>3
<1> QED BY <1>2, <1>11, <1>12, <1>13, AllToldAgain

\* Whatever is set, replaced and removed in a squash, what clients and nodes hold
\* differs from the block only where a change of the squash is going to tell them.
THEOREM ToldInvariant == Spec => []IInv
<1>1. IInv /\ [Next]_vars => IInv'
  <2> SUFFICES ASSUME IInv, [Next]_vars PROVE IInv'
    OBVIOUS
  <2>1. CASE Enter
    BY <2>1, EnterKeeps
  <2>2. CASE Exit
    BY <2>2, ExitKeeps
  <2>3. CASE \E f \in Fields : RemoveField(f)
    BY <2>3, RemoveFieldKeeps
  <2>4. CASE \E f \in Fields, o \in Objects, values \in [Leaves -> Values] : SetField(f, o, values)
    BY <2>4, SetFieldKeeps
  <2>5. CASE \E o \in Objects, l \in Leaves, v \in Values : SetLeaf(o, l, v)
    BY <2>5, SetLeafKeeps
  <2>6. ASSUME NEW s \in Subscribers, Unsubscribe(s) PROVE IInv'
    BY <2>6, UnsubscribeKeeps
  <2>7. ASSUME NEW s \in Subscribers, NEW r \in Requests, Subscribe(s, r) PROVE IInv'
    BY <2>7, SubscribeKeeps
  <2>8. CASE UNCHANGED vars
    <3>1. UNCHANGED <<model, changes, tree>> /\ count' = count
      BY <2>8 DEF vars
    <3>2. count \in 0 .. MaxNesting /\ (count = 0 => changes = << >>)
      BY DEF IInv, Typed, TreeFits, TypeOK, ChangesOK
    <3>3. count' \in 0 .. MaxNesting /\ (count' = 0 => changes' = << >>)
      BY <3>1, <3>2
    <3> QED BY <3>1, <3>3, NothingChanges
  <2> QED BY <2>1, <2>2, <2>3, <2>4, <2>5, <2>6, <2>7, <2>8 DEF Next
<1> QED BY <1>1, InitTold, PTL DEF Spec

\* The tree has a node for each path subscribed to and those above it, and no other
\* (handle_subscribe, handle_unsubscribe).
THEOREM TreeFitsHolds == Spec => []TreeFits
<1>1. IInv => TreeFits
  BY DEF IInv, Typed
<1> QED BY <1>1, ToldInvariant, PTL

\* Outside a squash every client holds what the block does, by updates or by deltas
\* (notify_changes), for any fields, values, models and subscribers.
THEOREM ClientsInStepHolds == Spec => []ClientsInStep
<1>1. IInv => ClientsInStep
  <2> SUFFICES ASSUME IInv PROVE ClientsInStep
    OBVIOUS
  <2>1. count = 0 => changes = << >>
    BY DEF IInv, Typed, ChangesOK
  <2>2. count = 0 => InStep
    BY <2>1, ToldIsInStep
  <2> QED BY <2>2 DEF InStep, ClientsInStep
<1> QED BY <1>1, ToldInvariant, PTL

================================================================================
