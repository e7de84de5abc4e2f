------------------------ MODULE WebsocketHandlerProofs ------------------------
(***************************************************************************)
(* What the websocket server promises for any number of websockets,        *)
(* requests and changes: handlers whose client has gone give up their      *)
(* subscriptions, and to one subscriber it serves its block as module      *)
(* BlockServer says.                                                       *)
(***************************************************************************)
EXTENDS WebsocketHandler, FiniteSetTheorems, WellFoundedInduction, SequenceTheorems, TLAPS

--------------------------------------------------------------------------------
(***************************************************************************)
(* Numbers, and parts of sequences                                         *)
(***************************************************************************)
\* A set of numbers that is not empty has a smallest.
LEMMA LeastOf ==
  ASSUME NEW S \in SUBSET Nat, S # {}
  PROVE  \E x \in S : \A y \in S : x <= y
<1> DEFINE R == {ss \in Nat \X Nat : ss[1] < ss[2]}
<1>1. IsWellFoundedOn(R, Nat)
  BY NatLessThanWellFounded DEF OpToRel
<1>2. PICK x \in S : \A y \in S : ~(<<y, x>> \in R)
  BY <1>1, WFMin
<1>3. \A y \in S : <<y, x>> \in Nat \X Nat /\ <<y, x>>[1] = y /\ <<y, x>>[2] = x
  OBVIOUS
<1>4. \A y \in S : ~(y < x)
  BY <1>2, <1>3
<1> QED BY <1>4

\* What holds of 0 and of the number after each that it holds of holds of all: S are
\* those that it does not hold of.
LEMMA NoneBegins ==
  ASSUME NEW N \in Nat, NEW S \in SUBSET (0 .. N), 0 \notin S,
         \A n \in 1 .. N : n \in S => n - 1 \in S
  PROVE  S = {}
<1> SUFFICES ASSUME S # {} PROVE FALSE
  OBVIOUS
<1>1. S \in SUBSET Nat
  OBVIOUS
<1>2. PICK x \in S : \A y \in S : x <= y
  BY <1>1, LeastOf
<1>3. x \in 1 .. N /\ x - 1 \in S
  BY <1>2
<1> QED BY <1>2, <1>3

\* upto[n] is what Part takes of the first n items.
Takes(upto, seq, places) ==
  /\ upto[0] = << >>
  /\ \A n \in 1 .. Len(seq) :
       upto[n] = IF n \in places THEN Append(upto[n - 1], seq[n]) ELSE upto[n - 1]
  /\ Part(seq, places) = upto[Len(seq)]

LEMMA PartTakes ==
  ASSUME NEW S, NEW seq \in Seq(S), NEW places
  PROVE  \E upto : Takes(upto, seq, places)
<1> DEFINE N == Len(seq)
           Step(f, n) == IF n = 0 THEN << >>
                         ELSE IF n \in places THEN Append(f[n - 1], seq[n]) ELSE f[n - 1]
           Upto(m, f) == f = [n \in 0 .. m |-> Step(f, n)]
           Bad == {m \in 0 .. N : ~\E f : Upto(m, f)}
           it == CHOOSE upto : upto = [n \in 0 .. Len(seq) |->
                   IF n = 0 THEN << >>
                   ELSE IF n \in places THEN Append(upto[n - 1], seq[n]) ELSE upto[n - 1]]
<1>0. N \in Nat
  OBVIOUS
<1>1. 0 \notin Bad
  <2> DEFINE f == [n \in 0 .. 0 |-> << >>]
  <2>1. f = [n \in 0 .. 0 |-> Step(f, n)]
    OBVIOUS
  <2>2. Upto(0, f)
    BY <2>1
  <2> HIDE DEF Upto, f
  <2> QED BY <2>2
<1>2. ASSUME NEW m \in 1 .. N, m - 1 \notin Bad PROVE m \notin Bad
  <2>1. PICK f : Upto(m - 1, f)
    <3>1. m - 1 \in 0 .. N
      BY <1>0
    <3> HIDE DEF Upto
    <3> QED BY <1>2, <3>1
  <2>2. \A n \in 0 .. m - 1 : f[n] = Step(f, n)
    <3> SUFFICES ASSUME NEW n \in 0 .. m - 1 PROVE f[n] = Step(f, n)
      OBVIOUS
    <3> HIDE DEF Step
    <3> QED BY <2>1, Zenon
  <2> DEFINE g == [n \in 0 .. m |-> IF n = m THEN Step(f, m) ELSE f[n]]
  <2>3. ASSUME NEW n \in 0 .. m PROVE g[n] = Step(g, n)
    <3>0. m \in Nat /\ m > 0
      BY <1>0
    <3>1. n # 0 => g[n - 1] = f[n - 1]
      BY <3>0
    <3>2. Step(g, n) = Step(f, n)
      BY <3>1
    <3>3. n = m \/ n \in 0 .. m - 1
      BY <3>0
    <3>4. n # m => g[n] = f[n]
      OBVIOUS
    <3>5. n = m => g[n] = Step(f, m)
      OBVIOUS
    <3> HIDE DEF g, Step
    <3> QED BY <2>2, <3>2, <3>3, <3>4, <3>5
  <2>4. Upto(m, g)
    <3> DEFINE h == [n \in 0 .. m |-> Step(g, n)]
    <3>1. g = [n \in 0 .. m |-> g[n]] /\ h = [n \in 0 .. m |-> h[n]]
      OBVIOUS
    <3>2. \A n \in 0 .. m : h[n] = Step(g, n)
      OBVIOUS
    <3> HIDE DEF g, Step, h
    <3>3. \A n \in 0 .. m : g[n] = h[n]
      BY <2>3, <3>2
    <3>4. g = h
      BY <3>1, <3>3
    <3> QED BY <3>4 DEF h
  <2> QED
    <3> HIDE DEF Upto
    <3> QED BY <2>4
<1>3. Bad = {}
  <2>1. Bad \in SUBSET (0 .. N)
    OBVIOUS
  <2> HIDE DEF Bad
  <2> QED BY <1>0, <1>1, <1>2, <2>1, NoneBegins
<1>4. \E f : Upto(N, f)
  <2>1. N \in 0 .. N /\ N \notin Bad
    <3> HIDE DEF Bad
    <3> QED BY <1>0, <1>3
  <2> HIDE DEF Upto
  <2> QED BY <2>1
<1>5. it = [n \in 0 .. N |-> Step(it, n)]
  BY <1>4
<1>6. Part(seq, places) = it[N]
  BY DEF Part
<1> HIDE DEF it
<1>7. \A n \in 0 .. N : it[n] = Step(it, n)
  <2> SUFFICES ASSUME NEW n \in 0 .. N PROVE it[n] = Step(it, n)
    OBVIOUS
  <2> HIDE DEF Step
  <2> QED BY <1>5, Zenon
<1>8. it[0] = << >>
  BY <1>0, <1>7
<1>9. \A n \in 1 .. N : it[n] = IF n \in places THEN Append(it[n - 1], seq[n]) ELSE it[n - 1]
  BY <1>0, <1>7
<1> QED BY <1>6, <1>8, <1>9 DEF Takes

LEMMA TakesSome ==
  ASSUME NEW S, NEW seq \in Seq(S), NEW places, NEW upto, Takes(upto, seq, places)
  PROVE  \A n \in 0 .. Len(seq) : upto[n] \in Seq(S)
<1> DEFINE Bad == {n \in 0 .. Len(seq) : upto[n] \notin Seq(S)}
<1>0. Len(seq) \in Nat
  OBVIOUS
<1>1. 0 \notin Bad
  <2>1. upto[0] \in Seq(S)
    BY EmptySeq DEF Takes
  <2> QED BY <2>1
<1>2. ASSUME NEW n \in 1 .. Len(seq), n - 1 \notin Bad PROVE n \notin Bad
  <2>1. n - 1 \in 0 .. Len(seq) /\ upto[n - 1] \in Seq(S) /\ seq[n] \in S
    BY <1>0, <1>2
  <2>2. upto[n] = IF n \in places THEN Append(upto[n - 1], seq[n]) ELSE upto[n - 1]
    BY DEF Takes
  <2>3. upto[n] \in Seq(S)
    BY <2>1, <2>2
  <2> QED BY <2>3
<1>3. Bad \in SUBSET (0 .. Len(seq))
  OBVIOUS
<1>4. Bad = {}
  <2> HIDE DEF Bad
  <2> QED BY <1>0, <1>1, <1>2, <1>3, NoneBegins
<1> QED BY <1>4

LEMMA PartType ==
  ASSUME NEW S, NEW seq \in Seq(S), NEW places
  PROVE  Part(seq, places) \in Seq(S)
<1>1. PICK upto : Takes(upto, seq, places)
  BY PartTakes
<1>2. Len(seq) \in 0 .. Len(seq)
  OBVIOUS
<1> QED BY <1>1, <1>2, TakesSome DEF Takes

\* Of nothing there is nothing to take.
LEMMA PartOfNone ==
  ASSUME NEW places
  PROVE  Part(<< >>, places) = << >>
<1>1. << >> \in Seq({}) /\ Len(<< >>) = 0
  OBVIOUS
<1>2. PICK upto : Takes(upto, << >>, places)
  BY <1>1, PartTakes
<1> QED BY <1>1, <1>2 DEF Takes

LEMMA PartOfOne ==
  ASSUME NEW S, NEW x \in S, NEW places
  PROVE  Part(<<x>>, places) = IF 1 \in places THEN <<x>> ELSE << >>
<1>1. <<x>> \in Seq(S) /\ Len(<<x>>) = 1 /\ <<x>>[1] = x
  OBVIOUS
<1>2. PICK upto : Takes(upto, <<x>>, places)
  BY <1>1, PartTakes
<1>3. upto[0] = << >> /\ 1 \in 1 .. 1
  BY <1>2 DEF Takes
<1>4. upto[1] = IF 1 \in places THEN Append(upto[1 - 1], x) ELSE upto[1 - 1]
  BY <1>1, <1>2, <1>3 DEF Takes
<1>5. upto[1] = IF 1 \in places THEN <<x>> ELSE << >>
  <2>1. 1 - 1 = 0 /\ Append(<< >>, x) = <<x>>
    OBVIOUS
  <2> QED BY <1>3, <1>4, <2>1
<1> QED BY <1>1, <1>2, <1>5 DEF Takes

AppendsAfter(s, t, x) == Append(s \o t, x) = s \o Append(t, x)

LEMMA AppendAfter ==
  ASSUME NEW S, NEW s \in Seq(S), NEW t \in Seq(S), NEW x \in S
  PROVE  AppendsAfter(s, t, x)
<1>1. <<x>> \in Seq(S) /\ s \o t \in Seq(S)
  OBVIOUS
<1>2. Append(s \o t, x) = (s \o t) \o <<x>> /\ Append(t, x) = t \o <<x>>
  BY <1>1, AppendIsConcat
<1>3. (s \o t) \o <<x>> = s \o (t \o <<x>>)
  BY <1>1, ConcatAssociative
<1> QED BY <1>2, <1>3 DEF AppendsAfter

\* P has the places Q of s, and R of what comes after it.
OfBoth(s, t, P, Q, R) ==
  /\ \A n \in 1 .. Len(s) : n \in P <=> n \in Q
  /\ \A n \in 1 .. Len(t) : n + Len(s) \in P <=> n \in R

\* What is taken of one sequence after the other
LEMMA PartOfBoth ==
  ASSUME NEW S, NEW s \in Seq(S), NEW t \in Seq(S), NEW P, NEW Q, NEW R, OfBoth(s, t, P, Q, R)
  PROVE  Part(s \o t, P) = Part(s, Q) \o Part(t, R)
<1>0. /\ s \o t \in Seq(S) /\ Len(s) \in Nat /\ Len(t) \in Nat /\ Len(s \o t) = Len(s) + Len(t)
      /\ \A n \in 1 .. Len(s) : (s \o t)[n] = s[n]
      /\ \A n \in 1 .. Len(t) : (s \o t)[n + Len(s)] = t[n]
  OBVIOUS
<1>1. PICK f : Takes(f, s \o t, P)
  BY <1>0, PartTakes
<1>2. PICK g : Takes(g, s, Q)
  BY PartTakes
<1>3. PICK h : Takes(h, t, R)
  BY PartTakes
<1>4. \A n \in 0 .. Len(s) : f[n] = g[n]
  <2> DEFINE Bad == {n \in 0 .. Len(s) : f[n] # g[n]}
  <2>1. 0 \notin Bad
    BY <1>1, <1>2 DEF Takes
  <2>2. ASSUME NEW n \in 1 .. Len(s), n - 1 \notin Bad PROVE n \notin Bad
    <3>1. n - 1 \in 0 .. Len(s) /\ f[n - 1] = g[n - 1] /\ n \in 1 .. Len(s \o t)
      BY <1>0, <2>2
    <3>2. f[n] = IF n \in P THEN Append(f[n - 1], (s \o t)[n]) ELSE f[n - 1]
      BY <1>1, <3>1 DEF Takes
    <3>3. g[n] = IF n \in Q THEN Append(g[n - 1], s[n]) ELSE g[n - 1]
      BY <1>2 DEF Takes
    <3>4. n \in P <=> n \in Q
      BY DEF OfBoth
    <3> QED BY <1>0, <3>1, <3>2, <3>3, <3>4
  <2>3. Bad \in SUBSET (0 .. Len(s))
    OBVIOUS
  <2>4. Bad = {}
    <3> HIDE DEF Bad
    <3> QED BY <1>0, <2>1, <2>2, <2>3, NoneBegins
  <2> QED BY <2>4
<1>5. g[Len(s)] \in Seq(S) /\ \A n \in 0 .. Len(t) : h[n] \in Seq(S)
  <2>1. Len(s) \in 0 .. Len(s)
    BY <1>0
  <2> QED BY <1>2, <1>3, <2>1, TakesSome
<1>6. \A n \in 0 .. Len(t) : f[n + Len(s)] = g[Len(s)] \o h[n]
  <2> DEFINE Bad == {n \in 0 .. Len(t) : f[n + Len(s)] # g[Len(s)] \o h[n]}
  <2>1. 0 \notin Bad
    <3>1. 0 + Len(s) = Len(s) /\ f[Len(s)] = g[Len(s)] /\ h[0] = << >>
      BY <1>0, <1>3, <1>4 DEF Takes
    <3>2. g[Len(s)] \o << >> = g[Len(s)]
      BY <1>5, ConcatEmptySeq
    <3> QED BY <3>1, <3>2
  <2>2. ASSUME NEW n \in 1 .. Len(t), n - 1 \notin Bad PROVE n \notin Bad
    <3>1. n - 1 \in 0 .. Len(t) /\ n + Len(s) \in 1 .. Len(s \o t) /\ n \in 0 .. Len(t)
      BY <1>0
    <3>2. f[(n - 1) + Len(s)] = g[Len(s)] \o h[n - 1]
      BY <2>2, <3>1
    <3>3. (n + Len(s)) - 1 = (n - 1) + Len(s)
      BY <1>0
    <3>4. f[n + Len(s)] = IF n + Len(s) \in P THEN Append(f[(n - 1) + Len(s)], t[n])
                          ELSE f[(n - 1) + Len(s)]
      BY <1>0, <1>1, <3>1, <3>3 DEF Takes
    <3>5. h[n] = IF n \in R THEN Append(h[n - 1], t[n]) ELSE h[n - 1]
      BY <1>3 DEF Takes
    <3>6. t[n] \in S /\ h[n - 1] \in Seq(S) /\ g[Len(s)] \in Seq(S)
      BY <1>5, <3>1
    <3>7. Append(g[Len(s)] \o h[n - 1], t[n]) = g[Len(s)] \o Append(h[n - 1], t[n])
      <4>1. AppendsAfter(g[Len(s)], h[n - 1], t[n])
        BY <3>6, AppendAfter
      <4> QED BY <4>1 DEF AppendsAfter
    <3>8. n + Len(s) \in P <=> n \in R
      BY DEF OfBoth
    <3> QED BY <3>2, <3>4, <3>5, <3>7, <3>8
  <2>3. Bad \in SUBSET (0 .. Len(t))
    OBVIOUS
  <2>4. Bad = {}
    <3> HIDE DEF Bad
    <3> QED BY <1>0, <2>1, <2>2, <2>3, NoneBegins
  <2> QED BY <2>4
<1>7. Len(t) \in 0 .. Len(t) /\ f[Len(t) + Len(s)] = g[Len(s)] \o h[Len(t)]
  <2>1. Len(t) \in 0 .. Len(t)
    BY <1>0
  <2> QED BY <1>6, <2>1, Zenon
<1>8. Len(t) + Len(s) = Len(s \o t)
  BY <1>0
<1> QED BY <1>1, <1>2, <1>3, <1>7, <1>8 DEF Takes

LEMMA ForNone ==
  ASSUME NEW c PROVE For(c, << >>) = << >>
BY PartOfNone DEF For

LEMMA ForOne ==
  ASSUME NEW c, NEW r PROVE For(c, <<r>>) = IF r.conn = c THEN <<r>> ELSE << >>
<1> DEFINE P == {i \in DOMAIN <<r>> : <<r>>[i].conn = c}
<1>1. 1 \in P <=> r.conn = c
  OBVIOUS
<1>2. r \in {r} /\ For(c, <<r>>) = Part(<<r>>, P)
  BY DEF For
<1> HIDE DEF P
<1>3. Part(<<r>>, P) = IF 1 \in P THEN <<r>> ELSE << >>
  BY PartOfOne, <1>2
<1> QED BY <1>1, <1>2, <1>3

LEMMA ForBoth ==
  ASSUME NEW S, NEW s \in Seq(S), NEW t \in Seq(S), NEW c
  PROVE  For(c, s \o t) = For(c, s) \o For(c, t)
<1> DEFINE P == {i \in DOMAIN (s \o t) : (s \o t)[i].conn = c}
           Q == {i \in DOMAIN s : s[i].conn = c}
           R == {i \in DOMAIN t : t[i].conn = c}
<1>0. /\ s \o t \in Seq(S) /\ Len(s) \in Nat /\ Len(t) \in Nat /\ DOMAIN (s \o t) = 1 .. Len(s) + Len(t)
      /\ DOMAIN s = 1 .. Len(s) /\ DOMAIN t = 1 .. Len(t)
      /\ \A n \in 1 .. Len(s) : (s \o t)[n] = s[n]
      /\ \A n \in 1 .. Len(t) : (s \o t)[n + Len(s)] = t[n]
  OBVIOUS
<1>1. \A n \in 1 .. Len(s) : n \in P <=> n \in Q
  BY <1>0
<1>2. \A n \in 1 .. Len(t) : n + Len(s) \in P <=> n \in R
  BY <1>0
<1>3. For(c, s \o t) = Part(s \o t, P) /\ For(c, s) = Part(s, Q) /\ For(c, t) = Part(t, R)
  BY DEF For
<1> HIDE DEF P, Q, R
<1>4. OfBoth(s, t, P, Q, R)
  BY <1>1, <1>2 DEF OfBoth
<1>5. Part(s \o t, P) = Part(s, Q) \o Part(t, R)
  BY <1>4, PartOfBoth
<1> QED BY <1>3, <1>5

\* The requests of a client, without what its handler has added.
Asked(seq) == Part(seq, {i \in DOMAIN seq : seq[i].what # "unsubscribe"})

LEMMA AskedNone == Asked(<< >>) = << >>
BY PartOfNone DEF Asked

LEMMA AskedOne ==
  ASSUME NEW r PROVE Asked(<<r>>) = IF r.what # "unsubscribe" THEN <<r>> ELSE << >>
<1> DEFINE P == {i \in DOMAIN <<r>> : <<r>>[i].what # "unsubscribe"}
<1>1. 1 \in P <=> r.what # "unsubscribe"
  OBVIOUS
<1>2. r \in {r} /\ Asked(<<r>>) = Part(<<r>>, P)
  BY DEF Asked
<1> HIDE DEF P
<1>3. Part(<<r>>, P) = IF 1 \in P THEN <<r>> ELSE << >>
  BY PartOfOne, <1>2
<1> QED BY <1>1, <1>2, <1>3

LEMMA AskedBoth ==
  ASSUME NEW S, NEW s \in Seq(S), NEW t \in Seq(S)
  PROVE  Asked(s \o t) = Asked(s) \o Asked(t)
<1> DEFINE P == {i \in DOMAIN (s \o t) : (s \o t)[i].what # "unsubscribe"}
           Q == {i \in DOMAIN s : s[i].what # "unsubscribe"}
           R == {i \in DOMAIN t : t[i].what # "unsubscribe"}
<1>0. /\ s \o t \in Seq(S) /\ Len(s) \in Nat /\ Len(t) \in Nat /\ DOMAIN (s \o t) = 1 .. Len(s) + Len(t)
      /\ DOMAIN s = 1 .. Len(s) /\ DOMAIN t = 1 .. Len(t)
      /\ \A n \in 1 .. Len(s) : (s \o t)[n] = s[n]
      /\ \A n \in 1 .. Len(t) : (s \o t)[n + Len(s)] = t[n]
  OBVIOUS
<1>1. \A n \in 1 .. Len(s) : n \in P <=> n \in Q
  BY <1>0
<1>2. \A n \in 1 .. Len(t) : n + Len(s) \in P <=> n \in R
  BY <1>0
<1>3. Asked(s \o t) = Part(s \o t, P) /\ Asked(s) = Part(s, Q) /\ Asked(t) = Part(t, R)
  BY DEF Asked
<1> HIDE DEF P, Q, R
<1>4. OfBoth(s, t, P, Q, R)
  BY <1>1, <1>2 DEF OfBoth
<1>5. Part(s \o t, P) = Part(s, Q) \o Part(t, R)
  BY <1>4, PartOfBoth
<1> QED BY <1>3, <1>5


--------------------------------------------------------------------------------
(***************************************************************************)
(* What is held and sent, and to whom                                      *)
(***************************************************************************)
Asking(n) ==
  [what : {"block"}, id : 1 .. n]
    \cup [what : {"put"}, id : 1 .. n, field : Fields, by : 1 .. n]
    \cup [what : {"unsubscribe"}, id : 1 .. n]

Blocks == UNION {[fs -> Nat] : fs \in SUBSET Fields}
Changing == [depth : {"block", "field", "value"}, field : Fields \cup {None},
             data : Nat \cup {None} \cup Blocks]
Responses == [conn : Conns, what : {"delta", "return"}, id : Nat,
              data : Changing \cup Nat \cup {None}]
Kept == [conn : Conns, need : 1 .. Batch, rest : Seq(Responses)]
Subscriptions(n) == [conn : Conns, id : 1 .. n, of : {"block"}]

Types ==
  /\ TypeOK
  /\ requests \in 0 .. MaxRequests /\ changes \in Nat
  /\ handles \in [Conns -> SUBSET (1 .. requests)]
  /\ up \in [Conns -> Seq(Asking(requests))]
  /\ down \in [Conns -> Seq(Responses)]
  /\ outbox \in Seq(Responses)
  /\ blocked \in Seq(Kept)
  /\ subs \subseteq Subscriptions(requests) /\ IsFiniteSet(subs)

DeltaFor(s, r) == r.what = "delta" /\ r.conn = s.conn /\ r.id = s.id

\* A set of subscriptions in the order of their connections
ByConns(seq) == \A i, j \in DOMAIN seq : i < j => seq[i].conn <= seq[j].conn
Orderable(S) == \E seq \in SetToSeqs(S) : ByConns(seq)

\* There is one: the subscription of the first connection, and then the others.
LEMMA OrderExists ==
  ASSUME NEW T, IsFiniteSet(T), \A s \in T : s.conn \in Nat
  PROVE  Orderable(T)
<1> DEFINE N == Cardinality(T)
           Bad == {n \in 0 .. N : \E S \in SUBSET T : Cardinality(S) = n /\ ~Orderable(S)}
<1>0. N \in Nat
  BY FS_CardinalityType
<1>1. 0 \notin Bad
  <2> SUFFICES ASSUME NEW S \in SUBSET T, Cardinality(S) = 0 PROVE Orderable(S)
    OBVIOUS
  <2>1. S = {}
    BY FS_Subset, FS_EmptySet
  <2>2. << >> \in [1 .. 0 -> S] /\ DOMAIN << >> = 1 .. 0
    OBVIOUS
  <2>3. << >> \in SetToSeqs(S)
    BY <2>2 DEF SetToSeqs
  <2>4. ByConns(<< >>)
    BY <2>2 DEF ByConns
  <2> QED BY <2>3, <2>4 DEF Orderable
<1>2. ASSUME NEW n \in 1 .. N, n - 1 \notin Bad PROVE n \notin Bad
  <2> SUFFICES ASSUME NEW S \in SUBSET T, Cardinality(S) = n PROVE Orderable(S)
    OBVIOUS
  <2>0. n \in Nat /\ n > 0 /\ n - 1 \in 0 .. N
    BY <1>0
  <2>1. IsFiniteSet(S) /\ S # {}
    BY <2>0, FS_Subset, FS_EmptySet
  <2>2. PICK s \in S : \A r \in S : s.conn <= r.conn
    <3> DEFINE C == {r.conn : r \in S}
    <3>1. C \in SUBSET Nat /\ C # {}
      BY <2>1
    <3>2. PICK c \in C : \A d \in C : c <= d
      <4> HIDE DEF C
      <4> QED BY <3>1, LeastOf
    <3>3. PICK s \in S : c = s.conn
      OBVIOUS
    <3>4. \A r \in S : r.conn \in C
      OBVIOUS
    <3> HIDE DEF C
    <3> QED BY <3>2, <3>3, <3>4
  <2>3. S \ {s} \in SUBSET T /\ Cardinality(S \ {s}) = n - 1
    BY <2>1, FS_RemoveElement
  <2>4. Orderable(S \ {s})
    BY <1>2, <2>0, <2>3
  <2>5. PICK o \in SetToSeqs(S \ {s}) : ByConns(o)
    BY <2>4 DEF Orderable
  <2>6. o \in [1 .. n - 1 -> S \ {s}] /\ \A i, j \in 1 .. n - 1 : i # j => o[i] # o[j]
    BY <2>3, <2>5 DEF SetToSeqs
  <2> DEFINE seq == [i \in 1 .. n |-> IF i = 1 THEN s ELSE o[i - 1]]
  <2>7. \A i \in 1 .. n : i # 1 => i - 1 \in 1 .. n - 1 /\ seq[i] = o[i - 1] /\ o[i - 1] \in S \ {s}
    BY <2>0, <2>6
  <2>8. 1 \in 1 .. n /\ seq[1] = s /\ DOMAIN seq = 1 .. n
    BY <2>0
  <2>9. seq \in [1 .. n -> S]
    <3>1. \A i \in 1 .. n : seq[i] \in S
      <4> HIDE DEF seq
      <4> QED BY <2>7, <2>8
    <3>2. seq = [i \in 1 .. n |-> seq[i]]
      OBVIOUS
    <3> HIDE DEF seq
    <3> QED BY <3>1, <3>2
  <2> HIDE DEF seq
  <2>10. \A i, j \in 1 .. n : i # j => seq[i] # seq[j]
    <3> SUFFICES ASSUME NEW i \in 1 .. n, NEW j \in 1 .. n, i # j PROVE seq[i] # seq[j]
      OBVIOUS
    <3>1. CASE i = 1 \/ j = 1
      BY <2>7, <2>8, <3>1
    <3>2. CASE i # 1 /\ j # 1
      <4>1. i - 1 # j - 1
        BY <2>0
      <4> QED BY <2>6, <2>7, <3>2, <4>1
    <3> QED BY <3>1, <3>2
  <2>11. seq \in SetToSeqs(S)
    BY <2>9, <2>10 DEF SetToSeqs
  <2>12. ByConns(seq)
    <3> SUFFICES ASSUME NEW i \in 1 .. n, NEW j \in 1 .. n, i < j PROVE seq[i].conn <= seq[j].conn
      BY <2>8 DEF ByConns
    <3>1. j # 1 /\ seq[j] = o[j - 1] /\ o[j - 1] \in S /\ j - 1 \in 1 .. n - 1
      BY <2>0, <2>7
    <3>2. CASE i = 1
      BY <2>2, <2>8, <3>1, <3>2
    <3>3. CASE i # 1
      <4>1. i - 1 \in 1 .. n - 1 /\ seq[i] = o[i - 1] /\ i - 1 < j - 1
        BY <2>0, <2>7, <3>3
      <4>2. DOMAIN o = 1 .. n - 1
        BY <2>6
      <4> QED BY <2>5, <3>1, <4>1, <4>2 DEF ByConns
    <3> QED BY <3>2, <3>3
  <2> QED BY <2>11, <2>12 DEF Orderable
<1>3. Bad \in SUBSET (0 .. N)
  OBVIOUS
<1>4. Bad = {}
  <2> HIDE DEF Bad
  <2> QED BY <1>0, <1>1, <1>2, <1>3, NoneBegins
<1>5. N \notin Bad /\ T \in SUBSET T /\ N \in 0 .. N
  BY <1>0, <1>4
<1> QED BY <1>5


\* A change is told to every subscription, once.
LEMMA DeltasTell ==
  ASSUME Types, NEW change \in Changing
  PROVE  /\ Deltas(subs, change) \in Seq(Responses)
         /\ Len(Deltas(subs, change)) = Cardinality(subs)
         /\ \A s \in subs : \E i \in 1 .. Len(Deltas(subs, change)) :
              DeltaFor(s, Deltas(subs, change)[i])
         /\ \A i \in 1 .. Len(Deltas(subs, change)) :
              /\ Deltas(subs, change)[i].what = "delta"
              /\ \E s \in subs : DeltaFor(s, Deltas(subs, change)[i])
<1> DEFINE InOrder(seq) == \A i, j \in DOMAIN seq : i < j => seq[i].conn <= seq[j].conn
           order == CHOOSE seq \in SetToSeqs({s \in subs : s.of = "block"}) : InOrder(seq)
<1>1. /\ subs \subseteq Subscriptions(requests) /\ IsFiniteSet(subs) /\ requests \in Nat
      /\ Cardinality(subs) \in Nat
  BY FS_CardinalityType DEF Types
<1>2. \A s \in subs : s.conn \in Conns /\ s.id \in Nat /\ s.of = "block"
  BY <1>1 DEF Subscriptions
<1>3. {s \in subs : s.of = "block"} = subs
  BY <1>2
<1>4. \E seq \in SetToSeqs(subs) : InOrder(seq)
  <2>1. \A s \in subs : s.conn \in Nat
    BY <1>2, HandlerAssumption DEF Conns
  <2> QED BY <1>1, <2>1, OrderExists DEF Orderable, ByConns
<1>5. order \in SetToSeqs(subs)
  <2> HIDE DEF InOrder
  <2> QED BY <1>3, <1>4
<1>6. Deltas(subs, change) = [i \in DOMAIN order |-> Response(order[i].conn, "delta", order[i].id, change)]
  BY DEF Deltas
<1> HIDE DEF order
<1> DEFINE C == Cardinality(subs)
<1>7. /\ order \in [1 .. C -> subs]
      /\ \A i, j \in 1 .. C : i # j => order[i] # order[j]
  BY <1>5 DEF SetToSeqs
<1>8. \A s \in subs : \E i \in 1 .. C : order[i] = s
  <2> SUFFICES ASSUME NEW s \in subs, \A i \in 1 .. C : order[i] # s PROVE FALSE
    OBVIOUS
  <2>1. IsFiniteSet(1 .. C) /\ Cardinality(1 .. C) = C
    BY <1>1, FS_Interval
  <2>2. IsFiniteSet(subs \ {s}) /\ Cardinality(subs \ {s}) = C - 1
    BY <1>1, FS_RemoveElement
  <2>3. order \in [1 .. C -> subs \ {s}]
    BY <1>7
  <2>4. Cardinality(subs \ {s}) < Cardinality(1 .. C)
    BY <1>1, <2>1, <2>2
  <2> DEFINE D == 1 .. C
             O == subs \ {s}
  <2>5. IsFiniteSet(D) /\ IsFiniteSet(O) /\ Cardinality(O) < Cardinality(D) /\ order \in [D -> O]
    BY <2>1, <2>2, <2>3, <2>4
  <2> HIDE DEF D, O
  <2>6. PICK f \in [D -> O] : f = order
    BY <2>5
  <2>7. \E x, y \in D : x # y /\ f[x] = f[y]
    BY <2>5, FS_PigeonHole
  <2> USE DEF D
  <2> QED BY <1>7, <2>6, <2>7
<1> DEFINE ds == [i \in 1 .. C |-> Response(order[i].conn, "delta", order[i].id, change)]
<1>9. Deltas(subs, change) = ds
  BY <1>6, <1>7
<1>10. \A i \in 1 .. C :
         /\ ds[i] = Response(order[i].conn, "delta", order[i].id, change)
         /\ ds[i] \in Responses /\ ds[i].what = "delta" /\ DeltaFor(order[i], ds[i])
  BY <1>2, <1>7 DEF Response, Responses, DeltaFor
<1>11. ds \in Seq(Responses) /\ Len(ds) = C
  <2>1. ds \in [1 .. C -> Responses]
    <3>1. ds = [i \in 1 .. C |-> ds[i]]
      OBVIOUS
    <3> HIDE DEF ds
    <3> QED BY <1>10, <3>1
  <2> HIDE DEF ds
  <2> QED BY <1>1, <2>1, SeqDef
<1> HIDE DEF ds
<1>12. \A s \in subs : \E i \in 1 .. Len(ds) : DeltaFor(s, ds[i])
  BY <1>8, <1>10, <1>11
<1>13. \A i \in 1 .. Len(ds) : ds[i].what = "delta" /\ \E s \in subs : DeltaFor(s, ds[i])
  BY <1>7, <1>10, <1>11
<1> QED BY <1>9, <1>11, <1>12, <1>13

\* A cothread leaves the first of its responses, at least one, for tornado's thread
\* and is done or kept waiting with the rest.
Leaves(others, responses, first, rest) ==
  /\ first \in Seq(Responses) /\ rest \in Seq(Responses) /\ responses = first \o rest
  /\ responses # << >> => first # << >>
  /\ outbox' = outbox \o first
  /\ \/ rest = << >> /\ blocked' = others
     \/ \E b \in Kept : b.rest = rest /\ blocked' = Append(others, b)

LEMMA RespondLeaves ==
  ASSUME Types, NEW others \in Seq(Kept), NEW responses \in Seq(Responses),
         Respond(others, responses)
  PROVE  /\ \E first, rest : Leaves(others, responses, first, rest)
         /\ count' \in [Conns -> 0 .. Batch - 1]
<1> DEFINE Of(c, n) == Cardinality({i \in 1 .. n : responses[i].conn = c})
           Waits == {i \in DOMAIN responses :
                       (count[responses[i].conn] + Of(responses[i].conn, i)) % Batch = 0}
           last == IF Waits = {} THEN Len(responses)
                   ELSE CHOOSE i \in Waits : \A j \in Waits : i <= j
<1>1. /\ outbox' = outbox \o SubSeq(responses, 1, last)
      /\ count' = [c \in Conns |-> (count[c] + Of(c, last)) % Batch]
      /\ blocked' = IF Waits = {} THEN others
                    ELSE Append(others, [conn |-> responses[last].conn, need |-> Batch,
                           rest |-> SubSeq(responses, last + 1, Len(responses))])
  BY DEF Respond
<1>2. Len(responses) \in Nat /\ Waits \in SUBSET (1 .. Len(responses))
  OBVIOUS
<1>3. Waits # {} => last \in Waits
  <2> SUFFICES ASSUME Waits # {} PROVE last \in Waits
    OBVIOUS
  <2>1. Waits \in SUBSET Nat
    BY <1>2
  <2>2. \E x \in Waits : \A y \in Waits : x <= y
    <3> HIDE DEF Waits
    <3> QED BY <2>1, LeastOf
  <2> HIDE DEF Waits
  <2> QED BY <2>2
<1>4. last \in 0 .. Len(responses) /\ (Waits # {} => last \in 1 .. Len(responses))
      /\ (Waits = {} => last = Len(responses))
  <2>1. Waits = {} => last = Len(responses)
    OBVIOUS
  <2> HIDE DEF Waits, last
  <2>2. Waits # {} => last \in 1 .. Len(responses)
    BY <1>2, <1>3
  <2>3. Waits = {} \/ Waits # {}
    OBVIOUS
  <2>4. Len(responses) \in Nat
    BY <1>2
  <2> QED BY <2>1, <2>2, <2>3, <2>4
<1>5. count' \in [Conns -> 0 .. Batch - 1]
  <2>1. \A c \in Conns : Of(c, last) \in Nat
    <3> SUFFICES ASSUME NEW c \in Conns PROVE Of(c, last) \in Nat
      OBVIOUS
    <3> HIDE DEF last, Waits
    <3>1. IsFiniteSet(1 .. last)
      BY <1>2, <1>4, FS_Interval
    <3> DEFINE S == {i \in 1 .. last : responses[i].conn = c}
    <3>2. S \subseteq 1 .. last
      OBVIOUS
    <3> HIDE DEF S
    <3>3. IsFiniteSet(S)
      BY <3>1, <3>2, FS_Subset
    <3>4. Cardinality(S) \in Nat
      BY <3>3, FS_CardinalityType
    <3> QED BY <3>4 DEF S
  <2>2. \A c \in Conns : count[c] \in Nat
    BY HandlerAssumption DEF Types, TypeOK
  <2> HIDE DEF last, Waits, Of
  <2>3. \A c \in Conns : (count[c] + Of(c, last)) % Batch \in 0 .. Batch - 1
    BY <2>1, <2>2, HandlerAssumption
  <2> QED BY <1>1, <2>3
<1> DEFINE first == SubSeq(responses, 1, last)
           rest == SubSeq(responses, last + 1, Len(responses))
<1> HIDE DEF last, Waits
<1>6. /\ first \in Seq(Responses) /\ Len(first) = last
      /\ rest \in Seq(Responses) /\ Len(rest) = Len(responses) - last
      /\ \A i \in 1 .. last : first[i] = responses[i]
      /\ \A i \in 1 .. Len(responses) - last : rest[i] = responses[last + i]
  BY <1>2, <1>4
<1>7. responses = first \o rest
  <2>1. \A m \in 1 .. Len(responses) + 1 : \A k \in m - 1 .. Len(responses) : \A n \in k .. Len(responses) :
          SubSeq(responses, m, k) \o SubSeq(responses, k + 1, n) = SubSeq(responses, m, n)
    BY ConcatAdjacentSubSeq
  <2>2. 1 \in 1 .. Len(responses) + 1 /\ last \in 1 - 1 .. Len(responses)
        /\ Len(responses) \in last .. Len(responses)
    BY <1>2, <1>4
  <2>3. SubSeq(responses, 1, last) \o SubSeq(responses, last + 1, Len(responses))
          = SubSeq(responses, 1, Len(responses))
    BY <2>1, <2>2
  <2> QED BY <2>3, SubSeqFull
<1>8. responses # << >> => first # << >>
  <2> SUFFICES ASSUME responses # << >> PROVE Len(first) # 0
    BY EmptySeq
  <2>1. Len(responses) # 0
    BY EmptySeq
  <2> HIDE DEF first
  <2> QED BY <1>2, <1>4, <1>6, <2>1
<1>9. Waits = {} => rest = << >>
  <2> SUFFICES ASSUME Waits = {} PROVE rest = << >>
    OBVIOUS
  <2>1. Len(rest) = 0
    <3> HIDE DEF rest
    <3> QED BY <1>2, <1>4, <1>6
  <2> HIDE DEF rest
  <2> QED BY <1>6, <2>1, EmptySeq
<1>10. Waits # {} => \E b \in Kept : b.rest = rest /\ blocked' = Append(others, b)
  <2> SUFFICES ASSUME Waits # {} PROVE \E b \in Kept : b.rest = rest /\ blocked' = Append(others, b)
    OBVIOUS
  <2> DEFINE b == [conn |-> responses[last].conn, need |-> Batch, rest |-> rest]
  <2>1. blocked' = Append(others, b)
    BY <1>1
  <2>2. responses[last] \in Responses
    BY <1>4
  <2> HIDE DEF rest
  <2>3. b \in Kept /\ b.rest = rest
    BY <1>6, <2>2, HandlerAssumption DEF Kept, Responses
  <2> HIDE DEF b
  <2> QED BY <2>1, <2>3
<1>11. Leaves(others, responses, first, rest)
  <2>1. outbox' = outbox \o first
    BY <1>1
  <2>2. Waits = {} => blocked' = others
    BY <1>1
  <2> HIDE DEF first, rest
  <2> QED BY <1>6, <1>7, <1>8, <1>9, <1>10, <2>1, <2>2 DEF Leaves
<1> HIDE DEF first, rest
<1> QED BY <1>5, <1>11


LEMMA LeavesTypes ==
  ASSUME Types, NEW others \in Seq(Kept), NEW responses, NEW first, NEW rest,
         Leaves(others, responses, first, rest)
  PROVE  outbox' \in Seq(Responses) /\ blocked' \in Seq(Kept)
<1>1. outbox \in Seq(Responses) /\ first \in Seq(Responses) /\ outbox' = outbox \o first
  BY DEF Leaves, Types
<1>2. outbox' \in Seq(Responses)
  BY <1>1
<1>3. CASE blocked' = others
  BY <1>2, <1>3
<1>4. ASSUME NEW b \in Kept, blocked' = Append(others, b) PROVE blocked' \in Seq(Kept)
  BY <1>4
<1> QED BY <1>2, <1>3, <1>4 DEF Leaves

\* Some of these responses is a Delta for the subscription s.
Has(s, responses) == \E i \in 1 .. Len(responses) : DeltaFor(s, responses[i])

\* A Delta for it is on its way.
Due(s) == Has(s, outbox) \/ \E i \in 1 .. Len(blocked) : Has(s, blocked[i].rest)

LEMMA HasBoth ==
  ASSUME NEW S, NEW a \in Seq(S), NEW b \in Seq(S), NEW s
  PROVE  Has(s, a \o b) <=> Has(s, a) \/ Has(s, b)
<1>1. /\ Len(a) \in Nat /\ Len(b) \in Nat /\ Len(a \o b) = Len(a) + Len(b)
      /\ \A n \in 1 .. Len(a) : (a \o b)[n] = a[n]
      /\ \A n \in 1 .. Len(b) : (a \o b)[n + Len(a)] = b[n]
  OBVIOUS
<1>2. ASSUME Has(s, a) PROVE Has(s, a \o b)
  BY <1>1, <1>2 DEF Has
<1>3. ASSUME Has(s, b) PROVE Has(s, a \o b)
  <2>1. PICK n \in 1 .. Len(b) : DeltaFor(s, b[n])
    BY <1>3 DEF Has
  <2>2. n + Len(a) \in 1 .. Len(a \o b)
    BY <1>1
  <2> QED BY <1>1, <2>1, <2>2 DEF Has
<1>4. ASSUME Has(s, a \o b) PROVE Has(s, a) \/ Has(s, b)
  <2>1. PICK n \in 1 .. Len(a) + Len(b) : DeltaFor(s, (a \o b)[n])
    BY <1>1, <1>4 DEF Has
  <2>2. CASE n \in 1 .. Len(a)
    BY <1>1, <2>1, <2>2 DEF Has
  <2>3. CASE n \notin 1 .. Len(a)
    <3>1. n - Len(a) \in 1 .. Len(b) /\ (n - Len(a)) + Len(a) = n
      BY <1>1, <2>3
    <3>2. (a \o b)[n] = b[n - Len(a)]
      BY <1>1, <3>1
    <3> QED BY <2>1, <3>1, <3>2 DEF Has
  <2> QED BY <2>2, <2>3
<1> QED BY <1>2, <1>3, <1>4

\* What was on its way is, and so is what a cothread responds.
LEMMA StillDue ==
  ASSUME Types, NEW others \in Seq(Kept), NEW responses, NEW first, NEW rest,
         Leaves(others, responses, first, rest), NEW s,
         \/ Has(s, outbox) \/ Has(s, responses)
         \/ \E i \in 1 .. Len(others) : Has(s, others[i].rest)
  PROVE  Due(s)'
<1>1. /\ outbox \in Seq(Responses) /\ first \in Seq(Responses) /\ rest \in Seq(Responses)
      /\ outbox' = outbox \o first /\ responses = first \o rest
  BY DEF Leaves, Types
<1>2. ASSUME Has(s, outbox) \/ Has(s, first) PROVE Due(s)'
  <2>1. Has(s, outbox \o first)
    BY <1>1, <1>2, HasBoth
  <2>2. Has(s, outbox)'
    BY <1>1, <2>1 DEF Has
  <2> QED BY <2>2 DEF Due
<1>3. ASSUME NEW i \in 1 .. Len(others), Has(s, others[i].rest) PROVE Due(s)'
  <2>1. CASE blocked' = others
    BY <1>3, <2>1 DEF Due, Has
  <2>2. ASSUME NEW b \in Kept, blocked' = Append(others, b) PROVE Due(s)'
    <3>1. i \in 1 .. Len(blocked') /\ blocked'[i] = others[i]
      BY <2>2
    <3> QED BY <1>3, <3>1 DEF Due, Has
  <2> QED BY <2>1, <2>2 DEF Leaves
<1>4. ASSUME Has(s, rest) PROVE Due(s)'
  <2>1. rest # << >>
    BY <1>4 DEF Has
  <2>2. PICK b \in Kept : b.rest = rest /\ blocked' = Append(others, b)
    BY <2>1 DEF Leaves
  <2>3. Len(others) + 1 \in 1 .. Len(blocked') /\ blocked'[Len(others) + 1] = b
    BY <2>2
  <2> QED BY <1>4, <2>2, <2>3 DEF Due, Has
<1>5. Has(s, responses) => Has(s, first) \/ Has(s, rest)
  BY <1>1, HasBoth
<1> QED BY <1>2, <1>3, <1>4, <1>5

LEMMA ChangedTypes ==
  ASSUME Types, NEW f \in Fields, NEW depth \in {"field", "value"}, NEW data,
         data = changes + 1 \/ (data = None /\ f \notin Own)
  PROVE  /\ Change(depth, f, data) \in Changing
         /\ \E fs \in SUBSET Fields :
              Own \subseteq fs /\ Changed(remote, Change(depth, f, data)) \in [fs -> 0 .. changes + 1]
<1> DEFINE change == Change(depth, f, data)
<1>1. change.depth # "block" /\ change.field = f /\ change.data = data
  BY DEF Change
<1>2. changes \in Nat /\ None \notin Nat
  BY BlockAssumption DEF Types
<1>3. PICK fs \in SUBSET Fields : Own \subseteq fs /\ remote \in [fs -> 0 .. changes]
  BY DEF Types, TypeOK
<1>4. change \in Changing
  BY <1>2 DEF Change, Changing
<1> HIDE DEF change
<1>5. CASE data = None /\ f \notin Own
  <2>1. Changed(remote, change) = [x \in fs \ {f} |-> remote[x]]
    BY <1>1, <1>3, <1>5 DEF Changed, Restrict
  <2>2. Changed(remote, change) \in [fs \ {f} -> 0 .. changes + 1]
    BY <1>2, <1>3, <2>1
  <2>3. fs \ {f} \in SUBSET Fields /\ Own \subseteq fs \ {f}
    BY <1>3, <1>5
  <2> QED BY <1>4, <2>2, <2>3 DEF change
<1>6. CASE data = changes + 1
  <2>1. data # None /\ data \in 0 .. changes + 1
    BY <1>2, <1>6
  <2>2. Changed(remote, change) = [x \in fs \cup {f} |-> IF x = f THEN data ELSE remote[x]]
    BY <1>1, <1>3, <2>1 DEF Changed
  <2>3. Changed(remote, change) \in [fs \cup {f} -> 0 .. changes + 1]
    BY <1>2, <1>3, <2>1, <2>2
  <2>4. fs \cup {f} \in SUBSET Fields /\ Own \subseteq fs \cup {f}
    BY <1>3
  <2> QED BY <1>4, <2>3, <2>4 DEF change
<1> QED BY <1>5, <1>6

\* What may happen to the block by itself
LEMMA HappeningsTypes ==
  ASSUME Types, NEW change \in Happenings(remote, changes + 1)
  PROVE  /\ change \in Changing
         /\ \E fs \in SUBSET Fields :
              Own \subseteq fs /\ Changed(remote, change) \in [fs -> 0 .. changes + 1]
<1>1. DOMAIN remote \subseteq Fields
  BY DEF Types, TypeOK
<1>2. \E f \in Fields, depth \in {"field", "value"}, data \in {changes + 1, None} :
         /\ change = Change(depth, f, data)
         /\ data = changes + 1 \/ (data = None /\ f \notin Own)
  BY <1>1 DEF Happenings
<1> QED BY <1>2, ChangedTypes


--------------------------------------------------------------------------------
(***************************************************************************)
(* Handlers whose client has gone                                          *)
(***************************************************************************)
\* Its handler has asked for it to be ended.
Leaving(s) ==
  \E i \in 1 .. Len(up[s.conn]) :
    up[s.conn][i].what = "unsubscribe" /\ up[s.conn][i].id = s.id

\* A handler may end its subscriptions until it has asked for it.
Handled == \A s \in subs : s.id \in handles[s.conn] \/ Leaving(s)

\* The client of a subscription has gone since the last change, or a Delta that
\* cannot be written will end it.
DeadAreTold ==
  \A s \in subs : link[s.conn] = "closed" =>
    closedAt[s.conn] = changes \/ Leaving(s) \/ Due(s)

IInv == Types /\ Handled /\ DeadAreTold

LEMMA SubsAre ==
  ASSUME Types
  PROVE  \A s \in subs : s.conn \in Conns /\ s.id \in 1 .. requests /\ s.of = "block"
BY DEF Types, Subscriptions

LEMMA KeptAre ==
  ASSUME NEW some \in Seq(Kept)
  PROVE  \A i \in DOMAIN some :
           /\ some[i].conn \in Conns /\ some[i].need \in 1 .. Batch /\ some[i].rest \in Seq(Responses)
<1> SUFFICES ASSUME NEW i \in DOMAIN some
             PROVE  /\ some[i].conn \in Conns /\ some[i].need \in 1 .. Batch
                    /\ some[i].rest \in Seq(Responses)
  OBVIOUS
<1>1. some[i] \in Kept
  OBVIOUS
<1> QED BY <1>1 DEF Kept

LEMMA InitKeeps == Init => IInv
<1> SUFFICES ASSUME Init PROVE IInv
  OBVIOUS
<1>1. Types
  <2>1. remote \in [Own -> 0 .. changes] /\ Own \in SUBSET Fields
    BY BlockAssumption DEF Init
  <2>2. TypeOK
    <3>1. link \in [Conns -> {"new", "open", "closed"}] /\ handles \in [Conns -> SUBSET (1 .. MaxRequests)]
      BY DEF Init
    <3>2. count \in [Conns -> 0 .. Batch - 1] /\ acks \in [Conns -> Nat]
      BY HandlerAssumption DEF Init
    <3>3. closedAt \in [Conns -> 0 .. changes]
      BY DEF Init
    <3>4. \A i \in DOMAIN blocked : blocked[i].conn \in Conns /\ blocked[i].need \in 1 .. Batch
      BY DEF Init
    <3>5. \A s \in subs : s.conn \in Conns /\ s.id \in 1 .. requests
      BY DEF Init
    <3> QED BY <2>1, <3>1, <3>2, <3>3, <3>4, <3>5 DEF TypeOK
  <2>3. << >> \in Seq(Asking(requests)) /\ << >> \in Seq(Responses) /\ << >> \in Seq(Kept)
    BY EmptySeq
  <2>4. up \in [Conns -> Seq(Asking(requests))] /\ down \in [Conns -> Seq(Responses)]
    BY <2>3 DEF Init
  <2>5. subs = {} /\ IsFiniteSet(subs)
    BY FS_EmptySet DEF Init
  <2>6. requests = 0 /\ changes = 0 /\ outbox = << >> /\ blocked = << >>
    BY DEF Init
  <2>7. handles \in [Conns -> SUBSET (1 .. requests)]
    BY DEF Init
  <2> QED BY <2>2, <2>3, <2>4, <2>5, <2>6, <2>7, HandlerAssumption DEF Types
<1>2. subs = {}
  BY DEF Init
<1> QED BY <1>1, <1>2 DEF IInv, Handled, DeadAreTold

\* A change of the block, with what else the cothread responds after its Deltas
LEMMA ChangeKeeps ==
  ASSUME Types, NEW change \in Changing, NEW more \in Seq(Responses),
         Respond(blocked, Deltas(subs, change) \o more)
  PROVE  /\ outbox' \in Seq(Responses) /\ blocked' \in Seq(Kept)
         /\ count' \in [Conns -> 0 .. Batch - 1]
         /\ \A s \in subs : Due(s)'
<1> DEFINE ds == Deltas(subs, change)
<1>1. ds \in Seq(Responses) /\ \A s \in subs : \E i \in 1 .. Len(ds) : DeltaFor(s, ds[i])
  BY DeltasTell
<1>2. \A s \in subs : Has(s, ds)
  BY <1>1 DEF Has
<1> HIDE DEF ds
<1>3. ds \o more \in Seq(Responses) /\ blocked \in Seq(Kept)
  BY <1>1 DEF Types
<1>4. PICK first, rest : Leaves(blocked, ds \o more, first, rest)
  BY <1>3, RespondLeaves DEF ds
<1>5. count' \in [Conns -> 0 .. Batch - 1]
  BY <1>3, RespondLeaves DEF ds
<1>6. \A s \in subs : Has(s, ds \o more)
  BY <1>1, <1>2, HasBoth
<1>7. \A s \in subs : Due(s)'
  BY <1>3, <1>4, <1>6, StillDue
<1>8. outbox' \in Seq(Responses) /\ blocked' \in Seq(Kept)
  BY <1>3, <1>4, LeavesTypes
<1> QED BY <1>5, <1>7, <1>8

LEMMA BlockChangesKeeps ==
  ASSUME IInv, BlockChanges
  PROVE  IInv'
<1>0. Types /\ Handled /\ changes \in Nat
  BY DEF IInv, Types
<1>1. PICK change \in Happenings(remote, changes + 1) :
        remote' = Changed(remote, change) /\ Respond(blocked, Deltas(subs, change))
  BY DEF BlockChanges
<1>2. /\ changes' = changes + 1
      /\ UNCHANGED <<link, up, down, handles, acks, subs, closedAt, requests>>
  BY DEF BlockChanges
<1>3. change \in Changing /\ \E fs \in SUBSET Fields :
        Own \subseteq fs /\ remote' \in [fs -> 0 .. changes']
  BY <1>0, <1>1, <1>2, HappeningsTypes
<1>4. /\ outbox' \in Seq(Responses) /\ blocked' \in Seq(Kept)
      /\ count' \in [Conns -> 0 .. Batch - 1]
      /\ \A s \in subs : Due(s)'
  <2>1. Deltas(subs, change) \in Seq(Responses) /\ << >> \in Seq(Responses)
    BY <1>0, <1>3, DeltasTell, EmptySeq
  <2>2. Respond(blocked, Deltas(subs, change) \o << >>)
    BY <1>1, <2>1, ConcatEmptySeq
  <2> QED BY <1>0, <1>3, <2>1, <2>2, ChangeKeeps
<1>5. Types'
  <2>1. closedAt' \in [Conns -> 0 .. changes']
    BY <1>0, <1>2 DEF Types, TypeOK
  <2>2. \A i \in DOMAIN blocked' : blocked'[i].conn \in Conns /\ blocked'[i].need \in 1 .. Batch
    BY <1>4, KeptAre
  <2>3. TypeOK'
    BY <1>0, <1>2, <1>3, <1>4, <2>1, <2>2 DEF Types, TypeOK
  <2> QED BY <1>0, <1>2, <1>4, <2>3 DEF Types
<1>6. Handled'
  BY <1>0, <1>2 DEF Handled, Leaving
<1>7. DeadAreTold'
  BY <1>2, <1>4 DEF DeadAreTold
<1> QED BY <1>5, <1>6, <1>7 DEF IInv


\* The request that is handled is taken from the queue.
LEMMA QueueMoves ==
  ASSUME Types, NEW c \in Conns, up[c] # << >>, up' = [up EXCEPT ![c] = Tail(@)]
  PROVE  /\ Head(up[c]) \in Asking(requests)
         /\ up' \in [Conns -> Seq(Asking(requests))]
         /\ \A s \in subs : Leaving(s) =>
              \/ Leaving(s)'
              \/ s.conn = c /\ Head(up[c]).what = "unsubscribe" /\ Head(up[c]).id = s.id
<1>1. up \in [Conns -> Seq(Asking(requests))] /\ up[c] \in Seq(Asking(requests))
  BY DEF Types
<1>2. /\ Head(up[c]) \in Asking(requests) /\ Tail(up[c]) \in Seq(Asking(requests))
      /\ Head(up[c]) = up[c][1] /\ Len(up[c]) \in Nat
      /\ Len(Tail(up[c])) = Len(up[c]) - 1
      /\ \A i \in 1 .. Len(up[c]) - 1 : Tail(up[c])[i] = up[c][i + 1]
  BY <1>1, HeadTailProperties
<1>3. up' \in [Conns -> Seq(Asking(requests))] /\ up'[c] = Tail(up[c])
      /\ \A d \in Conns : d # c => up'[d] = up[d]
  BY <1>1, <1>2
<1>4. ASSUME NEW s \in subs, Leaving(s)
      PROVE  \/ Leaving(s)'
             \/ s.conn = c /\ Head(up[c]).what = "unsubscribe" /\ Head(up[c]).id = s.id
  <2>1. s.conn \in Conns
    BY SubsAre
  <2>2. CASE s.conn # c
    BY <1>3, <1>4, <2>1, <2>2 DEF Leaving
  <2>3. CASE s.conn = c
    <3>1. PICK i \in 1 .. Len(up[c]) : up[c][i].what = "unsubscribe" /\ up[c][i].id = s.id
      BY <1>4, <2>3 DEF Leaving
    <3>2. CASE i = 1
      BY <1>2, <2>3, <3>1, <3>2
    <3>3. CASE i # 1
      <4>1. i - 1 \in 1 .. Len(Tail(up[c])) /\ Tail(up[c])[i - 1] = up[c][i]
        BY <1>2, <3>3
      <4>2. i - 1 \in 1 .. Len(up'[s.conn]) /\ up'[s.conn][i - 1] = up[c][i]
        BY <1>3, <2>3, <4>1
      <4>3. up'[s.conn][i - 1].what = "unsubscribe" /\ up'[s.conn][i - 1].id = s.id
        BY <3>1, <4>2
      <4>4. Leaving(s)'
        BY <4>2, <4>3 DEF Leaving
      <4> QED BY <4>4
    <3> QED BY <3>2, <3>3
  <2> QED BY <2>2, <2>3
<1> QED BY <1>2, <1>3, <1>4

\* What a cothread responds changes nothing else: others are those kept waiting.
LEMMA ResponseKeeps ==
  ASSUME Types, NEW others \in Seq(Kept), NEW responses \in Seq(Responses),
         Respond(others, responses)
  PROVE  /\ outbox' \in Seq(Responses) /\ blocked' \in Seq(Kept)
         /\ count' \in [Conns -> 0 .. Batch - 1]
         /\ \A s : \/ Has(s, outbox) \/ Has(s, responses)
                   \/ \E i \in 1 .. Len(others) : Has(s, others[i].rest)
                   => Due(s)'
<1>1. PICK first, rest : Leaves(others, responses, first, rest)
  BY RespondLeaves
<1>2. count' \in [Conns -> 0 .. Batch - 1]
  BY RespondLeaves
<1>3. outbox' \in Seq(Responses) /\ blocked' \in Seq(Kept)
  BY <1>1, LeavesTypes
<1>4. \A s : \/ Has(s, outbox) \/ Has(s, responses)
             \/ \E i \in 1 .. Len(others) : Has(s, others[i].rest)
             => Due(s)'
  BY <1>1, StillDue
<1> QED BY <1>2, <1>3, <1>4

TakesRequest(c) ==
  /\ up[c] # << >>
  /\ up' = [up EXCEPT ![c] = Tail(@)]
  /\ UNCHANGED <<link, down, acks, closedAt, requests>>

LEMMA SubscribeKeeps ==
  ASSUME IInv, NEW c \in Conns, TakesRequest(c), NEW r, r = Head(up[c]), Subscribe(c, r)
  PROVE  IInv'
<1>0. Types /\ Handled /\ DeadAreTold /\ changes \in Nat
  BY DEF IInv, Types
<1>1. /\ up[c] # << >> /\ up' = [up EXCEPT ![c] = Tail(@)]
      /\ UNCHANGED <<link, down, acks, closedAt, requests>>
  BY DEF TakesRequest
<1>2. /\ r.what = "block"
      /\ handles' = [handles EXCEPT ![c] = @ \cup {r.id}]
      /\ subs' = subs \cup {Subscription(c, r.id, "block")}
      /\ Respond(blocked, <<Response(c, "delta", r.id, Change("block", None, remote))>>)
      /\ UNCHANGED <<remote, changes>>
  BY DEF Subscribe
<1>3. /\ r \in Asking(requests)
      /\ up' \in [Conns -> Seq(Asking(requests))]
      /\ \A s \in subs : Leaving(s) => Leaving(s)'
  BY <1>0, <1>1, <1>2, QueueMoves
<1>4. r.id \in 1 .. requests /\ requests \in 0 .. MaxRequests /\ r.id \in 1 .. MaxRequests /\ r.id \in Nat
  BY <1>0, <1>3, HandlerAssumption DEF Asking, Types
<1> DEFINE sub == Subscription(c, r.id, "block")
           delta == Response(c, "delta", r.id, Change("block", None, remote))
<1>5. delta \in Responses /\ DeltaFor(sub, delta)
  <2>1. remote \in Blocks
    BY <1>0 DEF Types, TypeOK, Blocks
  <2>2. Change("block", None, remote) \in Changing
    BY <2>1 DEF Change, Changing
  <2> QED BY <1>4, <2>2 DEF Response, Responses, DeltaFor, Subscription
<1>6. sub \in Subscriptions(requests) /\ sub.conn = c /\ sub.id = r.id
  BY <1>4 DEF Subscription, Subscriptions
<1> HIDE DEF sub, delta
<1>7. <<delta>> \in Seq(Responses) /\ blocked \in Seq(Kept) /\ Has(sub, <<delta>>)
  <2>1. Len(<<delta>>) = 1 /\ <<delta>>[1] = delta /\ 1 \in 1 .. 1
    OBVIOUS
  <2> QED BY <1>0, <1>5, <2>1 DEF Has, Types
<1>8. Respond(blocked, <<delta>>)
  BY <1>2 DEF delta
<1>9. /\ outbox' \in Seq(Responses) /\ blocked' \in Seq(Kept)
      /\ count' \in [Conns -> 0 .. Batch - 1]
      /\ Due(sub)' /\ \A s : Due(s) => Due(s)'
  BY <1>0, <1>7, <1>8, ResponseKeeps DEF Due
<1>10. subs' = subs \cup {sub}
  BY <1>2 DEF sub
<1>11. Types'
  <2>0. handles' \in [Conns -> SUBSET (1 .. requests)]
    BY <1>0, <1>2, <1>4 DEF Types
  <2>1. handles' \in [Conns -> SUBSET (1 .. MaxRequests)]
    BY <1>0, <1>2, <1>4 DEF Types, TypeOK
  <2>2. \A i \in DOMAIN blocked' : blocked'[i].conn \in Conns /\ blocked'[i].need \in 1 .. Batch
    BY <1>9, KeptAre
  <2>3. \A s \in subs' : s.conn \in Conns /\ s.id \in 1 .. requests
    BY <1>0, <1>4, <1>6, <1>10, SubsAre
  <2>4. TypeOK'
    BY <1>0, <1>1, <1>2, <1>9, <2>1, <2>2, <2>3 DEF Types, TypeOK
  <2>5. subs' \subseteq Subscriptions(requests) /\ IsFiniteSet(subs')
    BY <1>0, <1>6, <1>10, FS_AddElement DEF Types
  <2> QED BY <1>0, <1>1, <1>2, <1>3, <1>9, <2>0, <2>4, <2>5 DEF Types
<1>12. \A d \in Conns : handles[d] \subseteq handles'[d]
  BY <1>0, <1>2 DEF Types, TypeOK
<1>13. sub.id \in handles'[c]
  BY <1>0, <1>2, <1>6 DEF Types, TypeOK
<1>14. Handled'
  <2> SUFFICES ASSUME NEW s \in subs' PROVE s.id \in handles'[s.conn] \/ Leaving(s)'
    BY DEF Handled
  <2>1. CASE s = sub
    BY <1>6, <1>13, <2>1
  <2>2. CASE s \in subs
    BY <1>0, <1>3, <1>12, <2>2, SubsAre DEF Handled
  <2> QED BY <1>10, <2>1, <2>2
<1>15. DeadAreTold'
  <2> SUFFICES ASSUME NEW s \in subs', link'[s.conn] = "closed"
               PROVE  closedAt'[s.conn] = changes' \/ Leaving(s)' \/ Due(s)'
    BY DEF DeadAreTold
  <2>1. CASE s = sub
    BY <1>9, <2>1
  <2>2. CASE s \in subs
    BY <1>0, <1>1, <1>2, <1>3, <1>9, <2>2 DEF DeadAreTold
  <2> QED BY <1>10, <2>1, <2>2
<1> QED BY <1>11, <1>14, <1>15 DEF IInv


LEMMA PutKeeps ==
  ASSUME IInv, NEW c \in Conns, TakesRequest(c), NEW r, r = Head(up[c]), Put(c, r)
  PROVE  IInv'
<1>0. Types /\ Handled /\ changes \in Nat
  BY DEF IInv, Types
<1>1. /\ up[c] # << >> /\ up' = [up EXCEPT ![c] = Tail(@)]
      /\ UNCHANGED <<link, down, acks, closedAt, requests>>
  BY DEF TakesRequest
<1> DEFINE change == Change("value", r.field, changes + 1)
           return == Response(c, "return", r.id, r.by)
<1>2. /\ r.what = "put"
      /\ changes' = changes + 1
      /\ remote' = Changed(remote, change)
      /\ Respond(blocked, Append(Deltas(subs, change), return))
      /\ UNCHANGED <<handles, subs>>
  BY DEF Put, AnswerLast
<1>3. /\ r \in Asking(requests)
      /\ up' \in [Conns -> Seq(Asking(requests))]
      /\ \A s \in subs : Leaving(s) => Leaving(s)'
  BY <1>0, <1>1, <1>2, QueueMoves
<1>4. r.field \in Fields /\ r.id \in Nat /\ r.by \in Nat
  BY <1>2, <1>3 DEF Asking
<1>5. change \in Changing /\ \E fs \in SUBSET Fields :
        Own \subseteq fs /\ remote' \in [fs -> 0 .. changes']
  BY <1>0, <1>2, <1>4, ChangedTypes
<1>6. return \in Responses
  BY <1>4 DEF Response, Responses
<1> HIDE DEF change, return
<1>7. /\ outbox' \in Seq(Responses) /\ blocked' \in Seq(Kept)
      /\ count' \in [Conns -> 0 .. Batch - 1]
      /\ \A s \in subs : Due(s)'
  <2>1. Deltas(subs, change) \in Seq(Responses) /\ <<return>> \in Seq(Responses)
    BY <1>0, <1>5, <1>6, DeltasTell
  <2>2. Append(Deltas(subs, change), return) = Deltas(subs, change) \o <<return>>
    BY <1>6, <2>1, AppendIsConcat
  <2>3. Respond(blocked, Deltas(subs, change) \o <<return>>)
    BY <1>2, <2>2
  <2> QED BY <1>0, <1>5, <2>1, <2>3, ChangeKeeps
<1>8. Types'
  <2>1. closedAt' \in [Conns -> 0 .. changes']
    BY <1>0, <1>1, <1>2 DEF Types, TypeOK
  <2>2. \A i \in DOMAIN blocked' : blocked'[i].conn \in Conns /\ blocked'[i].need \in 1 .. Batch
    BY <1>7, KeptAre
  <2>3. TypeOK'
    BY <1>0, <1>1, <1>2, <1>5, <1>7, <2>1, <2>2 DEF Types, TypeOK
  <2> QED BY <1>0, <1>1, <1>2, <1>3, <1>7, <2>3 DEF Types
<1>9. Handled'
  BY <1>0, <1>2, <1>3 DEF Handled
<1>10. DeadAreTold'
  BY <1>2, <1>7 DEF DeadAreTold
<1> QED BY <1>8, <1>9, <1>10 DEF IInv

LEMMA UnsubscribeKeeps ==
  ASSUME IInv, NEW c \in Conns, TakesRequest(c), NEW r, r = Head(up[c]), Unsubscribe(c, r)
  PROVE  IInv'
<1>0. Types /\ Handled /\ DeadAreTold /\ changes \in Nat
  BY DEF IInv, Types
<1>1. /\ up[c] # << >> /\ up' = [up EXCEPT ![c] = Tail(@)]
      /\ UNCHANGED <<link, down, acks, closedAt, requests>>
  BY DEF TakesRequest
<1> DEFINE return == Response(c, "return", r.id, None)
<1>2. /\ subs' = {s \in subs : s.conn # c \/ s.id # r.id}
      /\ Respond(blocked, <<return>>)
      /\ UNCHANGED <<handles, remote, changes>>
  BY DEF Unsubscribe
<1>3. /\ r \in Asking(requests)
      /\ up' \in [Conns -> Seq(Asking(requests))]
      /\ \A s \in subs' : Leaving(s) => Leaving(s)'
  BY <1>0, <1>1, <1>2, QueueMoves
<1>4. return \in Responses
  BY <1>3 DEF Asking, Response, Responses
<1> HIDE DEF return
<1>5. <<return>> \in Seq(Responses) /\ blocked \in Seq(Kept)
  BY <1>0, <1>4 DEF Types
<1>6. /\ outbox' \in Seq(Responses) /\ blocked' \in Seq(Kept)
      /\ count' \in [Conns -> 0 .. Batch - 1]
      /\ \A s : Due(s) => Due(s)'
  BY <1>0, <1>2, <1>5, ResponseKeeps DEF Due
<1>7. Types'
  <2>1. \A i \in DOMAIN blocked' : blocked'[i].conn \in Conns /\ blocked'[i].need \in 1 .. Batch
    BY <1>6, KeptAre
  <2>2. subs' \subseteq subs
    BY <1>2
  <2>3. TypeOK'
    BY <1>0, <1>1, <1>2, <1>6, <2>1, <2>2 DEF Types, TypeOK
  <2>4. IsFiniteSet(subs') /\ subs' \subseteq Subscriptions(requests)
    BY <1>0, <2>2, FS_Subset DEF Types
  <2> QED BY <1>0, <1>1, <1>2, <1>3, <1>6, <2>3, <2>4 DEF Types
<1>8. subs' \subseteq subs
  BY <1>2
<1>9. Handled'
  BY <1>0, <1>2, <1>3, <1>8 DEF Handled
<1>10. DeadAreTold'
  BY <1>0, <1>1, <1>2, <1>3, <1>6, <1>8 DEF DeadAreTold
<1> QED BY <1>7, <1>9, <1>10 DEF IInv

LEMMA HandleRequestKeeps ==
  ASSUME IInv, NEW c \in Conns, HandleRequest(c)
  PROVE  IInv'
<1>1. TakesRequest(c)
  BY DEF HandleRequest, TakesRequest
<1>2. PICK r : r = Head(up[c]) /\ (Subscribe(c, r) \/ Put(c, r) \/ Unsubscribe(c, r))
  BY DEF HandleRequest
<1> QED BY <1>1, <1>2, SubscribeKeeps, PutKeeps, UnsubscribeKeeps

\* others are those kept waiting but for the one at k.
Without(others, seq, k) ==
  /\ others \in Seq(Kept)
  /\ \A i \in DOMAIN seq : i # k => \E j \in 1 .. Len(others) : others[j] = seq[i]
  /\ \A j \in 1 .. Len(others) :
       others[j] = IF j < k THEN seq[j] ELSE seq[j + 1]
  /\ Len(others) = Len(seq) - 1

LEMMA OthersStay ==
  ASSUME NEW seq \in Seq(Kept), NEW k \in DOMAIN seq
  PROVE  Without(RemoveAt(seq, k), seq, k)
<1>1. Len(seq) \in Nat /\ k \in 1 .. Len(seq) /\ DOMAIN seq = 1 .. Len(seq)
  OBVIOUS
<1>2. PICK a \in Seq(Kept), b \in Seq(Kept) :
        /\ RemoveAt(seq, k) = a \o b
        /\ Len(a) = k - 1 /\ \A i \in 1 .. k - 1 : a[i] = seq[i]
        /\ Len(b) = Len(seq) - k /\ \A i \in 1 .. Len(seq) - k : b[i] = seq[k + i]
  <2> DEFINE a == SubSeq(seq, 1, k - 1)
             b == SubSeq(seq, k + 1, Len(seq))
  <2>1. /\ a \in Seq(Kept) /\ Len(a) = k - 1 /\ \A i \in 1 .. k - 1 : a[i] = seq[i]
        /\ b \in Seq(Kept) /\ Len(b) = Len(seq) - k /\ \A i \in 1 .. Len(seq) - k : b[i] = seq[k + i]
    BY <1>1
  <2>2. RemoveAt(seq, k) = a \o b
    BY DEF RemoveAt
  <2> HIDE DEF a, b
  <2> QED BY <2>1, <2>2
<1>3. RemoveAt(seq, k) = a \o b
  BY <1>2
<1>4. /\ Len(a) = k - 1 /\ \A i \in 1 .. k - 1 : a[i] = seq[i]
      /\ Len(b) = Len(seq) - k /\ \A i \in 1 .. Len(seq) - k : b[i] = seq[k + i]
  BY <1>2
<1>5. /\ a \o b \in Seq(Kept) /\ Len(a \o b) = Len(a) + Len(b)
      /\ \A i \in 1 .. Len(a) : (a \o b)[i] = a[i]
      /\ \A i \in 1 .. Len(b) : (a \o b)[i + Len(a)] = b[i]
  OBVIOUS
<1>6. PICK ab \in Seq(Kept) :
        /\ ab = a \o b /\ Len(ab) = Len(a) + Len(b)
        /\ \A i \in 1 .. Len(a) : ab[i] = a[i]
        /\ \A i \in 1 .. Len(b) : ab[i + Len(a)] = b[i]
  BY <1>5
<1>7. Len(ab) = Len(seq) - 1
  BY <1>1, <1>4, <1>6
<1>8. ASSUME NEW i \in DOMAIN seq, i # k PROVE \E j \in 1 .. Len(ab) : ab[j] = seq[i]
  <2>1. CASE i < k
    <3>1. i \in 1 .. Len(a) /\ i \in 1 .. Len(ab)
      BY <1>1, <1>4, <1>7, <2>1
    <3>2. ab[i] = seq[i]
      BY <1>4, <1>6, <3>1
    <3> QED BY <3>1, <3>2
  <2>2. CASE i > k
    <3>1. i - k \in 1 .. Len(b) /\ (i - k) + Len(a) \in 1 .. Len(ab) /\ k + (i - k) = i
      BY <1>1, <1>4, <1>7, <2>2
    <3>0. PICK m \in 1 .. Len(b) : m = i - k
      BY <3>1
    <3>2. ab[(i - k) + Len(a)] = seq[i]
      <4>1. ab[m + Len(a)] = b[m]
        BY <1>6
      <4>2. b[m] = seq[k + m]
        BY <1>4
      <4> QED BY <3>0, <3>1, <4>1, <4>2
    <3> QED BY <3>1, <3>2
  <2> QED BY <1>1, <1>8, <2>1, <2>2
<1>9. ASSUME NEW j \in 1 .. Len(ab) PROVE ab[j] = IF j < k THEN seq[j] ELSE seq[j + 1]
  <2>1. CASE j < k
    <3>1. j \in 1 .. Len(a) /\ j \in DOMAIN seq /\ j # k
      BY <1>1, <1>4, <1>7, <2>1
    <3>2. ab[j] = seq[j]
      BY <1>4, <1>6, <3>1
    <3> QED BY <2>1, <3>2
  <2>2. CASE j >= k
    <3>1. /\ j - Len(a) \in 1 .. Len(b) /\ (j - Len(a)) + Len(a) = j
          /\ k + (j - Len(a)) = j + 1 /\ j + 1 \in DOMAIN seq /\ j + 1 # k
      BY <1>1, <1>4, <1>7, <2>2
    <3>0. PICK m \in 1 .. Len(b) : m = j - Len(a)
      BY <3>1
    <3>2. ab[j] = seq[j + 1]
      <4>1. ab[m + Len(a)] = b[m]
        BY <1>6
      <4>2. b[m] = seq[k + m]
        BY <1>4
      <4> QED BY <3>0, <3>1, <4>1, <4>2
    <3> QED BY <1>1, <2>2, <3>2
  <2> QED BY <1>1, <2>1, <2>2
<1>10. Without(ab, seq, k)
  BY <1>7, <1>8, <1>9 DEF Without
<1> QED BY <1>3, <1>6, <1>10


LEMMA TakeItemKeeps ==
  ASSUME IInv, TakeItem
  PROVE  IInv'
<1>0. Types /\ Handled /\ DeadAreTold /\ blocked \in Seq(Kept) /\ outbox \in Seq(Responses)
  BY DEF IInv, Types
<1>1. PICK i \in DOMAIN blocked :
        /\ acks[blocked[i].conn] > 0
        /\ acks' = [acks EXCEPT ![blocked[i].conn] = @ - 1]
        /\ IF HasAll(blocked[i])
             THEN Respond(RemoveAt(blocked, i), blocked[i].rest)
             ELSE /\ blocked' = [blocked EXCEPT ![i].need = @ - 1]
                  /\ UNCHANGED <<outbox, count>>
        /\ UNCHANGED <<link, up, down, handles, remote, subs, changes, closedAt, requests>>
  BY DEF TakeItem
<1>2. blocked[i] \in Kept /\ blocked[i].conn \in Conns /\ blocked[i].need \in 1 .. Batch
      /\ blocked[i].rest \in Seq(Responses)
  BY <1>0, KeptAre
<1>3. acks' \in [Conns -> Nat]
  <2> DEFINE c == blocked[i].conn
  <2>1. acks \in [Conns -> Nat] /\ c \in Conns /\ acks[c] > 0
    <3>1. acks \in [Conns -> Nat]
      BY <1>0 DEF Types, TypeOK
    <3> QED BY <1>1, <1>2, <3>1
  <2>2. acks' = [acks EXCEPT ![c] = acks[c] - 1]
    BY <1>1
  <2> HIDE DEF c
  <2> QED BY <2>1, <2>2
<1>4. /\ outbox' \in Seq(Responses) /\ blocked' \in Seq(Kept)
      /\ count' \in [Conns -> 0 .. Batch - 1]
      /\ \A s : Due(s) => Due(s)'
  <2>1. CASE HasAll(blocked[i])
    <3>1. Without(RemoveAt(blocked, i), blocked, i)
      BY <1>0, OthersStay
    <3>2. PICK others \in Seq(Kept) : others = RemoveAt(blocked, i)
      BY <3>1 DEF Without
    <3>3. PICK rest \in Seq(Responses) : rest = blocked[i].rest
      BY <1>2
    <3>4. Respond(others, rest)
      BY <1>1, <2>1, <3>2, <3>3
    <3>5. /\ outbox' \in Seq(Responses) /\ blocked' \in Seq(Kept)
          /\ count' \in [Conns -> 0 .. Batch - 1]
          /\ \A s : \/ Has(s, outbox) \/ Has(s, rest)
                    \/ \E j \in 1 .. Len(others) : Has(s, others[j].rest)
                    => Due(s)'
      BY <1>0, <3>4, ResponseKeeps
    <3>6. ASSUME NEW s, NEW j \in 1 .. Len(blocked), Has(s, blocked[j].rest) PROVE Due(s)'
      <4>1. CASE j = i
        BY <3>3, <3>5, <3>6, <4>1
      <4>2. CASE j # i
        <5>0. Without(others, blocked, i) /\ j \in DOMAIN blocked
          BY <1>0, <3>1, <3>2
        <5>1. PICK n \in 1 .. Len(others) : others[n] = blocked[j]
          BY <4>2, <5>0 DEF Without
        <5> QED BY <3>5, <3>6, <5>1
      <4> QED BY <4>1, <4>2
    <3> QED BY <3>5, <3>6 DEF Due
  <2>2. CASE ~HasAll(blocked[i])
    <3>1. blocked' = [blocked EXCEPT ![i].need = @ - 1] /\ UNCHANGED <<outbox, count>>
      BY <1>1, <2>2
    <3>2. blocked[i].need - 1 \in 1 .. Batch
      BY <1>2, <2>2, HandlerAssumption DEF HasAll
    <3> DEFINE b == [blocked[i] EXCEPT !.need = @ - 1]
    <3>3. b \in Kept /\ b.rest = blocked[i].rest
      BY <1>2, <3>2 DEF Kept
    <3>4. blocked' = [blocked EXCEPT ![i] = b]
      BY <3>1
    <3> HIDE DEF b
    <3>5. /\ blocked' \in Seq(Kept) /\ Len(blocked') = Len(blocked)
          /\ \A j \in 1 .. Len(blocked) : blocked'[j].rest = blocked[j].rest
      BY <1>0, <3>3, <3>4
    <3>6. count' \in [Conns -> 0 .. Batch - 1] /\ outbox' = outbox
      BY <1>0, <3>1 DEF Types, TypeOK
    <3>7. \A s : Due(s) => Due(s)'
      BY <3>5, <3>6 DEF Due, Has
    <3> QED BY <1>0, <3>5, <3>6, <3>7
  <2> QED BY <2>1, <2>2
<1>5. Types'
  <2>1. \A j \in DOMAIN blocked' : blocked'[j].conn \in Conns /\ blocked'[j].need \in 1 .. Batch
    BY <1>4, KeptAre
  <2>2. TypeOK'
    BY <1>0, <1>1, <1>3, <1>4, <2>1 DEF Types, TypeOK
  <2> QED BY <1>0, <1>1, <1>4, <2>2 DEF Types
<1>6. Handled'
  BY <1>0, <1>1 DEF Handled, Leaving
<1>7. \A s : Leaving(s) => Leaving(s)'
  BY <1>1 DEF Leaving
<1>8. DeadAreTold'
  BY <1>0, <1>1, <1>4, <1>7 DEF DeadAreTold
<1> QED BY <1>5, <1>6, <1>8 DEF IInv

\* A request at the end of a queue leaves the others where they are.
LEMMA QueueGrows ==
  ASSUME Types, NEW c \in Conns, NEW n \in Nat, requests <= n, NEW r \in Asking(n),
         up' = [up EXCEPT ![c] = Append(@, r)]
  PROVE  /\ up' \in [Conns -> Seq(Asking(n))]
         /\ \A s \in subs : Leaving(s) => Leaving(s)'
         /\ \A s \in subs : s.conn = c /\ r.what = "unsubscribe" /\ r.id = s.id => Leaving(s)'
<1>1. up \in [Conns -> Seq(Asking(requests))] /\ requests \in Nat
  BY HandlerAssumption DEF Types
<1>2. Asking(requests) \subseteq Asking(n)
  <2>1. 1 .. requests \subseteq 1 .. n
    BY <1>1
  <2> QED BY <2>1 DEF Asking
<1>3. \A d \in Conns : up[d] \in Seq(Asking(n))
  <2> SUFFICES ASSUME NEW d \in Conns PROVE up[d] \in Seq(Asking(n))
    OBVIOUS
  <2>1. up[d] \in Seq(Asking(requests))
    BY <1>1
  <2> QED BY <1>2, <2>1, SeqMonotonic
<1>4. /\ Append(up[c], r) \in Seq(Asking(n)) /\ Len(Append(up[c], r)) = Len(up[c]) + 1
      /\ Len(up[c]) \in Nat
      /\ \A i \in 1 .. Len(up[c]) : Append(up[c], r)[i] = up[c][i]
      /\ Append(up[c], r)[Len(up[c]) + 1] = r
  BY <1>3, AppendProperties, LenProperties
<1>5. up'[c] = Append(up[c], r) /\ \A d \in Conns : d # c => up'[d] = up[d]
  BY <1>1
<1>6. up' \in [Conns -> Seq(Asking(n))]
  <2>1. up \in [Conns -> Seq(Asking(n))]
    BY <1>1, <1>3
  <2> QED BY <1>4, <2>1
<1>7. ASSUME NEW s \in subs, Leaving(s) PROVE Leaving(s)'
  <2>1. s.conn \in Conns
    BY SubsAre
  <2>2. CASE s.conn # c
    BY <1>5, <1>7, <2>1, <2>2 DEF Leaving
  <2>3. CASE s.conn = c
    <3>1. PICK i \in 1 .. Len(up[c]) : up[c][i].what = "unsubscribe" /\ up[c][i].id = s.id
      BY <1>7, <2>3 DEF Leaving
    <3>2. i \in 1 .. Len(up'[c]) /\ up'[c][i] = up[c][i]
      BY <1>4, <1>5
    <3>3. \E j \in 1 .. Len(up'[s.conn]) : up'[s.conn][j].what = "unsubscribe" /\ up'[s.conn][j].id = s.id
      BY <2>3, <3>1, <3>2
    <3> QED BY <3>3 DEF Leaving
  <2> QED BY <2>2, <2>3
<1>8. ASSUME NEW s \in subs, s.conn = c, r.what = "unsubscribe", r.id = s.id PROVE Leaving(s)'
  <2>1. Len(up[c]) + 1 \in 1 .. Len(up'[c]) /\ up'[c][Len(up[c]) + 1] = r
    BY <1>4, <1>5
  <2>2. \E j \in 1 .. Len(up'[s.conn]) : up'[s.conn][j].what = "unsubscribe" /\ up'[s.conn][j].id = s.id
    BY <1>8, <2>1
  <2> QED BY <2>2 DEF Leaving
<1> QED BY <1>6, <1>7, <1>8


\* Tornado's thread writes a response, or drops it and ends its subscription.
LEMMA WriteResponseKeeps ==
  ASSUME IInv, WriteResponse
  PROVE  IInv'
<1>0. Types /\ Handled /\ DeadAreTold /\ outbox \in Seq(Responses) /\ outbox # << >>
  BY DEF IInv, Types, WriteResponse
<1>1. PICK r : r = Head(outbox)
  OBVIOUS
<1>2. /\ r \in Responses /\ r.conn \in Conns
      /\ outbox' = Tail(outbox) /\ outbox' \in Seq(Responses)
      /\ Len(outbox) \in Nat /\ Len(outbox') = Len(outbox) - 1 /\ r = outbox[1]
      /\ \A i \in 1 .. Len(outbox') : outbox'[i] = outbox[i + 1]
  <2>1. r \in Responses /\ outbox' = Tail(outbox) /\ outbox' \in Seq(Responses)
    BY <1>0, <1>1 DEF WriteResponse
  <2>2. /\ Len(outbox) \in Nat /\ Len(outbox') = Len(outbox) - 1 /\ r = outbox[1]
        /\ \A i \in 1 .. Len(outbox') : outbox'[i] = outbox[i + 1]
    BY <1>0, <1>1, <2>1
  <2> QED BY <2>1, <2>2 DEF Responses
<1>3. PICK c \in Conns : c = r.conn
  BY <1>2 DEF Responses
<1>4. /\ acks' = [acks EXCEPT ![c] = @ + 1]
      /\ UNCHANGED <<link, count, blocked, remote, subs, changes, closedAt, requests>>
  BY <1>1, <1>3 DEF WriteResponse, Ack
<1>5. \/ /\ link[c] = "open"
         /\ down' = [down EXCEPT ![c] = Append(@, r)]
         /\ UNCHANGED <<up, handles>>
      \/ /\ link[c] = "closed" /\ EndsSubscription(r)
         /\ handles' = [handles EXCEPT ![c] = @ \ {r.id}]
         /\ up' = [up EXCEPT ![c] = Append(@, [what |-> "unsubscribe", id |-> r.id])]
         /\ UNCHANGED down
      \/ /\ link[c] = "closed" /\ ~EndsSubscription(r)
         /\ UNCHANGED <<up, down, handles>>
  BY <1>1, <1>3 DEF WriteResponse
<1>6. acks' \in [Conns -> Nat]
  BY <1>0, <1>4 DEF Types, TypeOK
<1>7. /\ handles' \in [Conns -> SUBSET (1 .. requests)]
      /\ handles' \in [Conns -> SUBSET (1 .. MaxRequests)]
      /\ up' \in [Conns -> Seq(Asking(requests))]
      /\ down' \in [Conns -> Seq(Responses)]
      /\ \A s \in subs : Leaving(s) => Leaving(s)'
      /\ \A s \in subs : s.id \in handles[s.conn] => s.id \in handles'[s.conn] \/ Leaving(s)'
      /\ \A s \in subs : s.conn = c /\ s.id = r.id /\ EndsSubscription(r) /\ link[c] = "closed"
                           => Leaving(s)'
  <2>1. CASE link[c] = "closed" /\ EndsSubscription(r)
    <3>1. PICK ask : ask = [what |-> "unsubscribe", id |-> r.id]
      OBVIOUS
    <3>2. /\ handles' = [handles EXCEPT ![c] = @ \ {r.id}]
          /\ up' = [up EXCEPT ![c] = Append(@, ask)]
          /\ UNCHANGED down
      BY <1>5, <2>1, <3>1
    <3>3. r.id \in 1 .. requests /\ requests \in Nat
      BY <1>0, <1>3, <2>1 DEF EndsSubscription, Types
    <3>4. ask \in Asking(requests) /\ ask.what = "unsubscribe" /\ ask.id = r.id
      BY <3>1, <3>3 DEF Asking
    <3>5. /\ up' \in [Conns -> Seq(Asking(requests))]
          /\ \A s \in subs : Leaving(s) => Leaving(s)'
          /\ \A s \in subs : s.conn = c /\ s.id = r.id => Leaving(s)'
      <4>1. PICK n \in Nat : n = requests
        BY <3>3
      <4>2. ask \in Asking(n) /\ requests <= n
        BY <3>3, <3>4, <4>1
      <4>3. up' = [up EXCEPT ![c] = Append(@, ask)]
        BY <3>2
      <4>4. /\ up' \in [Conns -> Seq(Asking(n))]
            /\ \A s \in subs : Leaving(s) => Leaving(s)'
            /\ \A s \in subs : s.conn = c /\ ask.what = "unsubscribe" /\ ask.id = s.id => Leaving(s)'
        BY <1>0, <4>2, <4>3, QueueGrows
      <4> QED BY <3>4, <4>1, <4>4
    <3>6. handles' \in [Conns -> SUBSET (1 .. requests)] /\ handles' \in [Conns -> SUBSET (1 .. MaxRequests)]
      BY <1>0, <3>2 DEF Types, TypeOK
    <3>7. \A s \in subs : s.id \in handles[s.conn] => s.id \in handles'[s.conn] \/ Leaving(s)'
      <4>1. \A d \in Conns : handles'[d] = IF d = c THEN handles[d] \ {r.id} ELSE handles[d]
        BY <1>0, <3>2 DEF Types
      <4>2. \A s \in subs : s.conn \in Conns
        BY <1>0, SubsAre
      <4> QED BY <3>5, <4>1, <4>2
    <3> QED BY <1>0, <3>2, <3>5, <3>6, <3>7 DEF Types
  <2>2. CASE ~(link[c] = "closed" /\ EndsSubscription(r))
    <3>1. UNCHANGED <<up, handles>>
      BY <1>5, <2>2
    <3>2. down' \in [Conns -> Seq(Responses)]
      <4>1. Append(down[c], r) \in Seq(Responses)
        BY <1>0, <1>2 DEF Types
      <4> QED BY <1>0, <1>5, <4>1 DEF Types
    <3>3. \A s \in subs : Leaving(s) => Leaving(s)'
      BY <3>1 DEF Leaving
    <3> QED BY <1>0, <2>2, <3>1, <3>2, <3>3 DEF Types, TypeOK
  <2> QED BY <2>1, <2>2
<1>8. Types'
  <2>1. TypeOK'
    BY <1>0, <1>4, <1>6, <1>7 DEF Types, TypeOK
  <2> QED BY <1>0, <1>2, <1>4, <1>7, <2>1 DEF Types
<1>9. Handled'
  BY <1>0, <1>4, <1>7 DEF Handled
<1>10. ASSUME NEW s \in subs, link[s.conn] = "closed", Due(s) PROVE Leaving(s)' \/ Due(s)'
  <2>1. CASE DeltaFor(s, r)
    <3>1. s.conn = c /\ s.id = r.id /\ r.what = "delta"
      BY <1>3, <2>1 DEF DeltaFor
    <3>2. s.id \in handles[c] => EndsSubscription(r)
      BY <1>3, <3>1 DEF EndsSubscription
    <3> QED BY <1>0, <1>7, <1>10, <3>1, <3>2 DEF Handled
  <2>2. ASSUME Has(s, outbox), ~DeltaFor(s, r) PROVE Has(s, outbox)'
    <3>1. PICK i \in 1 .. Len(outbox) : DeltaFor(s, outbox[i])
      BY <2>2 DEF Has
    <3>2. i - 1 \in 1 .. Len(outbox') /\ outbox'[i - 1] = outbox[i]
      BY <1>2, <2>2, <3>1
    <3> QED BY <3>1, <3>2 DEF Has
  <2>3. ASSUME NEW i \in 1 .. Len(blocked), Has(s, blocked[i].rest) PROVE Due(s)'
    BY <1>4, <2>3 DEF Due, Has
  <2> QED BY <1>10, <2>1, <2>2, <2>3 DEF Due
<1>11. DeadAreTold'
  BY <1>0, <1>4, <1>7, <1>10 DEF DeadAreTold
<1> QED BY <1>8, <1>9, <1>11 DEF IInv

--------------------------------------------------------------------------------
(***************************************************************************)
(* Clients                                                                 *)
(***************************************************************************)
\* A handler asks for an end only once its client has gone.
OpenAsk ==
  \A c \in Conns : link[c] # "closed" =>
    \A i \in 1 .. Len(up[c]) : up[c][i].what # "unsubscribe"

ServerRests == UNCHANGED <<handles, outbox, count, acks, blocked, remote, subs, changes>>

LEMMA ConnectKeeps ==
  ASSUME IInv, NEW c \in Conns, Connect(c), ServerRests
  PROVE  IInv'
<1>1. /\ link[c] = "new" /\ link' = [link EXCEPT ![c] = "open"]
      /\ UNCHANGED <<up, down, closedAt, requests>>
      /\ UNCHANGED <<handles, outbox, count, acks, blocked, remote, subs, changes>>
  BY DEF Connect, ServerRests, Conns
<1>2. Types'
  BY <1>1 DEF IInv, Types, TypeOK
<1>3. \A s \in subs : /\ link'[s.conn] = "closed" => link[s.conn] = "closed"
                      /\ Leaving(s) => Leaving(s)'
                      /\ Due(s) => Due(s)'
  BY <1>1 DEF IInv, Types, TypeOK, Leaving, Due, Has
<1> QED BY <1>1, <1>2, <1>3 DEF IInv, Handled, DeadAreTold

LEMMA AskKeeps ==
  ASSUME IInv, NEW c \in Conns, Ask(c), ServerRests
  PROVE  IInv'
<1>0. Types /\ Handled /\ DeadAreTold /\ requests \in Nat /\ MaxRequests \in Nat
  BY HandlerAssumption DEF IInv, Types
<1>1. PICK r : /\ r \in {[what |-> "block", id |-> requests + 1]}
                    \cup {[what |-> "put", id |-> requests + 1, field |-> f, by |-> requests + 1] :
                          f \in DOMAIN remote}
               /\ up' = [up EXCEPT ![c] = Append(@, r)]
  BY DEF Ask
<1>2. /\ requests < MaxRequests /\ requests' = requests + 1
      /\ UNCHANGED <<link, down, closedAt>>
      /\ UNCHANGED <<handles, outbox, count, acks, blocked, remote, subs, changes>>
  BY DEF Ask, ServerRests
<1>3. r \in Asking(requests + 1)
  <2>1. DOMAIN remote \subseteq Fields
    BY <1>0 DEF Types, TypeOK
  <2>2. requests + 1 \in 1 .. requests + 1
    BY <1>0
  <2> QED BY <1>1, <2>1, <2>2 DEF Asking
<1>4. /\ up' \in [Conns -> Seq(Asking(requests'))]
      /\ \A s \in subs : Leaving(s) => Leaving(s)'
  <2>1. PICK n \in Nat : n = requests + 1
    BY <1>0
  <2>2. r \in Asking(n) /\ requests <= n /\ requests' = n
    BY <1>0, <1>2, <1>3, <2>1
  <2>3. /\ up' \in [Conns -> Seq(Asking(n))]
        /\ \A s \in subs : Leaving(s) => Leaving(s)'
    BY <1>0, <1>1, <2>2, QueueGrows
  <2> QED BY <2>2, <2>3
<1>5. 1 .. requests \subseteq 1 .. requests' /\ requests' \in 0 .. MaxRequests
  BY <1>0, <1>2
<1>6. Types'
  <2>1. subs' \subseteq Subscriptions(requests')
    BY <1>0, <1>2, <1>5 DEF Types, Subscriptions
  <2>2. handles' \in [Conns -> SUBSET (1 .. requests')]
    BY <1>0, <1>2, <1>5 DEF Types
  <2>3. TypeOK'
    BY <1>0, <1>2, <1>5 DEF Types, TypeOK
  <2> QED BY <1>0, <1>2, <1>4, <1>5, <2>1, <2>2, <2>3 DEF Types
<1>7. \A s : Due(s) => Due(s)'
  BY <1>2 DEF Due, Has
<1> QED BY <1>0, <1>2, <1>4, <1>6, <1>7 DEF IInv, Handled, DeadAreTold

LEMMA CloseKeeps ==
  ASSUME IInv, OpenAsk, NEW c \in Conns, Close(c), ServerRests
  PROVE  IInv'
<1>0. Types /\ Handled /\ DeadAreTold /\ changes \in Nat
  BY DEF IInv, Types
<1>1. /\ link[c] = "open" /\ link' = [link EXCEPT ![c] = "closed"]
      /\ closedAt' = [closedAt EXCEPT ![c] = changes]
      /\ UNCHANGED up \/ up' = [up EXCEPT ![c] = << >>]
      /\ UNCHANGED <<down, requests>>
      /\ UNCHANGED <<handles, outbox, count, acks, blocked, remote, subs, changes>>
  BY DEF Close, ServerRests
<1>2. up' \in [Conns -> Seq(Asking(requests))] /\ \A d \in Conns : d # c => up'[d] = up[d]
  <2>1. << >> \in Seq(Asking(requests))
    BY EmptySeq
  <2> QED BY <1>0, <1>1, <2>1 DEF Types
<1>3. Types'
  <2>1. TypeOK'
    BY <1>0, <1>1 DEF Types, TypeOK
  <2> QED BY <1>0, <1>1, <1>2, <2>1 DEF Types
<1>4. \A s \in subs : s.conn = c => s.id \in handles[c]
  BY <1>0, <1>1 DEF Handled, OpenAsk, Leaving
<1>5. \A s \in subs : s.conn # c /\ Leaving(s) => Leaving(s)'
  BY <1>0, <1>2, SubsAre DEF Leaving
<1>6. Handled'
  BY <1>0, <1>1, <1>4, <1>5 DEF Handled
<1>7. \A s : Due(s) => Due(s)'
  BY <1>1 DEF Due, Has
<1>8. \A s \in subs : s.conn \in Conns
  BY <1>0, SubsAre
<1>9. \A d \in Conns : d # c => link'[d] = link[d] /\ closedAt'[d] = closedAt[d]
  BY <1>0, <1>1 DEF Types, TypeOK
<1>10. closedAt'[c] = changes'
  BY <1>0, <1>1 DEF Types, TypeOK
<1>11. DeadAreTold'
  BY <1>0, <1>1, <1>5, <1>7, <1>8, <1>9, <1>10 DEF DeadAreTold
<1> QED BY <1>3, <1>6, <1>11 DEF IInv


LEMMA OpenAskStays ==
  ASSUME Types, OpenAsk, Next
  PROVE  OpenAsk'
<1>1. up \in [Conns -> Seq(Asking(requests))] /\ link \in [Conns -> {"new", "open", "closed"}]
  BY DEF Types, TypeOK
<1>2. CASE BlockChanges \/ TakeItem
  BY <1>2 DEF BlockChanges, TakeItem, OpenAsk
<1>3. ASSUME NEW c \in Conns, HandleRequest(c) PROVE OpenAsk'
  <2>1. up[c] # << >> /\ up' = [up EXCEPT ![c] = Tail(@)] /\ UNCHANGED link
    BY <1>3 DEF HandleRequest
  <2>2. /\ Len(Tail(up[c])) = Len(up[c]) - 1 /\ Len(up[c]) \in Nat
        /\ \A i \in 1 .. Len(up[c]) - 1 : Tail(up[c])[i] = up[c][i + 1]
    BY <1>1, <2>1
  <2>3. \A i \in 1 .. Len(up[c]) - 1 : i + 1 \in 1 .. Len(up[c])
    BY <2>2
  <2>4. up'[c] = Tail(up[c]) /\ \A d \in Conns : d # c => up'[d] = up[d]
    BY <1>1, <2>1
  <2> QED BY <2>1, <2>2, <2>3, <2>4 DEF OpenAsk
<1>4. CASE WriteResponse
  <2>1. PICK c : /\ UNCHANGED link
                 /\ \/ UNCHANGED up
                    \/ link[c] = "closed" /\ \E r : up' = [up EXCEPT ![c] = Append(@, r)]
    BY <1>4 DEF WriteResponse
  <2>2. \A d \in Conns : link[d] # "closed" => up'[d] = up[d]
    BY <1>1, <2>1
  <2> QED BY <2>1, <2>2 DEF OpenAsk
<1>5. ASSUME NEW c \in Conns, Connect(c) PROVE OpenAsk'
  BY <1>1, <1>5 DEF Connect, OpenAsk, Conns
<1>6. ASSUME NEW c \in Conns, Ask(c) PROVE OpenAsk'
  <2>1. PICK r : r.what # "unsubscribe" /\ up' = [up EXCEPT ![c] = Append(@, r)]
    BY <1>6 DEF Ask
  <2>2. UNCHANGED link /\ link[c] = "open"
    BY <1>6 DEF Ask
  <2>3. up'[c] = Append(up[c], r) /\ \A d \in Conns : d # c => up'[d] = up[d]
    BY <1>1, <2>1
  <2>4. \A i \in 1 .. Len(up'[c]) : up'[c][i] = r \/ (i \in 1 .. Len(up[c]) /\ up'[c][i] = up[c][i])
    <3>1. PICK S : up[c] \in Seq(S)
      BY <1>1
    <3>2. up[c] \in Seq(S \cup {r})
      BY <3>1, SeqMonotonic, S \subseteq S \cup {r}
    <3> QED BY <2>3, <3>2
  <2> QED BY <2>1, <2>2, <2>3, <2>4 DEF OpenAsk
<1>7. ASSUME NEW c \in Conns, Close(c) PROVE OpenAsk'
  <2>1. link' = [link EXCEPT ![c] = "closed"] /\ (UNCHANGED up \/ up' = [up EXCEPT ![c] = << >>])
    BY <1>7 DEF Close
  <2>2. \A d \in Conns : link'[d] # "closed" => up'[d] = up[d] /\ link[d] # "closed"
    BY <1>1, <2>1
  <2> QED BY <2>2 DEF OpenAsk
<1> QED BY <1>2, <1>3, <1>4, <1>5, <1>6, <1>7 DEF Next, Server, Client

LEMMA NextKeeps ==
  ASSUME IInv, OpenAsk, Next
  PROVE  IInv'
<1>1. ASSUME NEW c \in Conns, Client(c), ServerRests PROVE IInv'
  BY <1>1, ConnectKeeps, AskKeeps, CloseKeeps DEF Client
<1> QED BY <1>1, BlockChangesKeeps, HandleRequestKeeps, TakeItemKeeps, WriteResponseKeeps
        DEF Next, Server, ServerRests

\* For any number of websockets, requests and changes: what is held has its types; a
\* handler may end each of its subscriptions until it has asked for that; and the
\* client of a subscription whose websocket is closed has gone since the last change,
\* or the end of the subscription is asked for, or a Delta that nobody can be told is
\* on its way to be dropped (on_close() ends nothing, so all depends on
\* _on_response()).
THEOREM HandlersAreTold == Spec => [](IInv /\ OpenAsk)
<1>1. Init => IInv /\ OpenAsk
  <2>1. Init => OpenAsk
    BY DEF Init, OpenAsk
  <2> QED BY <2>1, InitKeeps
<1>2. IInv /\ OpenAsk /\ [Next]_vars => (IInv /\ OpenAsk)'
  <2> SUFFICES ASSUME IInv, OpenAsk, [Next]_vars PROVE IInv' /\ OpenAsk'
    OBVIOUS
  <2>1. CASE Next
    BY <2>1, NextKeeps, OpenAskStays DEF IInv
  <2>2. CASE UNCHANGED vars
    <3>1. Types'
      BY <2>2 DEF IInv, vars, Types, TypeOK
    <3>2. Handled' /\ OpenAsk'
      BY <2>2 DEF IInv, vars, Handled, Leaving, OpenAsk
    <3>3. DeadAreTold'
      BY <2>2 DEF IInv, vars, DeadAreTold, Leaving, Due, Has
    <3> QED BY <3>1, <3>2, <3>3 DEF IInv
  <2> QED BY <2>1, <2>2
<1> QED BY <1>1, <1>2, PTL DEF Spec

\* Once all that is under way has been dealt with, a handler whose client has gone
\* keeps a subscription only if the block has not changed since.
THEOREM DeadHandlesLeaveHolds == Spec => []DeadHandlesLeave
<1>1. IInv => DeadHandlesLeave
  <2> SUFFICES ASSUME IInv, Quiet, NEW s \in subs, link[s.conn] = "closed"
               PROVE  closedAt[s.conn] = changes
    BY DEF IInv, Types, DeadHandlesLeave
  <2>1. s.conn \in Conns
    BY SubsAre DEF IInv
  <2>2. ~Leaving(s)
    BY <2>1 DEF Quiet, Leaving
  <2>3. ~Due(s)
    BY DEF Quiet, Due, Has
  <2> QED BY <2>2, <2>3 DEF IInv, DeadAreTold
<1> QED BY <1>1, HandlersAreTold, PTL


--------------------------------------------------------------------------------
(***************************************************************************)
(* What the server promises, in terms of what it has inside                *)
(***************************************************************************)
Ups == [c \in Conns |-> Asked(up[c])]
Downs == [c \in Conns |-> IF link[c] = "open" THEN down[c] \o For(c, outbox) ELSE down[c]]
Oweds == {r \in UNION Range(Rest) : r.what = "return" /\ r.data # None}

Telling(responses) ==
  Downs' = [c \in Conns |->
              IF link[c] = "open" THEN Downs[c] \o For(c, responses) ELSE Downs[c]]

Promised == <<link, Ups, Downs, Oweds, remote, subs, changes>>

LEMMA SameFor == \A c, seq : Contract!For(c, seq) = For(c, seq)
BY DEF Contract!For, For, Contract!Part, Part

LEMMA SameDeltas == \A some, change : Contract!Deltas(some, change) = Deltas(some, change)
BY DEF Contract!Deltas, Deltas, Contract!Response, Response, Contract!SetToSeqs, SetToSeqs,
       Contract!Cardinality, Cardinality

LEMMA SameChanged == \A b, change : Contract!Changed(b, change) = Changed(b, change)
BY DEF Contract!Changed, Changed, Contract!Restrict, Restrict

LEMMA SameHappenings == \A b, n : Contract!Happenings(b, n) = Happenings(b, n)
BY DEF Contract!Happenings, Happenings, Contract!Change, Change

LEMMA SameConns == Contract!Conns = Conns
BY DEF Contract!Conns, Conns

LEMMA SamePromise == UNCHANGED Promised => UNCHANGED Contract!serverVars
BY DEF Contract!serverVars, Promised, Ups, Downs, Oweds, Asked

LEMMA SameTell ==
  ASSUME NEW responses, Telling(responses)
  PROVE  Contract!Tell(responses)
BY SameFor, SameConns DEF Telling, Downs, Contract!Tell

LEMMA PromisesChange ==
  ASSUME changes < MaxChanges, changes' = changes + 1,
         NEW change \in Happenings(remote, changes + 1), remote' = Changed(remote, change),
         NEW ds, ds = Deltas(subs, change), Telling(ds),
         UNCHANGED <<link, Ups, Oweds, subs>>
  PROVE  Contract!Next
<1>1. Contract!Tell(Contract!Deltas(subs, change))
  BY SameTell, SameDeltas DEF Contract!Tell
<1>2. \E happened \in Contract!Happenings(remote, changes') :
        remote' = Contract!Changed(remote, happened) /\ Contract!Tell(Contract!Deltas(subs, happened))
  BY <1>1, SameChanged, SameHappenings DEF Contract!Tell
<1>3. UNCHANGED Ups /\ UNCHANGED Oweds
  OBVIOUS
<1>4. Contract!BlockChanges
  BY <1>2, <1>3 DEF Contract!BlockChanges, Contract!Tell, Ups, Oweds, Asked
<1> QED BY <1>4 DEF Contract!Next

\* c has a request r, which is taken.
Taken(c, r) ==
  /\ Ups[c] # << >> /\ r = Head(Ups[c])
  /\ Ups' = [Ups EXCEPT ![c] = Tail(@)]
  /\ UNCHANGED link

LEMMA PromisesHandle ==
  ASSUME NEW c \in Conns, NEW r, Taken(c, r), Contract!Subscribe(c, r) \/ Contract!Put(c, r)
  PROVE  Contract!Next
<1>1. Contract!Handle(c)
  <2>1. Contract!Subscribe(c, Head(Ups[c])) \/ Contract!Put(c, Head(Ups[c]))
    BY DEF Taken, Contract!Subscribe, Contract!Put, Contract!FirstResponse, Contract!MaySubscribe,
           Contract!Tell
  <2>2. /\ Ups[c] # << >>
        /\ Ups' = [Ups EXCEPT ![c] = Tail(@)]
        /\ UNCHANGED link
    BY DEF Taken
  <2> QED BY <2>1, <2>2 DEF Contract!Handle, Ups, Asked
<1> QED BY <1>1, SameConns DEF Contract!Next, Contract!ServerStep

LEMMA PromisesSubscribe ==
  ASSUME NEW c \in Conns, NEW r, Taken(c, r), r.what = "block", subs = {},
         subs' = subs \cup {Subscription(c, r.id, "block")},
         NEW ds, ds = <<Response(c, "delta", r.id, Change("block", None, remote))>>, Telling(ds),
         UNCHANGED <<Oweds, remote, changes>>
  PROVE  Contract!Next
<1>1. Contract!Tell(ds)
  BY SameTell
<1>2. ds = Contract!FirstResponse(c, r)
  BY DEF Contract!FirstResponse, Contract!Response, Response, Contract!Change, Change
<1>3. Contract!Tell(Contract!FirstResponse(c, r))
  BY <1>1, <1>2 DEF Contract!Tell
<1>4. Contract!MaySubscribe(r)
  BY DEF Contract!MaySubscribe
<1>5. subs' = subs \cup {Contract!Subscription(c, r.id, r.what)}
  BY DEF Contract!Subscription, Subscription
<1>6. UNCHANGED Oweds /\ UNCHANGED <<remote, changes>>
  OBVIOUS
<1>7. Contract!Subscribe(c, r)
  BY <1>3, <1>4, <1>5, <1>6 DEF Contract!Subscribe, Oweds
<1> QED BY <1>7, PromisesHandle

LEMMA PromisesPut ==
  ASSUME NEW c \in Conns, NEW r, Taken(c, r), r.what = "put",
         NEW change, change = Change("value", r.field, changes + 1),
         NEW return, return = Response(c, "return", r.id, r.by),
         changes' = changes + 1, remote' = Changed(remote, change),
         NEW ds, ds = Deltas(subs, change),
         NEW told, \/ told = Append(ds, return) /\ UNCHANGED Oweds
                   \/ told = ds /\ Oweds' = Oweds \cup {return},
         Telling(told),
         UNCHANGED subs
  PROVE  Contract!Next
<1>1. Contract!Tell(told)
  BY SameTell
<1>2. change = Contract!Change("value", r.field, changes') /\ return = Contract!Response(c, "return", r.id, r.by)
  BY DEF Contract!Change, Change, Contract!Response, Response
<1>3. ds = Contract!Deltas(subs, change) /\ remote' = Contract!Changed(remote, change)
  BY SameDeltas, SameChanged
<1>4. \/ Contract!Tell(Append(Contract!Deltas(subs, change), return)) /\ UNCHANGED Oweds
      \/ Contract!Tell(Contract!Deltas(subs, change)) /\ Oweds' = Oweds \cup {return}
  BY <1>1, <1>3 DEF Contract!Tell
<1>5. Contract!Put(c, r)
  BY <1>2, <1>3, <1>4 DEF Contract!Put, Contract!Tell, Oweds
<1> QED BY <1>5, PromisesHandle

LEMMA PromisesAnswer ==
  ASSUME NEW r \in Oweds, Oweds' = Oweds \ {r}, NEW told, told = <<r>>, Telling(told),
         UNCHANGED <<link, Ups, remote, subs, changes>>
  PROVE  Contract!Next
<1>1. Contract!Tell(<<r>>)
  BY SameTell DEF Contract!Tell
<1>2. Contract!Answer
  BY <1>1 DEF Contract!Tell, Contract!Answer, Ups, Asked, Oweds
<1> QED BY <1>2 DEF Contract!Next, Contract!ServerStep

LEMMA PromisesForget ==
  ASSUME NEW s \in subs, link[s.conn] = "closed", subs' = subs \ {s},
         UNCHANGED <<link, Ups, Downs, Oweds, remote, changes>>
  PROVE  Contract!Next
<1>1. Contract!Forget
  BY DEF Contract!Forget, Ups, Asked, Downs, Oweds
<1> QED BY <1>1 DEF Contract!Next, Contract!ServerStep

LEMMA PromisesClients ==
  ASSUME NEW c \in Conns, UNCHANGED <<Oweds, remote, subs, changes>>,
         \/ /\ \A d \in Conns : link[d] = "new" <=> d >= c
            /\ link' = [link EXCEPT ![c] = "open"]
            /\ UNCHANGED <<Ups, Downs>>
         \/ /\ link[c] = "open"
            /\ \E r \in Contract!Requests : Ups' = [Ups EXCEPT ![c] = Append(@, r)]
            /\ UNCHANGED <<link, Downs>>
         \/ /\ link[c] = "open"
            /\ link' = [link EXCEPT ![c] = "closed"]
            /\ \E n \in 0 .. Len(Downs[c]) : Downs' = [Downs EXCEPT ![c] = SubSeq(@, 1, n)]
            /\ UNCHANGED Ups \/ Ups' = [Ups EXCEPT ![c] = << >>]
  PROVE  Contract!Next
<1>1. Contract!SomeClient(c)
  BY SameConns DEF Contract!SomeClient, Contract!Connects, Contract!Writes, Contract!Closes,
      Contract!Loses, Ups, Downs, Asked
<1> QED BY <1>1, SameConns DEF Contract!Next, Oweds

LEMMA PromisesInit == Init => Contract!ServerInit
<1> SUFFICES ASSUME Init PROVE Contract!ServerInit
  OBVIOUS
<1>1. Ups = [c \in Conns |-> << >>]
  BY AskedNone DEF Init, Ups
<1>2. Downs = [c \in Conns |-> << >>]
  BY DEF Init, Downs
<1>3. Oweds = {}
  BY DEF Init, Oweds, Rest, Range
<1> QED BY <1>1, <1>2, <1>3, SameConns DEF Init, Contract!ServerInit, Ups, Downs, Oweds, Asked

--------------------------------------------------------------------------------
(***************************************************************************)
(* Requests that are under way, responses and answers that are owed        *)
(***************************************************************************)
IsPut(q, n) == q.what = "put" /\ q.id = n

\* A put with the id n is under way.
Asks(n) == \E c \in Conns : \E i \in 1 .. Len(up[c]) : IsPut(up[c][i], n)

AskOnce ==
  \A c, d \in Conns : \A i \in 1 .. Len(up[c]), j \in 1 .. Len(up[d]) : \A n :
    IsPut(up[c][i], n) /\ IsPut(up[d][j], n) => c = d /\ i = j

\* The request that is handled is not asked for any more.
LEMMA TakenOnce ==
  ASSUME Types, AskOnce, NEW c \in Conns, up[c] # << >>, up' = [up EXCEPT ![c] = Tail(@)]
  PROVE  /\ AskOnce'
         /\ \A n : Asks(n)' => Asks(n)
         /\ \A n : IsPut(Head(up[c]), n) => Asks(n) /\ ~Asks(n)'
<1>1. up \in [Conns -> Seq(Asking(requests))]
  BY DEF Types
<1>2. /\ Head(up[c]) = up[c][1] /\ Len(up[c]) \in Nat /\ 1 \in 1 .. Len(up[c])
      /\ Len(Tail(up[c])) = Len(up[c]) - 1
      /\ \A i \in 1 .. Len(up[c]) - 1 : Tail(up[c])[i] = up[c][i + 1]
  BY <1>1
<1>3. up'[c] = Tail(up[c]) /\ \A d \in Conns : d # c => up'[d] = up[d]
  BY <1>1
<1> DEFINE At(d, i) == IF d = c THEN i + 1 ELSE i
<1>4. \A d \in Conns : \A i \in 1 .. Len(up'[d]) :
        At(d, i) \in 1 .. Len(up[d]) /\ up'[d][i] = up[d][At(d, i)]
  <2> SUFFICES ASSUME NEW d \in Conns, NEW i \in 1 .. Len(up'[d])
               PROVE  At(d, i) \in 1 .. Len(up[d]) /\ up'[d][i] = up[d][At(d, i)]
    OBVIOUS
  <2>1. CASE d = c
    <3>0. Len(up'[d]) = Len(up[c]) - 1
      BY <1>2, <1>3, <2>1
    <3>1. i \in 1 .. Len(up[c]) - 1 /\ i + 1 \in 1 .. Len(up[c])
      BY <1>2, <3>0
    <3> QED BY <1>2, <1>3, <2>1, <3>1
  <2> QED BY <1>3, <2>1
<1>5. \A d \in Conns : \A i, j \in Nat : At(d, i) = At(d, j) => i = j
  OBVIOUS
<1>6. \A d \in Conns : \A i \in 1 .. Len(up'[d]) : i \in Nat /\ (d = c => At(d, i) # 1)
  OBVIOUS
<1> HIDE DEF At
<1>7. AskOnce'
  <2>0. SUFFICES \A d, e \in Conns : \A i \in 1 .. Len(up'[d]), j \in 1 .. Len(up'[e]) : \A n :
                   IsPut(up'[d][i], n) /\ IsPut(up'[e][j], n) => d = e /\ i = j
    BY DEF AskOnce
  <2> TAKE d, e \in Conns
  <2> TAKE i \in 1 .. Len(up'[d]), j \in 1 .. Len(up'[e])
  <2> TAKE n
  <2> HAVE IsPut(up'[d][i], n) /\ IsPut(up'[e][j], n)
  <2>1. At(d, i) \in 1 .. Len(up[d]) /\ IsPut(up[d][At(d, i)], n)
    BY <1>4
  <2>2. At(e, j) \in 1 .. Len(up[e]) /\ IsPut(up[e][At(e, j)], n)
    BY <1>4
  <2>3. d = e /\ At(d, i) = At(e, j)
    BY <2>1, <2>2 DEF AskOnce
  <2> QED BY <1>5, <1>6, <2>3
<1>8. \A n : Asks(n)' => Asks(n)
  <2> SUFFICES ASSUME NEW n, NEW d \in Conns, NEW i \in 1 .. Len(up'[d]), IsPut(up'[d][i], n)
               PROVE  Asks(n)
    BY DEF Asks
  <2> QED BY <1>4 DEF Asks
<1>9. ASSUME NEW n, IsPut(Head(up[c]), n) PROVE Asks(n) /\ ~Asks(n)'
  <2>1. IsPut(up[c][1], n)
    BY <1>2, <1>9
  <2>2. ASSUME NEW d \in Conns, NEW i \in 1 .. Len(up'[d]), IsPut(up'[d][i], n) PROVE FALSE
    <3>1. At(d, i) \in 1 .. Len(up[d]) /\ IsPut(up[d][At(d, i)], n)
      BY <1>4, <2>2
    <3>2. d = c /\ At(d, i) = 1
      BY <1>2, <2>1, <3>1 DEF AskOnce
    <3> QED BY <1>6, <3>2
  <2> QED BY <1>2, <2>1, <2>2 DEF Asks
<1> QED BY <1>7, <1>8, <1>9

LEMMA AskedOnce ==
  ASSUME Types, AskOnce, NEW c \in Conns, NEW r, up' = [up EXCEPT ![c] = Append(@, r)],
         r.what = "put" => ~Asks(r.id)
  PROVE  /\ AskOnce'
         /\ \A n : Asks(n)' => Asks(n) \/ IsPut(r, n)
<1>1. up \in [Conns -> Seq(Asking(requests))]
  BY DEF Types
<1>2. up'[c] = Append(up[c], r) /\ \A d \in Conns : d # c => up'[d] = up[d]
  BY <1>1
<1>3. /\ Len(Append(up[c], r)) = Len(up[c]) + 1 /\ Len(up[c]) \in Nat
      /\ \A i \in 1 .. Len(up[c]) : Append(up[c], r)[i] = up[c][i]
      /\ Append(up[c], r)[Len(up[c]) + 1] = r
  <2>1. Asking(requests) \subseteq Asking(requests) \cup {r}
    OBVIOUS
  <2>2. up[c] \in Seq(Asking(requests) \cup {r})
    BY <1>1, <2>1, SeqMonotonic
  <2> QED BY <2>2, AppendProperties, LenProperties
<1> DEFINE New(d, i) == d = c /\ i = Len(up[c]) + 1
<1>4. \A d \in Conns : \A i \in 1 .. Len(up'[d]) :
        \/ New(d, i) /\ up'[d][i] = r
        \/ ~New(d, i) /\ i \in 1 .. Len(up[d]) /\ up'[d][i] = up[d][i]
  BY <1>2, <1>3
<1>5. \A d, e \in Conns : \A i, j : New(d, i) /\ New(e, j) => d = e /\ i = j
  OBVIOUS
<1> HIDE DEF New
<1>6. AskOnce'
  <2>0. SUFFICES \A d, e \in Conns : \A i \in 1 .. Len(up'[d]), j \in 1 .. Len(up'[e]) : \A n :
                   IsPut(up'[d][i], n) /\ IsPut(up'[e][j], n) => d = e /\ i = j
    BY DEF AskOnce
  <2> TAKE d, e \in Conns
  <2> TAKE i \in 1 .. Len(up'[d]), j \in 1 .. Len(up'[e])
  <2> TAKE n
  <2> HAVE IsPut(up'[d][i], n) /\ IsPut(up'[e][j], n)
  <2>1. CASE New(d, i) /\ New(e, j)
    BY <1>5, <2>1
  <2>2. CASE ~New(d, i) /\ ~New(e, j)
    <3>1. i \in 1 .. Len(up[d]) /\ j \in 1 .. Len(up[e]) /\ IsPut(up[d][i], n) /\ IsPut(up[e][j], n)
      BY <1>4, <2>2
    <3> QED BY <3>1 DEF AskOnce
  <2>3. CASE New(d, i) /\ ~New(e, j)
    BY <1>4, <2>3 DEF Asks, IsPut
  <2>4. CASE ~New(d, i) /\ New(e, j)
    BY <1>4, <2>4 DEF Asks, IsPut
  <2> QED BY <2>1, <2>2, <2>3, <2>4
<1>7. \A n : Asks(n)' => Asks(n) \/ IsPut(r, n)
  <2> SUFFICES ASSUME NEW n, NEW d \in Conns, NEW i \in 1 .. Len(up'[d]), IsPut(up'[d][i], n)
               PROVE  Asks(n) \/ IsPut(r, n)
    BY DEF Asks
  <2> QED BY <1>4 DEF Asks
<1> QED BY <1>6, <1>7

\* What a handler has added is nothing that its client has asked.
LEMMA UpsAre ==
  /\ Ups = [d \in Conns |-> Ups[d]] /\ Ups' = [d \in Conns |-> Ups'[d]]
  /\ \A d \in Conns : Ups[d] = Asked(up[d]) /\ Ups'[d] = Asked(up'[d])
BY DEF Ups

LEMMA AskedType ==
  ASSUME NEW S, NEW seq \in Seq(S)
  PROVE  Asked(seq) \in Seq(S)
BY PartType DEF Asked

LEMMA UpsTake ==
  ASSUME Types, NEW c \in Conns, up[c] # << >>, up' = [up EXCEPT ![c] = Tail(@)], UNCHANGED link,
         NEW r, r = Head(up[c])
  PROVE  IF r.what = "unsubscribe" THEN UNCHANGED Ups ELSE Taken(c, r)
<1>1. up \in [Conns -> Seq(Asking(requests))] /\ up[c] \in Seq(Asking(requests))
  BY DEF Types
<1>0. PICK u \in Seq(Asking(requests)) : u = up[c] /\ u # << >>
  BY <1>1
<1>2. PICK t \in Seq(Asking(requests)) : t = Tail(up[c])
  BY <1>0, HeadTailProperties
<1>3. r \in Asking(requests) /\ up[c] = <<r>> \o t /\ <<r>> \in Seq(Asking(requests))
  BY <1>0, <1>2
<1>4. Asked(up[c]) = Asked(<<r>>) \o Asked(t) /\ Asked(t) \in Seq(Asking(requests))
  BY <1>3, AskedBoth, AskedType
<1>5. Asked(up[c]) = IF r.what = "unsubscribe" THEN Asked(t) ELSE <<r>> \o Asked(t)
  <2>1. Asked(<<r>>) = IF r.what # "unsubscribe" THEN <<r>> ELSE << >>
    BY AskedOne
  <2> QED BY <1>4, <2>1, ConcatEmptySeq
<1>6. up'[c] = t /\ \A d \in Conns : d # c => up'[d] = up[d]
  BY <1>1, <1>2
<1>7. \A d \in Conns : Ups'[d] = IF d = c THEN Asked(t) ELSE Ups[d]
  BY <1>6, UpsAre
<1>8. Ups = [d \in Conns |-> Ups[d]] /\ Ups' = [d \in Conns |-> Ups'[d]]
  BY UpsAre
<1>9. Ups[c] = Asked(up[c])
  BY UpsAre
<1>10. CASE r.what = "unsubscribe"
  <2>1. \A d \in Conns : Ups'[d] = Ups[d]
    BY <1>5, <1>7, <1>9, <1>10
  <2> QED BY <1>8, <1>10, <2>1
<1>11. CASE r.what # "unsubscribe"
  <2>1. PICK q \in Seq(Asking(requests)) : q = Asked(t)
    BY <1>4
  <2>2. Ups[c] = <<r>> \o q
    BY <1>5, <1>9, <1>11, <2>1
  <2>3. Ups[c] # << >> /\ Head(Ups[c]) = r /\ Tail(Ups[c]) = q
    <3>1. <<r>> \o q # << >> /\ Head(<<r>> \o q) = r /\ Tail(<<r>> \o q) = q
      BY <1>3
    <3> QED BY <2>2, <3>1
  <2>4. Ups' = [Ups EXCEPT ![c] = Tail(@)]
    BY <1>7, <1>8, <2>1, <2>3
  <2> QED BY <1>11, <2>3, <2>4 DEF Taken
<1> QED BY <1>10, <1>11

LEMMA UpsGrow ==
  ASSUME Types, NEW c \in Conns, NEW n, NEW r \in Asking(n), up[c] \in Seq(Asking(n)),
         up' = [up EXCEPT ![c] = Append(@, r)]
  PROVE  IF r.what = "unsubscribe" THEN UNCHANGED Ups ELSE Ups' = [Ups EXCEPT ![c] = Append(@, r)]
<1>1. up \in [Conns -> Seq(Asking(requests))]
  BY DEF Types
<1>2. PICK t \in Seq(Asking(n)) : t = up[c]
  OBVIOUS
<1>3. Append(up[c], r) = t \o <<r>> /\ <<r>> \in Seq(Asking(n))
  BY <1>2, AppendIsConcat
<1>4. Asked(Append(up[c], r)) = Asked(t) \o Asked(<<r>>) /\ Asked(t) \in Seq(Asking(n))
  BY <1>3, AskedBoth, AskedType
<1>5. Asked(Append(up[c], r)) = IF r.what = "unsubscribe" THEN Asked(t) ELSE Append(Asked(t), r)
  <2>1. Asked(<<r>>) = IF r.what # "unsubscribe" THEN <<r>> ELSE << >>
    BY AskedOne
  <2>2. PICK q \in Seq(Asking(n)) : q = Asked(t)
    BY <1>4
  <2>3. q \o << >> = q /\ q \o <<r>> = Append(q, r)
    BY AppendIsConcat, ConcatEmptySeq
  <2> QED BY <1>4, <2>1, <2>2, <2>3
<1>6. up'[c] = Append(up[c], r) /\ \A d \in Conns : d # c => up'[d] = up[d]
  BY <1>1
<1>7. \A d \in Conns : Ups'[d] = IF d = c THEN Asked(Append(up[c], r)) ELSE Ups[d]
  BY <1>6, UpsAre
<1>8. Ups = [d \in Conns |-> Ups[d]] /\ Ups' = [d \in Conns |-> Ups'[d]]
  BY UpsAre
<1>9. Ups[c] = Asked(t)
  BY <1>2, UpsAre
<1>10. CASE r.what = "unsubscribe"
  <2>1. \A d \in Conns : Ups'[d] = Ups[d]
    BY <1>5, <1>7, <1>9, <1>10
  <2> QED BY <1>8, <1>10, <2>1
<1>11. CASE r.what # "unsubscribe"
  <2>1. Ups' = [Ups EXCEPT ![c] = Append(@, r)]
    BY <1>5, <1>7, <1>8, <1>9, <1>11
  <2> QED BY <1>11, <2>1
<1> QED BY <1>10, <1>11


LEMMA ForType ==
  ASSUME NEW S, NEW seq \in Seq(S), NEW c
  PROVE  For(c, seq) \in Seq(S)
BY PartType DEF For

LEMMA DownsAre ==
  /\ Downs = [d \in Conns |-> Downs[d]] /\ Downs' = [d \in Conns |-> Downs'[d]]
  /\ \A d \in Conns :
       /\ Downs[d] = IF link[d] = "open" THEN down[d] \o For(d, outbox) ELSE down[d]
       /\ Downs'[d] = IF link'[d] = "open" THEN down'[d] \o For(d, outbox') ELSE down'[d]
BY DEF Downs

LEMMA DownsType ==
  ASSUME Types, NEW d \in Conns
  PROVE  Downs[d] \in Seq(Responses)
<1>1. down[d] \in Seq(Responses) /\ outbox \in Seq(Responses)
  BY DEF Types
<1>2. For(d, outbox) \in Seq(Responses)
  BY <1>1, ForType
<1>3. PICK a \in Seq(Responses), b \in Seq(Responses) : a = down[d] /\ b = For(d, outbox)
  BY <1>1, <1>2
<1>4. a \o b \in Seq(Responses)
  BY ConcatProperties
<1>5. Downs[d] = a \o b \/ Downs[d] = a
  BY <1>3, DownsAre
<1> QED BY <1>4, <1>5

LEMMA Regrouped ==
  ASSUME NEW S, NEW a \in Seq(S), NEW b \in Seq(S), NEW e \in Seq(S)
  PROVE  a \o (b \o e) = (a \o b) \o e
BY ConcatAssociative

\* What is left for tornado's thread is told.
LEMMA DownsTell ==
  ASSUME Types, NEW first \in Seq(Responses), outbox' = outbox \o first, UNCHANGED <<link, down>>
  PROVE  Telling(first)
<1>1. PICK o \in Seq(Responses) : o = outbox
  BY DEF Types
<1>2. \A d \in Conns : Downs'[d] = IF link[d] = "open" THEN Downs[d] \o For(d, first) ELSE Downs[d]
  <2> TAKE d \in Conns
  <2>1. CASE link[d] = "open"
    <3>1. For(d, o \o first) = For(d, o) \o For(d, first)
      BY ForBoth
    <3>2. PICK a \in Seq(Responses), b \in Seq(Responses), e \in Seq(Responses) :
            a = down[d] /\ b = For(d, o) /\ e = For(d, first)
      BY ForType DEF Types
    <3>3. a \o (b \o e) = (a \o b) \o e
      BY Regrouped
    <3>4. Downs'[d] = a \o (b \o e) /\ Downs[d] = a \o b
      BY <1>1, <2>1, <3>1, <3>2, DownsAre
    <3> QED BY <2>1, <3>2, <3>3, <3>4
  <2>2. CASE link[d] # "open"
    BY <2>2, DownsAre
  <2> QED BY <2>1, <2>2
<1> QED BY <1>2, DownsAre DEF Telling

\* Nobody who is still there is told.
LEMMA DownsStay ==
  ASSUME Types, NEW first, Telling(first), \A d \in Conns : link[d] = "open" => For(d, first) = << >>
  PROVE  UNCHANGED Downs
<1>1. \A d \in Conns : Downs'[d] = IF link[d] = "open" THEN Downs[d] \o For(d, first) ELSE Downs[d]
  BY DEF Telling
<1>2. \A d \in Conns : Downs[d] \o << >> = Downs[d]
  BY DownsType, ConcatEmptySeq
<1>3. \A d \in Conns : Downs'[d] = Downs[d]
  BY <1>1, <1>2
<1> QED BY <1>3, DownsAre

\* Answers to puts
Answers == {r \in Responses : r.what = "return" /\ r.data # None}

Owed(some) == {r \in Answers : \E k \in 1 .. Len(some) : some[k].rest = <<r>>}

\* What a cothread is kept waiting with is nothing, or the answer to a put.
AnswersRest(some) ==
  \A k \in 1 .. Len(some) : some[k].rest = << >> \/ \E r \in Answers : some[k].rest = <<r>>

LEMMA OwedIs ==
  ASSUME NEW some \in Seq(Kept), AnswersRest(some)
  PROVE  {r \in UNION Range([i \in DOMAIN some |-> ToSet(some[i].rest)]) :
            r.what = "return" /\ r.data # None} = Owed(some)
<1> DEFINE R == [i \in DOMAIN some |-> ToSet(some[i].rest)]
<1>0. DOMAIN some = 1 .. Len(some) /\ DOMAIN R = 1 .. Len(some)
  OBVIOUS
<1>1. \A r : r \in UNION Range(R) <=> \E k \in 1 .. Len(some) : r \in ToSet(some[k].rest)
  BY <1>0 DEF Range
<1>2. ToSet(<< >>) = {} /\ \A r : ToSet(<<r>>) = {r}
  <2>1. DOMAIN << >> = {} /\ \A r : DOMAIN <<r>> = {1} /\ <<r>>[1] = r
    OBVIOUS
  <2> QED BY <2>1 DEF ToSet
<1> HIDE DEF R
<1>3. ASSUME NEW r, r \in UNION Range(R) PROVE r \in Owed(some)
  <2>1. PICK k \in 1 .. Len(some) : r \in ToSet(some[k].rest)
    BY <1>1, <1>3
  <2>2. PICK q \in Answers : some[k].rest = <<q>>
    BY <1>2, <2>1 DEF AnswersRest
  <2>3. q = r
    BY <1>2, <2>1, <2>2
  <2> QED BY <2>2, <2>3 DEF Owed
<1>4. ASSUME NEW r \in Owed(some) PROVE r \in UNION Range(R) /\ r.what = "return" /\ r.data # None
  <2>1. PICK k \in 1 .. Len(some) : some[k].rest = <<r>>
    BY DEF Owed
  <2>2. r \in ToSet(some[k].rest)
    BY <1>2, <2>1
  <2> QED BY <1>1, <2>2 DEF Owed, Answers
<1> QED BY <1>3, <1>4 DEF R

--------------------------------------------------------------------------------
(***************************************************************************)
(* The server with one subscriber                                          *)
(***************************************************************************)
\* The answer is to a put that has been taken, of a client that was there.
RestFits(rest) ==
  \/ rest = << >>
  \/ \E r \in Answers :
       rest = <<r>> /\ r.id \in 1 .. requests /\ link[r.conn] # "new" /\ ~Asks(r.id)

OwedOnce(some) ==
  \A k, l \in 1 .. Len(some) : \A r, q \in Answers :
    some[k].rest = <<r>> /\ some[l].rest = <<q>> /\ r.id = q.id => k = l

Fits(some) == (\A k \in 1 .. Len(some) : RestFits(some[k].rest)) /\ OwedOnce(some)

Alone == \A s, t \in subs : s = t

Meets(responses) == \A i \in 1 .. Len(responses) : link[responses[i].conn] # "new"

AreMet ==
  /\ \A s \in subs : link[s.conn] # "new"
  /\ Meets(outbox)
  /\ \A c \in Conns : link[c] = "new" => up[c] = << >>

Served == Alone /\ Fits(blocked) /\ AskOnce /\ AreMet

\* Clients do not go back to before they were there, nor requests.
GoesOn ==
  /\ requests \in Nat /\ requests' \in Nat /\ requests <= requests'
  /\ \A c \in Conns : link[c] # "new" => link'[c] # "new"
  /\ \A n \in 1 .. requests : Asks(n)' => Asks(n)

LEMMA FitsAnswers ==
  ASSUME NEW some, Fits(some)
  PROVE  AnswersRest(some)
BY DEF Fits, RestFits, AnswersRest

LEMMA OwedsAre ==
  ASSUME Types, Fits(blocked)
  PROVE  Oweds = Owed(blocked)
<1>1. PICK some \in Seq(Kept) : some = blocked
  BY DEF Types
<1>2. AnswersRest(some)
  BY <1>1, FitsAnswers DEF Fits, RestFits, AnswersRest
<1> QED BY <1>1, <1>2, OwedIs DEF Oweds, Rest

LEMMA OwedsWillBe ==
  ASSUME Types', Fits(blocked)'
  PROVE  Oweds' = Owed(blocked')
<1>1. PICK some \in Seq(Kept) : some = blocked'
  BY DEF Types
<1>2. AnswersRest(some)
  BY <1>1 DEF Fits, RestFits, AnswersRest
<1> QED BY <1>1, <1>2, OwedIs DEF Oweds, Rest

LEMMA RestStays ==
  ASSUME GoesOn, NEW rest, RestFits(rest)
  PROVE  RestFits(rest)'
<1>1. CASE rest = << >>
  BY <1>1 DEF RestFits
<1>2. ASSUME NEW r \in Answers, rest = <<r>>, r.id \in 1 .. requests, link[r.conn] # "new", ~Asks(r.id)
      PROVE  RestFits(rest)'
  <2>1. r.conn \in Conns
    BY DEF Answers, Responses
  <2>2. r.id \in 1 .. requests' /\ link'[r.conn] # "new" /\ ~Asks(r.id)'
    BY <1>2, <2>1 DEF GoesOn
  <2> QED BY <1>2, <2>2 DEF RestFits
<1> QED BY <1>1, <1>2 DEF RestFits

LEMMA FitsStay ==
  ASSUME GoesOn, Fits(blocked), UNCHANGED blocked
  PROVE  Fits(blocked)'
<1>1. PICK some : some = blocked
  OBVIOUS
<1>2. \A k \in 1 .. Len(some) : RestFits(some[k].rest)'
  BY <1>1, RestStays DEF Fits
<1> QED BY <1>1, <1>2 DEF Fits

\* What a cothread leaves is as what others are kept waiting with.
LEMMA FitsLeave ==
  ASSUME GoesOn, NEW others \in Seq(Kept), Fits(others),
         NEW responses, NEW first, NEW rest, Leaves(others, responses, first, rest),
         RestFits(rest)',
         \A r \in Answers : rest = <<r>> => \A q \in Owed(others) : q.id # r.id
  PROVE  /\ Fits(blocked)'
         /\ Owed(blocked') = Owed(others) \cup {r \in Answers : rest = <<r>>}
<1>1. \A k \in 1 .. Len(others) : RestFits(others[k].rest)'
  BY RestStays DEF Fits
<1>2. OwedOnce(others)
  BY DEF Fits
<1>3. CASE rest = << >> /\ blocked' = others
  <2>1. Fits(blocked)'
    BY <1>1, <1>2, <1>3 DEF Fits
  <2>2. \A r : rest # <<r>>
    BY <1>3
  <2> QED BY <1>3, <2>1, <2>2
<1>4. ASSUME NEW b \in Kept, b.rest = rest, blocked' = Append(others, b)
      PROVE  /\ Fits(blocked)'
             /\ Owed(blocked') = Owed(others) \cup {r \in Answers : rest = <<r>>}
  <2>1. PICK some \in Seq(Kept) :
          /\ some = blocked' /\ Len(some) = Len(others) + 1 /\ Len(others) \in Nat
          /\ \A k \in 1 .. Len(others) : some[k] = others[k]
          /\ some[Len(others) + 1] = b
    BY <1>4
  <2>2. \A k \in 1 .. Len(some) : k \in 1 .. Len(others) \/ k = Len(others) + 1
    BY <2>1
  <2>3. \A k \in 1 .. Len(some) : RestFits(some[k].rest)'
    <3> TAKE k \in 1 .. Len(some)
    <3>1. CASE k \in 1 .. Len(others)
      BY <1>1, <2>1, <3>1
    <3>2. CASE k = Len(others) + 1
      BY <1>4, <2>1, <3>2
    <3> QED BY <2>2, <3>1, <3>2
  <2>4. OwedOnce(some)
    <3> SUFFICES ASSUME NEW k \in 1 .. Len(some), NEW l \in 1 .. Len(some), NEW r \in Answers, NEW q \in Answers,
                        some[k].rest = <<r>>, some[l].rest = <<q>>, r.id = q.id
                 PROVE  k = l
      BY DEF OwedOnce
    <3>1. CASE k \in 1 .. Len(others) /\ l \in 1 .. Len(others)
      BY <1>2, <2>1, <3>1 DEF OwedOnce
    <3>2. CASE k \in 1 .. Len(others) /\ l = Len(others) + 1
      BY <1>4, <2>1, <3>2 DEF Owed
    <3>3. CASE l \in 1 .. Len(others) /\ k = Len(others) + 1
      BY <1>4, <2>1, <3>3 DEF Owed
    <3> QED BY <2>2, <3>1, <3>2, <3>3
  <2>5. Fits(blocked)'
    BY <2>1, <2>3, <2>4 DEF Fits
  <2>6. Owed(some) = Owed(others) \cup {r \in Answers : rest = <<r>>}
    <3>1. ASSUME NEW r \in Owed(some) PROVE r \in Owed(others) \/ rest = <<r>>
      <4>1. PICK k \in 1 .. Len(some) : some[k].rest = <<r>>
        BY DEF Owed
      <4> QED BY <1>4, <2>1, <2>2, <4>1 DEF Owed
    <3>2. ASSUME NEW r \in Owed(others) PROVE r \in Owed(some)
      <4>1. PICK k \in 1 .. Len(others) : others[k].rest = <<r>>
        BY DEF Owed
      <4>2. k \in 1 .. Len(some) /\ some[k].rest = <<r>>
        BY <2>1, <4>1
      <4> QED BY <4>2 DEF Owed
    <3>3. ASSUME NEW r \in Answers, rest = <<r>> PROVE r \in Owed(some)
      <4>1. Len(others) + 1 \in 1 .. Len(some) /\ some[Len(others) + 1].rest = <<r>>
        BY <1>4, <2>1, <3>3
      <4> QED BY <4>1 DEF Owed
    <3> QED BY <3>1, <3>2, <3>3 DEF Owed
  <2> QED BY <2>1, <2>5, <2>6
<1> QED BY <1>3, <1>4 DEF Leaves

--------------------------------------------------------------------------------
(***************************************************************************)
(* The steps of the server, and what they are to its clients               *)
(***************************************************************************)
LEMMA OneLeaves ==
  ASSUME NEW others, NEW responses \in Seq(Responses), NEW first, NEW rest,
         Leaves(others, responses, first, rest), Len(responses) \in {0, 1}
  PROVE  first = responses /\ rest = << >>
<1>1. PICK a \in Seq(Responses), b \in Seq(Responses) :
        a = first /\ b = rest /\ responses = a \o b /\ (responses # << >> => a # << >>)
  BY DEF Leaves
<1>2. Len(responses) = Len(a) + Len(b) /\ Len(a) \in Nat /\ Len(b) \in Nat
  BY <1>1
<1>3. responses # << >> => Len(a) # 0
  BY <1>1
<1>4. responses = << >> => Len(responses) = 0
  OBVIOUS
<1>5. Len(b) = 0
  BY <1>2, <1>3, <1>4
<1>6. b = << >>
  BY <1>5
<1> QED BY <1>1, <1>6, ConcatEmptySeq

LEMMA TwoLeave ==
  ASSUME NEW others, NEW ds \in Seq(Responses), Len(ds) \in {0, 1}, NEW return \in Responses,
         NEW first, NEW rest, Leaves(others, ds \o <<return>>, first, rest)
  PROVE  \/ first = Append(ds, return) /\ rest = << >>
         \/ first = ds /\ rest = <<return>>
<1>1. PICK a \in Seq(Responses), b \in Seq(Responses) :
        a = first /\ b = rest /\ ds \o <<return>> = a \o b /\ (ds \o <<return>> # << >> => a # << >>)
  BY DEF Leaves
<1>2. PICK all \in Seq(Responses) : all = ds \o <<return>> /\ Append(ds, return) = all
  <2>1. Append(ds, return) = ds \o <<return>>
    BY AppendIsConcat
  <2>2. Append(ds, return) \in Seq(Responses)
    BY AppendProperties
  <2> QED BY <2>1, <2>2
<1>3. /\ Len(all) = Len(ds) + 1 /\ Len(ds) \in Nat /\ all[Len(ds) + 1] = return
      /\ \A i \in 1 .. Len(ds) : all[i] = ds[i]
  BY <1>2, AppendProperties
<1>4. /\ Len(all) = Len(a) + Len(b) /\ Len(a) \in Nat /\ Len(b) \in Nat
      /\ \A i \in 1 .. Len(a) : all[i] = a[i]
      /\ \A i \in 1 .. Len(b) : all[i + Len(a)] = b[i]
  BY <1>1, <1>2
<1>5. Len(a) # 0
  <2>1. all # << >>
    BY <1>3
  <2> QED BY <1>1, <1>2, <2>1
<1>6. CASE Len(b) = 0
  <2>1. b = << >>
    BY <1>6
  <2> QED BY <1>1, <1>2, <2>1, ConcatEmptySeq
<1>7. CASE Len(b) # 0
  <2>1. Len(ds) = 1 /\ Len(a) = 1 /\ Len(b) = 1
    BY <1>3, <1>4, <1>5, <1>7
  <2>2. a[1] = ds[1] /\ b[1] = return
    BY <1>3, <1>4, <2>1
  <2>3. a = ds /\ b = <<return>>
    BY <2>1, <2>2
  <2> QED BY <1>1, <2>3
<1> QED BY <1>6, <1>7

LEMMA GoesOnStill ==
  ASSUME Types, UNCHANGED <<link, requests>>, \A n : Asks(n)' => Asks(n)
  PROVE  GoesOn
BY DEF GoesOn, Types

LEMMA MetLeave ==
  ASSUME Types, Meets(outbox), NEW first \in Seq(Responses), Meets(first), GoesOn,
         outbox' = outbox \o first
  PROVE  Meets(outbox)'
<1>1. PICK o \in Seq(Responses) : o = outbox
  BY DEF Types
<1>2. PICK all \in Seq(Responses) : all = o \o first
  BY ConcatProperties, o \o first \in Seq(Responses)
<1>3. /\ Len(all) = Len(o) + Len(first) /\ Len(o) \in Nat /\ Len(first) \in Nat
      /\ \A i \in 1 .. Len(o) : all[i] = o[i]
      /\ \A i \in 1 .. Len(first) : all[i + Len(o)] = first[i]
  BY <1>2
<1>4. \A i \in 1 .. Len(all) : all[i].conn \in Conns
  <2>1. \A i \in 1 .. Len(all) : all[i] \in Responses
    OBVIOUS
  <2> QED BY <2>1 DEF Responses
<1>5. \A i \in 1 .. Len(all) : link[all[i].conn] # "new"
  <2> TAKE i \in 1 .. Len(all)
  <2>1. CASE i \in 1 .. Len(o)
    BY <1>1, <1>3, <2>1 DEF Meets
  <2>2. CASE ~(i \in 1 .. Len(o))
    <3>1. PICK j \in 1 .. Len(first) : j + Len(o) = i
      <4>1. i - Len(o) \in 1 .. Len(first) /\ (i - Len(o)) + Len(o) = i
        BY <1>3, <2>2
      <4> QED BY <4>1
    <3> QED BY <1>3, <3>1 DEF Meets
  <2> QED BY <2>1, <2>2
<1>6. \A i \in 1 .. Len(all) : link'[all[i].conn] # "new"
  BY <1>4, <1>5 DEF GoesOn
<1> QED BY <1>1, <1>2, <1>6 DEF Meets

LEMMA DeltasAlone ==
  ASSUME Types, Alone, NEW change \in Changing
  PROVE  Len(Deltas(subs, change)) \in {0, 1}
<1>1. Len(Deltas(subs, change)) = Cardinality(subs)
  BY DeltasTell
<1>2. CASE subs = {}
  BY <1>1, <1>2, FS_EmptySet
<1>3. ASSUME NEW s \in subs PROVE Cardinality(subs) = 1
  <2>1. subs = {s}
    BY DEF Alone
  <2> QED BY <2>1, FS_Singleton
<1> QED BY <1>1, <1>2, <1>3

LEMMA DeltasMeet ==
  ASSUME Types, AreMet, NEW change \in Changing, NEW ds, ds = Deltas(subs, change)
  PROVE  Meets(ds)
<1>1. \A i \in 1 .. Len(ds) : \E s \in subs : ds[i].conn = s.conn
  BY DeltasTell DEF DeltaFor
<1> QED BY <1>1 DEF Meets, AreMet

LEMMA OnlyOne ==
  ASSUME NEW r \in Responses, link[r.conn] # "new"
  PROVE  \E ds \in Seq(Responses) : ds = <<r>> /\ Len(ds) \in {0, 1} /\ Meets(ds)
<1>0. <<r>> \in Seq(Responses)
  OBVIOUS
<1>1. PICK ds \in Seq(Responses) : ds = <<r>>
  BY <1>0
<1>2. Len(ds) = 1 /\ \A i \in 1 .. Len(ds) : ds[i] = r
  BY <1>1
<1>3. Meets(ds)
  BY <1>2 DEF Meets
<1> QED BY <1>1, <1>2, <1>3

\* A cothread that comes from elsewhere leaves all that it has.
LEMMA AllLeave ==
  ASSUME Types, Types', Fits(blocked), Meets(outbox), GoesOn, UNCHANGED <<link, down>>,
         NEW responses \in Seq(Responses), Len(responses) \in {0, 1}, Meets(responses),
         Respond(blocked, responses)
  PROVE  /\ Telling(responses) /\ UNCHANGED Oweds
         /\ Fits(blocked)' /\ Meets(outbox)'
<1>1. PICK others \in Seq(Kept) : others = blocked
  BY DEF Types
<1>2. PICK first, rest : Leaves(others, responses, first, rest)
  <2>1. blocked \in Seq(Kept)
    BY <1>1
  <2>2. PICK first, rest : Leaves(blocked, responses, first, rest)
    BY <2>1, RespondLeaves
  <2>3. Leaves(others, responses, first, rest)
    BY <1>1, <2>2 DEF Leaves
  <2> QED BY <2>3
<1>3. first = responses /\ rest = << >>
  BY <1>2, OneLeaves
<1>4. outbox' = outbox \o responses
  BY <1>2, <1>3 DEF Leaves
<1>5. Fits(others)
  BY <1>1 DEF Fits
<1>6. RestFits(rest)' /\ \A r \in Answers : rest # <<r>>
  BY <1>3 DEF RestFits
<1>7. Fits(blocked)' /\ Owed(blocked') = Owed(others)
  <2>1. {r \in Answers : rest = <<r>>} = {}
    BY <1>6
  <2>2. /\ Fits(blocked)'
        /\ Owed(blocked') = Owed(others) \cup {r \in Answers : rest = <<r>>}
    BY <1>2, <1>5, <1>6, FitsLeave
  <2> QED BY <2>1, <2>2
<1>8. UNCHANGED Oweds
  <2>1. Oweds = Owed(others)
    BY <1>1, OwedsAre DEF Owed
  <2> QED BY <1>7, <2>1, OwedsWillBe
<1> QED BY <1>4, <1>7, <1>8, DownsTell, MetLeave

LEMMA BlockChangesServes ==
  ASSUME IInv, IInv', Served, BlockChanges
  PROVE  Served' /\ Contract!Next
<1>0. Types /\ Types' /\ Alone /\ Fits(blocked) /\ AskOnce /\ AreMet /\ Meets(outbox)
  BY DEF IInv, Served, AreMet
<1>1. PICK change \in Happenings(remote, changes + 1) :
        remote' = Changed(remote, change) /\ Respond(blocked, Deltas(subs, change))
  BY DEF BlockChanges
<1>2. /\ changes < MaxChanges /\ changes' = changes + 1
      /\ UNCHANGED <<link, up, down, handles, acks, subs, closedAt, requests>>
  BY DEF BlockChanges
<1>3. change \in Changing
  BY <1>0, <1>1, HappeningsTypes
<1>4. PICK ds \in Seq(Responses) : ds = Deltas(subs, change)
  BY <1>0, <1>3, DeltasTell
<1>5. Len(ds) \in {0, 1} /\ Meets(ds)
  BY <1>0, <1>3, <1>4, DeltasAlone, DeltasMeet
<1>6. Respond(blocked, ds)
  BY <1>1, <1>4
<1>7. GoesOn
  BY <1>0, <1>2, GoesOnStill DEF Asks
<1>8. /\ Telling(ds) /\ UNCHANGED Oweds
      /\ Fits(blocked)' /\ Meets(outbox)'
  BY <1>0, <1>2, <1>5, <1>6, <1>7, AllLeave
<1>9. UNCHANGED Ups
  BY <1>2 DEF Ups
<1>10. Contract!Next
  BY <1>1, <1>2, <1>4, <1>8, <1>9, PromisesChange
<1>11. Alone' /\ AskOnce' /\ AreMet'
  BY <1>0, <1>2, <1>8 DEF Alone, AskOnce, AreMet
<1> QED BY <1>8, <1>10, <1>11 DEF Served

LEMMA SubscribeServes ==
  ASSUME OneSubscriber, IInv, IInv', Served, NEW c \in Conns, TakesRequest(c),
         NEW r, r = Head(up[c]), Subscribe(c, r)
  PROVE  Served' /\ Contract!Next
<1>0. Types /\ Types' /\ Alone /\ Fits(blocked) /\ AskOnce /\ AreMet /\ Meets(outbox)
  BY DEF IInv, Served, AreMet
<1>1. /\ up[c] # << >> /\ up' = [up EXCEPT ![c] = Tail(@)]
      /\ UNCHANGED <<link, down, acks, closedAt, requests>>
  BY DEF TakesRequest
<1>2. /\ r.what = "block" /\ subs = {}
      /\ subs' = subs \cup {Subscription(c, r.id, "block")}
      /\ Respond(blocked, <<Response(c, "delta", r.id, Change("block", None, remote))>>)
      /\ UNCHANGED <<remote, changes>>
  BY DEF Subscribe, MaySubscribe
<1>3. r.id \in Nat
  <2>1. r \in Asking(requests)
    BY <1>0, <1>1, QueueMoves
  <2> QED BY <2>1 DEF Asking
<1>4. PICK delta \in Responses :
        delta = Response(c, "delta", r.id, Change("block", None, remote)) /\ delta.conn = c
  <2>0. Types
    BY <1>0
  <2>1. remote \in Blocks
    BY <2>0 DEF Types, TypeOK, Blocks
  <2>2. Change("block", None, remote) \in Changing
    BY <2>1 DEF Change, Changing
  <2>3. PICK changing \in Changing : changing = Change("block", None, remote)
    BY <2>2
  <2>4. /\ Response(c, "delta", r.id, changing) \in Responses
        /\ Response(c, "delta", r.id, changing).conn = c
    BY <1>3 DEF Response, Responses
  <2> QED BY <2>3, <2>4
<1>5. link[c] # "new"
  BY <1>0, <1>1 DEF AreMet
<1>6. PICK ds \in Seq(Responses) : ds = <<delta>> /\ Len(ds) \in {0, 1} /\ Meets(ds)
  BY <1>4, <1>5, OnlyOne
<1>7. Respond(blocked, ds)
  BY <1>2, <1>4, <1>6
<1>8. Taken(c, r)
  BY <1>0, <1>1, <1>2, UpsTake
<1>9. AskOnce' /\ GoesOn
  BY <1>0, <1>1, TakenOnce, GoesOnStill
<1>10. /\ Telling(ds) /\ UNCHANGED Oweds
       /\ Fits(blocked)' /\ Meets(outbox)'
  BY <1>0, <1>1, <1>6, <1>7, <1>9, AllLeave
<1>11. Contract!Next
  BY <1>2, <1>4, <1>6, <1>8, <1>10, PromisesSubscribe
<1>12. subs' = {Subscription(c, r.id, "block")} /\ Subscription(c, r.id, "block").conn = c
  BY <1>2 DEF Subscription
<1>13. Alone' /\ \A s \in subs' : link'[s.conn] # "new"
  BY <1>1, <1>5, <1>12 DEF Alone
<1>14. AreMet'
  <2>1. \A d \in Conns : up'[d] = up[d] \/ (d = c)
    BY <1>0, <1>1 DEF Types
  <2> QED BY <1>0, <1>1, <1>5, <1>10, <1>13, <2>1 DEF AreMet
<1> QED BY <1>9, <1>10, <1>11, <1>13, <1>14 DEF Served

\* The answers that are owed are to puts that have been taken.
LEMMA OwedAreTaken ==
  ASSUME NEW others, Fits(others), NEW q \in Owed(others)
  PROVE  ~Asks(q.id)
<1>1. PICK k \in 1 .. Len(others) : others[k].rest = <<q>>
  BY DEF Owed
<1>2. RestFits(<<q>>)
  BY <1>1 DEF Fits, RestFits
<1>3. PICK r : <<q>> = <<r>> /\ ~Asks(r.id)
  BY <1>2 DEF RestFits
<1>4. q = r
  BY <1>3
<1> QED BY <1>3, <1>4

\* What a put is answered with may have to wait.
LEMMA PutLeaves ==
  ASSUME Types, Types', Fits(blocked), Meets(outbox), GoesOn, UNCHANGED <<link, down>>,
         NEW ds \in Seq(Responses), Len(ds) \in {0, 1}, Meets(ds),
         NEW return \in Answers, link[return.conn] # "new", return.id \in 1 .. requests,
         Asks(return.id), ~Asks(return.id)',
         Respond(blocked, Append(ds, return))
  PROVE  /\ \E told : /\ \/ told = Append(ds, return) /\ UNCHANGED Oweds
                         \/ told = ds /\ Oweds' = Oweds \cup {return}
                      /\ Telling(told)
         /\ Fits(blocked)' /\ Meets(outbox)'
<1>0. return \in Responses /\ return.conn \in Conns
  BY DEF Answers, Responses
<1>1. PICK others \in Seq(Kept) : others = blocked
  BY DEF Types
<1>2. PICK one \in Seq(Responses) : one = <<return>> /\ Len(one) \in {0, 1} /\ Meets(one)
  BY <1>0, OnlyOne
<1>3. PICK all \in Seq(Responses) : all = ds \o one /\ all = Append(ds, return)
  <2>1. Append(ds, return) = ds \o <<return>>
    BY <1>0, AppendIsConcat
  <2>2. Append(ds, return) \in Seq(Responses)
    BY <1>0, AppendProperties
  <2> QED BY <1>2, <2>1, <2>2
<1>4. PICK first, rest : Leaves(others, all, first, rest)
  <2>1. blocked \in Seq(Kept) /\ Respond(blocked, all)
    BY <1>1, <1>3
  <2>2. PICK first, rest : Leaves(blocked, all, first, rest)
    BY <2>1, RespondLeaves
  <2>3. Leaves(others, all, first, rest)
    BY <1>1, <2>2 DEF Leaves
  <2> QED BY <2>3
<1>5. \/ first = Append(ds, return) /\ rest = << >>
      \/ first = ds /\ rest = <<return>>
  <2>1. Leaves(others, ds \o <<return>>, first, rest)
    BY <1>2, <1>3, <1>4 DEF Leaves
  <2> QED BY <1>0, <2>1, TwoLeave
<1>6. first \in Seq(Responses) /\ outbox' = outbox \o first
  BY <1>4 DEF Leaves
<1>7. Fits(others)
  BY <1>1 DEF Fits
<1>8. RestFits(rest)'
  <2>1. return.id \in 1 .. requests' /\ link'[return.conn] # "new"
    BY <1>0 DEF GoesOn
  <2> QED BY <1>5, <2>1 DEF RestFits
<1>9. \A r \in Answers : rest = <<r>> => r = return
  BY <1>5
<1>10. \A r \in Answers : rest = <<r>> => \A q \in Owed(others) : q.id # r.id
  BY <1>7, <1>9, OwedAreTaken
<1>11. /\ Fits(blocked)'
       /\ Owed(blocked') = Owed(others) \cup {r \in Answers : rest = <<r>>}
  BY <1>4, <1>7, <1>8, <1>10, FitsLeave
<1>12. Oweds = Owed(others) /\ Oweds' = Owed(others) \cup {r \in Answers : rest = <<r>>}
  <2>1. Oweds = Owed(others)
    BY <1>1, OwedsAre DEF Owed
  <2> QED BY <1>11, <2>1, OwedsWillBe
<1>13. Telling(first)
  BY <1>6, DownsTell
<1>14. Meets(first)
  <2>1. /\ Len(all) = Len(ds) + 1 /\ Len(ds) \in Nat /\ all[Len(ds) + 1] = return
        /\ \A i \in 1 .. Len(ds) : all[i] = ds[i]
    BY <1>0, <1>3, AppendProperties
  <2>2. Meets(all)
    BY <2>1 DEF Meets
  <2> QED BY <1>3, <1>5, <2>2
<1>15. Meets(outbox)'
  BY <1>6, <1>14, MetLeave
<1>16. CASE first = Append(ds, return) /\ rest = << >>
  <2>1. {r \in Answers : rest = <<r>>} = {}
    BY <1>16
  <2> QED BY <1>11, <1>12, <1>13, <1>15, <1>16, <2>1
<1>17. CASE first = ds /\ rest = <<return>>
  <2>1. {r \in Answers : rest = <<r>>} = {return}
    BY <1>9, <1>17
  <2> QED BY <1>11, <1>12, <1>13, <1>15, <1>17, <2>1
<1> QED BY <1>5, <1>16, <1>17

LEMMA PutServes ==
  ASSUME IInv, IInv', Served, NEW c \in Conns, TakesRequest(c), NEW r, r = Head(up[c]), Put(c, r)
  PROVE  Served' /\ Contract!Next
<1>0. Types /\ Types' /\ Alone /\ Fits(blocked) /\ AskOnce /\ AreMet /\ Meets(outbox)
  BY DEF IInv, Served, AreMet
<1>1. /\ up[c] # << >> /\ up' = [up EXCEPT ![c] = Tail(@)]
      /\ UNCHANGED <<link, down, acks, closedAt, requests>>
  BY DEF TakesRequest
<1>2. PICK change, return :
      /\ change = Change("value", r.field, changes + 1)
      /\ return = Response(c, "return", r.id, r.by)
      /\ r.what = "put"
      /\ changes' = changes + 1
      /\ remote' = Changed(remote, change)
      /\ Respond(blocked, Append(Deltas(subs, change), return))
      /\ UNCHANGED <<handles, subs>>
  BY DEF Put, AnswerLast
<1>3. r \in Asking(requests)
  BY <1>0, <1>1, QueueMoves
<1>4. r.field \in Fields /\ r.id \in 1 .. requests /\ r.by \in Nat /\ r.id \in Nat
  <2>1. requests \in Nat
    BY <1>0 DEF Types
  <2> QED BY <1>2, <1>3, <2>1 DEF Asking
<1>5. change \in Changing
  <2>1. Types
    BY <1>0
  <2> QED BY <1>2, <1>4, <2>1, ChangedTypes
<1>6. return \in Answers /\ return.conn = c /\ return.id = r.id
  <2>1. r.by # None
    BY <1>4, BlockAssumption
  <2> QED BY <1>2, <1>4, <2>1 DEF Response, Responses, Answers
<1>7. PICK ds \in Seq(Responses) : ds = Deltas(subs, change)
  BY <1>0, <1>5, DeltasTell
<1>8. Len(ds) \in {0, 1} /\ Meets(ds)
  BY <1>0, <1>5, <1>7, DeltasAlone, DeltasMeet
<1>9. Respond(blocked, Append(ds, return))
  BY <1>2, <1>7
<1>10. link[c] # "new"
  BY <1>0, <1>1 DEF AreMet
<1>11. Taken(c, r)
  BY <1>0, <1>1, <1>2, UpsTake
<1>12. AskOnce' /\ GoesOn /\ Asks(r.id) /\ ~Asks(r.id)'
  <2>1. IsPut(Head(up[c]), r.id)
    BY <1>2 DEF IsPut
  <2> QED BY <1>0, <1>1, <2>1, TakenOnce, GoesOnStill
<1>13. Asks(return.id) /\ ~Asks(return.id)'
  BY <1>6, <1>12 DEF Asks
<1>14. /\ \E told : /\ \/ told = Append(ds, return) /\ UNCHANGED Oweds
                       \/ told = ds /\ Oweds' = Oweds \cup {return}
                    /\ Telling(told)
       /\ Fits(blocked)' /\ Meets(outbox)'
  BY <1>0, <1>1, <1>4, <1>6, <1>8, <1>9, <1>10, <1>12, <1>13, PutLeaves
<1>15. Contract!Next
  BY <1>2, <1>7, <1>11, <1>14, PromisesPut
<1>16. Alone' /\ AreMet'
  <2>1. \A d \in Conns : up'[d] = up[d] \/ (d = c)
    BY <1>0, <1>1 DEF Types
  <2> QED BY <1>0, <1>1, <1>2, <1>10, <1>14, <2>1 DEF AreMet, Alone
<1> QED BY <1>12, <1>14, <1>15, <1>16 DEF Served

\* A client whose subscription is ended has gone.
LEMMA UnsubscribeServes ==
  ASSUME IInv, IInv', OpenAsk, Served, NEW c \in Conns, TakesRequest(c),
         NEW r, r = Head(up[c]), Unsubscribe(c, r)
  PROVE  Served' /\ (Contract!Next \/ UNCHANGED Promised)
<1>0. Types /\ Types' /\ Alone /\ Fits(blocked) /\ AskOnce /\ AreMet /\ Meets(outbox)
  BY DEF IInv, Served, AreMet
<1>1. /\ up[c] # << >> /\ up' = [up EXCEPT ![c] = Tail(@)]
      /\ UNCHANGED <<link, down, acks, closedAt, requests>>
  BY DEF TakesRequest
<1>2. PICK return :
      /\ return = Response(c, "return", r.id, None)
      /\ r.what = "unsubscribe"
      /\ subs' = {s \in subs : s.conn # c \/ s.id # r.id}
      /\ Respond(blocked, <<return>>)
      /\ UNCHANGED <<handles, remote, changes>>
  BY DEF Unsubscribe
<1>3. link[c] = "closed"
  <2>1. up[c] \in Seq(Asking(requests))
    BY <1>0 DEF Types
  <2>2. Head(up[c]) = up[c][1] /\ 1 \in 1 .. Len(up[c])
    BY <1>1, <2>1
  <2> QED BY <1>2, <2>2 DEF OpenAsk
<1>4. return \in Responses /\ return.conn = c
  <2>1. r \in Asking(requests)
    BY <1>0, <1>1, QueueMoves
  <2>2. r.id \in Nat
    BY <2>1 DEF Asking
  <2> QED BY <1>2, <2>2 DEF Response, Responses
<1>5. PICK ds \in Seq(Responses) : ds = <<return>> /\ Len(ds) \in {0, 1} /\ Meets(ds)
  <2>1. link[return.conn] # "new"
    BY <1>3, <1>4
  <2> QED BY <1>4, <2>1, OnlyOne
<1>6. Respond(blocked, ds)
  BY <1>2, <1>5
<1>7. UNCHANGED Ups
  BY <1>0, <1>1, <1>2, UpsTake
<1>8. AskOnce' /\ GoesOn
  BY <1>0, <1>1, TakenOnce, GoesOnStill
<1>9. /\ Telling(ds) /\ UNCHANGED Oweds
      /\ Fits(blocked)' /\ Meets(outbox)'
  BY <1>0, <1>1, <1>5, <1>6, <1>8, AllLeave
<1>10. UNCHANGED Downs
  <2>1. \A d \in Conns : link[d] = "open" => For(d, ds) = << >>
    BY <1>3, <1>4, <1>5, ForOne
  <2> QED BY <1>0, <1>9, <2>1, DownsStay
<1>11. UNCHANGED <<link, Ups, Downs, Oweds, remote, changes>>
  BY <1>1, <1>2, <1>7, <1>9, <1>10
<1>12. Contract!Next \/ UNCHANGED Promised
  <2>1. CASE subs' = subs
    BY <1>11, <2>1 DEF Promised
  <2>2. CASE subs' # subs
    <3>1. PICK s \in subs : s.conn = c /\ s.id = r.id
      BY <1>2, <2>2
    <3>2. subs = {s}
      BY <1>0 DEF Alone
    <3>3. subs' = subs \ {s}
      BY <1>2, <3>1, <3>2
    <3> QED BY <1>3, <1>11, <3>1, <3>3, PromisesForget
  <2> QED BY <2>1, <2>2
<1>13. subs' \subseteq subs
  BY <1>2
<1>14. Alone' /\ AreMet'
  <2>1. \A d \in Conns : up'[d] = up[d] \/ (d = c)
    BY <1>0, <1>1 DEF Types
  <2> QED BY <1>0, <1>1, <1>3, <1>9, <1>13, <2>1 DEF AreMet, Alone
<1> QED BY <1>8, <1>9, <1>12, <1>14 DEF Served

\* The one that goes on is not kept waiting any more, nor is its answer owed.
LEMMA WithoutOwed ==
  ASSUME NEW seq \in Seq(Kept), NEW k \in DOMAIN seq, NEW others, Without(others, seq, k), Fits(seq)
  PROVE  /\ Fits(others)
         /\ Owed(seq) = Owed(others) \cup {r \in Answers : seq[k].rest = <<r>>}
         /\ \A r \in Answers : seq[k].rest = <<r>> => r \notin Owed(others)
<1>0. DOMAIN seq = 1 .. Len(seq) /\ Len(seq) \in Nat /\ k \in 1 .. Len(seq)
  OBVIOUS
<1> DEFINE At(j) == IF j < k THEN j ELSE j + 1
<1>1. \A j \in 1 .. Len(others) : At(j) \in 1 .. Len(seq) /\ At(j) # k /\ others[j] = seq[At(j)]
  <2>1. Len(others) = Len(seq) - 1
    BY DEF Without
  <2>2. \A j \in 1 .. Len(others) : At(j) \in 1 .. Len(seq) /\ At(j) # k
    BY <1>0, <2>1
  <2> QED BY <2>2 DEF Without
<1>2. \A i, j \in 1 .. Len(others) : At(i) = At(j) => i = j
  BY <1>0
<1>3. \A i \in 1 .. Len(seq) : i # k => \E j \in 1 .. Len(others) : others[j] = seq[i]
  BY <1>0 DEF Without
<1> HIDE DEF At
<1>4. Fits(others)
  <2>1. \A j \in 1 .. Len(others) : RestFits(others[j].rest)
    BY <1>1 DEF Fits
  <2>2. OwedOnce(others)
    <3> SUFFICES ASSUME NEW i \in 1 .. Len(others), NEW j \in 1 .. Len(others),
                        NEW r \in Answers, NEW q \in Answers,
                        others[i].rest = <<r>>, others[j].rest = <<q>>, r.id = q.id
                 PROVE  i = j
      BY DEF OwedOnce
    <3>1. At(i) = At(j)
      BY <1>1 DEF Fits, OwedOnce
    <3> QED BY <1>2, <3>1
  <2> QED BY <2>1, <2>2 DEF Fits
<1>5. ASSUME NEW r \in Owed(others) PROVE r \in Owed(seq)
  <2>1. PICK j \in 1 .. Len(others) : others[j].rest = <<r>>
    BY DEF Owed
  <2> QED BY <1>1, <2>1 DEF Owed
<1>6. ASSUME NEW r \in Owed(seq) PROVE r \in Owed(others) \/ (r \in Answers /\ seq[k].rest = <<r>>)
  <2>1. PICK i \in 1 .. Len(seq) : seq[i].rest = <<r>> /\ r \in Answers
    BY DEF Owed
  <2>2. CASE i = k
    BY <2>1, <2>2
  <2>3. CASE i # k
    <3>1. PICK j \in 1 .. Len(others) : others[j] = seq[i]
      BY <1>3, <2>3
    <3> QED BY <2>1, <3>1 DEF Owed
  <2> QED BY <2>2, <2>3
<1>7. ASSUME NEW r \in Answers, seq[k].rest = <<r>> PROVE r \in Owed(seq) /\ r \notin Owed(others)
  <2>1. r \in Owed(seq)
    BY <1>0, <1>7 DEF Owed
  <2>2. ASSUME NEW j \in 1 .. Len(others), others[j].rest = <<r>> PROVE FALSE
    <3>1. At(j) \in 1 .. Len(seq) /\ At(j) # k /\ seq[At(j)].rest = <<r>>
      BY <1>1, <2>2
    <3>2. At(j) = k
      BY <1>0, <1>7, <3>1 DEF Fits, OwedOnce
    <3> QED BY <3>1, <3>2
  <2> QED BY <2>1, <2>2 DEF Owed
<1> QED BY <1>4, <1>5, <1>6, <1>7

\* It has one less to wait for.
LEMMA RestsStay ==
  ASSUME Types, Types', GoesOn, Fits(blocked), Len(blocked') = Len(blocked),
         \A j \in 1 .. Len(blocked) : blocked'[j].rest = blocked[j].rest
  PROVE  Fits(blocked)' /\ UNCHANGED Oweds
<1>1. PICK some : some = blocked
  OBVIOUS
<1>2. PICK more : more = blocked'
  OBVIOUS
<1>3. Len(more) = Len(some) /\ \A j \in 1 .. Len(some) : more[j].rest = some[j].rest
  BY <1>1, <1>2
<1>4. \A k \in 1 .. Len(some) : RestFits(some[k].rest)'
  BY <1>1, RestStays DEF Fits
<1>5. OwedOnce(some)
  BY <1>1 DEF Fits, OwedOnce
<1>6. \A k \in 1 .. Len(more) : RestFits(more[k].rest)'
  BY <1>3, <1>4
<1>7. OwedOnce(more)
  BY <1>3, <1>5 DEF OwedOnce
<1>8. Fits(blocked)'
  BY <1>2, <1>6, <1>7 DEF Fits
<1>9. Owed(more) = Owed(some)
  BY <1>3 DEF Owed
<1>10. Oweds = Owed(some) /\ Oweds' = Owed(more)
  BY <1>1, <1>2, <1>8, OwedsAre, OwedsWillBe DEF Owed
<1> QED BY <1>8, <1>9, <1>10

LEMMA TakeItemServes ==
  ASSUME IInv, IInv', Served, TakeItem
  PROVE  Served' /\ (Contract!Next \/ UNCHANGED Promised)
<1>0. Types /\ Types' /\ Alone /\ Fits(blocked) /\ AskOnce /\ AreMet /\ Meets(outbox)
  BY DEF IInv, Served, AreMet
<1>1. PICK i \in DOMAIN blocked :
        /\ IF HasAll(blocked[i])
             THEN Respond(RemoveAt(blocked, i), blocked[i].rest)
             ELSE /\ blocked' = [blocked EXCEPT ![i].need = @ - 1]
                  /\ UNCHANGED <<outbox, count>>
        /\ UNCHANGED <<link, up, down, handles, remote, subs, changes, closedAt, requests>>
  BY DEF TakeItem
<1>2. PICK some \in Seq(Kept) : some = blocked
  BY <1>0 DEF Types
<1>3. GoesOn /\ UNCHANGED Ups /\ Alone' /\ AskOnce'
  BY <1>0, <1>1, GoesOnStill DEF Asks, Ups, Alone, AskOnce
<1>4. \A c \in Conns : link'[c] = "new" => up'[c] = << >>
  BY <1>0, <1>1 DEF AreMet
<1>5. \A s \in subs' : link'[s.conn] # "new"
  BY <1>0, <1>1 DEF AreMet
<1>6. CASE HasAll(blocked[i])
  <2>1. PICK others \in Seq(Kept) : others = RemoveAt(some, i) /\ Without(others, some, i)
    <3>1. Without(RemoveAt(some, i), some, i)
      BY <1>2, OthersStay
    <3> QED BY <3>1 DEF Without
  <2>2. Fits(some) /\ i \in DOMAIN some
    BY <1>0, <1>2 DEF Fits
  <2>3. PICK left \in Seq(Responses) : left = some[i].rest /\ (left = << >> \/ \E r \in Answers : left = <<r>>)
    <3>1. some[i].rest \in Seq(Responses) /\ i \in 1 .. Len(some)
      BY <2>2, KeptAre
    <3>2. RestFits(some[i].rest)
      BY <2>2, <3>1 DEF Fits
    <3> QED BY <3>1, <3>2 DEF RestFits
  <2>4. Len(left) \in {0, 1}
    BY <2>3
  <2>5. PICK first, rest : Leaves(others, left, first, rest)
    <3>1. Respond(others, left)
      BY <1>1, <1>2, <1>6, <2>1, <2>3
    <3> QED BY <1>0, <3>1, RespondLeaves
  <2>6. first = left /\ rest = << >> /\ outbox' = outbox \o left
    <3>1. first = left /\ rest = << >>
      BY <2>4, <2>5, OneLeaves
    <3> QED BY <2>5, <3>1 DEF Leaves
  <2>7. /\ Fits(others)
        /\ Owed(some) = Owed(others) \cup {r \in Answers : left = <<r>>}
        /\ \A r \in Answers : left = <<r>> => r \notin Owed(others)
    BY <2>1, <2>2, <2>3, WithoutOwed
  <2>8. Fits(blocked)' /\ Owed(blocked') = Owed(others)
    <3>1. RestFits(rest)' /\ \A r \in Answers : rest # <<r>>
      BY <2>6 DEF RestFits
    <3>2. {r \in Answers : rest = <<r>>} = {}
      BY <3>1
    <3>3. /\ Fits(blocked)'
          /\ Owed(blocked') = Owed(others) \cup {r \in Answers : rest = <<r>>}
      BY <1>3, <2>5, <2>7, <3>1, FitsLeave
    <3> QED BY <3>2, <3>3
  <2>9. Oweds = Owed(some) /\ Oweds' = Owed(others)
    <3>1. Oweds = Owed(some)
      BY <1>0, <1>2, OwedsAre DEF Owed
    <3> QED BY <1>0, <2>8, <3>1, OwedsWillBe
  <2>10. Telling(left)
    BY <1>0, <1>1, <2>6, DownsTell
  <2>11. Meets(left)
    <3>1. RestFits(left)
      <4>1. i \in 1 .. Len(some)
        BY <2>2
      <4> QED BY <2>2, <2>3, <4>1 DEF Fits
    <3>2. CASE left = << >>
      BY <3>2 DEF Meets
    <3>3. ASSUME NEW r \in Answers, left = <<r>>, link[r.conn] # "new" PROVE Meets(left)
      <4>1. Len(left) = 1 /\ left[1] = r
        BY <3>3
      <4> QED BY <3>3, <4>1 DEF Meets
    <3> QED BY <3>1, <3>2, <3>3 DEF RestFits
  <2>12. Meets(outbox)'
    BY <1>0, <1>3, <2>6, <2>11, MetLeave
  <2>13. Contract!Next \/ UNCHANGED Promised
    <3>1. CASE left = << >>
      <4>1. {r \in Answers : left = <<r>>} = {}
        BY <3>1
      <4>2. UNCHANGED Oweds
        BY <2>7, <2>9, <4>1
      <4>3. UNCHANGED Downs
        <5>1. \A d \in Conns : link[d] = "open" => For(d, left) = << >>
          BY <3>1, ForNone
        <5> QED BY <1>0, <2>10, <5>1, DownsStay
      <4> QED BY <1>1, <1>3, <4>2, <4>3 DEF Promised
    <3>2. ASSUME NEW r \in Answers, left = <<r>> PROVE Contract!Next
      <4>1. {q \in Answers : left = <<q>>} = {r}
        BY <3>2
      <4>2. r \in Oweds /\ Oweds' = Oweds \ {r}
        BY <2>7, <2>9, <3>2, <4>1
      <4> QED BY <1>1, <1>3, <2>10, <3>2, <4>2, PromisesAnswer
    <3> QED BY <2>3, <3>1, <3>2
  <2>14. AreMet'
    BY <1>4, <1>5, <2>12 DEF AreMet
  <2> QED BY <1>3, <2>8, <2>13, <2>14 DEF Served
<1>7. CASE ~HasAll(blocked[i])
  <2>1. blocked' = [blocked EXCEPT ![i].need = @ - 1] /\ UNCHANGED <<outbox, count>>
    BY <1>1, <1>7
  <2>2. /\ Len(blocked') = Len(blocked)
        /\ \A j \in 1 .. Len(blocked) : blocked'[j].rest = blocked[j].rest
    <3>1. some[i] \in Kept /\ blocked' = [some EXCEPT ![i].need = @ - 1]
      BY <1>2, <2>1
    <3>2. [some[i] EXCEPT !.need = @ - 1].rest = some[i].rest
      BY <3>1 DEF Kept
    <3>3. \A j \in 1 .. Len(some) :
            blocked'[j] = IF j = i THEN [some[i] EXCEPT !.need = @ - 1] ELSE some[j]
      BY <3>1
    <3>4. Len(blocked') = Len(some)
      BY <3>1
    <3> QED BY <1>2, <3>2, <3>3, <3>4
  <2>3. Fits(blocked)' /\ UNCHANGED Oweds
    BY <1>0, <1>3, <2>2, RestsStay
  <2>4. UNCHANGED Downs
    BY <1>1, <2>1 DEF Downs
  <2>5. UNCHANGED Promised
    BY <1>1, <1>3, <2>3, <2>4 DEF Promised
  <2>6. Meets(outbox)'
    BY <1>0, <1>1, <2>1 DEF Meets
  <2> QED BY <1>3, <1>4, <1>5, <2>3, <2>5, <2>6 DEF Served, AreMet
<1> QED BY <1>6, <1>7

\* What is dropped is for nobody, what is written was to be.
LEMMA WriteResponseServes ==
  ASSUME IInv, IInv', Served, WriteResponse
  PROVE  Served' /\ UNCHANGED Promised
<1>0. Types /\ Types' /\ Alone /\ Fits(blocked) /\ AskOnce /\ AreMet /\ Meets(outbox)
      /\ outbox \in Seq(Responses) /\ outbox # << >>
  BY DEF IInv, Served, AreMet, Types, WriteResponse
<1>1. PICK o \in Seq(Responses) : o = outbox /\ o # << >>
  BY <1>0
<1>2. PICK r \in Responses, t \in Seq(Responses) :
        r = Head(o) /\ t = Tail(o) /\ o = <<r>> \o t
        /\ Len(o) \in Nat /\ r = o[1] /\ Len(t) = Len(o) - 1
        /\ \A i \in 1 .. Len(t) : t[i] = o[i + 1]
  <2>1. Head(o) \in Responses /\ Tail(o) \in Seq(Responses) /\ Head(o) = o[1]
        /\ o = <<Head(o)>> \o Tail(o) /\ Len(o) \in Nat /\ Len(Tail(o)) = Len(o) - 1
        /\ \A i \in 1 .. Len(o) - 1 : Tail(o)[i] = o[i + 1]
    BY <1>1, HeadTailProperties
  <2> QED BY <2>1
<1>3. PICK c \in Conns : c = r.conn
  BY <1>2 DEF Responses
<1>4. /\ outbox' = t
      /\ UNCHANGED <<link, count, blocked, remote, subs, changes, closedAt, requests>>
  BY <1>1, <1>2 DEF WriteResponse
<1>5. \/ /\ link[c] = "open"
         /\ down' = [down EXCEPT ![c] = Append(@, r)]
         /\ UNCHANGED <<up, handles>>
      \/ /\ link[c] = "closed"
         /\ \/ UNCHANGED up
            \/ /\ up' = [up EXCEPT ![c] = Append(@, [what |-> "unsubscribe", id |-> r.id])]
               /\ r.id \in handles[c]
         /\ UNCHANGED down
  BY <1>1, <1>2, <1>3 DEF WriteResponse, EndsSubscription
<1>6. AskOnce' /\ (\A n : Asks(n)' => Asks(n)) /\ UNCHANGED Ups
  <2>1. CASE UNCHANGED up
    <3>1. AskOnce'
      <4>1. AskOnce
        BY <1>0
      <4> QED BY <2>1, <4>1 DEF AskOnce, IsPut
    <3>2. \A n : Asks(n)' => Asks(n)
      BY <2>1 DEF Asks
    <3>3. UNCHANGED Ups
      BY <2>1 DEF Ups
    <3> QED BY <3>1, <3>2, <3>3
  <2>2. ASSUME up' = [up EXCEPT ![c] = Append(@, [what |-> "unsubscribe", id |-> r.id])],
               r.id \in handles[c]
        PROVE  AskOnce' /\ (\A n : Asks(n)' => Asks(n)) /\ UNCHANGED Ups
    <3>1. PICK n \in Nat : n = requests
      BY <1>0 DEF Types
    <3>2. r.id \in 1 .. n
      BY <1>0, <2>2, <3>1 DEF Types
    <3>3. PICK ask \in Asking(n) : ask = [what |-> "unsubscribe", id |-> r.id]
      BY <3>2 DEF Asking
    <3>4. up' = [up EXCEPT ![c] = Append(@, ask)] /\ ask.what = "unsubscribe"
      BY <2>2, <3>3
    <3>5. up[c] \in Seq(Asking(n))
      BY <1>0, <3>1 DEF Types
    <3>6. UNCHANGED Ups
      BY <1>0, <3>4, <3>5, UpsGrow
    <3>7. /\ AskOnce'
          /\ \A m : Asks(m)' => Asks(m) \/ IsPut(ask, m)
      BY <1>0, <3>4, AskedOnce
    <3> QED BY <3>4, <3>6, <3>7 DEF IsPut
  <2> QED BY <1>5, <2>1, <2>2
<1>7. GoesOn
  BY <1>0, <1>4, <1>6, GoesOnStill
<1>8. Fits(blocked)'
  BY <1>0, <1>4, <1>7, FitsStay
<1>9. UNCHANGED Oweds
  BY <1>4 DEF Oweds, Rest
<1>10. \A d : For(d, o) = (IF d = c THEN <<r>> ELSE << >>) \o For(d, t)
  <2> TAKE d
  <2>1. <<r>> \in Seq(Responses)
    OBVIOUS
  <2>2. For(d, <<r>> \o t) = For(d, <<r>>) \o For(d, t)
    BY <2>1, ForBoth
  <2>3. For(d, <<r>>) = IF d = c THEN <<r>> ELSE << >>
    BY <1>3, ForOne
  <2> QED BY <1>2, <2>2, <2>3
<1>11. \A d \in Conns : d # c => Downs'[d] = Downs[d]
  <2> SUFFICES ASSUME NEW d \in Conns, d # c PROVE Downs'[d] = Downs[d]
    OBVIOUS
  <2>1. PICK f \in Seq(Responses) : f = For(d, t)
    BY ForType
  <2>2. For(d, o) = f
    BY <1>10, <2>1, ConcatEmptySeq
  <2>3. down'[d] = down[d]
    BY <1>0, <1>5 DEF Types
  <2>4. Downs[d] = IF link[d] = "open" THEN down[d] \o f ELSE down[d]
    BY <1>1, <2>2, DownsAre
  <2>5. Downs'[d] = IF link[d] = "open" THEN down[d] \o f ELSE down[d]
    BY <1>4, <2>1, <2>3, DownsAre
  <2> QED BY <2>4, <2>5
<1>12. Downs'[c] = Downs[c]
  <2>1. CASE link[c] = "closed"
    BY <1>4, <1>5, <2>1, DownsAre
  <2>2. CASE link[c] # "closed"
    <3>1. link[c] = "open" /\ down'[c] = Append(down[c], r)
      BY <1>0, <1>5, <2>2 DEF Types
    <3>2. PICK f \in Seq(Responses), a \in Seq(Responses), b \in Seq(Responses) :
            f = For(c, t) /\ a = down[c] /\ b = <<r>>
      <4>1. <<r>> \in Seq(Responses) /\ down[c] \in Seq(Responses)
        BY <1>0 DEF Types
      <4> QED BY <4>1, ForType
    <3>3. Append(a, r) = a \o b
      BY <3>2, AppendIsConcat
    <3>4. a \o (b \o f) = (a \o b) \o f
      BY Regrouped
    <3>5. Downs[c] = a \o (b \o f)
      BY <1>1, <1>10, <3>1, <3>2, DownsAre
    <3>6. Downs'[c] = Append(a, r) \o f
      BY <1>4, <3>1, <3>2, DownsAre
    <3> QED BY <3>3, <3>4, <3>5, <3>6
  <2> QED BY <2>1, <2>2
<1>13. UNCHANGED Downs
  BY <1>11, <1>12, DownsAre
<1>14. UNCHANGED Promised
  BY <1>4, <1>6, <1>9, <1>13 DEF Promised
<1>15. Meets(outbox)'
  <2>1. \A i \in 1 .. Len(t) : i + 1 \in 1 .. Len(o)
    BY <1>2
  <2>2. \A i \in 1 .. Len(t) : link[t[i].conn] # "new"
    BY <1>0, <1>1, <1>2, <2>1 DEF Meets
  <2> QED BY <1>4, <2>2 DEF Meets
<1>16. Alone' /\ AreMet'
  <2>1. \A d \in Conns : link[d] = "new" => up'[d] = up[d]
    BY <1>0, <1>5 DEF Types
  <2> QED BY <1>0, <1>4, <1>15, <2>1 DEF AreMet, Alone
<1> QED BY <1>6, <1>8, <1>14, <1>16 DEF Served

--------------------------------------------------------------------------------
(***************************************************************************)
(* The steps of the clients, and the refinement                            *)
(***************************************************************************)
LEMMA ForNobody ==
  ASSUME NEW S, NEW seq \in Seq(S), NEW c, \A i \in 1 .. Len(seq) : seq[i].conn # c
  PROVE  For(c, seq) = << >>
<1> DEFINE places == {i \in DOMAIN seq : seq[i].conn = c}
<1>1. \A n \in 1 .. Len(seq) : n \notin places
  OBVIOUS
<1>2. For(c, seq) = Part(seq, places)
  BY DEF For
<1> HIDE DEF places
<1>3. PICK upto : Takes(upto, seq, places)
  BY PartTakes
<1> DEFINE Some == {n \in 0 .. Len(seq) : upto[n] # << >>}
<1>4. Len(seq) \in Nat
  OBVIOUS
<1>5. 0 \notin Some /\ \A n \in 1 .. Len(seq) : n \in Some => n - 1 \in Some
  <2>1. \A n \in 1 .. Len(seq) : upto[n] = upto[n - 1] /\ n - 1 \in 0 .. Len(seq)
    BY <1>1, <1>3, <1>4 DEF Takes
  <2> QED BY <1>3, <2>1 DEF Takes
<1>6. Some \in SUBSET (0 .. Len(seq))
  OBVIOUS
<1> HIDE DEF Some
<1>7. Some = {}
  BY <1>4, <1>5, <1>6, NoneBegins
<1>8. upto[Len(seq)] = << >>
  BY <1>4, <1>7 DEF Some
<1> QED BY <1>2, <1>3, <1>8 DEF Takes

\* A client that comes is new to everybody.
LEMMA ConnectServes ==
  ASSUME IInv, IInv', Served, NEW c \in Conns, Connect(c), ServerRests
  PROVE  Served' /\ Contract!Next
<1>0. Types /\ Types' /\ Alone /\ Fits(blocked) /\ AreMet /\ Meets(outbox)
  BY DEF IInv, Served, AreMet
<1>1. /\ \A d \in Conns : link[d] = "new" <=> d >= c
      /\ link' = [link EXCEPT ![c] = "open"]
      /\ UNCHANGED <<up, down, closedAt, requests>>
      /\ UNCHANGED <<handles, outbox, count, acks, blocked, remote, subs, changes>>
  BY DEF Connect, ServerRests
<1>2. link[c] = "new" /\ \A d \in Conns : link'[d] = IF d = c THEN "open" ELSE link[d]
  <2>1. c >= c
    BY DEF Conns
  <2> QED BY <1>0, <1>1, <2>1 DEF Types, TypeOK
<1>3. \A d \in Conns : link[d] # "new" => link'[d] # "new"
  BY <1>2
<1>4. UNCHANGED Ups /\ UNCHANGED Oweds
  <2>1. UNCHANGED Ups
    BY <1>1 DEF Ups
  <2>2. UNCHANGED Oweds
    BY <1>1 DEF Oweds, Rest
  <2> QED BY <2>1, <2>2
<1>5. AskOnce' /\ GoesOn
  <2>0. AskOnce /\ requests \in Nat /\ UNCHANGED <<up, requests>>
    BY <1>0, <1>1 DEF Served, Types
  <2>1. AskOnce'
    BY <2>0 DEF AskOnce, IsPut
  <2>2. \A n : Asks(n)' => Asks(n)
    BY <2>0 DEF Asks, IsPut
  <2> QED BY <1>3, <2>0, <2>1, <2>2 DEF GoesOn
<1>6. Fits(blocked)'
  BY <1>0, <1>1, <1>5, FitsStay
<1>7. UNCHANGED Downs
  <2>1. \A d \in Conns : d # c => Downs'[d] = Downs[d]
    BY <1>1, <1>2, DownsAre
  <2>2. Downs'[c] = Downs[c]
    <3>1. PICK o \in Seq(Responses), a \in Seq(Responses) : o = outbox /\ a = down[c]
      BY <1>0 DEF Types
    <3>2. For(c, o) = << >>
      <4>1. \A i \in 1 .. Len(o) : o[i].conn # c
        BY <1>0, <1>2, <3>1 DEF Meets
      <4> QED BY <4>1, ForNobody
    <3>3. Downs[c] = a
      BY <1>2, <3>1, DownsAre
    <3>4. Downs'[c] = a \o << >>
      BY <1>1, <1>2, <3>1, <3>2, DownsAre
    <3> QED BY <3>3, <3>4, ConcatEmptySeq
  <2> QED BY <2>1, <2>2, DownsAre
<1>8. Contract!Next
  BY <1>1, <1>4, <1>7, PromisesClients
<1>9. Meets(outbox)'
  <2>1. PICK o \in Seq(Responses) : o = outbox
    BY <1>0 DEF Types
  <2>2. \A i \in 1 .. Len(o) : o[i].conn \in Conns /\ link[o[i].conn] # "new"
    <3>1. \A i \in 1 .. Len(o) : o[i] \in Responses
      OBVIOUS
    <3> QED BY <1>0, <2>1, <3>1 DEF Meets, Responses
  <2> QED BY <1>1, <1>3, <2>1, <2>2 DEF Meets
<1>10. Alone' /\ AreMet'
  <2>1. \A s \in subs : s.conn \in Conns
    BY <1>0, SubsAre
  <2> QED BY <1>0, <1>1, <1>2, <1>3, <1>9, <2>1 DEF AreMet, Alone
<1> QED BY <1>5, <1>6, <1>8, <1>10 DEF Served

LEMMA AskServes ==
  ASSUME IInv, IInv', Served, NEW c \in Conns, Ask(c), ServerRests
  PROVE  Served' /\ Contract!Next
<1>0. Types /\ Types' /\ Alone /\ Fits(blocked) /\ AskOnce /\ AreMet /\ Meets(outbox)
      /\ requests \in Nat /\ MaxRequests \in Nat
  BY HandlerAssumption DEF IInv, Served, AreMet, Types
<1>1. PICK r : /\ r \in {[what |-> "block", id |-> requests + 1]}
                    \cup {[what |-> "put", id |-> requests + 1, field |-> f, by |-> requests + 1] :
                          f \in DOMAIN remote}
               /\ up' = [up EXCEPT ![c] = Append(@, r)]
  BY DEF Ask
<1>2. /\ link[c] = "open" /\ requests < MaxRequests /\ requests' = requests + 1
      /\ UNCHANGED <<link, down, closedAt>>
      /\ UNCHANGED <<handles, outbox, count, acks, blocked, remote, subs, changes>>
  BY DEF Ask, ServerRests
<1>3. PICK n \in 1 .. MaxRequests : n = requests + 1 /\ n \in Nat
  BY <1>0, <1>2
<1>4. DOMAIN remote \subseteq Fields
  <2>1. Types
    BY <1>0
  <2> QED BY <2>1 DEF Types, TypeOK
<1>5. r \in Asking(n) /\ r.id = n /\ r.what # "unsubscribe" /\ r \in Contract!Requests
  <2>1. r \in {[what |-> "block", id |-> n]}
               \cup {[what |-> "put", id |-> n, field |-> f, by |-> n] : f \in DOMAIN remote}
    BY <1>1, <1>3
  <2>2. CASE r = [what |-> "block", id |-> n]
    BY <1>3, <2>2 DEF Asking, Contract!Requests
  <2>3. ASSUME NEW f \in DOMAIN remote, r = [what |-> "put", id |-> n, field |-> f, by |-> n]
        PROVE  r \in Asking(n) /\ r.id = n /\ r.what # "unsubscribe" /\ r \in Contract!Requests
    <3>1. f \in Fields
      BY <1>4
    <3> QED BY <1>3, <2>3, <3>1 DEF Asking, Contract!Requests
  <2> QED BY <2>1, <2>2, <2>3
<1>6. up[c] \in Seq(Asking(n))
  <2>1. up[c] \in Seq(Asking(requests))
    BY <1>0 DEF Types
  <2>2. Asking(requests) \subseteq Asking(n)
    <3>1. 1 .. requests \subseteq 1 .. n
      BY <1>0, <1>3
    <3> QED BY <3>1 DEF Asking
  <2> QED BY <2>1, <2>2, SeqMonotonic
<1>7. Ups' = [Ups EXCEPT ![c] = Append(@, r)]
  BY <1>0, <1>1, <1>5, <1>6, UpsGrow
<1>8. ~Asks(n)
  <2> SUFFICES ASSUME NEW d \in Conns, NEW i \in 1 .. Len(up[d]), IsPut(up[d][i], n) PROVE FALSE
    BY DEF Asks
  <2>1. up[d] \in Seq(Asking(requests))
    BY <1>0 DEF Types
  <2>2. up[d][i] \in Asking(requests)
    BY <2>1
  <2>3. up[d][i].id \in 1 .. requests
    BY <2>2 DEF Asking
  <2> QED BY <1>0, <1>3, <2>3 DEF IsPut
<1>9. /\ AskOnce'
      /\ \A m : Asks(m)' => Asks(m) \/ IsPut(r, m)
  <2>1. ~Asks(r.id)
    BY <1>5, <1>8
  <2> QED BY <1>0, <1>1, <2>1, AskedOnce
<1>10. GoesOn
  <2>1. \A m \in 1 .. requests : ~IsPut(r, m)
    BY <1>0, <1>3, <1>5 DEF IsPut
  <2>2. requests \in Nat /\ requests' \in Nat /\ requests <= requests'
    BY <1>0, <1>2
  <2> QED BY <1>2, <1>9, <2>1, <2>2 DEF GoesOn
<1>11. Fits(blocked)'
  BY <1>0, <1>2, <1>10, FitsStay
<1>12. UNCHANGED Oweds /\ UNCHANGED Downs
  <2>1. UNCHANGED Oweds
    BY <1>2 DEF Oweds, Rest
  <2>2. UNCHANGED Downs
    BY <1>2 DEF Downs
  <2> QED BY <2>1, <2>2
<1>13. Contract!Next
  BY <1>2, <1>5, <1>7, <1>12, PromisesClients
<1>14. Alone' /\ AreMet'
  <2>1. \A d \in Conns : link[d] = "new" => up'[d] = up[d]
    BY <1>0, <1>1, <1>2 DEF Types
  <2>2. Meets(outbox)'
    BY <1>0, <1>2 DEF Meets
  <2> QED BY <1>0, <1>2, <2>1, <2>2 DEF AreMet, Alone
<1> QED BY <1>9, <1>11, <1>13, <1>14 DEF Served

\* What tornado's thread has not written yet is lost.
LEMMA CloseServes ==
  ASSUME IInv, IInv', Served, NEW c \in Conns, Close(c), ServerRests
  PROVE  Served' /\ Contract!Next
<1>0. Types /\ Types' /\ Alone /\ Fits(blocked) /\ AskOnce /\ AreMet /\ Meets(outbox)
      /\ requests \in Nat
  BY DEF IInv, Served, AreMet, Types
<1>1. /\ link[c] = "open" /\ link' = [link EXCEPT ![c] = "closed"]
      /\ UNCHANGED up \/ up' = [up EXCEPT ![c] = << >>]
      /\ UNCHANGED <<down, requests>>
      /\ UNCHANGED <<handles, outbox, count, acks, blocked, remote, subs, changes>>
  BY DEF Close, ServerRests
<1>2. \A d \in Conns : link'[d] = IF d = c THEN "closed" ELSE link[d]
  BY <1>0, <1>1 DEF Types, TypeOK
<1>3. \A d \in Conns : up'[d] = up[d] \/ (d = c /\ up'[d] = << >>)
  BY <1>0, <1>1 DEF Types
<1>4. \A d \in Conns : \A i \in 1 .. Len(up'[d]) : i \in 1 .. Len(up[d]) /\ up'[d][i] = up[d][i]
  <2>1. \A i : i \notin 1 .. Len(<< >>)
    OBVIOUS
  <2> QED BY <1>3, <2>1
<1>5. AskOnce' /\ \A n : Asks(n)' => Asks(n)
  <2>1. AskOnce'
    <3>0. SUFFICES \A d, e \in Conns : \A i \in 1 .. Len(up'[d]), j \in 1 .. Len(up'[e]) : \A n :
                     IsPut(up'[d][i], n) /\ IsPut(up'[e][j], n) => d = e /\ i = j
      BY DEF AskOnce
    <3> TAKE d, e \in Conns
    <3> TAKE i \in 1 .. Len(up'[d]), j \in 1 .. Len(up'[e])
    <3>1. AskOnce /\ i \in 1 .. Len(up[d]) /\ j \in 1 .. Len(up[e])
      BY <1>0, <1>4
    <3>2. up'[d][i] = up[d][i] /\ up'[e][j] = up[e][j]
      BY <1>4
    <3> QED BY <3>1, <3>2 DEF AskOnce, IsPut
  <2>2. \A n : Asks(n)' => Asks(n)
    BY <1>4 DEF Asks
  <2> QED BY <2>1, <2>2
<1>6. GoesOn
  BY <1>0, <1>1, <1>2, <1>5 DEF GoesOn
<1>7. Fits(blocked)'
  BY <1>0, <1>1, <1>6, FitsStay
<1>8. UNCHANGED Oweds
  BY <1>1 DEF Oweds, Rest
<1>9. UNCHANGED Ups \/ Ups' = [Ups EXCEPT ![c] = << >>]
  <2>1. CASE UNCHANGED up
    BY <2>1 DEF Ups
  <2>2. CASE up' = [up EXCEPT ![c] = << >>]
    <3>1. \A d \in Conns : up'[d] = IF d = c THEN << >> ELSE up[d]
      BY <1>0, <2>2 DEF Types
    <3>2. \A d \in Conns : Ups'[d] = IF d = c THEN << >> ELSE Ups[d]
      BY <3>1, UpsAre, AskedNone
    <3>3. Ups = [d \in Conns |-> Ups[d]] /\ Ups' = [d \in Conns |-> Ups'[d]]
      BY UpsAre
    <3>4. Ups' = [Ups EXCEPT ![c] = << >>]
      BY <3>2, <3>3
    <3> QED BY <3>4
  <2> QED BY <1>1, <2>1, <2>2
<1>10. \E n \in 0 .. Len(Downs[c]) : Downs' = [Downs EXCEPT ![c] = SubSeq(@, 1, n)]
  <2>1. PICK a \in Seq(Responses), f \in Seq(Responses) : a = down[c] /\ f = For(c, outbox)
    <3>1. down[c] \in Seq(Responses) /\ outbox \in Seq(Responses)
      BY <1>0 DEF Types
    <3> QED BY <3>1, ForType
  <2>2. PICK all \in Seq(Responses) : all = a \o f
    BY ConcatProperties, a \o f \in Seq(Responses)
  <2>3. Len(a) \in 0 .. Len(all) /\ SubSeq(all, 1, Len(a)) = a
    BY <2>2
  <2>4. Downs[c] = all /\ Downs'[c] = a
    BY <1>1, <1>2, <2>1, <2>2, DownsAre
  <2>5. \A d \in Conns : d # c => Downs'[d] = Downs[d]
    BY <1>1, <1>2, DownsAre
  <2>6. Downs' = [Downs EXCEPT ![c] = a]
    <3>1. Downs = [d \in Conns |-> Downs[d]] /\ Downs' = [d \in Conns |-> Downs'[d]]
      BY DownsAre
    <3> QED BY <2>4, <2>5, <3>1
  <2> QED BY <2>3, <2>4, <2>6
<1>11. Contract!Next
  BY <1>1, <1>8, <1>9, <1>10, PromisesClients
<1>12. Meets(outbox)'
  <2>1. PICK o \in Seq(Responses) : o = outbox
    BY <1>0 DEF Types
  <2>2. \A i \in 1 .. Len(o) : o[i].conn \in Conns /\ link[o[i].conn] # "new"
    <3>1. \A i \in 1 .. Len(o) : o[i] \in Responses
      OBVIOUS
    <3> QED BY <1>0, <2>1, <3>1 DEF Meets, Responses
  <2> QED BY <1>1, <1>2, <2>1, <2>2 DEF Meets
<1>13. Alone' /\ AreMet'
  <2>1. \A s \in subs : s.conn \in Conns
    BY <1>0, SubsAre
  <2> QED BY <1>0, <1>1, <1>2, <1>3, <1>12, <2>1 DEF AreMet, Alone
<1> QED BY <1>5, <1>7, <1>11, <1>13 DEF Served

LEMMA HandleRequestServes ==
  ASSUME OneSubscriber, IInv, IInv', OpenAsk, Served, NEW c \in Conns, HandleRequest(c)
  PROVE  Served' /\ (Contract!Next \/ UNCHANGED Promised)
<1>1. TakesRequest(c)
  BY DEF HandleRequest, TakesRequest
<1>2. PICK r : r = Head(up[c]) /\ (Subscribe(c, r) \/ Put(c, r) \/ Unsubscribe(c, r))
  BY DEF HandleRequest
<1> QED BY <1>1, <1>2, SubscribeServes, PutServes, UnsubscribeServes

LEMMA NextServes ==
  ASSUME OneSubscriber, IInv, IInv', OpenAsk, Served, Next
  PROVE  Served' /\ (Contract!Next \/ UNCHANGED Promised)
<1>1. ASSUME NEW c \in Conns, Client(c), ServerRests PROVE Served' /\ Contract!Next
  BY <1>1, ConnectServes, AskServes, CloseServes DEF Client
<1>2. CASE BlockChanges
  BY <1>2, BlockChangesServes
<1>3. ASSUME NEW c \in Conns, HandleRequest(c)
      PROVE  Served' /\ (Contract!Next \/ UNCHANGED Promised)
  BY <1>3, HandleRequestServes
<1>4. CASE TakeItem
  BY <1>4, TakeItemServes
<1>5. CASE WriteResponse
  BY <1>5, WriteResponseServes
<1> QED BY <1>1, <1>2, <1>3, <1>4, <1>5 DEF Next, Server, ServerRests

LEMMA RestServes ==
  ASSUME IInv, Served, UNCHANGED vars
  PROVE  Served' /\ UNCHANGED Promised
<1>0. Types /\ Alone /\ Fits(blocked) /\ AskOnce /\ AreMet /\ Meets(outbox)
  BY DEF IInv, Served, AreMet
<1>1. UNCHANGED <<link, up, down, handles, outbox, count, acks, blocked, remote, subs,
                  changes, closedAt, requests>>
  BY DEF vars
<1>2. AskOnce' /\ \A n : Asks(n)' => Asks(n)
  <2>1. AskOnce /\ UNCHANGED up
    BY <1>0, <1>1
  <2>2. AskOnce'
    BY <2>1 DEF AskOnce, IsPut
  <2>3. \A n : Asks(n)' => Asks(n)
    BY <2>1 DEF Asks, IsPut
  <2> QED BY <2>2, <2>3
<1>3. Fits(blocked)'
  BY <1>0, <1>1, <1>2, GoesOnStill, FitsStay
<1>4. Alone' /\ AreMet'
  BY <1>0, <1>1 DEF Alone, AreMet, Meets
<1>5. UNCHANGED Promised
  <2>1. UNCHANGED Ups
    BY <1>1 DEF Ups
  <2>2. UNCHANGED Downs
    BY <1>1 DEF Downs
  <2>3. UNCHANGED Oweds
    BY <1>1 DEF Oweds, Rest
  <2> QED BY <1>1, <2>1, <2>2, <2>3 DEF Promised
<1> QED BY <1>2, <1>3, <1>4, <1>5 DEF Served

LEMMA InitServes == Init => Served
<1> SUFFICES ASSUME Init PROVE Served
  OBVIOUS
<1>1. /\ blocked = << >> /\ outbox = << >> /\ subs = {}
      /\ \A c \in Conns : up[c] = << >>
  BY DEF Init
<1>2. Len(<< >>) = 0 /\ 1 .. 0 = {}
  OBVIOUS
<1>3. Alone /\ AreMet
  BY <1>1, <1>2 DEF Alone, AreMet, Meets
<1>4. AskOnce
  BY <1>1, <1>2 DEF AskOnce
<1>5. Fits(blocked)
  BY <1>1, <1>2 DEF Fits, OwedOnce
<1> QED BY <1>3, <1>4, <1>5 DEF Served

\* With all its threads and queues the server does what BlockServer says, for any
\* number of websockets, requests and changes: to a client it is a sequence of changes
\* that are told in their order, and of puts that are answered after the Delta of the
\* change that they make, at once or later (_on_response() and on_response() hand
\* over each response, and keep a cothread waiting between two of them).  With more
\* than one subscriber at a time a cothread may be kept waiting among the Deltas of one
\* change, which BlockServer does not have.
THEOREM ServerServes == OneSubscriber => (Spec => ServesBlock)
<1> SUFFICES ASSUME OneSubscriber PROVE Spec => ServesBlock
  OBVIOUS
<1>1. Init => Served /\ Contract!ServerInit
  BY InitServes, PromisesInit
<1>2. IInv /\ OpenAsk /\ (IInv /\ OpenAsk)' /\ Served /\ [Next]_vars
        => Served' /\ [Contract!Next]_(Contract!serverVars)
  <2> SUFFICES ASSUME IInv, OpenAsk, IInv', Served, [Next]_vars
               PROVE  Served' /\ (Contract!Next \/ UNCHANGED Contract!serverVars)
    OBVIOUS
  <2>1. UNCHANGED Promised => UNCHANGED Contract!serverVars
    BY SamePromise
  <2>2. CASE Next
    BY <2>1, <2>2, NextServes
  <2>3. CASE UNCHANGED vars
    BY <2>1, <2>3, RestServes
  <2> QED BY <2>2, <2>3
<1> QED BY <1>1, <1>2, HandlersAreTold, PTL DEF Spec, ServesBlock, Contract!Spec

================================================================================
