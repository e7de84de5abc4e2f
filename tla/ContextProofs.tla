---------------------------- MODULE ContextProofs ----------------------------
(***************************************************************************)
(* What the queue of a Context promises whatever is waited for, by any     *)
(* number of waits inside each other: an answer comes once, to somebody    *)
(* who expects it; STOPs are obeyed from the last call of                  *)
(* ignore_stops_before_now(); a wait that returns has what it was asked    *)
(* for; and, in its scope, nobody goes on waiting for what is done.        *)
(***************************************************************************)
EXTENDS Context, WellFoundedInduction, FiniteSetTheorems, SequenceTheorems, TLAPS

--------------------------------------------------------------------------------
(***************************************************************************)
(* Lists of futures                                                        *)
(***************************************************************************)
LEMMA SmallestOf ==
  ASSUME NEW S \in SUBSET Nat, S # {}
  PROVE  \E x \in S : \A y \in S : x <= y
<1> DEFINE R == {ss \in Nat \X Nat : ss[1] < ss[2]}
<1>1. IsWellFoundedOn(R, Nat)
  BY NatLessThanWellFounded DEF OpToRel
<1>2. PICK x \in S : \A y \in S : ~(<<y, x>> \in R)
  BY <1>1, WFMin
<1>3. \A y \in S : <<y, x>> \in Nat \X Nat /\ <<y, x>>[1] = y /\ <<y, x>>[2] = x
  OBVIOUS
<1>4. \A y \in S : ~(y < x)
  BY <1>2, <1>3
<1> QED BY <1>4

LEMMA WithoutIsDefined ==
  ASSUME NEW s \in Seq(Ids), NEW places
  PROVE  \E f : /\ f = [n \in 0 .. Len(s) |->
                         IF n = 0 THEN << >>
                         ELSE IF n \in places THEN f[n - 1] ELSE Append(f[n - 1], s[n])]
                /\ Without(s, places) = f[Len(s)]
<1> DEFINE Def(f, m) == f = [n \in 0 .. m |->
                         IF n = 0 THEN << >>
                         ELSE IF n \in places THEN f[n - 1] ELSE Append(f[n - 1], s[n])]
           Bad == {m \in Nat : ~\E f : Def(f, m)}
           kept == CHOOSE f : Def(f, Len(s))
<1>1. Bad = {}
  <2>1. SUFFICES ASSUME Bad # {} PROVE FALSE
    OBVIOUS
  <2>2. PICK m \in Bad : \A y \in Bad : m <= y
    BY <2>1, SmallestOf
  <2>3. Def([n \in 0 .. 0 |-> << >>], 0)
    OBVIOUS
  <2>4. m # 0
    BY <2>2, <2>3
  <2>5. m \in Nat /\ m - 1 \in Nat /\ m - 1 < m
    BY <2>2, <2>4
  <2>6. m - 1 \notin Bad
    <3> HIDE DEF Bad
    <3> QED BY <2>2, <2>5
  <2>7. PICK f : Def(f, m - 1)
    <3> HIDE DEF Def
    <3> QED BY <2>5, <2>6
  <2> DEFINE g == [n \in 0 .. m |->
                     IF n < m THEN f[n]
                     ELSE IF m \in places THEN f[m - 1] ELSE Append(f[m - 1], s[m])]
  <2>8. \A n \in 0 .. m - 1 : g[n] = f[n]
    BY <2>2
  <2>9. ASSUME NEW n \in 0 .. m
        PROVE  g[n] = IF n = 0 THEN << >>
                      ELSE IF n \in places THEN g[n - 1] ELSE Append(g[n - 1], s[n])
    <3>1. CASE n < m
      <4>1. n \in 0 .. m - 1
        BY <2>5, <3>1
      <4>2. f[n] = IF n = 0 THEN << >>
                   ELSE IF n \in places THEN f[n - 1] ELSE Append(f[n - 1], s[n])
        <5> HIDE DEF Bad
        <5> QED BY <2>7, <4>1
      <4>3. g[n] = f[n] /\ (n # 0 => g[n - 1] = f[n - 1])
        BY <2>5, <2>8, <4>1
      <4> QED BY <4>2, <4>3
    <3>2. CASE n = m
      BY <2>4, <2>5, <2>8, <3>2
    <3> QED BY <2>5, <3>1, <3>2
  <2>10. Def(g, m)
    BY <2>9
  <2> QED BY <2>2, <2>10
<1>2. Def(kept, Len(s))
  BY <1>1, LenProperties
<1>3. Without(s, places) = kept[Len(s)]
  BY DEF Without
<1> QED BY <1>2, <1>3

\* What is left are the futures at the other places, and all of them.
LEMMA WithoutKeepsTheRest ==
  ASSUME NEW s \in Seq(Ids), NEW places
  PROVE  LET rest == Without(s, places)
         IN  /\ rest \in Seq(Ids) /\ Len(rest) <= Len(s)
             /\ \A k \in 1 .. Len(rest) : \E n \in 1 .. Len(s) : n \notin places /\ rest[k] = s[n]
             /\ \A n \in 1 .. Len(s) :
                  n \notin places => \E k \in 1 .. Len(rest) : rest[k] = s[n]
<1>1. PICK f : /\ f = [n \in 0 .. Len(s) |->
                         IF n = 0 THEN << >>
                         ELSE IF n \in places THEN f[n - 1] ELSE Append(f[n - 1], s[n])]
               /\ Without(s, places) = f[Len(s)]
  BY WithoutIsDefined
<1> DEFINE Good(m) ==
             /\ f[m] \in Seq(Ids) /\ Len(f[m]) <= m
             /\ \A k \in 1 .. Len(f[m]) : \E n \in 1 .. m : n \notin places /\ f[m][k] = s[n]
             /\ \A n \in 1 .. m : n \notin places => \E k \in 1 .. Len(f[m]) : f[m][k] = s[n]
           Bad == {m \in 0 .. Len(s) : ~Good(m)}
<1>2. Len(s) \in Nat /\ Bad \subseteq Nat
  BY LenProperties
<1>3. Good(0)
  <2>1. f[0] = << >>
    BY <1>1, <1>2
  <2> QED BY <2>1
<1>4. ASSUME NEW m \in 1 .. Len(s), Good(m - 1) PROVE Good(m)
  <2>1. m - 1 \in Nat /\ m \in Nat /\ s[m] \in Ids
    BY <1>2, ElementOfSeq
  <2>2. f[m] = IF m \in places THEN f[m - 1] ELSE Append(f[m - 1], s[m])
    <3> m \in 0 .. Len(s) /\ m # 0
      BY <1>2
    <3> HIDE DEF Bad
    <3> QED BY <1>1
  <2>3. CASE m \in places
    BY <1>4, <2>1, <2>2, <2>3
  <2>4. CASE m \notin places
    <3> DEFINE old == f[m - 1]
               new == f[m]
    <3>1. old \in Seq(Ids) /\ new = Append(old, s[m]) /\ Len(old) \in Nat
      BY <1>4, <2>2, <2>4, LenProperties
    <3>2. /\ new \in Seq(Ids) /\ Len(new) = Len(old) + 1
          /\ new[Len(old) + 1] = s[m]
          /\ \A k \in 1 .. Len(old) : new[k] = old[k]
      BY <2>1, <3>1, AppendProperties
    <3>3. Len(new) <= m
      BY <1>4, <2>1, <3>1, <3>2
    <3>4. ASSUME NEW k \in 1 .. Len(new)
          PROVE  \E n \in 1 .. m : n \notin places /\ new[k] = s[n]
      <4>1. CASE k = Len(old) + 1
        BY <2>1, <2>4, <3>2, <4>1
      <4>2. CASE k \in 1 .. Len(old)
        <5>1. PICK n \in 1 .. m - 1 : n \notin places /\ old[k] = s[n]
          BY <1>4, <4>2
        <5> QED BY <2>1, <3>2, <4>2, <5>1
      <4> QED BY <3>1, <3>2, <4>1, <4>2
    <3>5. ASSUME NEW n \in 1 .. m, n \notin places
          PROVE  \E k \in 1 .. Len(new) : new[k] = s[n]
      <4>1. CASE n = m
        BY <3>1, <3>2, <4>1
      <4>2. CASE n \in 1 .. m - 1
        <5>1. PICK k \in 1 .. Len(old) : old[k] = s[n]
          BY <1>4, <3>5, <4>2
        <5> QED BY <3>1, <3>2, <5>1
      <4> QED BY <2>1, <4>1, <4>2
    <3> QED BY <3>2, <3>3, <3>4, <3>5
  <2> QED BY <2>3, <2>4
<1>5. Bad = {}
  <2>1. SUFFICES ASSUME Bad # {} PROVE FALSE
    OBVIOUS
  <2>2. PICK m \in Bad : \A y \in Bad : m <= y
    BY <1>2, <2>1, SmallestOf
  <2> HIDE DEF Good
  <2>3. m \in 1 .. Len(s) /\ m - 1 \in 0 .. Len(s) /\ ~(m <= m - 1)
    BY <1>2, <1>3, <2>2
  <2>4. Good(m - 1)
    BY <2>2, <2>3
  <2> QED BY <1>4, <2>2, <2>3, <2>4
<1>6. Good(Len(s))
  <2> HIDE DEF Good
  <2> QED BY <1>2, <1>5
<1> QED BY <1>1, <1>6
\* Lists, and what is in them.
LEMMA PlacesOfAList ==
  ASSUME NEW s \in Seq(Ids)
  PROVE  /\ Len(s) \in Nat /\ DOMAIN s = 1 .. Len(s)
         /\ \A i : i \in ToSet(s) <=> \E n \in 1 .. Len(s) : s[n] = i
         /\ ToSet(s) \subseteq Ids
         /\ s = << >> <=> ToSet(s) = {}
<1>1. Len(s) \in Nat /\ DOMAIN s = 1 .. Len(s)
  BY LenProperties
<1>2. \A i : i \in ToSet(s) <=> \E n \in 1 .. Len(s) : s[n] = i
  BY <1>1 DEF ToSet
<1>3. \A n \in 1 .. Len(s) : s[n] \in Ids
  BY <1>1, ElementOfSeq
<1>4. s = << >> <=> Len(s) = 0
  BY EmptySeq, <1>1
<1>5. s = << >> <=> ToSet(s) = {}
  <2>1. CASE Len(s) = 0
    BY <1>2, <1>4, <2>1
  <2>2. CASE Len(s) # 0
    <3>1. s[1] \in ToSet(s)
      BY <1>1, <1>2, <2>2
    <3> QED BY <1>4, <2>2, <3>1
  <2> QED BY <2>1, <2>2
<1> QED BY <1>1, <1>2, <1>3, <1>5

LEMMA RemovedIsDefined ==
  ASSUME NEW s \in Seq(Ids)
  PROVE  \E f : /\ f = [n \in DOMAIN s |-> s[n] \notin requests /\ (n = 1 \/ ~f[n - 1])]
                /\ FilterWhileIterating(s) = Without(s, {n \in DOMAIN s : f[n]})
<1> DEFINE Def(f, m) == f = [n \in 1 .. m |-> s[n] \notin requests /\ (n = 1 \/ ~f[n - 1])]
           Bad == {m \in Nat : ~\E f : Def(f, m)}
           removed == CHOOSE f : f = [n \in DOMAIN s |-> s[n] \notin requests /\ (n = 1 \/ ~f[n - 1])]
<1>1. Bad = {}
  <2>1. SUFFICES ASSUME Bad # {} PROVE FALSE
    OBVIOUS
  <2>2. PICK m \in Bad : \A y \in Bad : m <= y
    BY <2>1, SmallestOf
  <2>3. Def([n \in 1 .. 0 |-> TRUE], 0)
    OBVIOUS
  <2>4. m # 0
    BY <2>2, <2>3
  <2>5. m \in Nat /\ m - 1 \in Nat /\ m - 1 < m
    BY <2>2, <2>4
  <2>6. m - 1 \notin Bad
    <3> HIDE DEF Bad
    <3> QED BY <2>2, <2>5
  <2>7. PICK f : Def(f, m - 1)
    <3> HIDE DEF Def
    <3> QED BY <2>5, <2>6
  <2> DEFINE last == s[m] \notin requests /\ (m = 1 \/ ~f[m - 1])
             g == [n \in 1 .. m |-> IF n < m THEN f[n] ELSE last]
  <2>8. \A n \in 1 .. m - 1 : g[n] = f[n]
    BY <2>5
  <2>9. ASSUME NEW n \in 1 .. m
        PROVE  g[n] = (s[n] \notin requests /\ (n = 1 \/ ~g[n - 1]))
    <3>1. CASE n < m
      <4>1. n \in 1 .. m - 1 /\ (n # 1 => n - 1 \in 1 .. m - 1)
        BY <2>5, <3>1
      <4>2. f[n] = (s[n] \notin requests /\ (n = 1 \/ ~f[n - 1]))
        <5> HIDE DEF Bad
        <5> QED BY <2>7, <4>1
      <4>3. g[n] = f[n] /\ (n # 1 => g[n - 1] = f[n - 1])
        BY <2>8, <4>1
      <4> HIDE DEF g
      <4> QED BY <4>2, <4>3
    <3>2. CASE n = m
      <4>1. g[n] = last
        BY <2>5, <3>2
      <4>2. n # 1 => g[n - 1] = f[n - 1]
        BY <2>5, <2>8, <3>2
      <4> HIDE DEF g
      <4> QED BY <3>2, <4>1, <4>2
    <3> QED BY <2>5, <3>1, <3>2
  <2>10. Def(g, m)
    <3> DEFINE h == [n \in 1 .. m |-> s[n] \notin requests /\ (n = 1 \/ ~g[n - 1])]
    <3>1. \A n \in 1 .. m : g[n] = h[n]
      BY <2>9
    <3> QED BY <3>1
  <2> QED BY <2>2, <2>10
<1>2. \E f : Def(f, Len(s))
  BY <1>1, PlacesOfAList
<1>3. removed = [n \in DOMAIN s |-> s[n] \notin requests /\ (n = 1 \/ ~removed[n - 1])]
  <2>1. \E f : f = [n \in DOMAIN s |-> s[n] \notin requests /\ (n = 1 \/ ~f[n - 1])]
    <3>1. DOMAIN s = 1 .. Len(s)
      BY PlacesOfAList
    <3> QED BY <1>2, <3>1
  <2> QED BY <2>1
<1>4. FilterWhileIterating(s) = Without(s, {n \in DOMAIN s : removed[n]})
  BY DEF FilterWhileIterating
<1> QED BY <1>3, <1>4

\* The filter drops only what is no request any more; a list of one loses it.
LEMMA FilterDropsTheDone ==
  ASSUME NEW s \in Seq(Ids)
  PROVE  LET rest == Filter(s)
         IN  /\ rest \in Seq(Ids) /\ Len(rest) <= Len(s)
             /\ ToSet(rest) \subseteq ToSet(s)
             /\ ToSet(s) \cap requests \subseteq ToSet(rest)
             /\ Len(s) <= 1 => ToSet(rest) \subseteq requests
<1>1. PICK f : /\ f = [n \in DOMAIN s |-> s[n] \notin requests /\ (n = 1 \/ ~f[n - 1])]
               /\ FilterWhileIterating(s) = Without(s, {n \in DOMAIN s : f[n]})
  BY RemovedIsDefined
<1> DEFINE gone == {n \in DOMAIN s : f[n]}
           rest == Without(s, gone)
<1>2. Filter(s) = rest
  BY <1>1 DEF Filter
<1>3. /\ rest \in Seq(Ids) /\ Len(rest) <= Len(s)
      /\ \A k \in 1 .. Len(rest) : \E n \in 1 .. Len(s) : n \notin gone /\ rest[k] = s[n]
      /\ \A n \in 1 .. Len(s) : n \notin gone => \E k \in 1 .. Len(rest) : rest[k] = s[n]
  <2> HIDE DEF gone
  <2> QED BY WithoutKeepsTheRest
<1>4. DOMAIN s = 1 .. Len(s) /\ Len(s) \in Nat
  BY PlacesOfAList
<1>5. \A n \in 1 .. Len(s) : n \in gone => s[n] \notin requests
  BY <1>1, <1>4
<1>6. 1 \in 1 .. Len(s) /\ s[1] \notin requests => 1 \in gone
  BY <1>1, <1>4
<1> HIDE DEF gone, rest
<1>7. \A i : i \in ToSet(rest) <=> \E n \in 1 .. Len(rest) : rest[n] = i
  BY <1>3, PlacesOfAList
<1>8. \A i : i \in ToSet(s) <=> \E n \in 1 .. Len(s) : s[n] = i
  BY PlacesOfAList
<1>9. ToSet(rest) \subseteq ToSet(s)
  BY <1>3, <1>7, <1>8
<1>10. ASSUME NEW i \in ToSet(s), i \in requests PROVE i \in ToSet(rest)
  BY <1>3, <1>5, <1>10, <1>7, <1>8
<1>11. ASSUME Len(s) <= 1, NEW i \in ToSet(rest) PROVE i \in requests
  <2>1. PICK n \in 1 .. Len(s) : n \notin gone /\ i = s[n]
    BY <1>3, <1>11, PlacesOfAList
  <2>2. n = 1
    BY <1>4, <1>11, <2>1
  <2> QED BY <1>6, <2>1, <2>2
<1> QED BY <1>2, <1>3, <1>9, <1>10, <1>11
--------------------------------------------------------------------------------
(***************************************************************************)
(* The calls in progress                                                   *)
(***************************************************************************)
WaitCalls == [futures: Seq(Ids), asked: SUBSET Ids, calling: BOOLEAN, alone: BOOLEAN]

LEMMA LastOfTheStack ==
  ASSUME stack \in Seq(WaitCalls)
  PROVE  /\ Len(stack) \in Nat
         /\ stack = << >> <=> Len(stack) = 0
         /\ \A n \in 1 .. Len(stack) : stack[n] \in WaitCalls
         /\ stack # << >> => /\ Len(stack) \in 1 .. Len(stack)
                             /\ Last(stack) = stack[Len(stack)]
                             /\ Last(stack) \in WaitCalls
<1>1. Len(stack) \in Nat /\ (stack = << >> <=> Len(stack) = 0)
  BY LenProperties, EmptySeq
<1>2. \A n \in 1 .. Len(stack) : stack[n] \in WaitCalls
  BY ElementOfSeq
<1> QED BY <1>1, <1>2 DEF Last

\* The first n of the calls.
LEMMA FirstCalls ==
  ASSUME stack \in Seq(WaitCalls), NEW n \in 0 .. Len(stack)
  PROVE  /\ SubSeq(stack, 1, n) \in Seq(WaitCalls) /\ Len(SubSeq(stack, 1, n)) = n
         /\ \A m \in 1 .. n : SubSeq(stack, 1, n)[m] = stack[m]
BY LastOfTheStack, SubSeqProperties

LEMMA RaisedLeaves ==
  ASSUME stack \in Seq(WaitCalls), NEW how, NEW depth \in 0 .. Len(stack), Raised(how, depth)
  PROVE  /\ stack' \in Seq(WaitCalls) /\ Len(stack') \in 0 .. depth
         /\ \A n \in 1 .. Len(stack') : stack'[n] = stack[n]
         /\ outcome' = how
<1>1. PICK n \in 0 .. depth : stack' = SubSeq(stack, 1, n)
  BY DEF Raised
<1>2. n \in 0 .. Len(stack)
  BY LastOfTheStack
<1> QED BY <1>1, <1>2, FirstCalls DEF Raised

LEMMA RemainingLeaves ==
  ASSUME stack \in Seq(WaitCalls), stack # << >>, NEW futures \in Seq(Ids), Remaining(futures)
  PROVE  \/ /\ Over(futures) /\ outcome' = "ok"
            /\ stack' \in Seq(WaitCalls) /\ Len(stack') = Len(stack) - 1
            /\ \A n \in 1 .. Len(stack') : stack'[n] = stack[n]
         \/ /\ ~Over(futures) /\ outcome' = outcome
            /\ stack' \in Seq(WaitCalls) /\ Len(stack') = Len(stack)
            /\ \A n \in 1 .. Len(stack) - 1 : stack'[n] = stack[n]
            /\ stack'[Len(stack)].futures = futures
            /\ stack'[Len(stack)].asked = Last(stack).asked
            /\ stack'[Len(stack)].alone = Last(stack).alone
            /\ ~stack'[Len(stack)].calling
<1>1. CASE Over(futures)
  <2>1. stack' = SubSeq(stack, 1, Len(stack) - 1) /\ outcome' = "ok"
    BY <1>1 DEF Remaining, Front
  <2>2. Len(stack) - 1 \in 0 .. Len(stack)
    BY LastOfTheStack
  <2> QED BY <1>1, <2>1, <2>2, FirstCalls
<1>2. CASE ~Over(futures)
  <2> DEFINE call == [Last(stack) EXCEPT !.futures = futures, !.calling = FALSE]
  <2>1. stack' = [stack EXCEPT ![Len(stack)] = call] /\ outcome' = outcome
    BY <1>2, LastOfTheStack DEF Remaining
  <2>2. call \in WaitCalls
    BY LastOfTheStack DEF WaitCalls
  <2> HIDE DEF call
  <2>3. stack' \in Seq(WaitCalls) /\ Len(stack') = Len(stack)
    BY <2>1, <2>2, LastOfTheStack, ExceptSeq
  <2>4. \A n \in 1 .. Len(stack) : stack'[n] = IF n = Len(stack) THEN call ELSE stack[n]
    BY <2>1, LastOfTheStack
  <2>5. \A n \in 1 .. Len(stack) - 1 : stack'[n] = stack[n]
    BY <2>4, LastOfTheStack
  <2>6. stack'[Len(stack)] = call
    BY <2>4, LastOfTheStack
  <2>7. /\ call.futures = futures /\ call.asked = Last(stack).asked
        /\ call.alone = Last(stack).alone /\ ~call.calling
    BY LastOfTheStack DEF call, WaitCalls
  <2> QED BY <1>2, <2>1, <2>3, <2>5, <2>6, <2>7
<1> QED BY <1>1, <1>2

LEMMA DeeperCalls ==
  ASSUME stack \in Seq(WaitCalls), NEW call \in WaitCalls, stack' = Deeper(call)
  PROVE  /\ stack' \in Seq(WaitCalls) /\ Len(stack') = Len(stack) + 1
         /\ \A n \in 1 .. Len(stack) :
              /\ stack'[n].futures = stack[n].futures /\ stack'[n].asked = stack[n].asked
              /\ stack'[n].calling = stack[n].calling /\ ~stack'[n].alone
         /\ stack'[Len(stack) + 1] = call
<1> DEFINE old == [n \in DOMAIN stack |-> [stack[n] EXCEPT !.alone = FALSE]]
<1>1. DOMAIN stack = 1 .. Len(stack) /\ Len(stack) \in Nat
  BY LenProperties
<1>2. \A n \in 1 .. Len(stack) : [stack[n] EXCEPT !.alone = FALSE] \in WaitCalls
  BY LastOfTheStack DEF WaitCalls
<1>3. old \in Seq(WaitCalls) /\ Len(old) = Len(stack)
  BY <1>1, <1>2, IsASeq
<1>4. \A n \in 1 .. Len(stack) : old[n] = [stack[n] EXCEPT !.alone = FALSE]
  BY <1>1
<1>5. stack' = Append(old, call)
  BY DEF Deeper
<1> HIDE DEF old
<1>6. \A n \in 1 .. Len(stack) :
        /\ old[n].futures = stack[n].futures /\ old[n].asked = stack[n].asked
        /\ old[n].calling = stack[n].calling /\ ~old[n].alone
  BY <1>4, LastOfTheStack DEF WaitCalls
<1> QED BY <1>1, <1>3, <1>5, <1>6, AppendProperties
--------------------------------------------------------------------------------
(***************************************************************************)
(* The queue                                                               *)
(***************************************************************************)
IsAnswer(message) == message.kind \in {"Return", "Error"}

LEMMA PlacesOfTheQueue ==
  ASSUME queue \in Seq(Messages)
  PROVE  /\ Len(queue) \in Nat /\ DOMAIN queue = 1 .. Len(queue)
         /\ queue = << >> <=> Len(queue) = 0
         /\ \A n \in 1 .. Len(queue) : queue[n] \in Messages
         /\ queue # << >> => Head(queue) = queue[1]
BY LenProperties, EmptySeq, ElementOfSeq, HeadTailProperties

LEMMA QueueGets ==
  ASSUME queue \in Seq(Messages), NEW message \in Messages, queue' = Append(queue, message)
  PROVE  /\ queue' \in Seq(Messages) /\ Len(queue') = Len(queue) + 1
         /\ \A n \in 1 .. Len(queue) : queue'[n] = queue[n]
         /\ queue'[Len(queue) + 1] = message
BY AppendProperties, LenProperties

LEMMA QueueLosesItsHead ==
  ASSUME queue \in Seq(Messages), queue # << >>, queue' = Tail(queue)
  PROVE  /\ queue' \in Seq(Messages) /\ Len(queue') = Len(queue) - 1 /\ Len(queue') \in Nat
         /\ \A n \in 1 .. Len(queue') : n + 1 \in 1 .. Len(queue) /\ queue'[n] = queue[n + 1]
         /\ 1 \in 1 .. Len(queue)
BY HeadTailProperties, LenProperties, EmptySeq

LEMMA Taken ==
  ASSUME queue \in Seq(Messages), NEW kind, NEW i, Take(kind, i)
  PROVE  /\ stack # << >> /\ ~Last(stack).calling /\ queue # << >>
         /\ queue[1] = Message(kind, i) /\ queue' = Tail(queue)
BY PlacesOfTheQueue DEF Take

LEMMA KindsOfMessages ==
  /\ \A m \in Messages : IsAnswer(m) => m.id \in Ids
  /\ \A m \in Messages : m.kind = "Sentinel" => m.id \in 1 .. MaxInterruptions
  /\ \A kind \in {"Return", "Error", "Good", "Bad", "Other"}, i \in Ids :
       Message(kind, i) \in Messages
  /\ \A n \in 1 .. MaxInterruptions : Message("Sentinel", n) \in Messages
  /\ Message("Stop", 0) \in Messages
  /\ \A kind, i : Message(kind, i).kind = kind /\ Message(kind, i).id = i
BY DEF Messages, Message, IsAnswer

--------------------------------------------------------------------------------
(***************************************************************************)
(* The types, and the answers                                              *)
(***************************************************************************)
NumberTypes ==
  /\ sentinel \in 0 .. MaxInterruptions /\ ignores \in 0 .. MaxInterruptions
  /\ stops \in 0 .. MaxInterruptions /\ timeouts \in 0 .. MaxTimeouts
  /\ updates \in [Subscriptions -> 0 .. MaxUpdates] /\ outcome \in Outcomes

FutureTypes ==
  /\ future \in [Ids -> {"none", "running", "result", "error"}]
  /\ requests = {i \in Ids : future[i] = "running"}

Types ==
  /\ queue \in Seq(Messages) /\ stack \in Seq(WaitCalls)
  /\ NumberTypes /\ FutureTypes

\* An answer is for a request; only a call can fail; a subscription's answer is the
\* one to its unsubscription.
AnswersAreExpected ==
  \A n \in 1 .. Len(queue) :
    IsAnswer(queue[n]) =>
      /\ queue[n].id \in requests
      /\ queue[n].id \in Subscriptions => queue[n].kind = "Return" /\ queue[n].id \in pending

\* There is one to each request.
AnswersComeOnce ==
  \A n, m \in 1 .. Len(queue) :
    IsAnswer(queue[n]) /\ IsAnswer(queue[m]) /\ queue[n].id = queue[m].id => n = m

\* A subscription that has not ended is subscribed, or is being unsubscribed.
SubscriptionsAreHeld ==
  watched \cap pending = {} /\ watched \cup pending = requests \cap Subscriptions

AnswerInv == Types /\ AnswersAreExpected /\ AnswersComeOnce /\ SubscriptionsAreHeld

LEMMA AnswersToARequest ==
  ASSUME queue \in Seq(Messages), NEW i
  PROVE  Answers(i) = {n \in 1 .. Len(queue) : IsAnswer(queue[n]) /\ queue[n].id = i}
BY PlacesOfTheQueue DEF Answers, IsAnswer

LEMMA AnswerInvIsTypeOK == AnswerInv => TypeOK
<1> SUFFICES ASSUME AnswerInv PROVE TypeOK
  OBVIOUS
<1>1. ASSUME NEW i \in Ids PROVE Cardinality(Answers(i)) <= IF i \in requests THEN 1 ELSE 0
  <2>1. Answers(i) = {n \in 1 .. Len(queue) : IsAnswer(queue[n]) /\ queue[n].id = i}
    BY AnswersToARequest DEF AnswerInv, Types
  <2>2. CASE Answers(i) = {}
    BY <2>2, FS_EmptySet
  <2>3. CASE Answers(i) # {}
    <3>1. PICK n \in Answers(i) : TRUE
      BY <2>3
    <3>2. n \in 1 .. Len(queue) /\ IsAnswer(queue[n]) /\ queue[n].id = i
      BY <2>1, <3>1
    <3>3. i \in requests
      BY <3>2 DEF AnswerInv, AnswersAreExpected
    <3>4. \A m \in Answers(i) : m = n
      BY <2>1, <3>2 DEF AnswerInv, AnswersComeOnce
    <3>5. Answers(i) = {n}
      BY <3>1, <3>4
    <3>6. Cardinality(Answers(i)) = 1
      BY <3>5, FS_Singleton
    <3> QED BY <3>3, <3>6
  <2> QED BY <2>2, <2>3
<1>2. watched \cup pending \subseteq Subscriptions
  BY DEF AnswerInv, SubscriptionsAreHeld
<1> QED
  BY <1>1, <1>2 DEF AnswerInv, TypeOK, Types, NumberTypes, FutureTypes, WaitCalls
LEMMA LimitsAreNumbers ==
  MaxUpdates \in Nat /\ MaxInterruptions \in Nat /\ MaxTimeouts \in Nat /\ MaxFutures \in Nat
BY LimitsAssumption

LEMMA StackStaysTyped ==
  ASSUME Types, Next
  PROVE  stack' \in Seq(WaitCalls) /\ outcome' \in Outcomes
<1>1. stack \in Seq(WaitCalls) /\ outcome \in Outcomes /\ Len(stack) \in Nat
  BY LastOfTheStack DEF Types, NumberTypes
<1>2. stack # << >> => Len(stack) - 1 \in 0 .. Len(stack) /\ Last(stack).futures \in Seq(Ids)
  BY <1>1, LastOfTheStack DEF WaitCalls
<1>3. ASSUME NEW how \in Outcomes, NEW depth \in 0 .. Len(stack), Raised(how, depth)
      PROVE  stack' \in Seq(WaitCalls) /\ outcome' \in Outcomes
  BY <1>1, <1>3, RaisedLeaves
<1>4. ASSUME stack # << >>, NEW futures \in Seq(Ids), Remaining(futures)
      PROVE  stack' \in Seq(WaitCalls) /\ outcome' \in Outcomes
  BY <1>1, <1>4, RemainingLeaves DEF Outcomes
<1>5. stack # << >> => Filter(Last(stack).futures) \in Seq(Ids)
  BY <1>2, FilterDropsTheDone
<1>6. ASSUME UNCHANGED <<stack, outcome>>
      PROVE  stack' \in Seq(WaitCalls) /\ outcome' \in Outcomes
  BY <1>1, <1>6
<1>7. {"ok", "none", "aborted", "timeout", "bad", "failed"} \subseteq Outcomes
  BY DEF Outcomes
<1>8. CASE \E fs \in FutureLists : Wait(fs)
  <2>1. PICK fs \in FutureLists : Wait(fs)
    BY <1>8
  <2> DEFINE waiting == Without(fs, {n \in DOMAIN fs : future[fs[n]] # "running"})
             call == [Asleep EXCEPT !.futures = waiting, !.asked = ToSet(fs)]
  <2>2. fs \in Seq(Ids)
    BY LimitsAreNumbers DEF FutureLists
  <2>3. CASE AlreadyFailed(fs)
    BY <1>1, <1>3, <1>7, <2>1, <2>3 DEF Wait
  <2>4. CASE ~AlreadyFailed(fs)
    <3>1. stack' = Deeper(call) /\ outcome' = "none"
      BY <2>1, <2>4 DEF Wait
    <3>2. waiting \in Seq(Ids)
      BY <2>2, WithoutKeepsTheRest
    <3>3. ToSet(fs) \subseteq Ids
      BY <2>2, PlacesOfAList
    <3> HIDE DEF waiting
    <3>4. call \in WaitCalls
      BY <3>2, <3>3 DEF WaitCalls, Asleep
    <3> HIDE DEF call
    <3> QED BY <1>1, <1>7, <3>1, <3>4, DeeperCalls
  <2> QED BY <2>3, <2>4
<1>9. CASE Sleep
  <2>1. Asleep \in WaitCalls
    BY EmptySeq DEF Asleep, WaitCalls
  <2>2. stack' = Deeper(Asleep) /\ outcome' = "none"
    BY <1>9 DEF Sleep
  <2> QED BY <1>1, <1>7, <2>1, <2>2, DeeperCalls
<1>10. CASE Service
  <2>1. CASE ServiceSentinel
    BY <1>6, <2>1 DEF ServiceSentinel
  <2>2. CASE ServiceStop
    BY <1>2, <1>3, <1>6, <1>7, <2>2 DEF ServiceStop, Take
  <2>3. CASE CallbackReturns
    BY <1>4, <1>5, <2>3 DEF CallbackReturns
  <2>4. CASE \E i \in Whens : ServiceWhen(i)
    BY <1>2, <1>3, <1>4, <1>5, <1>7, <2>4 DEF ServiceWhen, Take
  <2>5. CASE \E i \in Watches : ServiceUpdate(i)
    <3>1. PICK i \in Watches : ServiceUpdate(i)
      BY <2>5
    <3>2. CASE i \in watched
      <4> DEFINE call == [stack[Len(stack)] EXCEPT !.calling = TRUE]
      <4>1. stack' = [stack EXCEPT ![Len(stack)] = call] /\ outcome' = outcome /\ stack # << >>
        BY <3>1, <3>2 DEF ServiceUpdate, Take
      <4>2. call \in WaitCalls
        BY <1>1, <4>1, LastOfTheStack DEF WaitCalls
      <4> HIDE DEF call
      <4> QED BY <1>1, <4>1, <4>2, LastOfTheStack, ExceptSeq
    <3>3. CASE i \notin watched
      BY <1>4, <1>5, <3>1, <3>3 DEF ServiceUpdate, Take
    <3> QED BY <3>2, <3>3
  <2>6. ASSUME NEW i \in Ids, ServiceReturn(i)
        PROVE  stack' \in Seq(WaitCalls) /\ outcome' \in Outcomes
    <3>1. stack # << >>
      BY <2>6 DEF ServiceReturn, Take
    <3>2. Without(Last(stack).futures, Places(Last(stack).futures, i)) \in Seq(Ids)
      BY <1>2, <3>1, WithoutKeepsTheRest
    <3> QED BY <1>4, <2>6, <3>1, <3>2 DEF ServiceReturn
  <2>7. ASSUME NEW i \in Ids, ServiceError(i)
        PROVE  stack' \in Seq(WaitCalls) /\ outcome' \in Outcomes
    BY <1>2, <1>3, <1>6, <1>7, <2>7 DEF ServiceError, Take
  <2> QED BY <1>10, <2>1, <2>2, <2>3, <2>4, <2>5, <2>6, <2>7 DEF Service
<1>11. CASE TimeOut
  <2>1. CASE Last(stack).asked = {}
    <3>1. stack' = SubSeq(stack, 1, Len(stack) - 1) /\ outcome' = "ok" /\ stack # << >>
      BY <1>11, <2>1 DEF TimeOut, Front
    <3> QED BY <1>1, <1>2, <1>7, <3>1, FirstCalls
  <2>2. CASE Last(stack).asked # {}
    BY <1>2, <1>3, <1>7, <1>11, <2>2 DEF TimeOut
  <2> QED BY <2>1, <2>2
<1>12. CASE \E i \in Ids : Dispatch(i) \/ Unsubscribe(i)
  BY <1>6, <1>12 DEF Dispatch, Unsubscribe
<1>13. CASE Blocks
  BY <1>6, <1>13 DEF Blocks, Answer, AnswerUnsubscribe, client
<1>14. CASE \E i \in Subscriptions : SendUpdate(i)
  BY <1>6, <1>14 DEF SendUpdate, client
<1>15. CASE Stop \/ IgnoreStopsBeforeNow
  BY <1>6, <1>15 DEF Stop, IgnoreStopsBeforeNow, client
<1> QED
  BY <1>8, <1>9, <1>10, <1>11, <1>12, <1>13, <1>14, <1>15 DEF Next, Client

LEMMA NumbersStayTyped ==
  ASSUME Types, Next, outcome' \in Outcomes
  PROVE  NumberTypes'
<1> USE LimitsAreNumbers DEF Types, NumberTypes
<1>1. CASE Client
  BY <1>1 DEF Client, Dispatch, Unsubscribe, Wait, Sleep, others
<1>2. CASE Service
  <2>1. CASE ServiceSentinel
    BY <2>1 DEF ServiceSentinel, others
  <2>2. CASE ~ServiceSentinel
    <3>1. UNCHANGED <<sentinel, others>>
      BY <1>2, <2>2 DEF Service, ServiceStop, CallbackReturns, ServiceWhen, ServiceUpdate,
        ServiceReturn, ServiceError, others
    <3> QED BY <3>1 DEF others
  <2> QED BY <2>1, <2>2
<1>3. CASE TimeOut
  BY <1>3 DEF TimeOut
<1>4. CASE Blocks
  BY <1>4 DEF Blocks, Answer, AnswerUnsubscribe, client, others
<1>5. CASE \E i \in Subscriptions : SendUpdate(i)
  BY <1>5 DEF SendUpdate, client
<1>6. CASE Stop
  BY <1>6 DEF Stop, client, Interruptions
<1>7. CASE IgnoreStopsBeforeNow
  BY <1>7 DEF IgnoreStopsBeforeNow, NewSentinel, Interruptions
<1> QED BY <1>1, <1>2, <1>3, <1>4, <1>5, <1>6, <1>7 DEF Next

LEMMA QueueStaysTyped ==
  ASSUME Types, Next
  PROVE  queue' \in Seq(Messages)
<1>1. queue \in Seq(Messages)
  BY DEF Types
<1>2. ASSUME NEW kind, NEW i, Take(kind, i) PROVE queue' \in Seq(Messages)
  BY <1>1, <1>2, Taken, QueueLosesItsHead
<1>3. CASE Service
  <2>1. CASE CallbackReturns
    BY <1>1, <2>1 DEF CallbackReturns
  <2>2. CASE ~CallbackReturns
    BY <1>2, <1>3, <2>2 DEF Service, ServiceSentinel, ServiceStop, ServiceWhen, ServiceUpdate,
      ServiceReturn, ServiceError
  <2> QED BY <2>1, <2>2
<1>4. CASE Blocks
  <2>1. PICK i \in Ids, kind \in {"Return", "Error"} : queue' = Append(queue, Message(kind, i))
    BY <1>4 DEF Blocks, Answer, AnswerUnsubscribe
  <2> QED BY <1>1, <2>1, KindsOfMessages, QueueGets
<1>5. CASE \E i \in Subscriptions : SendUpdate(i)
  <2>1. PICK i \in Ids, kind \in {"Good", "Bad", "Other"} : queue' = Append(queue, Message(kind, i))
    BY <1>5 DEF SendUpdate, Ids
  <2> QED BY <1>1, <2>1, KindsOfMessages, QueueGets
<1>6. CASE Stop
  BY <1>1, <1>6, KindsOfMessages, QueueGets DEF Stop
<1>7. CASE IgnoreStopsBeforeNow
  <2>1. ignores + 1 \in 1 .. MaxInterruptions
    BY <1>7, LimitsAreNumbers DEF IgnoreStopsBeforeNow, Interruptions, Types, NumberTypes
  <2> QED BY <1>1, <1>7, <2>1, KindsOfMessages, QueueGets DEF IgnoreStopsBeforeNow
<1>8. CASE Client \/ TimeOut
  BY <1>1, <1>8 DEF Client, TimeOut, Dispatch, Unsubscribe, Wait, Sleep
<1> QED BY <1>3, <1>4, <1>5, <1>6, <1>7, <1>8 DEF Next
AnswersRight == AnswersAreExpected /\ AnswersComeOnce

\* A new message is no answer, or the first answer to its request.
LEMMA AnswersAfterASend ==
  ASSUME AnswersRight, queue \in Seq(Messages), NEW message \in Messages,
         queue' = Append(queue, message),
         requests \subseteq requests', pending \subseteq pending',
         IsAnswer(message) =>
           /\ Answers(message.id) = {} /\ message.id \in requests'
           /\ message.id \in Subscriptions => message.kind = "Return" /\ message.id \in pending'
  PROVE  AnswersRight'
<1>1. /\ Len(queue) \in Nat /\ Len(queue') = Len(queue) + 1
      /\ \A n \in 1 .. Len(queue) : queue'[n] = queue[n]
      /\ queue'[Len(queue) + 1] = message
  BY QueueGets, PlacesOfTheQueue
<1>2. \A n \in 1 .. Len(queue') : n \in 1 .. Len(queue) \/ n = Len(queue) + 1
  BY <1>1
<1>3. AnswersAreExpected'
  BY <1>1, <1>2 DEF AnswersRight, AnswersAreExpected
<1>4. IsAnswer(message) =>
        \A n \in 1 .. Len(queue) : IsAnswer(queue[n]) => queue[n].id # message.id
  BY AnswersToARequest
<1>5. AnswersComeOnce'
  BY <1>1, <1>2, <1>4 DEF AnswersRight, AnswersComeOnce
<1> QED BY <1>3, <1>5 DEF AnswersRight

\* What an answer concludes is requested no more, and that was its only answer.
LEMMA AnswersAfterARead ==
  ASSUME AnswersRight, queue \in Seq(Messages), queue # << >>, queue' = Tail(queue),
         \A i \in (requests \ requests') \cup (pending \ pending') :
           IsAnswer(queue[1]) /\ queue[1].id = i
  PROVE  AnswersRight'
<1>1. /\ Len(queue') \in Nat
      /\ \A n \in 1 .. Len(queue') : n + 1 \in 1 .. Len(queue) /\ queue'[n] = queue[n + 1]
      /\ 1 \in 1 .. Len(queue)
  BY QueueLosesItsHead
<1>2. AnswersComeOnce'
  BY <1>1 DEF AnswersRight, AnswersComeOnce
<1>3. \A n \in 1 .. Len(queue') :
        IsAnswer(queue[1]) /\ IsAnswer(queue'[n]) => queue'[n].id # queue[1].id
  BY <1>1 DEF AnswersRight, AnswersComeOnce
<1>4. AnswersAreExpected'
  BY <1>1, <1>3 DEF AnswersRight, AnswersAreExpected
<1> QED BY <1>2, <1>4 DEF AnswersRight

LEMMA AnswersStayRight ==
  ASSUME AnswerInv, Next
  PROVE  FutureTypes' /\ AnswersRight' /\ SubscriptionsAreHeld'
<1>1. AnswersRight /\ SubscriptionsAreHeld /\ FutureTypes /\ queue \in Seq(Messages)
  BY DEF AnswerInv, AnswersRight, Types
<1>2. ASSUME UNCHANGED <<queue, future, requests, watched, pending>>
      PROVE  FutureTypes' /\ AnswersRight' /\ SubscriptionsAreHeld'
  BY <1>1, <1>2 DEF FutureTypes, AnswersRight, AnswersAreExpected, AnswersComeOnce,
    SubscriptionsAreHeld, IsAnswer
<1>3. ASSUME UNCHANGED <<future, requests, watched, pending>>,
             NEW message \in Messages, queue' = Append(queue, message),
             IsAnswer(message) =>
               /\ Answers(message.id) = {} /\ message.id \in requests
               /\ message.id \in Subscriptions => message.kind = "Return" /\ message.id \in pending
      PROVE  FutureTypes' /\ AnswersRight' /\ SubscriptionsAreHeld'
  BY <1>1, <1>3, AnswersAfterASend DEF FutureTypes, SubscriptionsAreHeld
<1>4. ASSUME NEW kind, NEW i, Take(kind, i), UNCHANGED <<future, requests>>,
             \/ UNCHANGED <<watched, pending>>
             \/ i \in watched /\ Unsubscribed(i)
      PROVE  FutureTypes' /\ AnswersRight' /\ SubscriptionsAreHeld'
  <2>1. queue # << >> /\ queue' = Tail(queue)
    BY <1>1, <1>4, Taken
  <2>2. pending \subseteq pending' /\ requests' = requests
    BY <1>4 DEF Unsubscribed
  <2>3. AnswersRight'
    BY <1>1, <2>1, <2>2, AnswersAfterARead
  <2>4. SubscriptionsAreHeld'
    BY <1>1, <1>4 DEF SubscriptionsAreHeld, Unsubscribed
  <2> QED BY <1>1, <1>4, <2>3, <2>4 DEF FutureTypes
<1>5. CASE Client
  <2>1. ASSUME NEW i \in Ids, Dispatch(i)
        PROVE  FutureTypes' /\ AnswersRight' /\ SubscriptionsAreHeld'
    <3>1. FutureTypes' /\ requests \subseteq requests' /\ i \notin requests
      BY <1>1, <2>1 DEF Dispatch, FutureTypes
    <3>2. AnswersRight'
      BY <1>1, <2>1, <3>1 DEF Dispatch, AnswersRight, AnswersAreExpected, AnswersComeOnce, IsAnswer
    <3>3. SubscriptionsAreHeld'
      BY <1>1, <2>1, <3>1 DEF Dispatch, SubscriptionsAreHeld
    <3> QED BY <3>1, <3>2, <3>3
  <2>2. ASSUME NEW i \in Ids, Unsubscribe(i)
        PROVE  FutureTypes' /\ AnswersRight' /\ SubscriptionsAreHeld'
    <3>1. FutureTypes'
      BY <1>1, <2>2 DEF Unsubscribe, FutureTypes
    <3>2. AnswersRight'
      BY <1>1, <2>2 DEF Unsubscribe, Unsubscribed, AnswersRight, AnswersAreExpected,
        AnswersComeOnce, IsAnswer
    <3>3. SubscriptionsAreHeld'
      BY <1>1, <2>2 DEF Unsubscribe, Unsubscribed, SubscriptionsAreHeld, Subscriptions
    <3> QED BY <3>1, <3>2, <3>3
  <2>3. CASE (\E fs \in FutureLists : Wait(fs)) \/ Sleep
    BY <1>2, <2>3 DEF Wait, Sleep
  <2> QED BY <1>5, <2>1, <2>2, <2>3 DEF Client
<1>6. CASE Service
  <2>1. CASE ServiceSentinel \/ ServiceStop
    BY <1>4, <2>1 DEF ServiceSentinel, ServiceStop
  <2>2. CASE CallbackReturns
    BY <1>2, <2>2 DEF CallbackReturns
  <2>3. CASE \E i \in Whens : ServiceWhen(i)
    BY <1>4, <2>3 DEF ServiceWhen
  <2>4. CASE \E i \in Watches : ServiceUpdate(i)
    BY <1>4, <2>4 DEF ServiceUpdate
  <2>5. ASSUME NEW i \in Ids, ServiceReturn(i)
        PROVE  FutureTypes' /\ AnswersRight' /\ SubscriptionsAreHeld'
    <3>1. /\ queue # << >> /\ queue' = Tail(queue) /\ queue[1] = Message("Return", i)
          /\ 1 \in 1 .. Len(queue)
      BY <1>1, <2>5, Taken, QueueLosesItsHead DEF ServiceReturn
    <3>2. IsAnswer(queue[1]) /\ queue[1].id = i
      BY <3>1 DEF Message, IsAnswer
    <3>3. AnswersRight'
      BY <1>1, <2>5, <3>1, <3>2, AnswersAfterARead DEF ServiceReturn
    <3>4. i \in requests /\ (i \in Subscriptions => i \in pending)
      BY <1>1, <3>1, <3>2 DEF AnswersRight, AnswersAreExpected
    <3>5. SubscriptionsAreHeld'
      BY <1>1, <2>5, <3>4 DEF ServiceReturn, SubscriptionsAreHeld
    <3>6. FutureTypes'
      BY <1>1, <2>5 DEF ServiceReturn, FutureTypes
    <3> QED BY <3>3, <3>5, <3>6
  <2>6. ASSUME NEW i \in Ids, ServiceError(i)
        PROVE  FutureTypes' /\ AnswersRight' /\ SubscriptionsAreHeld'
    <3>1. /\ queue # << >> /\ queue' = Tail(queue) /\ queue[1] = Message("Error", i)
          /\ 1 \in 1 .. Len(queue)
      BY <1>1, <2>6, Taken, QueueLosesItsHead DEF ServiceError
    <3>2. IsAnswer(queue[1]) /\ queue[1].id = i /\ queue[1].kind # "Return"
      BY <3>1 DEF Message, IsAnswer
    <3>3. AnswersRight'
      BY <1>1, <2>6, <3>1, <3>2, AnswersAfterARead DEF ServiceError
    <3>4. i \in requests /\ i \notin Subscriptions
      BY <1>1, <3>1, <3>2 DEF AnswersRight, AnswersAreExpected
    <3>5. SubscriptionsAreHeld'
      BY <1>1, <2>6, <3>4 DEF ServiceError, SubscriptionsAreHeld
    <3>6. FutureTypes'
      BY <1>1, <2>6 DEF ServiceError, FutureTypes
    <3> QED BY <3>3, <3>5, <3>6
  <2> QED BY <1>6, <2>1, <2>2, <2>3, <2>4, <2>5, <2>6 DEF Service
<1>7. CASE TimeOut
  BY <1>2, <1>7 DEF TimeOut
<1>8. CASE Blocks
  <2>1. ASSUME NEW i \in Ids, Answer(i)
        PROVE  FutureTypes' /\ AnswersRight' /\ SubscriptionsAreHeld'
    <3>1. PICK kind \in {"Return", "Error"} : queue' = Append(queue, Message(kind, i))
      BY <2>1 DEF Answer
    <3>2. /\ UNCHANGED <<future, requests, watched, pending>>
          /\ i \in requests /\ Answers(i) = {} /\ i \notin Subscriptions
      BY <2>1, IdsAssumption DEF Answer, client
    <3> QED BY <1>3, <3>1, <3>2, KindsOfMessages
  <2>2. ASSUME NEW i \in Ids, AnswerUnsubscribe(i)
        PROVE  FutureTypes' /\ AnswersRight' /\ SubscriptionsAreHeld'
    <3>1. /\ UNCHANGED <<future, requests, watched, pending>>
          /\ queue' = Append(queue, Message("Return", i))
          /\ i \in requests /\ i \in pending /\ Answers(i) = {}
      BY <1>1, <2>2 DEF AnswerUnsubscribe, client, SubscriptionsAreHeld
    <3> QED BY <1>3, <3>1, KindsOfMessages
  <2> QED BY <1>8, <2>1, <2>2 DEF Blocks
<1>9. CASE \E i \in Subscriptions : SendUpdate(i)
  <2>1. PICK i \in Ids, kind \in {"Good", "Bad", "Other"} : queue' = Append(queue, Message(kind, i))
    BY <1>9 DEF SendUpdate, Ids
  <2>2. ~IsAnswer(Message(kind, i)) /\ Message(kind, i) \in Messages
    BY <2>1, KindsOfMessages DEF IsAnswer
  <2>3. UNCHANGED <<future, requests, watched, pending>>
    BY <1>9 DEF SendUpdate, client
  <2> QED BY <1>3, <2>1, <2>2, <2>3
<1>10. CASE Stop
  <2>1. ~IsAnswer(Message("Stop", 0))
    BY KindsOfMessages DEF IsAnswer
  <2> QED BY <1>3, <1>10, <2>1, KindsOfMessages DEF Stop, client
<1>11. CASE IgnoreStopsBeforeNow
  <2>1. ignores + 1 \in 1 .. MaxInterruptions
    BY <1>11, LimitsAreNumbers
    DEF IgnoreStopsBeforeNow, Interruptions, AnswerInv, Types, NumberTypes
  <2>2. ~IsAnswer(Message("Sentinel", ignores + 1))
    BY KindsOfMessages DEF IsAnswer
  <2> QED BY <1>3, <1>11, <2>1, <2>2, KindsOfMessages DEF IgnoreStopsBeforeNow
<1> QED BY <1>5, <1>6, <1>7, <1>8, <1>9, <1>10, <1>11 DEF Next

LEMMA AnswerInvInductive ==
  ASSUME AnswerInv, [Next]_vars
  PROVE  AnswerInv'
<1>1. CASE Next
  <2>1. stack' \in Seq(WaitCalls) /\ queue' \in Seq(Messages) /\ NumberTypes'
    BY <1>1, StackStaysTyped, QueueStaysTyped, NumbersStayTyped DEF AnswerInv
  <2> QED BY <1>1, <2>1, AnswersStayRight DEF AnswerInv, Types, AnswersRight
<1>2. CASE UNCHANGED vars
  BY <1>2 DEF vars, client, others, AnswerInv, Types, NumberTypes, FutureTypes,
    AnswersAreExpected, AnswersComeOnce, SubscriptionsAreHeld, IsAnswer
<1> QED BY <1>1, <1>2

LEMMA AnswerInvInitially == Init => AnswerInv
<1> SUFFICES ASSUME Init PROVE AnswerInv
  OBVIOUS
<1>1. Types
  BY LimitsAreNumbers, EmptySeq DEF Init, Types, NumberTypes, FutureTypes, Outcomes
<1>2. Len(queue) = 0
  BY EmptySeq DEF Init
<1> QED BY <1>1, <1>2 DEF Init, AnswerInv, AnswersAreExpected, AnswersComeOnce, SubscriptionsAreHeld

\* Each request is answered once, by an answer that the context still expects
\* (_dispatch_request, _service_futures).
THEOREM AnswersInvariant == Spec => []AnswerInv
BY AnswerInvInitially, AnswerInvInductive, PTL DEF Spec

\* The types, and one answer at most to each request and to nothing else.
THEOREM TypeCorrect == Spec => []TypeOK
BY AnswersInvariant, AnswerInvIsTypeOK, PTL

--------------------------------------------------------------------------------
(***************************************************************************)
(* What the waits were asked for                                           *)
(***************************************************************************)
\* What a wait may forget: what has returned, and, if a callback has waited in it,
\* what failed there.
Concluded(call, i, f) == f[i] = "result" \/ (f[i] = "error" /\ ~call.alone)

CallIsRight(call, f) ==
  /\ \A i \in ToSet(call.futures) : f[i] # "none" /\ (call.alone => f[i] # "error")
  /\ \A i \in call.asked : i \in ToSet(call.futures) \/ Concluded(call, i, f)

CallsAreRight == \A n \in 1 .. Len(stack) : CallIsRight(stack[n], future)

\* Only the innermost call is not in a callback, or has none that waited.
CallsAreNested == \A n \in 1 .. Len(stack) - 1 : stack[n].calling /\ ~stack[n].alone

CallInv == AnswerInv /\ CallsAreRight /\ CallsAreNested

\* A future is made, returns, or fails without the call being alone with it.
LEMMA CallStaysRight ==
  ASSUME NEW call \in WaitCalls, CallIsRight(call, future), NEW new,
         new.futures = call.futures, new.asked = call.asked, new.alone => call.alone,
         \A i \in Ids :
           \/ future'[i] = future[i]
           \/ future[i] = "none" /\ future'[i] = "running"
           \/ future'[i] = "result"
           \/ /\ future[i] = "running" /\ future'[i] = "error"
              /\ new.alone => i \notin ToSet(call.futures)
  PROVE  CallIsRight(new, future')
<1>1. ToSet(call.futures) \subseteq Ids /\ call.asked \subseteq Ids
  BY PlacesOfAList DEF WaitCalls
<1> QED BY <1>1 DEF CallIsRight, Concluded

\* The calls that a step leaves, with their futures as they were.
LEMMA CallsStayRight ==
  ASSUME CallInv, stack' \in Seq(WaitCalls), Len(stack') \in 0 .. Len(stack),
         \A n \in 1 .. Len(stack') :
           /\ stack'[n].futures = stack[n].futures /\ stack'[n].asked = stack[n].asked
           /\ stack'[n].alone => stack[n].alone
           /\ n < Len(stack) => stack'[n].calling = stack[n].calling,
         \A i \in Ids :
           \/ future'[i] = future[i]
           \/ future[i] = "none" /\ future'[i] = "running"
           \/ future'[i] = "result"
  PROVE  CallsAreRight' /\ CallsAreNested'
<1>1. /\ Len(stack) \in Nat /\ Len(stack') \in Nat
      /\ \A n \in 1 .. Len(stack) : stack[n] \in WaitCalls
      /\ \A n \in 1 .. Len(stack') : n \in 1 .. Len(stack) /\ stack'[n] \in WaitCalls
  BY LastOfTheStack, LenProperties, ElementOfSeq DEF CallInv, AnswerInv, Types
<1>2. CallsAreRight'
  <2>1. ASSUME NEW n \in 1 .. Len(stack') PROVE CallIsRight(stack'[n], future')
    <3>1. stack[n] \in WaitCalls /\ CallIsRight(stack[n], future)
      BY <1>1 DEF CallInv, CallsAreRight
    <3> QED BY <3>1, CallStaysRight
  <2> QED BY <2>1 DEF CallsAreRight
<1>3. CallsAreNested'
  <2>1. ASSUME NEW n \in 1 .. Len(stack') - 1 PROVE stack'[n].calling /\ ~stack'[n].alone
    <3>1. n \in 1 .. Len(stack) - 1 /\ n \in 1 .. Len(stack') /\ n < Len(stack)
      BY <1>1
    <3>2. stack[n].calling /\ ~stack[n].alone /\ stack'[n] \in WaitCalls
      BY <1>1, <3>1 DEF CallInv, CallsAreNested
    <3> QED BY <3>1, <3>2 DEF WaitCalls
  <2> QED BY <2>1 DEF CallsAreNested
<1> QED BY <1>2, <1>3

LEMMA CallsStayRightDeeper ==
  ASSUME CallInv, NEW call \in WaitCalls, stack' = Deeper(call), Running,
         CallIsRight(call, future), future' = future
  PROVE  CallsAreRight' /\ CallsAreNested'
<1>1. stack \in Seq(WaitCalls) /\ Len(stack) \in Nat
  BY LastOfTheStack DEF CallInv, AnswerInv, Types
<1>2. /\ Len(stack') = Len(stack) + 1 /\ stack'[Len(stack) + 1] = call
      /\ \A n \in 1 .. Len(stack) :
           /\ stack'[n].futures = stack[n].futures /\ stack'[n].asked = stack[n].asked
           /\ stack'[n].calling = stack[n].calling /\ ~stack'[n].alone
  BY <1>1, DeeperCalls
<1>3. \A n \in 1 .. Len(stack) : CallIsRight(stack'[n], future')
  BY <1>1, <1>2, LastOfTheStack, CallStaysRight DEF CallInv, CallsAreRight
<1>4. \A n \in 1 .. Len(stack) : stack[n].calling
  BY <1>1, LastOfTheStack DEF CallInv, CallsAreNested, Running
<1> QED BY <1>1, <1>2, <1>3, <1>4 DEF CallsAreRight, CallsAreNested

\* The innermost call goes on with fewer futures, or is over.
LEMMA CallsStayRightRemaining ==
  ASSUME CallInv, stack # << >>, NEW rest \in Seq(Ids), Remaining(rest),
         ToSet(rest) \subseteq ToSet(Last(stack).futures),
         \A i \in Ids : future'[i] = future[i] \/ future'[i] = "result",
         \A i \in Last(stack).asked : i \in ToSet(rest) \/ Concluded(Last(stack), i, future')
  PROVE  /\ CallsAreRight' /\ CallsAreNested'
         /\ Len(stack') < Len(stack) => \A i \in Last(stack).asked : Concluded(Last(stack), i, future')
<1>1. /\ stack \in Seq(WaitCalls) /\ Len(stack) \in Nat /\ Len(stack) # 0
      /\ Last(stack) = stack[Len(stack)] /\ Last(stack) \in WaitCalls
      /\ Len(stack) \in 1 .. Len(stack)
  BY LastOfTheStack DEF CallInv, AnswerInv, Types
<1>2. CASE Over(rest)
  <2>1. /\ stack' \in Seq(WaitCalls) /\ Len(stack') = Len(stack) - 1
        /\ \A n \in 1 .. Len(stack') : stack'[n] = stack[n]
    BY <1>1, <1>2, RemainingLeaves
  <2>2. CallsAreRight' /\ CallsAreNested'
    BY <1>1, <2>1, CallsStayRight
  <2>3. ToSet(rest) = {}
    BY <1>2, PlacesOfAList DEF Over
  <2> QED BY <2>2, <2>3
<1>3. CASE ~Over(rest)
  <2>1. /\ stack' \in Seq(WaitCalls) /\ Len(stack') = Len(stack)
        /\ \A n \in 1 .. Len(stack) - 1 : stack'[n] = stack[n]
        /\ stack'[Len(stack)].futures = rest
        /\ stack'[Len(stack)].asked = Last(stack).asked
        /\ stack'[Len(stack)].alone = Last(stack).alone
    BY <1>1, <1>3, RemainingLeaves
  <2>2. ASSUME NEW n \in 1 .. Len(stack') PROVE CallIsRight(stack'[n], future')
    <3>1. CASE n = Len(stack)
      <4>1. CallIsRight(Last(stack), future)
        BY <1>1 DEF CallInv, CallsAreRight
      <4>2. ToSet(rest) \subseteq Ids
        BY PlacesOfAList
      <4> QED BY <2>1, <3>1, <4>1, <4>2 DEF CallIsRight, Concluded
    <3>2. CASE n # Len(stack)
      <4>1. n \in 1 .. Len(stack) - 1 /\ n \in 1 .. Len(stack)
        BY <1>1, <2>1, <3>2
      <4>2. stack[n] \in WaitCalls /\ stack'[n] = stack[n] /\ CallIsRight(stack[n], future)
        BY <1>1, <2>1, <4>1, LastOfTheStack DEF CallInv, CallsAreRight
      <4> QED BY <4>2, CallStaysRight
    <3> QED BY <3>1, <3>2
  <2>3. CallsAreNested'
    BY <2>1 DEF CallInv, CallsAreNested
  <2> QED BY <1>1, <2>1, <2>2, <2>3 DEF CallsAreRight
<1> QED BY <1>2, <1>3
LEMMA FilterForgetsNothing ==
  ASSUME CallInv, stack # << >>
  PROVE  LET rest == Filter(Last(stack).futures)
         IN  /\ rest \in Seq(Ids) /\ ToSet(rest) \subseteq ToSet(Last(stack).futures)
             /\ \A i \in Last(stack).asked : i \in ToSet(rest) \/ Concluded(Last(stack), i, future)
<1> DEFINE call == Last(stack)
           rest == Filter(call.futures)
<1>1. call \in WaitCalls /\ CallIsRight(call, future)
  BY LastOfTheStack DEF CallInv, AnswerInv, Types, CallsAreRight
<1>2. call.futures \in Seq(Ids) /\ call.asked \subseteq Ids
  BY <1>1 DEF WaitCalls
<1> HIDE DEF call
<1>3. /\ rest \in Seq(Ids) /\ ToSet(rest) \subseteq ToSet(call.futures)
      /\ ToSet(call.futures) \cap requests \subseteq ToSet(rest)
  BY <1>2, FilterDropsTheDone
<1>4. ASSUME NEW i \in call.asked, i \notin ToSet(rest) PROVE Concluded(call, i, future)
  <2>1. CASE i \in ToSet(call.futures)
    <3>1. i \notin requests /\ i \in Ids
      BY <1>2, <1>3, <1>4, <2>1
    <3>2. future[i] # "running" /\ future[i] \in {"none", "running", "result", "error"}
      BY <3>1 DEF CallInv, AnswerInv, Types, FutureTypes
    <3> QED BY <1>1, <2>1, <3>2 DEF CallIsRight, Concluded
  <2>2. CASE i \notin ToSet(call.futures)
    BY <1>1, <2>2 DEF CallIsRight
  <2> QED BY <2>1, <2>2
<1> QED BY <1>3, <1>4 DEF call

ReturnIsRight ==
  outcome' = "ok" /\ Len(stack') < Len(stack)
    => \A i \in Last(stack).asked : Concluded(Last(stack), i, future')

\* Each step leaves the calls right, and a wait that returns has what it asked for.
CallsAfter == CallsAreRight' /\ CallsAreNested' /\ ReturnIsRight

LEMMA CallsAfterTheSame ==
  ASSUME CallInv, UNCHANGED stack,
         \A i \in Ids :
           \/ future'[i] = future[i]
           \/ future[i] = "none" /\ future'[i] = "running"
           \/ future'[i] = "result"
  PROVE  CallsAfter
<1>1. stack \in Seq(WaitCalls) /\ Len(stack) \in Nat
  BY LastOfTheStack DEF CallInv, AnswerInv, Types
<1> QED BY <1>1, CallsStayRight DEF CallsAfter, ReturnIsRight

LEMMA CallsAfterARaise ==
  ASSUME CallInv, future' = future, NEW how, how # "ok",
         NEW depth \in 0 .. Len(stack), Raised(how, depth)
  PROVE  CallsAfter
<1>1. stack \in Seq(WaitCalls) /\ Len(stack) \in Nat
  BY LastOfTheStack DEF CallInv, AnswerInv, Types
<1>2. /\ stack' \in Seq(WaitCalls) /\ Len(stack') \in 0 .. depth
      /\ \A n \in 1 .. Len(stack') : stack'[n] = stack[n]
      /\ outcome' = how
  BY <1>1, RaisedLeaves
<1>3. Len(stack') \in 0 .. Len(stack)
  BY <1>1, <1>2
<1>4. CallsAreRight' /\ CallsAreNested'
  BY <1>2, <1>3, CallsStayRight
<1> QED BY <1>2, <1>4 DEF CallsAfter, ReturnIsRight

LEMMA CallsAfterAFilter ==
  ASSUME CallInv, future' = future, stack # << >>, Remaining(Filter(Last(stack).futures))
  PROVE  CallsAfter
<1> DEFINE rest == Filter(Last(stack).futures)
<1>1. /\ rest \in Seq(Ids) /\ ToSet(rest) \subseteq ToSet(Last(stack).futures)
      /\ \A i \in Last(stack).asked : i \in ToSet(rest) \/ Concluded(Last(stack), i, future')
  BY FilterForgetsNothing
<1>2. Remaining(rest)
  OBVIOUS
<1> HIDE DEF rest
<1> QED BY <1>1, <1>2, CallsStayRightRemaining DEF CallsAfter, ReturnIsRight

LEMMA CallsAfterAWait ==
  ASSUME CallInv, NEW fs \in FutureLists, Wait(fs)
  PROVE  CallsAfter
<1>0. fs \in Seq(Ids)
  BY LimitsAreNumbers DEF FutureLists
<1>1. /\ stack \in Seq(WaitCalls) /\ Len(stack) \in Nat /\ future' = future
      /\ future \in [Ids -> {"none", "running", "result", "error"}]
  <2>1. future' = future
    BY DEF Wait
  <2> QED BY <2>1, LastOfTheStack DEF CallInv, AnswerInv, Types, FutureTypes
<1>2. CASE AlreadyFailed(fs)
  <2>1. Raised("failed", Len(stack))
    BY <1>2 DEF Wait
  <2> QED BY <1>1, <2>1, CallsAfterARaise
<1>3. CASE ~AlreadyFailed(fs)
  <2> DEFINE gone == {n \in DOMAIN fs : future[fs[n]] # "running"}
             waiting == Without(fs, gone)
             call == [Asleep EXCEPT !.futures = waiting, !.asked = ToSet(fs)]
  <2>1. /\ waiting \in Seq(Ids)
        /\ \A k \in 1 .. Len(waiting) : \E n \in 1 .. Len(fs) : n \notin gone /\ waiting[k] = fs[n]
        /\ \A n \in 1 .. Len(fs) :
             n \notin gone => \E k \in 1 .. Len(waiting) : waiting[k] = fs[n]
    <3> HIDE DEF gone, call
    <3>1. waiting \in Seq(Ids)
      BY <1>0, WithoutKeepsTheRest
    <3>2. \A k \in 1 .. Len(waiting) : \E n \in 1 .. Len(fs) : n \notin gone /\ waiting[k] = fs[n]
      BY <1>0, WithoutKeepsTheRest
    <3>3. \A n \in 1 .. Len(fs) :
             n \notin gone => \E k \in 1 .. Len(waiting) : waiting[k] = fs[n]
      BY <1>0, WithoutKeepsTheRest
    <3> QED BY <3>1, <3>2, <3>3
  <2>2. /\ DOMAIN fs = 1 .. Len(fs) /\ ToSet(fs) \subseteq Ids
        /\ \A i : i \in ToSet(fs) <=> \E n \in 1 .. Len(fs) : fs[n] = i
    BY <1>0, PlacesOfAList
  <2>3. stack' = Deeper(call) /\ outcome' = "none" /\ Running /\ ToSet(fs) \subseteq Awaited
    BY <1>3 DEF Wait, MayWait
  <2>4. \A n \in 1 .. Len(fs) : n \notin gone <=> future[fs[n]] = "running"
    BY <2>2
  <2> HIDE DEF gone, waiting
  <2>5. \A i : i \in ToSet(waiting) <=> \E k \in 1 .. Len(waiting) : waiting[k] = i
    BY <2>1, PlacesOfAList
  <2>6. \A i \in ToSet(waiting) : future[i] = "running"
    BY <2>1, <2>4, <2>5
  <2>7. ASSUME NEW i \in ToSet(fs), i \notin ToSet(waiting) PROVE future[i] = "result"
    <3>1. PICK n \in 1 .. Len(fs) : fs[n] = i
      BY <2>2
    <3>2. future[i] # "running"
      BY <2>1, <2>4, <2>5, <2>7, <3>1
    <3>3. future[i] # "none" /\ i \in Ids
      BY <2>2, <2>3 DEF Awaited
    <3>4. future[i] # "error"
      BY <1>3, <2>2, <3>1 DEF AlreadyFailed
    <3> QED BY <1>1, <3>2, <3>3, <3>4
  <2>8. call \in WaitCalls /\ call.futures = waiting /\ call.asked = ToSet(fs) /\ call.alone
    BY <2>1, <2>2 DEF WaitCalls, Asleep
  <2> HIDE DEF call
  <2>9. CallIsRight(call, future)
    BY <2>6, <2>7, <2>8 DEF CallIsRight, Concluded
  <2> QED BY <1>1, <2>3, <2>8, <2>9, CallsStayRightDeeper DEF CallsAfter, ReturnIsRight
<1> QED BY <1>2, <1>3

LEMMA CallsAfterSleep ==
  ASSUME CallInv, Sleep
  PROVE  CallsAfter
<1>1. /\ Asleep \in WaitCalls /\ Asleep.futures = << >> /\ Asleep.asked = {}
      /\ << >> \in Seq(Ids)
  BY EmptySeq DEF Asleep, WaitCalls
<1>2. stack' = Deeper(Asleep) /\ outcome' = "none" /\ Running /\ future' = future
  BY DEF Sleep, MayWait
<1>3. CallIsRight(Asleep, future)
  BY <1>1, PlacesOfAList DEF CallIsRight
<1> QED BY <1>1, <1>2, <1>3, CallsStayRightDeeper DEF CallsAfter, ReturnIsRight

LEMMA CallsAfterAReturn ==
  ASSUME CallInv, NEW i \in Ids, ServiceReturn(i)
  PROVE  CallsAfter
<1> DEFINE call == Last(stack)
           rest == Without(call.futures, Places(call.futures, i))
<1>1. stack # << >> /\ call \in WaitCalls /\ CallIsRight(call, future)
  BY LastOfTheStack DEF ServiceReturn, Take, CallInv, AnswerInv, Types, CallsAreRight
<1>2. call.futures \in Seq(Ids) /\ call.asked \subseteq Ids
  BY <1>1 DEF WaitCalls
<1>3. future' = [future EXCEPT ![i] = "result"] /\ Remaining(rest)
  BY DEF ServiceReturn
<1>4. future \in [Ids -> {"none", "running", "result", "error"}]
  BY DEF CallInv, AnswerInv, Types, FutureTypes
<1> HIDE DEF call
<1>5. /\ rest \in Seq(Ids)
      /\ \A k \in 1 .. Len(rest) : \E n \in 1 .. Len(call.futures) : rest[k] = call.futures[n]
      /\ \A n \in 1 .. Len(call.futures) :
           n \notin Places(call.futures, i) => \E k \in 1 .. Len(rest) : rest[k] = call.futures[n]
  BY <1>2, WithoutKeepsTheRest
<1> HIDE DEF rest
<1>6. /\ \A j : j \in ToSet(rest) <=> \E k \in 1 .. Len(rest) : rest[k] = j
      /\ \A j : j \in ToSet(call.futures) <=> \E n \in 1 .. Len(call.futures) : call.futures[n] = j
  BY <1>2, <1>5, PlacesOfAList
<1>7. ToSet(rest) \subseteq ToSet(call.futures)
  BY <1>5, <1>6
<1>8. ASSUME NEW j \in call.asked, j \notin ToSet(rest) PROVE Concluded(call, j, future')
  <2>1. CASE j = i
    BY <1>3, <1>4, <2>1 DEF Concluded
  <2>2. CASE j # i
    <3>1. \A n \in 1 .. Len(call.futures) : call.futures[n] = j => n \notin Places(call.futures, i)
      BY <2>2 DEF Places
    <3>2. j \notin ToSet(call.futures)
      BY <1>5, <1>6, <1>8, <3>1
    <3>3. Concluded(call, j, future) /\ j \in Ids
      BY <1>1, <1>2, <1>8, <3>2 DEF CallIsRight
    <3> QED BY <1>3, <1>4, <2>2, <3>3 DEF Concluded
  <2> QED BY <2>1, <2>2
<1>9. \A j \in Ids : future'[j] = future[j] \/ future'[j] = "result"
  BY <1>3, <1>4
<1> QED BY <1>1, <1>3, <1>5, <1>7, <1>8, <1>9, CallsStayRightRemaining
        DEF call, CallsAfter, ReturnIsRight

LEMMA CallsAfterAnError ==
  ASSUME CallInv, NEW i \in Ids, ServiceError(i)
  PROVE  CallsAfter
<1>1. /\ stack \in Seq(WaitCalls) /\ Len(stack) \in Nat /\ stack # << >> /\ Len(stack) # 0
      /\ Last(stack) = stack[Len(stack)]
      /\ future \in [Ids -> {"none", "running", "result", "error"}]
      /\ queue \in Seq(Messages)
  BY LastOfTheStack DEF ServiceError, Take, CallInv, AnswerInv, Types, FutureTypes
<1>2. future[i] = "running"
  <2>1. 1 \in 1 .. Len(queue) /\ queue[1] = Message("Error", i)
    BY <1>1, Taken, QueueLosesItsHead DEF ServiceError
  <2>2. i \in requests
    BY <2>1 DEF Message, IsAnswer, CallInv, AnswerInv, AnswersAreExpected
  <2> QED BY <2>2 DEF CallInv, AnswerInv, Types, FutureTypes
<1>3. \A j \in Ids : future'[j] = IF j = i THEN "error" ELSE future[j]
  BY <1>1 DEF ServiceError
<1>4. ASSUME NEW n \in 1 .. Len(stack), n < Len(stack) \/ i \notin ToSet(Last(stack).futures)
      PROVE  CallIsRight(stack[n], future')
  <2>1. stack[n].alone => n = Len(stack)
    BY <1>1 DEF CallInv, CallsAreNested
  <2>2. stack[n].alone => i \notin ToSet(stack[n].futures)
    BY <1>1, <1>4, <2>1
  <2>3. stack[n] \in WaitCalls /\ CallIsRight(stack[n], future)
    BY <1>1, LastOfTheStack DEF CallInv, CallsAreRight
  <2> QED BY <1>2, <1>3, <2>2, <2>3, CallStaysRight
<1>5. CASE i \in ToSet(Last(stack).futures)
  <2>1. Len(stack) - 1 \in 0 .. Len(stack) /\ Raised("failed", Len(stack) - 1)
    BY <1>1, <1>5 DEF ServiceError
  <2>2. /\ Len(stack') \in 0 .. Len(stack) - 1 /\ outcome' = "failed"
        /\ \A n \in 1 .. Len(stack') : stack'[n] = stack[n]
    BY <1>1, <2>1, RaisedLeaves
  <2>3. \A n \in 1 .. Len(stack') : n \in 1 .. Len(stack) - 1 /\ n \in 1 .. Len(stack)
    BY <1>1, <2>2
  <2>4. \A n \in 1 .. Len(stack') : n < Len(stack)
    BY <1>1, <2>2
  <2>5. CallsAreRight'
    BY <1>4, <2>2, <2>3, <2>4 DEF CallsAreRight
  <2>6. CallsAreNested'
    <3>1. \A n \in 1 .. Len(stack') - 1 : n \in 1 .. Len(stack')
      BY <1>1, <2>2
    <3> QED BY <2>2, <2>3, <3>1 DEF CallInv, CallsAreNested
  <2> QED BY <2>2, <2>5, <2>6 DEF CallsAfter, ReturnIsRight
<1>6. CASE i \notin ToSet(Last(stack).futures)
  <2>1. stack' = stack
    BY <1>6 DEF ServiceError
  <2>2. CallsAreRight' /\ CallsAreNested'
    BY <1>4, <1>6, <2>1 DEF CallInv, CallsAreRight, CallsAreNested
  <2> QED BY <1>1, <2>1, <2>2 DEF CallsAfter, ReturnIsRight
<1> QED BY <1>5, <1>6
LEMMA CallsAfterAStep ==
  ASSUME CallInv, Next
  PROVE  CallsAfter
<1>1. stack \in Seq(WaitCalls) /\ (stack # << >> => Len(stack) - 1 \in 0 .. Len(stack))
  BY LastOfTheStack DEF CallInv, AnswerInv, Types
<1>2. CASE Client
  <2>1. ASSUME NEW i \in Ids, Dispatch(i) PROVE CallsAfter
    <3>1. /\ UNCHANGED stack /\ future[i] = "none"
          /\ future' = [future EXCEPT ![i] = "running"]
      BY <2>1 DEF Dispatch
    <3>2. future \in [Ids -> {"none", "running", "result", "error"}]
      BY DEF CallInv, AnswerInv, Types, FutureTypes
    <3> QED BY <3>1, <3>2, CallsAfterTheSame
  <2>2. ASSUME NEW i \in Ids, Unsubscribe(i) PROVE CallsAfter
    BY <2>2, CallsAfterTheSame DEF Unsubscribe
  <2> QED BY <1>2, <2>1, <2>2, CallsAfterAWait, CallsAfterSleep DEF Client
<1>3. CASE Service
  <2>1. CASE ServiceSentinel
    BY <2>1, CallsAfterTheSame DEF ServiceSentinel
  <2>2. CASE ServiceStop
    BY <1>1, <2>2, CallsAfterTheSame, CallsAfterARaise DEF ServiceStop, Take
  <2>3. CASE CallbackReturns
    BY <2>3, CallsAfterAFilter DEF CallbackReturns
  <2>4. CASE \E i \in Whens : ServiceWhen(i)
    BY <1>1, <2>4, CallsAfterARaise, CallsAfterAFilter DEF ServiceWhen, Take
  <2>5. ASSUME NEW i \in Watches, ServiceUpdate(i) PROVE CallsAfter
    <3>1. CASE i \in watched
      <4> DEFINE call == [stack[Len(stack)] EXCEPT !.calling = TRUE]
      <4>1. stack' = [stack EXCEPT ![Len(stack)] = call] /\ future' = future /\ stack # << >>
        BY <2>5, <3>1 DEF ServiceUpdate, Take
      <4>2. /\ call \in WaitCalls /\ call.futures = stack[Len(stack)].futures
            /\ call.asked = stack[Len(stack)].asked /\ call.alone = stack[Len(stack)].alone
        BY <1>1, <4>1, LastOfTheStack DEF WaitCalls
      <4> HIDE DEF call
      <4>3. stack' \in Seq(WaitCalls) /\ Len(stack') = Len(stack) /\ Len(stack) \in Nat
        BY <1>1, <4>1, <4>2, LastOfTheStack, ExceptSeq
      <4>4. \A n \in 1 .. Len(stack) : stack'[n] = IF n = Len(stack) THEN call ELSE stack[n]
        BY <1>1, <4>1, LastOfTheStack
      <4>5. CallsAreRight' /\ CallsAreNested'
        <5>1. Len(stack') \in 0 .. Len(stack)
          BY <4>3
        <5>2. \A n \in 1 .. Len(stack') :
                /\ stack'[n].futures = stack[n].futures /\ stack'[n].asked = stack[n].asked
                /\ stack'[n].alone => stack[n].alone
                /\ n < Len(stack) => stack'[n].calling = stack[n].calling
          BY <4>2, <4>3, <4>4
        <5>3. \A j \in Ids : future'[j] = future[j]
          BY <4>1
        <5> QED BY <4>3, <5>1, <5>2, <5>3, CallsStayRight
      <4> QED BY <4>3, <4>5 DEF CallsAfter, ReturnIsRight
    <3>2. CASE i \notin watched
      BY <2>5, <3>2, CallsAfterAFilter DEF ServiceUpdate, Take
    <3> QED BY <3>1, <3>2
  <2> QED BY <1>3, <2>1, <2>2, <2>3, <2>4, <2>5, CallsAfterAReturn, CallsAfterAnError DEF Service
<1>4. CASE TimeOut
  <2>1. CASE Last(stack).asked = {}
    <3>1. stack' = SubSeq(stack, 1, Len(stack) - 1) /\ stack # << >> /\ future' = future
      BY <1>4, <2>1 DEF TimeOut, Front
    <3>2. /\ stack' \in Seq(WaitCalls) /\ Len(stack') = Len(stack) - 1
          /\ \A n \in 1 .. Len(stack') : stack'[n] = stack[n]
      BY <1>1, <3>1, FirstCalls
    <3>3. Len(stack') \in 0 .. Len(stack)
      BY <1>1, <3>1, <3>2
    <3>4. CallsAreRight' /\ CallsAreNested'
      BY <3>1, <3>2, <3>3, CallsStayRight
    <3> QED BY <2>1, <3>4 DEF CallsAfter, ReturnIsRight
  <2>2. CASE Last(stack).asked # {}
    BY <1>1, <1>4, <2>2, CallsAfterARaise DEF TimeOut
  <2> QED BY <2>1, <2>2
<1>5. CASE Blocks
  BY <1>5, CallsAfterTheSame DEF Blocks, Answer, AnswerUnsubscribe, client
<1>6. CASE \E i \in Subscriptions : SendUpdate(i)
  BY <1>6, CallsAfterTheSame DEF SendUpdate, client
<1>7. CASE Stop \/ IgnoreStopsBeforeNow
  BY <1>7, CallsAfterTheSame DEF Stop, IgnoreStopsBeforeNow, client
<1> QED BY <1>2, <1>3, <1>4, <1>5, <1>6, <1>7 DEF Next

LEMMA CallInvInductive ==
  ASSUME CallInv, [Next]_vars
  PROVE  CallInv'
<1>1. CASE Next
  BY <1>1, CallsAfterAStep, AnswerInvInductive DEF CallInv, CallsAfter
<1>2. CASE UNCHANGED vars
  <2>1. UNCHANGED <<stack, future>>
    BY <1>2 DEF vars, client
  <2> QED BY <1>2, <2>1, AnswerInvInductive DEF CallInv, CallsAreRight, CallsAreNested
<1> QED BY <1>1, <1>2

LEMMA CallInvInitially == Init => CallInv
<1> SUFFICES ASSUME Init PROVE CallInv
  OBVIOUS
<1>1. Len(stack) = 0
  BY EmptySeq DEF Init
<1> QED BY <1>1, AnswerInvInitially DEF CallInv, CallsAreRight, CallsAreNested

\* What each wait in progress still holds is what it was given without what has been
\* concluded, and inner waits were begun by outer ones (wait_all_futures).
THEOREM CallsInvariant == Spec => []CallInv
BY CallInvInitially, CallInvInductive, PTL DEF Spec

\* A wait that returns has all its results, and raised the first failure it met: of
\* what the code claims of wait_all_futures, for any waits inside each other.
THEOREM WaitsReturnWhatTheyAwaited == Spec => ReturnsAreRight
<1>1. ASSUME CallInv, [Next]_vars
      PROVE  [outcome' = "ok" /\ Len(stack') < Len(stack)
               => \A i \in Last(stack).asked :
                    future'[i] = "result" \/ (future'[i] = "error" /\ ~Last(stack).alone)]_vars
  <2>1. CASE Next
    BY <1>1, <2>1, CallsAfterAStep DEF CallsAfter, ReturnIsRight, Concluded
  <2>2. CASE UNCHANGED vars
    BY <2>2
  <2> QED BY <1>1, <2>1, <2>2
<1> QED BY <1>1, CallsInvariant, PTL DEF Spec, ReturnsAreRight
--------------------------------------------------------------------------------
(***************************************************************************)
(* STOPs and sentinels                                                     *)
(***************************************************************************)
IsSentinel(message) == message.kind = "Sentinel"

\* The sentinels come in the order of the calls that made them.
SentinelsInOrder ==
  /\ \A n \in 1 .. Len(queue) : IsSentinel(queue[n]) => queue[n].id \in 1 .. ignores
  /\ \A n, m \in 1 .. Len(queue) :
       IsSentinel(queue[n]) /\ IsSentinel(queue[m]) /\ n < m => queue[n].id < queue[m].id

\* STOPs are ignored while the last of them is in the queue, and no longer.
IgnoringToTheLast ==
  /\ sentinel = 0 => \A n \in 1 .. Len(queue) : ~IsSentinel(queue[n])
  /\ sentinel # 0 => /\ sentinel = ignores
                     /\ \E n \in 1 .. Len(queue) : IsSentinel(queue[n]) /\ queue[n].id = ignores

StopInv == Types /\ SentinelsInOrder /\ IgnoringToTheLast

LEMMA SentinelsAfterASend ==
  ASSUME StopInv, NEW message \in Messages, ~IsSentinel(message),
         queue' = Append(queue, message), UNCHANGED <<sentinel, ignores>>
  PROVE  SentinelsInOrder' /\ IgnoringToTheLast'
<1>1. /\ Len(queue) \in Nat /\ Len(queue') = Len(queue) + 1
      /\ \A n \in 1 .. Len(queue) : queue'[n] = queue[n]
      /\ queue'[Len(queue) + 1] = message
  BY QueueGets, PlacesOfTheQueue DEF StopInv, Types
<1>2. \A n \in 1 .. Len(queue') :
        IsSentinel(queue'[n]) => n \in 1 .. Len(queue) /\ queue'[n] = queue[n]
  BY <1>1
<1>3. \A n \in 1 .. Len(queue) : n \in 1 .. Len(queue')
  BY <1>1
<1>4. SentinelsInOrder'
  BY <1>2 DEF StopInv, SentinelsInOrder
<1> QED BY <1>1, <1>2, <1>3, <1>4 DEF StopInv, IgnoringToTheLast

LEMMA SentinelsAfterARead ==
  ASSUME StopInv, queue # << >>, queue' = Tail(queue), UNCHANGED ignores,
         IF IsSentinel(queue[1]) /\ queue[1].id = sentinel THEN sentinel' = 0 ELSE UNCHANGED sentinel
  PROVE  SentinelsInOrder' /\ IgnoringToTheLast'
<1>1. /\ Len(queue') \in Nat /\ Len(queue') = Len(queue) - 1 /\ Len(queue) \in Nat
      /\ \A n \in 1 .. Len(queue') : n + 1 \in 1 .. Len(queue) /\ queue'[n] = queue[n + 1]
      /\ 1 \in 1 .. Len(queue)
  BY QueueLosesItsHead, PlacesOfTheQueue DEF StopInv, Types
<1>2. SentinelsInOrder'
  BY <1>1 DEF StopInv, SentinelsInOrder
<1> SUFFICES IgnoringToTheLast'
  BY <1>2
<1>3. ignores \in Nat /\ sentinel \in Nat
  BY LimitsAreNumbers DEF StopInv, Types, NumberTypes
<1>4. CASE IsSentinel(queue[1]) /\ queue[1].id = sentinel
  <2>1. sentinel = ignores /\ sentinel' = 0 /\ sentinel # 0
    BY <1>1, <1>3, <1>4 DEF StopInv, IgnoringToTheLast, SentinelsInOrder
  <2>2. \A n \in 1 .. Len(queue') : ~IsSentinel(queue'[n])
    <3>1. SUFFICES ASSUME NEW n \in 1 .. Len(queue'), IsSentinel(queue[n + 1]) PROVE FALSE
      BY <1>1
    <3>2. n + 1 \in 1 .. Len(queue) /\ 1 < n + 1
      BY <1>1
    <3>3. queue[1].id < queue[n + 1].id /\ queue[n + 1].id \in 1 .. ignores
      BY <1>1, <1>4, <3>1, <3>2 DEF StopInv, SentinelsInOrder
    <3> QED BY <1>3, <1>4, <2>1, <3>3
  <2> QED BY <2>1, <2>2 DEF IgnoringToTheLast
<1>5. CASE ~(IsSentinel(queue[1]) /\ queue[1].id = sentinel)
  <2>1. CASE sentinel = 0
    BY <1>1, <1>5, <2>1 DEF StopInv, IgnoringToTheLast
  <2>2. CASE sentinel # 0
    <3>1. PICK n \in 1 .. Len(queue) : IsSentinel(queue[n]) /\ queue[n].id = ignores
      BY <2>2 DEF StopInv, IgnoringToTheLast
    <3>2. sentinel = ignores /\ sentinel' = sentinel
      BY <1>5, <2>2 DEF StopInv, IgnoringToTheLast
    <3>3. n # 1
      BY <1>5, <3>1, <3>2
    <3>4. n - 1 \in 1 .. Len(queue') /\ queue'[n - 1] = queue[n]
      BY <1>1, <3>3
    <3> QED BY <2>2, <3>1, <3>2, <3>4 DEF IgnoringToTheLast
  <2> QED BY <2>1, <2>2
<1> QED BY <1>4, <1>5

LEMMA StopInvInductive ==
  ASSUME StopInv, [Next]_vars, Types'
  PROVE  StopInv'
<1> SUFFICES SentinelsInOrder' /\ IgnoringToTheLast'
  BY DEF StopInv
<1>1. queue \in Seq(Messages)
  BY DEF StopInv, Types
<1>2. ASSUME UNCHANGED <<queue, sentinel, ignores>> PROVE SentinelsInOrder' /\ IgnoringToTheLast'
  BY <1>2 DEF StopInv, SentinelsInOrder, IgnoringToTheLast, IsSentinel
<1>3. ASSUME NEW kind, NEW i, Take(kind, i), kind # "Sentinel", UNCHANGED <<sentinel, ignores>>
      PROVE  SentinelsInOrder' /\ IgnoringToTheLast'
  <2>1. queue # << >> /\ queue' = Tail(queue) /\ ~IsSentinel(queue[1])
    BY <1>1, <1>3, Taken, KindsOfMessages DEF IsSentinel
  <2> QED BY <1>3, <2>1, SentinelsAfterARead
<1>4. CASE ServiceSentinel
  <2>1. PICK n \in 1 .. ignores : Take("Sentinel", n) /\ sentinel' = IF n = sentinel THEN 0 ELSE sentinel
    BY <1>4 DEF ServiceSentinel
  <2>2. queue # << >> /\ queue' = Tail(queue) /\ IsSentinel(queue[1]) /\ queue[1].id = n
    BY <1>1, <2>1, Taken, KindsOfMessages DEF IsSentinel
  <2>3. UNCHANGED ignores
    BY <1>4 DEF ServiceSentinel, others
  <2> QED BY <2>1, <2>2, <2>3, SentinelsAfterARead
<1>5. CASE Service /\ ~ServiceSentinel
  <2>1. UNCHANGED <<sentinel, ignores>>
    BY <1>5 DEF Service, ServiceStop, CallbackReturns, ServiceWhen, ServiceUpdate,
      ServiceReturn, ServiceError, others
  <2>2. CASE CallbackReturns
    BY <1>2, <2>1, <2>2 DEF CallbackReturns
  <2>3. CASE ~CallbackReturns
    BY <1>3, <1>5, <2>1, <2>3 DEF Service, ServiceStop, ServiceWhen, ServiceUpdate,
      ServiceReturn, ServiceError
  <2> QED BY <2>2, <2>3
<1>6. CASE Blocks
  <2>1. PICK i \in Ids, kind \in {"Return", "Error"} : queue' = Append(queue, Message(kind, i))
    BY <1>6 DEF Blocks, Answer, AnswerUnsubscribe
  <2>2. UNCHANGED <<sentinel, ignores>>
    BY <1>6 DEF Blocks, Answer, AnswerUnsubscribe, client, others
  <2>3. Message(kind, i) \in Messages /\ ~IsSentinel(Message(kind, i))
    BY <2>1, KindsOfMessages DEF IsSentinel
  <2> QED BY <2>1, <2>2, <2>3, SentinelsAfterASend
<1>7. CASE \E i \in Subscriptions : SendUpdate(i)
  <2>1. PICK i \in Ids, kind \in {"Good", "Bad", "Other"} : queue' = Append(queue, Message(kind, i))
    BY <1>7 DEF SendUpdate, Ids
  <2>2. UNCHANGED <<sentinel, ignores>>
    BY <1>7 DEF SendUpdate, client
  <2>3. Message(kind, i) \in Messages /\ ~IsSentinel(Message(kind, i))
    BY <2>1, KindsOfMessages DEF IsSentinel
  <2> QED BY <2>1, <2>2, <2>3, SentinelsAfterASend
<1>8. CASE Stop
  <2>1. Message("Stop", 0) \in Messages /\ ~IsSentinel(Message("Stop", 0))
    BY KindsOfMessages DEF IsSentinel
  <2>2. UNCHANGED <<sentinel, ignores>> /\ queue' = Append(queue, Message("Stop", 0))
    BY <1>8 DEF Stop, client
  <2> QED BY <2>1, <2>2, SentinelsAfterASend
<1>9. CASE IgnoreStopsBeforeNow
  <2>1. /\ ignores \in Nat /\ ignores' = ignores + 1 /\ sentinel' = ignores + 1
        /\ queue' = Append(queue, Message("Sentinel", ignores + 1))
        /\ ignores + 1 \in 1 .. MaxInterruptions
    BY <1>9, LimitsAreNumbers
    DEF IgnoreStopsBeforeNow, NewSentinel, Interruptions, StopInv, Types, NumberTypes
  <2> DEFINE new == Message("Sentinel", ignores + 1)
  <2>2. new \in Messages /\ IsSentinel(new) /\ new.id = ignores + 1
    BY <2>1, KindsOfMessages DEF IsSentinel
  <2> HIDE DEF new
  <2>3. /\ Len(queue) \in Nat /\ Len(queue') = Len(queue) + 1
        /\ \A n \in 1 .. Len(queue) : queue'[n] = queue[n]
        /\ queue'[Len(queue) + 1] = new
    BY <1>1, <2>1, <2>2, QueueGets, PlacesOfTheQueue DEF new
  <2>4. \A n \in 1 .. Len(queue') : n \in 1 .. Len(queue) \/ n = Len(queue) + 1
    BY <2>3
  <2>5. \A n \in 1 .. Len(queue) : IsSentinel(queue[n]) => queue[n].id \in 1 .. ignores
    BY DEF StopInv, SentinelsInOrder
  <2>6. SentinelsInOrder'
    <3>1. \A n \in 1 .. Len(queue') : IsSentinel(queue'[n]) => queue'[n].id \in 1 .. ignores'
      BY <2>1, <2>2, <2>3, <2>4, <2>5
    <3>2. ASSUME NEW n \in 1 .. Len(queue'), NEW m \in 1 .. Len(queue'),
                 IsSentinel(queue'[n]), IsSentinel(queue'[m]), n < m
          PROVE  queue'[n].id < queue'[m].id
      <4>1. n \in 1 .. Len(queue) /\ queue'[n] = queue[n]
        BY <2>3, <3>2
      <4>2. CASE m = Len(queue) + 1
        BY <2>1, <2>2, <2>3, <2>5, <3>2, <4>1, <4>2
      <4>3. CASE m \in 1 .. Len(queue)
        BY <2>3, <3>2, <4>1, <4>3 DEF StopInv, SentinelsInOrder
      <4> QED BY <2>4, <4>2, <4>3
    <3> QED BY <3>1, <3>2 DEF SentinelsInOrder
  <2>7. Len(queue) + 1 \in 1 .. Len(queue')
    BY <2>3
  <2>8. IgnoringToTheLast'
    BY <2>1, <2>2, <2>3, <2>7 DEF IgnoringToTheLast
  <2> QED BY <2>6, <2>8
<1>10. CASE Client \/ TimeOut
  <2>1. UNCHANGED <<queue, sentinel, ignores>>
    BY <1>10 DEF Client, TimeOut, Dispatch, Unsubscribe, Wait, Sleep, others
  <2> QED BY <1>2, <2>1
<1>11. CASE UNCHANGED vars
  BY <1>2, <1>11 DEF vars, client, others
<1> QED
  BY <1>4, <1>5, <1>6, <1>7, <1>8, <1>9, <1>10, <1>11 DEF Next

\* The sentinel that the context ignores STOPs before is in its queue, or was met, and
\* STOPs after it are there for the waits to come (ignore_stops_before_now).
THEOREM StopsInvariant == Spec => []StopInv
<1>1. Init => StopInv
  <2> SUFFICES ASSUME Init PROVE StopInv
    OBVIOUS
  <2>1. Types
    BY AnswerInvInitially DEF AnswerInv
  <2>2. Len(queue) = 0 /\ sentinel = 0
    BY EmptySeq DEF Init
  <2> QED BY <2>1, <2>2 DEF StopInv, SentinelsInOrder, IgnoringToTheLast
<1>2. ASSUME StopInv, AnswerInv', [Next]_vars PROVE StopInv'
  BY <1>2, StopInvInductive DEF AnswerInv
<1> QED BY <1>1, <1>2, AnswersInvariant, PTL DEF Spec

\* A STOP that is met aborts the wait if and only if nobody has asked to ignore it,
\* whatever was sent before and after it.
LEMMA StopIsObeyed ==
  ASSUME StopInv, Next, stack # << >>, queue # << >>, Head(queue).kind = "Stop",
         queue' = Tail(queue)
  PROVE  Len(stack') < Len(stack) <=> \A n \in DOMAIN queue : queue[n].kind # "Sentinel"
<1>1. /\ queue \in Seq(Messages) /\ stack \in Seq(WaitCalls) /\ Len(stack) \in Nat
      /\ Len(stack) - 1 \in 0 .. Len(stack)
  BY LastOfTheStack DEF StopInv, Types
<1>2. Len(queue') = Len(queue) - 1 /\ Len(queue) \in Nat
  BY <1>1, QueueLosesItsHead, PlacesOfTheQueue
<1>3. ASSUME NEW kind, NEW i, Take(kind, i) PROVE kind = "Stop"
  BY <1>3 DEF Take, Message
<1>4. queue' # queue
  <2> SUFFICES ASSUME queue' = queue PROVE FALSE
    OBVIOUS
  <2>1. Len(queue') = Len(queue)
    OBVIOUS
  <2> QED BY <1>2, <2>1
<1>5. ASSUME NEW message \in Messages PROVE queue' # Append(queue, message)
  <2> SUFFICES ASSUME queue' = Append(queue, message) PROVE FALSE
    OBVIOUS
  <2>1. Len(queue') = Len(queue) + 1
    BY <1>1, QueueGets
  <2> QED BY <1>2, <2>1
<1>6. ServiceStop
  <2>1. ~Client /\ ~TimeOut /\ ~CallbackReturns
    BY <1>4 DEF Client, TimeOut, CallbackReturns, Dispatch, Unsubscribe, Wait, Sleep
  <2>2. ~Blocks
    BY <1>5, KindsOfMessages DEF Blocks, Answer, AnswerUnsubscribe
  <2>3. \A i \in Subscriptions : ~SendUpdate(i)
    <3>1. \A i \in Subscriptions, kind \in {"Good", "Bad", "Other"} : Message(kind, i) \in Messages
      BY KindsOfMessages DEF Ids
    <3> QED BY <1>5, <3>1 DEF SendUpdate
  <2>4. ~Stop
    BY <1>5, KindsOfMessages DEF Stop
  <2>5. ~IgnoreStopsBeforeNow
    <3>1. SUFFICES ASSUME IgnoreStopsBeforeNow PROVE FALSE
      OBVIOUS
    <3>2. ignores + 1 \in 1 .. MaxInterruptions
      BY <3>1, LimitsAreNumbers
      DEF IgnoreStopsBeforeNow, Interruptions, StopInv, Types, NumberTypes
    <3> QED BY <1>5, <3>1, <3>2, KindsOfMessages DEF IgnoreStopsBeforeNow
  <2>6. Service
    BY <2>1, <2>2, <2>3, <2>4, <2>5 DEF Next
  <2>7. ~ServiceSentinel /\ ~(\E i \in Whens : ServiceWhen(i)) /\ ~(\E i \in Watches : ServiceUpdate(i))
    BY <1>3 DEF ServiceSentinel, ServiceWhen, ServiceUpdate
  <2>8. ~\E i \in Ids : ServiceReturn(i) \/ ServiceError(i)
    BY <1>3 DEF ServiceReturn, ServiceError
  <2> QED BY <2>1, <2>6, <2>7, <2>8 DEF Service
<1>7. sentinel = 0 <=> \A n \in DOMAIN queue : queue[n].kind # "Sentinel"
  BY <1>1, PlacesOfTheQueue DEF StopInv, IgnoringToTheLast, IsSentinel
<1>8. CASE sentinel = 0
  <2>1. Raised("aborted", Len(stack) - 1)
    BY <1>6, <1>8 DEF ServiceStop
  <2>2. Len(stack') \in 0 .. Len(stack) - 1
    BY <1>1, <2>1, RaisedLeaves
  <2> QED BY <1>1, <1>7, <1>8, <2>2
<1>9. CASE sentinel # 0
  <2>1. stack' = stack
    BY <1>6, <1>9 DEF ServiceStop
  <2> QED BY <1>1, <1>7, <1>9, <2>1
<1> QED BY <1>8, <1>9

\* STOPs count from the last call of ignore_stops_before_now() on, exactly: the
\* sentinels of earlier calls, met on the way, end nothing.
THEOREM StopsAreObeyed == Spec => StopsObeyed
<1>1. ASSUME StopInv, [Next]_vars
      PROVE  [stack # << >> /\ queue # << >> /\ Head(queue).kind = "Stop" /\ queue' = Tail(queue)
               => (Len(stack') < Len(stack)
                     <=> \A n \in DOMAIN queue : queue[n].kind # "Sentinel")]_vars
  <2>1. CASE Next
    BY <1>1, <2>1, StopIsObeyed
  <2>2. CASE UNCHANGED vars
    BY <2>2
  <2> QED BY <1>1, <2>1, <2>2
<1> QED BY <1>1, StopsInvariant, PTL DEF Spec, StopsObeyed
--------------------------------------------------------------------------------
(***************************************************************************)
(* Nobody waits for what is done, where no callback waits in a wait for    *)
(* several futures                                                         *)
(***************************************************************************)
ForSeveral(call) == ~(Cardinality(call.asked) < 2)

\* What was asked for one future waits for one at most; and it alone may be waited in.
AloneInTheirLists ==
  /\ \A n \in 1 .. Len(stack) : ~ForSeveral(stack[n]) => Len(stack[n].futures) <= 1
  /\ \A n \in 1 .. Len(stack) - 1 : ~ForSeveral(stack[n])

AwaitsRequests ==
  stack # << >> /\ (~Last(stack).calling \/ ForSeveral(Last(stack)))
    => ToSet(Last(stack).futures) \subseteq requests

AwaitInv == CallInv /\ AloneInTheirLists /\ AwaitsRequests

AwaitAfter == AloneInTheirLists' /\ AwaitsRequests'

LEMMA ListOfOne ==
  ASSUME NEW fs \in FutureLists, Cardinality(ToSet(fs)) < 2
  PROVE  Len(fs) <= 1
<1>1. fs \in Seq(Ids) /\ IsInjective(fs) /\ Len(fs) \in Nat
  BY LimitsAreNumbers, LenProperties DEF FutureLists
<1>2. /\ DOMAIN fs = 1 .. Len(fs)
      /\ \A i : i \in ToSet(fs) <=> \E n \in 1 .. Len(fs) : fs[n] = i
  BY <1>1, PlacesOfAList
<1>3. SUFFICES ASSUME 2 <= Len(fs) PROVE FALSE
  BY <1>1
<1>4. 1 \in 1 .. Len(fs) /\ 2 \in 1 .. Len(fs)
  BY <1>1, <1>3
<1>5. fs[1] # fs[2] /\ fs[1] \in ToSet(fs) /\ fs[2] \in ToSet(fs)
  BY <1>1, <1>2, <1>4 DEF IsInjective
<1>6. IsFiniteSet(ToSet(fs))
  <2>1. fs \in [1 .. Len(fs) -> ToSet(fs)] /\ \A i \in ToSet(fs) : \E n \in 1 .. Len(fs) : fs[n] = i
    BY <1>1, <1>2
  <2>2. fs \in Surjection(1 .. Len(fs), ToSet(fs))
    BY <2>1 DEF Surjection
  <2>3. IsFiniteSet(1 .. Len(fs))
    BY <1>1, FS_Interval
  <2> QED BY <2>2, <2>3, FS_Surjection
<1>7. Cardinality({fs[1], fs[2]}) = 2
  <2>1. IsFiniteSet({fs[1]}) /\ Cardinality({fs[1]}) = 1
    BY FS_Singleton
  <2>2. {fs[1], fs[2]} = {fs[1]} \cup {fs[2]} /\ fs[2] \notin {fs[1]}
    BY <1>5
  <2> QED BY <2>1, <2>2, FS_AddElement
<1>8. Cardinality({fs[1], fs[2]}) <= Cardinality(ToSet(fs)) /\ Cardinality(ToSet(fs)) \in Nat
  BY <1>5, <1>6, FS_Subset, FS_CardinalityType
<1> QED BY <1>7, <1>8

LEMMA AwaitTypes ==
  ASSUME AwaitInv
  PROVE  /\ stack \in Seq(WaitCalls) /\ Len(stack) \in Nat
         /\ stack # << >> => /\ Last(stack) = stack[Len(stack)] /\ Len(stack) \in 1 .. Len(stack)
                             /\ Last(stack) \in WaitCalls /\ Last(stack).futures \in Seq(Ids)
                             /\ Len(stack) - 1 \in 0 .. Len(stack)
BY LastOfTheStack DEF AwaitInv, CallInv, AnswerInv, Types, WaitCalls

\* Back in a callback of a wait for one future.
LEMMA AwaitsAfterAnEnd ==
  ASSUME AwaitInv, stack' \in Seq(WaitCalls), Len(stack') \in 0 .. Len(stack), stack # << >>,
         Len(stack') # Len(stack), \A n \in 1 .. Len(stack') : stack'[n] = stack[n]
  PROVE  AwaitAfter
<1>1. Len(stack) \in Nat /\ Len(stack') \in 0 .. Len(stack) - 1
  BY AwaitTypes
<1>2. \A n \in 1 .. Len(stack') : n \in 1 .. Len(stack) - 1 /\ n \in 1 .. Len(stack)
  BY <1>1
<1>3. \A n \in 1 .. Len(stack') : stack'[n].calling /\ ~ForSeveral(stack'[n])
  BY <1>2 DEF AwaitInv, CallInv, CallsAreNested, AloneInTheirLists
<1>4. \A n \in 1 .. Len(stack') : Len(stack'[n].futures) <= 1
  BY <1>2, <1>3 DEF AwaitInv, AloneInTheirLists
<1>5. stack' # << >> => Last(stack)' = stack'[Len(stack')] /\ Len(stack') \in 1 .. Len(stack')
  BY <1>1, EmptySeq DEF Last
<1>6. AloneInTheirLists'
  BY <1>1, <1>3, <1>4 DEF AloneInTheirLists, ForSeveral
<1>7. AwaitsRequests'
  BY <1>3, <1>5 DEF AwaitsRequests, ForSeveral
<1> QED BY <1>6, <1>7 DEF AwaitAfter

LEMMA AwaitsAfterTheSame ==
  ASSUME AwaitInv, UNCHANGED stack,
         \/ requests \subseteq requests'
         \/ /\ stack # << >> /\ ~Last(stack).calling
            /\ \A i \in ToSet(Last(stack).futures) \cap requests : i \in requests'
  PROVE  AwaitAfter
<1>1. ASSUME stack # << >>, ~Last(stack).calling \/ ForSeveral(Last(stack))
      PROVE  ToSet(Last(stack).futures) \subseteq requests'
  BY <1>1 DEF AwaitInv, AwaitsRequests
<1> QED BY <1>1 DEF AwaitInv, AwaitAfter, AloneInTheirLists, AwaitsRequests, ForSeveral

LEMMA AwaitsAfterARaise ==
  ASSUME AwaitInv, stack # << >>, NEW how, Raised(how, Len(stack) - 1)
  PROVE  AwaitAfter
<1>1. Len(stack) \in Nat /\ Len(stack) - 1 \in 0 .. Len(stack)
  BY AwaitTypes
<1>2. /\ stack' \in Seq(WaitCalls) /\ Len(stack') \in 0 .. Len(stack) - 1
      /\ \A n \in 1 .. Len(stack') : stack'[n] = stack[n]
  BY <1>1, AwaitTypes, RaisedLeaves
<1> QED BY <1>1, <1>2, AwaitsAfterAnEnd

LEMMA AwaitsAfterRemaining ==
  ASSUME AwaitInv, stack # << >>, NEW rest \in Seq(Ids), Remaining(rest),
         Len(rest) <= Len(Last(stack).futures), ToSet(rest) \subseteq requests'
  PROVE  AwaitAfter
<1>1. /\ Len(stack) \in Nat /\ Len(stack) # 0 /\ stack \in Seq(WaitCalls)
      /\ Last(stack) = stack[Len(stack)]
      /\ Len(rest) \in Nat /\ Len(Last(stack).futures) \in Nat
  BY AwaitTypes, LenProperties
<1>2. CASE Over(rest)
  BY <1>1, <1>2, RemainingLeaves, AwaitsAfterAnEnd
<1>3. CASE ~Over(rest)
  <2>1. /\ stack' \in Seq(WaitCalls) /\ Len(stack') = Len(stack)
        /\ \A n \in 1 .. Len(stack) - 1 : stack'[n] = stack[n]
        /\ stack'[Len(stack)].futures = rest
        /\ stack'[Len(stack)].asked = Last(stack).asked
    BY <1>1, <1>3, RemainingLeaves
  <2>2. Last(stack)' = stack'[Len(stack)]
    BY <2>1 DEF Last
  <2>3. AloneInTheirLists'
    <3>1. ASSUME NEW n \in 1 .. Len(stack'), ~ForSeveral(stack'[n])
          PROVE  Len(stack'[n].futures) <= 1
      <4>1. CASE n = Len(stack)
        <5>1. ~ForSeveral(stack[Len(stack)]) /\ Len(stack) \in 1 .. Len(stack)
          BY <1>1, <2>1, <3>1, <4>1 DEF ForSeveral
        <5>2. Len(Last(stack).futures) <= 1
          BY <1>1, <5>1 DEF AwaitInv, AloneInTheirLists
        <5> QED BY <1>1, <2>1, <4>1, <5>2
      <4>2. CASE n # Len(stack)
        <5>1. n \in 1 .. Len(stack) - 1 /\ n \in 1 .. Len(stack)
          BY <1>1, <2>1, <4>2
        <5> QED BY <2>1, <3>1, <5>1 DEF AwaitInv, AloneInTheirLists
      <4> QED BY <4>1, <4>2
    <3>2. \A n \in 1 .. Len(stack') - 1 : ~ForSeveral(stack'[n])
      BY <2>1 DEF AwaitInv, AloneInTheirLists
    <3> QED BY <3>1, <3>2 DEF AloneInTheirLists, ForSeveral
  <2>4. AwaitsRequests'
    BY <2>1, <2>2 DEF AwaitsRequests
  <2> QED BY <2>3, <2>4 DEF AwaitAfter
<1> QED BY <1>2, <1>3

LEMMA AwaitsAfterAFilter ==
  ASSUME AwaitInv, UNCHANGED requests, stack # << >>, Remaining(Filter(Last(stack).futures))
  PROVE  AwaitAfter
<1> DEFINE rest == Filter(Last(stack).futures)
<1>1. /\ Last(stack).futures \in Seq(Ids) /\ Last(stack) = stack[Len(stack)]
      /\ Len(stack) \in 1 .. Len(stack)
  BY AwaitTypes
<1>2. /\ rest \in Seq(Ids) /\ Len(rest) <= Len(Last(stack).futures)
      /\ ToSet(rest) \subseteq ToSet(Last(stack).futures)
      /\ Len(Last(stack).futures) <= 1 => ToSet(rest) \subseteq requests
  BY <1>1, FilterDropsTheDone
<1>3. Remaining(rest)
  OBVIOUS
<1> HIDE DEF rest
<1>4. ToSet(rest) \subseteq requests
  <2>1. CASE ForSeveral(Last(stack))
    BY <1>2, <2>1 DEF AwaitInv, AwaitsRequests
  <2>2. CASE ~ForSeveral(Last(stack))
    BY <1>1, <1>2, <2>2 DEF AwaitInv, AloneInTheirLists
  <2> QED BY <2>1, <2>2
<1> QED BY <1>2, <1>3, <1>4, AwaitsAfterRemaining

LEMMA AwaitsAfterDeeper ==
  ASSUME AwaitInv, UNCHANGED requests, NestInLists = FALSE, MayWait, NEW call \in WaitCalls,
         stack' = Deeper(call), ToSet(call.futures) \subseteq requests,
         ~ForSeveral(call) => Len(call.futures) <= 1
  PROVE  AwaitAfter
<1>1. stack \in Seq(WaitCalls) /\ Len(stack) \in Nat
  BY AwaitTypes
<1>2. /\ Len(stack') = Len(stack) + 1 /\ stack'[Len(stack) + 1] = call
      /\ \A n \in 1 .. Len(stack) :
           stack'[n].futures = stack[n].futures /\ stack'[n].asked = stack[n].asked
  BY <1>1, DeeperCalls
<1>3. \A n \in 1 .. Len(stack) : ~ForSeveral(stack[n])
  BY <1>1, LenProperties DEF MayWait, ForSeveral
<1>4. Last(stack)' = call
  BY <1>2 DEF Last
<1>5. \A n \in 1 .. Len(stack') : n \in 1 .. Len(stack) \/ n = Len(stack) + 1
  BY <1>1, <1>2
<1>6. AloneInTheirLists'
  <2>1. \A n \in 1 .. Len(stack') : ~ForSeveral(stack'[n]) => Len(stack'[n].futures) <= 1
    BY <1>2, <1>3, <1>5 DEF AwaitInv, AloneInTheirLists
  <2>2. \A n \in 1 .. Len(stack) : ~ForSeveral(stack'[n])
    BY <1>2, <1>3 DEF ForSeveral
  <2>3. Len(stack') - 1 = Len(stack)
    BY <1>1, <1>2
  <2> QED BY <2>1, <2>2, <2>3 DEF AloneInTheirLists, ForSeveral
<1>7. AwaitsRequests'
  BY <1>4 DEF AwaitsRequests
<1> QED BY <1>6, <1>7 DEF AwaitAfter
LEMMA AwaitsAfterAWait ==
  ASSUME AwaitInv, NestInLists = FALSE, NEW fs \in FutureLists, Wait(fs)
  PROVE  AwaitAfter
<1>0. fs \in Seq(Ids)
  BY LimitsAreNumbers DEF FutureLists
<1>1. CASE AlreadyFailed(fs)
  <2>1. Raised("failed", Len(stack)) /\ UNCHANGED requests
    BY <1>1 DEF Wait
  <2>2. stack \in Seq(WaitCalls) /\ Len(stack) \in Nat /\ Len(stack) \in 0 .. Len(stack)
    BY AwaitTypes
  <2>3. /\ stack' \in Seq(WaitCalls) /\ Len(stack') \in 0 .. Len(stack)
        /\ \A n \in 1 .. Len(stack') : stack'[n] = stack[n]
    BY <2>1, <2>2, RaisedLeaves
  <2>4. CASE Len(stack') = Len(stack)
    <3>1. \A n \in 1 .. Len(stack) : stack'[n] = stack[n]
      BY <2>3, <2>4
    <3>2. stack' = stack
      BY <2>2, <2>3, <2>4, <3>1, SeqEqual
    <3> QED BY <2>1, <3>2, AwaitsAfterTheSame
  <2>5. CASE Len(stack') # Len(stack)
    <3>1. stack # << >>
      BY <2>3, <2>5, EmptySeq
    <3> QED BY <2>3, <2>5, <3>1, AwaitsAfterAnEnd
  <2> QED BY <2>4, <2>5
<1>2. CASE ~AlreadyFailed(fs)
  <2> DEFINE gone == {n \in DOMAIN fs : future[fs[n]] # "running"}
             waiting == Without(fs, gone)
             call == [Asleep EXCEPT !.futures = waiting, !.asked = ToSet(fs)]
  <2>1. /\ DOMAIN fs = 1 .. Len(fs) /\ Len(fs) \in Nat /\ ToSet(fs) \subseteq Ids
        /\ \A i : i \in ToSet(fs) <=> \E n \in 1 .. Len(fs) : fs[n] = i
    BY <1>0, PlacesOfAList
  <2>2. \A n \in 1 .. Len(fs) : n \notin gone <=> future[fs[n]] = "running"
    BY <2>1
  <2>3. stack' = Deeper(call) /\ MayWait /\ UNCHANGED requests
    BY <1>2 DEF Wait
  <2>4. waiting \in Seq(Ids) /\ Len(waiting) <= Len(fs)
    <3> HIDE DEF gone, call
    <3> QED BY <1>0, WithoutKeepsTheRest
  <2>5. \A k \in 1 .. Len(waiting) : \E n \in 1 .. Len(fs) : n \notin gone /\ waiting[k] = fs[n]
    <3> HIDE DEF gone, call
    <3> QED BY <1>0, WithoutKeepsTheRest
  <2> HIDE DEF gone, waiting
  <2>6. \A i \in ToSet(waiting) : i \in ToSet(fs) /\ future[i] = "running"
    BY <2>1, <2>2, <2>4, <2>5, PlacesOfAList
  <2>7. ToSet(waiting) \subseteq requests
    BY <2>1, <2>6 DEF AwaitInv, CallInv, AnswerInv, Types, FutureTypes
  <2>8. call \in WaitCalls /\ call.futures = waiting /\ call.asked = ToSet(fs)
    BY <2>1, <2>4 DEF WaitCalls, Asleep
  <2> HIDE DEF call
  <2>9. ~ForSeveral(call) => Len(call.futures) <= 1
    <3>1. SUFFICES ASSUME ~ForSeveral(call) PROVE Len(waiting) <= 1
      BY <2>8
    <3>2. Len(fs) <= 1
      BY <2>8, <3>1, ListOfOne DEF ForSeveral
    <3>3. Len(waiting) \in Nat
      BY <2>4, LenProperties
    <3> QED BY <2>1, <2>4, <3>2, <3>3
  <2> QED BY <2>3, <2>7, <2>8, <2>9, AwaitsAfterDeeper
<1> QED BY <1>1, <1>2

LEMMA AwaitsAfterAReturn ==
  ASSUME AwaitInv, NEW i \in Ids, ServiceReturn(i)
  PROVE  AwaitAfter
<1> DEFINE futures == Last(stack).futures
           rest == Without(futures, Places(futures, i))
<1>1. /\ stack # << >> /\ ~Last(stack).calling
      /\ requests' = requests \ {i} /\ Remaining(rest)
  BY DEF ServiceReturn, Take
<1>2. futures \in Seq(Ids)
  BY <1>1, AwaitTypes
<1>3. ToSet(futures) \subseteq requests
  BY <1>1 DEF AwaitInv, AwaitsRequests
<1> HIDE DEF futures
<1>4. rest \in Seq(Ids) /\ Len(rest) <= Len(futures)
  BY <1>2, WithoutKeepsTheRest
<1>5. \A k \in 1 .. Len(rest) :
        \E n \in 1 .. Len(futures) : n \notin Places(futures, i) /\ rest[k] = futures[n]
  BY <1>2, WithoutKeepsTheRest
<1> HIDE DEF rest
<1>6. /\ \A j : j \in ToSet(rest) <=> \E k \in 1 .. Len(rest) : rest[k] = j
      /\ \A j : j \in ToSet(futures) <=> \E n \in 1 .. Len(futures) : futures[n] = j
      /\ DOMAIN futures = 1 .. Len(futures)
  BY <1>2, <1>4, PlacesOfAList
<1>7. \A n \in 1 .. Len(futures) : n \notin Places(futures, i) => futures[n] # i
  BY <1>6 DEF Places
<1>8. ToSet(rest) \subseteq requests'
  BY <1>1, <1>3, <1>5, <1>6, <1>7
<1> QED BY <1>1, <1>4, <1>8, AwaitsAfterRemaining DEF futures

LEMMA AwaitsAfterAnError ==
  ASSUME AwaitInv, NEW i \in Ids, ServiceError(i)
  PROVE  AwaitAfter
<1>1. stack # << >> /\ ~Last(stack).calling /\ requests' = requests \ {i}
  BY DEF ServiceError, Take
<1>2. CASE i \in ToSet(Last(stack).futures)
  BY <1>1, <1>2, AwaitsAfterARaise DEF ServiceError
<1>3. CASE i \notin ToSet(Last(stack).futures)
  BY <1>1, <1>3, AwaitsAfterTheSame DEF ServiceError
<1> QED BY <1>2, <1>3

LEMMA AwaitsAfterAStep ==
  ASSUME AwaitInv, NestInLists = FALSE, Next
  PROVE  AwaitAfter
<1>1. CASE Client
  <2>1. CASE \E i \in Ids : Dispatch(i) \/ Unsubscribe(i)
    BY <2>1, AwaitsAfterTheSame DEF Dispatch, Unsubscribe
  <2>2. CASE Sleep
    <3>1. /\ Asleep \in WaitCalls /\ Asleep.futures = << >> /\ << >> \in Seq(Ids)
          /\ Len(Asleep.futures) <= 1
      BY EmptySeq DEF Asleep, WaitCalls
    <3>2. ToSet(Asleep.futures) = {}
      BY <3>1, PlacesOfAList
    <3>3. MayWait /\ stack' = Deeper(Asleep) /\ UNCHANGED requests
      BY <2>2 DEF Sleep
    <3> QED BY <3>1, <3>2, <3>3, AwaitsAfterDeeper
  <2> QED BY <1>1, <2>1, <2>2, AwaitsAfterAWait DEF Client
<1>2. CASE Service
  <2>1. CASE ServiceSentinel
    BY <2>1, AwaitsAfterTheSame DEF ServiceSentinel
  <2>2. CASE ServiceStop
    BY <2>2, AwaitsAfterTheSame, AwaitsAfterARaise DEF ServiceStop, Take
  <2>3. CASE CallbackReturns
    BY <2>3, AwaitsAfterAFilter DEF CallbackReturns
  <2>4. CASE \E i \in Whens : ServiceWhen(i)
    BY <2>4, AwaitsAfterARaise, AwaitsAfterAFilter DEF ServiceWhen, Take
  <2>5. ASSUME NEW i \in Watches, ServiceUpdate(i) PROVE AwaitAfter
    <3>1. CASE i \in watched
      <4> DEFINE call == [stack[Len(stack)] EXCEPT !.calling = TRUE]
      <4>1. /\ stack' = [stack EXCEPT ![Len(stack)] = call] /\ UNCHANGED requests
            /\ stack # << >> /\ ~Last(stack).calling
        BY <2>5, <3>1 DEF ServiceUpdate, Take
      <4>2. stack \in Seq(WaitCalls) /\ Len(stack) \in 1 .. Len(stack) /\ Last(stack) = stack[Len(stack)]
        BY <4>1, AwaitTypes
      <4>3. /\ call \in WaitCalls /\ call.futures = stack[Len(stack)].futures
            /\ call.asked = stack[Len(stack)].asked
        BY <4>2, LastOfTheStack DEF WaitCalls
      <4> HIDE DEF call
      <4>4. Len(stack') = Len(stack) /\ Len(stack) \in Nat
        BY <4>1, <4>2, <4>3, LastOfTheStack, ExceptSeq
      <4>5. \A n \in 1 .. Len(stack) : stack'[n] = IF n = Len(stack) THEN call ELSE stack[n]
        BY <4>1, <4>2, LastOfTheStack
      <4>6. \A n \in 1 .. Len(stack) :
              stack'[n].futures = stack[n].futures /\ stack'[n].asked = stack[n].asked
        BY <4>3, <4>5
      <4>7. AloneInTheirLists'
        BY <4>4, <4>6 DEF AwaitInv, AloneInTheirLists, ForSeveral
      <4>8. Last(stack)' = call
        BY <4>2, <4>4, <4>5 DEF Last
      <4>9. AwaitsRequests'
        <5>1. ToSet(call.futures) \subseteq requests'
          BY <4>1, <4>2, <4>3 DEF AwaitInv, AwaitsRequests
        <5> QED BY <4>8, <5>1 DEF AwaitsRequests
      <4> QED BY <4>7, <4>9 DEF AwaitAfter
    <3>2. CASE i \notin watched
      BY <2>5, <3>2, AwaitsAfterAFilter DEF ServiceUpdate, Take
    <3> QED BY <3>1, <3>2
  <2> QED
    BY <1>2, <2>1, <2>2, <2>3, <2>4, <2>5, AwaitsAfterAReturn, AwaitsAfterAnError DEF Service
<1>3. CASE TimeOut
  <2>1. CASE Last(stack).asked = {}
    <3>1. stack' = SubSeq(stack, 1, Len(stack) - 1) /\ stack # << >>
      BY <1>3, <2>1 DEF TimeOut, Front
    <3>2. /\ stack \in Seq(WaitCalls) /\ Len(stack) \in Nat
          /\ Len(stack) - 1 \in 0 .. Len(stack)
      BY <3>1, AwaitTypes
    <3>3. /\ stack' \in Seq(WaitCalls) /\ Len(stack') = Len(stack) - 1
          /\ \A n \in 1 .. Len(stack') : stack'[n] = stack[n]
      BY <3>1, <3>2, FirstCalls
    <3> QED BY <3>1, <3>2, <3>3, AwaitsAfterAnEnd
  <2>2. CASE Last(stack).asked # {}
    BY <1>3, <2>2, AwaitsAfterARaise DEF TimeOut
  <2> QED BY <2>1, <2>2
<1>4. CASE Blocks
  BY <1>4, AwaitsAfterTheSame DEF Blocks, Answer, AnswerUnsubscribe, client
<1>5. CASE \E i \in Subscriptions : SendUpdate(i)
  BY <1>5, AwaitsAfterTheSame DEF SendUpdate, client
<1>6. CASE Stop \/ IgnoreStopsBeforeNow
  BY <1>6, AwaitsAfterTheSame DEF Stop, IgnoreStopsBeforeNow, client
<1> QED BY <1>1, <1>2, <1>3, <1>4, <1>5, <1>6 DEF Next

\* Where no callback waits in a wait for several futures, nobody waits for a future
\* that another wait has concluded: the list is filtered before it is waited on again.
\* It is FilterWhileIterating that needs the scope: of two neighbours it drops one.
THEOREM NobodyAwaitsTheDone ==
  ASSUME NestInLists = FALSE
  PROVE  Spec => []NothingDoneIsAwaited
<1>1. Init => AwaitInv
  <2> SUFFICES ASSUME Init PROVE AwaitInv
    OBVIOUS
  <2>1. stack = << >> /\ Len(stack) = 0
    BY EmptySeq DEF Init
  <2> QED BY <2>1, CallInvInitially DEF AwaitInv, AloneInTheirLists, AwaitsRequests
<1>2. ASSUME AwaitInv, [Next]_vars PROVE AwaitInv'
  <2>1. CallInv'
    BY <1>2, CallInvInductive DEF AwaitInv
  <2>2. CASE Next
    BY <1>2, <2>1, <2>2, AwaitsAfterAStep DEF AwaitInv, AwaitAfter
  <2>3. CASE UNCHANGED vars
    <3>1. UNCHANGED <<stack, requests>>
      BY <2>3 DEF vars, client
    <3>2. AwaitAfter
      BY <1>2, <3>1, AwaitsAfterTheSame
    <3> QED BY <2>1, <3>2 DEF AwaitInv, AwaitAfter
  <2> QED BY <1>2, <2>2, <2>3
<1>3. AwaitInv => NothingDoneIsAwaited
  BY AnswerInvIsTypeOK DEF AwaitInv, CallInv, NothingDoneIsAwaited, AwaitsRequests
<1> QED BY <1>1, <1>2, <1>3, PTL DEF Spec

================================================================================
