----------------------------- MODULE ProcessProofs -----------------------------
(***************************************************************************)
(* What a process promises, for any controllers, requests and parts: that  *)
(* nothing it has spawned runs on when stop() returns, that stop() halts   *)
(* every controller, and that the server comms publish what they should.   *)
(***************************************************************************)
EXTENDS Process, WellFoundedInduction, FiniteSetTheorems, SequenceTheorems, TLAPS

--------------------------------------------------------------------------------
(***************************************************************************)
(* What run_hooks() promises, for any set of parts in any order, any       *)
(* number of calls, stops and failing functions: no part is aborted by a   *)
(* STOP that was meant for an earlier set, no function is left behind, and *)
(* every step is one that HookSet allows, or a stutter of it.              *)
(*                                                                         *)
(* First, the order of the parts.                                          *)
(***************************************************************************)
LEMMA SmallestOf ==
  ASSUME NEW S \in SUBSET Nat, S # {}
  PROVE  \E x \in S : \A y \in S : x <= y
<1> DEFINE R == {ss \in Nat \X Nat : ss[1] < ss[2]}
<1>1. IsWellFoundedOn(R, Nat)
  BY NatLessThanWellFounded DEF OpToRel
<1>2. PICK x \in S : \A y \in S : ~(<<y, x>> \in R)
  BY <1>1, WFMin
<1>3. \A y \in S : <<y, x>> \in Nat \X Nat /\ <<y, x>>[1] = y /\ <<y, x>>[2] = x
  OBVIOUS
<1>4. \A y \in S : ~(y < x)
  BY <1>2, <1>3
<1> QED BY <1>4

LEMMA EveryPartHasAPlace ==
  /\ Len(Order) \in Nat
  /\ \A i \in 1 .. Len(Order) : Order[i] \in Parts
  /\ \A p \in Parts : \E i \in 1 .. Len(Order) : p = Order[i]
BY OrderAssumption

\* NextRunning is the first part after i that has not ended, 0 if all have.
LEMMA NextRunningIsNext ==
  ASSUME NEW i \in 0 .. Len(Order)
  PROVE  LET next == NextRunning(i)
         IN  /\ next = 0 => \A j \in i + 1 .. Len(Order) : ~Running(Order[j])
             /\ next # 0 => /\ next \in i + 1 .. Len(Order)
                            /\ Running(Order[next])
                            /\ \A j \in i + 1 .. next - 1 : ~Running(Order[j])
<1> DEFINE later == {j \in i + 1 .. Len(Order) : Running(Order[j])}
           first == CHOOSE j \in later : \A k \in later : j <= k
<1>0. NextRunning(i) = IF later = {} THEN 0 ELSE first
  BY DEF NextRunning
<1>1. later \subseteq Nat /\ 0 \notin later
  BY EveryPartHasAPlace
<1>2. CASE later = {}
  BY <1>0, <1>2
<1>3. CASE later # {}
  <2>1. \E j \in later : \A k \in later : j <= k
    BY <1>1, <1>3, SmallestOf
  <2>2. first \in later /\ \A k \in later : first <= k
    BY <2>1
  <2> HIDE DEF first
  <2>3. \A j \in i + 1 .. first - 1 : ~Running(Order[j])
    BY <2>2, EveryPartHasAPlace
  <2> QED BY <1>0, <1>1, <1>3, <2>2, <2>3
<1> QED BY <1>2, <1>3

--------------------------------------------------------------------------------
(***************************************************************************)
(* The inductive invariant                                                 *)
(***************************************************************************)
\* A STOP pends on a hooked part only if the part was stopped in this set: prepare()
\* has ignored the older ones.
StopsAreFresh == pending \cap Hooked \subseteq asked

\* Whoever stops one part stops them all.
AllAreAsked == asked = {} \/ Hooked \subseteq asked

\* A part that has failed is remembered, and nothing else is.
FailuresAreKnown == failed <=> \E p \in Parts : hook[p] = "failed"

\* The queue and the items of the Spawneds are of functions that have ended.
EndedOnly ==
  /\ \A i \in 1 .. Len(queue) : queue[i] \in Hooked /\ ~Running(queue[i])
  /\ \A p \in token : ~Running(p)

\* run_hooks() is in progress while it waits.
InProgress == phase # "Idle" <=> outcome = "running"

\* Until an error is got, each part's result is ok or has still to be got, and only
\* a stop from outside has reached them.
Getting ==
  phase = "Get" =>
    /\ \A p \in Hooked : p \in awaited \/ hook[p] = "ok"
    /\ asked # {} => stopped

\* After it, nothing runs before the part that Collect is blocked on, that one runs
\* or has left its item, and the error has its reason.
Collecting ==
  phase = "Collect" =>
    /\ position \in 1 .. Len(Order)
    /\ Order[position] \in Hooked
    /\ Running(Order[position]) \/ Order[position] \in token
    /\ \A i \in 1 .. position - 1 : ~Running(Order[i])
    /\ raised \in Errors
    /\ raised = "failed" => failed
    /\ raised = "aborted" => stopped \/ unasked # {}
    /\ Hooked \subseteq asked \/ unasked # {}

HooksInv ==
  /\ TypeOK
  /\ StopsAreFresh /\ AllAreAsked /\ AbortsAreOurs /\ FailuresAreKnown
  /\ EndedOnly /\ InProgress /\ Getting /\ Collecting
  /\ NobodyLeftBehind

--------------------------------------------------------------------------------
(***************************************************************************)
(* The types                                                               *)
(***************************************************************************)
\* What the end of a function changes; the rest of the step is in the actions.
LEMMA EndIs ==
  ASSUME TypeOK, NEW p \in Parts, NEW result \in {"ok"} \cup Errors, End(p, result)
  PROVE  /\ hook' \in [Parts -> {"none", "running", "ok"} \cup Errors]
         /\ hook'[p] = result
         /\ \A q \in Parts \ {p} : hook'[q] = hook[q]
         /\ Hooked' = Hooked /\ p \in Hooked
         /\ queue' \in Seq(Parts) /\ token' \subseteq Parts
<1>1. hook' = [hook EXCEPT ![p] = result] /\ hook[p] = "running"
  BY DEF End, Running
<1>2. hook' \in [Parts -> {"none", "running", "ok"} \cup Errors]
  BY <1>1 DEF TypeOK
<1>3. hook'[p] = result /\ \A q \in Parts \ {p} : hook'[q] = hook[q]
  BY <1>1 DEF TypeOK
<1>4. Hooked' = Hooked /\ p \in Hooked
  BY <1>1, <1>3 DEF Hooked, Errors
<1>5. queue' \in Seq(Parts) /\ token' \subseteq Parts
  BY AppendProperties DEF End, TypeOK
<1> QED BY <1>2, <1>3, <1>4, <1>5

LEMMA EndTypes ==
  ASSUME TypeOK, NEW p \in Parts, NEW result \in {"ok"} \cup Errors, End(p, result),
         pending' \subseteq Parts, unasked' \subseteq Parts, failed' \in BOOLEAN,
         spent' \in [rounds : 0 .. MaxRounds, stops : 0 .. MaxStops, faults : 0 .. MaxFaults]
  PROVE  TypeOK'
<1>1. /\ hook' \in [Parts -> {"none", "running", "ok"} \cup Errors]
      /\ Hooked' = Hooked /\ queue' \in Seq(Parts) /\ token' \subseteq Parts
  BY EndIs
<1>2. UNCHANGED <<awaited, phase, position, raised, outcome, asked, stopped>>
  BY DEF End
<1> QED BY <1>1, <1>2 DEF TypeOK

LEMMA CollectFromTypes ==
  ASSUME TypeOK, NEW i \in 0 .. Len(Order), NEW error \in Errors \cup {"none"},
         CollectFrom(i, error)
  PROVE  /\ phase' \in {"Idle", "Get", "Collect"}
         /\ position' \in 0 .. Len(Order)
         /\ outcome' \in {"none", "running", "ok", "timeout"} \cup Errors
<1>1. CASE NextRunning(i) = 0
  BY <1>1, EveryPartHasAPlace DEF CollectFrom, ReturnHooks
<1>2. CASE NextRunning(i) # 0
  <2>1. NextRunning(i) \in 0 .. Len(Order)
    BY <1>2, NextRunningIsNext, EveryPartHasAPlace
  <2> QED BY <1>2, <2>1 DEF CollectFrom, TypeOK
<1> QED BY <1>1, <1>2

\* The head of the queue is a part, and what is left is still a queue.
LEMMA HeadOfQueue ==
  ASSUME TypeOK, queue # << >>
  PROVE  /\ Head(queue) \in Parts /\ Head(queue) = queue[1]
         /\ 1 \in 1 .. Len(queue)
         /\ Tail(queue) \in Seq(Parts)
         /\ \A i \in 1 .. Len(Tail(queue)) :
              i + 1 \in 1 .. Len(queue) /\ Tail(queue)[i] = queue[i + 1]
<1>1. Len(queue) \in Nat \ {0}
  BY EmptySeq DEF TypeOK
<1>2. Head(queue) = queue[1]
  BY DEF TypeOK
<1> QED BY <1>1, <1>2, HeadTailProperties DEF TypeOK

LEMMA TypesKept == TypeOK /\ [Next]_hookVars => TypeOK'
<1> SUFFICES ASSUME TypeOK, [Next]_hookVars PROVE TypeOK'
  OBVIOUS
<1>1. CASE StartHooks
  <2> PICK parts \in (SUBSET Parts) \ {{}} :
        /\ hook' = [p \in Parts |-> IF p \in parts THEN "running" ELSE "none"]
        /\ awaited' = parts
        /\ pending' = pending \ parts
    BY <1>1 DEF StartHooks, Prepare
  <2>1. hook' \in [Parts -> {"none", "running", "ok"} \cup Errors]
    OBVIOUS
  <2>2. awaited' \subseteq Hooked'
    BY DEF Hooked
  <2>3. queue' \in Seq(Parts)
    BY <1>1 DEF StartHooks
  <2>4. spent' \in [rounds : 0 .. MaxRounds, stops : 0 .. MaxStops, faults : 0 .. MaxFaults]
    BY <1>1, BoundsAssumption DEF StartHooks, TypeOK
  <2> QED BY <1>1, <2>1, <2>2, <2>3, <2>4 DEF StartHooks, TypeOK
<1>2. CASE Interrupt
  <2>1. spent' \in [rounds : 0 .. MaxRounds, stops : 0 .. MaxStops, faults : 0 .. MaxFaults]
    BY <1>2, BoundsAssumption DEF Interrupt, TypeOK
  <2> QED BY <1>2, <2>1 DEF Interrupt, Interrupted, TypeOK, Hooked
<1>3. ASSUME NEW p \in Parts, Function(p) PROVE TypeOK'
  <2>1. CASE FunctionReturns(p)
    BY <2>1, EndTypes DEF FunctionReturns, TypeOK
  <2>2. CASE FunctionFails(p)
    <3>1. spent' \in [rounds : 0 .. MaxRounds, stops : 0 .. MaxStops, faults : 0 .. MaxFaults]
      BY <2>2, BoundsAssumption DEF FunctionFails, TypeOK
    <3>2. End(p, "failed") /\ failed' = TRUE /\ UNCHANGED <<pending, unasked>>
      BY <2>2 DEF FunctionFails
    <3> QED BY <3>1, <3>2, EndTypes DEF TypeOK, Errors
  <2>3. CASE FunctionAborts(p)
    <3>1. End(p, "aborted") /\ pending' \subseteq pending /\ UNCHANGED <<failed, unasked, spent>>
      BY <2>3 DEF FunctionAborts
    <3> QED BY <3>1, EndTypes DEF TypeOK, Errors
  <2>4. CASE ChildAborted(p)
    <3>1. End(p, "aborted") /\ unasked' = unasked \cup {p} /\ UNCHANGED <<pending, failed, spent>>
      BY <2>4 DEF ChildAborted
    <3> QED BY <3>1, EndTypes DEF TypeOK, Errors
  <2> QED BY <1>3, <2>1, <2>2, <2>3, <2>4 DEF Function
<1>4. CASE GetResult
  BY <1>4, HeadOfQueue, EveryPartHasAPlace DEF GetResult, ReturnHooks, TypeOK, Hooked
<1>5. CASE GetError
  <2> DEFINE error == hook[Head(queue)]
  <2>1. error \in Errors /\ CollectFrom(0, error)
    BY <1>5 DEF GetError
  <2>2. /\ phase' \in {"Idle", "Get", "Collect"}
        /\ position' \in 0 .. Len(Order)
        /\ outcome' \in {"none", "running", "ok", "timeout"} \cup Errors
    BY <2>1, CollectFromTypes, EveryPartHasAPlace
  <2>3. /\ pending' = pending \cup StoppedBy(error) /\ asked' = asked \cup StoppedBy(error)
        /\ StoppedBy(error) \subseteq Parts
    BY <1>5 DEF GetError, StoppedBy, Hooked
  <2>4. queue' \in Seq(Parts) /\ awaited' \subseteq Hooked'
    BY <1>5, HeadOfQueue DEF GetError, TypeOK, Hooked
  <2>5. raised' = error
    BY <1>5 DEF GetError
  <2> QED BY <1>5, <2>1, <2>2, <2>3, <2>4, <2>5 DEF GetError, TypeOK
<1>6. CASE CollectNext
  <2>1. raised \in Errors \cup {"none"} /\ position \in 0 .. Len(Order)
    BY DEF TypeOK
  <2>2. CollectFrom(position, raised)
    BY <1>6 DEF CollectNext
  <2>3. /\ phase' \in {"Idle", "Get", "Collect"}
        /\ position' \in 0 .. Len(Order)
        /\ outcome' \in {"none", "running", "ok", "timeout"} \cup Errors
    BY <2>1, <2>2, CollectFromTypes, EveryPartHasAPlace
       DEF CollectFrom, ReturnHooks
  <2> QED BY <1>6, <2>3 DEF CollectNext, TypeOK, Hooked
<1>7. CASE CollectTimesOut
  BY <1>7, EveryPartHasAPlace DEF CollectTimesOut, ReturnHooks, TypeOK, Hooked
<1>8. CASE UNCHANGED hookVars
  BY <1>8 DEF hookVars, TypeOK, Hooked
<1> QED BY <1>1, <1>2, <1>3, <1>4, <1>5, <1>6, <1>7, <1>8 DEF Next, WaitHooks

LEMMA TypesAtStart == Init => TypeOK
<1> SUFFICES ASSUME Init PROVE TypeOK
  OBVIOUS
<1>1. hook \in [Parts -> {"none", "running", "ok"} \cup Errors]
  BY DEF Init
<1>2. spent \in [rounds : 0 .. MaxRounds, stops : 0 .. MaxStops, faults : 0 .. MaxFaults]
  BY BoundsAssumption DEF Init
<1>3. queue \in Seq(Parts) /\ position \in 0 .. Len(Order)
  BY EveryPartHasAPlace DEF Init
<1> QED BY <1>1, <1>2, <1>3 DEF Init, TypeOK

--------------------------------------------------------------------------------
(***************************************************************************)
(* Every step keeps the invariant                                          *)
(***************************************************************************)
LEMMA StartHooksKeeps ==
  ASSUME HooksInv, StartHooks, TypeOK'
  PROVE  HooksInv'
<1> PICK parts \in (SUBSET Parts) \ {{}} :
      /\ hook' = [p \in Parts |-> IF p \in parts THEN "running" ELSE "none"]
      /\ awaited' = parts
      /\ pending' = pending \ parts
  BY DEF StartHooks, Prepare
<1>1. Hooked' = parts /\ \A p \in Parts : hook'[p] \in {"running", "none"}
  BY DEF Hooked
<1>2. StopsAreFresh' /\ AllAreAsked'
  BY <1>1 DEF StartHooks, StopsAreFresh, AllAreAsked
<1>3. AbortsAreOurs' /\ FailuresAreKnown'
  BY <1>1 DEF StartHooks, AbortsAreOurs, FailuresAreKnown
<1>4. EndedOnly'
  <2>1. queue' = << >> /\ token' = {} /\ Len(<< >>) = 0
    BY EmptySeq DEF StartHooks
  <2> QED BY <2>1 DEF EndedOnly
<1>5. InProgress' /\ Getting' /\ Collecting'
  BY <1>1 DEF StartHooks, InProgress, Getting, Collecting
<1>6. NobodyLeftBehind'
  BY DEF StartHooks, NobodyLeftBehind, Errors
<1> QED BY <1>2, <1>3, <1>4, <1>5, <1>6 DEF HooksInv

\* A function ends, whichever way: what an aborted one needs is a reason.
LEMMA EndKeeps ==
  ASSUME HooksInv, TypeOK', NEW p \in Parts, NEW result \in {"ok"} \cup Errors,
         End(p, result),
         pending' \subseteq pending,
         unasked \subseteq unasked',
         result = "aborted" => p \in asked \cup unasked',
         failed' <=> failed \/ result = "failed"
  PROVE  HooksInv'
<1> USE DEF HooksInv
<1>1. /\ hook[p] = "running" /\ hook'[p] = result /\ result # "running" /\ result # "none"
      /\ \A q \in Parts \ {p} : hook'[q] = hook[q]
      /\ Hooked' = Hooked /\ p \in Hooked
  BY EndIs DEF End, Running, Errors
<1>2. /\ queue' = Append(queue, p) /\ token' = token \cup {p}
      /\ UNCHANGED <<awaited, phase, position, raised, outcome, asked, stopped>>
  BY DEF End
<1>3. StopsAreFresh' /\ AllAreAsked'
  BY <1>1, <1>2 DEF StopsAreFresh, AllAreAsked
<1>4. AbortsAreOurs' /\ FailuresAreKnown'
  BY <1>1, <1>2 DEF AbortsAreOurs, FailuresAreKnown
<1>5. EndedOnly'
  <2>1. ASSUME NEW i \in 1 .. Len(queue') PROVE queue'[i] \in Hooked /\ hook'[queue'[i]] # "running"
    <3>1. /\ queue \in Seq(Parts) /\ Len(queue) \in Nat
          /\ Len(queue') = Len(queue) + 1
          /\ \A k \in 1 .. Len(queue) : queue'[k] = queue[k]
          /\ queue'[Len(queue) + 1] = p
      BY <1>2, AppendProperties, LenProperties DEF TypeOK
    <3>2. CASE i = Len(queue) + 1
      BY <1>1, <3>1, <3>2
    <3>3. CASE i \in 1 .. Len(queue)
      <4>1. queue[i] \in Hooked /\ hook[queue[i]] # "running"
        BY <3>3 DEF EndedOnly, Running
      <4> QED BY <1>1, <3>1, <3>3, <4>1 DEF Hooked
    <3> QED BY <3>1, <3>2, <3>3
  <2>2. \A q \in token' : hook'[q] # "running"
    BY <1>1, <1>2 DEF EndedOnly, Running, TypeOK
  <2> QED BY <1>1, <2>1, <2>2 DEF EndedOnly, Running
<1>6. InProgress'
  BY <1>2 DEF InProgress
<1>7. Getting'
  <2>1. p \in Hooked /\ hook[p] # "ok"
    BY <1>1
  <2> QED BY <1>1, <1>2, <2>1 DEF Getting, Hooked
<1>8. Collecting'
  <2> SUFFICES ASSUME phase = "Collect" PROVE Collecting'
    BY <1>2 DEF Collecting
  <2>1. \A i \in 1 .. Len(Order) : Running(Order[i])' => Running(Order[i])
    BY <1>1, EveryPartHasAPlace DEF Running
  <2>2. position \in 1 .. Len(Order) /\ Order[position] \in Parts
    BY EveryPartHasAPlace DEF Collecting
  <2>3. Running(Order[position])' \/ Order[position] \in token'
    BY <1>1, <1>2, <2>2 DEF Collecting, Running
  <2>4. \A i \in 1 .. position - 1 : ~Running(Order[i])'
    BY <2>1, <2>2, EveryPartHasAPlace DEF Collecting
  <2>5. Hooked' \subseteq asked' \/ unasked' # {}
    BY <1>1, <1>2 DEF Collecting
  <2>6. raised' = "aborted" => stopped' \/ unasked' # {}
    BY <1>2 DEF Collecting
  <2>7. raised' \in Errors /\ (raised' = "failed" => failed')
    BY <1>2 DEF Collecting
  <2> QED BY <1>1, <1>2, <2>2, <2>3, <2>4, <2>5, <2>6, <2>7 DEF Collecting
<1>9. NobodyLeftBehind'
  <2>1. outcome \notin {"ok"} \cup Errors
    BY <1>1 DEF NobodyLeftBehind, Running
  <2> QED BY <1>1, <1>2, <2>1 DEF NobodyLeftBehind
<1> QED BY <1>3, <1>4, <1>5, <1>6, <1>7, <1>8, <1>9

LEMMA FunctionKeeps ==
  ASSUME HooksInv, TypeOK', NEW p \in Parts, Function(p)
  PROVE  HooksInv'
<1>1. CASE FunctionReturns(p)
  <2>1. End(p, "ok") /\ UNCHANGED <<pending, failed, unasked>>
    BY <1>1 DEF FunctionReturns
  <2> QED BY <2>1, EndKeeps
<1>2. CASE FunctionFails(p)
  <2>1. End(p, "failed") /\ failed' = TRUE /\ UNCHANGED <<pending, unasked>>
    BY <1>2 DEF FunctionFails
  <2> QED BY <2>1, EndKeeps DEF Errors
<1>3. CASE FunctionAborts(p)
  <2>1. /\ p \in pending /\ End(p, "aborted")
        /\ pending' = pending \ {p} /\ UNCHANGED <<failed, unasked>>
    BY <1>3 DEF FunctionAborts
  <2>2. p \in asked
    BY <2>1 DEF HooksInv, StopsAreFresh, End, Running, Hooked
  <2> QED BY <2>1, <2>2, EndKeeps DEF Errors
<1>4. CASE ChildAborted(p)
  <2>1. End(p, "aborted") /\ unasked' = unasked \cup {p} /\ UNCHANGED <<pending, failed>>
    BY <1>4 DEF ChildAborted
  <2> QED BY <2>1, EndKeeps DEF Errors
<1> QED BY <1>1, <1>2, <1>3, <1>4 DEF Function

LEMMA InterruptKeeps ==
  ASSUME HooksInv, Interrupt, TypeOK'
  PROVE  HooksInv'
<1> USE DEF HooksInv
<1>1. /\ pending' = Parts /\ asked' = Parts /\ stopped' = TRUE
      /\ UNCHANGED <<hook, token, queue, awaited, phase, position, raised, outcome, failed, unasked>>
  BY DEF Interrupt, Interrupted
<1>2. Hooked' = Hooked /\ Hooked \subseteq Parts
  BY <1>1 DEF Hooked
<1>3. StopsAreFresh' /\ AllAreAsked' /\ AbortsAreOurs' /\ FailuresAreKnown'
  BY <1>1, <1>2 DEF StopsAreFresh, AllAreAsked, AbortsAreOurs, FailuresAreKnown
<1>4. EndedOnly' /\ InProgress' /\ Getting' /\ Collecting'
  BY <1>1, <1>2 DEF EndedOnly, InProgress, Getting, Collecting, Running
<1>5. NobodyLeftBehind'
  BY <1>1, <1>2 DEF NobodyLeftBehind, Running
<1> QED BY <1>3, <1>4, <1>5

\* wait_hooks() after an error: it waits for a part that still runs, and none before
\* that one runs, or it raises the error and none runs at all.
LEMMA CollectFromIs ==
  ASSUME NEW i \in 0 .. Len(Order), NEW error, CollectFrom(i, error),
         \A j \in 1 .. i : ~Running(Order[j])
  PROVE  \/ phase' = "Idle" /\ outcome' = error /\ \A p \in Parts : ~Running(p)
         \/ /\ phase' = "Collect" /\ outcome' = outcome
            /\ position' \in 1 .. Len(Order)
            /\ Running(Order[position'])
            /\ \A j \in 1 .. position' - 1 : ~Running(Order[j])
<1>1. CASE NextRunning(i) = 0
  <2>1. \A j \in 1 .. Len(Order) : ~Running(Order[j])
    BY <1>1, NextRunningIsNext, EveryPartHasAPlace
  <2>2. \A p \in Parts : ~Running(p)
    BY <2>1, EveryPartHasAPlace
  <2> QED BY <1>1, <2>2 DEF CollectFrom, ReturnHooks
<1>2. CASE NextRunning(i) # 0
  <2>1. /\ phase' = "Collect" /\ outcome' = outcome
        /\ position' = NextRunning(i)
    BY <1>2 DEF CollectFrom
  <2> DEFINE next == NextRunning(i)
  <2>2. /\ next \in i + 1 .. Len(Order)
        /\ Running(Order[next])
        /\ \A j \in i + 1 .. next - 1 : ~Running(Order[j])
    BY <1>2, NextRunningIsNext
  <2> HIDE DEF next
  <2>3. next \in 1 .. Len(Order) /\ \A j \in 1 .. next - 1 : j \in 1 .. i \/ j \in i + 1 .. next - 1
    BY <2>2, EveryPartHasAPlace
  <2>4. \A j \in 1 .. next - 1 : ~Running(Order[j])
    BY <2>2, <2>3
  <2>5. position' = next
    BY <2>1 DEF next
  <2> QED BY <2>1, <2>2, <2>3, <2>4, <2>5
<1> QED BY <1>1, <1>2

\* The queue gives up its head: what is left is still of functions that have ended.
LEMMA TailHasEnded ==
  ASSUME HooksInv, queue # << >>, queue' = Tail(queue), hook' = hook, token' \subseteq token
  PROVE  EndedOnly' /\ Head(queue) \in Hooked /\ ~Running(Head(queue))
BY HeadOfQueue DEF HooksInv, EndedOnly, Hooked, Running

LEMMA GetResultKeeps ==
  ASSUME HooksInv, GetResult, TypeOK'
  PROVE  HooksInv'
<1> USE DEF HooksInv
<1> DEFINE h == Head(queue)
<1>1. /\ phase = "Get" /\ queue # << >> /\ hook[h] = "ok"
      /\ queue' = Tail(queue) /\ awaited' = awaited \ {h}
      /\ UNCHANGED <<hook, pending, token, raised, asked, stopped, failed, unasked>>
  BY DEF GetResult
<1>2. Hooked' = Hooked /\ \A p \in Parts : Running(p)' <=> Running(p)
  BY <1>1 DEF Hooked, Running
<1>3. StopsAreFresh' /\ AllAreAsked' /\ AbortsAreOurs' /\ FailuresAreKnown'
  BY <1>1, <1>2 DEF StopsAreFresh, AllAreAsked, AbortsAreOurs, FailuresAreKnown
<1>4. EndedOnly'
  BY <1>1, TailHasEnded
<1>5. \A p \in Hooked : p \in awaited' \/ hook[p] = "ok"
  BY <1>1 DEF Getting
<1>6. CASE awaited' = {}
  <2>1. phase' = "Idle" /\ outcome' = "ok"
    BY <1>1, <1>6 DEF GetResult, ReturnHooks
  <2>2. \A p \in Parts : ~Running(p)
    BY <1>5, <1>6 DEF Running, Hooked
  <2>3. NobodyLeftBehind'
    BY <1>2, <2>1, <2>2 DEF NobodyLeftBehind
  <2> QED BY <1>3, <1>4, <2>1, <2>3 DEF InProgress, Getting, Collecting
<1>7. CASE awaited' # {}
  <2>1. UNCHANGED <<phase, outcome, position>>
    BY <1>7 DEF GetResult
  <2>2. InProgress' /\ Getting' /\ Collecting'
    BY <1>1, <1>2, <1>5, <2>1 DEF InProgress, Getting, Collecting
  <2>3. NobodyLeftBehind'
    BY <1>1, <1>2, <2>1 DEF NobodyLeftBehind
  <2> QED BY <1>3, <1>4, <2>2, <2>3
<1> QED BY <1>6, <1>7

LEMMA GetErrorKeeps ==
  ASSUME HooksInv, GetError, TypeOK'
  PROVE  HooksInv'
<1> USE DEF HooksInv
<1> DEFINE h == Head(queue)
           error == hook[h]
<1>1. /\ phase = "Get" /\ queue # << >> /\ error \in Errors
      /\ raised' = error
      /\ pending' = pending \cup StoppedBy(error)
      /\ asked' = asked \cup StoppedBy(error)
      /\ CollectFrom(0, error)
      /\ queue' = Tail(queue)
      /\ UNCHANGED <<hook, token, stopped, failed, unasked>>
  BY DEF GetError
<1>2. Hooked' = Hooked /\ \A p \in Parts : Running(p)' <=> Running(p)
  BY <1>1 DEF Hooked, Running
<1>3. h \in Parts /\ h \in Hooked
  BY <1>1, TailHasEnded DEF Hooked
<1>4. StoppedBy(error) \subseteq Hooked /\ (StoppedBy(error) # {} => StoppedBy(error) = Hooked)
  BY DEF StoppedBy
<1>5. StopsAreFresh' /\ AllAreAsked' /\ AbortsAreOurs' /\ FailuresAreKnown'
  BY <1>1, <1>2, <1>4 DEF StopsAreFresh, AllAreAsked, AbortsAreOurs, FailuresAreKnown
<1>6. EndedOnly'
  BY <1>1, TailHasEnded
<1>7. error = "failed" => failed
  BY <1>3 DEF FailuresAreKnown
<1>8. error = "aborted" => h \in asked \/ unasked # {}
  BY <1>3 DEF AbortsAreOurs
<1>9. error = "aborted" => stopped \/ unasked # {}
  BY <1>1, <1>8 DEF Getting
<1>10. Hooked \subseteq asked' \/ unasked # {}
  <2>1. CASE error = "failed"
    BY <1>1, <2>1 DEF StoppedBy
  <2>2. CASE error = "aborted"
    BY <1>1, <1>8, <2>2 DEF AllAreAsked
  <2> QED BY <1>1, <2>1, <2>2 DEF Errors
<1> HIDE DEF error
<1>11. \/ phase' = "Idle" /\ outcome' = error /\ \A p \in Parts : ~Running(p)
       \/ /\ phase' = "Collect" /\ outcome' = outcome
          /\ position' \in 1 .. Len(Order)
          /\ Running(Order[position'])
          /\ \A j \in 1 .. position' - 1 : ~Running(Order[j])
  BY <1>1, CollectFromIs, EveryPartHasAPlace
<1>12. CASE phase' = "Idle"
  <2>1. outcome' = error /\ \A p \in Parts : ~Running(p)
    BY <1>11, <1>12
  <2>2. NobodyLeftBehind'
    BY <1>1, <1>2, <2>1 DEF NobodyLeftBehind, Errors
  <2> QED BY <1>1, <1>5, <1>6, <1>12, <2>1, <2>2 DEF InProgress, Getting, Collecting, Errors
<1>13. CASE phase' = "Collect"
  <2>1. /\ outcome' = outcome
        /\ position' \in 1 .. Len(Order)
        /\ Running(Order[position'])
        /\ \A j \in 1 .. position' - 1 : ~Running(Order[j])
    BY <1>11, <1>13
  <2>2. Order[position'] \in Hooked /\ Order[position'] \in Parts
    BY <2>1, EveryPartHasAPlace DEF Running, Hooked
  <2>3. Running(Order[position])' /\ \A j \in 1 .. position' - 1 : ~Running(Order[j])'
    BY <1>1, <2>1, EveryPartHasAPlace DEF Running
  <2>4. Collecting'
    BY <1>1, <1>2, <1>7, <1>9, <1>10, <2>1, <2>2, <2>3 DEF Collecting
  <2>5. InProgress' /\ Getting'
    BY <1>1, <1>13, <2>1 DEF InProgress, Getting
  <2>6. NobodyLeftBehind'
    BY <1>1, <2>1 DEF InProgress, NobodyLeftBehind, Errors
  <2> QED BY <1>5, <1>6, <2>4, <2>5, <2>6
<1> QED BY <1>11, <1>12, <1>13

LEMMA CollectNextKeeps ==
  ASSUME HooksInv, CollectNext, TypeOK'
  PROVE  HooksInv'
<1> USE DEF HooksInv
<1>1. /\ phase = "Collect" /\ Order[position] \in token
      /\ token' = token \ {Order[position]}
      /\ CollectFrom(position, raised)
      /\ UNCHANGED <<hook, pending, queue, awaited, raised, asked, stopped, failed, unasked>>
  BY DEF CollectNext
<1>2. Hooked' = Hooked /\ \A p \in Parts : Running(p)' <=> Running(p)
  BY <1>1 DEF Hooked, Running
<1>3. StopsAreFresh' /\ AllAreAsked' /\ AbortsAreOurs' /\ FailuresAreKnown'
  BY <1>1, <1>2 DEF StopsAreFresh, AllAreAsked, AbortsAreOurs, FailuresAreKnown
<1>4. EndedOnly'
  BY <1>1, <1>2 DEF EndedOnly, Running
<1>5. /\ position \in 1 .. Len(Order) /\ raised \in Errors
      /\ \A j \in 1 .. position : ~Running(Order[j])
  BY <1>1, EveryPartHasAPlace DEF Collecting, EndedOnly
<1>6. \/ phase' = "Idle" /\ outcome' = raised /\ \A p \in Parts : ~Running(p)
      \/ /\ phase' = "Collect" /\ outcome' = outcome
         /\ position' \in 1 .. Len(Order)
         /\ Running(Order[position'])
         /\ \A j \in 1 .. position' - 1 : ~Running(Order[j])
  BY <1>1, <1>5, CollectFromIs, EveryPartHasAPlace
<1>7. CASE phase' = "Idle"
  <2>1. outcome' = raised /\ \A p \in Parts : ~Running(p)
    BY <1>6, <1>7
  <2>2. NobodyLeftBehind'
    BY <1>2, <1>5, <2>1 DEF NobodyLeftBehind, Errors
  <2> QED BY <1>3, <1>4, <1>5, <1>7, <2>1, <2>2 DEF InProgress, Getting, Collecting, Errors
<1>8. CASE phase' = "Collect"
  <2>1. /\ outcome' = outcome
        /\ position' \in 1 .. Len(Order)
        /\ Running(Order[position'])
        /\ \A j \in 1 .. position' - 1 : ~Running(Order[j])
    BY <1>6, <1>8
  <2>2. Order[position'] \in Hooked
    BY <2>1, EveryPartHasAPlace DEF Running, Hooked
  <2>3. Running(Order[position])' /\ \A j \in 1 .. position' - 1 : ~Running(Order[j])'
    BY <1>1, <2>1, EveryPartHasAPlace DEF Running
  <2>4. Collecting'
    BY <1>1, <1>2, <2>1, <2>2, <2>3 DEF Collecting
  <2>5. InProgress' /\ Getting'
    BY <1>1, <1>8, <2>1 DEF InProgress, Getting
  <2>6. NobodyLeftBehind'
    BY <1>1, <2>1 DEF InProgress, NobodyLeftBehind, Errors
  <2> QED BY <1>3, <1>4, <2>4, <2>5, <2>6
<1> QED BY <1>6, <1>7, <1>8

LEMMA CollectTimesOutKeeps ==
  ASSUME HooksInv, CollectTimesOut, TypeOK'
  PROVE  HooksInv'
<1> USE DEF HooksInv
<1>1. /\ phase = "Collect" /\ phase' = "Idle" /\ outcome' = "timeout"
      /\ UNCHANGED <<hook, pending, token, queue, awaited, raised, asked, stopped, failed, unasked>>
  BY DEF CollectTimesOut, ReturnHooks
<1>2. Hooked' = Hooked /\ \A p \in Parts : Running(p)' <=> Running(p)
  BY <1>1 DEF Hooked, Running
<1>3. StopsAreFresh' /\ AllAreAsked' /\ AbortsAreOurs' /\ FailuresAreKnown'
  BY <1>1, <1>2 DEF StopsAreFresh, AllAreAsked, AbortsAreOurs, FailuresAreKnown
<1>4. EndedOnly' /\ InProgress' /\ Getting' /\ Collecting'
  BY <1>1 DEF EndedOnly, Running, Hooked, InProgress, Getting, Collecting
<1>5. NobodyLeftBehind'
  BY <1>1, <1>2 DEF NobodyLeftBehind, Collecting, Errors
<1> QED BY <1>3, <1>4, <1>5

LEMMA HooksKeep == HooksInv /\ [Next]_hookVars => HooksInv'
<1> SUFFICES ASSUME HooksInv, [Next]_hookVars PROVE HooksInv'
  OBVIOUS
<1>1. TypeOK'
  BY TypesKept DEF HooksInv
<1>2. CASE UNCHANGED hookVars
  <2>1. Hooked' = Hooked /\ \A p \in Parts : Running(p)' <=> Running(p)
    BY <1>2 DEF hookVars, Hooked, Running
  <2>2. StopsAreFresh' /\ AllAreAsked' /\ AbortsAreOurs' /\ FailuresAreKnown'
    BY <1>2, <2>1 DEF HooksInv, hookVars, StopsAreFresh, AllAreAsked, AbortsAreOurs, FailuresAreKnown
  <2>3. EndedOnly' /\ InProgress' /\ Getting' /\ Collecting'
    BY <1>2 DEF HooksInv, hookVars, Hooked, Running, EndedOnly, InProgress, Getting, Collecting
  <2>4. NobodyLeftBehind'
    BY <1>1, <1>2, <2>1 DEF HooksInv, hookVars, NobodyLeftBehind
  <2> QED BY <1>1, <2>2, <2>3, <2>4 DEF HooksInv
<1> QED
  BY <1>1, <1>2, StartHooksKeeps, InterruptKeeps, FunctionKeeps, GetResultKeeps, GetErrorKeeps,
     CollectNextKeeps, CollectTimesOutKeeps DEF Next, WaitHooks

\* The invariant of run_hooks(), from which the two promises below are read off.
THEOREM HooksInvariant == Spec => []HooksInv
<1>1. ASSUME Init PROVE HooksInv
  <2>1. TypeOK
    BY <1>1, TypesAtStart
  <2>2. Hooked = {} /\ \A p \in Parts : ~Running(p) /\ hook[p] = "none"
    BY <1>1 DEF Init, Hooked, Running
  <2>3. StopsAreFresh /\ AllAreAsked /\ AbortsAreOurs /\ FailuresAreKnown
    BY <1>1, <2>2 DEF Init, StopsAreFresh, AllAreAsked, AbortsAreOurs, FailuresAreKnown
  <2>4. EndedOnly
    <3>1. Len(queue) = 0 /\ token = {}
      BY <1>1, EmptySeq DEF Init
    <3> QED BY <3>1 DEF EndedOnly
  <2>5. InProgress /\ Getting /\ Collecting /\ NobodyLeftBehind
    BY <1>1, <2>1 DEF Init, InProgress, Getting, Collecting, NobodyLeftBehind, Errors
  <2> QED BY <2>1, <2>3, <2>4, <2>5 DEF HooksInv
<1> QED BY <1>1, HooksKeep, PTL DEF Spec

\* When run_hooks() returns or raises anything but a TimeoutError, no function of its
\* hooks runs any more; it gives up on none that nobody has stopped, unless a part has
\* raised AbortedError by itself (controller.py, wait_hooks).
THEOREM NobodyIsLeftBehind == Spec => []NobodyLeftBehind
<1>1. HooksInv => NobodyLeftBehind
  BY DEF HooksInv
<1> QED BY <1>1, HooksInvariant, PTL

\* No part is aborted by a STOP that was meant for an earlier set of hooks: prepare()
\* makes its context ignore those (hook.py, context.py).
THEOREM NoForeignAborts == Spec => []AbortsAreOurs
<1>1. HooksInv => AbortsAreOurs
  BY DEF HooksInv
<1> QED BY <1>1, HooksInvariant, PTL

--------------------------------------------------------------------------------
(***************************************************************************)
(* Hooks implements HookSet                                                *)
(***************************************************************************)
live == \E p \in Parts : Running(p)

LEMMA StartHooksIsBegin ==
  ASSUME HooksInv, StartHooks
  PROVE  Contract!Begin
<1> PICK parts \in (SUBSET Parts) \ {{}} :
      hook' = [p \in Parts |-> IF p \in parts THEN "running" ELSE "none"]
  BY DEF StartHooks
<1>1. PICK p \in parts : p \in Parts /\ hook'[p] = "running"
  OBVIOUS
<1>2. outcome # "running"
  BY DEF HooksInv, InProgress, StartHooks
<1> QED BY <1>1, <1>2 DEF StartHooks, Contract!Begin, Running

LEMMA FunctionIsFinish ==
  ASSUME HooksInv, NEW p \in Parts, Function(p)
  PROVE  [Contract!Next]_(Contract!vars)
<1>1. hook[p] = "running" /\ UNCHANGED <<outcome, stopped>>
  BY DEF Function, FunctionReturns, FunctionFails, FunctionAborts, ChildAborted, End, Running
<1>2. live /\ live' \in BOOLEAN
  BY <1>1 DEF live, Running
<1>3. CASE FunctionReturns(p) \/ FunctionAborts(p)
  <2>1. UNCHANGED <<failed, unasked>>
    BY <1>3 DEF FunctionReturns, FunctionAborts
  <2>2. CASE live'
    BY <1>1, <1>2, <2>1, <2>2 DEF Contract!vars, live
  <2>3. CASE ~live'
    <3>1. Contract!Finish
      BY <1>1, <1>2, <2>1, <2>3 DEF Contract!Finish, live
    <3> QED BY <3>1 DEF Contract!Next
  <2> QED BY <2>2, <2>3
<1>4. CASE FunctionFails(p)
  <2>1. failed' = TRUE /\ UNCHANGED unasked
    BY <1>4 DEF FunctionFails
  <2>2. Contract!Fail
    BY <1>1, <1>2, <2>1 DEF Contract!Fail, live
  <2> QED BY <2>2 DEF Contract!Next
<1>5. CASE ChildAborted(p)
  <2>1. ChildAborts /\ unasked' = unasked \cup {p} /\ UNCHANGED failed
    BY <1>5 DEF ChildAborted
  <2>2. (unasked' # {}) = TRUE
    BY <2>1
  <2>3. Contract!Abort
    BY <1>1, <1>2, <2>1, <2>2 DEF Contract!Abort, live
  <2> QED BY <2>3 DEF Contract!Next
<1> QED BY <1>3, <1>4, <1>5 DEF Function

LEMMA InterruptIsStop ==
  ASSUME Interrupt
  PROVE  Contract!Stop
BY DEF Interrupt, Interrupted, Contract!Stop, Running

\* wait_hooks() goes on, or returns as the contract lets it.
LEMMA ReturnIsAllowed ==
  ASSUME HooksInv, phase # "Idle", NEW end \in Contract!Ends, outcome' = end,
         UNCHANGED <<hook, stopped, failed, unasked>>,
         end # "timeout" => ~live,
         end = "ok" => ~failed,
         end = "failed" => failed,
         end = "aborted" => stopped \/ unasked # {},
         end = "timeout" => SlowParts \/ unasked # {}
  PROVE  Contract!Return
<1>1. outcome = "running"
  BY DEF HooksInv, InProgress
<1>2. Contract!MayReturn(end)
  BY DEF Contract!MayReturn, Contract!Ends, live
<1> QED BY <1>1, <1>2 DEF Contract!Return, Running

LEMMA WaitIsReturn ==
  ASSUME HooksInv, HooksInv', WaitHooks
  PROVE  Contract!Return \/ UNCHANGED Contract!vars
<1> USE DEF HooksInv
<1>1. phase # "Idle" /\ UNCHANGED <<hook, stopped, failed, unasked>>
  BY DEF WaitHooks, GetResult, GetError, CollectNext, CollectTimesOut
<1>2. CASE outcome' = outcome
  BY <1>1, <1>2 DEF Contract!vars, Running
<1>3. CASE outcome' # outcome
  <2>1. CASE GetResult
    <3>1. outcome' = "ok" /\ awaited' = {} /\ awaited' = awaited \ {Head(queue)}
          /\ hook[Head(queue)] = "ok" /\ phase = "Get"
      BY <1>3, <2>1 DEF GetResult, ReturnHooks
    <3>2. ~live
      BY <1>1, <3>1 DEF NobodyLeftBehind, live, Running
    <3>3. \A p \in Hooked : hook[p] = "ok"
      BY <3>1 DEF Getting
    <3>4. ~failed
      BY <3>3 DEF FailuresAreKnown, Hooked
    <3> QED BY <1>1, <3>1, <3>2, <3>4, ReturnIsAllowed DEF Contract!Ends
  <2>2. CASE GetError
    <3> DEFINE error == hook[Head(queue)]
    <3>1. outcome' = error /\ error \in Errors /\ phase = "Get" /\ queue # << >>
      BY <1>3, <2>2 DEF GetError, CollectFrom, ReturnHooks
    <3>2. Head(queue) \in Parts
      BY <3>1, HeadOfQueue
    <3>3. ~live
      BY <1>1, <3>1 DEF NobodyLeftBehind, live, Running
    <3>4. (error = "failed" => failed) /\ (error = "aborted" => stopped \/ unasked # {})
      BY <3>1, <3>2 DEF FailuresAreKnown, AbortsAreOurs, Getting
    <3> HIDE DEF error
    <3> QED BY <1>1, <3>1, <3>3, <3>4, ReturnIsAllowed DEF Contract!Ends, Errors
  <2>3. CASE CollectNext
    <3>1. outcome' = raised /\ raised \in Errors /\ phase = "Collect"
      BY <1>3, <2>3 DEF CollectNext, CollectFrom, ReturnHooks, Collecting
    <3>2. ~live
      BY <1>1, <3>1 DEF NobodyLeftBehind, live, Running
    <3>3. (raised = "failed" => failed) /\ (raised = "aborted" => stopped \/ unasked # {})
      BY <3>1 DEF Collecting
    <3> QED BY <1>1, <3>1, <3>2, <3>3, ReturnIsAllowed DEF Contract!Ends, Errors
  <2>4. CASE CollectTimesOut
    <3>1. outcome' = "timeout" /\ phase = "Collect" /\ MayOutlast(Order[position])
      BY <2>4 DEF CollectTimesOut, ReturnHooks
    <3>2. Running(Order[position]) /\ Order[position] \in Hooked
      BY <3>1 DEF Collecting, MayOutlast
    <3>3. SlowParts \/ unasked # {}
      BY <3>1, <3>2 DEF Collecting, MayOutlast
    <3> QED BY <1>1, <3>1, <3>3, ReturnIsAllowed DEF Contract!Ends
  <2> QED BY <2>1, <2>2, <2>3, <2>4 DEF WaitHooks
<1> QED BY <1>2, <1>3

\* run_hooks() with many parts looks to its caller like one hook: Hooks implements
\* the contract that RunnableController relies on.
THEOREM HooksImplementContract == Spec => OneHook
<1>1. Init => Contract!Init
  BY DEF Init, Contract!Init, Running
<1>2. ASSUME HooksInv, HooksInv', [Next]_hookVars PROVE [Contract!Next]_(Contract!vars)
  <2>1. CASE StartHooks
    BY <1>2, <2>1, StartHooksIsBegin DEF Contract!Next
  <2>2. CASE Interrupt
    BY <2>2, InterruptIsStop DEF Contract!Next
  <2>3. CASE WaitHooks
    BY <1>2, <2>3, WaitIsReturn DEF Contract!Next
  <2>4. CASE \E p \in Parts : Function(p)
    BY <1>2, <2>4, FunctionIsFinish
  <2>5. CASE UNCHANGED hookVars
    BY <2>5 DEF hookVars, Contract!vars, Running
  <2> QED BY <1>2, <2>1, <2>2, <2>3, <2>4, <2>5 DEF Next
<1> QED BY <1>1, <1>2, HooksInvariant, PTL DEF Spec, OneHook, Contract!Spec

--------------------------------------------------------------------------------
(***************************************************************************)
(* The process: what is true of stop()                                     *)
(***************************************************************************)
\* While stop() walks over the list of what was spawned, it is the same list.
OneList == same = TRUE /\ missed = {}

\* What runs is listed, and nothing runs in a process that is stopped.
Listed == \A t \in Tasks : Live(t) => t \in spawned
NothingRuns == state = "Stopped" => \A t \in Tasks : ~Live(t)

\* The state says where start() and stop() are.
StateOfMain ==
  /\ state = "Stopped" => step["main"] = "Idle"
  /\ state = "Starting" => step["main"] \in {"Starting", "Publishing"}
  /\ state = "Started" => step["main"] = "Idle"
  /\ state = "Stopping" => step["main"] \in {"Stopping", "Waiting", "Failed"}

\* Whoever adds controllers does so for a request that is listed.
AddersAreRequests == \A a \in Adders : step[a] # "Idle" => <<"request", a>> \in alive

\* One at a time adds, publishes or stops.
OneAtATime == \A a, b \in Busy : a = b

\* Nobody waits for other controllers than those of the process, which is started once.
OwnControllers ==
  /\ \A a \in Actors : state # "Stopped" => mine[a] \subseteq controllers
  /\ \A a \in Actors : ~used.started => mine[a] = {}
  /\ state # "Stopped" => used.started

\* stop() gives every controller its stop hook before it waits for anything else.
Halting ==
  /\ step["main"] = "Stopping" => \A c \in controllers : c \in met \/ <<"stop", c>> \in alive
  /\ step["main"] = "Waiting" => controllers \subseteq met

StopInv ==
  /\ OneList /\ Listed /\ NothingRuns /\ StateOfMain /\ AddersAreRequests /\ OneAtATime
  /\ OwnControllers /\ Halting /\ AllAreHalted

--------------------------------------------------------------------------------
(***************************************************************************)
(* What is true of what is published                                       *)
(***************************************************************************)
\* Whose start hook has not ended is waited for.
StartsAreAwaited ==
  \A c \in Controllers : <<"start", c>> \in alive =>
    \E a \in Actors : step[a] = "Starting" /\ c \in mine[a]

\* A controller that has asked not to be published is known for it, at the latest when
\* all that were started with it are.
ReportsAreKnown ==
  /\ unpublished \subseteq reported
  /\ state # "Stopped" => \A c \in controllers \cap reported :
       c \in unpublished \/ \E a \in Actors : step[a] = "Starting" /\ c \in mine[a]

\* Each request adds once.
AddsOnce == \A a \in Adders : step[a] # "Idle" => <<"request", a>> \in used.requests

NobodyPublishes == \A a \in Actors : step[a] # "Publishing"

\* Who publishes has asked for everything, or everything is published.
OnePublishes ==
  /\ \A a \in Actors : step[a] = "Publishing" =>
       \/ /\ publishes = <<[by |-> a, list |-> controllers \ unpublished]>>
          /\ <<"publish", a>> \in alive
       \/ /\ publishes = << >>
          /\ told = controllers \ unpublished
  /\ NobodyPublishes => publishes = << >>
  /\ \A a \in Adders : step[a] = "Publishing" => state = "Started"

\* Nothing is published before all that was there is started; after that, everything
\* but what is being added.
ToldIsRight ==
  /\ state = "Stopped" /\ ~used.started => told = {}
  /\ step["main"] = "Starting" => told = {}
  /\ state = "Started" /\ NobodyPublishes =>
       /\ \A a \in Adders : step[a] = "Starting" => told = (controllers \ mine[a]) \ unpublished
       /\ (\A a \in Adders : step[a] # "Starting") => told = controllers \ unpublished

PublishInv ==
  /\ StateOfMain /\ OneAtATime /\ OwnControllers /\ AddsOnce
  /\ StartsAreAwaited /\ ReportsAreKnown /\ OnePublishes /\ ToldIsRight

--------------------------------------------------------------------------------
(***************************************************************************)
(* What is true of the item of a part's Spawned                            *)
(***************************************************************************)
HostIsThere == Initial \subseteq controllers \/ (state = "Stopped" /\ used.started)

\* With one part, wait_hooks() never collects, so that stop() gets the item.
ItemIsLeft ==
  /\ phase # "Collect"
  /\ queue # << >> => \A p \in Parts : ~Running(p)
  /\ step["main"] = "Waiting" /\ at \in Parts => Running(at) \/ at \in token

ItemInv == HostIsThere /\ ItemIsLeft /\ TimeoutIsTrue

\* What has been used of the bounds, and how the functions of the hooks are.
RecordsAreTyped ==
  /\ used \in [requests : SUBSET OtherTasks, faults : Nat, started : BOOLEAN, outlasted : BOOLEAN]
  /\ hook \in [Parts -> {"none", "running", "ok"} \cup Errors]
  /\ pending \subseteq Parts

--------------------------------------------------------------------------------
(***************************************************************************)
(* Tasks and the list of them                                              *)
(***************************************************************************)
\* The functions of parts are other tasks than the rest.
LEMMA OtherThanParts ==
  /\ Parts \subseteq Tasks /\ OtherTasks \subseteq Tasks
  /\ \A t \in OtherTasks : t \notin Parts
  /\ NoTask \notin Parts
BY TasksAssumption DEF Tasks

LEMMA TasksOf ==
  /\ Configure \in OtherTasks /\ <<"loop", Comms>> \in OtherTasks
  /\ \A c \in Controllers : <<"start", c>> \in OtherTasks /\ <<"stop", c>> \in OtherTasks
  /\ \A a \in Adders : <<"request", a>> \in OtherTasks
  /\ \A a \in Actors : <<"publish", a>> \in OtherTasks
BY DEF OtherTasks

LEMMA PartsAreFinite == IsFiniteSet(Parts)
<1> DEFINE place == [i \in 1 .. Len(Order) |-> Order[i]]
<1>1. Len(Order) \in Int /\ Order \in Seq(Parts)
  BY OrderAssumption
<1>2. IsFiniteSet(1 .. Len(Order))
  BY <1>1, FS_Interval
<1>3. place \in Surjection(1 .. Len(Order), Parts)
  BY <1>1, OrderAssumption DEF Surjection
<1> HIDE DEF place
<1> QED BY <1>2, <1>3, FS_Surjection

LEMMA BatchesAreFinite ==
  /\ \A cs \in SUBSET Controllers : IsFiniteSet({"start"} \X cs) /\ IsFiniteSet({"stop"} \X cs)
  /\ \A t : IsFiniteSet({t})
<1>1. \A cs \in SUBSET Controllers : IsFiniteSet(cs)
  BY FS_Subset, ProcessAssumption
<1>2. \A t : IsFiniteSet({t})
  BY FS_Singleton
<1> QED BY <1>1, <1>2, FS_Product

LEMMA CountedIsBelow ==
  ASSUME NEW total \in Nat
  PROVE  Counted(total) \in 0 .. ClearCount
<1>1. ClearCount + 1 \in Nat \ {0}
  BY ProcessAssumption
<1>2. \A m \in Nat \ {0} : total % m \in 0 .. m - 1
  OBVIOUS
<1> QED BY <1>1, <1>2, ProcessAssumption DEF Counted

\* What is spawned is listed, and what was listed and runs stays so.
LEMMA SpawnIs ==
  ASSUME ProcessTypeOK, NEW ts \in SUBSET Tasks, IsFiniteSet(ts), Spawn(ts)
  PROVE  /\ count' \in 0 .. ClearCount
         /\ spawned' \subseteq Tasks /\ missed' \subseteq spawned'
         /\ same' \in BOOLEAN
         /\ ts \subseteq spawned'
         /\ \A t \in spawned : Live(t) => t \in spawned'
         /\ ~LateClears /\ OneList => OneList'
<1>1. Cardinality(ts) \in Nat /\ count \in Nat
  BY FS_CardinalityType DEF ProcessTypeOK
<1>2. count' \in 0 .. ClearCount
  BY <1>1, CountedIsBelow DEF Spawn
<1> DEFINE full == count + Cardinality(ts) > ClearCount
<1>3. /\ full /\ step["main"] = "Waiting" => LateClears
      /\ spawned' = ts \cup IF full THEN Cleared(spawned) ELSE spawned
      /\ same' = (same /\ ~(full /\ step["main"] = "Waiting"))
      /\ missed' = IF same' THEN {} ELSE (missed \cup ts) \cap spawned'
  BY DEF Spawn
<1> HIDE DEF full
<1>4. Cleared(spawned) = {t \in spawned : Live(t)}
  BY DEF Cleared
<1>5. spawned' \subseteq Tasks /\ ts \subseteq spawned' /\ \A t \in spawned : Live(t) => t \in spawned'
  BY <1>3, <1>4 DEF ProcessTypeOK
<1>6. same' \in BOOLEAN /\ missed' \subseteq spawned'
  BY <1>3
<1>7. ~LateClears /\ OneList => OneList'
  BY <1>3 DEF OneList
<1> QED BY <1>2, <1>5, <1>6, <1>7
--------------------------------------------------------------------------------
(***************************************************************************)
(* The types                                                               *)
(***************************************************************************)
LEMMA HookStepIs ==
  ASSUME HookStep
  PROVE  UNCHANGED processVars
BY DEF HookStep

LEMMA SpawnTasksIs ==
  ASSUME ProcessTypeOK, NEW ts \in SUBSET OtherTasks, IsFiniteSet(ts), SpawnTasks(ts)
  PROVE  /\ count' \in 0 .. ClearCount
         /\ spawned' \subseteq Tasks /\ missed' \subseteq spawned'
         /\ same' \in BOOLEAN
         /\ alive' = alive \cup ts /\ alive' \subseteq OtherTasks
BY SpawnIs, OtherThanParts DEF SpawnTasks, ProcessTypeOK

LEMMA RunHooksIs ==
  ASSUME ProcessTypeOK, RunHooks
  PROVE  \E ts \in SUBSET Parts :
           /\ ts # {} /\ Spawn(ts) /\ IsFiniteSet(ts) /\ ts \subseteq Tasks
           /\ hook' = [p \in Parts |-> IF p \in ts THEN "running" ELSE "none"]
<1> PICK ts \in (SUBSET Parts) \ {{}} :
      /\ hook' = [p \in Parts |-> IF p \in ts THEN "running" ELSE "none"]
      /\ awaited' = ts
  BY DEF RunHooks, StartHooks
<1>1. Spawn(ts)
  BY DEF RunHooks
<1>2. IsFiniteSet(ts)
  BY PartsAreFinite, FS_Subset
<1> QED BY <1>1, <1>2, OtherThanParts

LEMMA WalkOnTypes ==
  ASSUME ProcessTypeOK, NEW unready \in SUBSET spawned, WalkOn(unready)
  PROVE  /\ state' \in {"Stopped", "Starting", "Started", "Stopping"}
         /\ controllers' \subseteq Controllers /\ unpublished' \subseteq Controllers
         /\ step' \in [Actors -> Steps]
         /\ spawned' \subseteq Tasks /\ missed' \subseteq spawned'
         /\ same' \in BOOLEAN
         /\ at' \in Tasks \cup {NoTask}
BY DEF WalkOn, ProcessTypeOK, Steps

LEMMA HookTasks ==
  \A cs \in SUBSET Controllers :
     {"start"} \X cs \subseteq OtherTasks /\ {"stop"} \X cs \subseteq OtherTasks
<1> TAKE cs \in SUBSET Controllers
<1>1. ASSUME NEW t \in {"start"} \X cs PROVE t \in OtherTasks
  <2>1. PICK c \in cs : t = <<"start", c>>
    OBVIOUS
  <2> QED BY <2>1, TasksOf
<1>2. ASSUME NEW t \in {"stop"} \X cs PROVE t \in OtherTasks
  <2>1. PICK c \in cs : t = <<"stop", c>>
    OBVIOUS
  <2> QED BY <2>1, TasksOf
<1> QED BY <1>1, <1>2

LEMMA StartControllersTypes ==
  ASSUME ProcessTypeOK, NEW a \in Actors, NEW cs \in SUBSET Controllers,
         StartControllers(a, cs)
  PROVE  /\ count' \in 0 .. ClearCount
         /\ spawned' \subseteq Tasks /\ missed' \subseteq spawned'
         /\ same' \in BOOLEAN
         /\ alive' \subseteq OtherTasks
         /\ mine' \in [Actors -> SUBSET Controllers]
         /\ step' \in [Actors -> Steps]
<1>1. SpawnTasks({"start"} \X cs)
  BY DEF StartControllers
<1>2. {"start"} \X cs \in SUBSET OtherTasks /\ IsFiniteSet({"start"} \X cs)
  BY HookTasks, BatchesAreFinite
<1>3. mine' \in [Actors -> SUBSET Controllers] /\ step' \in [Actors -> Steps]
  BY DEF StartControllers, ProcessTypeOK, Steps
<1> QED BY <1>1, <1>2, <1>3, SpawnTasksIs
\* What the requests have used of the bounds never grows beyond its type.
LEMMA RequestTypes ==
  ASSUME ProcessTypeOK, NEW r \in {"configure"} \cup Adders, Request(r)
  PROVE  /\ count' \in 0 .. ClearCount
         /\ spawned' \subseteq Tasks /\ missed' \subseteq spawned'
         /\ same' \in BOOLEAN
         /\ alive' \subseteq OtherTasks
<1>1. SpawnTasks({<<"request", r>>})
  BY DEF Request
<1>2. <<"request", r>> \in OtherTasks
  BY TasksOf DEF Configure
<1> QED BY <1>1, <1>2, SpawnTasksIs, BatchesAreFinite

LEMMA MainIsAnActor == "main" \in Actors /\ Adders \subseteq Actors /\ "main" \notin Adders
BY ProcessAssumption DEF Actors

LEMMA ControllersStartedTypes ==
  ASSUME ProcessTypeOK, NEW a \in Actors, ControllersStarted(a)
  PROVE  ProcessTypeOK'
<1> DEFINE new == reported \cap mine[a]
           publish == ListLength(a) > Cardinality(new) /\ (a = "main" \/ state = "Started")
<1>1. unpublished' = unpublished \cup new
  BY DEF ControllersStarted
<1>2. IF publish
        THEN PublishControllers(a) /\ UNCHANGED state
        ELSE /\ step' = [step EXCEPT ![a] = "Idle"]
             /\ state' = IF a = "main" THEN "Started" ELSE state
             /\ UNCHANGED <<publishes, alive, spawned, count, same, missed>>
  BY DEF ControllersStarted
<1>3. UNCHANGED <<hookVars, controllers, reported, mine, told, at, met, used>>
  BY DEF ControllersStarted
<1> HIDE DEF publish
<1>4. unpublished' \subseteq Controllers /\ new \subseteq Controllers
  BY <1>1 DEF ProcessTypeOK
<1> HIDE DEF new
<1>5. CASE publish
  <2>1. /\ step' = [step EXCEPT ![a] = "Publishing"]
        /\ publishes' = Append(publishes, [by |-> a, list |-> ToPublish])
        /\ SpawnTasks({<<"publish", a>>})
        /\ UNCHANGED state
    BY <1>2, <1>5 DEF PublishControllers
  <2>2. ToPublish \subseteq Controllers
    BY DEF ToPublish, ProcessTypeOK
  <2>3. publishes' \in Seq([by : Actors, list : SUBSET Controllers])
    BY <2>1, <2>2 DEF ProcessTypeOK
  <2>4. /\ count' \in 0 .. ClearCount
        /\ spawned' \subseteq Tasks /\ missed' \subseteq spawned'
        /\ same' \in BOOLEAN
        /\ alive' \subseteq OtherTasks
    BY <2>1, SpawnTasksIs, TasksOf, BatchesAreFinite
  <2>5. step' \in [Actors -> Steps]
    BY <2>1 DEF ProcessTypeOK, Steps
  <2> QED BY <1>3, <1>4, <2>1, <2>3, <2>4, <2>5 DEF ProcessTypeOK
<1>6. CASE ~publish
  <2>1. /\ step' = [step EXCEPT ![a] = "Idle"]
        /\ state' = IF a = "main" THEN "Started" ELSE state
        /\ UNCHANGED <<publishes, alive, spawned, count, same, missed>>
    BY <1>2, <1>6
  <2>2. step' \in [Actors -> Steps]
    BY <2>1 DEF ProcessTypeOK, Steps
  <2> QED BY <1>3, <1>4, <2>1, <2>2 DEF ProcessTypeOK
<1> QED BY <1>5, <1>6

LEMMA StartedTypes ==
  ASSUME ProcessTypeOK, NEW c \in Controllers, Started(c)
  PROVE  ProcessTypeOK'
<1>1. /\ reported' \subseteq Hidden
      /\ UNCHANGED <<hookVars, state, controllers, unpublished, step, mine, publishes, told, at, met>>
  BY DEF Started, ProcessTypeOK
<1>2. CASE c = Comms /\ c \notin met
  <2>1. Spawn({<<"loop", c>>}) /\ alive' = (alive \ {<<"start", c>>}) \cup {<<"loop", c>>}
    BY <1>2 DEF Started
  <2>2. <<"loop", c>> \in OtherTasks /\ {<<"loop", c>>} \in SUBSET Tasks
    BY <1>2, TasksOf, OtherThanParts
  <2>3. /\ count' \in 0 .. ClearCount
        /\ spawned' \subseteq Tasks /\ missed' \subseteq spawned'
        /\ same' \in BOOLEAN
    BY <2>1, <2>2, SpawnIs, BatchesAreFinite
  <2> QED BY <1>1, <2>1, <2>2, <2>3 DEF ProcessTypeOK
<1>3. CASE ~(c = Comms /\ c \notin met)
  <2>1. alive' = alive \ {<<"start", c>>} /\ UNCHANGED <<spawned, count, same, missed>>
    BY <1>3 DEF Started
  <2> QED BY <1>1, <2>1 DEF ProcessTypeOK
<1> QED BY <1>2, <1>3

LEMMA ProcessTypesKept == ProcessTypeOK /\ [ProcessNext]_vars => ProcessTypeOK'
<1> SUFFICES ASSUME ProcessTypeOK, [ProcessNext]_vars PROVE ProcessTypeOK'
  OBVIOUS
<1> USE MainIsAnActor
<1>1. CASE Start
  <2>1. StartControllers("main", controllers)
    BY <1>1 DEF Start
  <2>2. controllers \in SUBSET Controllers
    BY DEF ProcessTypeOK
  <2>3. /\ state' = "Starting"
        /\ UNCHANGED <<hookVars, controllers, unpublished, reported, publishes, told, at, met>>
    BY <1>1 DEF Start
  <2> QED BY <2>1, <2>2, <2>3, StartControllersTypes DEF ProcessTypeOK
<1>2. CASE Stop
  <2>1. /\ state' = "Stopping"
        /\ step' = [step EXCEPT !["main"] = "Stopping"]
        /\ SpawnTasks({"stop"} \X controllers)
        /\ UNCHANGED <<hookVars, controllers, unpublished, reported, mine, publishes, told, at, met, used>>
    BY <1>2 DEF Stop, ToHalt
  <2>2. {"stop"} \X controllers \in SUBSET OtherTasks /\ IsFiniteSet({"stop"} \X controllers)
    BY HookTasks, BatchesAreFinite DEF ProcessTypeOK
  <2>3. step' \in [Actors -> Steps]
    BY <2>1 DEF ProcessTypeOK, Steps
  <2> QED BY <2>1, <2>2, <2>3, SpawnTasksIs DEF ProcessTypeOK
<1>3. CASE ArriveConfigure
  <2>1. Request("configure")
    BY <1>3 DEF ArriveConfigure
  <2> QED BY <1>3, <2>1, RequestTypes DEF ArriveConfigure, ProcessTypeOK
<1>4. ASSUME NEW a \in Adders, ArriveAdder(a) PROVE ProcessTypeOK'
  <2>1. Request(a) /\ step' = [step EXCEPT ![a] = "Asked"]
    BY <1>4 DEF ArriveAdder
  <2>2. step' \in [Actors -> Steps]
    BY <2>1 DEF ProcessTypeOK, Steps
  <2>3. UNCHANGED <<hookVars, state, controllers, unpublished, reported, mine, publishes, told, at, met>>
    BY <1>4 DEF ArriveAdder
  <2> QED BY <2>1, <2>2, <2>3, RequestTypes DEF ProcessTypeOK
<1>5. ASSUME NEW c \in Controllers, Started(c) PROVE ProcessTypeOK'
  BY <1>5, StartedTypes
<1>6. ASSUME NEW c \in Controllers, Halted(c) PROVE ProcessTypeOK'
  BY <1>6 DEF Halted, ProcessTypeOK
<1>7. ASSUME NEW a \in Actors, ControllersStarted(a) PROVE ProcessTypeOK'
  BY <1>7, ControllersStartedTypes
<1>8. ASSUME NEW a \in Actors, ControllersPublished(a) PROVE ProcessTypeOK'
  <2>1. step' \in [Actors -> Steps]
    BY <1>8 DEF ControllersPublished, ProcessTypeOK, Steps
  <2> QED BY <1>8, <2>1 DEF ControllersPublished, ProcessTypeOK
<1>9. ASSUME NEW a \in Adders, AddControllers(a) PROVE ProcessTypeOK'
  <2>1. /\ Adds[a] \in SUBSET Controllers
        /\ controllers' = controllers \cup Adds[a]
        /\ UNCHANGED <<hookVars, state, unpublished, reported, publishes, told, at, met, used>>
    BY <1>9, ProcessAssumption DEF AddControllers
  <2>2. CASE state = "Stopped"
    <3>1. step' = [step EXCEPT ![a] = "Idle"] /\ UNCHANGED <<mine, alive, spawned, count, same, missed>>
      BY <1>9, <2>2 DEF AddControllers
    <3>2. step' \in [Actors -> Steps]
      BY <3>1 DEF ProcessTypeOK, Steps
    <3> QED BY <2>1, <3>1, <3>2 DEF ProcessTypeOK
  <2>3. CASE state # "Stopped"
    <3>1. StartControllers(a, Adds[a])
      BY <1>9, <2>3 DEF AddControllers
    <3> QED BY <2>1, <3>1, StartControllersTypes DEF ProcessTypeOK
  <2> QED BY <2>2, <2>3
<1>10. CASE RunHooks
  <2>1. /\ count' \in 0 .. ClearCount
        /\ spawned' \subseteq Tasks /\ missed' \subseteq spawned'
        /\ same' \in BOOLEAN
    BY <1>10, RunHooksIs, SpawnIs
  <2> QED BY <1>10, <2>1 DEF RunHooks, ProcessTypeOK
<1>11. CASE RequestEnds
  BY <1>11 DEF RequestEnds, ProcessTypeOK
<1>12. CASE Publish
  <2> DEFINE Requests == [by : Actors, list : SUBSET Controllers]
  <2>1. publishes \in Seq(Requests)
    BY DEF ProcessTypeOK
  <2>2. \A r \in Requests : r.list \subseteq Controllers
    OBVIOUS
  <2> HIDE DEF Requests
  <2>3. Head(publishes) \in Requests /\ Tail(publishes) \in Seq(Requests)
    BY <1>12, <2>1, HeadTailProperties DEF Publish
  <2>4. publishes' \in Seq(Requests) /\ told' \subseteq Controllers
    BY <1>12, <2>2, <2>3 DEF Publish
  <2> USE DEF Requests
  <2> QED BY <1>12, <2>4 DEF Publish, ProcessTypeOK
<1>13. CASE ControllersStopped
  <2>1. WalkOn({t \in spawned : Live(t)})
    BY <1>13 DEF ControllersStopped
  <2> QED BY <1>13, <2>1, WalkOnTypes DEF ControllersStopped, ProcessTypeOK
<1>14. CASE TaskEnded
  <2>1. WalkOn({t \in spawned \ missed : Live(t)})
    BY <1>14 DEF TaskEnded
  <2> QED BY <1>14, <2>1, WalkOnTypes DEF TaskEnded, ProcessTypeOK
<1>15. CASE WaitTimesOut
  <2>1. step' \in [Actors -> Steps]
    BY <1>15 DEF WaitTimesOut, ProcessTypeOK, Steps
  <2> QED BY <1>15, <2>1 DEF WaitTimesOut, ProcessTypeOK
<1>16. CASE UNCHANGED processVars
  BY <1>16 DEF processVars, ProcessTypeOK
<1> QED
  BY <1>1, <1>2, <1>3, <1>4, <1>5, <1>6, <1>7, <1>8, <1>9, <1>10, <1>11, <1>12, <1>13, <1>14,
     <1>15, <1>16, HookStepIs DEF ProcessNext, Call, Step, vars, HookStep
LEMMA FunctionIs ==
  ASSUME RecordsAreTyped, NEW p \in Parts, Function(p)
  PROVE  \E result \in {"ok"} \cup Errors :
           /\ hook[p] = "running" /\ hook' = [hook EXCEPT ![p] = result]
           /\ token' = token \cup {p} /\ UNCHANGED phase
           /\ queue' = Append(queue, p) /\ pending' \subseteq pending
BY DEF Function, FunctionReturns, FunctionFails, FunctionAborts, ChildAborted, End, Running, Errors

\* Nothing but a function ends by itself, and only run_hooks() starts one.
LEMMA HookStepEnds ==
  ASSUME RecordsAreTyped, HookStep
  PROVE  /\ UNCHANGED processVars
         /\ RecordsAreTyped'
         /\ \A t \in Tasks : Live(t)' => Live(t)
<1>1. UNCHANGED processVars
  BY DEF HookStep
<1>2. CASE Interrupt \/ WaitHooks
  <2>1. hook' = hook
    BY <1>2 DEF Interrupt, Interrupted, WaitHooks, GetResult, GetError, CollectNext, CollectTimesOut
  <2>2. pending' \subseteq Parts
    BY <1>2 DEF Interrupt, Interrupted, WaitHooks, GetResult, GetError, CollectNext, CollectTimesOut,
                StoppedBy, Hooked, RecordsAreTyped
  <2> QED BY <1>1, <2>1, <2>2 DEF RecordsAreTyped, Live, Running, processVars
<1>3. ASSUME NEW p \in Parts, Function(p)
      PROVE  /\ RecordsAreTyped'
             /\ \A t \in Tasks : Live(t)' => Live(t)
  <2> PICK result \in {"ok"} \cup Errors :
        hook' = [hook EXCEPT ![p] = result] /\ pending' \subseteq pending
    BY <1>3, FunctionIs
  <2> QED BY <1>1 DEF RecordsAreTyped, Live, Running, processVars, Errors
<1> QED BY <1>1, <1>2, <1>3 DEF HookStep

\* The actions, one by one.
LEMMA StepIsOneOf ==
  ASSUME RecordsAreTyped, [ProcessNext]_vars
  PROVE  \/ Start \/ Stop \/ ArriveConfigure \/ \E a \in Adders : ArriveAdder(a)
         \/ \E c \in Controllers : Started(c)
         \/ \E c \in Controllers : Halted(c)
         \/ \E a \in Actors : ControllersStarted(a)
         \/ \E a \in Actors : ControllersPublished(a)
         \/ \E a \in Adders : AddControllers(a)
         \/ RunHooks \/ RequestEnds \/ Publish
         \/ ControllersStopped \/ TaskEnded \/ WaitTimesOut
         \/ HookStep \/ UNCHANGED vars
BY DEF ProcessNext, Call, Step, HookStep, RecordsAreTyped

LEMMA RecordsKept == RecordsAreTyped /\ [ProcessNext]_vars => RecordsAreTyped'
<1> SUFFICES ASSUME RecordsAreTyped, [ProcessNext]_vars PROVE RecordsAreTyped'
  OBVIOUS
<1> DEFINE Used == [requests : SUBSET OtherTasks, faults : Nat, started : BOOLEAN, outlasted : BOOLEAN]
<1>1. ASSUME NEW r \in {"configure"} \cup Adders, Request(r) PROVE used' \in Used
  <2>1. <<"request", r>> \in OtherTasks
    BY TasksOf DEF Configure
  <2> QED BY <1>1, <2>1 DEF Request, RecordsAreTyped
<1>2. CASE RunHooks
  <2>1. /\ hook' \in [Parts -> {"none", "running", "ok"} \cup Errors]
        /\ UNCHANGED used /\ pending' \subseteq Parts
    BY <1>2 DEF RunHooks, StartHooks, Prepare, RecordsAreTyped
  <2> QED BY <2>1 DEF RecordsAreTyped
<1>3. CASE HookStep
  BY <1>3, HookStepEnds
<1>4. CASE Start
  BY <1>4 DEF Start, hookVars, RecordsAreTyped
<1>5. CASE WaitTimesOut
  <2>1. Live(at) \in BOOLEAN
    <3>1. CASE at \in Parts
      BY <3>1 DEF Live, Running
    <3>2. CASE at \notin Parts
      BY <3>2 DEF Live
    <3> QED BY <3>1, <3>2
  <2> QED BY <1>5, <2>1 DEF WaitTimesOut, hookVars, RecordsAreTyped
<1>6. ASSUME NEW c \in Controllers, Started(c) PROVE RecordsAreTyped'
  BY <1>6 DEF Started, hookVars, RecordsAreTyped
<1>7. CASE ArriveConfigure
  BY <1>1, <1>7 DEF ArriveConfigure, hookVars, RecordsAreTyped
<1>8. ASSUME NEW a \in Adders, ArriveAdder(a) PROVE RecordsAreTyped'
  BY <1>1, <1>8 DEF ArriveAdder, hookVars, RecordsAreTyped
<1>9. ASSUME NEW c \in Controllers, Halted(c) PROVE RecordsAreTyped'
  BY <1>9 DEF Halted, Interrupted, hookVars, RecordsAreTyped
<1>10. CASE \/ \E a \in Actors : ControllersStarted(a) \/ ControllersPublished(a)
            \/ \E a \in Adders : AddControllers(a)
            \/ Stop \/ RequestEnds \/ Publish \/ ControllersStopped \/ TaskEnded
            \/ UNCHANGED vars
  <2>1. UNCHANGED <<used, hook, pending>>
    BY <1>10 DEF ControllersStarted, ControllersPublished, AddControllers, Stop, RequestEnds,
                 Publish, ControllersStopped, TaskEnded, vars, hookVars, processVars
  <2> QED BY <2>1 DEF RecordsAreTyped
<1> QED
  BY <1>2, <1>3, <1>4, <1>5, <1>6, <1>7, <1>8, <1>9, <1>10, StepIsOneOf
--------------------------------------------------------------------------------
(***************************************************************************)
(* Who does what                                                           *)
(***************************************************************************)
LEMMA AtMostOne ==
  ASSUME NEW S, IsFiniteSet(S), Cardinality(S) <= 1
  PROVE  \A x, y \in S : x = y
<1> SUFFICES ASSUME NEW x \in S, NEW y \in S, x # y PROVE FALSE
  OBVIOUS
<1>1. IsFiniteSet({y}) /\ Cardinality({y}) = 1
  BY FS_Singleton
<1>2. Cardinality({y} \cup {x}) = 2
  BY <1>1, FS_AddElement
<1>3. {y} \cup {x} \in SUBSET S
  OBVIOUS
<1>4. Cardinality({y} \cup {x}) <= Cardinality(S) /\ Cardinality(S) \in Nat
  BY <1>3, FS_Subset, FS_CardinalityType
<1> QED BY <1>2, <1>4

LEMMA KeptApartIs ==
  ASSUME KeptApart, ~OverlapAdds
  PROVE  OneAtATime'
<1>1. Cardinality(Busy') <= 1
  BY DEF KeptApart
<1>2. IsFiniteSet({"main"} \cup Adders)
  BY ProcessAssumption, FS_Singleton, FS_Union
<1>3. Busy' \in SUBSET ({"main"} \cup Adders)
  BY DEF Busy
<1>4. IsFiniteSet(Busy')
  BY <1>2, <1>3, FS_Subset
<1> QED BY <1>1, <1>4, AtMostOne DEF OneAtATime

LEMMA OneAtATimeKept ==
  ASSUME ProcessTypeOK, RecordsAreTyped, OneAtATime, ~OverlapAdds, [ProcessNext]_vars
  PROVE  OneAtATime'
<1> USE MainIsAnActor DEF ProcessTypeOK
<1>1. ASSUME \A a \in Adders : step'[a] # "Idle" => step[a] # "Idle",
             step'["main"] \in {"Publishing", "Stopping", "Waiting"} =>
               step["main"] \in {"Publishing", "Stopping", "Waiting"}
      PROVE  OneAtATime'
  <2>1. Busy' \subseteq Busy
    BY <1>1 DEF Busy
  <2> QED BY <2>1 DEF OneAtATime
<1>2. ASSUME step' = step PROVE OneAtATime'
  BY <1>1, <1>2
<1>3. CASE Stop \/ (\E a \in Adders : ArriveAdder(a)) \/ \E a \in Actors : ControllersStarted(a)
  <2>1. KeptApart
    BY <1>3 DEF Stop, ArriveAdder, ControllersStarted
  <2> QED BY <2>1, KeptApartIs
<1>4. CASE Start
  <2>1. step' = [step EXCEPT !["main"] = "Starting"]
    BY <1>4 DEF Start, StartControllers
  <2> QED BY <1>1, <2>1
<1>5. ASSUME NEW a \in Adders, AddControllers(a) PROVE OneAtATime'
  <2>1. \E s \in Steps : step' = [step EXCEPT ![a] = s]
    BY <1>5 DEF AddControllers, StartControllers, Steps
  <2>2. step[a] # "Idle"
    BY <1>5 DEF AddControllers
  <2> QED BY <1>1, <2>1, <2>2
<1>6. ASSUME NEW a \in Actors, ControllersPublished(a) PROVE OneAtATime'
  <2>1. step' = [step EXCEPT ![a] = "Idle"]
    BY <1>6 DEF ControllersPublished
  <2> QED BY <1>1, <2>1
<1>7. ASSUME NEW unready, WalkOn(unready), step["main"] \in {"Stopping", "Waiting"} PROVE OneAtATime'
  <2>1. \E s \in Steps : step' = [step EXCEPT !["main"] = s]
    BY <1>7 DEF WalkOn, Steps
  <2> QED BY <1>1, <1>7, <2>1
<1>8. CASE ControllersStopped \/ TaskEnded
  BY <1>7, <1>8 DEF ControllersStopped, TaskEnded
<1>9. CASE WaitTimesOut
  <2>1. step' = [step EXCEPT !["main"] = "Failed"]
    BY <1>9 DEF WaitTimesOut
  <2> QED BY <1>1, <2>1
<1>10. CASE \/ ArriveConfigure \/ \E c \in Controllers : Started(c) \/ Halted(c)
            \/ RunHooks \/ RequestEnds \/ Publish \/ HookStep \/ UNCHANGED vars
  <2>1. step' = step
    BY <1>10 DEF ArriveConfigure, Started, Halted, RunHooks, RequestEnds, Publish, HookStep,
                 processVars, vars
  <2> QED BY <1>2, <2>1
<1> QED BY <1>3, <1>4, <1>5, <1>6, <1>8, <1>9, <1>10, StepIsOneOf

LEMMA StateOfMainKept ==
  ASSUME ProcessTypeOK, RecordsAreTyped, StateOfMain, [ProcessNext]_vars
  PROVE  StateOfMain'
<1> USE MainIsAnActor DEF ProcessTypeOK
<1>1. ASSUME state' = state, step'["main"] = step["main"] PROVE StateOfMain'
  BY <1>1 DEF StateOfMain
<1>2. CASE Start
  <2>1. state' = "Starting" /\ step' = [step EXCEPT !["main"] = "Starting"]
    BY <1>2 DEF Start, StartControllers
  <2> QED BY <2>1 DEF StateOfMain
<1>3. CASE Stop
  <2>1. state' = "Stopping" /\ step' = [step EXCEPT !["main"] = "Stopping"]
    BY <1>3 DEF Stop
  <2> QED BY <2>1 DEF StateOfMain
<1>4. ASSUME NEW a \in Adders, ArriveAdder(a) \/ AddControllers(a) PROVE StateOfMain'
  <2>1. state' = state /\ \E s \in Steps : step' = [step EXCEPT ![a] = s]
    BY <1>4 DEF ArriveAdder, AddControllers, StartControllers, Steps
  <2> QED BY <1>1, <2>1
<1>5. ASSUME NEW a \in Actors, ControllersStarted(a) PROVE StateOfMain'
  <2>1. /\ step[a] = "Starting"
        /\ \/ step' = [step EXCEPT ![a] = "Publishing"] /\ state' = state
           \/ /\ step' = [step EXCEPT ![a] = "Idle"]
              /\ state' = IF a = "main" THEN "Started" ELSE state
    BY <1>5 DEF ControllersStarted, PublishControllers
  <2>2. CASE a = "main"
    BY <2>1, <2>2 DEF StateOfMain
  <2>3. CASE a # "main"
    BY <1>1, <2>1, <2>3
  <2> QED BY <2>2, <2>3
<1>6. ASSUME NEW a \in Actors, ControllersPublished(a) PROVE StateOfMain'
  <2>1. /\ step[a] = "Publishing" /\ step' = [step EXCEPT ![a] = "Idle"]
        /\ state' = IF a = "main" THEN "Started" ELSE state
    BY <1>6 DEF ControllersPublished
  <2>2. CASE a = "main"
    BY <2>1, <2>2 DEF StateOfMain
  <2>3. CASE a # "main"
    BY <1>1, <2>1, <2>3
  <2> QED BY <2>2, <2>3
<1>7. ASSUME NEW unready, WalkOn(unready), step["main"] \in {"Stopping", "Waiting"} PROVE StateOfMain'
  <2>1. state = "Stopping"
    BY <1>7 DEF StateOfMain
  <2> QED BY <1>7, <2>1 DEF WalkOn, StateOfMain
<1>8. CASE ControllersStopped \/ TaskEnded
  BY <1>7, <1>8 DEF ControllersStopped, TaskEnded
<1>9. CASE WaitTimesOut
  <2>1. /\ step["main"] = "Waiting" /\ step' = [step EXCEPT !["main"] = "Failed"]
        /\ state' = state
    BY <1>9 DEF WaitTimesOut
  <2> QED BY <2>1 DEF StateOfMain
<1>10. CASE \/ ArriveConfigure \/ \E c \in Controllers : Started(c) \/ Halted(c)
            \/ RunHooks \/ RequestEnds \/ Publish \/ HookStep \/ UNCHANGED vars
  <2>1. step' = step /\ state' = state
    BY <1>10 DEF ArriveConfigure, Started, Halted, RunHooks, RequestEnds, Publish, HookStep,
                 processVars, vars
  <2> QED BY <1>1, <2>1
<1> QED BY <1>2, <1>3, <1>4, <1>5, <1>6, <1>8, <1>9, <1>10, StepIsOneOf
LEMMA OthersDoNotStart ==
  ASSUME RecordsAreTyped, [ProcessNext]_vars, ~Start
  PROVE  used'.started = used.started
<1> USE DEF RecordsAreTyped
<1>1. CASE ArriveConfigure \/ \E a \in Adders : ArriveAdder(a)
  BY <1>1 DEF ArriveConfigure, ArriveAdder, Request
<1>2. CASE WaitTimesOut
  BY <1>2 DEF WaitTimesOut
<1>3. CASE \E c \in Controllers : Started(c)
  BY <1>3 DEF Started
<1>4. CASE \/ \E c \in Controllers : Halted(c)
           \/ \E a \in Actors : ControllersStarted(a) \/ ControllersPublished(a)
           \/ \E a \in Adders : AddControllers(a)
           \/ Stop \/ RunHooks \/ RequestEnds \/ Publish \/ ControllersStopped \/ TaskEnded
           \/ HookStep \/ UNCHANGED vars
  <2>1. used' = used
    BY <1>4 DEF Halted, ControllersStarted, ControllersPublished, AddControllers, Stop, RunHooks,
                RequestEnds, Publish, ControllersStopped, TaskEnded, HookStep, processVars, vars
  <2> QED BY <2>1
<1> QED BY <1>1, <1>2, <1>3, <1>4, StepIsOneOf

LEMMA OwnControllersKept ==
  ASSUME ProcessTypeOK, RecordsAreTyped, StateOfMain, OwnControllers, [ProcessNext]_vars
  PROVE  OwnControllers'
<1> USE MainIsAnActor DEF ProcessTypeOK
<1>1. CASE Start
  <2>1. /\ state' = "Starting" /\ controllers' = controllers /\ ~used.started
        /\ mine' = [mine EXCEPT !["main"] = controllers]
        /\ used' = [used EXCEPT !.started = TRUE]
    BY <1>1 DEF Start, StartControllers
  <2>2. used'.started
    BY <2>1 DEF RecordsAreTyped
  <2>3. \A a \in Actors : mine[a] = {}
    BY <2>1 DEF OwnControllers
  <2> QED BY <2>1, <2>2, <2>3 DEF OwnControllers
<1>2. ASSUME ~Start, mine' = mine, controllers \subseteq controllers' \/ state' = "Stopped",
             state = "Stopped" => state' = "Stopped"
      PROVE  OwnControllers'
  <2>1. used'.started = used.started
    BY <1>2, OthersDoNotStart
  <2> QED BY <1>2, <2>1 DEF OwnControllers
<1>3. ASSUME NEW a \in Adders, AddControllers(a), ~Start PROVE OwnControllers'
  <2>1. state' = state /\ controllers' = controllers \cup Adds[a]
    BY <1>3 DEF AddControllers
  <2>2. CASE state = "Stopped"
    BY <1>2, <1>3, <2>1, <2>2 DEF AddControllers
  <2>3. CASE state # "Stopped"
    <3>1. mine' = [mine EXCEPT ![a] = Adds[a]]
      BY <1>3, <2>3 DEF AddControllers, StartControllers
    <3>2. used'.started = used.started
      BY <1>3, OthersDoNotStart
    <3> QED BY <2>1, <2>3, <3>1, <3>2 DEF OwnControllers
  <2> QED BY <2>2, <2>3
<1>4. ASSUME NEW a \in Actors, ControllersStarted(a) \/ ControllersPublished(a), ~Start
      PROVE  OwnControllers'
  <2>1. /\ step[a] \in {"Starting", "Publishing"} /\ mine' = mine /\ controllers' = controllers
        /\ state' \in {state, IF a = "main" THEN "Started" ELSE state}
    BY <1>4 DEF ControllersStarted, ControllersPublished
  <2> QED BY <1>2, <1>4, <2>1 DEF StateOfMain
<1>5. CASE ControllersStopped \/ TaskEnded
  <2>1. /\ step["main"] \in {"Stopping", "Waiting"} /\ mine' = mine
        /\ state' = "Stopped" \/ (state' = state /\ controllers' = controllers)
    BY <1>5 DEF ControllersStopped, TaskEnded, WalkOn
  <2>2. CASE Start
    BY <1>1, <2>2
  <2> QED BY <1>2, <2>1, <2>2
<1>6. CASE Stop
  <2>1. mine' = mine /\ controllers' = controllers /\ state = "Started"
    BY <1>6 DEF Stop
  <2>2. ~Start
    BY <2>1 DEF Start
  <2> QED BY <1>2, <2>1, <2>2
<1>7. CASE \/ ArriveConfigure \/ \E a \in Adders : ArriveAdder(a)
           \/ \E c \in Controllers : Started(c) \/ Halted(c)
           \/ RunHooks \/ RequestEnds \/ Publish \/ WaitTimesOut \/ HookStep \/ UNCHANGED vars
  <2>1. mine' = mine /\ controllers' = controllers /\ state' = state
    BY <1>7 DEF ArriveConfigure, ArriveAdder, Started, Halted, RunHooks, RequestEnds, Publish,
                WaitTimesOut, HookStep, processVars, vars
  <2>2. CASE Start
    BY <1>1, <2>2
  <2> QED BY <1>2, <2>1, <2>2
<1> QED BY <1>1, <1>3, <1>4, <1>5, <1>6, <1>7, StepIsOneOf

LEMMA RequestIs ==
  ASSUME NEW r, Request(r)
  PROVE  alive' = alive \cup {<<"request", r>>}
BY DEF Request, SpawnTasks

LEMMA AddersAreRequestsKept ==
  ASSUME ProcessTypeOK, RecordsAreTyped, AddersAreRequests, [ProcessNext]_vars
  PROVE  AddersAreRequests'
<1> USE MainIsAnActor DEF ProcessTypeOK
<1>1. ASSUME alive \subseteq alive',
             \A a \in Adders : step'[a] # "Idle" => step[a] # "Idle" \/ <<"request", a>> \in alive'
      PROVE  AddersAreRequests'
  BY <1>1 DEF AddersAreRequests
<1>2. CASE Start \/ Stop
  <2>1. alive \subseteq alive' /\ \E s \in Steps : step' = [step EXCEPT !["main"] = s]
    BY <1>2 DEF Start, Stop, StartControllers, SpawnTasks, Steps
  <2> QED BY <1>1, <2>1
<1>3. CASE ArriveConfigure
  BY <1>1, <1>3, RequestIs DEF ArriveConfigure
<1>4. ASSUME NEW a \in Adders, ArriveAdder(a) PROVE AddersAreRequests'
  <2>1. alive' = alive \cup {<<"request", a>>} /\ step' = [step EXCEPT ![a] = "Asked"]
    BY <1>4, RequestIs DEF ArriveAdder
  <2> QED BY <1>1, <2>1
<1>5. ASSUME NEW a \in Adders, AddControllers(a) PROVE AddersAreRequests'
  <2>1. /\ step[a] # "Idle" /\ alive \subseteq alive'
        /\ \E s \in Steps : step' = [step EXCEPT ![a] = s]
    BY <1>5 DEF AddControllers, StartControllers, SpawnTasks, Steps
  <2> QED BY <1>1, <2>1
<1>6. ASSUME NEW a \in Actors, ControllersStarted(a) PROVE AddersAreRequests'
  <2>1. /\ step[a] # "Idle" /\ alive \subseteq alive'
        /\ \E s \in Steps : step' = [step EXCEPT ![a] = s]
    BY <1>6 DEF ControllersStarted, PublishControllers, SpawnTasks, Steps
  <2> QED BY <1>1, <2>1
<1>7. ASSUME NEW a \in Actors, ControllersPublished(a) PROVE AddersAreRequests'
  <2>1. alive' = alive /\ step' = [step EXCEPT ![a] = "Idle"]
    BY <1>7 DEF ControllersPublished
  <2> QED BY <1>1, <2>1
<1>8. CASE ControllersStopped \/ TaskEnded \/ WaitTimesOut
  <2>1. alive' = alive /\ \E s \in Steps : step' = [step EXCEPT !["main"] = s]
    BY <1>8 DEF ControllersStopped, TaskEnded, WaitTimesOut, WalkOn, Steps
  <2> QED BY <1>1, <2>1
<1>9. CASE \/ \E c \in Controllers : Started(c) \/ Halted(c)
           \/ RunHooks \/ Publish \/ HookStep \/ UNCHANGED vars
  <2>1. step' = step /\ \A a \in Adders : <<"request", a>> \in alive => <<"request", a>> \in alive'
    BY <1>9 DEF Started, Halted, RunHooks, Publish, HookStep, processVars, vars
  <2> QED BY <2>1 DEF AddersAreRequests
<1>10. CASE RequestEnds
  <2>1. step' = step
    BY <1>10 DEF RequestEnds
  <2>2. \A a \in Adders : step[a] # "Idle" /\ <<"request", a>> \in alive => <<"request", a>> \in alive'
    BY <1>10, ProcessAssumption DEF RequestEnds, Configure
  <2> QED BY <2>1, <2>2 DEF AddersAreRequests
<1> QED BY <1>2, <1>3, <1>4, <1>5, <1>6, <1>7, <1>8, <1>9, <1>10, StepIsOneOf
--------------------------------------------------------------------------------
(***************************************************************************)
(* What is listed                                                          *)
(***************************************************************************)
LEMMA ListedIf ==
  ASSUME Listed,
         \A t \in Tasks : Live(t)' => Live(t) \/ t \in spawned',
         \A t \in spawned : Live(t) => t \in spawned'
  PROVE  Listed'
BY DEF Listed

LEMMA SpawnTasksLists ==
  ASSUME ProcessTypeOK, OneList, Listed, ~LateClears,
         NEW ts \in SUBSET OtherTasks, IsFiniteSet(ts), SpawnTasks(ts), hook' = hook
  PROVE  OneList' /\ Listed'
<1>1. /\ alive' = alive \cup ts /\ ts \subseteq spawned'
      /\ \A t \in spawned : Live(t) => t \in spawned'
      /\ OneList'
  BY SpawnIs, OtherThanParts DEF SpawnTasks
<1>2. \A t \in Tasks : Live(t)' => Live(t) \/ t \in spawned'
  BY <1>1 DEF Live, Running
<1> QED BY <1>1, <1>2, ListedIf

LEMMA WalkOnLists ==
  ASSUME OneList, Listed, hook' = hook, alive' = alive,
         NEW unready, unready = {t \in spawned : Live(t)}, WalkOn(unready)
  PROVE  /\ OneList' /\ Listed'
         /\ state' = "Stopped" => state = "Stopped" \/ \A t \in Tasks : ~Live(t)'
<1>1. \A t \in Tasks : Live(t)' => Live(t)
  BY DEF Live, Running
<1>2. CASE unready # {}
  <2>1. UNCHANGED <<state, spawned, same, missed>>
    BY <1>2 DEF WalkOn
  <2> QED BY <1>1, <2>1, ListedIf DEF OneList
<1>3. CASE unready = {}
  <2>1. same' = TRUE /\ missed' = {}
    BY <1>3 DEF WalkOn
  <2>2. \A t \in Tasks : ~Live(t)
    BY <1>3 DEF Listed
  <2> QED BY <1>1, <2>1, <2>2 DEF OneList, Listed
<1> QED BY <1>2, <1>3

LEMMA ListsKept ==
  ASSUME ProcessTypeOK, RecordsAreTyped, StateOfMain, OneList, Listed, NothingRuns,
         AddersAreRequests, ~LateClears, [ProcessNext]_vars
  PROVE  OneList' /\ Listed' /\ NothingRuns'
<1> USE MainIsAnActor
<1> DEFINE Goal == OneList' /\ Listed' /\ NothingRuns'
<1>1. \A t \in OtherTasks : (Live(t) <=> t \in alive) /\ t \in Tasks
  BY OtherThanParts DEF Live
<1>2. ASSUME NEW ts \in SUBSET OtherTasks, IsFiniteSet(ts), SpawnTasks(ts), hook' = hook,
             state' # "Stopped"
      PROVE  Goal
  BY <1>2, SpawnTasksLists DEF NothingRuns
<1>3. ASSUME UNCHANGED <<spawned, same, missed>>, state' = "Stopped" => state = "Stopped",
             \A t \in Tasks : Live(t)' => Live(t)
      PROVE  Goal
  BY <1>3, ListedIf DEF OneList, NothingRuns
<1>4. CASE Start
  <2>1. SpawnTasks({"start"} \X controllers) /\ hook' = hook /\ state' # "Stopped"
    BY <1>4 DEF Start, StartControllers, hookVars
  <2> QED BY <1>2, <2>1, HookTasks, BatchesAreFinite DEF ProcessTypeOK
<1>5. CASE Stop
  <2>1. SpawnTasks({"stop"} \X controllers) /\ hook' = hook /\ state' # "Stopped"
    BY <1>5 DEF Stop, ToHalt, hookVars
  <2> QED BY <1>2, <2>1, HookTasks, BatchesAreFinite DEF ProcessTypeOK
<1>6. ASSUME NEW r \in {"configure"} \cup Adders, Request(r), UNCHANGED <<hookVars, state>> PROVE Goal
  <2>1. SpawnTasks({<<"request", r>>}) /\ hook' = hook /\ state' # "Stopped"
    BY <1>6 DEF Request, hookVars
  <2>2. {<<"request", r>>} \in SUBSET OtherTasks
    BY TasksOf DEF Configure
  <2> QED BY <1>2, <2>1, <2>2, BatchesAreFinite
<1>7. CASE ArriveConfigure \/ \E a \in Adders : ArriveAdder(a)
  BY <1>6, <1>7 DEF ArriveConfigure, ArriveAdder
<1>8. ASSUME NEW c \in Controllers, Started(c) PROVE Goal
  <2>1. <<"start", c>> \in alive /\ hook' = hook /\ state' = state
    BY <1>8 DEF Started, hookVars
  <2>2. state # "Stopped"
    BY <1>1, <2>1, TasksOf DEF NothingRuns
  <2>3. CASE c = Comms /\ c \notin met
    <3>1. Spawn({<<"loop", c>>}) /\ alive' = (alive \ {<<"start", c>>}) \cup {<<"loop", c>>}
      BY <1>8, <2>3 DEF Started
    <3>2. <<"loop", c>> \in OtherTasks /\ {<<"loop", c>>} \in SUBSET Tasks
      BY <2>3, TasksOf, OtherThanParts
    <3>3. /\ <<"loop", c>> \in spawned' /\ OneList'
          /\ \A t \in spawned : Live(t) => t \in spawned'
      BY <3>1, <3>2, SpawnIs, BatchesAreFinite
    <3>4. \A t \in Tasks : Live(t)' => Live(t) \/ t \in spawned'
      BY <2>1, <3>1, <3>3 DEF Live, Running
    <3> QED BY <2>1, <2>2, <3>3, <3>4, ListedIf DEF NothingRuns
  <2>4. CASE ~(c = Comms /\ c \notin met)
    <3>1. alive' \subseteq alive /\ UNCHANGED <<spawned, count, same, missed>>
      BY <1>8, <2>4 DEF Started
    <3>2. \A t \in Tasks : Live(t)' => Live(t)
      BY <2>1, <3>1 DEF Live, Running
    <3> QED BY <1>3, <2>1, <3>1, <3>2
  <2> QED BY <2>3, <2>4
<1>9. ASSUME NEW a \in Actors, ControllersStarted(a) PROVE Goal
  <2>1. hook' = hook /\ step[a] = "Starting" /\ state' \in {state, "Started"}
    BY <1>9 DEF ControllersStarted, hookVars
  <2>2. state # "Stopped"
    <3>1. CASE a = "main"
      BY <2>1, <3>1 DEF StateOfMain
    <3>2. CASE a \in Adders
      BY <1>1, <2>1, <3>2, TasksOf DEF AddersAreRequests, NothingRuns
    <3> QED BY <3>1, <3>2 DEF Actors
  <2>3. CASE SpawnTasks({<<"publish", a>>})
    <3>1. {<<"publish", a>>} \in SUBSET OtherTasks
      BY TasksOf
    <3> QED BY <1>2, <2>1, <2>2, <2>3, <3>1, BatchesAreFinite
  <2>4. CASE UNCHANGED <<alive, spawned, same, missed>>
    <3>1. \A t \in Tasks : Live(t)' => Live(t)
      BY <2>1, <2>4 DEF Live, Running
    <3> QED BY <1>3, <2>1, <2>2, <2>4, <3>1
  <2> QED BY <1>9, <2>3, <2>4 DEF ControllersStarted, PublishControllers
<1>10. ASSUME NEW a \in Adders, AddControllers(a) PROVE Goal
  <2>1. hook' = hook /\ state' = state
    BY <1>10 DEF AddControllers, hookVars
  <2>2. CASE state = "Stopped"
    <3>1. UNCHANGED <<alive, spawned, same, missed>>
      BY <1>10, <2>2 DEF AddControllers
    <3>2. \A t \in Tasks : Live(t)' => Live(t)
      BY <2>1, <3>1 DEF Live, Running
    <3> QED BY <1>3, <2>1, <3>1, <3>2
  <2>3. CASE state # "Stopped"
    <3>1. SpawnTasks({"start"} \X Adds[a])
      BY <1>10, <2>3 DEF AddControllers, StartControllers
    <3> QED BY <1>2, <2>1, <2>3, <3>1, HookTasks, BatchesAreFinite, ProcessAssumption
  <2> QED BY <2>2, <2>3
<1>11. CASE RunHooks
  <2> PICK ts \in SUBSET Parts :
        /\ ts # {} /\ Spawn(ts) /\ IsFiniteSet(ts) /\ ts \subseteq Tasks
        /\ hook' = [p \in Parts |-> IF p \in ts THEN "running" ELSE "none"]
    BY <1>11, RunHooksIs
  <2>1. /\ ts \subseteq spawned' /\ OneList'
        /\ \A t \in spawned : Live(t) => t \in spawned'
    BY SpawnIs
  <2>2. Configure \in alive /\ state' = state /\ alive' = alive
    BY <1>11 DEF RunHooks
  <2>3. state # "Stopped"
    BY <1>1, <2>2, TasksOf DEF NothingRuns
  <2>4. \A t \in Tasks : Live(t)' => Live(t) \/ t \in spawned'
    BY <2>1, <2>2 DEF Live, Running
  <2> QED BY <2>1, <2>2, <2>3, <2>4, ListedIf DEF NothingRuns
<1>12. CASE HookStep
  <2>1. UNCHANGED processVars /\ \A t \in Tasks : Live(t)' => Live(t)
    BY <1>12, HookStepEnds
  <2> QED BY <1>3, <2>1 DEF processVars
<1>13. CASE ControllersStopped \/ TaskEnded
  <2>1. hook' = hook /\ alive' = alive /\ step["main"] \in {"Stopping", "Waiting"}
    BY <1>13 DEF ControllersStopped, TaskEnded, hookVars
  <2>2. spawned \ missed = spawned
    BY DEF OneList
  <2>3. WalkOn({t \in spawned : Live(t)})
    BY <1>13, <2>2 DEF ControllersStopped, TaskEnded
  <2>4. state # "Stopped"
    BY <2>1 DEF StateOfMain
  <2>5. OneList' /\ Listed' /\ (state' = "Stopped" => \A t \in Tasks : ~Live(t)')
    BY <2>1, <2>3, <2>4, WalkOnLists
  <2> QED BY <2>5 DEF NothingRuns
<1>14. CASE \/ \E c \in Controllers : Halted(c)
            \/ \E a \in Actors : ControllersPublished(a)
            \/ RequestEnds \/ Publish \/ WaitTimesOut \/ UNCHANGED vars
  <2>1. /\ UNCHANGED <<spawned, same, missed, hook>> /\ alive' \subseteq alive
        /\ state' = "Stopped" => state = "Stopped"
    BY <1>14 DEF Halted, Interrupted, ControllersPublished, RequestEnds, Publish, WaitTimesOut,
                 vars, processVars, hookVars
  <2>2. \A t \in Tasks : Live(t)' => Live(t)
    BY <2>1 DEF Live, Running
  <2> QED BY <1>3, <2>1, <2>2
<1> QED
  BY <1>4, <1>5, <1>7, <1>8, <1>9, <1>10, <1>11, <1>12, <1>13, <1>14, StepIsOneOf
--------------------------------------------------------------------------------
(***************************************************************************)
(* Who is halted                                                           *)
(***************************************************************************)
\* Nobody adds a controller while stop() halts them and waits.
LEMMA NobodyAddsInStop ==
  ASSUME OneAtATime, step["main"] \in {"Stopping", "Waiting"}, NEW a \in Adders
  PROVE  step[a] = "Idle"
<1> SUFFICES ASSUME step[a] # "Idle" PROVE FALSE
  OBVIOUS
<1>1. "main" \in Busy /\ a \in Busy
  BY DEF Busy
<1> QED BY <1>1, MainIsAnActor DEF OneAtATime

LEMMA HaltingKept ==
  ASSUME ProcessTypeOK, RecordsAreTyped, StateOfMain, OneAtATime, Halting, [ProcessNext]_vars
  PROVE  Halting'
<1> USE MainIsAnActor DEF ProcessTypeOK
<1>1. ASSUME step'["main"] = step["main"], controllers' = controllers, met' = met,
             \A c \in Controllers : <<"stop", c>> \in alive => <<"stop", c>> \in alive'
      PROVE  Halting'
  BY <1>1 DEF Halting
<1>2. ASSUME step'["main"] \notin {"Stopping", "Waiting"} PROVE Halting'
  BY <1>2 DEF Halting
<1>3. CASE Start
  <2>1. step' = [step EXCEPT !["main"] = "Starting"]
    BY <1>3 DEF Start, StartControllers
  <2> QED BY <1>2, <2>1
<1>4. CASE Stop
  <2>1. /\ step' = [step EXCEPT !["main"] = "Stopping"]
        /\ alive' = alive \cup {"stop"} \X controllers
        /\ controllers' = controllers
    BY <1>4 DEF Stop, SpawnTasks, ToHalt
  <2>2. \A c \in controllers : <<"stop", c>> \in alive'
    BY <2>1
  <2> QED BY <2>1, <2>2 DEF Halting
<1>5. ASSUME NEW a \in Adders, ArriveAdder(a) PROVE Halting'
  <2>1. /\ step' = [step EXCEPT ![a] = "Asked"] /\ alive' = alive \cup {<<"request", a>>}
        /\ controllers' = controllers /\ met' = met
    BY <1>5, RequestIs DEF ArriveAdder
  <2> QED BY <1>1, <2>1
<1>6. ASSUME NEW c \in Controllers, Halted(c) PROVE Halting'
  <2>1. /\ met' = met \cup {c} /\ alive' = alive \ {<<"stop", c>>, <<"loop", c>>}
        /\ step' = step /\ controllers' = controllers
    BY <1>6 DEF Halted
  <2>2. \A d \in Controllers : <<"stop", d>> \in alive => d = c \/ <<"stop", d>> \in alive'
    BY <2>1
  <2> QED BY <2>1, <2>2 DEF Halting
<1>7. ASSUME NEW a \in Actors, ControllersStarted(a) PROVE Halting'
  <2>1. /\ step[a] = "Starting" /\ alive \subseteq alive'
        /\ \E s \in {"Idle", "Publishing"} : step' = [step EXCEPT ![a] = s]
        /\ controllers' = controllers /\ met' = met
    BY <1>7 DEF ControllersStarted, PublishControllers, SpawnTasks
  <2>2. CASE a = "main"
    BY <1>2, <2>1, <2>2
  <2>3. CASE a # "main"
    BY <1>1, <2>1, <2>3
  <2> QED BY <2>2, <2>3
<1>8. ASSUME NEW a \in Actors, ControllersPublished(a) PROVE Halting'
  <2>1. /\ step[a] = "Publishing" /\ alive' = alive
        /\ step' = [step EXCEPT ![a] = "Idle"]
        /\ controllers' = controllers /\ met' = met
    BY <1>8 DEF ControllersPublished
  <2>2. CASE a = "main"
    BY <1>2, <2>1, <2>2
  <2>3. CASE a # "main"
    BY <1>1, <2>1, <2>3
  <2> QED BY <2>2, <2>3
<1>9. ASSUME NEW a \in Adders, AddControllers(a) PROVE Halting'
  <2>1. /\ step[a] = "Asked"
        /\ \E s \in {"Idle", "Starting"} : step' = [step EXCEPT ![a] = s]
    BY <1>9 DEF AddControllers, StartControllers
  <2>2. step["main"] \notin {"Stopping", "Waiting"}
    BY <2>1, NobodyAddsInStop
  <2> QED BY <1>2, <2>1, <2>2
<1>10. CASE ControllersStopped
  <2>1. step["main"] = "Stopping" /\ WalkOn({t \in spawned : Live(t)}) /\ met' = met
    BY <1>10 DEF ControllersStopped
  <2>2. \A c \in Controllers : <<"stop", c>> \notin alive
    BY <1>10 DEF ControllersStopped
  <2>3. controllers \subseteq met
    BY <2>1, <2>2 DEF Halting
  <2>4. \/ step'["main"] = "Idle"
        \/ step'["main"] = "Waiting" /\ controllers' = controllers
    BY <2>1 DEF WalkOn
  <2> QED BY <2>1, <2>3, <2>4 DEF Halting
<1>11. CASE TaskEnded
  <2>1. step["main"] = "Waiting" /\ WalkOn({t \in spawned \ missed : Live(t)}) /\ met' = met
    BY <1>11 DEF TaskEnded
  <2>2. \/ step'["main"] = "Idle"
        \/ step'["main"] = "Waiting" /\ controllers' = controllers
    BY <2>1 DEF WalkOn
  <2> QED BY <2>1, <2>2 DEF Halting
<1>12. CASE WaitTimesOut
  <2>1. step' = [step EXCEPT !["main"] = "Failed"]
    BY <1>12 DEF WaitTimesOut
  <2> QED BY <1>2, <2>1
<1>13. CASE ArriveConfigure \/ RunHooks \/ HookStep \/ UNCHANGED vars
  <2>1. step' = step /\ controllers' = controllers /\ met' = met /\ alive \subseteq alive'
    BY <1>13, RequestIs DEF ArriveConfigure, RunHooks, HookStep, vars, processVars
  <2> QED BY <1>1, <2>1
<1>14. ASSUME NEW c \in Controllers, Started(c) PROVE Halting'
  <2>1. step' = step /\ controllers' = controllers /\ met' = met /\ alive \ {<<"start", c>>} \subseteq alive'
    BY <1>14 DEF Started
  <2> QED BY <1>1, <2>1
<1>15. CASE RequestEnds \/ Publish
  <2>1. step' = step /\ controllers' = controllers /\ met' = met
    BY <1>15 DEF RequestEnds, Publish
  <2>2. \A c \in Controllers : <<"stop", c>> \in alive => <<"stop", c>> \in alive'
    BY <1>15 DEF RequestEnds, Publish, Configure
  <2> QED BY <1>1, <2>1, <2>2
<1> QED
  BY <1>3, <1>4, <1>5, <1>6, <1>7, <1>8, <1>9, <1>10, <1>11, <1>12, <1>13, <1>14, <1>15, StepIsOneOf

\* Only the end of stop() stops the process.
LEMMA OnlyStopStops ==
  ASSUME ProcessTypeOK, RecordsAreTyped, [ProcessNext]_vars, state' = "Stopped", state # "Stopped"
  PROVE  ControllersStopped \/ TaskEnded
<1>1. ~(Start \/ Stop \/ ArriveConfigure \/ (\E a \in Adders : ArriveAdder(a) \/ AddControllers(a)))
  BY DEF Start, Stop, ArriveConfigure, ArriveAdder, AddControllers
<1>2. ~\E a \in Actors : ControllersStarted(a) \/ ControllersPublished(a)
  BY DEF ControllersStarted, ControllersPublished
<1>3. ~\/ \E c \in Controllers : Started(c) \/ Halted(c)
       \/ RunHooks \/ RequestEnds \/ Publish \/ WaitTimesOut \/ HookStep \/ UNCHANGED vars
  BY DEF Started, Halted, RunHooks, RequestEnds, Publish, WaitTimesOut, HookStep, vars, processVars
<1> QED BY <1>1, <1>2, <1>3, StepIsOneOf

LEMMA AllAreHaltedKept ==
  ASSUME ProcessTypeOK, RecordsAreTyped, StateOfMain, OwnControllers, Halting, AllAreHalted,
         NothingRuns, AddersAreRequests, [ProcessNext]_vars
  PROVE  AllAreHalted'
<1> USE DEF ProcessTypeOK
<1> SUFFICES ASSUME state' = "Stopped", used'.started PROVE UNION {mine'[a] : a \in Actors} \subseteq met'
  BY DEF AllAreHalted, AllStopped
<1>1. met \subseteq met'
  <2>1. CASE \E c \in Controllers : Halted(c)
    BY <2>1 DEF Halted
  <2>2. CASE ~\E c \in Controllers : Halted(c)
    <3>1. met' = met
      BY <2>2, StepIsOneOf DEF Start, Stop, ArriveConfigure, ArriveAdder, Started, ControllersStarted,
           ControllersPublished, AddControllers, RunHooks, RequestEnds, Publish, ControllersStopped,
           TaskEnded, WaitTimesOut, HookStep, vars, processVars
    <3> QED BY <3>1
  <2> QED BY <2>1, <2>2
<1>2. CASE state = "Stopped"
  <2>1. ~Start
    BY DEF Start
  <2>2. used.started
    BY <2>1, OthersDoNotStart
  <2>3. UNION {mine[a] : a \in Actors} \subseteq met
    BY <1>2, <2>2 DEF AllAreHalted, AllStopped
  <2>4. mine' = mine
    BY <1>2, <2>1, StepIsOneOf DEF Stop, ArriveConfigure, ArriveAdder, Started, Halted,
         ControllersStarted, ControllersPublished, AddControllers, RunHooks, RequestEnds, Publish,
         ControllersStopped, TaskEnded, WaitTimesOut, HookStep, vars, processVars
  <2> QED BY <1>1, <2>3, <2>4
<1>3. CASE state # "Stopped"
  <2>1. ControllersStopped \/ TaskEnded
    BY <1>3, OnlyStopStops
  <2>2. controllers \subseteq met
    <3>1. CASE ControllersStopped
      <4>1. step["main"] = "Stopping" /\ \A c \in Controllers : <<"stop", c>> \notin alive
        BY <3>1 DEF ControllersStopped
      <4> QED BY <4>1 DEF Halting
    <3>2. CASE TaskEnded
      BY <3>2 DEF TaskEnded, Halting
    <3> QED BY <2>1, <3>1, <3>2
  <2>3. mine' = mine
    BY <2>1 DEF ControllersStopped, TaskEnded
  <2>4. \A a \in Actors : mine[a] \subseteq controllers
    BY <1>3 DEF OwnControllers
  <2> QED BY <1>1, <2>2, <2>3, <2>4
<1> QED BY <1>2, <1>3
LEMMA StopKept ==
  ASSUME ProcessTypeOK, RecordsAreTyped, StopInv, ~LateClears, ~OverlapAdds, [ProcessNext]_vars
  PROVE  StopInv'
BY ListsKept, StateOfMainKept, AddersAreRequestsKept, OneAtATimeKept, OwnControllersKept,
   HaltingKept, AllAreHaltedKept DEF StopInv

--------------------------------------------------------------------------------
(***************************************************************************)
(* What stop() gets                                                        *)
(***************************************************************************)
LEMMA HostIsThereKept ==
  ASSUME ProcessTypeOK, RecordsAreTyped, StateOfMain, OwnControllers, HostIsThere, [ProcessNext]_vars
  PROVE  HostIsThere'
<1>1. CASE Start
  BY <1>1 DEF Start, HostIsThere
<1>2. CASE ~Start /\ controllers \subseteq controllers' /\ (state = "Stopped" => state' = "Stopped")
  <2>1. used'.started = used.started
    BY <1>2, OthersDoNotStart
  <2> QED BY <1>2, <2>1 DEF HostIsThere
<1>3. CASE ~Start /\ state' = "Stopped" /\ state # "Stopped"
  <2>1. used'.started = used.started /\ used.started
    BY <1>3, OthersDoNotStart DEF OwnControllers
  <2> QED BY <1>3, <2>1 DEF HostIsThere
<1>4. ASSUME ~Start PROVE controllers \subseteq controllers' \/ (state' = "Stopped" /\ state # "Stopped")
  <2>1. CASE ControllersStopped \/ TaskEnded
    BY <2>1 DEF ControllersStopped, TaskEnded, WalkOn, StateOfMain
  <2>2. CASE ~(ControllersStopped \/ TaskEnded)
    BY <1>4, <2>2, StepIsOneOf DEF Stop, ArriveConfigure, ArriveAdder, Started, Halted,
       ControllersStarted, ControllersPublished, AddControllers, RunHooks, RequestEnds, Publish,
       WaitTimesOut, HookStep, vars, processVars
  <2> QED BY <2>1, <2>2
<1>5. ASSUME ~Start PROVE state = "Stopped" => state' = "Stopped"
  <2> SUFFICES ASSUME state = "Stopped" PROVE state' = "Stopped"
    OBVIOUS
  <2>1. step["main"] = "Idle"
    BY DEF StateOfMain
  <2> QED BY <1>5, <2>1, StepIsOneOf DEF Stop, ArriveConfigure, ArriveAdder, Started, Halted,
       ControllersStarted, ControllersPublished, AddControllers, RunHooks, RequestEnds, Publish,
       ControllersStopped, TaskEnded, WalkOn, WaitTimesOut, HookStep, vars, processVars
<1> QED BY <1>1, <1>2, <1>3, <1>4, <1>5

\* Only one part is hooked.
OnlyOnePart == \A p, q \in Parts : p = q

LEMMA NothingToCollect ==
  ASSUME \A p \in Parts : ~Running(p)
  PROVE  NextRunning(0) = 0
<1>1. \A j \in 1 .. Len(Order) : ~Running(Order[j])
  BY OrderAssumption
<1>2. {j \in 0 + 1 .. Len(Order) : Running(Order[j])} = {}
  BY <1>1
<1> QED BY <1>2 DEF NextRunning

LEMMA ItemIsLeftKept ==
  ASSUME ProcessTypeOK, RecordsAreTyped, StateOfMain, Halting, HostIsThere, ItemIsLeft, OnlyOnePart,
         [ProcessNext]_vars
  PROVE  ItemIsLeft'
<1> USE MainIsAnActor DEF ProcessTypeOK
<1>1. ASSUME UNCHANGED <<hook, token, queue, phase>>,
             step'["main"] = "Waiting" => step["main"] = "Waiting" /\ at' = at
      PROVE  ItemIsLeft'
  BY <1>1 DEF ItemIsLeft, Running
<1>2. CASE RunHooks
  <2>1. phase' = "Get" /\ queue' = << >> /\ step' = step /\ Host \notin met
    BY <1>2 DEF RunHooks, StartHooks
  <2>2. step["main"] # "Waiting"
    <3> SUFFICES ASSUME step["main"] = "Waiting" PROVE FALSE
      OBVIOUS
    <3>1. state # "Stopped" /\ controllers \subseteq met
      BY DEF StateOfMain, Halting
    <3> QED BY <2>1, <3>1, ProcessAssumption DEF HostIsThere
  <2> QED BY <2>1, <2>2 DEF ItemIsLeft
<1>3. CASE HookStep
  <2>1. step' = step /\ at' = at
    BY <1>3 DEF HookStep, processVars
  <2>2. CASE Interrupt
    BY <1>1, <2>1, <2>2 DEF Interrupt, Interrupted
  <2>3. ASSUME NEW p \in Parts, Function(p) PROVE ItemIsLeft'
    <3> PICK result \in {"ok"} \cup Errors :
          hook' = [hook EXCEPT ![p] = result] /\ token' = token \cup {p} /\ phase' = phase
      BY <2>3, FunctionIs
    <3>1. hook'[p] # "running" /\ \A q \in Parts : q = p
      BY DEF RecordsAreTyped, Errors, OnlyOnePart
    <3>2. \A q \in Parts : hook'[q] # "running"
      BY <3>1
    <3> QED BY <2>1, <3>1, <3>2 DEF ItemIsLeft, Running
  <2>4. CASE GetResult
    BY <2>1, <2>4 DEF GetResult, ReturnHooks, ItemIsLeft, Running
  <2>5. CASE GetError
    <3>1. queue # << >> /\ UNCHANGED <<hook, token>>
      BY <2>5 DEF GetError
    <3>2. NextRunning(0) = 0
      BY <3>1, NothingToCollect DEF ItemIsLeft
    <3>3. phase' = "Idle"
      BY <2>5, <3>2 DEF GetError, CollectFrom, ReturnHooks
    <3> QED BY <2>1, <3>1, <3>3 DEF ItemIsLeft, Running
  <2>6. ~(CollectNext \/ CollectTimesOut)
    BY DEF CollectNext, CollectTimesOut, ItemIsLeft
  <2> QED BY <1>3, <2>2, <2>3, <2>4, <2>5, <2>6 DEF HookStep, WaitHooks
<1>4. ASSUME NEW unready, unready = {t \in spawned : Live(t)} \/ unready = {t \in spawned \ missed : Live(t)},
             WalkOn(unready), UNCHANGED <<hook, queue, phase>>
      PROVE  ItemIsLeft'
  <2>1. CASE unready # {}
    <3>1. at' \in unready
      BY <1>4, <2>1 DEF WalkOn
    <3>2. at' \in Parts => Running(at')
      BY <1>4, <3>1 DEF Live
    <3> QED BY <1>4, <3>2 DEF ItemIsLeft, Running
  <2>2. CASE unready = {}
    <3>1. step'["main"] = "Idle"
      BY <1>4, <2>2 DEF WalkOn
    <3> QED BY <1>4, <3>1 DEF ItemIsLeft, Running
  <2> QED BY <2>1, <2>2
<1>5. CASE ControllersStopped \/ TaskEnded
  BY <1>4, <1>5 DEF ControllersStopped, TaskEnded, hookVars
<1>6. CASE WaitTimesOut
  <2>1. step' = [step EXCEPT !["main"] = "Failed"] /\ UNCHANGED hookVars
    BY <1>6 DEF WaitTimesOut
  <2> QED BY <1>1, <2>1 DEF hookVars
<1>7. ASSUME NEW a \in Actors, NEW s \in {"Idle", "Asked", "Starting", "Publishing", "Stopping"},
             step' = [step EXCEPT ![a] = s], UNCHANGED hookVars, at' = at
      PROVE  ItemIsLeft'
  BY <1>1, <1>7 DEF hookVars
<1>8. CASE Start \/ Stop
  BY <1>7, <1>8 DEF Start, StartControllers, Stop
<1>9. ASSUME NEW a \in Adders, ArriveAdder(a) \/ AddControllers(a) PROVE ItemIsLeft'
  BY <1>7, <1>9 DEF ArriveAdder, AddControllers, StartControllers
<1>10. ASSUME NEW a \in Actors, ControllersStarted(a) \/ ControllersPublished(a) PROVE ItemIsLeft'
  BY <1>7, <1>10 DEF ControllersStarted, PublishControllers, ControllersPublished
<1>11. CASE \/ ArriveConfigure \/ \E c \in Controllers : Started(c) \/ Halted(c)
            \/ RequestEnds \/ Publish \/ UNCHANGED vars
  <2>1. UNCHANGED <<hook, token, queue, phase, step, at>>
    BY <1>11 DEF ArriveConfigure, Started, Halted, Interrupted, RequestEnds, Publish, vars,
                 processVars, hookVars
  <2> QED BY <1>1, <2>1
<1> QED BY <1>2, <1>3, <1>5, <1>6, <1>8, <1>9, <1>10, <1>11, StepIsOneOf

\* stop() gives up on a part only if it holds no item, which is when it runs.
LEMMA TimeoutIsTrueKept ==
  ASSUME ProcessTypeOK, RecordsAreTyped, ItemIsLeft, TimeoutIsTrue, [ProcessNext]_vars
  PROVE  TimeoutIsTrue'
<1> USE DEF RecordsAreTyped, TimeoutIsTrue
<1>1. CASE WaitTimesOut
  <2>1. /\ step["main"] = "Waiting" /\ at \in Parts /\ at \notin token
        /\ used' = [used EXCEPT !.outlasted = Live(at)]
    BY <1>1 DEF WaitTimesOut, MayOutlast
  <2>2. Live(at)
    BY <2>1 DEF ItemIsLeft, Live
  <2> QED BY <2>1, <2>2
<1>2. CASE Start
  BY <1>2 DEF Start
<1>3. CASE ArriveConfigure \/ \E a \in Adders : ArriveAdder(a)
  BY <1>3 DEF ArriveConfigure, ArriveAdder, Request
<1>4. CASE \E c \in Controllers : Started(c)
  BY <1>4 DEF Started
<1>5. CASE \/ \E c \in Controllers : Halted(c)
           \/ \E a \in Actors : ControllersStarted(a) \/ ControllersPublished(a)
           \/ \E a \in Adders : AddControllers(a)
           \/ Stop \/ RunHooks \/ RequestEnds \/ Publish \/ ControllersStopped \/ TaskEnded
           \/ HookStep \/ UNCHANGED vars
  <2>1. used' = used
    BY <1>5 DEF Halted, ControllersStarted, ControllersPublished, AddControllers, Stop, RunHooks,
                RequestEnds, Publish, ControllersStopped, TaskEnded, HookStep, processVars, vars
  <2> QED BY <2>1
<1> QED BY <1>1, <1>2, <1>3, <1>4, <1>5, StepIsOneOf
--------------------------------------------------------------------------------
(***************************************************************************)
(* Who waits for what, and who publishes                                   *)
(***************************************************************************)
\* A request that has not been made yet adds nothing.
LEMMA NewAdderIsIdle ==
  ASSUME AddsOnce, NEW a \in Adders, ArriveAdder(a)
  PROVE  step[a] = "Idle"
BY DEF AddsOnce, ArriveAdder, Request

LEMMA AddsOnceKept ==
  ASSUME ProcessTypeOK, RecordsAreTyped, AddsOnce, [ProcessNext]_vars
  PROVE  AddsOnce'
<1> USE MainIsAnActor DEF ProcessTypeOK
<1>1. ASSUME used.requests \subseteq used'.requests,
             \A a \in Adders : step'[a] # "Idle" => step[a] # "Idle" \/ <<"request", a>> \in used'.requests
      PROVE  AddsOnce'
  BY <1>1 DEF AddsOnce
<1>2. ASSUME NEW r, Request(r) PROVE used'.requests = used.requests \cup {<<"request", r>>}
  BY <1>2 DEF Request, RecordsAreTyped
<1>3. CASE ArriveConfigure
  BY <1>1, <1>2, <1>3 DEF ArriveConfigure
<1>4. ASSUME NEW a \in Adders, ArriveAdder(a) PROVE AddsOnce'
  <2>1. step' = [step EXCEPT ![a] = "Asked"] /\ used'.requests = used.requests \cup {<<"request", a>>}
    BY <1>2, <1>4 DEF ArriveAdder
  <2> QED BY <1>1, <2>1
<1>5. CASE Start
  <2>1. used'.requests = used.requests /\ step' = [step EXCEPT !["main"] = "Starting"]
    BY <1>5 DEF Start, StartControllers, RecordsAreTyped
  <2> QED BY <1>1, <2>1
<1>6. ASSUME NEW a \in Actors, ControllersStarted(a) \/ ControllersPublished(a) PROVE AddsOnce'
  <2>1. used' = used /\ step[a] # "Idle" /\ \E s \in Steps : step' = [step EXCEPT ![a] = s]
    BY <1>6 DEF ControllersStarted, PublishControllers, ControllersPublished, Steps
  <2> QED BY <1>1, <2>1
<1>7. ASSUME NEW a \in Adders, AddControllers(a) PROVE AddsOnce'
  <2>1. used' = used /\ step[a] # "Idle" /\ \E s \in Steps : step' = [step EXCEPT ![a] = s]
    BY <1>7 DEF AddControllers, StartControllers, Steps
  <2> QED BY <1>1, <2>1
<1>8. CASE Stop \/ ControllersStopped \/ TaskEnded \/ WaitTimesOut
  <2>1. used'.requests = used.requests
    BY <1>8 DEF Stop, ControllersStopped, TaskEnded, WaitTimesOut, RecordsAreTyped
  <2>2. \E s \in Steps : step' = [step EXCEPT !["main"] = s]
    BY <1>8 DEF Stop, ControllersStopped, TaskEnded, WaitTimesOut, WalkOn, Steps
  <2> QED BY <1>1, <2>1, <2>2
<1>9. ASSUME NEW c \in Controllers, Started(c) PROVE AddsOnce'
  <2>1. used'.requests = used.requests /\ step' = step
    BY <1>9 DEF Started, RecordsAreTyped
  <2> QED BY <1>1, <2>1
<1>10. CASE \/ \E c \in Controllers : Halted(c)
            \/ RunHooks \/ RequestEnds \/ Publish \/ HookStep \/ UNCHANGED vars
  <2>1. used' = used /\ step' = step
    BY <1>10 DEF Halted, RunHooks, RequestEnds, Publish, HookStep, processVars, vars
  <2> QED BY <1>1, <2>1
<1> QED BY <1>3, <1>4, <1>5, <1>6, <1>7, <1>8, <1>9, <1>10, StepIsOneOf

\* Who waits for starts or for the publishing goes on with it until that is done.
LEMMA WaitersStay ==
  ASSUME ProcessTypeOK, RecordsAreTyped, StateOfMain, AddsOnce, [ProcessNext]_vars,
         NEW a \in Actors,
         step[a] \in {"Starting", "Publishing"},
         ~ControllersStarted(a), ~ControllersPublished(a)
  PROVE  step'[a] = step[a] /\ mine'[a] = mine[a]
<1> USE MainIsAnActor DEF ProcessTypeOK
<1>1. ASSUME NEW b \in Actors, NEW s \in Steps, b # a, step' = [step EXCEPT ![b] = s],
             mine' = mine \/ \E cs : mine' = [mine EXCEPT ![b] = cs]
      PROVE  step'[a] = step[a] /\ mine'[a] = mine[a]
  BY <1>1
<1>2. CASE Start
  <2>1. /\ step' = [step EXCEPT !["main"] = "Starting"]
        /\ mine' = [mine EXCEPT !["main"] = controllers]
        /\ step["main"] = "Idle"
    BY <1>2 DEF Start, StartControllers, StateOfMain
  <2> QED BY <1>1, <2>1 DEF Steps
<1>3. CASE Stop
  <2>1. step["main"] = "Idle" /\ step' = [step EXCEPT !["main"] = "Stopping"] /\ mine' = mine
    BY <1>3 DEF Stop, StateOfMain
  <2> QED BY <1>1, <2>1 DEF Steps
<1>4. ASSUME NEW b \in Adders, ArriveAdder(b) PROVE step'[a] = step[a] /\ mine'[a] = mine[a]
  <2>1. step[b] = "Idle" /\ step' = [step EXCEPT ![b] = "Asked"] /\ mine' = mine
    BY <1>4, NewAdderIsIdle DEF ArriveAdder
  <2> QED BY <1>1, <2>1 DEF Steps
<1>5. ASSUME NEW b \in Adders, AddControllers(b) PROVE step'[a] = step[a] /\ mine'[a] = mine[a]
  <2>1. /\ step[b] = "Asked" /\ \E s \in Steps : step' = [step EXCEPT ![b] = s]
        /\ mine' = mine \/ \E cs : mine' = [mine EXCEPT ![b] = cs]
    BY <1>5 DEF AddControllers, StartControllers, Steps
  <2> QED BY <1>1, <2>1
<1>6. ASSUME NEW b \in Actors, ControllersStarted(b) \/ ControllersPublished(b)
      PROVE  step'[a] = step[a] /\ mine'[a] = mine[a]
  <2>1. /\ \E s \in Steps : step' = [step EXCEPT ![b] = s]
        /\ mine' = mine
    BY <1>6 DEF ControllersStarted, PublishControllers, ControllersPublished, Steps
  <2>2. b # a
    BY <1>6 DEF ControllersStarted, ControllersPublished
  <2> QED BY <1>1, <2>1, <2>2
<1>7. CASE ControllersStopped \/ TaskEnded \/ WaitTimesOut
  <2>1. /\ step["main"] \in {"Stopping", "Waiting"} /\ mine' = mine
        /\ \E s \in Steps : step' = [step EXCEPT !["main"] = s]
    BY <1>7 DEF ControllersStopped, TaskEnded, WaitTimesOut, WalkOn, Steps
  <2> QED BY <1>1, <2>1
<1>8. CASE \/ ArriveConfigure \/ \E c \in Controllers : Started(c) \/ Halted(c)
           \/ RunHooks \/ RequestEnds \/ Publish \/ HookStep \/ UNCHANGED vars
  <2>1. step' = step /\ mine' = mine
    BY <1>8 DEF ArriveConfigure, Started, Halted, RunHooks, RequestEnds, Publish, HookStep,
                processVars, vars
  <2> QED BY <2>1
<1> QED BY <1>2, <1>3, <1>4, <1>5, <1>6, <1>7, <1>8, StepIsOneOf

LEMMA StartersStay ==
  ASSUME ProcessTypeOK, RecordsAreTyped, StateOfMain, AddsOnce, [ProcessNext]_vars,
         NEW a \in Actors, step[a] = "Starting", ~ControllersStarted(a)
  PROVE  step'[a] = "Starting" /\ mine'[a] = mine[a]
<1>1. ~ControllersPublished(a)
  BY DEF ControllersPublished
<1> QED BY <1>1, WaitersStay

LEMMA PublishersStay ==
  ASSUME ProcessTypeOK, RecordsAreTyped, StateOfMain, AddsOnce, [ProcessNext]_vars,
         NEW a \in Actors, step[a] = "Publishing", ~ControllersPublished(a)
  PROVE  step'[a] = "Publishing"
<1>1. ~ControllersStarted(a)
  BY DEF ControllersStarted
<1> QED BY <1>1, WaitersStay

\* Nobody begins to publish but who has started what he wanted to.
LEMMA PublishersAreOld ==
  ASSUME ProcessTypeOK, RecordsAreTyped, [ProcessNext]_vars,
         NEW a \in Actors, step'[a] = "Publishing", ~ControllersStarted(a)
  PROVE  step[a] = "Publishing"
<1> USE MainIsAnActor DEF ProcessTypeOK
<1>1. ASSUME NEW b \in Actors, NEW s \in Steps \ {"Publishing"}, step' = [step EXCEPT ![b] = s]
      PROVE  step[a] = "Publishing"
  BY <1>1
<1>2. ASSUME NEW b \in Adders, ArriveAdder(b) \/ AddControllers(b) PROVE step[a] = "Publishing"
  <2>1. \E s \in Steps \ {"Publishing"} : step' = [step EXCEPT ![b] = s]
    BY <1>2 DEF ArriveAdder, AddControllers, StartControllers, Steps
  <2> QED BY <1>1, <2>1
<1>3. ASSUME NEW b \in Actors, ControllersStarted(b) PROVE step[a] = "Publishing"
  <2>1. b # a /\ \E s \in Steps : step' = [step EXCEPT ![b] = s]
    BY <1>3 DEF ControllersStarted, PublishControllers, Steps
  <2> QED BY <2>1
<1>4. ASSUME NEW b \in Actors, ControllersPublished(b) PROVE step[a] = "Publishing"
  <2>1. \E s \in Steps \ {"Publishing"} : step' = [step EXCEPT ![b] = s]
    BY <1>4 DEF ControllersPublished, Steps
  <2> QED BY <1>1, <2>1
<1>5. CASE Start \/ Stop \/ ControllersStopped \/ TaskEnded \/ WaitTimesOut
  <2>1. \E s \in Steps \ {"Publishing"} : step' = [step EXCEPT !["main"] = s]
    BY <1>5 DEF Start, StartControllers, Stop, ControllersStopped, TaskEnded, WaitTimesOut, WalkOn, Steps
  <2> QED BY <1>1, <2>1
<1>6. CASE \/ ArriveConfigure \/ \E c \in Controllers : Started(c) \/ Halted(c)
           \/ RunHooks \/ RequestEnds \/ Publish \/ HookStep \/ UNCHANGED vars
  <2>1. step' = step
    BY <1>6 DEF ArriveConfigure, Started, Halted, RunHooks, RequestEnds, Publish, HookStep,
                processVars, vars
  <2> QED BY <2>1
<1> QED BY <1>2, <1>3, <1>4, <1>5, <1>6, StepIsOneOf
\* Only start() and add_controllers() run a start hook.
LEMMA StartsAreOld ==
  ASSUME [ProcessNext]_vars, RecordsAreTyped, ~Start, \A a \in Adders : ~AddControllers(a),
         NEW c \in Controllers, <<"start", c>> \in alive'
  PROVE  <<"start", c>> \in alive
<1>1. ASSUME NEW r, Request(r) PROVE <<"start", c>> \in alive
  BY <1>1, RequestIs
<1>2. CASE ArriveConfigure \/ \E a \in Adders : ArriveAdder(a)
  BY <1>1, <1>2 DEF ArriveConfigure, ArriveAdder
<1>3. CASE Stop
  <2>1. alive' = alive \cup {"stop"} \X controllers
    BY <1>3 DEF Stop, SpawnTasks, ToHalt
  <2>2. <<"start", c>> \notin {"stop"} \X controllers
    OBVIOUS
  <2> QED BY <2>1, <2>2
<1>4. CASE \E d \in Controllers : Started(d)
  BY <1>4 DEF Started
<1>5. ASSUME NEW a \in Actors, ControllersStarted(a) PROVE <<"start", c>> \in alive
  <2>1. alive' \subseteq alive \cup {<<"publish", a>>}
    BY <1>5 DEF ControllersStarted, PublishControllers, SpawnTasks
  <2> QED BY <2>1
<1>6. CASE \/ \E d \in Controllers : Halted(d)
           \/ \E a \in Actors : ControllersPublished(a)
           \/ RunHooks \/ RequestEnds \/ Publish \/ ControllersStopped \/ TaskEnded \/ WaitTimesOut
           \/ HookStep \/ UNCHANGED vars
  <2>1. alive' \subseteq alive
    BY <1>6 DEF Halted, ControllersPublished, RunHooks, RequestEnds, Publish, ControllersStopped,
                TaskEnded, WaitTimesOut, HookStep, processVars, vars
  <2> QED BY <2>1
<1> QED BY <1>2, <1>3, <1>4, <1>5, <1>6, StepIsOneOf

LEMMA StartsAreAwaitedKept ==
  ASSUME ProcessTypeOK, RecordsAreTyped, StateOfMain, AddsOnce, StartsAreAwaited, [ProcessNext]_vars
  PROVE  StartsAreAwaited'
<1> USE MainIsAnActor DEF ProcessTypeOK
<1> SUFFICES ASSUME NEW c \in Controllers, <<"start", c>> \in alive'
             PROVE  \E a \in Actors : step'[a] = "Starting" /\ c \in mine'[a]
  BY DEF StartsAreAwaited
<1>1. ASSUME NEW a \in Actors, NEW cs \in SUBSET Controllers, StartControllers(a, cs),
             step[a] # "Starting"
      PROVE  \E b \in Actors : step'[b] = "Starting" /\ c \in mine'[b]
  <2>1. /\ alive' = alive \cup {"start"} \X cs
        /\ mine' = [mine EXCEPT ![a] = cs] /\ step' = [step EXCEPT ![a] = "Starting"]
    BY <1>1 DEF StartControllers, SpawnTasks
  <2>2. CASE <<"start", c>> \in {"start"} \X cs
    BY <2>1, <2>2
  <2>3. CASE <<"start", c>> \in alive
    <3>1. PICK b \in Actors : step[b] = "Starting" /\ c \in mine[b]
      BY <2>3 DEF StartsAreAwaited
    <3> QED BY <1>1, <2>1, <3>1
  <2> QED BY <2>1, <2>2, <2>3
<1>2. CASE Start
  BY <1>1, <1>2 DEF Start, StateOfMain
<1>3. ASSUME NEW a \in Adders, AddControllers(a), state # "Stopped"
      PROVE  \E b \in Actors : step'[b] = "Starting" /\ c \in mine'[b]
  BY <1>1, <1>3, ProcessAssumption DEF AddControllers
<1>4. CASE ~Start /\ \A a \in Adders : AddControllers(a) => state = "Stopped"
  <2>1. <<"start", c>> \in alive
    BY <1>4, StartsAreOld DEF AddControllers
  <2>2. PICK b \in Actors : step[b] = "Starting" /\ c \in mine[b]
    BY <2>1 DEF StartsAreAwaited
  <2>3. CASE ControllersStarted(b)
    BY <2>1, <2>2, <2>3 DEF ControllersStarted
  <2>4. CASE ~ControllersStarted(b)
    <3>1. step'[b] = "Starting" /\ mine'[b] = mine[b]
      BY <2>2, <2>4, StartersStay
    <3> QED BY <2>2, <3>1
  <2> QED BY <2>3, <2>4
<1> QED BY <1>2, <1>3, <1>4

--------------------------------------------------------------------------------
(***************************************************************************)
(* Who is known not to be published                                        *)
(***************************************************************************)
LEMMA ReportsAreKnownKept ==
  ASSUME ProcessTypeOK, RecordsAreTyped, StateOfMain, AddsOnce, OwnControllers, StartsAreAwaited,
         ReportsAreKnown, [ProcessNext]_vars
  PROVE  ReportsAreKnown'
<1> USE MainIsAnActor DEF ProcessTypeOK
<1> DEFINE Known(c) == c \in unpublished' \/ \E a \in Actors : step'[a] = "Starting" /\ c \in mine'[a]
<1>1. unpublished' \subseteq reported'
  <2>1. CASE \E c \in Controllers : Started(c)
    BY <2>1 DEF Started, ReportsAreKnown
  <2>2. CASE \E a \in Actors : ControllersStarted(a)
    BY <2>2 DEF ControllersStarted, ReportsAreKnown
  <2>3. CASE ControllersStopped \/ TaskEnded
    BY <2>3 DEF ControllersStopped, TaskEnded, WalkOn, ReportsAreKnown
  <2>4. CASE \/ Start \/ Stop \/ ArriveConfigure \/ (\E a \in Adders : ArriveAdder(a) \/ AddControllers(a))
             \/ (\E c \in Controllers : Halted(c)) \/ (\E a \in Actors : ControllersPublished(a))
             \/ RunHooks \/ RequestEnds \/ Publish \/ WaitTimesOut \/ HookStep \/ UNCHANGED vars
    <3>1. unpublished' = unpublished /\ reported' = reported
      BY <2>4 DEF Start, Stop, ArriveConfigure, ArriveAdder, AddControllers, Halted,
         ControllersPublished, RunHooks, RequestEnds, Publish, WaitTimesOut, HookStep, vars, processVars
    <3> QED BY <3>1 DEF ReportsAreKnown
  <2> QED BY <2>1, <2>2, <2>3, <2>4, StepIsOneOf
<1>2. ASSUME NEW c \in controllers' \cap reported', state' # "Stopped" PROVE Known(c)
  <2>1. ASSUME c \in controllers, c \in reported, state # "Stopped", ~ControllersStopped, ~TaskEnded
        PROVE  Known(c)
    <3>1. CASE c \in unpublished
      <4>1. unpublished \subseteq unpublished'
        BY <2>1, StepIsOneOf DEF Start, Stop, ArriveConfigure, ArriveAdder, AddControllers, Started,
           Halted, ControllersStarted, ControllersPublished, RunHooks, RequestEnds, Publish,
           WaitTimesOut, HookStep, vars, processVars
      <4> QED BY <3>1, <4>1
    <3>2. ASSUME NEW a \in Actors, step[a] = "Starting", c \in mine[a] PROVE Known(c)
      <4>1. CASE ControllersStarted(a)
        BY <2>1, <3>2, <4>1 DEF ControllersStarted
      <4>2. CASE ~ControllersStarted(a)
        <5>1. step'[a] = "Starting" /\ mine'[a] = mine[a]
          BY <3>2, <4>2, StartersStay
        <5> QED BY <3>2, <5>1
      <4> QED BY <4>1, <4>2
    <3> QED BY <2>1, <3>1, <3>2 DEF ReportsAreKnown
  <2>2. CASE Start
    <3>1. /\ controllers' = controllers /\ mine' = [mine EXCEPT !["main"] = controllers]
          /\ step' = [step EXCEPT !["main"] = "Starting"]
      BY <2>2 DEF Start, StartControllers
    <3> QED BY <3>1
  <2>3. ASSUME NEW d \in Controllers, Started(d) PROVE Known(c)
    <3>1. /\ <<"start", d>> \in alive /\ reported' \subseteq reported \cup {d}
          /\ UNCHANGED <<controllers, state, unpublished, step, mine>>
      BY <2>3 DEF Started
    <3>2. CASE c \in reported
      BY <1>2, <3>1, <3>2 DEF ReportsAreKnown
    <3>3. CASE c = d
      BY <3>1, <3>3 DEF StartsAreAwaited
    <3> QED BY <1>2, <3>1, <3>2, <3>3
  <2>4. ASSUME NEW a \in Adders, AddControllers(a) PROVE Known(c)
    <3>1. /\ state' = state /\ controllers' = controllers \cup Adds[a] /\ reported' = reported
          /\ ~ControllersStopped /\ ~TaskEnded
      <4>1. state' = state /\ controllers' = controllers \cup Adds[a] /\ reported' = reported
        BY <2>4 DEF AddControllers
      <4>2. controllers' # controllers
        BY <2>4, <4>1, ProcessAssumption DEF AddControllers
      <4>3. ~ControllersStopped /\ ~TaskEnded
        BY <1>2, <4>1, <4>2 DEF ControllersStopped, TaskEnded, WalkOn
      <4> QED BY <4>1, <4>3
    <3>2. CASE c \in controllers
      BY <1>2, <2>1, <3>1, <3>2
    <3>3. CASE c \in Adds[a]
      <4>1. mine' = [mine EXCEPT ![a] = Adds[a]] /\ step' = [step EXCEPT ![a] = "Starting"]
        BY <1>2, <2>4, <3>1 DEF AddControllers, StartControllers
      <4> QED BY <3>3, <4>1
    <3> QED BY <1>2, <3>1, <3>2, <3>3
  <2>5. CASE ControllersStopped \/ TaskEnded
    <3>1. /\ UNCHANGED <<controllers, unpublished, mine, state, reported>>
          /\ step' = [step EXCEPT !["main"] = "Waiting"]
          /\ step["main"] \in {"Stopping", "Waiting"}
      BY <1>2, <2>5 DEF ControllersStopped, TaskEnded, WalkOn
    <3> QED BY <1>2, <3>1 DEF ReportsAreKnown
  <2>6. CASE \/ Stop \/ ArriveConfigure \/ (\E a \in Adders : ArriveAdder(a))
             \/ (\E d \in Controllers : Halted(d))
             \/ (\E a \in Actors : ControllersStarted(a) \/ ControllersPublished(a))
             \/ RunHooks \/ RequestEnds \/ Publish \/ WaitTimesOut \/ HookStep \/ UNCHANGED vars
    <3>1. controllers' = controllers /\ reported' = reported
      BY <2>6 DEF Stop, ArriveConfigure, ArriveAdder, Halted, ControllersStarted,
         ControllersPublished, RunHooks, RequestEnds, Publish, WaitTimesOut, HookStep, vars, processVars
    <3>2. state # "Stopped"
      BY <1>2, <2>6 DEF Stop, ArriveConfigure, ArriveAdder, Halted, ControllersStarted, StateOfMain,
         ControllersPublished, RunHooks, RequestEnds, Publish, WaitTimesOut, HookStep, vars, processVars
    <3> QED BY <1>2, <2>1, <2>5, <3>1, <3>2
  <2> QED BY <2>2, <2>3, <2>4, <2>5, <2>6, StepIsOneOf
<1> QED BY <1>1, <1>2 DEF ReportsAreKnown
--------------------------------------------------------------------------------
(***************************************************************************)
(* What is told                                                            *)
(***************************************************************************)
\* Who publishes, adds or stops is alone.
LEMMA BusyAlone ==
  ASSUME OneAtATime, NEW a \in Actors, NEW b \in Actors, a # b,
         step[a] \in {"Publishing", "Stopping", "Waiting"} \/ (a \in Adders /\ step[a] # "Idle")
  PROVE  /\ step[b] # "Publishing" /\ step[b] \notin {"Stopping", "Waiting"}
         /\ b \in Adders => step[b] = "Idle"
<1>1. a \in Busy
  BY DEF Busy, Actors
<1>2. b \notin Busy
  BY <1>1 DEF OneAtATime
<1> QED BY <1>2 DEF Busy, Actors

LEMMA BusyAloneThen ==
  ASSUME OneAtATime', NEW a \in Actors, NEW b \in Actors, a # b,
         step'[a] \in {"Publishing", "Stopping", "Waiting"}
  PROVE  /\ step'[b] # "Publishing"
         /\ b \in Adders => step'[b] = "Idle"
<1>1. a \in Busy'
  BY DEF Busy, Actors
<1>2. b \notin Busy'
  BY <1>1 DEF OneAtATime
<1> QED BY <1>2 DEF Busy, Actors

\* While nobody publishes there is no publish hook to run.
LEMMA PublishIs ==
  ASSUME OnePublishes, Publish
  PROVE  \E a \in Actors :
           /\ step[a] = "Publishing"
           /\ publishes' = << >> /\ told' = controllers \ unpublished
<1>1. publishes # << >>
  BY DEF Publish
<1>2. PICK a \in Actors : step[a] = "Publishing"
  BY <1>1 DEF OnePublishes, NobodyPublishes
<1>3. publishes = <<[by |-> a, list |-> controllers \ unpublished]>>
  BY <1>1, <1>2 DEF OnePublishes
<1> DEFINE r == [by |-> a, list |-> controllers \ unpublished]
<1>4. r.list = controllers \ unpublished
  OBVIOUS
<1> HIDE DEF r
<1>5. Head(<<r>>) = r /\ Tail(<<r>>) = << >>
  OBVIOUS
<1>6. publishes = <<r>>
  BY <1>3 DEF r
<1> QED BY <1>2, <1>4, <1>5, <1>6 DEF Publish

\* What a step that has nothing to do with publishing leaves as it is.
LEMMA OnePublishesIf ==
  ASSUME OnePublishes, UNCHANGED <<publishes, told, controllers, unpublished>>,
         \A a \in Actors : <<"publish", a>> \in alive => <<"publish", a>> \in alive',
         \A a \in Actors : step'[a] = "Publishing" <=> step[a] = "Publishing",
         \A a \in Adders : step[a] = "Publishing" => state' = state
  PROVE  OnePublishes'
BY MainIsAnActor DEF OnePublishes, NobodyPublishes

LEMMA OnePublishesKept ==
  ASSUME ProcessTypeOK, RecordsAreTyped, StateOfMain, AddsOnce, OneAtATime, OneAtATime',
         OnePublishes, [ProcessNext]_vars
  PROVE  OnePublishes'
<1> USE MainIsAnActor
<1>1. ASSUME \A a \in Actors : ~ControllersStarted(a) /\ ~ControllersPublished(a)
      PROVE  \A a \in Actors : step'[a] = "Publishing" <=> step[a] = "Publishing"
  BY <1>1, PublishersStay, PublishersAreOld
<1>2. CASE Start \/ Stop
  <2>1. /\ UNCHANGED <<publishes, told, controllers, unpublished>> /\ alive \subseteq alive'
        /\ step["main"] = "Idle"
    BY <1>2 DEF Start, Stop, StartControllers, SpawnTasks, StateOfMain
  <2>2. \A a \in Actors : ~ControllersStarted(a) /\ ~ControllersPublished(a)
    <3>1. CASE Start
      BY <3>1 DEF Start, ControllersStarted, ControllersPublished
    <3>2. CASE Stop
      BY <3>2 DEF Stop, ControllersStarted, ControllersPublished
    <3> QED BY <1>2, <3>1, <3>2
  <2>3. ASSUME NEW a \in Adders, step[a] = "Publishing" PROVE FALSE
    <3>1. CASE Start
      BY <2>3, <3>1 DEF Start, OnePublishes
    <3>2. CASE Stop
      <4>1. step'["main"] = "Stopping"
        BY <3>2 DEF Stop, ProcessTypeOK
      <4>2. step'[a] = "Publishing"
        BY <1>1, <2>2, <2>3
      <4> QED BY <4>1, <4>2, BusyAloneThen
    <3> QED BY <1>2, <3>1, <3>2
  <2> QED BY <1>1, <2>1, <2>2, <2>3, OnePublishesIf
<1>3. ASSUME NEW a \in Actors, ControllersStarted(a) PROVE OnePublishes'
  <2>1. /\ step[a] = "Starting"
        /\ UNCHANGED <<controllers, told>>
        /\ state' \in {state, "Started"}
    BY <1>3 DEF ControllersStarted
  <2>2. NobodyPublishes
    <3> SUFFICES ASSUME NEW b \in Actors, step[b] = "Publishing" PROVE FALSE
      BY DEF NobodyPublishes
    <3>1. a # b
      BY <2>1
    <3>2. CASE a \in Adders
      BY <2>1, <3>1, <3>2, BusyAlone
    <3>3. CASE a = "main"
      BY <2>1, <3>1, <3>3 DEF OnePublishes, StateOfMain, Actors
    <3> QED BY <3>2, <3>3 DEF Actors
  <2>3. publishes = << >>
    BY <2>2 DEF OnePublishes
  <2>4. \A b \in Actors : b # a => step'[b] = step[b]
    BY <1>3 DEF ControllersStarted, PublishControllers, ProcessTypeOK
  <2>5. CASE PublishControllers(a) /\ (a = "main" \/ state = "Started") /\ state' = state
    <3>1. /\ publishes' = Append(publishes, [by |-> a, list |-> controllers \ unpublished'])
          /\ alive' = alive \cup {<<"publish", a>>}
          /\ step'[a] = "Publishing"
      BY <2>5 DEF PublishControllers, ToPublish, SpawnTasks, ProcessTypeOK
    <3> DEFINE r == [by |-> a, list |-> controllers \ unpublished']
    <3>2. publishes' = Append(publishes, r)
      BY <3>1
    <3> HIDE DEF r
    <3>3. publishes' = <<r>>
      BY <2>3, <3>2
    <3>4. publishes' = <<[by |-> a, list |-> controllers' \ unpublished']>>
      BY <2>1, <3>3 DEF r
    <3>5. \A b \in Actors : step'[b] = "Publishing" => b = a
      BY <2>2, <2>4 DEF NobodyPublishes
    <3> QED BY <2>5, <3>1, <3>4, <3>5 DEF OnePublishes, NobodyPublishes
  <2>6. CASE step' = [step EXCEPT ![a] = "Idle"] /\ publishes' = publishes
    <3>1. \A b \in Actors : step'[b] # "Publishing"
      BY <2>2, <2>6 DEF ProcessTypeOK, NobodyPublishes
    <3> QED BY <2>3, <2>6, <3>1 DEF OnePublishes, NobodyPublishes
  <2> QED BY <1>3, <2>5, <2>6 DEF ControllersStarted
<1>4. ASSUME NEW a \in Actors, ControllersPublished(a) PROVE OnePublishes'
  <2>1. /\ step[a] = "Publishing" /\ <<"publish", a>> \notin alive
        /\ step' = [step EXCEPT ![a] = "Idle"]
        /\ UNCHANGED <<publishes, told, controllers, unpublished>>
    BY <1>4 DEF ControllersPublished
  <2>2. publishes = << >>
    BY <2>1 DEF OnePublishes
  <2>3. \A b \in Actors : step'[b] # "Publishing"
    BY <2>1, BusyAlone DEF ProcessTypeOK
  <2> QED BY <2>1, <2>2, <2>3 DEF OnePublishes, NobodyPublishes
<1>5. CASE Publish
  <2> PICK a \in Actors :
        /\ step[a] = "Publishing"
        /\ publishes' = << >> /\ told' = controllers \ unpublished
    BY <1>5, PublishIs
  <2>1. UNCHANGED <<controllers, unpublished, step, state>>
    BY <1>5 DEF Publish
  <2> QED BY <2>1 DEF OnePublishes, NobodyPublishes
<1>6. ASSUME NEW a \in Adders, AddControllers(a) PROVE OnePublishes'
  <2>1. /\ step[a] = "Asked" /\ state' = state
        /\ UNCHANGED <<publishes, told, unpublished>>
        /\ \E s \in {"Idle", "Starting"} : step' = [step EXCEPT ![a] = s]
    BY <1>6 DEF AddControllers, StartControllers
  <2>2. \A b \in Actors : step[b] # "Publishing"
    BY <2>1, BusyAlone
  <2>3. \A b \in Actors : step'[b] # "Publishing"
    BY <2>1, <2>2 DEF ProcessTypeOK
  <2> QED BY <2>1, <2>2, <2>3 DEF OnePublishes, NobodyPublishes
<1>7. CASE ControllersStopped \/ TaskEnded
  <2>1. /\ step["main"] \in {"Stopping", "Waiting"} /\ UNCHANGED <<publishes, told>>
        /\ \E s \in {"Idle", "Waiting"} : step' = [step EXCEPT !["main"] = s]
    BY <1>7 DEF ControllersStopped, TaskEnded, WalkOn
  <2>2. \A b \in Actors : step[b] # "Publishing"
    BY <2>1, BusyAlone
  <2>3. \A b \in Actors : step'[b] # "Publishing"
    BY <2>1, <2>2 DEF ProcessTypeOK
  <2> QED BY <2>1, <2>2, <2>3 DEF OnePublishes, NobodyPublishes
<1>8. ASSUME \A a \in Actors : <<"publish", a>> \in alive => <<"publish", a>> \in alive',
             \A a \in Actors : step'[a] = "Publishing" <=> step[a] = "Publishing",
             UNCHANGED <<publishes, told, controllers, unpublished, state>>
      PROVE  OnePublishes'
  BY <1>8, OnePublishesIf
<1>9. CASE ArriveConfigure \/ RunHooks \/ HookStep \/ WaitTimesOut \/ UNCHANGED vars
  <2>1. alive \subseteq alive' /\ UNCHANGED <<publishes, told, controllers, unpublished, state>>
    BY <1>9, RequestIs DEF ArriveConfigure, RunHooks, HookStep, WaitTimesOut, vars, processVars
  <2>2. \A a \in Actors : step'[a] = "Publishing" <=> step[a] = "Publishing"
    BY <1>9 DEF ArriveConfigure, RunHooks, HookStep, WaitTimesOut, vars, processVars, ProcessTypeOK
  <2> QED BY <1>8, <2>1, <2>2
<1>10. ASSUME NEW a \in Adders, ArriveAdder(a) PROVE OnePublishes'
  <2>1. alive \subseteq alive' /\ UNCHANGED <<publishes, told, controllers, unpublished, state>>
    BY <1>10, RequestIs DEF ArriveAdder
  <2>2. step[a] = "Idle" /\ step' = [step EXCEPT ![a] = "Asked"]
    BY <1>10, NewAdderIsIdle DEF ArriveAdder
  <2>3. \A b \in Actors : step'[b] = "Publishing" <=> step[b] = "Publishing"
    BY <2>2 DEF ProcessTypeOK
  <2> QED BY <1>8, <2>1, <2>3
<1>11. CASE RequestEnds \/ \E c \in Controllers : Started(c) \/ Halted(c)
  <2>1. UNCHANGED <<publishes, told, controllers, unpublished, state, step>>
    BY <1>11 DEF RequestEnds, Started, Halted
  <2>2. \A a \in Actors : <<"publish", a>> \in alive => <<"publish", a>> \in alive'
    BY <1>11 DEF RequestEnds, Started, Halted, Configure
  <2> QED BY <1>8, <2>1, <2>2
<1> QED
  BY <1>2, <1>3, <1>4, <1>5, <1>6, <1>7, <1>9, <1>10, <1>11, StepIsOneOf
\* If as many have reported as were started, all have.
LEMMA AllHaveReported ==
  ASSUME ProcessTypeOK, NEW cs \in SUBSET Controllers, NEW new \in SUBSET cs,
         ~(Cardinality(cs) > Cardinality(new))
  PROVE  new = cs
<1>1. IsFiniteSet(cs)
  BY FS_Subset, ProcessAssumption
<1>2. Cardinality(new) <= Cardinality(cs) /\ (Cardinality(cs) = Cardinality(new) => cs = new)
  BY <1>1, FS_Subset
<1>3. Cardinality(new) \in Nat /\ Cardinality(cs) \in Nat
  BY <1>1, FS_Subset, FS_CardinalityType
<1> QED BY <1>2, <1>3

LEMMA ToldIsRightIf ==
  ASSUME ToldIsRight, UNCHANGED <<told, controllers, unpublished, state, mine>>,
         used'.started = used.started,
         \A a \in Actors : step'[a] = "Publishing" <=> step[a] = "Publishing",
         \A a \in Actors : step'[a] = "Starting" <=> step[a] = "Starting"
  PROVE  ToldIsRight'
BY MainIsAnActor DEF ToldIsRight, NobodyPublishes

LEMMA ToldIsRightKept ==
  ASSUME ProcessTypeOK, RecordsAreTyped, StateOfMain, OwnControllers, AddsOnce, OneAtATime,
         OneAtATime', OnePublishes, ToldIsRight, [ProcessNext]_vars
  PROVE  ToldIsRight'
<1> USE MainIsAnActor
<1>1. CASE Start
  <2>1. state = "Stopped" /\ ~used.started /\ state' = "Starting" /\ told' = told
    BY <1>1 DEF Start
  <2> QED BY <2>1 DEF ToldIsRight
<1>2. CASE Stop \/ ControllersStopped \/ TaskEnded
  <2>1. /\ state # "Stopped" /\ told' = told
        /\ state' \in {"Stopping", "Stopped"}
        /\ \E s \in {"Stopping", "Waiting", "Idle"} : step' = [step EXCEPT !["main"] = s]
    <3>1. CASE Stop
      BY <3>1 DEF Stop
    <3>2. CASE ControllersStopped \/ TaskEnded
      <4>1. step["main"] \in {"Stopping", "Waiting"} /\ told' = told
        BY <3>2 DEF ControllersStopped, TaskEnded
      <4>2. state = "Stopping"
        BY <4>1 DEF StateOfMain, ProcessTypeOK
      <4>3. PICK unready : WalkOn(unready)
        BY <3>2 DEF ControllersStopped, TaskEnded
      <4> QED BY <4>1, <4>2, <4>3 DEF WalkOn
    <3> QED BY <1>2, <3>1, <3>2
  <2>2. used'.started
    <3>1. ~Start
      BY <2>1 DEF Start
    <3> QED BY <2>1, <3>1, OthersDoNotStart DEF OwnControllers
  <2> QED BY <2>1, <2>2 DEF ToldIsRight, ProcessTypeOK
<1>3. ASSUME NEW a \in Actors, ControllersStarted(a) PROVE ToldIsRight'
  <2> DEFINE new == reported \cap mine[a]
             enough == ListLength(a) > Cardinality(new)
  <2>1. /\ step[a] = "Starting"
        /\ unpublished' = unpublished \cup new
        /\ UNCHANGED <<controllers, told, mine>>
    BY <1>3 DEF ControllersStarted
  <2>2. IF enough /\ (a = "main" \/ state = "Started")
          THEN step' = [step EXCEPT ![a] = "Publishing"] /\ state' = state
          ELSE /\ step' = [step EXCEPT ![a] = "Idle"]
               /\ state' = IF a = "main" THEN "Started" ELSE state
    BY <1>3 DEF ControllersStarted, PublishControllers
  <2>3. state # "Stopped" \/ a \in Adders
    BY <2>1 DEF StateOfMain, Actors
  <2>4. used'.started = used.started
    <3>1. ~Start
      BY <1>3, <2>1 DEF Start, ControllersStarted, StateOfMain, StartControllers, ProcessTypeOK
    <3> QED BY <3>1, OthersDoNotStart
  <2>5. mine[a] \in SUBSET Controllers /\ controllers \in SUBSET Controllers /\ new \in SUBSET mine[a]
    BY DEF ProcessTypeOK
  <2>6. CASE enough /\ (a = "main" \/ state = "Started")
    <3>1. state' = state /\ ~NobodyPublishes'
      BY <2>2, <2>6 DEF NobodyPublishes, ProcessTypeOK
    <3>2. step'["main"] = "Starting" => step["main"] = "Starting"
      BY <2>2, <2>6 DEF ProcessTypeOK
    <3> QED BY <2>1, <2>4, <3>1, <3>2 DEF ToldIsRight
  <2>7. CASE ~(enough /\ (a = "main" \/ state = "Started"))
    <3>1. /\ step' = [step EXCEPT ![a] = "Idle"]
          /\ state' = IF a = "main" THEN "Started" ELSE state
      BY <2>2, <2>7
    <3>2. CASE a = "main"
      <4>1. told = {} /\ state = "Starting"
        BY <2>1, <3>2 DEF ToldIsRight, StateOfMain, ProcessTypeOK
      <4>2. mine[a] \subseteq controllers
        BY <4>1 DEF OwnControllers
      <4>3. ~(Cardinality(controllers) > Cardinality(new))
        BY <2>7, <3>2 DEF ListLength
      <4>4. new \in SUBSET controllers
        BY <2>5, <4>2
      <4> HIDE DEF new, enough
      <4>5. new = controllers
        BY <2>5, <4>3, <4>4, AllHaveReported
      <4>6. controllers \subseteq unpublished'
        BY <2>1, <4>5
      <4> QED BY <2>1, <3>1, <3>2, <4>1, <4>6 DEF ToldIsRight
    <3>3. CASE a \in Adders
      <4>1. a # "main" /\ state' = state /\ step'["main"] = step["main"]
        BY <3>1, <3>3 DEF ProcessTypeOK
      <4>2. CASE state # "Started"
        BY <2>1, <2>4, <4>1, <4>2 DEF ToldIsRight
      <4>3. CASE state = "Started"
        <5>1. \A b \in Actors : b # a => step[b] # "Publishing" /\ (b \in Adders => step[b] = "Idle")
          BY <2>1, <3>3, BusyAlone
        <5>2. told = (controllers \ mine[a]) \ unpublished
          BY <2>1, <3>3, <4>3, <5>1 DEF ToldIsRight, NobodyPublishes
        <5>3. ~(Cardinality(mine[a]) > Cardinality(new))
          BY <2>7, <4>1, <4>3 DEF ListLength
        <5> HIDE DEF new, enough
        <5>4. new = mine[a]
          BY <2>5, <5>3, AllHaveReported
        <5>5. told' = controllers' \ unpublished'
          BY <2>1, <5>2, <5>4
        <5>6. \A b \in Adders : step'[b] # "Starting"
          BY <3>1, <5>1 DEF ProcessTypeOK
        <5> QED BY <2>1, <2>4, <4>1, <4>3, <5>5, <5>6 DEF ToldIsRight, StateOfMain
      <4> QED BY <4>2, <4>3
    <3> QED BY <3>2, <3>3 DEF Actors
  <2> QED BY <2>6, <2>7
<1>4. ASSUME NEW a \in Actors, ControllersPublished(a) PROVE ToldIsRight'
  <2>1. /\ step[a] = "Publishing" /\ <<"publish", a>> \notin alive
        /\ step' = [step EXCEPT ![a] = "Idle"]
        /\ state' = IF a = "main" THEN "Started" ELSE state
        /\ UNCHANGED <<told, controllers, unpublished, mine>>
    BY <1>4 DEF ControllersPublished
  <2>2. told = controllers \ unpublished
    BY <2>1 DEF OnePublishes
  <2>3. \A b \in Actors : b # a => step[b] # "Publishing" /\ (b \in Adders => step[b] = "Idle")
    BY <2>1, BusyAlone
  <2>4. \A b \in Adders : step'[b] = "Idle"
    BY <2>1, <2>3 DEF ProcessTypeOK
  <2>5. state' = "Started" /\ step'["main"] # "Starting"
    BY <2>1 DEF OnePublishes, StateOfMain, ProcessTypeOK, Actors
  <2> QED BY <2>1, <2>2, <2>4, <2>5 DEF ToldIsRight
<1>5. CASE Publish
  <2> PICK a \in Actors :
        /\ step[a] = "Publishing"
        /\ publishes' = << >> /\ told' = controllers \ unpublished
    BY <1>5, PublishIs
  <2>1. step' = step /\ state' = state
    BY <1>5 DEF Publish
  <2>2. \/ state = "Starting" /\ step["main"] = "Publishing"
        \/ state = "Started" /\ step["main"] = "Idle"
    <3>1. CASE a = "main"
      <4>1. step["main"] = "Publishing"
        BY <3>1
      <4> QED BY <4>1 DEF StateOfMain, ProcessTypeOK
    <3>2. CASE a \in Adders
      BY <3>2 DEF OnePublishes, StateOfMain
    <3> QED BY <3>1, <3>2 DEF Actors
  <2> QED BY <2>1, <2>2 DEF ToldIsRight, NobodyPublishes
<1>6. ASSUME NEW a \in Adders, AddControllers(a) PROVE ToldIsRight'
  <2>1. /\ step[a] = "Asked" /\ Adds[a] \cap controllers = {}
        /\ controllers' = controllers \cup Adds[a]
        /\ UNCHANGED <<told, unpublished, state, used>>
    BY <1>6 DEF AddControllers
  <2>2. \E s \in {"Idle", "Starting"} : step' = [step EXCEPT ![a] = s]
    BY <1>6 DEF AddControllers, StartControllers
  <2>3. step'["main"] = step["main"]
    BY <2>2 DEF ProcessTypeOK
  <2>4. CASE state # "Started"
    BY <2>1, <2>3, <2>4 DEF ToldIsRight
  <2>5. CASE state = "Started"
    <3>1. /\ mine' = [mine EXCEPT ![a] = Adds[a]]
          /\ step' = [step EXCEPT ![a] = "Starting"]
      BY <1>6, <2>5 DEF AddControllers, StartControllers
    <3>2. \A b \in Actors : b # a => step[b] # "Publishing" /\ (b \in Adders => step[b] = "Idle")
      BY <2>1, BusyAlone
    <3>3. told = controllers \ unpublished
      BY <2>1, <2>5, <3>2 DEF ToldIsRight, NobodyPublishes
    <3>4. mine'[a] = Adds[a] /\ step'[a] = "Starting"
      BY <3>1 DEF ProcessTypeOK
    <3>5. \A b \in Adders : step'[b] = "Starting" => b = a
      BY <3>1, <3>2 DEF ProcessTypeOK
    <3>6. told' = (controllers' \ mine'[a]) \ unpublished'
      BY <2>1, <3>3, <3>4
    <3> QED BY <2>1, <2>3, <2>5, <3>4, <3>5, <3>6 DEF ToldIsRight, StateOfMain
  <2> QED BY <2>4, <2>5
<1>7. ASSUME NEW a \in Adders, ArriveAdder(a) PROVE ToldIsRight'
  <2>1. step[a] = "Idle" /\ step' = [step EXCEPT ![a] = "Asked"]
    BY <1>7, NewAdderIsIdle DEF ArriveAdder
  <2>2. UNCHANGED <<told, controllers, unpublished, state, mine>> /\ ~Start
    BY <1>7 DEF ArriveAdder, Start
  <2>3. used'.started = used.started
    BY <2>2, OthersDoNotStart
  <2>4. \A b \in Actors : /\ step'[b] = "Publishing" <=> step[b] = "Publishing"
                          /\ step'[b] = "Starting" <=> step[b] = "Starting"
    BY <2>1 DEF ProcessTypeOK
  <2> QED BY <2>2, <2>3, <2>4, ToldIsRightIf
<1>8. CASE \/ ArriveConfigure \/ \E c \in Controllers : Started(c) \/ Halted(c)
           \/ RunHooks \/ RequestEnds \/ WaitTimesOut \/ HookStep \/ UNCHANGED vars
  <2>1. UNCHANGED <<told, controllers, unpublished, state, mine>>
    BY <1>8 DEF ArriveConfigure, Started, Halted, RunHooks, RequestEnds, WaitTimesOut, HookStep,
                vars, processVars
  <2>2. CASE Start
    BY <1>1, <2>2
  <2>3. CASE ~Start
    <3>1. used'.started = used.started
      BY <2>3, OthersDoNotStart
    <3>2. \A b \in Actors : /\ step'[b] = "Publishing" <=> step[b] = "Publishing"
                            /\ step'[b] = "Starting" <=> step[b] = "Starting"
      BY <1>8 DEF ArriveConfigure, Started, Halted, RunHooks, RequestEnds, WaitTimesOut, HookStep,
                  vars, processVars, ProcessTypeOK
    <3> QED BY <2>1, <3>1, <3>2, ToldIsRightIf
  <2> QED BY <2>2, <2>3
<1> QED
  BY <1>1, <1>2, <1>3, <1>4, <1>5, <1>6, <1>7, <1>8, StepIsOneOf
LEMMA PublishKept ==
  ASSUME ProcessTypeOK, RecordsAreTyped, PublishInv, ~OverlapAdds, [ProcessNext]_vars
  PROVE  PublishInv'
<1>1. StateOfMain' /\ OneAtATime' /\ OwnControllers' /\ AddsOnce'
  BY StateOfMainKept, OneAtATimeKept, OwnControllersKept, AddsOnceKept DEF PublishInv
<1>2. StartsAreAwaited' /\ ReportsAreKnown'
  BY StartsAreAwaitedKept, ReportsAreKnownKept DEF PublishInv
<1>3. OnePublishes' /\ ToldIsRight'
  BY <1>1, OnePublishesKept, ToldIsRightKept DEF PublishInv
<1> QED BY <1>1, <1>2, <1>3 DEF PublishInv

--------------------------------------------------------------------------------
(***************************************************************************)
(* The theorems                                                            *)
(***************************************************************************)
LEMMA AtStart ==
  ASSUME ProcessInit
  PROVE  ProcessTypeOK /\ RecordsAreTyped /\ StopInv /\ PublishInv /\ ItemInv
<1> USE ProcessAssumption
<1>1. ProcessTypeOK
  BY DEF ProcessInit, ProcessTypeOK, Steps
<1>2. RecordsAreTyped
  BY DEF ProcessInit, Init, RecordsAreTyped
<1>3. \A t \in Tasks : ~Live(t)
  BY DEF ProcessInit, Init, Live, Running
<1>4. Busy = {}
  BY MainIsAnActor DEF ProcessInit, Busy
<1>5. OneList /\ Listed /\ NothingRuns /\ StateOfMain /\ AddersAreRequests /\ OneAtATime
  BY <1>3, <1>4, MainIsAnActor DEF ProcessInit, OneList, Listed, NothingRuns, StateOfMain,
     AddersAreRequests, OneAtATime
<1>6. OwnControllers /\ Halting /\ AllAreHalted
  BY MainIsAnActor DEF ProcessInit, OwnControllers, Halting, AllAreHalted, AllStopped
<1>7. AddsOnce /\ StartsAreAwaited /\ ReportsAreKnown /\ OnePublishes /\ ToldIsRight
  BY MainIsAnActor DEF ProcessInit, AddsOnce, StartsAreAwaited, ReportsAreKnown, OnePublishes,
     ToldIsRight, NobodyPublishes
<1>8. ItemInv
  BY MainIsAnActor DEF ProcessInit, Init, ItemInv, HostIsThere, ItemIsLeft, TimeoutIsTrue
<1> QED BY <1>1, <1>2, <1>5, <1>6, <1>7, <1>8 DEF StopInv, PublishInv

\* Whatever is added, stopped and asked for, and however often the list is cleared, the
\* process keeps its types (process.py).
THEOREM ProcessTypes == ProcessSpec => [](ProcessTypeOK /\ RecordsAreTyped)
<1>1. ProcessInit => ProcessTypeOK /\ RecordsAreTyped
  BY AtStart
<1>2. ProcessTypeOK /\ RecordsAreTyped /\ [ProcessNext]_vars => (ProcessTypeOK /\ RecordsAreTyped)'
  BY ProcessTypesKept, RecordsKept
<1> QED BY <1>1, <1>2, PTL DEF ProcessSpec

\* When stop() returns, nothing runs that the process has spawned, and every controller
\* that was started has met its stop hook: for any controllers, requests and parts with
\* any number of stops and failures, as long as one at a time adds, publishes or stops
\* and the list is not cleared while stop() walks over it (process.py, stop and spawn).
THEOREM StopIsComplete ==
  ASSUME ~LateClears, ~OverlapAdds
  PROVE  ProcessSpec => [](StopWaitsForAll /\ AllAreHalted)
<1>1. ProcessInit => StopInv
  BY AtStart
<1>2. ProcessTypeOK /\ RecordsAreTyped /\ StopInv /\ [ProcessNext]_vars => StopInv'
  BY StopKept
<1>3. StopInv => StopWaitsForAll /\ AllAreHalted
  BY DEF StopInv, NothingRuns, StopWaitsForAll, AllStopped
<1> QED BY <1>1, <1>2, <1>3, ProcessTypes, PTL DEF ProcessSpec

\* With one hooked part stop() also gives up on nothing that has ended: wait_hooks()
\* never takes the item that it waits for (process.py, stop; concurrency.py, wait).
THEOREM StopTellsTheTruth ==
  ASSUME ~LateClears, ~OverlapAdds, OnlyOnePart
  PROVE  ProcessSpec => []StopIsTrue
<1>1. ProcessInit => StopInv /\ ItemInv
  BY AtStart
<1>2. ProcessTypeOK /\ RecordsAreTyped /\ StopInv /\ ItemInv /\ [ProcessNext]_vars => (StopInv /\ ItemInv)'
  BY StopKept, HostIsThereKept, ItemIsLeftKept, TimeoutIsTrueKept DEF StopInv, ItemInv
<1>3. ProcessTypeOK /\ StopInv /\ ItemInv => StopIsTrue
  BY DEF StopInv, ItemInv, NothingRuns, StopWaitsForAll, AllStopped, StopIsTrue
<1> QED BY <1>1, <1>2, <1>3, ProcessTypes, PTL DEF ProcessSpec

\* Whenever nobody adds or starts anything, the server comms serve all controllers but
\* those that have asked not to be published, also when the list is cleared late
\* (process.py, _start_controllers and _publish_controllers).
THEOREM ThePublishedAreRight ==
  ASSUME ~OverlapAdds
  PROVE  ProcessSpec => []PublishedIsRight
<1>1. ProcessInit => PublishInv
  BY AtStart
<1>2. ProcessTypeOK /\ RecordsAreTyped /\ PublishInv /\ [ProcessNext]_vars => PublishInv'
  BY PublishKept
<1>3. ASSUME PublishInv, state = "Started", Busy = {} PROVE told = controllers \ reported
  <2> USE DEF PublishInv
  <2>1. step["main"] = "Idle" /\ \A a \in Adders : step[a] = "Idle"
    BY <1>3 DEF StateOfMain, Busy
  <2>2. \A a \in Actors : step[a] = "Idle"
    BY <2>1 DEF Actors
  <2>3. told = controllers \ unpublished
    BY <1>3, <2>1, <2>2 DEF ToldIsRight, NobodyPublishes
  <2>4. unpublished \subseteq reported /\ controllers \cap reported \subseteq unpublished
    BY <1>3, <2>2 DEF ReportsAreKnown
  <2> QED BY <2>3, <2>4
<1>4. PublishInv => PublishedIsRight
  BY <1>3 DEF PublishedIsRight
<1> QED BY <1>1, <1>2, <1>4, ProcessTypes, PTL DEF ProcessSpec

================================================================================
