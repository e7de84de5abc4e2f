-------------------------------- MODULE Hooks --------------------------------
(***************************************************************************)
(* core/hook.py and core/concurrency.py: a controller calls run_hooks(),   *)
(* which spawns one function for each part that is hooked and waits for    *)
(* their results.  Each function has the part's context, on which STOPs    *)
(* pend until the function waits for something or they are ignored; its    *)
(* Spawned has a queue that gets one item when the function has ended.     *)
(***************************************************************************)
EXTENDS Integers, Sequences, FiniteSets

CONSTANTS
  Parts,
  Order,        \* the parts in the order in which they were added
  MaxRounds,    \* bound: calls of run_hooks()
  MaxStops,     \* bound: stops from outside
  MaxFaults,    \* bound: functions that fail
  ChildAborts,  \* whether a part may raise AbortedError unasked
  SlowParts     \* whether a stopped part may outlast the timeout

ASSUME OrderAssumption ==
  /\ Order \in Seq(Parts)
  /\ Parts = {Order[i] : i \in 1 .. Len(Order)}
  /\ Len(Order) = Cardinality(Parts)

ASSUME ScopeAssumption == ChildAborts \in BOOLEAN /\ SlowParts \in BOOLEAN

ASSUME BoundsAssumption == {MaxRounds, MaxStops, MaxFaults} \subseteq Nat

VARIABLES
  hook,      \* what each part's function does or how it has ended
  pending,   \* parts whose context has a STOP that nothing has met yet
  token,     \* parts whose Spawned holds the item put at its end
  queue,     \* hook_queue: parts in the order in which they ended
  awaited,   \* hook_spawned_set: parts whose result has not been got
  phase,     \* "Idle", "Get" on the queue, or "Collect" after an error
  position,  \* in Order: the Spawned that Collect is blocked on
  raised,    \* the error that Collect will raise
  outcome,   \* how the last run_hooks() has ended
  asked,     \* parts stopped since the hooks have started
  stopped,   \* whether that was from outside
  failed,    \* whether a function has failed since then
  unasked,   \* parts that have raised AbortedError by themselves since then
  spent      \* what has been used of the bounds

hookVars == <<hook, pending, token, queue, awaited, phase, position, raised,
              outcome, asked, stopped, failed, unasked, spent>>

Errors == {"failed", "aborted"}
Running(p) == hook[p] = "running"
Hooked == {p \in Parts : hook[p] # "none"}

TypeOK ==
  /\ hook \in [Parts -> {"none", "running", "ok"} \cup Errors]
  /\ \A parts \in {pending, asked, token, unasked} : parts \subseteq Parts
  /\ queue \in Seq(Parts)
  /\ awaited \subseteq Hooked
  /\ phase \in {"Idle", "Get", "Collect"}
  /\ position \in 0 .. Len(Order)
  /\ raised \in Errors \cup {"none"}
  /\ outcome \in {"none", "running", "ok", "timeout"} \cup Errors
  /\ stopped \in BOOLEAN /\ failed \in BOOLEAN
  /\ spent \in [rounds : 0 .. MaxRounds, stops : 0 .. MaxStops,
                faults : 0 .. MaxFaults]

Init ==
  /\ hook = [p \in Parts |-> "none"]
  /\ pending = {} /\ token = {} /\ awaited = {} /\ asked = {} /\ unasked = {}
  /\ queue = << >>
  /\ phase = "Idle"
  /\ position = 0
  /\ raised = "none"
  /\ outcome = "none"
  /\ stopped = FALSE /\ failed = FALSE
  /\ spent = [rounds |-> 0, stops |-> 0, faults |-> 0]

--------------------------------------------------------------------------------
\* A STOP stays with its context until somebody meets it.
KeepStops(parts) == pending' = pending

\* prepare() of the hooks of these parts: the context ignores earlier STOPs.
Prepare(parts) == pending' = pending \ parts

\* start_hooks() under the controller's lock: all are prepared and spawned.
StartHooks ==
  /\ phase = "Idle"
  /\ spent.rounds < MaxRounds
  /\ \A p \in Parts : ~Running(p)
  /\ \E parts \in (SUBSET Parts) \ {{}} :
       /\ hook' = [p \in Parts |-> IF p \in parts THEN "running" ELSE "none"]
       /\ awaited' = parts
       /\ Prepare(parts)
  /\ phase' = "Get"
  /\ outcome' = "running"
  /\ token' = {} /\ asked' = {} /\ unasked' = {}
  /\ queue' = << >>
  /\ raised' = "none"
  /\ stopped' = FALSE /\ failed' = FALSE
  /\ spent' = [spent EXCEPT !.rounds = @ + 1]
  /\ UNCHANGED position

\* An error of the function is lost with its cothread.
EndUnlessError(p, result) ==
  /\ Running(p)
  /\ hook' = [hook EXCEPT ![p] = result]
  /\ queue' = IF result \in Errors THEN queue ELSE Append(queue, p)
  /\ token' = token \cup {p}
  /\ UNCHANGED <<awaited, phase, position, raised, outcome, asked, stopped>>

\* Hook._run(): the result goes to the queue, and the Spawned gets its item.
End(p, result) ==
  /\ Running(p)
  /\ hook' = [hook EXCEPT ![p] = result]
  /\ queue' = Append(queue, p)
  /\ token' = token \cup {p}
  /\ UNCHANGED <<awaited, phase, position, raised, outcome, asked, stopped>>

FunctionReturns(p) ==
  /\ End(p, "ok")
  /\ UNCHANGED <<pending, failed, unasked, spent>>

FunctionFails(p) ==
  /\ spent.faults < MaxFaults
  /\ End(p, "failed")
  /\ failed' = TRUE
  /\ spent' = [spent EXCEPT !.faults = @ + 1]
  /\ UNCHANGED <<pending, unasked>>

\* The function meets the STOP of its context.
FunctionAborts(p) ==
  /\ p \in pending
  /\ End(p, "aborted")
  /\ pending' = pending \ {p}
  /\ UNCHANGED <<failed, unasked, spent>>

\* A child block that the function waits for has been aborted directly.
ChildAborted(p) ==
  /\ ChildAborts
  /\ End(p, "aborted")
  /\ unasked' = unasked \cup {p}
  /\ UNCHANGED <<pending, failed, spent>>

\* The contexts are not told.
StopsNoContext ==
  /\ stopped' = TRUE
  /\ UNCHANGED <<hook, pending, token, queue, awaited, phase, position, raised, outcome,
                 asked, failed, unasked>>

\* Somebody stops the contexts of all parts: abort(), pause() or disable().
Interrupted ==
  /\ pending' = Parts
  /\ asked' = Parts
  /\ stopped' = TRUE
  /\ UNCHANGED <<hook, token, queue, awaited, phase, position, raised, outcome, failed,
                 unasked>>

Interrupt ==
  /\ spent.stops < MaxStops
  /\ spent' = [spent EXCEPT !.stops = @ + 1]
  /\ Interrupted

--------------------------------------------------------------------------------
(***************************************************************************)
(* wait_hooks().                                                           *)
(***************************************************************************)
ReturnHooks(end) ==
  /\ phase' = "Idle"
  /\ outcome' = end
  /\ position' = 0

\* The first part after position i that is not ready(), 0 if there is none:
\* wait() does not block on the others.
NextRunning(i) ==
  LET later == {j \in i + 1 .. Len(Order) : Running(Order[j])}
  IN  IF later = {} THEN 0 ELSE CHOOSE j \in later : \A k \in later : j <= k

\* The error is raised without waiting for the others.
RaiseAtOnce(i, error) == ReturnHooks(error)

\* Waits for the hooks after position i, then raises the error.
CollectFrom(i, error) ==
  IF NextRunning(i) = 0
    THEN ReturnHooks(error)
    ELSE phase' = "Collect" /\ position' = NextRunning(i) /\ UNCHANGED outcome

GetResult ==
  /\ phase = "Get"
  /\ queue # << >>
  /\ hook[Head(queue)] = "ok"
  /\ queue' = Tail(queue)
  /\ awaited' = awaited \ {Head(queue)}
  /\ IF awaited' = {} THEN ReturnHooks("ok") ELSE UNCHANGED <<phase, outcome, position>>
  /\ UNCHANGED <<hook, pending, token, raised, asked, stopped, failed, unasked, spent>>

\* The other hooks go on after an error.
StopsNobody(error) == {}

\* Whom an error stops: everybody, or nobody for an AbortedError.
StoppedBy(error) == IF error = "failed" THEN Hooked ELSE {}

GetError ==
  /\ phase = "Get"
  /\ queue # << >>
  /\ hook[Head(queue)] \in Errors
  /\ LET error == hook[Head(queue)]
     IN  /\ raised' = error
         /\ pending' = pending \cup StoppedBy(error)
         /\ asked' = asked \cup StoppedBy(error)
         /\ CollectFrom(0, error)
  /\ queue' = Tail(queue)
  /\ awaited' = awaited \ {Head(queue)}
  /\ UNCHANGED <<hook, token, stopped, failed, unasked, spent>>

\* The Spawned that Collect is blocked on has ended and gives it the item.
CollectNext ==
  /\ phase = "Collect"
  /\ Order[position] \in token
  /\ token' = token \ {Order[position]}
  /\ CollectFrom(position, raised)
  /\ UNCHANGED <<hook, pending, queue, awaited, raised, asked, stopped, failed, unasked, spent>>

\* Ten seconds without the item: the part was not stopped, is slow, or somebody
\* else who waits for the Spawned has taken it.
MayOutlast(p) ==
  /\ p \notin token
  /\ Running(p) => SlowParts \/ p \notin asked

CollectTimesOut ==
  /\ phase = "Collect"
  /\ MayOutlast(Order[position])
  /\ ReturnHooks("timeout")
  /\ UNCHANGED <<hook, pending, token, queue, awaited, raised, asked, stopped, failed, unasked, spent>>

Function(p) ==
  FunctionReturns(p) \/ FunctionFails(p) \/ FunctionAborts(p) \/ ChildAborted(p)

WaitHooks == GetResult \/ GetError \/ CollectNext \/ CollectTimesOut

Next ==
  \/ StartHooks \/ Interrupt \/ WaitHooks
  \/ \E p \in Parts : Function(p)

Spec == Init /\ [][Next]_hookVars

\* Cothreads are scheduled, and a function that waits on a context with a STOP
\* is woken.  A function that is not stopped may run as long as it likes.
Fairness ==
  /\ WF_hookVars(WaitHooks)
  /\ \A p \in Parts : WF_hookVars(p \in pending /\ Function(p))

FairSpec == Spec /\ Fairness

--------------------------------------------------------------------------------
\* run_hooks() leaves nobody behind: when it returns or raises anything but a
\* TimeoutError, no function of its hooks runs any more.  wait_hooks() takes an
\* AbortedError to mean that all functions have been stopped, so it gives up on none
\* that nobody has told to end, unless a part has raised that error by itself.
NobodyLeftBehind ==
  /\ TypeOK
  /\ outcome \in {"ok"} \cup Errors => \A p \in Parts : ~Running(p)
  /\ outcome = "timeout" => Hooked \subseteq asked \/ unasked # {}

\* A part is aborted by itself or by a STOP of its own hooks, never by one that is
\* left over from an earlier set on the same context.
AbortsAreOurs == \A p \in Parts : hook[p] = "aborted" => p \in asked \cup unasked

\* A function that fails, or a stop from outside, ends the call of run_hooks().
InterruptEnds == (stopped \/ failed) /\ phase # "Idle" ~> phase = "Idle"

Contract == INSTANCE HookSet WITH
  result <- outcome,
  live <- \E p \in Parts : Running(p),
  unasked <- unasked # {}

\* run_hooks() with many parts looks to its caller like one hook.
OneHook == Contract!Spec

================================================================================
