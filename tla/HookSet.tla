------------------------------- MODULE HookSet -------------------------------
(***************************************************************************)
(* What Controller.run_hooks promises to who calls it: a set of hooks runs *)
(* until it ends in one of five ways, and but for a timeout nothing of it  *)
(* runs any more when the call returns.  RunnableController takes this as  *)
(* what it knows about its hooks; Hooks implements it.                     *)
(***************************************************************************)
CONSTANTS
  ChildAborts,  \* whether a part may raise AbortedError unasked
  SlowParts     \* whether a stopped part may outlast the timeout

VARIABLES
  result,   \* of the last set of hooks, "running" until it has ended
  live,     \* whether a function of it runs
  stopped,  \* whether abort() or disable() has stopped it from outside
  failed,   \* whether a function of it has failed
  unasked   \* whether one has raised AbortedError by itself

vars == <<result, live, stopped, failed, unasked>>

Ends == {"ok", "failed", "aborted", "timeout"}

Init ==
  /\ result = "none"
  /\ live = FALSE
  /\ stopped = FALSE
  /\ failed = FALSE
  /\ unasked = FALSE

Begin ==
  /\ result # "running" /\ ~live
  /\ result' = "running"
  /\ live' = TRUE
  /\ stopped' = FALSE
  /\ failed' = FALSE
  /\ unasked' = FALSE

Stop ==
  /\ stopped' = TRUE
  /\ UNCHANGED <<result, live, failed, unasked>>

\* A function fails, the last to run or not.
Fail ==
  /\ live
  /\ failed' = TRUE
  /\ live' \in BOOLEAN
  /\ UNCHANGED <<result, stopped, unasked>>

Abort ==
  /\ ChildAborts
  /\ live
  /\ unasked' = TRUE
  /\ live' \in BOOLEAN
  /\ UNCHANGED <<result, stopped, failed>>

\* The last function ends.
Finish ==
  /\ live
  /\ live' = FALSE
  /\ UNCHANGED <<result, stopped, failed, unasked>>

MayReturn(end) ==
  CASE end = "ok" -> ~live /\ ~failed
    [] end = "failed" -> ~live /\ failed
    [] end = "aborted" -> ~live /\ (stopped \/ unasked)
    [] end = "timeout" -> SlowParts \/ unasked

Return ==
  /\ result = "running"
  /\ \E end \in Ends : MayReturn(end) /\ result' = end
  /\ UNCHANGED <<live, stopped, failed, unasked>>

Next == Begin \/ Stop \/ Fail \/ Abort \/ Finish \/ Return

Spec == Init /\ [][Next]_vars

================================================================================
