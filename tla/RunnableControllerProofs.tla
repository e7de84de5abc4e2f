----------------------- MODULE RunnableControllerProofs -----------------------
(***************************************************************************)
(* What holds of RunnableController for any number of threads, any scans,  *)
(* any number of calls and faults, and whichever of its scope constants    *)
(* are set, so however slow the hooks are and however the requests         *)
(* overlap: the types of the control variables; that a STOP never outlives *)
(* the operation it was meant for; and that a busy block has a thread at   *)
(* work that will take it out of its busy state.                           *)
(***************************************************************************)
EXTENDS RunnableController, SequenceTheorems, WellFoundedInduction, TLAPS

--------------------------------------------------------------------------------
(***************************************************************************)
(* The state set                                                           *)
(***************************************************************************)
\* Both ends of an allowed transition are states of the block.
LEMMA TransitionEnds ==
  \A a, b : TransitionAllowed(a, b) => a \in States /\ b \in States
BY DEF TransitionAllowed, States, PossibleStates

\* The states before create_error_disable_transitions include Resetting.
LEMMA ResettingIsBlockState ==
  "Resetting" \in PossibleStates(RunnableBlockTransitions)
<1>1. <<"Resetting", "Ready">> \in RunnableBlockTransitions
  BY DEF RunnableBlockTransitions, ManagerBlockTransitions,
         StatefulBlockTransitions, SetAllowed
<1> QED BY <1>1 DEF PossibleStates

\* The block starts Disabled (StatefulController.__init__).
LEMMA DisabledIsState == "Disabled" \in States
<1>1. <<"Disabled", "Resetting">> \in RunnableTransitions
  BY DEF RunnableTransitions, WithErrorDisable, SetAllowed
<1> QED BY <1>1 DEF States, PossibleStates

\* go_to_error_state reaches Fault from everywhere but Disabled (and Fault).
LEMMA FaultAllowed ==
  \A s \in States : TransitionAllowed(s, "Fault") \/ s \in {"Disabled", "Fault"}
<1> SUFFICES ASSUME NEW s \in States, s \notin {"Disabled", "Fault"}
             PROVE  <<s, "Fault">> \in RunnableTransitions
  BY DEF TransitionAllowed
<1> DEFINE B == PossibleStates(RunnableBlockTransitions)
<1>1. PICK p \in RunnableTransitions : s = p[1] \/ s = p[2]
  BY DEF States, PossibleStates
<1>2. s \in B \cup {"Fault", "Disabling", "Resetting", "Disabled"}
  <2>1. CASE p \in RunnableBlockTransitions
    BY <1>1, <2>1 DEF PossibleStates
  <2>2. CASE p \notin RunnableBlockTransitions
    BY <1>1, <2>2 DEF RunnableTransitions, WithErrorDisable, SetAllowed
  <2> QED BY <2>1, <2>2
<1>3. CASE s \in B
  BY <1>3 DEF RunnableTransitions, WithErrorDisable, SetAllowed
<1>4. CASE s = "Disabling"
  BY <1>4 DEF RunnableTransitions, WithErrorDisable, SetAllowed
<1> QED BY <1>2, <1>3, <1>4, ResettingIsBlockState

--------------------------------------------------------------------------------
(***************************************************************************)
(* The moves that actions are made of keep the control variables' types    *)
(***************************************************************************)
ThreadTypes ==
  /\ pc \in [Threads -> Phases]
  /\ op \in [Threads -> Operations \cup {"none"}]
  /\ goal \in [Threads -> Goals]

LEMMA StartTypes ==
  ASSUME ThreadTypes, NEW t \in Threads, NEW f \in Operations \cup {"none"},
         NEW g \in Goals, NEW phase \in Phases, NEW l, Start(t, f, g, phase, l)
  PROVE  /\ ThreadTypes'
         /\ pc'[t] = phase /\ op'[t] = f /\ goal'[t] = g
         /\ \A u \in Threads \ {t} :
              pc'[u] = pc[u] /\ op'[u] = op[u] /\ goal'[u] = goal[u]
BY DEF Start, ThreadTypes

LEMMA GotoTypes ==
  ASSUME ThreadTypes, NEW t \in Threads, NEW phase \in Phases, NEW l,
         Goto(t, phase, l)
  PROVE  /\ ThreadTypes'
         /\ pc'[t] = phase /\ op'[t] = op[t] /\ goal'[t] = goal[t]
         /\ \A u \in Threads \ {t} :
              pc'[u] = pc[u] /\ op'[u] = op[u] /\ goal'[u] = goal[u]
BY DEF Goto, Start, ThreadTypes

LEMMA ProceedTypes ==
  ASSUME ThreadTypes, NEW t \in Threads, NEW phase \in Phases, Proceed(t, phase)
  PROVE  /\ ThreadTypes'
         /\ pc'[t] = phase /\ op'[t] = op[t] /\ goal'[t] = goal[t]
         /\ \A u \in Threads \ {t} :
              pc'[u] = pc[u] /\ op'[u] = op[u] /\ goal'[u] = goal[u]
BY GotoTypes DEF Proceed

LEMMA EndTypes ==
  ASSUME ThreadTypes, NEW t \in Threads, End(t)
  PROVE  /\ ThreadTypes'
         /\ pc'[t] = "Idle"
         /\ \A u \in Threads \ {t} :
              pc'[u] = pc[u] /\ op'[u] = op[u] /\ goal'[u] = goal[u]
BY DEF End, Start, ThreadTypes, Phases, Goals

(***************************************************************************)
(* What an operation that ends badly leaves behind                         *)
(***************************************************************************)
EndTyped ==
  /\ state \in States /\ ThreadTypes
  /\ live \subseteq Threads /\ stopped \subseteq Threads
  /\ signalled \subseteq Threads

LEMMA RaiseTypes ==
  ASSUME ControlTypes, NEW t \in Threads, Raise(t)
  PROVE  EndTyped'
<1>1. state' \in States
  BY TransitionEnds DEF Raise, ControlTypes
<1>2. ThreadTypes'
  BY EndTypes DEF Raise, ControlTypes, ThreadTypes
<1> QED BY <1>1, <1>2 DEF Raise, OffShared, ControlTypes, EndTyped

LEMMA OperationAbortedTypes ==
  ASSUME ControlTypes, NEW t \in Threads, OperationAborted(t)
  PROVE  EndTyped'
<1>1. ThreadTypes'
  BY EndTypes DEF OperationAborted, ControlTypes, ThreadTypes
<1> QED BY <1>1 DEF OperationAborted, OffShared, SignalAbort, ControlTypes, EndTyped

LEMMA RunAbortedTypes ==
  ASSUME ControlTypes, NEW t \in Threads, RunAborted(t)
  PROVE  EndTyped'
<1>1. CASE abortQueue = NoThread
  BY <1>1, RaiseTypes DEF RunAborted
<1>2. CASE abortQueue # NoThread
  <2>1. "AwaitResume" \in Phases
    BY DEF Phases
  <2>2. ThreadTypes'
    BY <1>2, <2>1, GotoTypes DEF RunAborted, ControlTypes, ThreadTypes
  <2> QED BY <1>2, <2>2 DEF RunAborted, OffShared, SignalAbort, ControlTypes, EndTyped
<1> QED BY <1>1, <1>2

LEMMA AbortedTypes ==
  ASSUME ControlTypes, NEW t \in Threads, Aborted(t)
  PROVE  EndTyped'
<1>1. RunAborted(t) \/ OperationAborted(t) \/ Raise(t)
  BY DEF Aborted
<1> QED BY <1>1, RunAbortedTypes, OperationAbortedTypes, RaiseTypes

LEMMA RefusedTypes ==
  ASSUME ControlTypes, NEW t \in Threads, NEW s, Refused(t, s)
  PROVE  EndTyped' /\ selfStops' \in Nat
<1>1. CASE selfStops > 0 /\ selfStops' = selfStops - 1 /\ Aborted(t)
  BY <1>1, AbortedTypes DEF ControlTypes
<1>2. CASE UNCHANGED selfStops /\ Raise(t)
  BY <1>2, RaiseTypes DEF ControlTypes
<1> QED BY <1>1, <1>2 DEF Refused

--------------------------------------------------------------------------------
(***************************************************************************)
(* Each handler keeps the types of the control variables                   *)
(***************************************************************************)
LEMMA ConfigureTyped ==
  ASSUME ControlTypes, NEW t \in Threads, ConfigureStep(t)
  PROVE  ControlTypes'
<1>1. CASE ValidateDone(t)
  <2>1. CASE Transition("Configuring") /\ OffShared(t)
              /\ Proceed(t, IF state = "Finished" THEN "ConfigReset" ELSE "ClearContexts")
    <3>1. ThreadTypes'
      BY <2>1, ProceedTypes DEF ControlTypes, ThreadTypes, Phases, HookPhases,
         SharedPhases, FreshPhases
    <3>2. state' \in States
      BY <2>1, TransitionEnds DEF Transition
    <3> QED BY <1>1, <2>1, <3>1, <3>2 DEF ValidateDone, Transition, ControlTypes, ThreadTypes, stops, OffShared
  <2>2. CASE Raise(t)
    BY <1>1, <2>2, RaiseTypes DEF ValidateDone, EndTyped, ControlTypes, ThreadTypes, stops
  <2> QED BY <1>1, <2>1, <2>2 DEF ValidateDone
<1>2. CASE ConfigResetDone(t)
  <2>1. ThreadTypes'
    BY <1>2, ProceedTypes DEF ConfigResetDone, ControlTypes, ThreadTypes, Phases, HookPhases,
       SharedPhases, FreshPhases
  <2> QED BY <1>2, <2>1 DEF ConfigResetDone, ControlTypes, ThreadTypes, stops, OffShared
<1>3. CASE ContextsCleared(t)
  <2>1. ThreadTypes'
    BY <1>3, ProceedTypes DEF ContextsCleared, ControlTypes, ThreadTypes, Phases, HookPhases,
       SharedPhases, FreshPhases
  <2> QED BY <1>3, <2>1 DEF ContextsCleared, ControlTypes, ThreadTypes, stops
<1>4. CASE PreConfigureDone(t)
  <2>1. ThreadTypes'
    BY <1>4, ProceedTypes DEF PreConfigureDone, ControlTypes, ThreadTypes, Phases, HookPhases,
       SharedPhases, FreshPhases
  <2> QED BY <1>4, <2>1 DEF PreConfigureDone, ControlTypes, ThreadTypes, stops, OnShared
<1>5. CASE ScanRejected(t)
  BY <1>5, RaiseTypes DEF ScanRejected, EndTyped, ControlTypes, ThreadTypes, stops
<1>6. CASE ConfigStatusDone(t)
  <2>1. ThreadTypes'
    BY <1>6, GotoTypes DEF ConfigStatusDone, ControlTypes, ThreadTypes, Phases, HookPhases,
       SharedPhases, FreshPhases
  <2> QED BY <1>6, <2>1 DEF ConfigStatusDone, ControlTypes, ThreadTypes, stops, OnShared
<1>7. CASE ConfigureDone(t)
  <2>1. ThreadTypes'
    BY <1>7, ProceedTypes DEF ConfigureDone, ControlTypes, ThreadTypes, Phases, HookPhases,
       SharedPhases, FreshPhases
  <2> QED BY <1>7, <2>1 DEF ConfigureDone, ControlTypes, ThreadTypes, stops, OnShared
<1>8. CASE PostConfigureDone(t)
  <2>1. ThreadTypes'
    BY <1>8, ProceedTypes DEF PostConfigureDone, ControlTypes, ThreadTypes, Phases, HookPhases,
       SharedPhases, FreshPhases
  <2> QED BY <1>8, <2>1 DEF PostConfigureDone, ControlTypes, ThreadTypes, stops, OffShared
<1> QED BY <1>1, <1>2, <1>3, <1>4, <1>5, <1>6, <1>7, <1>8 DEF ConfigureStep

LEMMA RunTyped ==
  ASSUME ControlTypes, NEW t \in Threads, RunStep(t)
  PROVE  ControlTypes'
<1>1. CASE PreRunDone(t)
  <2>1. ThreadTypes'
    BY <1>1, ProceedTypes DEF PreRunDone, ControlTypes, ThreadTypes, Phases, HookPhases,
       SharedPhases, FreshPhases
  <2> QED BY <1>1, <2>1 DEF PreRunDone, ControlTypes, ThreadTypes, stops, OnShared
<1>2. CASE RunDone(t)
  <2>1. ThreadTypes'
    BY <1>2, GotoTypes, ProceedTypes DEF RunDone, NextRunConfigured, ScanOver,
       ControlTypes, ThreadTypes, Phases, HookPhases, SharedPhases
  <2>2. state' \in States
    BY <1>2, TransitionEnds DEF RunDone, Transition
  <2> QED BY <1>2, <2>1, <2>2 DEF RunDone, Transition, ControlTypes, ThreadTypes, stops, OnShared
<1>3. CASE RunRefused(t)
  BY <1>3, RefusedTypes DEF RunRefused, EndTyped, ControlTypes, ThreadTypes, stops
<1>4. CASE RunStatusDone(t)
  <2>1. ThreadTypes'
    BY <1>4, ProceedTypes DEF RunStatusDone, ControlTypes, ThreadTypes, Phases, HookPhases,
       SharedPhases, FreshPhases
  <2> QED BY <1>4, <2>1 DEF RunStatusDone, ControlTypes, ThreadTypes, stops, OnShared
<1>5. CASE PostRunArmedDone(t)
  <2>1. ThreadTypes'
    BY <1>5, ProceedTypes DEF PostRunArmedDone, ControlTypes, ThreadTypes, Phases, HookPhases,
       SharedPhases, FreshPhases
  <2> QED BY <1>5, <2>1 DEF PostRunArmedDone, ControlTypes, ThreadTypes, stops, OffShared
<1>6. CASE PostRunReadyDone(t)
  <2>1. ThreadTypes'
    BY <1>6, ProceedTypes DEF PostRunReadyDone, ControlTypes, ThreadTypes, Phases, HookPhases,
       SharedPhases, FreshPhases
  <2> QED BY <1>6, <2>1 DEF PostRunReadyDone, ControlTypes, ThreadTypes, stops, OffShared
<1>7. CASE Resumed(t)
  <2>1. ThreadTypes'
    BY <1>7, ProceedTypes, EndTypes DEF Resumed, ControlTypes, ThreadTypes, Phases,
       HookPhases, SharedPhases
  <2> QED BY <1>7, <2>1 DEF Resumed, OffShared, ControlTypes, ThreadTypes, stops, OnShared
<1> QED BY <1>1, <1>2, <1>3, <1>4, <1>5, <1>6, <1>7 DEF RunStep

LEMMA AbortTyped ==
  ASSUME ControlTypes, NEW t \in Threads, AbortStep(t)
  PROVE  ControlTypes'
<1>1. CASE AbortAnswered(t)
  <2>1. ThreadTypes'
    BY <1>1, ProceedTypes DEF AbortAnswered, ControlTypes, ThreadTypes, Phases, HookPhases,
       SharedPhases, FreshPhases
  <2> QED BY <1>1, <2>1 DEF AbortAnswered, ControlTypes, ThreadTypes, stops, OffShared, IgnoreStops
<1>2. CASE AbortDone(t)
  <2>1. ThreadTypes'
    BY <1>2, ProceedTypes DEF AbortDone, ControlTypes, ThreadTypes, Phases, HookPhases,
       SharedPhases, FreshPhases
  <2> QED BY <1>2, <2>1 DEF AbortDone, ControlTypes, ThreadTypes, stops, OffShared
<1>3. CASE PauseDone(t)
  <2>1. ThreadTypes'
    BY <1>3, GotoTypes DEF PauseDone, ControlTypes, ThreadTypes, Phases, HookPhases,
       SharedPhases, FreshPhases
  <2> QED BY <1>3, <2>1 DEF PauseDone, ControlTypes, ThreadTypes, stops, OnShared
<1>4. CASE SeekStatusDone(t)
  <2>1. ThreadTypes'
    BY <1>4, ProceedTypes DEF SeekStatusDone, ControlTypes, ThreadTypes, Phases, HookPhases,
       SharedPhases, FreshPhases
  <2> QED BY <1>4, <2>1 DEF SeekStatusDone, ControlTypes, ThreadTypes, stops, OnShared
<1>5. CASE SeekDone(t)
  <2>1. ThreadTypes'
    BY <1>5, ProceedTypes DEF SeekDone, ControlTypes, ThreadTypes, Phases, HookPhases,
       SharedPhases, FreshPhases
  <2> QED BY <1>5, <2>1 DEF SeekDone, ControlTypes, ThreadTypes, stops, OffShared
<1> QED BY <1>1, <1>2, <1>3, <1>4, <1>5 DEF AbortStep

LEMMA DisableTyped ==
  ASSUME ControlTypes, NEW t \in Threads, Disable(t)
  PROVE  ControlTypes'
<1>1. ThreadTypes'
  BY StartTypes DEF Disable, ControlTypes, ThreadTypes, Phases, HookPhases,
     FreshPhases, Operations, Goals
<1>2. state' \in States
  BY TransitionEnds DEF Disable
<1>3. StopHooks \subseteq Threads /\ StopSelf \in Nat
  BY DEF StopHooks, StopSelf, ControlTypes
<1> QED BY <1>1, <1>2, <1>3 DEF Disable, ControlTypes, ThreadTypes

LEMMA EndStepTyped ==
  ASSUME ControlTypes, NEW t \in Threads, EndStep(t)
  PROVE  ControlTypes'
<1>1. CASE Settled(t)
  <2>1. ThreadTypes'
    BY <1>1, EndTypes DEF Settled, ControlTypes, ThreadTypes
  <2>2. state' \in States
    BY <1>1, TransitionEnds DEF Settled
  <2> QED BY <1>1, <2>1, <2>2 DEF Settled, ControlTypes, ThreadTypes, stops, OffShared
<1>2. CASE SettleRefused(t)
  BY <1>2, RefusedTypes DEF SettleRefused, EndTyped, ControlTypes, ThreadTypes, stops
<1>3. CASE StatefulDone(t)
  <2>1. CASE Transition(goal[t]) /\ End(t) /\ OffShared(t)
    <3>1. ThreadTypes'
      BY <2>1, EndTypes DEF ControlTypes, ThreadTypes
    <3>2. state' \in States
      BY <2>1, TransitionEnds DEF Transition
    <3> QED BY <1>3, <2>1, <3>1, <3>2 DEF StatefulDone, Transition, ControlTypes, ThreadTypes, stops, OffShared
  <2>2. CASE Raise(t)
    BY <1>3, <2>2, RaiseTypes DEF StatefulDone, EndTyped, ControlTypes, ThreadTypes, stops
  <2> QED BY <1>3, <2>1, <2>2 DEF StatefulDone
<1>4. CASE HaltDone(t)
  <2>1. CASE Disable(t)
    BY <2>1, DisableTyped
  <2>2. CASE Raise(t) /\ UNCHANGED <<stops, abortQueue>>
    BY <2>2, RaiseTypes DEF EndTyped, ControlTypes, ThreadTypes, stops
  <2> QED BY <1>4, <2>1, <2>2 DEF HaltDone
<1>5. CASE HookFails(t)
  <2>1. CASE Unhandled(t)
    <3>1. ThreadTypes'
      BY <2>1, EndTypes DEF Unhandled, ControlTypes, ThreadTypes
    <3> QED BY <1>5, <2>1, <3>1 DEF HookFails, Unhandled, ControlTypes, ThreadTypes, stops, OffShared
  <2>2. CASE Raise(t)
    BY <1>5, <2>2, RaiseTypes DEF HookFails, EndTyped, ControlTypes, ThreadTypes, stops
  <2> QED BY <1>5, <2>1, <2>2 DEF HookFails
<1>6. CASE HookStopped(t)
  BY <1>6, AbortedTypes, RaiseTypes DEF HookStopped, HooksAborted, EndTyped, ControlTypes, ThreadTypes, stops
<1>7. CASE ChildAborted(t)
  <2>1. CASE Unhandled(t)
    <3>1. ThreadTypes'
      BY <2>1, EndTypes DEF Unhandled, ControlTypes, ThreadTypes
    <3> QED BY <1>7, <2>1, <3>1 DEF ChildAborted, Unhandled, ControlTypes, ThreadTypes, stops, OffShared
  <2>2. CASE HooksAborted(t)
    BY <1>7, <2>2, AbortedTypes, RaiseTypes DEF ChildAborted, HooksAborted, EndTyped, ControlTypes, ThreadTypes, stops
  <2> QED BY <1>7, <2>1, <2>2 DEF ChildAborted
<1> QED BY <1>1, <1>2, <1>3, <1>4, <1>5, <1>6, <1>7 DEF EndStep

LEMMA TryAbortingTyped ==
  ASSUME ControlTypes, NEW t \in Threads, NEW f \in Operations, NEW start,
         NEW end \in Goals, NEW hooks \in Phases, NEW l,
         TryAborting(t, f, start, end, hooks, l)
  PROVE  ControlTypes'
<1>1. ThreadTypes'
  BY StartTypes DEF TryAborting, ControlTypes, ThreadTypes, Phases
<1>2. state' \in States
  BY TransitionEnds DEF TryAborting
<1>3. StopHooks \subseteq Threads /\ StopSelf \in Nat
  BY DEF StopHooks, StopSelf, ControlTypes
<1> QED BY <1>1, <1>2, <1>3 DEF TryAborting, IgnoreStops, ControlTypes, ThreadTypes

LEMMA RequestsTyped ==
  ASSUME ControlTypes, NEW t \in Threads, Requests(t)
  PROVE  ControlTypes'
<1> USE DEF Phases, HookPhases, SharedPhases, FreshPhases, Operations, Goals
<1>1. CASE \E f \in DOMAIN StartState : CallStateful(t, f)
  <2>1. PICK f \in DOMAIN StartState : CallStateful(t, f)
    BY <1>1
  <2>2. f \in Operations /\ EndState[f] \in Goals
    BY DEF StartState, EndState
  <2>3. ThreadTypes'
    <3>1. Start(t, f, EndState[f], "Stateful", NoLocals)
      BY <2>1 DEF CallStateful
    <3> HIDE DEF Phases, Operations, Goals
    <3>2. "Stateful" \in Phases /\ f \in Operations \cup {"none"}
      BY <2>2 DEF Phases
    <3>3. ThreadTypes
      BY DEF ControlTypes, ThreadTypes
    <3> QED BY <2>2, <3>1, <3>2, <3>3, StartTypes
  <2>4. state' \in States
    BY <2>1, TransitionEnds DEF CallStateful, Transition
  <2> QED BY <2>1, <2>3, <2>4
          DEF CallStateful, Transition, OffShared, ControlTypes, ThreadTypes, stops
<1>2. CASE CallDisable(t)
  BY <1>2, DisableTyped DEF CallDisable
<1>3. CASE CallHalt(t)
  <2>1. ThreadTypes'
    BY <1>3, StartTypes DEF CallHalt, ControlTypes, ThreadTypes
  <2> QED BY <1>3, <2>1 DEF CallHalt, OffShared, ControlTypes, ThreadTypes, stops
<1>4. CASE CallConfigure(t)
  <2>1. ThreadTypes'
    BY <1>4, StartTypes DEF CallConfigure, ControlTypes, ThreadTypes
  <2> QED BY <1>4, <2>1 DEF CallConfigure, OffShared, ControlTypes, ThreadTypes, stops
<1>5. CASE CallRun(t)
  <2>1. ThreadTypes'
    BY <1>5, StartTypes DEF CallRun, RunGoal, ControlTypes, ThreadTypes
  <2>2. state' \in States
    BY <1>5, TransitionEnds DEF CallRun, Transition
  <2> QED BY <1>5, <2>1, <2>2
          DEF CallRun, Transition, OnShared, ControlTypes, ThreadTypes, stops
<1>6. CASE CallResume(t)
  <2>1. state' \in States
    BY <1>6, TransitionEnds DEF CallResume
  <2> QED BY <1>6, <2>1 DEF CallResume, ControlTypes, thread, stops
<1>7. CASE CallAbort(t)
  BY <1>7, TryAbortingTyped DEF CallAbort
<1>8. CASE CallPause(t)
  <2>1. PICK n \in PauseArguments :
          TryAborting(t, "pause", "Seeking",
                      IF state \in {"Armed", "Finished"} THEN "Armed" ELSE "Paused",
                      "Pause", [NoLocals EXCEPT !.from = LastGoodStep(n)])
    BY <1>8 DEF CallPause
  <2> DEFINE end == IF state \in {"Armed", "Finished"} THEN "Armed" ELSE "Paused"
             locals == [NoLocals EXCEPT !.from = LastGoodStep(n)]
  <2>2. end \in Goals /\ "pause" \in Operations /\ "Pause" \in Phases
    OBVIOUS
  <2>3. TryAborting(t, "pause", "Seeking", end, "Pause", locals)
    BY <2>1
  <2> HIDE DEF Phases, Operations, Goals, end, locals
  <2> QED BY <2>2, <2>3, TryAbortingTyped
<1> QED BY <1>1, <1>2, <1>3, <1>4, <1>5, <1>6, <1>7, <1>8 DEF Requests

\* The control variables - the state, where every thread is and what it means
\* to do, the STOPs and the two queues' owners - keep their types: in
\* particular every transition ends in a state of the block's state set.
THEOREM ControlTyped == Spec => []ControlTypes
<1>1. Init => ControlTypes
  <2> SUFFICES ASSUME Init PROVE ControlTypes
    OBVIOUS
  <2>1. "Idle" \in Phases /\ "none" \in Goals
    BY DEF Phases, Goals
  <2>2. pc \in [Threads -> Phases] /\ goal \in [Threads -> Goals]
    BY <2>1 DEF Init
  <2>3. op \in [Threads -> Operations \cup {"none"}]
    BY DEF Init
  <2> QED BY <2>2, <2>3, DisabledIsState DEF Init, ControlTypes
<1>2. ControlTypes /\ [Next]_vars => ControlTypes'
  <2> SUFFICES ASSUME ControlTypes, [Next]_vars PROVE ControlTypes'
    OBVIOUS
  <2>1. CASE Next
    <3>1. PICK t \in Threads : Requests(t) \/ Progress(t) \/ Step(t)
      BY <2>1 DEF Next
    <3>2. CASE Requests(t)
      BY <3>2, RequestsTyped
    <3>3. CASE Progress(t)
      BY <3>3 DEF Progress, ControlTypes, thread, stops
    <3>4. CASE Step(t)
      BY <3>4, ConfigureTyped, RunTyped, AbortTyped, EndStepTyped DEF Step
    <3> QED BY <3>1, <3>2, <3>3, <3>4
  <2>2. CASE UNCHANGED vars
    BY <2>2 DEF vars, thread, stops, ControlTypes
  <2> QED BY <2>1, <2>2
<1> QED BY <1>1, <1>2, PTL DEF Spec


--------------------------------------------------------------------------------
(***************************************************************************)
(* One step moves one thread                                               *)
(***************************************************************************)
OnlyMoves(t) ==
  \A u \in Threads \ {t} : pc'[u] = pc[u] /\ op'[u] = op[u] /\ goal'[u] = goal[u]

LEMMA RaiseMoves ==
  ASSUME ControlTypes, NEW t \in Threads, Raise(t)
  PROVE  /\ OnlyMoves(t) /\ pc'[t] = "Idle" /\ stopped' \subseteq stopped
         /\ state' = "Fault" \/ (state' = state /\ state \in {"Disabled", "Fault"})
<1>1. OnlyMoves(t) /\ pc'[t] = "Idle"
  BY EndTypes DEF Raise, OnlyMoves, ControlTypes, ThreadTypes
<1>2. state' = "Fault" \/ (state' = state /\ state \in {"Disabled", "Fault"})
  BY FaultAllowed DEF Raise, ControlTypes
<1> QED BY <1>1, <1>2 DEF Raise, OffShared

\* Where an operation can be after AbortedError
AbortMoves(t) ==
  /\ OnlyMoves(t) /\ stopped' \subseteq stopped
  /\ pc'[t] = "Idle" \/ (pc'[t] = "AwaitResume" /\ op'[t] = "run")
  /\ state' \in {state, "Fault"}

LEMMA AbortedMoves ==
  ASSUME ControlTypes, NEW t \in Threads, Aborted(t)
  PROVE  AbortMoves(t)
<1>1. CASE Raise(t)
  BY <1>1, RaiseMoves DEF AbortMoves
<1>2. CASE OperationAborted(t)
  <2>1. OnlyMoves(t) /\ pc'[t] = "Idle"
    BY <1>2, EndTypes DEF OperationAborted, OnlyMoves, ControlTypes, ThreadTypes
  <2> QED BY <1>2, <2>1 DEF OperationAborted, OffShared, AbortMoves
<1>3. CASE op[t] = "run" /\ RunAborted(t) /\ ~Raise(t)
  <2>1. /\ Goto(t, "AwaitResume", [loc[t] EXCEPT !.queue = Len(resumeQueues)])
        /\ OffShared(t) /\ UNCHANGED state
    BY <1>3 DEF RunAborted
  <2>2. "AwaitResume" \in Phases
    BY DEF Phases
  <2>3. OnlyMoves(t) /\ pc'[t] = "AwaitResume" /\ op'[t] = "run"
    BY <1>3, <2>1, <2>2, GotoTypes DEF OnlyMoves, ControlTypes, ThreadTypes
  <2> QED BY <2>1, <2>3 DEF OffShared, AbortMoves
<1> QED BY <1>1, <1>2, <1>3 DEF Aborted

LEMMA HooksAbortedMoves ==
  ASSUME ControlTypes, NEW t \in Threads, HooksAborted(t)
  PROVE  AbortMoves(t)
<1>1. CASE Raise(t)
  BY <1>1, RaiseMoves DEF AbortMoves
<1> QED BY <1>1, AbortedMoves DEF HooksAborted

\* A transition that is refused costs a STOP, if there is one.
LEMMA RefusedMoves ==
  ASSUME ControlTypes, NEW t \in Threads, NEW s, Refused(t, s)
  PROVE  /\ AbortMoves(t)
         /\ selfStops = 0 => selfStops' = 0 /\ Raise(t)
<1>1. CASE selfStops > 0 /\ Aborted(t)
  BY <1>1, AbortedMoves DEF ControlTypes
<1>2. CASE NotStopped /\ UNCHANGED selfStops /\ Raise(t)
  BY <1>2, RaiseMoves DEF NotStopped, AbortMoves
<1> QED BY <1>1, <1>2 DEF Refused

--------------------------------------------------------------------------------
(***************************************************************************)
(* What a part has let out stays let out                                   *)
(***************************************************************************)
Stays == unasked => unasked'

LEMMA RequestsStay ==
  ASSUME NEW t \in Threads, Requests(t)
  PROVE  Stays
BY DEF Requests, CallStateful, CallDisable, CallHalt, CallConfigure, CallRun,
       CallResume, CallAbort, CallPause, Call, Stays

LEMMA StepsStay ==
  ASSUME NEW t \in Threads, Step(t)
  PROVE  Stays
<1>1. CASE ConfigureStep(t)
  BY <1>1 DEF ConfigureStep, ValidateDone, ConfigResetDone, ContextsCleared,
     PreConfigureDone, ScanRejected, ConfigStatusDone, ConfigureDone,
     PostConfigureDone, env, Stays
<1>2. CASE RunStep(t)
  BY <1>2 DEF RunStep, PreRunDone, RunDone, RunRefused, RunStatusDone,
     PostRunArmedDone, PostRunReadyDone, Resumed, env, Stays
<1>3. CASE AbortStep(t)
  BY <1>3 DEF AbortStep, AbortAnswered, AbortDone, PauseDone, SeekStatusDone,
     SeekDone, env, Stays
<1>4. CASE EndStep(t)
  BY <1>4 DEF EndStep, Settled, SettleRefused, StatefulDone, HaltDone, HookFails,
     HookStopped, ChildAborted, env, Stays
<1> QED BY <1>1, <1>2, <1>3, <1>4 DEF Step

--------------------------------------------------------------------------------
(***************************************************************************)
(* The inductive invariant                                                 *)
(***************************************************************************)
\* What happens here is not disturbed by a STOP on part_contexts[self].
Deaf == {"AwaitAbort", "ConfigReset", "ClearContexts", "Stateful"}

\* A worker that no STOP sent so far will make drop out
GoodWorker(t) ==
  /\ state \in BusyStates /\ WorksOn(t, state) /\ t \notin stopped
  /\ pc[t] \notin Deaf => selfStops = 0

Attended == state \in BusyStates => \E t \in Threads : GoodWorker(t)

\* Where the hooks of a stateful function end, and whose the phases are that
\* start Configuring and PostRun
OpFits(t) ==
  /\ pc[t] = "Stateful" => goal[t] \in {"Ready", "Disabled"}
  /\ pc[t] = "Validate" => op[t] = "configure"
  /\ pc[t] \in {"PreRun", "Run", "AwaitResume"} => op[t] = "run"

OpsFit == \A t \in Threads : OpFits(t)

\* NoStaleStop and BusyHasWorker, strengthened by what the worker may not have
\* coming to it, and by what each thread's operation is.
WorkInv ==
  /\ ControlTypes
  /\ NoStaleStop
  /\ OpsFit
  /\ ~unasked => Attended

Works(f, phase, s) == f \in Owners[s] /\ phase \in WorkerPhases[s]

\* Owners and WorkerPhases, state by state
LEMMA WorkTable ==
  ASSUME NEW f, NEW phase, NEW s \in BusyStates
  PROVE  Works(f, phase, s) <=>
    \/ s = "Configuring" /\ f = "configure" /\ phase \in
         {"ConfigReset", "ClearContexts", "PreConfigure", "ConfigStatus",
          "Configure", "PostConfigure", "Settle"}
    \/ s = "PostRun" /\ f = "run" /\ phase \in
         {"RunStatus", "PostRunArmed", "PostRunReady", "Settle"}
    \/ s = "Seeking" /\ f = "pause" /\ phase \in
         {"AwaitAbort", "Pause", "SeekStatus", "Seek", "Settle"}
    \/ s = "Aborting" /\ f = "abort" /\ phase \in
         {"AwaitAbort", "Abort", "Settle"}
    \/ s = "Resetting" /\ f \in {"init", "reset"} /\ phase = "Stateful"
    \/ s = "Saving" /\ f = "save" /\ phase = "Stateful"
    \/ s = "Loading" /\ f = "load" /\ phase = "Stateful"
    \/ s = "Disabling" /\ f = "disable" /\ phase = "Stateful"
<1>1. s \in {"Configuring", "PostRun", "Seeking", "Aborting", "Resetting",
            "Saving", "Loading", "Disabling"}
  BY DEF BusyStates, Owners
<1> QED BY <1>1 DEF Works, Owners, WorkerPhases

\* The phases of an operation that follow each other in one busy state
PhasePairs ==
  {<<"ConfigReset", "ClearContexts">>, <<"ClearContexts", "PreConfigure">>,
   <<"PreConfigure", "ConfigStatus">>, <<"ConfigStatus", "Configure">>,
   <<"Configure", "PostConfigure">>, <<"PostConfigure", "Settle">>,
   <<"RunStatus", "PostRunArmed">>, <<"PostRunArmed", "Settle">>,
   <<"PostRunReady", "Settle">>, <<"Abort", "Settle">>,
   <<"Pause", "SeekStatus">>, <<"SeekStatus", "Seek">>, <<"Seek", "Settle">>}

LEMMA PhasesFollow ==
  ASSUME NEW f, NEW a, NEW b, NEW s \in BusyStates, Works(f, a, s),
         <<a, b>> \in PhasePairs
  PROVE  Works(f, b, s)
BY WorkTable DEF PhasePairs

\* What no worker of a busy state is in
LEMMA IdleInBusy ==
  ASSUME NEW f, NEW phase \in {"Idle", "Validate", "PreRun", "Run", "AwaitResume", "Halt"},
         NEW s \in BusyStates
  PROVE  ~Works(f, phase, s)
BY WorkTable

\* Who waits on abort_queue, and what comes after
LEMMA AfterAwaitAbort ==
  ASSUME NEW f, NEW s \in BusyStates, Works(f, "AwaitAbort", s)
  PROVE  /\ f = "pause" \/ f = "abort"
         /\ f = "pause" => Works(f, "Pause", s)
         /\ f = "abort" => Works(f, "Abort", s)
<1>1. (s = "Seeking" /\ f = "pause") \/ (s = "Aborting" /\ f = "abort")
  BY WorkTable
<1> QED BY <1>1, WorkTable

LEMMA RestIsNotBusy ==
  /\ \A s \in {"Fault", "Disabled", "Running"} \cup Goals : s \notin BusyStates
  /\ \A s \in {"Configuring", "PostRun", "Seeking", "Aborting", "Resetting",
             "Saving", "Loading", "Disabling"} : s \in BusyStates
BY DEF BusyStates, Owners, Goals

--------------------------------------------------------------------------------
(***************************************************************************)
(* The ways in which a step of one thread keeps the invariant              *)
(***************************************************************************)
LEMMA OtherOpsFit ==
  ASSUME OpsFit, NEW t \in Threads, OnlyMoves(t), OpFits(t)'
  PROVE  OpsFit'
BY DEF OpsFit, OpFits, OnlyMoves

\* The state stays, and so does the worker, whether it is t or another.
LEMMA SameState ==
  ASSUME WorkInv, Stays, ControlTypes', NEW t \in Threads, OnlyMoves(t),
         OpFits(t)', state' = state,
         stopped' \subseteq stopped, selfStops = 0 => selfStops' = 0,
         ~unasked' /\ GoodWorker(t) => GoodWorker(t)'
  PROVE  WorkInv'
<1>1. OpsFit'
  BY OtherOpsFit DEF WorkInv
<1>2. NoStaleStop'
  BY DEF WorkInv, NoStaleStop
<1>3. ASSUME ~unasked' PROVE Attended'
  <2> SUFFICES ASSUME state \in BusyStates PROVE \E u \in Threads : GoodWorker(u)'
    BY DEF Attended
  <2>1. PICK u \in Threads : GoodWorker(u)
    BY <1>3 DEF WorkInv, Attended, Stays
  <2>2. CASE u = t
    BY <1>3, <2>1, <2>2
  <2>3. CASE u # t
    BY <2>1, <2>3 DEF GoodWorker, WorksOn, OnlyMoves
  <2> QED BY <2>2, <2>3
<1> QED BY <1>1, <1>2, <1>3 DEF WorkInv

\* t takes over the block.
LEMMA NewWorker ==
  ASSUME WorkInv, ControlTypes', NEW t \in Threads, OnlyMoves(t),
         OpFits(t)', GoodWorker(t)', NoStaleStop'
  PROVE  WorkInv'
BY OtherOpsFit DEF WorkInv, Attended

\* The block comes to rest, or a run is on.
LEMMA NotBusy ==
  ASSUME WorkInv, ControlTypes', NEW t \in Threads, OnlyMoves(t),
         OpFits(t)', state' \notin BusyStates, NoStaleStop'
  PROVE  WorkInv'
BY OtherOpsFit DEF WorkInv, Attended

LEMMA RaiseKeeps ==
  ASSUME WorkInv, ControlTypes', NEW t \in Threads, Raise(t)
  PROVE  WorkInv'
<1>1. OnlyMoves(t) /\ OpFits(t)' /\ state' \in {"Fault", "Disabled"}
  BY RaiseMoves DEF WorkInv, OpFits
<1>2. NoStaleStop'
  BY <1>1 DEF NoStaleStop
<1> QED BY <1>1, <1>2, RestIsNotBusy, NotBusy

LEMMA AbortedKeeps ==
  ASSUME WorkInv, Stays, ControlTypes', NEW t \in Threads, AbortMoves(t),
         unasked' \/ ~GoodWorker(t), selfStops = 0 => selfStops' = 0
  PROVE  WorkInv'
<1>1. OnlyMoves(t) /\ OpFits(t)' /\ stopped' \subseteq stopped
  BY DEF AbortMoves, OpFits
<1>2. CASE state' = state
  BY <1>1, <1>2, SameState
<1>3. CASE state' = "Fault"
  <2>1. NoStaleStop'
    BY <1>3 DEF NoStaleStop
  <2> QED BY <1>1, <1>3, <2>1, RestIsNotBusy, NotBusy
<1> QED BY <1>2, <1>3 DEF AbortMoves

\* An operation goes on to its next phase, in the state it is in.
LEMMA NextPhase ==
  ASSUME WorkInv, Stays, ControlTypes', NEW t \in Threads, OnlyMoves(t),
         op'[t] = op[t], state' = state, stopped' \subseteq stopped,
         selfStops = 0 => selfStops' = 0, pc'[t] \notin {"Stateful", "Validate"},
         pc'[t] \in {"PreRun", "Run", "AwaitResume"} =>
           pc[t] \in {"PreRun", "Run", "AwaitResume"},
         \/ <<pc[t], pc'[t]>> \in PhasePairs
         \/ pc[t] \in {"Validate", "PreRun", "Run", "AwaitResume", "Halt"},
         pc[t] \in Deaf /\ pc'[t] \notin Deaf => selfStops' = 0
  PROVE  WorkInv'
<1>1. ASSUME ~unasked', GoodWorker(t) PROVE GoodWorker(t)'
  <2>1. state \in BusyStates /\ Works(op[t], pc[t], state)
    BY <1>1 DEF GoodWorker, WorksOn, Works
  <2>2. <<pc[t], pc'[t]>> \in PhasePairs
    BY <2>1, IdleInBusy
  <2>3. Works(op'[t], pc'[t], state')
    BY <2>1, <2>2, PhasesFollow
  <2> QED BY <1>1, <2>1, <2>3 DEF GoodWorker, WorksOn, Works
<1>2. OpFits(t)'
  BY DEF OpFits, WorkInv, OpsFit
<1> QED BY <1>1, <1>2, SameState

--------------------------------------------------------------------------------
(***************************************************************************)
(* Each handler keeps the invariant                                        *)
(***************************************************************************)
LEMMA ConfigureWorks ==
  ASSUME WorkInv, Stays, NEW t \in Threads, ConfigureStep(t)
  PROVE  WorkInv'
<1>0. ControlTypes'
  BY ConfigureTyped DEF WorkInv
<1>1. CASE ValidateDone(t)
  <2>1. CASE /\ Transition("Configuring") /\ OffShared(t)
             /\ Proceed(t, IF state = "Finished" THEN "ConfigReset" ELSE "ClearContexts")
    <3>1. /\ OnlyMoves(t) /\ pc'[t] \in {"ConfigReset", "ClearContexts"}
          /\ op'[t] = op[t]
      BY <2>1, ProceedTypes DEF OnlyMoves, WorkInv, ControlTypes, ThreadTypes,
         Phases, HookPhases, SharedPhases, FreshPhases
    <3>2. op[t] = "configure"
      BY <1>1 DEF ValidateDone, WorkInv, OpsFit, OpFits
    <3>3. state' = "Configuring" /\ t \notin stopped'
      BY <2>1 DEF Transition, OffShared
    <3>4. Works(op'[t], pc'[t], state')
      BY <3>1, <3>2, <3>3, WorkTable, RestIsNotBusy
    <3>5. GoodWorker(t)'
      BY <3>1, <3>3, <3>4, RestIsNotBusy DEF GoodWorker, WorksOn, Works, Deaf
    <3>6. NoStaleStop' /\ OpFits(t)'
      BY <3>1, <3>3 DEF NoStaleStop, OpFits
    <3> QED BY <1>0, <3>1, <3>5, <3>6, NewWorker
  <2>2. CASE Raise(t)
    BY <1>0, <2>2, RaiseKeeps
  <2> QED BY <1>1, <2>1, <2>2 DEF ValidateDone
<1>2. CASE ConfigResetDone(t)
  <2>1. OnlyMoves(t) /\ pc'[t] = "ClearContexts" /\ op'[t] = op[t]
    BY <1>2, ProceedTypes DEF ConfigResetDone, OnlyMoves, WorkInv, ControlTypes, ThreadTypes,
       Phases, HookPhases, SharedPhases, FreshPhases
  <2> QED BY <1>2, <2>1, <1>0, NextPhase DEF ConfigResetDone, OffShared, stops, PhasePairs, Deaf
<1>3. CASE ContextsCleared(t)
  <2>1. OnlyMoves(t) /\ pc'[t] = "PreConfigure" /\ op'[t] = op[t]
    BY <1>3, ProceedTypes DEF ContextsCleared, OnlyMoves, WorkInv, ControlTypes, ThreadTypes,
       Phases, HookPhases, SharedPhases, FreshPhases
  <2> QED BY <1>3, <2>1, <1>0, NextPhase DEF ContextsCleared, OffShared, stops, PhasePairs, Deaf
<1>4. CASE PreConfigureDone(t)
  <2>1. OnlyMoves(t) /\ pc'[t] = "ConfigStatus" /\ op'[t] = op[t]
    BY <1>4, ProceedTypes DEF PreConfigureDone, OnlyMoves, WorkInv, ControlTypes, ThreadTypes,
       Phases, HookPhases, SharedPhases, FreshPhases
  <2> QED BY <1>4, <2>1, <1>0, NextPhase DEF PreConfigureDone, OnShared, stops, PhasePairs, Deaf
<1>5. CASE ScanRejected(t)
  BY <1>0, <1>5, RaiseKeeps DEF ScanRejected
<1>6. CASE ConfigStatusDone(t)
  <2>1. OnlyMoves(t) /\ pc'[t] = "Configure" /\ op'[t] = op[t]
    BY <1>6, GotoTypes DEF ConfigStatusDone, OnlyMoves, WorkInv, ControlTypes, ThreadTypes,
       Phases, HookPhases, SharedPhases, FreshPhases
  <2> QED BY <1>6, <2>1, <1>0, NextPhase DEF ConfigStatusDone, OnShared, stops, PhasePairs, Deaf
<1>7. CASE ConfigureDone(t)
  <2>1. OnlyMoves(t) /\ pc'[t] = "PostConfigure" /\ op'[t] = op[t]
    BY <1>7, ProceedTypes DEF ConfigureDone, OnlyMoves, WorkInv, ControlTypes, ThreadTypes,
       Phases, HookPhases, SharedPhases, FreshPhases
  <2> QED BY <1>7, <2>1, <1>0, NextPhase DEF ConfigureDone, OnShared, stops, PhasePairs, Deaf
<1>8. CASE PostConfigureDone(t)
  <2>1. OnlyMoves(t) /\ pc'[t] = "Settle" /\ op'[t] = op[t]
    BY <1>8, ProceedTypes DEF PostConfigureDone, OnlyMoves, WorkInv, ControlTypes, ThreadTypes,
       Phases, HookPhases, SharedPhases, FreshPhases
  <2> QED BY <1>8, <2>1, <1>0, NextPhase DEF PostConfigureDone, OffShared, stops, PhasePairs, Deaf
<1> QED BY <1>1, <1>2, <1>3, <1>4, <1>5, <1>6, <1>7, <1>8 DEF ConfigureStep

LEMMA RunWorks ==
  ASSUME WorkInv, Stays, NEW t \in Threads, RunStep(t)
  PROVE  WorkInv'
<1>0. ControlTypes'
  BY RunTyped DEF WorkInv
<1>1. CASE PreRunDone(t)
  <2>1. OnlyMoves(t) /\ pc'[t] = "Run" /\ op'[t] = op[t]
    BY <1>1, ProceedTypes DEF PreRunDone, OnlyMoves, WorkInv, ControlTypes, ThreadTypes,
       Phases, HookPhases, SharedPhases, FreshPhases
  <2> QED BY <1>1, <2>1, <1>0, NextPhase DEF PreRunDone, OnShared, stops, PhasePairs, Deaf
<1>2. CASE RunDone(t)
  <2>1. /\ OnlyMoves(t) /\ pc'[t] \in {"RunStatus", "PostRunReady"}
        /\ op'[t] = op[t]
    BY <1>2, GotoTypes, ProceedTypes DEF RunDone, NextRunConfigured, ScanOver,
       OnlyMoves, WorkInv, ControlTypes, ThreadTypes, Phases, HookPhases, SharedPhases, FreshPhases
  <2>2. op[t] = "run"
    BY <1>2 DEF RunDone, WorkInv, OpsFit, OpFits
  <2>3. state' = "PostRun" /\ t \notin stopped' /\ selfStops' = 0
    BY <1>2 DEF RunDone, Transition, OnShared, NotStopped, stops
  <2>4. Works(op'[t], pc'[t], state')
    BY <2>1, <2>2, <2>3, WorkTable, RestIsNotBusy
  <2>5. GoodWorker(t)'
    BY <2>3, <2>4, RestIsNotBusy DEF GoodWorker, WorksOn, Works
  <2>6. NoStaleStop' /\ OpFits(t)'
    BY <2>1, <2>3 DEF NoStaleStop, OpFits
  <2> QED BY <1>0, <2>1, <2>5, <2>6, NewWorker
<1>3. CASE RunRefused(t)
  <2>1. CASE selfStops = 0
    BY <1>0, <1>3, <2>1, RefusedMoves, RaiseKeeps DEF RunRefused, WorkInv
  <2>2. CASE selfStops # 0
    <3>1. ~GoodWorker(t)
      BY <1>3, <2>2, IdleInBusy DEF RunRefused, GoodWorker, WorksOn, Works, Deaf
    <3> QED BY <1>0, <1>3, <2>2, <3>1, RefusedMoves, AbortedKeeps DEF RunRefused, WorkInv
  <2> QED BY <2>1, <2>2
<1>4. CASE RunStatusDone(t)
  <2>1. OnlyMoves(t) /\ pc'[t] = "PostRunArmed" /\ op'[t] = op[t]
    BY <1>4, ProceedTypes DEF RunStatusDone, OnlyMoves, WorkInv, ControlTypes, ThreadTypes,
       Phases, HookPhases, SharedPhases, FreshPhases
  <2> QED BY <1>4, <2>1, <1>0, NextPhase DEF RunStatusDone, OnShared, stops, PhasePairs, Deaf
<1>5. CASE PostRunArmedDone(t)
  <2>1. OnlyMoves(t) /\ pc'[t] = "Settle" /\ op'[t] = op[t]
    BY <1>5, ProceedTypes DEF PostRunArmedDone, OnlyMoves, WorkInv, ControlTypes, ThreadTypes,
       Phases, HookPhases, SharedPhases, FreshPhases
  <2> QED BY <1>5, <2>1, <1>0, NextPhase DEF PostRunArmedDone, OffShared, stops, PhasePairs, Deaf
<1>6. CASE PostRunReadyDone(t)
  <2>1. OnlyMoves(t) /\ pc'[t] = "Settle" /\ op'[t] = op[t]
    BY <1>6, ProceedTypes DEF PostRunReadyDone, OnlyMoves, WorkInv, ControlTypes, ThreadTypes,
       Phases, HookPhases, SharedPhases, FreshPhases
  <2> QED BY <1>6, <2>1, <1>0, NextPhase DEF PostRunReadyDone, OffShared, stops, PhasePairs, Deaf
<1>7. CASE Resumed(t)
  <2>1. CASE Proceed(t, "PreRun") /\ OnShared(t)
    <3>1. OnlyMoves(t) /\ pc'[t] = "PreRun" /\ op'[t] = op[t]
      BY <2>1, ProceedTypes DEF OnlyMoves, WorkInv, ControlTypes, ThreadTypes, Phases, HookPhases, SharedPhases, FreshPhases
    <3> QED BY <1>0, <1>7, <2>1, <3>1, <1>0, NextPhase DEF Resumed, OnShared, stops, Deaf
  <2>2. CASE End(t) /\ OffShared(t)
    <3>1. OnlyMoves(t) /\ pc'[t] = "Idle"
      BY <2>2, EndTypes DEF OnlyMoves, WorkInv, ControlTypes, ThreadTypes
    <3>2. ~GoodWorker(t) /\ OpFits(t)'
      BY <1>7, <3>1, IdleInBusy DEF Resumed, GoodWorker, WorksOn, Works, OpFits
    <3> QED BY <1>0, <1>7, <2>2, <3>1, <3>2, SameState DEF Resumed, OffShared, stops
  <2> QED BY <1>7, <2>1, <2>2 DEF Resumed
<1> QED BY <1>1, <1>2, <1>3, <1>4, <1>5, <1>6, <1>7 DEF RunStep

LEMMA AbortWorks ==
  ASSUME WorkInv, Stays, NEW t \in Threads, AbortStep(t)
  PROVE  WorkInv'
<1>0. ControlTypes'
  BY AbortTyped DEF WorkInv
<1>1. CASE AbortAnswered(t)
  <2>1. /\ OnlyMoves(t) /\ op'[t] = op[t]
        /\ pc'[t] = IF op[t] = "pause" THEN "Pause" ELSE "Abort"
    BY <1>1, ProceedTypes DEF AbortAnswered, OnlyMoves, WorkInv, ControlTypes, ThreadTypes,
       Phases, HookPhases, SharedPhases, FreshPhases
  <2>2. state' = state /\ t \notin stopped' /\ stopped' \subseteq stopped /\ selfStops' = 0
    BY <1>1 DEF AbortAnswered, OffShared, IgnoreStops
  <2>3. ASSUME GoodWorker(t) PROVE Works(op'[t], pc'[t], state')
    <3>1. pc[t] = "AwaitAbort"
      BY <1>1 DEF AbortAnswered
    <3>2. state \in BusyStates /\ Works(op[t], "AwaitAbort", state)
      BY <2>3, <3>1 DEF GoodWorker, WorksOn, Works
    <3>3. CASE op[t] = "pause"
      BY <2>1, <2>2, <3>2, <3>3, AfterAwaitAbort
    <3>4. CASE op[t] = "abort"
      BY <2>1, <2>2, <3>2, <3>4, AfterAwaitAbort
    <3> QED BY <3>2, <3>3, <3>4, AfterAwaitAbort
  <2>4. GoodWorker(t) => GoodWorker(t)'
    BY <2>2, <2>3 DEF GoodWorker, WorksOn, Works
  <2>5. OpFits(t)'
    BY <2>1 DEF OpFits
  <2> QED BY <1>0, <2>1, <2>2, <2>4, <2>5, SameState
<1>2. CASE AbortDone(t)
  <2>1. OnlyMoves(t) /\ pc'[t] = "Settle" /\ op'[t] = op[t]
    BY <1>2, ProceedTypes DEF AbortDone, OnlyMoves, WorkInv, ControlTypes, ThreadTypes,
       Phases, HookPhases, SharedPhases, FreshPhases
  <2> QED BY <1>2, <2>1, <1>0, NextPhase DEF AbortDone, OffShared, stops, PhasePairs, Deaf
<1>3. CASE PauseDone(t)
  <2>1. OnlyMoves(t) /\ pc'[t] = "SeekStatus" /\ op'[t] = op[t]
    BY <1>3, GotoTypes DEF PauseDone, OnlyMoves, WorkInv, ControlTypes, ThreadTypes,
       Phases, HookPhases, SharedPhases, FreshPhases
  <2> QED BY <1>3, <2>1, <1>0, NextPhase DEF PauseDone, OnShared, stops, PhasePairs, Deaf
<1>4. CASE SeekStatusDone(t)
  <2>1. OnlyMoves(t) /\ pc'[t] = "Seek" /\ op'[t] = op[t]
    BY <1>4, ProceedTypes DEF SeekStatusDone, OnlyMoves, WorkInv, ControlTypes, ThreadTypes,
       Phases, HookPhases, SharedPhases, FreshPhases
  <2> QED BY <1>4, <2>1, <1>0, NextPhase DEF SeekStatusDone, OnShared, stops, PhasePairs, Deaf
<1>5. CASE SeekDone(t)
  <2>1. OnlyMoves(t) /\ pc'[t] = "Settle" /\ op'[t] = op[t]
    BY <1>5, ProceedTypes DEF SeekDone, OnlyMoves, WorkInv, ControlTypes, ThreadTypes,
       Phases, HookPhases, SharedPhases, FreshPhases
  <2> QED BY <1>5, <2>1, <1>0, NextPhase DEF SeekDone, OffShared, stops, PhasePairs, Deaf
<1> QED BY <1>1, <1>2, <1>3, <1>4, <1>5 DEF AbortStep

\* disable() takes over, whatever was at work.
LEMMA DisableWorks ==
  ASSUME WorkInv, NEW t \in Threads, Disable(t)
  PROVE  WorkInv'
<1>1. OnlyMoves(t) /\ pc'[t] = "Stateful" /\ op'[t] = "disable" /\ goal'[t] = "Disabled"
  <2>1. Start(t, "disable", "Disabled", "Stateful", NoLocals)
    BY DEF Disable
  <2>2. "Stateful" \in Phases /\ "disable" \in Operations /\ "Disabled" \in Goals
    BY DEF Phases, HookPhases, FreshPhases, Operations, Goals
  <2>3. ThreadTypes
    BY DEF WorkInv, ControlTypes, ThreadTypes
  <2> QED BY <2>1, <2>2, <2>3, StartTypes DEF OnlyMoves
<1>2. state' = "Disabling" /\ t \notin stopped'
  BY DEF Disable
<1>3. Works(op'[t], pc'[t], state')
  BY <1>1, <1>2, WorkTable, RestIsNotBusy
<1>4. GoodWorker(t)'
  BY <1>1, <1>2, <1>3, RestIsNotBusy DEF GoodWorker, WorksOn, Works, Deaf
<1>5. NoStaleStop' /\ OpFits(t)'
  BY <1>1, <1>2 DEF NoStaleStop, OpFits
<1>6. ControlTypes'
  BY DisableTyped DEF WorkInv
<1> QED BY <1>1, <1>4, <1>5, <1>6, NewWorker

LEMMA EndWorks ==
  ASSUME WorkInv, Stays, NEW t \in Threads, EndStep(t)
  PROVE  WorkInv'
<1>0. ControlTypes'
  BY EndStepTyped DEF WorkInv
<1>1. CASE Settled(t)
  <2>1. OnlyMoves(t) /\ OpFits(t)'
    BY <1>1, EndTypes DEF Settled, OnlyMoves, OpFits, WorkInv, ControlTypes, ThreadTypes
  <2>2. state' \notin BusyStates
    BY <1>1, RestIsNotBusy DEF Settled, WorkInv, ControlTypes
  <2>3. NoStaleStop'
    BY <1>1 DEF Settled, NotStopped, NoStaleStop, stops
  <2> QED BY <1>0, <2>1, <2>2, <2>3, NotBusy
<1>2. CASE SettleRefused(t)
  <2>1. CASE selfStops = 0
    BY <1>0, <1>2, <2>1, RefusedMoves, RaiseKeeps DEF SettleRefused, WorkInv
  <2>2. CASE selfStops # 0
    <3>1. ~GoodWorker(t)
      BY <1>2, <2>2 DEF SettleRefused, GoodWorker, Deaf
    <3> QED BY <1>0, <1>2, <2>2, <3>1, RefusedMoves, AbortedKeeps
            DEF SettleRefused, WorkInv
  <2> QED BY <2>1, <2>2
<1>3. CASE StatefulDone(t)
  <2>1. CASE Transition(goal[t]) /\ End(t) /\ OffShared(t)
    <3>1. OnlyMoves(t) /\ OpFits(t)'
      BY <2>1, EndTypes DEF OnlyMoves, OpFits, WorkInv, ControlTypes, ThreadTypes
    <3>2. state' \in {"Ready", "Disabled"}
      BY <1>3, <2>1 DEF StatefulDone, Transition, WorkInv, OpsFit, OpFits
    <3>3. state' \notin BusyStates
      BY <3>2, RestIsNotBusy DEF Goals
    <3>4. NoStaleStop'
      BY <3>2 DEF NoStaleStop
    <3> QED BY <1>0, <3>1, <3>3, <3>4, NotBusy
  <2>2. CASE Raise(t)
    BY <1>0, <2>2, RaiseKeeps
  <2> QED BY <1>3, <2>1, <2>2 DEF StatefulDone
<1>4. CASE HaltDone(t)
  BY <1>0, <1>4, DisableWorks, RaiseKeeps DEF HaltDone
<1> DEFINE Drops == Unhandled(t) /\ pc[t] \in {"Validate", "Halt"} /\ UNCHANGED stops
<1>5. CASE Drops
  <2>1. OnlyMoves(t) /\ pc'[t] = "Idle"
    BY <1>5, EndTypes DEF Unhandled, OnlyMoves, WorkInv, ControlTypes, ThreadTypes
  <2>2. ~GoodWorker(t) /\ OpFits(t)'
    BY <1>5, <2>1, IdleInBusy DEF GoodWorker, WorksOn, Works, OpFits
  <2> QED BY <1>0, <1>5, <2>1, <2>2, SameState DEF Unhandled, OffShared, stops
<1>6. CASE HookFails(t)
  BY <1>0, <1>5, <1>6, RaiseKeeps DEF HookFails
<1>7. CASE HookStopped(t)
  <2>1. AbortMoves(t)
    BY <1>7, HooksAbortedMoves DEF HookStopped, WorkInv
  <2>2. ~GoodWorker(t)
    BY <1>7 DEF HookStopped, GoodWorker
  <2> QED BY <1>0, <1>7, <2>1, <2>2, AbortedKeeps DEF HookStopped, stops
<1>8. CASE ChildAborted(t)
  <2>1. CASE Unhandled(t) /\ pc[t] \in {"Validate", "Halt"}
    BY <1>5, <1>8, <2>1 DEF ChildAborted
  <2>2. CASE HooksAborted(t)
    BY <1>0, <1>8, <2>2, HooksAbortedMoves, AbortedKeeps DEF ChildAborted, WorkInv, stops
  <2> QED BY <1>8, <2>1, <2>2 DEF ChildAborted
<1> QED BY <1>1, <1>2, <1>3, <1>4, <1>6, <1>7, <1>8 DEF EndStep

\* abort() and pause() take over too.
LEMMA TryAbortingWorks ==
  ASSUME WorkInv, NEW t \in Threads, NEW f, NEW start, NEW end \in Goals,
         NEW hooks \in Phases, NEW l,
         \/ f = "abort" /\ start = "Aborting" /\ hooks = "Abort"
         \/ f = "pause" /\ start = "Seeking" /\ hooks = "Pause",
         TryAborting(t, f, start, end, hooks, l)
  PROVE  WorkInv'
<1>0. ControlTypes' /\ f \in Operations /\ "AwaitAbort" \in Phases
  BY TryAbortingTyped DEF WorkInv, Operations, Phases
<1>1. /\ OnlyMoves(t) /\ op'[t] = f
      /\ pc'[t] = "AwaitAbort" \/ (pc'[t] = hooks /\ selfStops' = 0)
  BY <1>0, StartTypes DEF TryAborting, IgnoreStops, OnlyMoves, WorkInv, ControlTypes,
     ThreadTypes
<1>2. state' = start /\ t \notin stopped'
  BY DEF TryAborting
<1>3. Works(op'[t], pc'[t], state')
  BY <1>1, <1>2, WorkTable, RestIsNotBusy
<1>4. GoodWorker(t)'
  BY <1>1, <1>2, <1>3, RestIsNotBusy DEF GoodWorker, WorksOn, Works, Deaf
<1>5. NoStaleStop' /\ OpFits(t)'
  BY <1>1, <1>2 DEF NoStaleStop, OpFits
<1> QED BY <1>0, <1>1, <1>4, <1>5, NewWorker

\* A run can only start or go on where no STOP is left.
LEMMA ToRunning ==
  \A s : TransitionAllowed(s, "Running") => s \in {"Armed", "Paused"}
BY DEF TransitionAllowed, RunnableTransitions, WithErrorDisable, SetAllowed,
       RunnableBlockTransitions, ManagerBlockTransitions, StatefulBlockTransitions

LEMMA RequestsWork ==
  ASSUME WorkInv, Stays, NEW t \in Threads, Requests(t)
  PROVE  WorkInv'
<1>0. ControlTypes'
  BY RequestsTyped DEF WorkInv
<1>a. ControlTypes /\ ThreadTypes
  BY DEF WorkInv, ControlTypes, ThreadTypes
<1>1. ASSUME NEW f \in DOMAIN StartState, CallStateful(t, f)
      PROVE  WorkInv'
  <2>1. /\ f \in Operations /\ EndState[f] = "Ready" /\ "Ready" \in Goals
        /\ "Stateful" \in Phases
    BY DEF StartState, EndState, Operations, Goals, Phases, HookPhases, FreshPhases
  <2>2. Start(t, f, "Ready", "Stateful", NoLocals)
    BY <1>1, <2>1 DEF CallStateful
  <2>3. OnlyMoves(t) /\ pc'[t] = "Stateful" /\ op'[t] = f /\ goal'[t] = "Ready"
    BY <1>a, <2>1, <2>2, StartTypes DEF OnlyMoves
  <2>4. state' = StartState[f] /\ t \notin stopped'
    BY <1>1 DEF CallStateful, Transition, OffShared
  <2>5. /\ state' \in {"Resetting", "Saving", "Loading"}
        /\ Works(op'[t], pc'[t], state')
    BY <2>3, <2>4, WorkTable, RestIsNotBusy DEF StartState
  <2>6. GoodWorker(t)'
    BY <2>3, <2>4, <2>5, RestIsNotBusy DEF GoodWorker, WorksOn, Works, Deaf
  <2>7. NoStaleStop' /\ OpFits(t)'
    BY <2>3, <2>5 DEF NoStaleStop, OpFits
  <2> QED BY <1>0, <2>3, <2>6, <2>7, NewWorker
<1>2. CASE CallDisable(t)
  BY <1>2, DisableWorks DEF CallDisable
<1>b. \A u \in {t} : pc[u] = "Idle" => ~GoodWorker(u)
  BY IdleInBusy DEF GoodWorker, WorksOn, Works
<1>3. CASE CallHalt(t)
  <2>1. OnlyMoves(t) /\ pc'[t] = "Halt"
    <3>1. Start(t, "halt", "none", "Halt", NoLocals)
      BY <1>3 DEF CallHalt
    <3>2. "Halt" \in Phases /\ "halt" \in Operations /\ "none" \in Goals
      BY DEF Phases, HookPhases, FreshPhases, Operations, Goals
    <3> QED BY <1>a, <3>1, <3>2, StartTypes DEF OnlyMoves
  <2>2. OpFits(t)'
    BY <2>1 DEF OpFits
  <2> QED BY <1>0, <1>b, <1>3, <2>1, <2>2, SameState DEF CallHalt, Call, OffShared, stops
<1>4. CASE CallConfigure(t)
  <2>1. OnlyMoves(t) /\ pc'[t] = "Validate" /\ op'[t] = "configure"
    <3>1. PICK s \in Scans :
            Start(t, "configure", "Armed", "Validate", [NoLocals EXCEPT !.scan = s])
      BY <1>4 DEF CallConfigure
    <3> DEFINE locals == [NoLocals EXCEPT !.scan = s]
    <3>2. Start(t, "configure", "Armed", "Validate", locals)
      BY <3>1
    <3>3. "Validate" \in Phases /\ "configure" \in Operations /\ "Armed" \in Goals
      BY DEF Phases, HookPhases, FreshPhases, Operations, Goals
    <3> HIDE DEF locals
    <3> QED BY <1>a, <3>2, <3>3, StartTypes DEF OnlyMoves
  <2>2. OpFits(t)'
    BY <2>1 DEF OpFits
  <2> QED BY <1>0, <1>b, <1>4, <2>1, <2>2, SameState
          DEF CallConfigure, Call, OffShared, stops
<1>5. CASE CallRun(t)
  <2>1. OnlyMoves(t) /\ pc'[t] = "PreRun" /\ op'[t] = "run"
    <3>1. Start(t, "run", RunGoal, "PreRun", NoLocals)
      BY <1>5 DEF CallRun
    <3>2. "PreRun" \in Phases /\ "run" \in Operations /\ RunGoal \in Goals
      BY DEF RunGoal, Phases, HookPhases, SharedPhases, Operations, Goals
    <3> QED BY <1>a, <3>1, <3>2, StartTypes DEF OnlyMoves
  <2>2. state' = "Running" /\ state \in {"Armed", "Paused"} /\ selfStops' = selfStops
    BY <1>5, ToRunning DEF CallRun, Transition, stops
  <2>3. NoStaleStop' /\ OpFits(t)'
    BY <2>1, <2>2 DEF NoStaleStop, OpFits, WorkInv
  <2> QED BY <1>0, <2>1, <2>2, <2>3, RestIsNotBusy, NotBusy
<1>6. CASE CallResume(t)
  <2>1. state' = "Running" /\ state \in {"Armed", "Paused"} /\ selfStops' = selfStops
    BY <1>6, ToRunning DEF CallResume, stops
  <2>2. OnlyMoves(t) /\ OpFits(t)'
    BY <1>6 DEF CallResume, thread, OnlyMoves, OpFits, WorkInv, OpsFit
  <2>3. NoStaleStop'
    BY <2>1 DEF NoStaleStop, WorkInv
  <2> QED BY <1>0, <2>1, <2>2, <2>3, RestIsNotBusy, NotBusy
<1>7. CASE CallAbort(t)
  <2>1. "Aborted" \in Goals /\ "Abort" \in Phases
    BY DEF Goals, Phases, HookPhases, FreshPhases
  <2> QED BY <1>7, <2>1, TryAbortingWorks DEF CallAbort
<1>8. CASE CallPause(t)
  <2>1. PICK n \in PauseArguments :
          TryAborting(t, "pause", "Seeking",
                      IF state \in {"Armed", "Finished"} THEN "Armed" ELSE "Paused",
                      "Pause", [NoLocals EXCEPT !.from = LastGoodStep(n)])
    BY <1>8 DEF CallPause
  <2> DEFINE end == IF state \in {"Armed", "Finished"} THEN "Armed" ELSE "Paused"
             locals == [NoLocals EXCEPT !.from = LastGoodStep(n)]
  <2>2. end \in Goals /\ "Pause" \in Phases
    BY DEF Goals, Phases, HookPhases, FreshPhases
  <2>3. TryAborting(t, "pause", "Seeking", end, "Pause", locals)
    BY <2>1
  <2> HIDE DEF end, locals
  <2> QED BY <2>2, <2>3, TryAbortingWorks
<1> QED BY <1>1, <1>2, <1>3, <1>4, <1>5, <1>6, <1>7, <1>8 DEF Requests

--------------------------------------------------------------------------------
(***************************************************************************)
(* The theorems                                                            *)
(***************************************************************************)
\* The invariant: what was said of the scope is not needed for it.
THEOREM WorkInvariant == Spec => []WorkInv
<1>1. Init => WorkInv
  <2> SUFFICES ASSUME Init PROVE WorkInv
    OBVIOUS
  <2>1. "Idle" \in Phases /\ "none" \in Goals
    BY DEF Phases, Goals
  <2>2. pc \in [Threads -> Phases] /\ goal \in [Threads -> Goals]
    BY <2>1 DEF Init
  <2>3. op \in [Threads -> Operations \cup {"none"}]
    BY DEF Init
  <2>4. ControlTypes
    BY <2>2, <2>3, DisabledIsState DEF Init, ControlTypes
  <2>5. NoStaleStop /\ OpsFit
    BY DEF Init, NoStaleStop, OpsFit, OpFits
  <2>6. state \notin BusyStates
    BY RestIsNotBusy DEF Init
  <2> QED BY <2>4, <2>5, <2>6 DEF WorkInv, Attended
<1>2. WorkInv /\ [Next]_vars => WorkInv'
  <2> SUFFICES ASSUME WorkInv, [Next]_vars PROVE WorkInv'
    OBVIOUS
  <2>1. CASE Next
    <3>1. PICK t \in Threads : Requests(t) \/ Progress(t) \/ Step(t)
      BY <2>1 DEF Next
    <3>2. CASE Progress(t)
      BY <3>2 DEF Progress, thread, stops, env, WorkInv, ControlTypes, NoStaleStop, OpsFit,
         OpFits, Attended, GoodWorker, WorksOn
    <3>3. CASE Step(t)
      BY <3>3, StepsStay, ConfigureWorks, RunWorks, AbortWorks, EndWorks DEF Step
    <3>4. CASE Requests(t)
      BY <3>4, RequestsStay, RequestsWork
    <3> QED BY <3>1, <3>2, <3>3, <3>4
  <2>2. CASE UNCHANGED vars
    BY <2>2 DEF vars, thread, stops, env, WorkInv, ControlTypes, NoStaleStop, OpsFit,
       OpFits, Attended, GoodWorker, WorksOn
  <2> QED BY <2>1, <2>2
<1> QED BY <1>1, <1>2, PTL DEF Spec

\* No STOP sent to part_contexts[self] by an abort(), pause() or disable() is
\* still there when a scan is armed, running, paused or finished: it cannot make
\* the abortable_transition of a later operation raise AbortedError.
THEOREM StopsAreGone == Spec => []NoStaleStop
<1>1. WorkInv => NoStaleStop
  BY DEF WorkInv
<1> QED BY <1>1, WorkInvariant, PTL

\* Until a part lets a child block's AbortedError out, a block in a busy state
\* has a thread at work on it: none of them is left behind by an operation that
\* drops out, whatever fails and whoever aborts or disables it.
THEOREM BusyBlocksHaveWorkers == Spec => []BusyHasWorker
<1>1. WorkInv => BusyHasWorker
  BY DEF WorkInv, Attended, GoodWorker, BusyHasWorker
<1> QED BY <1>1, WorkInvariant, PTL

--------------------------------------------------------------------------------
(***************************************************************************)
(* Who works on a RunnableController, and who waits for whom, for any      *)
(* number of threads, scans and calls: until a part fails or somebody      *)
(* disables the block, at most one thread acts, at most one waits for it   *)
(* to stop, and at most one run() waits to be resumed.  The scope is that  *)
(* hooks stop in time and that no call comes in the two windows that       *)
(* OverlapConfigure and OverlapPause open.                                 *)
(***************************************************************************)

Scope == SlowHooks = FALSE /\ OverlapConfigure = FALSE /\ OverlapPause = FALSE

\* No part has failed, nobody has disabled or halted the block.
Undisturbed ==
  /\ faults = 0
  /\ budget["disable"] = Calls["disable"] /\ budget["halt"] = Calls["halt"]

--------------------------------------------------------------------------------
(***************************************************************************)
(* The roles                                                               *)
(***************************************************************************)
Queue(t) == resumeQueues[loc[t].queue]
LastQueue == resumeQueues[Len(resumeQueues)]

\* A run() that is about to go on
Resuming(t) == pc[t] = "AwaitResume" /\ Queue(t) # << >> /\ Head(Queue(t))

\* The thread at work; a run() that was told to drop out is none,
Acts(t) == pc[t] \notin {"Idle", "AwaitAbort", "AwaitResume"} \/ Resuming(t)

\* the one that waits for it to stop.  Waiting(t) is the run() to be resumed.
Awaits(t) == pc[t] = "AwaitAbort"
Awaited == \E a \in Threads : Awaits(a)

\* The phases of an operation and the state that it means to end in
Placed(t) ==
  \/ pc[t] = "Idle"
  \/ /\ op[t] = "configure" /\ goal[t] = "Armed"
     /\ pc[t] \in {"Validate", "ConfigReset", "ClearContexts", "PreConfigure",
                   "ConfigStatus", "Configure", "PostConfigure", "Settle"}
  \/ /\ op[t] = "run" /\ goal[t] \in {"Armed", "Finished"}
     /\ pc[t] \in {"PreRun", "Run", "AwaitResume", "RunStatus", "PostRunArmed",
                   "PostRunReady", "Settle"}
  \/ /\ op[t] = "pause" /\ goal[t] \in {"Armed", "Paused"}
     /\ pc[t] \in {"AwaitAbort", "Pause", "SeekStatus", "Seek", "Settle"}
  \/ /\ op[t] = "abort" /\ goal[t] = "Aborted"
     /\ pc[t] \in {"AwaitAbort", "Abort", "Settle"}
  \/ /\ op[t] \in {"init", "reset", "save", "load"} /\ goal[t] = "Ready"
     /\ pc[t] = "Stateful"

InRun(t) == op[t] = "run" /\ pc[t] \in {"PreRun", "Run", "AwaitResume"}

\* The state that a thread at work keeps the block in
AtHome(t) ==
  \/ pc[t] = "Validate" /\ state \in {"Ready", "Finished"}
  \/ pc[t] = "Stateful" /\ state \in {"Resetting", "Saving", "Loading"}
  \/ op[t] = "configure" /\ pc[t] # "Validate" /\ state = "Configuring"
  \/ InRun(t) /\ state = "Running"
  \/ op[t] = "run" /\ ~InRun(t) /\ state = "PostRun"
  \/ op[t] = "pause" /\ state = "Seeking"
  \/ op[t] = "abort" /\ state = "Aborting"

Unready(t) == pc[t] \in {"Validate", "ConfigReset", "ClearContexts"}

\* Where abort() can find a thread at work
Interruptible(t) == ~Unready(t) /\ pc[t] # "Stateful" /\ op[t] # "abort"

\* Where pause() and abort() can find one
Interrupted(t) == IF state = "Seeking" THEN InRun(t) ELSE Interruptible(t)

--------------------------------------------------------------------------------
(***************************************************************************)
(* The inductive invariant                                                 *)
(***************************************************************************)
QueuesTyped ==
  /\ resumeQueues \in Seq(Seq(BOOLEAN))
  /\ loc = [t \in Threads |-> loc[t]]
  /\ \A t \in Threads : "queue" \in DOMAIN loc[t]

AllPlaced == state # "Fault" /\ \A t \in Threads : Placed(t)

OneActs == \A t, u \in Threads : Acts(t) /\ Acts(u) => t = u

\* Who waits for an answer is who abort_queue is for.
AwaitersFit ==
  \A a \in Threads : Awaits(a) =>
    /\ abortQueue = a
    /\ \/ op[a] = "abort" /\ state = "Aborting"
       \/ op[a] = "pause" /\ state = "Seeking" /\ goal[a] = "Paused"

\* The thread at work is the one of the state, or is being interrupted.
ActorsFit ==
  \A t \in Threads : Acts(t) => IF Awaited THEN Interrupted(t) ELSE AtHome(t)

\* Somebody works in each state that is not one of rest, and a run() waits in or
\* for each pause but that of a scan that was not running.
SomebodyActs ==
  /\ state \in {"Configuring", "Running", "PostRun", "Resetting", "Saving", "Loading"}
       => \E t \in Threads : Acts(t)
  /\ state \in {"Seeking", "Aborting"} => \E t \in Threads : Acts(t) \/ Awaits(t)
  /\ state = "Paused" => \E t \in Threads : Waiting(t)
  /\ \A t \in Threads : op[t] = "pause" /\ goal[t] = "Paused" /\ Acts(t)
       => \E u \in Threads : Waiting(u)
  /\ \A t \in Threads : op[t] = "pause" /\ Awaits(t)
       => \E u \in Threads : Acts(u) \/ Waiting(u)

\* A run() waits only in a scan that is paused, being paused or being aborted.
WaitersFit ==
  /\ \A t \in Threads : Waiting(t) => state \in {"Seeking", "Paused", "Aborting"}
  /\ \A t, u \in Threads : Waiting(t) /\ Acts(u)
       => op[u] = "abort" \/ (op[u] = "pause" /\ goal[u] = "Paused")

\* Whoever reads a resume_queue is alone with it; only the last is in use.
ReadersFit ==
  /\ \A t \in Threads : pc[t] = "AwaitResume" =>
       /\ loc[t].queue \in 1 .. Len(resumeQueues)
       /\ Waiting(t) => loc[t].queue = Len(resumeQueues)
       /\ Resuming(t) => loc[t].queue = Len(resumeQueues) /\ LastQueue = <<TRUE>>
  /\ \A t, u \in Threads :
       pc[t] = "AwaitResume" /\ pc[u] = "AwaitResume" /\ t # u => loc[t].queue # loc[u].queue

UsesQueue(t) == op[t] \in {"run", "pause"} \/ (op[t] = "configure" /\ pc[t] = "Settle")

\* The queue in use has nothing in it but what lets a run() go on.
QueueIsClear ==
  \/ state \in {"Armed", "Paused", "Finished", "Running", "PostRun", "Seeking"}
  \/ \E t \in Threads : Acts(t) /\ UsesQueue(t)
  => /\ resumeQueues # << >>
     /\ LastQueue = << >> \/ \E t \in Threads : Resuming(t)

\* STOPs are for a thread at work that somebody waits for; it is answered only
\* when nobody is at work any more.
StopsFit ==
  /\ selfStops > 0 => Awaited
  /\ \A t \in Threads : Awaited /\ Acts(t) => selfStops > 0
  /\ stopped # {} => Awaited
  /\ \A t \in live \cup stopped : pc[t] \in SharedPhases
  /\ \A a \in signalled : Awaits(a) /\ \A t \in Threads : ~Acts(t)

\* Before the first configure() there are no contexts to stop.
ContextsFit ==
  ~contexts =>
    /\ ~Awaited
    /\ state \in {"Disabled", "Resetting", "Ready", "Saving", "Loading",
                  "Configuring", "Aborting", "Aborted"}
    /\ \A t \in Threads : Acts(t) /\ op[t] = "configure" => Unready(t)

Roles ==
  /\ QueuesTyped /\ AllPlaced /\ OneActs /\ AwaitersFit /\ ActorsFit /\ SomebodyActs
  /\ WaitersFit /\ ReadersFit /\ QueueIsClear /\ StopsFit /\ ContextsFit

BudgetFits ==
  /\ faults \in Nat
  /\ \A f \in Operations : budget[f] \in Nat /\ budget[f] <= Calls[f]
  /\ DOMAIN budget = Operations

RolesFit == BudgetFits /\ (Undisturbed => Roles)

--------------------------------------------------------------------------------
(***************************************************************************)
(* One step moves one thread                                               *)
(***************************************************************************)
Alone(t) ==
  /\ \A u \in Threads \ {t} : /\ pc'[u] = pc[u] /\ op'[u] = op[u]
                              /\ goal'[u] = goal[u] /\ loc'[u] = loc[u]
  /\ loc' = [u \in Threads |-> loc'[u]]

LEMMA Lands ==
  ASSUME ControlTypes, QueuesTyped, NEW t \in Threads,
         NEW f, NEW end, NEW phase, NEW locals, Start(t, f, end, phase, locals)
  PROVE  /\ Alone(t)
         /\ pc'[t] = phase /\ op'[t] = f /\ goal'[t] = end /\ loc'[t] = locals
<1>1. /\ pc' = [pc EXCEPT ![t] = phase] /\ op' = [op EXCEPT ![t] = f]
      /\ goal' = [goal EXCEPT ![t] = end] /\ loc' = [loc EXCEPT ![t] = locals]
  BY DEF Start
<1>2. DOMAIN pc = Threads /\ DOMAIN op = Threads /\ DOMAIN goal = Threads
  BY DEF ControlTypes
<1>3. DOMAIN loc = Threads
  BY DEF QueuesTyped
<1>4. loc' = [u \in Threads |-> loc'[u]]
  BY <1>1, <1>3
<1> QED BY <1>1, <1>2, <1>3, <1>4 DEF Alone

LEMMA Idles ==
  ASSUME ControlTypes, QueuesTyped, NEW t \in Threads, End(t)
  PROVE  /\ Alone(t) /\ pc'[t] = "Idle"
         /\ op'[t] = "none" /\ goal'[t] = "none" /\ "queue" \in DOMAIN loc'[t]
<1>1. "queue" \in DOMAIN NoLocals
  BY DEF NoLocals
<1>2. Start(t, "none", "none", "Idle", NoLocals)
  BY DEF End
<1> HIDE DEF NoLocals
<1> QED BY <1>1, <1>2, Lands

\* Threads keep the role they have while others move and nothing is read.
LEMMA Others ==
  ASSUME NEW t \in Threads, Alone(t), NEW u \in Threads \ {t}, resumeQueues' = resumeQueues
  PROVE  /\ Queue(u)' = Queue(u)
         /\ Acts(u)' <=> Acts(u)
         /\ Awaits(u)' <=> Awaits(u)
         /\ Waiting(u)' <=> Waiting(u)
         /\ Resuming(u)' <=> Resuming(u)
<1>1. pc'[u] = pc[u] /\ loc'[u] = loc[u]
  BY DEF Alone
<1>2. Queue(u)' = Queue(u)
  BY <1>1 DEF Queue
<1>3. Resuming(u)' <=> Resuming(u)
  BY <1>1, <1>2 DEF Resuming
<1> QED BY <1>1, <1>2, <1>3 DEF Acts, Awaits, Waiting, Queue

\* and what fits them.
LEMMA OthersFit ==
  ASSUME NEW t \in Threads, Alone(t), NEW u \in Threads \ {t}
  PROVE  /\ Placed(u)' <=> Placed(u)
         /\ UsesQueue(u)' <=> UsesQueue(u)
         /\ Unready(u)' <=> Unready(u)
         /\ InRun(u)' <=> InRun(u)
         /\ Interruptible(u)' <=> Interruptible(u)
<1>1. pc'[u] = pc[u] /\ op'[u] = op[u] /\ goal'[u] = goal[u]
  BY DEF Alone
<1> QED BY <1>1 DEF Placed, UsesQueue, Unready, InRun, Interruptible

\* The thread at work goes on to its next phase.
LEMMA GoesOn ==
  ASSUME ControlTypes, Roles, NEW t \in Threads, Alone(t),
         Acts(t), pc[t] # "AwaitResume", pc'[t] \notin {"Idle", "AwaitAbort", "AwaitResume"},
         op'[t] = op[t], goal'[t] = goal[t], Placed(t)', "queue" \in DOMAIN loc'[t],
         Interrupted(t) => Interrupted(t)', AtHome(t) => AtHome(t)',
         UsesQueue(t)' => UsesQueue(t), op[t] = "configure" /\ Unready(t) => Unready(t)',
         UNCHANGED <<state, contexts, selfStops, abortQueue, signalled, resumeQueues>>,
         live' \subseteq live \cup {t}, stopped' \subseteq stopped \ {t},
         t \in live' => pc'[t] \in SharedPhases
  PROVE  Roles'
<1> USE DEF Roles
<1>1. \A u \in Threads \ {t} : /\ Acts(u)' <=> Acts(u)
                               /\ Awaits(u)' <=> Awaits(u)
                               /\ Waiting(u)' <=> Waiting(u)
                               /\ Resuming(u)' <=> Resuming(u)
  BY Others
<1>2. Acts(t)' /\ ~Awaits(t) /\ ~Awaits(t)' /\ ~Waiting(t) /\ ~Waiting(t)'
      /\ ~Resuming(t) /\ ~Resuming(t)'
  BY DEF Acts, Awaits, Waiting, Resuming
<1>3. \A u \in Threads : /\ Acts(u)' <=> Acts(u)
                         /\ Awaits(u)' <=> Awaits(u)
                         /\ Waiting(u)' <=> Waiting(u)
                         /\ Resuming(u)' <=> Resuming(u)
  BY <1>1, <1>2
<1>4. Awaited' <=> Awaited
  BY <1>3 DEF Awaited
<1>5. \A u \in Threads : op'[u] = op[u] /\ goal'[u] = goal[u]
  BY DEF Alone
<1>6. \A u \in Threads \ {t} : pc'[u] = pc[u] /\ loc'[u] = loc[u]
  BY DEF Alone
<1>7. QueuesTyped'
  BY <1>6 DEF QueuesTyped, Alone
<1>8. AllPlaced'
  BY OthersFit DEF AllPlaced
<1>9. OneActs'
  BY <1>3 DEF OneActs
<1>10. AwaitersFit'
  BY <1>3, <1>5 DEF AwaitersFit
<1>11. ActorsFit'
  <2>1. ASSUME NEW u \in Threads, Acts(u)' PROVE u = t
    BY <1>3, <2>1 DEF OneActs
  <2>2. IF Awaited' THEN Interrupted(t)' ELSE AtHome(t)'
    BY <1>4 DEF ActorsFit
  <2> QED BY <2>1, <2>2 DEF ActorsFit
<1>12. SomebodyActs'
  BY <1>3, <1>5 DEF SomebodyActs
<1>13. WaitersFit'
  BY <1>3, <1>5 DEF WaitersFit
<1>14. ReadersFit'
  BY <1>3, <1>6 DEF ReadersFit, LastQueue
<1>15. QueueIsClear'
  <2>1. \A u \in Threads : UsesQueue(u)' => UsesQueue(u)
    BY OthersFit
  <2> QED BY <1>3, <2>1 DEF QueueIsClear, LastQueue
<1>16. StopsFit'
  <2>1. live \subseteq Threads /\ stopped \subseteq Threads /\ signalled \subseteq Threads
    BY DEF ControlTypes
  <2>2. \A u \in live' \cup stopped' : pc'[u] \in SharedPhases
    BY <1>6, <2>1 DEF StopsFit
  <2> QED BY <1>3, <1>4, <2>1, <2>2 DEF StopsFit
<1>17. ContextsFit'
  <2>1. \A u \in Threads : op[u] = "configure" /\ Unready(u) => Unready(u)'
    BY OthersFit
  <2> QED BY <1>3, <1>4, <1>5, <2>1 DEF ContextsFit
<1> QED BY <1>7, <1>8, <1>9, <1>10, <1>11, <1>12, <1>13, <1>14, <1>15, <1>16, <1>17
\* Threads keep the role they have, too, while what they read stays as it is.
LEMMA OthersRead ==
  ASSUME NEW t \in Threads, Alone(t), NEW u \in Threads \ {t},
         pc[u] = "AwaitResume" => resumeQueues'[loc[u].queue] = Queue(u)
  PROVE  /\ Acts(u)' <=> Acts(u)
         /\ Awaits(u)' <=> Awaits(u)
         /\ Waiting(u)' <=> Waiting(u)
         /\ Resuming(u)' <=> Resuming(u)
<1>1. pc'[u] = pc[u] /\ loc'[u] = loc[u]
  BY DEF Alone
<1>2. pc[u] = "AwaitResume" => Queue(u)' = Queue(u)
  BY <1>1 DEF Queue
<1>3. Resuming(u)' <=> Resuming(u)
  BY <1>1, <1>2 DEF Resuming
<1>4. Waiting(u)' <=> Waiting(u)
  BY <1>1, <1>2 DEF Waiting, Queue
<1> QED BY <1>1, <1>3, <1>4 DEF Acts, Awaits

\* What each step has to show of the thread that it moves, whatever the others do.
LEMMA Typed ==
  ASSUME QueuesTyped, AllPlaced, NEW t \in Threads, Alone(t), "queue" \in DOMAIN loc'[t],
         Placed(t)', resumeQueues' \in Seq(Seq(BOOLEAN)), state' # "Fault"
  PROVE  QueuesTyped' /\ AllPlaced'
<1>1. QueuesTyped'
  BY DEF QueuesTyped, Alone
<1>2. AllPlaced'
  BY OthersFit DEF AllPlaced
<1> QED BY <1>1, <1>2

\* The transitions that each operation makes are allowed.
LEMMA Allowed ==
  /\ TransitionAllowed("Ready", "Configuring") /\ TransitionAllowed("Finished", "Configuring")
  /\ TransitionAllowed("Configuring", "Armed") /\ TransitionAllowed("Running", "PostRun")
  /\ TransitionAllowed("PostRun", "Armed") /\ TransitionAllowed("PostRun", "Finished")
  /\ TransitionAllowed("Seeking", "Armed") /\ TransitionAllowed("Seeking", "Paused")
  /\ TransitionAllowed("Aborting", "Aborted") /\ TransitionAllowed("Resetting", "Ready")
  /\ TransitionAllowed("Saving", "Ready") /\ TransitionAllowed("Loading", "Ready")
BY DEF TransitionAllowed, RunnableTransitions, WithErrorDisable, RunnableBlockTransitions,
       ManagerBlockTransitions, StatefulBlockTransitions, NormalStates, SetAllowed

\* A thread that is not to be interrupted is awaited by nobody.
LEMMA Unawaited ==
  ASSUME ControlTypes, Roles, NEW t \in Threads, Acts(t),
         ~Interruptible(t) \/ NotStopped
  PROVE  ~Awaited /\ AtHome(t) /\ selfStops = 0 /\ signalled = {} /\ stopped = {}
<1>1. ~Awaited
  <2>1. CASE NotStopped
    BY <2>1 DEF NotStopped, Roles, StopsFit
  <2>2. CASE ~Interruptible(t)
    <3>1. ~Interrupted(t)
      <4>1. InRun(t) => Interruptible(t)
        BY DEF InRun, Interruptible, Unready
      <4> QED BY <2>2, <4>1 DEF Interrupted
    <3> QED BY <3>1 DEF Roles, ActorsFit
  <2> QED BY <2>1, <2>2
<1>2. selfStops = 0
  BY <1>1 DEF Roles, StopsFit, ControlTypes
<1>3. signalled = {}
  BY <1>1 DEF Roles, StopsFit, ControlTypes, Awaited
<1> QED BY <1>1, <1>2, <1>3 DEF Roles, ActorsFit, StopsFit

\* Nobody else is at work, and nobody else's hooks.
LEMMA NoOther ==
  ASSUME ControlTypes, Roles, NEW t \in Threads, Acts(t)
  PROVE  /\ \A u \in Threads \ {t} : ~Acts(u) /\ ~Resuming(u)
         /\ live \subseteq {t} /\ stopped \subseteq {t}
<1>1. \A u \in Threads \ {t} : ~Acts(u)
  BY DEF Roles, OneActs
<1>2. \A u \in live \cup stopped : u \in Threads /\ Acts(u)
  BY DEF Roles, StopsFit, ControlTypes, SharedPhases, Acts
<1> QED BY <1>1, <1>2 DEF Acts
\* The thread at work, awaited by nobody, goes on into or in Configuring or PostRun.
LEMMA MovesOn ==
  ASSUME ControlTypes, Roles, NEW t \in Threads, Alone(t),
         Acts(t), pc[t] # "AwaitResume", pc'[t] \notin {"Idle", "AwaitAbort", "AwaitResume"},
         op'[t] = op[t], goal'[t] = goal[t], op[t] # "pause",
         Placed(t)', "queue" \in DOMAIN loc'[t],
         ~Awaited, \A u \in Threads : ~Waiting(u), AtHome(t)',
         state' \in {"Configuring", "PostRun"},
         state' = "PostRun" \/ UsesQueue(t)' => resumeQueues # << >> /\ LastQueue = << >>,
         ~contexts' => state' = "Configuring" /\ Unready(t)',
         selfStops' = 0, UNCHANGED <<signalled, resumeQueues>>,
         live' \subseteq {t}, stopped' = {}, t \in live' => pc'[t] \in SharedPhases
  PROVE  Roles'
<1> USE DEF Roles
<1>1. \A u \in Threads \ {t} : /\ Acts(u)' <=> Acts(u)
                               /\ Awaits(u)' <=> Awaits(u)
                               /\ Waiting(u)' <=> Waiting(u)
                               /\ Resuming(u)' <=> Resuming(u)
  BY Others
<1>2. Acts(t)' /\ ~Awaits(t)' /\ ~Waiting(t)' /\ ~Resuming(t)'
  BY DEF Acts, Awaits, Waiting, Resuming
<1>3. \A u \in Threads \ {t} : ~Acts(u)' /\ ~Resuming(u)'
  BY <1>1, NoOther
<1>4. \A u \in Threads : ~Awaits(u)' /\ ~Waiting(u)' /\ ~Resuming(u)'
  BY <1>1, <1>2, <1>3 DEF Awaited
<1>5. ~Awaited'
  BY <1>4 DEF Awaited
<1>6. QueuesTyped' /\ AllPlaced'
  BY Typed DEF QueuesTyped
<1>7. OneActs'
  BY <1>3 DEF OneActs
<1>8. AwaitersFit' /\ WaitersFit'
  BY <1>4 DEF AwaitersFit, WaitersFit
<1>9. ActorsFit'
  BY <1>3, <1>5 DEF ActorsFit
<1>10. SomebodyActs'
  BY <1>2, <1>3, <1>4 DEF SomebodyActs
<1>11. ReadersFit'
  <2>1. \A u \in Threads : pc'[u] = "AwaitResume" =>
           u # t /\ pc[u] = "AwaitResume" /\ loc'[u] = loc[u]
    BY DEF Alone
  <2> QED BY <1>4, <2>1 DEF ReadersFit
<1>12. QueueIsClear'
  <2>1. \A u \in Threads : Acts(u)' /\ UsesQueue(u)' => UsesQueue(t)'
    BY <1>3
  <2> QED BY <2>1 DEF QueueIsClear, LastQueue
<1>13. StopsFit'
  <2>1. signalled' = {}
    BY DEF StopsFit, Awaited, ControlTypes
  <2> QED BY <1>5, <2>1 DEF StopsFit
<1>14. ContextsFit'
  BY <1>3, <1>5 DEF ContextsFit
<1> QED BY <1>6, <1>7, <1>8, <1>9, <1>10, <1>11, <1>12, <1>13, <1>14

\* The thread at work, awaited by nobody, is done: the block rests.
LEMMA Rests ==
  ASSUME ControlTypes, Roles, NEW t \in Threads, End(t),
         Acts(t), pc[t] # "AwaitResume", ~Awaited, selfStops = 0, stopped = {},
         state' \in {"Ready", "Armed", "Paused", "Finished"},
         (\E u \in Threads : Waiting(u)) <=> state' = "Paused",
         state' # "Ready" => contexts /\ UsesQueue(t),
         UNCHANGED <<resumeQueues, contexts, selfStops, signalled>>,
         live' \subseteq live \ {t}, stopped' \subseteq stopped,
         contexts \/ state' = "Ready"
  PROVE  Roles'
<1> USE DEF Roles
<1>1. /\ Alone(t) /\ pc'[t] = "Idle" /\ op'[t] = "none" /\ goal'[t] = "none"
      /\ "queue" \in DOMAIN loc'[t]
  BY Idles
<1>2. \A u \in Threads \ {t} : /\ Acts(u)' <=> Acts(u)
                               /\ Awaits(u)' <=> Awaits(u)
                               /\ Waiting(u)' <=> Waiting(u)
                               /\ Resuming(u)' <=> Resuming(u)
  BY <1>1, Others
<1>3. ~Acts(t)' /\ ~Awaits(t)' /\ ~Waiting(t)' /\ ~Resuming(t)' /\ ~Waiting(t) /\ ~Resuming(t)
  BY <1>1 DEF Acts, Awaits, Waiting, Resuming
<1>4. \A u \in Threads : ~Acts(u)' /\ ~Resuming(u)' /\ ~Resuming(u)
  BY <1>2, <1>3, NoOther
<1>5. \A u \in Threads : ~Awaits(u)' /\ (Waiting(u)' <=> Waiting(u))
  BY <1>2, <1>3 DEF Awaited
<1>6. ~Awaited'
  BY <1>5 DEF Awaited
<1>7. QueuesTyped' /\ AllPlaced'
  <2>1. Placed(t)'
    BY <1>1 DEF Placed
  <2> QED BY <1>1, <2>1, Typed DEF QueuesTyped
<1>8. OneActs' /\ ActorsFit'
  BY <1>4 DEF OneActs, ActorsFit
<1>9. AwaitersFit'
  BY <1>5 DEF AwaitersFit
<1>10. SomebodyActs'
  BY <1>4, <1>5 DEF SomebodyActs
<1>11. WaitersFit'
  BY <1>4, <1>5 DEF WaitersFit
<1>12. ReadersFit'
  <2>1. \A u \in Threads : pc'[u] = "AwaitResume" =>
           u # t /\ pc[u] = "AwaitResume" /\ loc'[u] = loc[u]
    BY <1>1 DEF Alone
  <2> QED BY <1>4, <1>5, <2>1 DEF ReadersFit
<1>13. QueueIsClear'
  <2>1. state' # "Ready" => resumeQueues # << >> /\ LastQueue = << >>
    BY <1>4 DEF QueueIsClear
  <2>2. LastQueue' = LastQueue
    BY DEF LastQueue
  <2> QED BY <1>4, <2>1, <2>2 DEF QueueIsClear
<1>14. StopsFit'
  <2>1. live' = {} /\ stopped' = {} /\ signalled' = {}
    BY NoOther DEF StopsFit, Awaited, ControlTypes
  <2> QED BY <1>4, <1>6, <2>1 DEF StopsFit
<1>15. ContextsFit'
  BY <1>4, <1>6 DEF ContextsFit
<1> QED BY <1>7, <1>8, <1>9, <1>10, <1>11, <1>12, <1>13, <1>14, <1>15
--------------------------------------------------------------------------------
(***************************************************************************)
(* configure()                                                             *)
(***************************************************************************)
\* The locals of a thread are those of NoLocals, with other values.
LEMMA HasQueue ==
  ASSUME QueuesTyped, NEW t \in Threads, NEW v
  PROVE  /\ "queue" \in DOMAIN loc[t]
         /\ "queue" \in DOMAIN [loc[t] EXCEPT !.target = v]
         /\ \A w : "queue" \in DOMAIN [loc[t] EXCEPT !.from = w, !.target = v]
BY DEF QueuesTyped

LEMMA NoLocalsHasQueue ==
  \A v : /\ "queue" \in DOMAIN NoLocals
         /\ "queue" \in DOMAIN [NoLocals EXCEPT !.scan = v]
         /\ "queue" \in DOMAIN [NoLocals EXCEPT !.from = v]
<1>1. DOMAIN NoLocals = {"from", "target", "scan", "queue"}
  BY DEF NoLocals
<1> HIDE DEF NoLocals
<1> QED BY <1>1

LEMMA ValidateKeepsRoles ==
  ASSUME ControlTypes, Roles, NEW t \in Threads, ValidateDone(t)
  PROVE  Roles'
<1>1. pc[t] = "Validate" /\ op[t] = "configure" /\ goal[t] = "Armed"
  BY DEF ValidateDone, Roles, AllPlaced, Placed
<1>2. Acts(t) /\ ~Interruptible(t) /\ Unready(t) /\ ~InRun(t)
  BY <1>1 DEF Acts, Interruptible, Unready, InRun
<1>3. ~Awaited /\ AtHome(t) /\ selfStops = 0 /\ signalled = {} /\ stopped = {}
  BY <1>2, Unawaited
<1>4. state \in {"Ready", "Finished"}
  BY <1>1, <1>2, <1>3 DEF AtHome
<1>5. /\ state' = "Configuring" /\ UNCHANGED <<resumeQueues, signalled, contexts, selfStops>>
      /\ live' = live \ {t} /\ stopped' = stopped \ {t}
  BY <1>4, Allowed DEF ValidateDone, Transition, OffShared, stops
<1>6. PICK phase \in {"ConfigReset", "ClearContexts"} :
        Start(t, op[t], goal[t], phase, loc[t])
  BY <1>4, Allowed DEF ValidateDone, Transition, Proceed, Goto
<1>7. /\ Alone(t) /\ pc'[t] = phase /\ op'[t] = op[t] /\ goal'[t] = goal[t]
      /\ loc'[t] = loc[t]
  BY <1>6, Lands DEF Roles
<1>8. Placed(t)' /\ AtHome(t)' /\ Unready(t)' /\ ~UsesQueue(t)'
  BY <1>1, <1>5, <1>7 DEF Placed, AtHome, Unready, UsesQueue
<1>9. \A u \in Threads : ~Waiting(u)
  BY <1>4 DEF Roles, WaitersFit
<1>10. live \subseteq {t}
  BY <1>2, NoOther
<1>11. "queue" \in DOMAIN loc'[t]
  BY <1>7 DEF Roles, QueuesTyped
<1> QED BY <1>1, <1>2, <1>3, <1>5, <1>7, <1>8, <1>9, <1>10, <1>11, MovesOn

LEMMA ContextsKeepRoles ==
  ASSUME ControlTypes, Roles, NEW t \in Threads, ContextsCleared(t)
  PROVE  Roles'
<1>1. pc[t] = "ClearContexts" /\ op[t] = "configure" /\ goal[t] = "Armed"
  BY DEF ContextsCleared, Roles, AllPlaced, Placed
<1>2. Acts(t) /\ ~Interruptible(t) /\ ~InRun(t)
  BY <1>1 DEF Acts, Interruptible, Unready, InRun
<1>3. ~Awaited /\ AtHome(t) /\ selfStops = 0 /\ signalled = {} /\ stopped = {}
  BY <1>2, Unawaited
<1>4. state = "Configuring"
  BY <1>1, <1>2, <1>3 DEF AtHome
<1>5. /\ state' = state /\ UNCHANGED <<resumeQueues, signalled>>
      /\ contexts' = TRUE /\ selfStops' = 0 /\ live' = {t} /\ stopped' = stopped \ {t}
      /\ Start(t, op[t], goal[t], "PreConfigure", loc[t])
  BY DEF ContextsCleared, Proceed, Goto
<1>6. /\ Alone(t) /\ pc'[t] = "PreConfigure" /\ op'[t] = op[t] /\ goal'[t] = goal[t]
      /\ loc'[t] = loc[t]
  BY <1>5, Lands DEF Roles
<1>7. Placed(t)' /\ AtHome(t)' /\ ~UsesQueue(t)'
  BY <1>1, <1>4, <1>5, <1>6 DEF Placed, AtHome, UsesQueue
<1>8. \A u \in Threads : ~Waiting(u)
  BY <1>4 DEF Roles, WaitersFit
<1>9. "queue" \in DOMAIN loc'[t]
  BY <1>6 DEF Roles, QueuesTyped
<1>10. pc'[t] \in SharedPhases
  BY <1>6 DEF SharedPhases
<1> QED BY <1>1, <1>2, <1>3, <1>4, <1>5, <1>6, <1>7, <1>8, <1>9, <1>10, MovesOn

\* A new resume_queue: nobody waits in or reads the old one any more.
LEMMA PostConfigureKeepsRoles ==
  ASSUME ControlTypes, Roles, NEW t \in Threads, PostConfigureDone(t)
  PROVE  Roles'
<1> USE DEF Roles
<1>1. pc[t] = "PostConfigure" /\ op[t] = "configure" /\ goal[t] = "Armed"
  BY DEF PostConfigureDone, AllPlaced, Placed
<1>2. Acts(t) /\ ~InRun(t) /\ ~Unready(t) /\ ~Awaits(t) /\ ~Waiting(t) /\ ~Resuming(t)
  BY <1>1 DEF Acts, Awaits, Waiting, Resuming, Unready, InRun
<1>3. /\ UNCHANGED <<state, abortQueue, signalled, contexts, selfStops>>
      /\ resumeQueues' = Append(resumeQueues, << >>)
      /\ live' = live \ {t} /\ stopped' = stopped \ {t}
      /\ Start(t, op[t], goal[t], "Settle", loc[t])
  BY DEF PostConfigureDone, Proceed, Goto, OffShared, stops, NewResumeQueue
<1>4. /\ Alone(t) /\ pc'[t] = "Settle" /\ op'[t] = op[t] /\ goal'[t] = goal[t]
      /\ loc'[t] = loc[t]
  BY <1>3, Lands
<1>5. Placed(t)' /\ Acts(t)' /\ ~Awaits(t)' /\ ~Waiting(t)' /\ ~Resuming(t)' /\ UsesQueue(t)'
  BY <1>1, <1>4 DEF Placed, Acts, Awaits, Waiting, Resuming, UsesQueue
<1>6. /\ resumeQueues' \in Seq(Seq(BOOLEAN)) /\ resumeQueues' # << >> /\ LastQueue' = << >>
      /\ Len(resumeQueues) \in Nat /\ Len(resumeQueues') = Len(resumeQueues) + 1
      /\ \A i \in 1 .. Len(resumeQueues) : resumeQueues'[i] = resumeQueues[i]
  <2>1. resumeQueues \in Seq(Seq(BOOLEAN)) /\ << >> \in Seq(BOOLEAN)
    BY DEF QueuesTyped
  <2>2. Len(resumeQueues') = Len(resumeQueues) + 1 /\ resumeQueues' \in Seq(Seq(BOOLEAN))
    BY <1>3, <2>1
  <2>3. resumeQueues'[Len(resumeQueues')] = << >>
    BY <1>3, <2>1, <2>2
  <2>4. \A i \in 1 .. Len(resumeQueues) : resumeQueues'[i] = resumeQueues[i]
    BY <1>3, <2>1
  <2> QED BY <2>1, <2>2, <2>3, <2>4 DEF LastQueue
<1>7. \A u \in Threads \ {t} : /\ Acts(u)' <=> Acts(u)
                               /\ Awaits(u)' <=> Awaits(u)
                               /\ Waiting(u)' <=> Waiting(u)
                               /\ Resuming(u)' <=> Resuming(u)
  <2>1. \A u \in Threads : pc[u] = "AwaitResume" => resumeQueues'[loc[u].queue] = Queue(u)
    BY <1>6 DEF ReadersFit, Queue
  <2> QED BY <1>4, <2>1, OthersRead
<1>8. \A u \in Threads : /\ Acts(u)' <=> u = t
                         /\ Awaits(u)' <=> Awaits(u)
                         /\ ~Waiting(u)' /\ ~Resuming(u)' /\ ~Waiting(u)
  BY <1>1, <1>2, <1>5, <1>7, NoOther DEF WaitersFit
<1>9. Awaited' <=> Awaited
  BY <1>8 DEF Awaited
<1>10. QueuesTyped' /\ AllPlaced'
  BY <1>3, <1>4, <1>5, <1>6, HasQueue, Typed DEF AllPlaced
<1>11. OneActs'
  BY <1>8 DEF OneActs
<1>12. \A u \in Threads : op'[u] = op[u] /\ goal'[u] = goal[u]
  BY <1>4 DEF Alone
<1>13. AwaitersFit' /\ WaitersFit'
  BY <1>3, <1>8, <1>12 DEF AwaitersFit, WaitersFit
<1>14. ActorsFit'
  <2>1. IF Awaited THEN Interrupted(t) ELSE AtHome(t)
    BY <1>2 DEF ActorsFit
  <2>2. IF Awaited' THEN Interrupted(t)' ELSE AtHome(t)'
    BY <1>1, <1>2, <1>3, <1>4, <1>9, <2>1
       DEF Interrupted, Interruptible, AtHome, Unready
  <2> QED BY <1>8, <2>2 DEF ActorsFit
<1>15. SomebodyActs'
  <2>1. state # "Paused"
    BY <1>8 DEF SomebodyActs
  <2> QED BY <1>1, <1>3, <1>4, <1>8, <2>1 DEF SomebodyActs
<1>16. ReadersFit'
  <2>1. \A u \in Threads : pc'[u] = "AwaitResume" =>
           u # t /\ pc[u] = "AwaitResume" /\ loc'[u] = loc[u]
    BY <1>4 DEF Alone
  <2>2. \A i \in 1 .. Len(resumeQueues) : i \in 1 .. Len(resumeQueues')
    BY <1>6
  <2>3. \A u \in Threads : pc[u] = "AwaitResume" => loc[u].queue \in 1 .. Len(resumeQueues')
    BY <2>2 DEF ReadersFit
  <2>4. \A u \in Threads : pc'[u] = "AwaitResume" => loc'[u].queue \in 1 .. Len(resumeQueues)'
    BY <2>1, <2>3
  <2>5. \A u, w \in Threads : pc'[u] = "AwaitResume" /\ pc'[w] = "AwaitResume" /\ u # w
           => loc'[u].queue # loc'[w].queue
    BY <2>1 DEF ReadersFit
  <2> QED BY <1>8, <2>4, <2>5 DEF ReadersFit
<1>17. QueueIsClear'
  BY <1>6 DEF QueueIsClear
<1>18. StopsFit'
  <2>1. live' = {} /\ stopped' = {} /\ signalled' = {}
    BY <1>2, <1>3, NoOther DEF StopsFit, ControlTypes
  <2> QED BY <1>2, <1>3, <1>8, <1>9, <2>1 DEF StopsFit
<1>19. ContextsFit'
  <2>1. contexts
    BY <1>1, <1>2 DEF ContextsFit
  <2> QED BY <1>3, <2>1 DEF ContextsFit
<1> QED BY <1>10, <1>11, <1>13, <1>14, <1>15, <1>16, <1>17, <1>18, <1>19
\* The phases that follow each other while the state and the queues stay as they are
Successors ==
  {<<"ConfigReset", "ClearContexts">>, <<"PreConfigure", "ConfigStatus">>,
   <<"ConfigStatus", "Configure">>, <<"Configure", "PostConfigure">>,
   <<"PreRun", "Run">>, <<"RunStatus", "PostRunArmed">>,
   <<"PostRunArmed", "Settle">>, <<"PostRunReady", "Settle">>,
   <<"Pause", "SeekStatus">>, <<"SeekStatus", "Seek">>, <<"Seek", "Settle">>,
   <<"Abort", "Settle">>}

LEMMA GoesToKeepsRoles ==
  ASSUME ControlTypes, Roles, NEW t \in Threads, NEW phase, NEW locals,
         Start(t, op[t], goal[t], phase, locals), "queue" \in DOMAIN locals,
         <<pc[t], phase>> \in Successors,
         UNCHANGED <<state, contexts, selfStops, abortQueue, signalled, resumeQueues>>,
         live' \subseteq live \cup {t}, stopped' = stopped \ {t},
         t \in live' => phase \in SharedPhases
  PROVE  Roles'
<1>1. /\ Alone(t) /\ pc'[t] = phase /\ op'[t] = op[t] /\ goal'[t] = goal[t]
      /\ loc'[t] = locals
  BY Lands DEF Roles
<1>2. /\ Acts(t) /\ pc[t] # "AwaitResume"
      /\ phase \notin {"Idle", "AwaitAbort", "AwaitResume"}
  BY DEF Successors, Acts
<1>3. Placed(t)
  BY DEF Roles, AllPlaced
<1>4. Placed(t)'
  BY <1>1, <1>3 DEF Placed, Successors
<1>5. /\ InRun(t)' <=> InRun(t)
      /\ AtHome(t) => AtHome(t)'
  BY <1>1, <1>3 DEF Placed, Successors, InRun, AtHome
<1>6. Interrupted(t) => Interrupted(t)'
  BY <1>1, <1>3, <1>5 DEF Placed, Successors, Interrupted, Interruptible, Unready
<1>7. /\ UsesQueue(t)' => UsesQueue(t)
      /\ op[t] = "configure" /\ Unready(t) => Unready(t)'
  BY <1>1, <1>3 DEF Placed, Successors, UsesQueue, Unready
<1> QED BY <1>1, <1>2, <1>4, <1>5, <1>6, <1>7, GoesOn
\* Every step that only goes on to the next phase.
GoingOn(t) ==
  \/ ConfigResetDone(t) \/ PreConfigureDone(t) \/ ConfigStatusDone(t) \/ ConfigureDone(t)
  \/ PreRunDone(t) \/ RunStatusDone(t) \/ PostRunArmedDone(t) \/ PostRunReadyDone(t)
  \/ AbortDone(t) \/ PauseDone(t) \/ SeekStatusDone(t) \/ SeekDone(t)

LEMMA GoingOnKeepsRoles ==
  ASSUME ControlTypes, Roles, NEW t \in Threads, GoingOn(t)
  PROVE  Roles'
<1> USE HasQueue DEF Roles, Successors, SharedPhases
<1> USE DEF Goto, Proceed, OnShared, OffShared, stops
<1>1. CASE ConfigResetDone(t)
  BY <1>1, GoesToKeepsRoles DEF ConfigResetDone
<1>2. CASE PreConfigureDone(t)
  BY <1>2, GoesToKeepsRoles DEF PreConfigureDone
<1>3. CASE ConfigStatusDone(t)
  BY <1>3, GoesToKeepsRoles DEF ConfigStatusDone
<1>4. CASE ConfigureDone(t)
  BY <1>4, GoesToKeepsRoles DEF ConfigureDone
<1>5. CASE PreRunDone(t)
  BY <1>5, GoesToKeepsRoles DEF PreRunDone
<1>6. CASE RunStatusDone(t)
  BY <1>6, GoesToKeepsRoles DEF RunStatusDone
<1>7. CASE PostRunArmedDone(t)
  BY <1>7, GoesToKeepsRoles DEF PostRunArmedDone
<1>8. CASE PostRunReadyDone(t)
  BY <1>8, GoesToKeepsRoles DEF PostRunReadyDone
<1>9. CASE AbortDone(t)
  BY <1>9, GoesToKeepsRoles DEF AbortDone
<1>10. CASE PauseDone(t)
  BY <1>10, GoesToKeepsRoles DEF PauseDone
<1>11. CASE SeekStatusDone(t)
  BY <1>11, GoesToKeepsRoles DEF SeekStatusDone
<1>12. CASE SeekDone(t)
  BY <1>12, GoesToKeepsRoles DEF SeekDone
<1> QED BY <1>1, <1>2, <1>3, <1>4, <1>5, <1>6, <1>7, <1>8, <1>9, <1>10, <1>11, <1>12
        DEF GoingOn

--------------------------------------------------------------------------------
(***************************************************************************)
(* run()                                                                   *)
(***************************************************************************)
LEMMA RunDoneKeepsRoles ==
  ASSUME ControlTypes, Roles, NEW t \in Threads, RunDone(t)
  PROVE  Roles'
<1>1. pc[t] = "Run" /\ op[t] = "run" /\ goal[t] \in {"Armed", "Finished"}
  BY DEF RunDone, Roles, AllPlaced, Placed
<1>2. Acts(t) /\ NotStopped
  BY <1>1 DEF Acts, RunDone
<1>3. ~Awaited /\ AtHome(t) /\ selfStops = 0 /\ signalled = {} /\ stopped = {}
  BY <1>2, Unawaited
<1>4. state = "Running"
  BY <1>1, <1>3 DEF AtHome, InRun
<1>5. /\ state' = "PostRun" /\ UNCHANGED <<resumeQueues, signalled, contexts, selfStops>>
      /\ live' = live \cup {t} /\ stopped' = stopped \ {t}
  BY DEF RunDone, Transition, OnShared, stops
<1>6. PICK phase, locals :
        /\ phase \in {"RunStatus", "PostRunReady"}
        /\ Start(t, op[t], goal[t], phase, locals) /\ "queue" \in DOMAIN locals
  <2>1. QueuesTyped
    BY DEF Roles
  <2>2. CASE NextRunConfigured(t)
    <3> DEFINE locals == [loc[t] EXCEPT !.from = configured,
                                        !.target = configured + scan.steps[breakpointIndex' + 1]]
    <3>1. Start(t, op[t], goal[t], "RunStatus", locals)
      BY <2>2 DEF NextRunConfigured, Goto
    <3>2. "queue" \in DOMAIN locals
      BY <2>1, HasQueue
    <3> HIDE DEF locals
    <3> QED BY <3>1, <3>2
  <2>3. CASE ScanOver(t)
    BY <2>1, <2>3, HasQueue DEF ScanOver, Proceed, Goto
  <2> QED BY <2>2, <2>3 DEF RunDone
<1>7. /\ Alone(t) /\ pc'[t] = phase /\ op'[t] = op[t] /\ goal'[t] = goal[t]
      /\ loc'[t] = locals
  BY <1>6, Lands DEF Roles
<1>8. Placed(t)' /\ AtHome(t)' /\ phase \in SharedPhases
  BY <1>1, <1>5, <1>6, <1>7 DEF Placed, AtHome, InRun, SharedPhases
<1>9. \A u \in Threads : ~Waiting(u)
  BY <1>4 DEF Roles, WaitersFit
<1>10. resumeQueues # << >> /\ LastQueue = << >>
  <2>1. \A u \in Threads : ~Resuming(u)
    BY <1>1, <1>2, NoOther DEF Resuming
  <2> QED BY <1>4, <2>1 DEF Roles, QueueIsClear
<1>11. contexts /\ live \subseteq {t}
  BY <1>2, <1>4, NoOther DEF Roles, ContextsFit
<1> QED BY <1>1, <1>2, <1>3, <1>5, <1>6, <1>7, <1>8, <1>9, <1>10, <1>11, MovesOn

\* What a put or a get does to one of the queues.
OneChanges(after, before, n, queue) ==
  /\ after \in Seq(Seq(BOOLEAN)) /\ Len(after) = Len(before) /\ after # << >>
  /\ after[n] = queue
  /\ \A i \in 1 .. Len(before) : i # n => after[i] = before[i]

LEMMA QueueChanges ==
  ASSUME NEW queues \in Seq(Seq(BOOLEAN)), NEW n \in 1 .. Len(queues),
         NEW queue \in Seq(BOOLEAN)
  PROVE  OneChanges([queues EXCEPT ![n] = queue], queues, n, queue)
<1> DEFINE after == [queues EXCEPT ![n] = queue]
<1>1. /\ after \in Seq(Seq(BOOLEAN)) /\ Len(after) = Len(queues)
      /\ \A i \in 1 .. Len(queues) : after[i] = IF i = n THEN queue ELSE queues[i]
  BY ExceptSeq
<1>2. Len(queues) >= 1
  OBVIOUS
<1> HIDE DEF after
<1>3. OneChanges(after, queues, n, queue)
  BY <1>1, <1>2 DEF OneChanges
<1> QED BY <1>3 DEF after

LEMMA QueueRead ==
  ASSUME NEW queues \in Seq(Seq(BOOLEAN)), NEW n \in 1 .. Len(queues)
  PROVE  /\ Len(queues) \in 1 .. Len(queues)
         /\ queues[n] \in Seq(BOOLEAN)
         /\ queues[n] # << >> => Tail(queues[n]) \in Seq(BOOLEAN)
<1>1. queues[n] \in Seq(BOOLEAN)
  BY ElementOfSeq
<1>2. Len(queues) \in 1 .. Len(queues)
  BY LenProperties
<1> QED BY <1>1, <1>2, HeadTailProperties

LEMMA Released ==
  ASSUME NEW queue \in Seq(BOOLEAN)
  PROVE  /\ Append(queue, FALSE) \in Seq(BOOLEAN) /\ Append(queue, FALSE) # << >>
         /\ Head(Append(queue, FALSE)) = IF queue = << >> THEN FALSE ELSE Head(queue)
<1>1. FALSE \in BOOLEAN
  OBVIOUS
<1>2. Append(queue, FALSE) \in Seq(BOOLEAN) /\ Append(queue, FALSE) # << >>
  BY <1>1, AppendProperties
<1>3. Head(Append(queue, FALSE)) = IF queue = << >> THEN FALSE ELSE Head(queue)
  BY HeadTailAppend
<1> QED BY <1>2, <1>3

LEMMA OneRead ==
  /\ Tail(<<TRUE>>) = << >> /\ << >> \in Seq(BOOLEAN)
  /\ Head(<<TRUE>>) /\ <<TRUE>> # << >>
<1>1. Tail(<<TRUE>>) = << >> /\ << >> \in Seq(BOOLEAN)
  OBVIOUS
<1>2. Head(<<TRUE>>)
  <2>1. <<TRUE>> \in Seq({TRUE}) /\ <<TRUE>> # << >>
    OBVIOUS
  <2>2. Head(<<TRUE>>) \in {TRUE}
    BY <2>1, HeadTailProperties
  <2> QED BY <2>2
<1>3. <<TRUE>> # << >>
  OBVIOUS
<1> QED BY <1>1, <1>2, <1>3

\* A run() that is woken is the one in charge again.
LEMMA ResumeKeepsRoles ==
  ASSUME ControlTypes, Roles, NEW t \in Threads, Resumed(t), Head(Queue(t))
  PROVE  Roles'
<1> USE DEF Roles
<1>1. pc[t] = "AwaitResume" /\ op[t] = "run" /\ Queue(t) # << >>
  BY DEF Resumed, Queue, AllPlaced, Placed
<1>2. Resuming(t) /\ Acts(t) /\ ~Waiting(t) /\ ~Awaits(t)
  BY <1>1 DEF Resuming, Acts, Waiting, Awaits, Queue
<1>3. loc[t].queue = Len(resumeQueues) /\ LastQueue = <<TRUE>>
      /\ Len(resumeQueues) \in 1 .. Len(resumeQueues)
  BY <1>1, <1>2 DEF ReadersFit
<1>4. /\ UNCHANGED <<state, abortQueue, signalled, contexts, selfStops>>
      /\ resumeQueues' = [resumeQueues EXCEPT ![Len(resumeQueues)] = Tail(@)]
      /\ live' = live \cup {t} /\ stopped' = stopped \ {t}
      /\ Start(t, op[t], goal[t], "PreRun", loc[t])
  BY <1>3 DEF Resumed, Proceed, Goto, OnShared, stops, Queue
<1>5. /\ Alone(t) /\ pc'[t] = "PreRun" /\ op'[t] = op[t] /\ goal'[t] = goal[t]
      /\ loc'[t] = loc[t]
  BY <1>4, Lands
<1>6. Placed(t)' /\ Acts(t)' /\ ~Awaits(t)' /\ ~Waiting(t)' /\ ~Resuming(t)'
  <2>1. Placed(t)
    BY DEF AllPlaced
  <2> QED BY <1>1, <1>5, <2>1 DEF Placed, Acts, Awaits, Waiting, Resuming
<1>7. /\ resumeQueues' \in Seq(Seq(BOOLEAN)) /\ Len(resumeQueues') = Len(resumeQueues)
      /\ resumeQueues' # << >> /\ LastQueue' = << >>
      /\ \A i \in 1 .. Len(resumeQueues) :
           i # Len(resumeQueues) => resumeQueues'[i] = resumeQueues[i]
  <2>1. resumeQueues \in Seq(Seq(BOOLEAN))
    BY DEF QueuesTyped
  <2>2. resumeQueues' = [resumeQueues EXCEPT ![Len(resumeQueues)] = << >>]
    BY <1>3, <1>4, OneRead DEF LastQueue
  <2>3. OneChanges(resumeQueues', resumeQueues, Len(resumeQueues), << >>)
    BY <1>3, <2>1, <2>2, OneRead, QueueChanges
  <2> QED BY <2>3 DEF LastQueue, OneChanges
<1>8. \A u \in Threads \ {t} : /\ Acts(u)' <=> Acts(u)
                               /\ Awaits(u)' <=> Awaits(u)
                               /\ Waiting(u)' <=> Waiting(u)
                               /\ Resuming(u)' <=> Resuming(u)
  <2>1. \A u \in Threads \ {t} :
          pc[u] = "AwaitResume" => resumeQueues'[loc[u].queue] = Queue(u)
    BY <1>1, <1>3, <1>7 DEF ReadersFit, Queue
  <2> QED BY <1>5, <2>1, OthersRead
<1>9. \A u \in Threads : ~Waiting(u)
  BY <1>1, <1>2 DEF WaitersFit
<1>10. \A u \in Threads : /\ Acts(u)' <=> u = t
                          /\ Awaits(u)' <=> Awaits(u)
                          /\ ~Waiting(u)' /\ ~Resuming(u)'
  BY <1>2, <1>6, <1>8, <1>9, NoOther
<1>11. Awaited' <=> Awaited
  BY <1>10 DEF Awaited
<1>12. QueuesTyped' /\ AllPlaced'
  BY <1>4, <1>5, <1>6, <1>7, HasQueue, Typed DEF AllPlaced
<1>13. OneActs'
  BY <1>10 DEF OneActs
<1>14. \A u \in Threads : op'[u] = op[u] /\ goal'[u] = goal[u]
  BY <1>5 DEF Alone
<1>15. AwaitersFit' /\ WaitersFit'
  BY <1>4, <1>10, <1>14 DEF AwaitersFit, WaitersFit
<1>16. ActorsFit'
  <2>1. IF Awaited THEN Interrupted(t) ELSE AtHome(t)
    BY <1>2 DEF ActorsFit
  <2>2. IF Awaited' THEN Interrupted(t)' ELSE AtHome(t)'
    BY <1>1, <1>4, <1>5, <1>11, <2>1
       DEF Interrupted, Interruptible, AtHome, InRun, Unready
  <2> QED BY <1>10, <2>2 DEF ActorsFit
<1>17. SomebodyActs'
  <2>1. state # "Paused"
    BY <1>9 DEF SomebodyActs
  <2> QED BY <1>1, <1>4, <1>10, <1>14, <2>1 DEF SomebodyActs
<1>18. ReadersFit'
  <2>1. \A u \in Threads : pc'[u] = "AwaitResume" =>
           u # t /\ pc[u] = "AwaitResume" /\ loc'[u] = loc[u]
    BY <1>5 DEF Alone
  <2> QED BY <1>7, <1>10, <2>1 DEF ReadersFit
<1>19. QueueIsClear'
  BY <1>7 DEF QueueIsClear
<1>20. StopsFit'
  <2>1. live' \subseteq {t} /\ stopped' = {} /\ signalled' = {}
    BY <1>2, <1>4, NoOther DEF StopsFit, ControlTypes
  <2>2. pc'[t] \in SharedPhases
    BY <1>5 DEF SharedPhases
  <2> QED BY <1>2, <1>4, <1>10, <1>11, <2>1, <2>2 DEF StopsFit
<1>21. ContextsFit'
  BY <1>1, <1>4, <1>10, <1>11, <1>14 DEF ContextsFit
<1> QED BY <1>12, <1>13, <1>15, <1>16, <1>17, <1>18, <1>19, <1>20, <1>21
\* A run() that is told to drop out was in nobody's way.
LEMMA DropOutKeepsRoles ==
  ASSUME ControlTypes, Roles, NEW t \in Threads, Resumed(t), ~Head(Queue(t))
  PROVE  Roles'
<1> USE DEF Roles
<1>1. pc[t] = "AwaitResume" /\ Queue(t) # << >>
  BY DEF Resumed, Queue
<1>2. ~Acts(t) /\ ~Resuming(t) /\ ~Waiting(t) /\ ~Awaits(t)
  BY <1>1 DEF Resuming, Acts, Waiting, Awaits, Queue
<1> DEFINE q == loc[t].queue
<1>3. /\ UNCHANGED <<state, abortQueue, signalled, contexts, selfStops>>
      /\ resumeQueues' = [resumeQueues EXCEPT ![q] = Tail(@)]
      /\ live' = live \ {t} /\ stopped' = stopped \ {t} /\ End(t)
  BY DEF Resumed, OffShared, stops, Queue
<1>4. /\ Alone(t) /\ pc'[t] = "Idle" /\ op'[t] = "none" /\ goal'[t] = "none"
      /\ "queue" \in DOMAIN loc'[t]
  BY <1>3, Idles
<1>5. Placed(t)' /\ ~Acts(t)' /\ ~Awaits(t)' /\ ~Waiting(t)' /\ ~Resuming(t)'
  BY <1>4 DEF Placed, Acts, Awaits, Waiting, Resuming
<1>6. OneChanges(resumeQueues', resumeQueues, q, Tail(Queue(t)))
  <2>1. resumeQueues \in Seq(Seq(BOOLEAN)) /\ q \in 1 .. Len(resumeQueues)
    BY <1>1 DEF QueuesTyped, ReadersFit
  <2>3. Tail(Queue(t)) \in Seq(BOOLEAN)
    BY <1>1, <2>1, QueueRead DEF Queue
  <2>4. resumeQueues' = [resumeQueues EXCEPT ![q] = Tail(Queue(t))]
    BY <1>3 DEF Queue
  <2> HIDE DEF q
  <2> QED BY <2>1, <2>3, <2>4, QueueChanges
<1>7. \A u \in Threads \ {t} : /\ Acts(u)' <=> Acts(u)
                               /\ Awaits(u)' <=> Awaits(u)
                               /\ Waiting(u)' <=> Waiting(u)
                               /\ Resuming(u)' <=> Resuming(u)
  <2>1. \A u \in Threads \ {t} :
          pc[u] = "AwaitResume" => resumeQueues'[loc[u].queue] = Queue(u)
    BY <1>1, <1>6 DEF ReadersFit, Queue, OneChanges
  <2> QED BY <1>4, <2>1, OthersRead
<1>8. \A u \in Threads : /\ Acts(u)' <=> Acts(u)
                         /\ Awaits(u)' <=> Awaits(u)
                         /\ Waiting(u)' <=> Waiting(u)
                         /\ Resuming(u)' <=> Resuming(u)
  BY <1>2, <1>5, <1>7
<1>9. \A u \in Threads : Acts(u) \/ Awaits(u) \/ Waiting(u) \/ Resuming(u) => u # t
  BY <1>2
<1>10. Awaited' <=> Awaited
  BY <1>8 DEF Awaited
<1>11. \A u \in Threads \ {t} : /\ op'[u] = op[u] /\ goal'[u] = goal[u]
                                /\ pc'[u] = pc[u] /\ loc'[u] = loc[u]
  BY <1>4 DEF Alone
<1>12. QueuesTyped' /\ AllPlaced'
  BY <1>3, <1>4, <1>5, <1>6, Typed DEF AllPlaced, OneChanges
<1>13. OneActs'
  BY <1>8 DEF OneActs
<1>14. AwaitersFit'
  BY <1>3, <1>8, <1>9, <1>11 DEF AwaitersFit
<1>15. WaitersFit'
  BY <1>3, <1>8, <1>9, <1>11 DEF WaitersFit
<1>16. ActorsFit'
  <2>1. ASSUME NEW u \in Threads, Acts(u)
        PROVE  IF Awaited THEN Interrupted(u)' ELSE AtHome(u)'
    <3>1. u # t /\ (IF Awaited THEN Interrupted(u) ELSE AtHome(u))
      BY <1>9, <2>1 DEF ActorsFit
    <3> QED BY <1>3, <1>11, <3>1 DEF Interrupted, Interruptible, AtHome, InRun, Unready
  <2> QED BY <1>8, <1>10, <2>1 DEF ActorsFit
<1>17. SomebodyActs'
  BY <1>3, <1>8, <1>9, <1>11 DEF SomebodyActs
<1>18. ReadersFit'
  <2>1. \A u \in Threads : pc'[u] = "AwaitResume" =>
           u # t /\ pc[u] = "AwaitResume" /\ loc'[u] = loc[u]
    BY <1>4, <1>11
  <2>2. Len(resumeQueues') = Len(resumeQueues)
    BY <1>6 DEF OneChanges
  <2>3. \A u \in Threads : Resuming(u) => LastQueue' = LastQueue
    BY <1>1, <1>6, <1>9, <2>2 DEF ReadersFit, OneChanges, LastQueue, Resuming
  <2> QED BY <1>8, <2>1, <2>2, <2>3 DEF ReadersFit
<1>19. QueueIsClear'
  <2>1. SUFFICES ASSUME \/ state \in {"Armed", "Paused", "Finished", "Running", "PostRun", "Seeking"}
                        \/ \E u \in Threads : Acts(u) /\ UsesQueue(u)
                 PROVE  resumeQueues' # << >>
                        /\ (LastQueue' = << >> \/ \E u \in Threads : Resuming(u))
    BY <1>3, <1>8, <1>9, <1>11 DEF QueueIsClear, UsesQueue
  <2>2. LastQueue = << >> \/ \E u \in Threads : Resuming(u)
    BY <2>1 DEF QueueIsClear
  <2>3. q # Len(resumeQueues) \/ \E u \in Threads : Resuming(u)
    BY <1>1, <2>2 DEF LastQueue, Queue
  <2>4. q # Len(resumeQueues)
    BY <1>1, <1>9, <2>3 DEF ReadersFit, Resuming
  <2>5. Len(resumeQueues) \in 1 .. Len(resumeQueues)
    <3>1. resumeQueues \in Seq(Seq(BOOLEAN)) /\ q \in 1 .. Len(resumeQueues)
      BY <1>1 DEF QueuesTyped, ReadersFit
    <3> HIDE DEF q, Roles
    <3> QED BY <3>1, QueueRead
  <2>6. LastQueue' = LastQueue
    BY <1>6, <2>4, <2>5 DEF LastQueue, OneChanges
  <2> QED BY <1>6, <2>2, <2>6 DEF OneChanges
<1>20. StopsFit'
  <2>1. \A u \in live' \cup stopped' : u # t /\ u \in Threads /\ u \in live \cup stopped
    BY <1>3 DEF ControlTypes
  <2>2. \A u \in live' \cup stopped' : pc'[u] \in SharedPhases
    BY <1>11, <2>1 DEF StopsFit
  <2>3. signalled \subseteq Threads /\ stopped' \subseteq stopped
    BY <1>3 DEF ControlTypes
  <2> QED BY <1>3, <1>8, <1>10, <2>2, <2>3 DEF StopsFit
<1>21. ContextsFit'
  BY <1>3, <1>8, <1>9, <1>10, <1>11 DEF ContextsFit, Unready
<1> QED BY <1>12, <1>13, <1>14, <1>15, <1>16, <1>17, <1>18, <1>19, <1>20, <1>21

--------------------------------------------------------------------------------
(***************************************************************************)
(* pause() and abort()                                                     *)
(***************************************************************************)
\* The answer, or the lack of one, means that nobody is at work.
LEMMA AnsweredIsAlone ==
  ASSUME Scope, ControlTypes, Roles, NEW t \in Threads, AbortAnswered(t)
  PROVE  \A u \in Threads : ~Acts(u)
<1>1. CASE t \in signalled
  BY <1>1 DEF Roles, StopsFit
<1>2. CASE \A u \in Threads \ {t} : ~Working(u)
  <2>1. \A u \in Threads \ {t} : ~Acts(u)
    BY <1>2 DEF Acts, Resuming, Working, Queue
  <2>2. ~Acts(t)
    BY DEF Acts, Resuming, AbortAnswered
  <2> QED BY <2>1, <2>2
<1> QED BY <1>1, <1>2 DEF AbortAnswered, Scope

LEMMA AnswerKeepsRoles ==
  ASSUME Scope, ControlTypes, Roles, NEW t \in Threads, AbortAnswered(t)
  PROVE  Roles'
<1> USE DEF Roles
<1>1. pc[t] = "AwaitAbort" /\ Awaits(t) /\ Awaited /\ ~Waiting(t) /\ ~Resuming(t)
  BY DEF AbortAnswered, Awaits, Awaited, Waiting, Resuming
<1>2. \A u \in Threads : ~Acts(u) /\ ~Resuming(u)
  BY AnsweredIsAlone DEF Acts
<1>3. PICK phase \in {"Pause", "Abort"} :
        /\ Start(t, op[t], goal[t], phase, loc[t])
        /\ phase = IF op[t] = "pause" THEN "Pause" ELSE "Abort"
  BY DEF AbortAnswered, Proceed, Goto
<1>4. /\ UNCHANGED <<state, abortQueue, contexts, resumeQueues>> /\ selfStops' = 0
      /\ signalled' = signalled \ {t} /\ live' = live \ {t} /\ stopped' = stopped \ {t}
  BY DEF AbortAnswered, IgnoreStops, OffShared
<1>5. /\ Alone(t) /\ pc'[t] = phase /\ op'[t] = op[t] /\ goal'[t] = goal[t]
      /\ loc'[t] = loc[t]
  BY <1>3, Lands
<1>6. \/ op[t] = "abort" /\ state = "Aborting" /\ goal[t] = "Aborted"
      \/ op[t] = "pause" /\ state = "Seeking" /\ goal[t] = "Paused"
  BY <1>1 DEF AwaitersFit, AllPlaced, Placed
<1>7. /\ Placed(t)' /\ Acts(t)' /\ AtHome(t)' /\ ~Awaits(t)' /\ ~Waiting(t)' /\ ~Resuming(t)'
  BY <1>3, <1>4, <1>5, <1>6 DEF Placed, Acts, AtHome, Awaits, Waiting, Resuming
<1>8. \A u \in Threads \ {t} : /\ Acts(u)' <=> Acts(u)
                               /\ Awaits(u)' <=> Awaits(u)
                               /\ Waiting(u)' <=> Waiting(u)
                               /\ Resuming(u)' <=> Resuming(u)
  BY <1>4, <1>5, Others
<1>9. \A u \in Threads \ {t} : ~Awaits(u)
  BY <1>1 DEF AwaitersFit
<1>10. \A u \in Threads : /\ Acts(u)' <=> u = t
                          /\ ~Awaits(u)' /\ ~Resuming(u)'
                          /\ Waiting(u)' <=> Waiting(u)
  BY <1>1, <1>2, <1>7, <1>8, <1>9
<1>11. ~Awaited'
  BY <1>10 DEF Awaited
<1>12. QueuesTyped' /\ AllPlaced'
  BY <1>4, <1>5, <1>7, HasQueue, Typed DEF AllPlaced, QueuesTyped
<1>13. OneActs' /\ ActorsFit'
  BY <1>7, <1>10, <1>11 DEF OneActs, ActorsFit
<1>14. \A u \in Threads : op'[u] = op[u] /\ goal'[u] = goal[u]
  BY <1>5 DEF Alone
<1>15. AwaitersFit' /\ WaitersFit'
  BY <1>4, <1>6, <1>10, <1>14 DEF AwaitersFit, WaitersFit
<1>16. SomebodyActs'
  BY <1>1, <1>2, <1>4, <1>6, <1>10, <1>14 DEF SomebodyActs
<1>17. ReadersFit'
  <2>1. \A u \in Threads : pc'[u] = "AwaitResume" =>
           u # t /\ pc[u] = "AwaitResume" /\ loc'[u] = loc[u]
    BY <1>3, <1>5 DEF Alone
  <2> QED BY <1>4, <1>10, <2>1 DEF ReadersFit
<1>18. QueueIsClear'
  <2>1. state = "Seeking" => resumeQueues # << >> /\ LastQueue = << >>
    BY <1>2 DEF QueueIsClear
  <2>2. UsesQueue(t)' => state = "Seeking"
    BY <1>5, <1>6 DEF UsesQueue
  <2>3. LastQueue' = LastQueue
    BY <1>4 DEF LastQueue
  <2> QED BY <1>4, <1>6, <1>10, <2>1, <2>2, <2>3 DEF QueueIsClear
<1>19. StopsFit'
  <2>1. live = {} /\ stopped = {}
    BY <1>2 DEF StopsFit, ControlTypes, SharedPhases, Acts
  <2>2. signalled' = {}
    BY <1>4, <1>9 DEF StopsFit, ControlTypes
  <2> QED BY <1>4, <1>11, <2>1, <2>2 DEF StopsFit
<1>20. ContextsFit'
  BY <1>1, <1>4 DEF ContextsFit
<1> QED BY <1>12, <1>13, <1>15, <1>16, <1>17, <1>18, <1>19, <1>20
--------------------------------------------------------------------------------
(***************************************************************************)
(* The end of an operation                                                 *)
(***************************************************************************)
\* An operation that nobody asked to stop has kept its state to the end.
LEMMA SettlesFrom ==
  ASSUME ControlTypes, Roles, NEW t \in Threads, pc[t] = "Settle", NotStopped
  PROVE  /\ Acts(t) /\ ~Awaited /\ selfStops = 0 /\ stopped = {}
         /\ TransitionAllowed(state, goal[t])
         /\ \/ op[t] = "configure" /\ state = "Configuring" /\ goal[t] = "Armed"
            \/ op[t] = "run" /\ state = "PostRun" /\ goal[t] \in {"Armed", "Finished"}
            \/ op[t] = "pause" /\ state = "Seeking" /\ goal[t] \in {"Armed", "Paused"}
            \/ op[t] = "abort" /\ state = "Aborting" /\ goal[t] = "Aborted"
<1>1. Acts(t)
  BY DEF Acts
<1>2. ~Awaited /\ AtHome(t) /\ selfStops = 0 /\ stopped = {}
  BY <1>1, Unawaited
<1>3. Placed(t)
  BY DEF Roles, AllPlaced
<1>4. \/ op[t] = "configure" /\ state = "Configuring" /\ goal[t] = "Armed"
      \/ op[t] = "run" /\ state = "PostRun" /\ goal[t] \in {"Armed", "Finished"}
      \/ op[t] = "pause" /\ state = "Seeking" /\ goal[t] \in {"Armed", "Paused"}
      \/ op[t] = "abort" /\ state = "Aborting" /\ goal[t] = "Aborted"
  BY <1>2, <1>3 DEF AtHome, InRun, Placed
<1> QED BY <1>1, <1>2, <1>4, Allowed

LEMMA SettledKeepsRoles ==
  ASSUME ControlTypes, Roles, NEW t \in Threads, Settled(t), op[t] # "abort"
  PROVE  Roles'
<1>1. pc[t] = "Settle" /\ NotStopped
  BY DEF Settled
<1>2. /\ Acts(t) /\ ~Awaited /\ selfStops = 0 /\ stopped = {}
      /\ \/ op[t] = "configure" /\ state = "Configuring" /\ goal[t] = "Armed"
         \/ op[t] = "run" /\ state = "PostRun" /\ goal[t] \in {"Armed", "Finished"}
         \/ op[t] = "pause" /\ state = "Seeking" /\ goal[t] \in {"Armed", "Paused"}
  BY <1>1, SettlesFrom
<1>3. /\ End(t) /\ state' = goal[t]
      /\ UNCHANGED <<resumeQueues, contexts, selfStops, signalled>>
      /\ live' = live \ {t} /\ stopped' = stopped \ {t}
  BY DEF Settled, KeepResumeQueues, OffShared, stops
<1>4. contexts /\ UsesQueue(t)
  <2>1. contexts
    BY <1>1, <1>2 DEF Roles, ContextsFit, Unready
  <2> QED BY <1>1, <1>2, <2>1 DEF UsesQueue
<1>5. (\E u \in Threads : Waiting(u)) <=> state' = "Paused"
  BY <1>2, <1>3 DEF Roles, WaitersFit, SomebodyActs
<1>6. state' \in {"Armed", "Paused", "Finished"}
  BY <1>2, <1>3
<1> QED BY <1>1, <1>2, <1>3, <1>4, <1>5, <1>6, Rests

LEMMA StatefulKeepsRoles ==
  ASSUME ControlTypes, Roles, NEW t \in Threads, StatefulDone(t)
  PROVE  Roles'
<1>1. pc[t] = "Stateful" /\ goal[t] = "Ready" /\ op[t] \in {"init", "reset", "save", "load"}
  BY DEF StatefulDone, Roles, AllPlaced, Placed
<1>2. Acts(t) /\ ~Interruptible(t) /\ ~InRun(t)
  BY <1>1 DEF Acts, Interruptible, InRun
<1>3. ~Awaited /\ AtHome(t) /\ selfStops = 0 /\ stopped = {}
  BY <1>2, Unawaited
<1>4. state \in {"Resetting", "Saving", "Loading"}
  BY <1>1, <1>2, <1>3 DEF AtHome
<1>5. Transition("Ready") /\ End(t) /\ OffShared(t)
  BY <1>1, <1>4, Allowed DEF StatefulDone
<1>6. /\ state' = "Ready" /\ UNCHANGED <<resumeQueues, contexts, selfStops, signalled>>
      /\ live' = live \ {t} /\ stopped' = stopped \ {t}
  BY <1>5 DEF StatefulDone, Transition, OffShared, stops
<1>7. \A u \in Threads : ~Waiting(u)
  BY <1>4 DEF Roles, WaitersFit
<1> QED BY <1>1, <1>2, <1>3, <1>5, <1>6, <1>7, Rests

\* abort() leaves nobody waiting behind it.
LEMMA AbortedKeepsRoles ==
  ASSUME ControlTypes, Roles, NEW t \in Threads, Settled(t), op[t] = "abort"
  PROVE  Roles'
<1> USE DEF Roles
<1>1. pc[t] = "Settle" /\ NotStopped
  BY DEF Settled
<1>2. Acts(t) /\ ~Awaited /\ selfStops = 0 /\ stopped = {} /\ goal[t] = "Aborted"
  BY <1>1, SettlesFrom
<1>3. /\ End(t) /\ state' = "Aborted" /\ Release
      /\ UNCHANGED <<contexts, selfStops, signalled>>
      /\ live' = live \ {t} /\ stopped' = stopped \ {t}
  BY <1>2 DEF Settled, OffShared, stops
<1>4. /\ Alone(t) /\ pc'[t] = "Idle" /\ op'[t] = "none" /\ goal'[t] = "none"
      /\ "queue" \in DOMAIN loc'[t]
  BY <1>3, Idles
<1>5. Placed(t)' /\ ~Acts(t)' /\ ~Awaits(t)' /\ ~Waiting(t)' /\ ~Resuming(t)'
  BY <1>4 DEF Placed, Acts, Awaits, Waiting, Resuming
<1> DEFINE n == Len(resumeQueues)
<1>6. /\ resumeQueues' \in Seq(Seq(BOOLEAN)) /\ Len(resumeQueues') = n
      /\ resumeQueues # << >> =>
           OneChanges(resumeQueues', resumeQueues, n, Append(LastQueue, FALSE))
  <2>1. resumeQueues \in Seq(Seq(BOOLEAN))
    BY DEF QueuesTyped
  <2>2. CASE resumeQueues = << >>
    BY <1>3, <2>1, <2>2 DEF Release, PutResume
  <2>3. CASE resumeQueues # << >>
    <3>1. n \in 1 .. n
      BY <2>1, <2>3, EmptySeq
    <3>2. resumeQueues' = [resumeQueues EXCEPT ![n] = Append(LastQueue, FALSE)]
      BY <1>3, <2>3 DEF Release, PutResume, LastQueue
    <3>3. Append(LastQueue, FALSE) \in Seq(BOOLEAN)
      BY <2>1, <3>1, QueueRead, Released DEF LastQueue
    <3>4. OneChanges(resumeQueues', resumeQueues, n, Append(LastQueue, FALSE))
      BY <2>1, <3>1, <3>2, <3>3, QueueChanges
    <3> QED BY <3>4 DEF OneChanges
  <2> QED BY <2>2, <2>3
<1>7. \A u \in Threads : ~Resuming(u)' /\ ~Waiting(u)'
  <2>1. SUFFICES ASSUME NEW u \in Threads \ {t}, pc[u] = "AwaitResume"
                 PROVE  Queue(u)' # << >> /\ ~Head(Queue(u)')
    BY <1>4, <1>5 DEF Resuming, Waiting, Queue, Alone
  <2>2. ~Resuming(u) /\ loc[u].queue \in 1 .. n /\ resumeQueues \in Seq(Seq(BOOLEAN))
    BY <1>2, <2>1, NoOther DEF ReadersFit, QueuesTyped
  <2>3. Queue(u) \in Seq(BOOLEAN)
    BY <2>2, QueueRead DEF Queue
  <2>4. Queue(u)' = resumeQueues'[loc[u].queue]
    BY <1>4 DEF Queue, Alone
  <2>5. resumeQueues # << >>
    BY <2>2
  <2>6. CASE loc[u].queue = n
    <3>1. Queue(u)' = Append(Queue(u), FALSE)
      BY <1>6, <2>4, <2>5, <2>6 DEF OneChanges, LastQueue, Queue
    <3>2. /\ Append(Queue(u), FALSE) # << >>
          /\ Head(Append(Queue(u), FALSE)) = IF Queue(u) = << >> THEN FALSE ELSE Head(Queue(u))
      BY <2>3, Released
    <3> QED BY <2>1, <2>2, <3>1, <3>2 DEF Resuming
  <2>7. CASE loc[u].queue # n
    <3>1. Queue(u)' = Queue(u)
      BY <1>6, <2>2, <2>4, <2>5, <2>7 DEF OneChanges, Queue
    <3>2. Queue(u) # << >>
      BY <2>1, <2>7 DEF ReadersFit, Waiting, Queue
    <3> QED BY <2>1, <2>2, <3>1, <3>2 DEF Resuming
  <2> QED BY <2>6, <2>7
<1>8. \A u \in Threads : ~Acts(u)' /\ ~Awaits(u)'
  <2>1. \A u \in Threads \ {t} : ~Acts(u) /\ ~Awaits(u)
    BY <1>2, NoOther DEF Awaited
  <2> QED BY <1>4, <1>5, <1>7, <2>1 DEF Acts, Awaits, Alone
<1>9. ~Awaited'
  BY <1>8 DEF Awaited
<1>10. QueuesTyped' /\ AllPlaced'
  BY <1>3, <1>4, <1>5, <1>6, Typed
<1>11. OneActs' /\ ActorsFit' /\ AwaitersFit' /\ WaitersFit'
  BY <1>7, <1>8 DEF OneActs, ActorsFit, AwaitersFit, WaitersFit
<1>12. SomebodyActs'
  BY <1>3, <1>8 DEF SomebodyActs
<1>13. ReadersFit'
  <2>1. \A u \in Threads : pc'[u] = "AwaitResume" =>
           u # t /\ pc[u] = "AwaitResume" /\ loc'[u] = loc[u]
    BY <1>4 DEF Alone
  <2> QED BY <1>6, <1>7, <2>1 DEF ReadersFit
<1>14. QueueIsClear'
  BY <1>3, <1>8 DEF QueueIsClear
<1>15. StopsFit'
  <2>1. live' = {} /\ stopped' = {} /\ signalled' = {}
    BY <1>2, <1>3, NoOther DEF StopsFit, ControlTypes
  <2> QED BY <1>2, <1>3, <1>8, <1>9, <2>1 DEF StopsFit
<1>16. ContextsFit'
  BY <1>3, <1>8, <1>9 DEF ContextsFit
<1> QED BY <1>10, <1>11, <1>12, <1>13, <1>14, <1>15, <1>16
--------------------------------------------------------------------------------
(***************************************************************************)
(* An operation is interrupted                                             *)
(***************************************************************************)
\* A hook that was stopped, or a transition that was refused: somebody waits.
Drops(t) == HookStopped(t) \/ SettleRefused(t) \/ RunRefused(t)

LEMMA DropsForSomebody ==
  ASSUME Scope, ControlTypes, Roles, NEW t \in Threads, Drops(t)
  PROVE  /\ Acts(t) /\ pc[t] # "AwaitResume" /\ Awaited /\ Aborted(t)
         /\ UNCHANGED contexts /\ UNCHANGED abortQueue
<1>1. CASE HookStopped(t)
  <2>1. Awaited
    BY <1>1 DEF HookStopped, Roles, StopsFit
  <2>2. Acts(t) /\ pc[t] # "AwaitResume"
    BY <1>1 DEF HookStopped, HookPhases, SharedPhases, FreshPhases, Acts
  <2> QED BY <1>1, <2>1, <2>2 DEF HookStopped, HooksAborted, Scope, stops
<1>2. CASE SettleRefused(t)
  <2>1. pc[t] = "Settle" /\ Acts(t)
    BY <1>2 DEF SettleRefused, Acts
  <2>2. ~(NotStopped /\ ~TransitionAllowed(state, goal[t]))
    BY <2>1, SettlesFrom
  <2>3. selfStops > 0 /\ Aborted(t)
    BY <1>2, <2>2 DEF SettleRefused, Refused
  <2> QED BY <1>2, <2>1, <2>3 DEF SettleRefused, Roles, StopsFit
<1>3. CASE RunRefused(t)
  <2>1. pc[t] = "Run" /\ Acts(t)
    BY <1>3 DEF RunRefused, Acts
  <2>2. ~(NotStopped /\ ~TransitionAllowed(state, "PostRun"))
    <3>1. SUFFICES ASSUME NotStopped PROVE state = "Running"
      BY Allowed
    <3>2. AtHome(t) /\ Placed(t)
      BY <2>1, <3>1, Unawaited DEF Roles, AllPlaced
    <3> QED BY <2>1, <3>2 DEF AtHome, InRun, Placed
  <2>3. selfStops > 0 /\ Aborted(t)
    BY <1>3, <2>2 DEF RunRefused, Refused
  <2> QED BY <1>3, <2>1, <2>3 DEF RunRefused, Roles, StopsFit
<1> QED BY <1>1, <1>2, <1>3 DEF Drops

\* Whoever is interrupted by pause() is a run(); by abort(), anything else but it.
LEMMA InterruptedFits ==
  ASSUME ControlTypes, Roles, NEW t \in Threads, Acts(t), pc[t] # "AwaitResume", Awaited
  PROVE  /\ op[t] \in {"configure", "run", "pause"} /\ ~Unready(t)
         /\ \/ state = "Aborting" /\ \A a \in Threads : Awaits(a) => op[a] = "abort"
            \/ state = "Seeking" /\ op[t] = "run"
         /\ abortQueue \in Threads /\ Awaits(abortQueue) /\ contexts
<1>1. Interrupted(t) /\ Placed(t)
  BY DEF Roles, ActorsFit, AllPlaced
<1>2. PICK a \in Threads : Awaits(a)
  BY DEF Awaited
<1>3. abortQueue = a /\ state \in {"Aborting", "Seeking"}
  BY <1>2 DEF Roles, AwaitersFit
<1>4. pc[t] \notin {"Idle", "AwaitAbort"}
  BY DEF Acts, Resuming
<1>5. op[t] \in {"configure", "run", "pause"} /\ ~Unready(t)
  BY <1>1, <1>3, <1>4 DEF Interrupted, Interruptible, InRun, Unready, Placed
<1>6. state = "Seeking" => op[t] = "run"
  BY <1>1 DEF Interrupted, InRun
<1>7. state = "Aborting" => \A b \in Threads : Awaits(b) => op[b] = "abort"
  BY DEF Roles, AwaitersFit
<1>8. contexts
  BY DEF Roles, ContextsFit
<1> QED BY <1>2, <1>3, <1>5, <1>6, <1>7, <1>8

\* configure() or pause() gives way to an abort().
LEMMA GivingWayKeepsRoles ==
  ASSUME ControlTypes, Roles, NEW t \in Threads, OperationAborted(t), op[t] # "run",
         Acts(t), pc[t] # "AwaitResume", Awaited,
         UNCHANGED contexts, UNCHANGED abortQueue
  PROVE  Roles'
<1> USE DEF Roles
<1>1. /\ op[t] \in {"configure", "run", "pause"} /\ state = "Aborting" /\ contexts
      /\ abortQueue \in Threads /\ Awaits(abortQueue)
      /\ \A a \in Threads : Awaits(a) => op[a] = "abort"
  BY InterruptedFits
<1>2. /\ End(t) /\ UNCHANGED <<state, resumeQueues>> /\ SignalAbort
      /\ live' = live \ {t} /\ stopped' = stopped \ {t}
  BY DEF OperationAborted, OffShared
<1>3. /\ Alone(t) /\ pc'[t] = "Idle" /\ op'[t] = "none" /\ goal'[t] = "none"
      /\ "queue" \in DOMAIN loc'[t]
  BY <1>2, Idles
<1>4. Placed(t)' /\ ~Acts(t)' /\ ~Awaits(t)' /\ ~Waiting(t)' /\ ~Resuming(t)'
  BY <1>3 DEF Placed, Acts, Awaits, Waiting, Resuming
<1>5. ~Awaits(t) /\ ~Waiting(t)
  BY <1>1 DEF Awaits, Waiting, Acts, Resuming
<1>6. \A u \in Threads : /\ ~Acts(u)' /\ ~Resuming(u)'
                         /\ Awaits(u)' <=> Awaits(u)
                         /\ Waiting(u)' <=> Waiting(u)
  BY <1>2, <1>3, <1>4, <1>5, Others, NoOther
<1>7. Awaited'
  BY <1>6 DEF Awaited
<1>8. \A u \in Threads : u # t => op'[u] = op[u] /\ goal'[u] = goal[u]
  BY <1>3 DEF Alone
<1>9. QueuesTyped' /\ AllPlaced'
  BY <1>2, <1>3, <1>4, Typed DEF QueuesTyped, AllPlaced
<1>10. OneActs' /\ ActorsFit'
  BY <1>6 DEF OneActs, ActorsFit
<1>11. AwaitersFit' /\ WaitersFit'
  BY <1>1, <1>2, <1>5, <1>6, <1>8 DEF AwaitersFit, WaitersFit
<1>12. SomebodyActs'
  BY <1>1, <1>2, <1>5, <1>6, <1>8 DEF SomebodyActs
<1>13. ReadersFit'
  <2>1. \A u \in Threads : pc'[u] = "AwaitResume" =>
           u # t /\ pc[u] = "AwaitResume" /\ loc'[u] = loc[u]
    BY <1>3 DEF Alone
  <2> QED BY <1>2, <1>6, <2>1 DEF ReadersFit
<1>14. QueueIsClear'
  BY <1>1, <1>2, <1>6 DEF QueueIsClear
<1>15. StopsFit'
  <2>1. live' = {} /\ stopped' = {}
    BY <1>2, NoOther
  <2>2. \A a \in signalled' : a \in Threads /\ Awaits(a)
    BY <1>1, <1>2 DEF SignalAbort, StopsFit, ControlTypes
  <2> QED BY <1>6, <1>7, <2>1, <2>2 DEF StopsFit
<1>16. ContextsFit'
  BY <1>1 DEF ContextsFit
<1> QED BY <1>9, <1>10, <1>11, <1>12, <1>13, <1>14, <1>15, <1>16

\* run() gives way to a pause() or an abort(), and waits to be told what to do.
LEMMA WaitingKeepsRoles ==
  ASSUME ControlTypes, Roles, NEW t \in Threads, RunAborted(t), op[t] = "run",
         Acts(t), pc[t] # "AwaitResume", Awaited,
         UNCHANGED contexts, UNCHANGED abortQueue
  PROVE  Roles'
<1> USE DEF Roles
<1>1. /\ state \in {"Aborting", "Seeking"} /\ contexts
      /\ abortQueue \in Threads /\ Awaits(abortQueue)
  BY InterruptedFits
<1>2. /\ Start(t, op[t], goal[t], "AwaitResume", [loc[t] EXCEPT !.queue = Len(resumeQueues)])
      /\ UNCHANGED <<state, resumeQueues>> /\ SignalAbort
      /\ live' = live \ {t} /\ stopped' = stopped \ {t}
  BY <1>1, ThreadsAssumption DEF RunAborted, Goto, OffShared
<1>3. /\ Alone(t) /\ pc'[t] = "AwaitResume" /\ op'[t] = op[t] /\ goal'[t] = goal[t]
      /\ "queue" \in DOMAIN loc'[t] /\ loc'[t].queue = Len(resumeQueues)
  BY <1>2, Lands DEF QueuesTyped
<1>4. ~Awaits(t) /\ ~Waiting(t) /\ ~Resuming(t)
  BY DEF Awaits, Waiting, Acts, Resuming
<1>5. \A u \in Threads : ~Resuming(u)
  BY <1>4, NoOther
<1>6. resumeQueues # << >> /\ LastQueue = << >>
  <2>1. UsesQueue(t)
    BY DEF UsesQueue
  <2> QED BY <1>5, <2>1 DEF QueueIsClear
<1>7. Placed(t)' /\ Waiting(t)' /\ ~Acts(t)' /\ ~Awaits(t)' /\ ~Resuming(t)'
  <2>1. Placed(t)
    BY DEF AllPlaced
  <2>2. Queue(t)' = << >>
    BY <1>2, <1>3, <1>6 DEF Queue, LastQueue
  <2> QED BY <1>3, <2>1, <2>2 DEF Placed, Waiting, Queue, Acts, Awaits, Resuming
<1>8. \A u \in Threads : ~Waiting(u)
  BY DEF WaitersFit
<1>9. \A u \in Threads : /\ ~Acts(u)' /\ ~Resuming(u)'
                         /\ Awaits(u)' <=> Awaits(u)
                         /\ Waiting(u)' <=> u = t
  BY <1>2, <1>3, <1>4, <1>7, <1>8, Others, NoOther
<1>10. Awaited'
  BY <1>9 DEF Awaited
<1>11. \A u \in Threads : op'[u] = op[u] /\ goal'[u] = goal[u]
  BY <1>3 DEF Alone
<1>12. QueuesTyped' /\ AllPlaced'
  BY <1>1, <1>2, <1>3, <1>7, Typed DEF QueuesTyped
<1>13. OneActs' /\ ActorsFit'
  BY <1>9 DEF OneActs, ActorsFit
<1>14. AwaitersFit' /\ WaitersFit'
  BY <1>1, <1>2, <1>9, <1>11 DEF AwaitersFit, WaitersFit
<1>15. SomebodyActs'
  BY <1>1, <1>2, <1>9, <1>11 DEF SomebodyActs
<1>16. ReadersFit'
  <2>1. \A u \in Threads \ {t} : pc'[u] = "AwaitResume" =>
           pc[u] = "AwaitResume" /\ loc'[u] = loc[u]
    BY <1>3 DEF Alone
  <2>2. \A u \in Threads \ {t} : pc[u] = "AwaitResume" => loc[u].queue # Len(resumeQueues)
    BY <1>6, <1>8 DEF Waiting, LastQueue
  <2>3. Len(resumeQueues) \in 1 .. Len(resumeQueues)
    BY <1>6, EmptySeq, LenProperties DEF QueuesTyped
  <2>4. \A u \in Threads : pc'[u] = "AwaitResume" =>
           loc'[u].queue \in 1 .. Len(resumeQueues)'
    BY <1>2, <1>3, <2>1, <2>3 DEF ReadersFit
  <2>5. \A u, w \in Threads \ {t} :
           pc'[u] = "AwaitResume" /\ pc'[w] = "AwaitResume" /\ u # w
             => loc'[u].queue # loc'[w].queue
    BY <2>1 DEF ReadersFit
  <2>6. \A u \in Threads \ {t} : pc'[u] = "AwaitResume" => loc'[u].queue # loc'[t].queue
    BY <1>3, <2>1, <2>2
  <2>7. loc'[t].queue = Len(resumeQueues)'
    BY <1>2, <1>3
  <2> QED BY <1>9, <2>4, <2>5, <2>6, <2>7 DEF ReadersFit
<1>17. QueueIsClear'
  BY <1>2, <1>6 DEF QueueIsClear, LastQueue
<1>18. StopsFit'
  <2>1. live' = {} /\ stopped' = {}
    BY <1>2, NoOther
  <2>2. \A a \in signalled' : a \in Threads /\ Awaits(a)
    BY <1>1, <1>2 DEF SignalAbort, StopsFit, ControlTypes
  <2> QED BY <1>9, <1>10, <2>1, <2>2 DEF StopsFit
<1>19. ContextsFit'
  BY <1>1 DEF ContextsFit
<1> QED BY <1>12, <1>13, <1>14, <1>15, <1>16, <1>17, <1>18, <1>19

LEMMA DropsKeepRoles ==
  ASSUME Scope, ControlTypes, Roles, NEW t \in Threads, Drops(t)
  PROVE  Roles'
<1>1. /\ Acts(t) /\ pc[t] # "AwaitResume" /\ Awaited /\ Aborted(t)
      /\ UNCHANGED contexts /\ UNCHANGED abortQueue
  BY DropsForSomebody
<1>2. op[t] \in {"configure", "run", "pause"}
  BY <1>1, InterruptedFits
<1>3. CASE op[t] = "run"
  BY <1>1, <1>3, WaitingKeepsRoles DEF Aborted
<1>4. CASE op[t] # "run"
  BY <1>1, <1>2, <1>4, GivingWayKeepsRoles DEF Aborted
<1> QED BY <1>3, <1>4
--------------------------------------------------------------------------------
(***************************************************************************)
(* Requests                                                                *)
(***************************************************************************)
\* No call comes in the windows that Scope shuts.
Shut == \A u \in Threads : ~Unready(u) /\ ~PauseWaits(u)

LEMMA CallsAreShut ==
  ASSUME Scope, NEW t \in Threads, NEW f, Call(t, f)
  PROVE  Shut
BY DEF Scope, Call, Shut, ConfigureUnready, Unready

\* In a state of rest, nobody is at work.
LEMMA NobodyActs ==
  ASSUME ControlTypes, Roles, Shut,
         state \in {"Disabled", "Aborted", "Ready", "Armed", "Paused", "Finished"}
  PROVE  /\ ~Awaited /\ selfStops = 0 /\ signalled = {} /\ live = {} /\ stopped = {}
         /\ \A t \in Threads : ~Acts(t) /\ ~Resuming(t) /\ ~Awaits(t)
         /\ (\E t \in Threads : Waiting(t)) <=> state = "Paused"
         /\ state \in {"Armed", "Paused", "Finished"}
              => resumeQueues # << >> /\ LastQueue = << >> /\ contexts
<1>1. ~Awaited
  BY DEF Roles, AwaitersFit, Awaited
<1>2. \A t \in Threads : ~Acts(t)
  <2>1. \A t \in Threads : Acts(t) => AtHome(t) /\ Placed(t)
    BY <1>1 DEF Roles, ActorsFit, AllPlaced
  <2> QED BY <2>1 DEF AtHome, Shut, Unready
<1>3. \A t \in Threads : ~Resuming(t) /\ ~Awaits(t)
  BY <1>1, <1>2 DEF Acts, Awaited
<1>4. selfStops = 0 /\ signalled = {} /\ stopped = {}
  BY <1>1, <1>3 DEF Roles, StopsFit, ControlTypes
<1>5. live = {}
  BY <1>2 DEF Roles, StopsFit, ControlTypes, SharedPhases, Acts
<1>6. (\E t \in Threads : Waiting(t)) <=> state = "Paused"
  BY DEF Roles, WaitersFit, SomebodyActs
<1>7. state \in {"Armed", "Paused", "Finished"}
        => resumeQueues # << >> /\ LastQueue = << >> /\ contexts
  BY <1>3 DEF Roles, QueueIsClear, ContextsFit
<1> QED BY <1>1, <1>2, <1>3, <1>4, <1>5, <1>6, <1>7

\* An operation starts while nobody is at work.
LEMMA Begins ==
  ASSUME ControlTypes, Roles, Shut, NEW t \in Threads, pc[t] = "Idle",
         NEW f, NEW end, NEW phase, NEW locals, Start(t, f, end, phase, locals),
         "queue" \in DOMAIN locals,
         state \in {"Disabled", "Aborted", "Ready", "Armed", "Paused", "Finished"},
         phase \notin {"Idle", "AwaitAbort", "AwaitResume"}, Placed(t)', AtHome(t)',
         state = "Paused" => state' \in {"Seeking", "Aborting"},
         state' \in {"Running", "PostRun", "Seeking", "Armed", "Finished"} \/ UsesQueue(t)'
           => state \in {"Armed", "Paused", "Finished"},
         state = "Paused" => f = "abort" \/ (f = "pause" /\ end = "Paused"),
         f = "pause" /\ end = "Paused" => state = "Paused",
         state' \notin {"Paused", "Fault", "Aborted", "PostRun"},
         f = "configure" => phase = "Validate",
         UNCHANGED <<contexts, resumeQueues>>, selfStops' = 0,
         signalled' \subseteq signalled,
         live' \subseteq live \cup {t}, stopped' \subseteq live \cup stopped,
         t \in live' => phase \in SharedPhases
  PROVE  Roles'
<1> USE DEF Roles
<1>1. /\ ~Awaited /\ signalled = {} /\ live = {} /\ stopped = {}
      /\ \A u \in Threads : ~Acts(u) /\ ~Resuming(u) /\ ~Awaits(u)
      /\ (\E u \in Threads : Waiting(u)) <=> state = "Paused"
      /\ state \in {"Armed", "Paused", "Finished"}
           => resumeQueues # << >> /\ LastQueue = << >> /\ contexts
  BY NobodyActs
<1>2. /\ Alone(t) /\ pc'[t] = phase /\ op'[t] = f /\ goal'[t] = end /\ loc'[t] = locals
  BY Lands
<1>3. Acts(t)' /\ ~Awaits(t)' /\ ~Waiting(t)' /\ ~Resuming(t)' /\ ~Waiting(t)
  BY <1>2 DEF Acts, Awaits, Waiting, Resuming
<1>4. \A u \in Threads : /\ Acts(u)' <=> u = t
                         /\ ~Awaits(u)' /\ ~Resuming(u)'
                         /\ Waiting(u)' <=> Waiting(u)
  BY <1>1, <1>2, <1>3, Others
<1>5. ~Awaited'
  BY <1>4 DEF Awaited
<1>6. QueuesTyped' /\ AllPlaced'
  BY <1>2, Typed DEF QueuesTyped
<1>7. OneActs' /\ ActorsFit' /\ AwaitersFit'
  BY <1>4, <1>5 DEF OneActs, ActorsFit, AwaitersFit
<1>8. WaitersFit'
  BY <1>1, <1>2, <1>4 DEF WaitersFit
<1>9. SomebodyActs'
  BY <1>1, <1>2, <1>4 DEF SomebodyActs
<1>10. ReadersFit'
  <2>1. \A u \in Threads : pc'[u] = "AwaitResume" =>
           u # t /\ pc[u] = "AwaitResume" /\ loc'[u] = loc[u]
    BY <1>2 DEF Alone
  <2> QED BY <1>4, <2>1 DEF ReadersFit
<1>11. QueueIsClear'
  <2>1. LastQueue' = LastQueue
    BY DEF LastQueue
  <2> QED BY <1>1, <1>4, <2>1 DEF QueueIsClear
<1>12. StopsFit'
  BY <1>1, <1>2, <1>5 DEF StopsFit
<1>13. ContextsFit'
  <2>1. ~contexts => state \notin {"Armed", "Paused", "Finished"}
    BY <1>1
  <2>2. ~contexts => state' \in {"Disabled", "Resetting", "Ready", "Saving", "Loading",
                                 "Configuring", "Aborting", "Aborted"}
    BY <2>1 DEF AtHome
  <2>3. f = "configure" => Unready(t)'
    BY <1>2 DEF Unready
  <2> QED BY <1>2, <1>4, <1>5, <2>2, <2>3 DEF ContextsFit
<1> QED BY <1>6, <1>7, <1>8, <1>9, <1>10, <1>11, <1>12, <1>13

\* pause() or abort() announces itself to the thread that is at work.
LEMMA Interrupts ==
  ASSUME ControlTypes, Roles, Shut, NEW t \in Threads, pc[t] = "Idle",
         NEW f, NEW end, NEW locals, Start(t, f, end, "AwaitAbort", locals),
         "queue" \in DOMAIN locals,
         \/ /\ f = "abort" /\ end = "Aborted" /\ state' = "Aborting"
            /\ state \in {"Configuring", "Running", "PostRun", "Seeking"}
         \/ f = "pause" /\ end = "Paused" /\ state' = "Seeking" /\ state = "Running",
         UNCHANGED <<contexts, resumeQueues>>, selfStops' = StopSelf,
         abortQueue' = t, signalled' \subseteq signalled,
         live' = live \ {t}, stopped' \subseteq live \cup stopped
  PROVE  Roles'
<1> USE DEF Roles
<1>1. ~Awaited /\ \A u \in Threads : ~Awaits(u)
  BY DEF AwaitersFit, Awaited, Shut, PauseWaits, Awaits
<1>2. ~Acts(t) /\ ~Awaits(t) /\ ~Waiting(t) /\ ~Resuming(t)
  BY DEF Acts, Awaits, Waiting, Resuming
<1>3. PICK u \in Threads : Acts(u)
  BY <1>1 DEF SomebodyActs
<1>4. AtHome(u) /\ Placed(u) /\ ~Unready(u)
  BY <1>1, <1>3 DEF ActorsFit, AllPlaced, Shut
<1>5. Interruptible(u) /\ (state = "Running" => InRun(u))
  BY <1>4 DEF AtHome, Placed, Interruptible, InRun
<1>6. contexts
  <2>1. state = "Configuring" => op[u] = "configure"
    BY <1>4 DEF AtHome, Unready
  <2> QED BY <1>3, <1>4, <2>1 DEF ContextsFit
<1>7. selfStops = 0 /\ selfStops' = 1
  BY <1>1, <1>6 DEF StopsFit, StopSelf, ControlTypes
<1>8. /\ Alone(t) /\ pc'[t] = "AwaitAbort" /\ op'[t] = f /\ goal'[t] = end
      /\ loc'[t] = locals
  BY Lands
<1>9. Placed(t)' /\ Awaits(t)' /\ ~Acts(t)' /\ ~Waiting(t)' /\ ~Resuming(t)'
  BY <1>8 DEF Placed, Acts, Awaits, Waiting, Resuming
<1>10. \A w \in Threads : /\ Acts(w)' <=> Acts(w)
                          /\ Awaits(w)' <=> w = t
                          /\ Waiting(w)' <=> Waiting(w)
                          /\ Resuming(w)' <=> Resuming(w)
  BY <1>1, <1>2, <1>8, <1>9, Others
<1>11. Awaited'
  BY <1>10 DEF Awaited
<1>12. \A w \in Threads \ {t} : /\ op'[w] = op[w] /\ goal'[w] = goal[w]
                                /\ pc'[w] = pc[w] /\ loc'[w] = loc[w]
  BY <1>8 DEF Alone
<1>13. QueuesTyped' /\ AllPlaced'
  BY <1>8, <1>9, Typed DEF QueuesTyped
<1>14. OneActs' /\ AwaitersFit'
  BY <1>8, <1>10 DEF OneActs, AwaitersFit
<1>15. ActorsFit'
  <2>1. ASSUME NEW w \in Threads, Acts(w)' PROVE w = u /\ w # t
    BY <1>2, <1>3, <1>10, <2>1 DEF OneActs
  <2>2. u # t
    BY <1>2, <1>3
  <2>3. Interrupted(u)'
    BY <1>5, <1>12, <2>2 DEF Interrupted, Interruptible, InRun, Unready
  <2> QED BY <1>11, <2>1, <2>3 DEF ActorsFit
<1>16. SomebodyActs'
  BY <1>2, <1>3, <1>8, <1>10, <1>12 DEF SomebodyActs
<1>17. WaitersFit'
  BY <1>2, <1>10, <1>12 DEF WaitersFit
<1>18. ReadersFit'
  <2>1. \A w \in Threads : pc'[w] = "AwaitResume" =>
           w # t /\ pc[w] = "AwaitResume" /\ loc'[w] = loc[w]
    BY <1>8, <1>12
  <2>2. LastQueue' = LastQueue /\ resumeQueues' = resumeQueues
    BY DEF LastQueue
  <2>3. \A w \in Threads : pc'[w] = "AwaitResume" =>
          /\ loc'[w].queue \in 1 .. Len(resumeQueues)
          /\ Waiting(w)' => loc'[w].queue = Len(resumeQueues)
          /\ Resuming(w)' => loc'[w].queue = Len(resumeQueues) /\ LastQueue = <<TRUE>>
    BY <1>10, <2>1 DEF ReadersFit
  <2>4. \A w, x \in Threads : pc'[w] = "AwaitResume" /\ pc'[x] = "AwaitResume" /\ w # x
          => loc'[w].queue # loc'[x].queue
    BY <2>1 DEF ReadersFit
  <2> QED BY <2>2, <2>3, <2>4 DEF ReadersFit
<1>19. QueueIsClear'
  <2>1. \A w \in Threads : Acts(w) => w # t
    BY <1>2
  <2>2. \A w \in Threads : Acts(w)' /\ UsesQueue(w)' => Acts(w) /\ UsesQueue(w)
    BY <1>10, <1>12, <2>1 DEF UsesQueue
  <2>3. LastQueue' = LastQueue
    BY DEF LastQueue
  <2> QED BY <1>10, <2>2, <2>3 DEF QueueIsClear
<1>20. StopsFit'
  <2>1. live' \cup stopped' \subseteq {u} /\ signalled' = {}
    BY <1>1, <1>3, NoOther DEF StopsFit, ControlTypes
  <2>2. \A w \in live' \cup stopped' : pc'[w] \in SharedPhases
    BY <1>2, <1>3, <1>12, <2>1 DEF StopsFit
  <2> QED BY <1>7, <1>11, <2>1, <2>2 DEF StopsFit
<1>21. ContextsFit'
  BY <1>6 DEF ContextsFit
<1> QED BY <1>13, <1>14, <1>15, <1>16, <1>17, <1>18, <1>19, <1>20, <1>21
\* resume(): the run() that waits is the one in charge again.
LEMMA CallResumeKeepsRoles ==
  ASSUME Scope, ControlTypes, Roles, NEW t \in Threads, CallResume(t)
  PROVE  Roles'
<1> USE DEF Roles
<1>1. Shut /\ state = "Paused"
  BY CallsAreShut DEF CallResume, Call, WriteableIn
<1>2. /\ ~Awaited /\ selfStops = 0 /\ signalled = {} /\ live = {} /\ stopped = {}
      /\ \A u \in Threads : ~Acts(u) /\ ~Resuming(u) /\ ~Awaits(u)
      /\ resumeQueues # << >> /\ LastQueue = << >> /\ contexts
  BY <1>1, NobodyActs
<1>3. PICK w \in Threads : Waiting(w)
  BY <1>1, NobodyActs
<1>4. pc[w] = "AwaitResume" /\ loc[w].queue = Len(resumeQueues) /\ op[w] = "run"
  BY <1>3 DEF Waiting, ReadersFit, AllPlaced, Placed
<1>5. /\ UNCHANGED <<pc, op, goal, loc, live, stopped, contexts, selfStops, abortQueue, signalled>>
      /\ state' = "Running" /\ PutResume(TRUE)
  BY DEF CallResume, thread, stops
<1>6. OneChanges(resumeQueues', resumeQueues, Len(resumeQueues), <<TRUE>>)
  <2>1. resumeQueues \in Seq(Seq(BOOLEAN)) /\ <<TRUE>> \in Seq(BOOLEAN)
    BY DEF QueuesTyped
  <2>2. Len(resumeQueues) \in 1 .. Len(resumeQueues)
    BY <1>2, <2>1, EmptySeq, LenProperties
  <2>3. resumeQueues' = [resumeQueues EXCEPT ![Len(resumeQueues)] = <<TRUE>>]
    BY <1>2, <1>5 DEF PutResume, LastQueue
  <2> QED BY <2>1, <2>2, <2>3, QueueChanges
<1>7. LastQueue' = <<TRUE>> /\ Len(resumeQueues') = Len(resumeQueues) /\ resumeQueues' # << >>
  BY <1>6 DEF OneChanges, LastQueue
<1>8. Resuming(w)' /\ ~Waiting(w)'
  <2>1. Queue(w)' = <<TRUE>>
    BY <1>4, <1>5, <1>7 DEF Queue, LastQueue
  <2>2. pc'[w] = "AwaitResume"
    BY <1>4, <1>5
  <2> QED BY <2>1, <2>2, OneRead DEF Resuming, Waiting, Queue
<1>9. \A u \in Threads \ {w} : ~Resuming(u)' /\ ~Waiting(u)'
  <2>1. SUFFICES ASSUME NEW u \in Threads \ {w}, pc[u] = "AwaitResume"
                 PROVE  Queue(u)' # << >> /\ ~Head(Queue(u)')
    BY <1>5 DEF Resuming, Waiting, Queue
  <2>2. loc[u].queue # Len(resumeQueues) /\ loc[u].queue \in 1 .. Len(resumeQueues)
    BY <1>4, <2>1 DEF ReadersFit
  <2>3. Queue(u)' = Queue(u)
    BY <1>5, <1>6, <2>2 DEF Queue, OneChanges
  <2>4. ~Waiting(u) /\ ~Resuming(u)
    BY <1>2, <2>1, <2>2 DEF ReadersFit
  <2> QED BY <2>1, <2>3, <2>4 DEF Waiting, Resuming, Queue
<1>10. \A u \in Threads : /\ Acts(u)' <=> u = w
                          /\ Resuming(u)' <=> u = w
                          /\ ~Awaits(u)' /\ ~Waiting(u)'
  BY <1>2, <1>5, <1>8, <1>9 DEF Acts, Awaits
<1>11. ~Awaited'
  BY <1>10 DEF Awaited
<1>12. QueuesTyped'
  BY <1>5, <1>6 DEF QueuesTyped, OneChanges
<1>13. AllPlaced'
  BY <1>5 DEF AllPlaced, Placed
<1>14. OneActs' /\ AwaitersFit' /\ WaitersFit'
  BY <1>10 DEF OneActs, AwaitersFit, WaitersFit
<1>15. ActorsFit'
  <2>1. AtHome(w)'
    BY <1>4, <1>5 DEF AtHome, InRun
  <2> QED BY <1>10, <1>11, <2>1 DEF ActorsFit
<1>16. SomebodyActs'
  BY <1>4, <1>5, <1>10 DEF SomebodyActs
<1>17. ReadersFit'
  BY <1>4, <1>5, <1>7, <1>10 DEF ReadersFit
<1>18. QueueIsClear'
  BY <1>7, <1>10 DEF QueueIsClear
<1>19. StopsFit'
  BY <1>2, <1>5, <1>11 DEF StopsFit
<1>20. ContextsFit'
  BY <1>2, <1>5 DEF ContextsFit
<1> QED BY <1>12, <1>13, <1>14, <1>15, <1>16, <1>17, <1>18, <1>19, <1>20

LEMMA CallStatefulKeepsRoles ==
  ASSUME Scope, ControlTypes, Roles, NEW t \in Threads, NEW f \in DOMAIN StartState,
         CallStateful(t, f)
  PROVE  Roles'
<1>1. Shut
  BY CallsAreShut DEF CallStateful
<1>2. f \in {"init", "reset", "save", "load"}
  BY DEF StartState
<1>3. /\ state \in {"Disabled", "Aborted", "Ready", "Armed", "Finished"}
      /\ pc[t] = "Idle"
  BY <1>2 DEF CallStateful, Call, WriteableIn, Roles, AllPlaced
<1>4. StartState[f] \in {"Resetting", "Saving", "Loading"} /\ EndState[f] = "Ready"
  BY <1>2 DEF StartState, EndState
<1>5. /\ state' = StartState[f] /\ Start(t, f, "Ready", "Stateful", NoLocals)
      /\ UNCHANGED <<contexts, resumeQueues, signalled, selfStops>>
      /\ live' = live \ {t} /\ stopped' = stopped \ {t}
  BY <1>4 DEF CallStateful, Transition, OffShared, stops
<1>6. /\ pc'[t] = "Stateful" /\ op'[t] = f /\ goal'[t] = "Ready"
  BY <1>5, Lands DEF Roles
<1>7. Placed(t)' /\ AtHome(t)' /\ ~UsesQueue(t)'
  BY <1>2, <1>4, <1>5, <1>6 DEF Placed, AtHome, UsesQueue
<1>8. selfStops = 0
  BY <1>1, <1>3, NobodyActs
<1> HIDE DEF NoLocals
<1> QED BY <1>1, <1>2, <1>3, <1>4, <1>5, <1>7, <1>8, NoLocalsHasQueue, Begins

LEMMA CallConfigureKeepsRoles ==
  ASSUME Scope, ControlTypes, Roles, NEW t \in Threads, CallConfigure(t)
  PROVE  Roles'
<1>1. Shut
  BY CallsAreShut DEF CallConfigure
<1>2. state \in {"Ready", "Finished"} /\ pc[t] = "Idle"
  BY DEF CallConfigure, Call, WriteableIn
<1>3. PICK s \in Scans :
        Start(t, "configure", "Armed", "Validate", [NoLocals EXCEPT !.scan = s])
  BY DEF CallConfigure
<1>4. /\ UNCHANGED <<state, contexts, resumeQueues, signalled, selfStops>>
      /\ live' = live \ {t} /\ stopped' = stopped \ {t}
  BY DEF CallConfigure, OffShared, stops
<1>5. pc'[t] = "Validate" /\ op'[t] = "configure" /\ goal'[t] = "Armed"
  BY <1>3, Lands DEF Roles
<1>6. Placed(t)' /\ AtHome(t)' /\ ~UsesQueue(t)'
  BY <1>2, <1>4, <1>5 DEF Placed, AtHome, UsesQueue
<1>7. selfStops = 0
  BY <1>1, <1>2, NobodyActs
<1> HIDE DEF NoLocals
<1> QED BY <1>1, <1>2, <1>3, <1>4, <1>6, <1>7, NoLocalsHasQueue, Begins

LEMMA CallRunKeepsRoles ==
  ASSUME Scope, ControlTypes, Roles, NEW t \in Threads, CallRun(t)
  PROVE  Roles'
<1>1. Shut
  BY CallsAreShut DEF CallRun
<1>2. state = "Armed" /\ pc[t] = "Idle"
  BY DEF CallRun, Call, WriteableIn
<1>3. /\ Start(t, "run", RunGoal, "PreRun", NoLocals) /\ RunGoal \in {"Armed", "Finished"}
      /\ state' = "Running" /\ UNCHANGED <<contexts, resumeQueues, signalled, selfStops>>
      /\ live' = live \cup {t} /\ stopped' = stopped \ {t}
  BY DEF CallRun, Transition, OnShared, stops, RunGoal
<1>4. pc'[t] = "PreRun" /\ op'[t] = "run" /\ goal'[t] = RunGoal
  BY <1>3, Lands DEF Roles
<1>5. Placed(t)' /\ AtHome(t)'
  BY <1>3, <1>4 DEF Placed, AtHome, InRun
<1>6. selfStops = 0
  BY <1>1, <1>2, NobodyActs
<1>7. "PreRun" \in SharedPhases
  BY DEF SharedPhases
<1> HIDE DEF NoLocals
<1> QED BY <1>1, <1>2, <1>3, <1>5, <1>6, <1>7, NoLocalsHasQueue, Begins

LEMMA CallAbortKeepsRoles ==
  ASSUME Scope, ControlTypes, Roles, NEW t \in Threads, CallAbort(t)
  PROVE  Roles'
<1>1. Shut
  BY CallsAreShut DEF CallAbort
<1>2. state \in NormalStates /\ pc[t] = "Idle"
  BY DEF CallAbort, Call, WriteableIn
<1>3. /\ state' = "Aborting" /\ UNCHANGED <<contexts, resumeQueues>>
      /\ abortQueue' = t /\ signalled' = signalled \ {t}
      /\ stopped' = (stopped \cup live) \ {t} /\ live' = live \ {t}
  BY DEF CallAbort, TryAborting, StopHooks
<1>4. CASE state \in RestingStates
  <2>1. Start(t, "abort", "Aborted", "Abort", NoLocals) /\ selfStops' = 0
    BY <1>4 DEF CallAbort, TryAborting, IgnoreStops
  <2>2. pc'[t] = "Abort" /\ op'[t] = "abort" /\ goal'[t] = "Aborted"
    BY <2>1, Lands DEF Roles
  <2>3. Placed(t)' /\ AtHome(t)' /\ ~UsesQueue(t)'
    BY <1>3, <2>2 DEF Placed, AtHome, UsesQueue
  <2>4. state \in {"Ready", "Armed", "Paused", "Finished"}
    BY <1>4 DEF RestingStates
  <2> HIDE DEF NoLocals
  <2> QED BY <1>1, <1>2, <1>3, <2>1, <2>3, <2>4, NoLocalsHasQueue, Begins
<1>5. CASE state \notin RestingStates
  <2>1. Start(t, "abort", "Aborted", "AwaitAbort", NoLocals) /\ selfStops' = StopSelf
    BY <1>5 DEF CallAbort, TryAborting
  <2>2. state \in {"Configuring", "Running", "PostRun", "Seeking"}
    BY <1>2, <1>5 DEF NormalStates, RestingStates
  <2> HIDE DEF NoLocals
  <2> QED BY <1>1, <1>2, <1>3, <2>1, <2>2, NoLocalsHasQueue, Interrupts
<1> QED BY <1>4, <1>5

LEMMA CallPauseKeepsRoles ==
  ASSUME Scope, ControlTypes, Roles, NEW t \in Threads, CallPause(t)
  PROVE  Roles'
<1>1. Shut
  BY CallsAreShut DEF CallPause
<1>2. state \in {"Armed", "Paused", "Running", "Finished"} /\ pc[t] = "Idle"
  BY DEF CallPause, Call, WriteableIn
<1> DEFINE end == IF state \in {"Armed", "Finished"} THEN "Armed" ELSE "Paused"
<1>3. PICK n \in PauseArguments :
        TryAborting(t, "pause", "Seeking", end, "Pause",
                    [NoLocals EXCEPT !.from = LastGoodStep(n)])
  BY DEF CallPause
<1> DEFINE locals == [NoLocals EXCEPT !.from = LastGoodStep(n)]
<1>4. "queue" \in DOMAIN locals
  BY NoLocalsHasQueue
<1> HIDE DEF locals
<1>5. /\ state' = "Seeking" /\ UNCHANGED <<contexts, resumeQueues>>
      /\ abortQueue' = t /\ signalled' = signalled \ {t}
      /\ stopped' = (stopped \cup live) \ {t} /\ live' = live \ {t}
  BY <1>3 DEF TryAborting, StopHooks
<1>6. CASE state \in RestingStates
  <2>1. Start(t, "pause", end, "Pause", locals) /\ selfStops' = 0
    BY <1>3, <1>6 DEF TryAborting, IgnoreStops, locals
  <2>2. pc'[t] = "Pause" /\ op'[t] = "pause" /\ goal'[t] = end
    BY <2>1, Lands DEF Roles
  <2>3. Placed(t)' /\ AtHome(t)'
    BY <1>5, <2>2 DEF Placed, AtHome
  <2>4. state \in {"Armed", "Paused", "Finished"}
    BY <1>2, <1>6 DEF RestingStates
  <2> QED BY <1>1, <1>2, <1>4, <1>5, <2>1, <2>3, <2>4, Begins
<1>7. CASE state \notin RestingStates
  <2>1. state = "Running"
    BY <1>2, <1>7 DEF RestingStates
  <2>2. Start(t, "pause", "Paused", "AwaitAbort", locals) /\ selfStops' = StopSelf
    BY <1>3, <1>7, <2>1 DEF TryAborting, locals
  <2> QED BY <1>1, <1>2, <1>4, <1>5, <2>1, <2>2, Interrupts
<1> QED BY <1>6, <1>7
--------------------------------------------------------------------------------
(***************************************************************************)
(* Every step keeps the roles                                              *)
(***************************************************************************)
\* Calls are counted down, failures up.
LEMMA CallsCount ==
  ASSUME BudgetFits, NEW t \in Threads, NEW f \in Operations, Call(t, f)
  PROVE  BudgetFits' /\ (Undisturbed' => Undisturbed /\ f \notin {"disable", "halt"})
<1>1. /\ faults' = faults /\ budget[f] > 0 /\ DOMAIN budget' = Operations
      /\ budget'[f] = budget[f] - 1
      /\ \A g \in Operations : g # f => budget'[g] = budget[g]
  BY DEF Call, BudgetFits
<1>2. \A g \in Operations : budget[g] \in Nat /\ budget[g] <= Calls[g] /\ Calls[g] \in Nat
  BY BoundsAssumption DEF BudgetFits
<1>3. budget'[f] \in Nat /\ budget'[f] < Calls[f]
  BY <1>1, <1>2
<1>4. BudgetFits'
  BY <1>1, <1>2, <1>3 DEF BudgetFits
<1>5. Undisturbed' => f \notin {"disable", "halt"}
  BY <1>3 DEF Undisturbed
<1>6. "disable" \in Operations /\ "halt" \in Operations
  BY DEF Operations
<1> QED BY <1>1, <1>4, <1>5, <1>6 DEF Undisturbed

LEMMA RequestsKeepRoles ==
  ASSUME Scope, ControlTypes, BudgetFits, Undisturbed => Roles,
         NEW t \in Threads, Requests(t)
  PROVE  BudgetFits' /\ (Undisturbed' => Roles')
<1>1. CASE \E f \in DOMAIN StartState : CallStateful(t, f)
  <2>1. PICK f \in DOMAIN StartState : CallStateful(t, f)
    BY <1>1
  <2>2. f \in Operations
    BY DEF StartState, Operations
  <2>3. BudgetFits' /\ (Undisturbed' => Undisturbed)
    BY <2>1, <2>2, CallsCount DEF CallStateful
  <2> QED BY <2>1, <2>3, CallStatefulKeepsRoles
<1>2. CASE CallDisable(t)
  <2>1. "disable" \in Operations
    BY DEF Operations
  <2> QED BY <1>2, <2>1, CallsCount DEF CallDisable
<1>3. CASE CallHalt(t)
  <2>1. "halt" \in Operations
    BY DEF Operations
  <2> QED BY <1>3, <2>1, CallsCount DEF CallHalt
<1>4. CASE CallConfigure(t)
  <2>1. "configure" \in Operations
    BY DEF Operations
  <2> QED BY <1>4, <2>1, CallsCount, CallConfigureKeepsRoles DEF CallConfigure
<1>5. CASE CallRun(t)
  <2>1. "run" \in Operations
    BY DEF Operations
  <2> QED BY <1>5, <2>1, CallsCount, CallRunKeepsRoles DEF CallRun
<1>6. CASE CallResume(t)
  <2>1. "resume" \in Operations
    BY DEF Operations
  <2> QED BY <1>6, <2>1, CallsCount, CallResumeKeepsRoles DEF CallResume
<1>7. CASE CallAbort(t)
  <2>1. "abort" \in Operations
    BY DEF Operations
  <2> QED BY <1>7, <2>1, CallsCount, CallAbortKeepsRoles DEF CallAbort
<1>8. CASE CallPause(t)
  <2>1. "pause" \in Operations
    BY DEF Operations
  <2> QED BY <1>8, <2>1, CallsCount, CallPauseKeepsRoles DEF CallPause
<1> QED BY <1>1, <1>2, <1>3, <1>4, <1>5, <1>6, <1>7, <1>8 DEF Requests

\* A part fails: from here on, anything may happen.
Fails(t) == ScanRejected(t) \/ HookFails(t) \/ ChildAborted(t)

LEMMA StepsCount ==
  ASSUME NEW t \in Threads, Step(t) \/ Progress(t)
  PROVE  budget' = budget /\ (faults' = faults \/ (faults' = faults + 1 /\ Fails(t)))
<1>1. CASE Progress(t)
  BY <1>1 DEF Progress, env
<1>2. CASE ConfigureStep(t)
  BY <1>2 DEF ConfigureStep, ValidateDone, ConfigResetDone, ContextsCleared,
     PreConfigureDone, ScanRejected, ConfigStatusDone, ConfigureDone,
     PostConfigureDone, env, Fails
<1>3. CASE RunStep(t)
  BY <1>3 DEF RunStep, PreRunDone, RunDone, RunRefused, RunStatusDone,
     PostRunArmedDone, PostRunReadyDone, Resumed, env
<1>4. CASE AbortStep(t)
  BY <1>4 DEF AbortStep, AbortAnswered, AbortDone, PauseDone, SeekStatusDone,
     SeekDone, env
<1>5. CASE EndStep(t)
  BY <1>5 DEF EndStep, Settled, SettleRefused, StatefulDone, HaltDone, HookFails,
     HookStopped, ChildAborted, env, Fails
<1> QED BY <1>1, <1>2, <1>3, <1>4, <1>5 DEF Step

LEMMA StepKeepsRoles ==
  ASSUME Scope, ControlTypes, Roles, NEW t \in Threads, Step(t), ~Fails(t)
  PROVE  Roles'
<1>1. CASE ConfigureStep(t)
  BY <1>1, ValidateKeepsRoles, ContextsKeepRoles, PostConfigureKeepsRoles, GoingOnKeepsRoles
     DEF ConfigureStep, GoingOn, Fails
<1>2. CASE RunStep(t)
  BY <1>2, RunDoneKeepsRoles, ResumeKeepsRoles, DropOutKeepsRoles, DropsKeepRoles,
     GoingOnKeepsRoles
     DEF RunStep, GoingOn, Drops
<1>3. CASE AbortStep(t)
  BY <1>3, AnswerKeepsRoles, GoingOnKeepsRoles DEF AbortStep, GoingOn
<1>4. CASE EndStep(t)
  <2>1. ~HaltDone(t)
    BY DEF HaltDone, Roles, AllPlaced, Placed
  <2> QED BY <1>4, <2>1, SettledKeepsRoles, AbortedKeepsRoles, StatefulKeepsRoles,
          DropsKeepRoles DEF EndStep, Drops, Fails
<1> QED BY <1>1, <1>2, <1>3, <1>4 DEF Step

LEMMA ProgressKeepsRoles ==
  ASSUME Roles,
         UNCHANGED <<state, thread, live, stopped, stops, abortQueue, signalled, resumeQueues>>
  PROVE  Roles'
<1> USE DEF thread, stops
<1>1. \A u : /\ Acts(u)' <=> Acts(u)
             /\ Awaits(u)' <=> Awaits(u)
             /\ Waiting(u)' <=> Waiting(u)
             /\ Resuming(u)' <=> Resuming(u)
             /\ Placed(u)' <=> Placed(u)
             /\ AtHome(u)' <=> AtHome(u)
             /\ Interrupted(u)' <=> Interrupted(u)
             /\ UsesQueue(u)' <=> UsesQueue(u)
             /\ Unready(u)' <=> Unready(u)
  <2> TAKE u
  <2>1. /\ Waiting(u)' <=> Waiting(u)
        /\ Resuming(u)' <=> Resuming(u)
    BY DEF Waiting, Resuming, Queue
  <2>2. /\ Acts(u)' <=> Acts(u)
        /\ Awaits(u)' <=> Awaits(u)
    BY <2>1 DEF Acts, Awaits
  <2>3. /\ InRun(u)' <=> InRun(u)
        /\ Unready(u)' <=> Unready(u)
        /\ UsesQueue(u)' <=> UsesQueue(u)
    BY DEF InRun, Unready, UsesQueue
  <2>4. Placed(u)' <=> Placed(u)
    BY DEF Placed
  <2>5. AtHome(u)' <=> AtHome(u)
    BY <2>3 DEF AtHome
  <2>6. Interrupted(u)' <=> Interrupted(u)
    BY <2>3 DEF Interrupted, Interruptible
  <2> QED BY <2>1, <2>2, <2>3, <2>4, <2>5, <2>6
<1>2. Awaited' <=> Awaited
  BY <1>1 DEF Awaited
<1>3. QueuesTyped' /\ AllPlaced'
  BY <1>1 DEF Roles, QueuesTyped, AllPlaced
<1>4. OneActs' /\ AwaitersFit' /\ ActorsFit'
  BY <1>1, <1>2 DEF Roles, OneActs, AwaitersFit, ActorsFit
<1>5. SomebodyActs' /\ WaitersFit'
  BY <1>1 DEF Roles, SomebodyActs, WaitersFit
<1>6. ReadersFit' /\ QueueIsClear'
  BY <1>1 DEF Roles, ReadersFit, QueueIsClear, LastQueue
<1>7. StopsFit' /\ ContextsFit'
  BY <1>1, <1>2 DEF Roles, StopsFit, ContextsFit
<1> QED BY <1>3, <1>4, <1>5, <1>6, <1>7 DEF Roles

LEMMA InitRoles ==
  ASSUME Init
  PROVE  BudgetFits /\ Roles
<1> USE DEF Init
<1>1. BudgetFits
  BY BoundsAssumption DEF BudgetFits
<1>2. \A t \in Threads : /\ pc[t] = "Idle" /\ loc[t] = NoLocals /\ Placed(t)
                         /\ ~Acts(t) /\ ~Awaits(t) /\ ~Waiting(t) /\ ~Resuming(t)
  BY DEF Placed, Acts, Awaits, Waiting, Resuming
<1>3. ~Awaited
  BY <1>2 DEF Awaited
<1>4. QueuesTyped
  BY NoLocalsHasQueue DEF QueuesTyped
<1>5. AllPlaced /\ OneActs /\ AwaitersFit /\ ActorsFit /\ SomebodyActs /\ WaitersFit
  BY <1>2 DEF AllPlaced, OneActs, AwaitersFit, ActorsFit, SomebodyActs, WaitersFit
<1>6. ReadersFit /\ QueueIsClear
  BY <1>2 DEF ReadersFit, QueueIsClear
<1>7. StopsFit /\ ContextsFit
  BY <1>2, <1>3 DEF StopsFit, ContextsFit
<1> QED BY <1>1, <1>4, <1>5, <1>6, <1>7 DEF Roles

LEMMA NextKeepsRoles ==
  ASSUME Scope, ControlTypes, RolesFit, [Next]_vars
  PROVE  RolesFit'
<1> USE DEF RolesFit
<1>1. CASE Next
  <2>1. PICK t \in Threads : Requests(t) \/ Progress(t) \/ Step(t)
    BY <1>1 DEF Next
  <2>2. CASE Requests(t)
    BY <2>2, RequestsKeepRoles
  <2>3. CASE Progress(t) \/ Step(t)
    <3>1. budget' = budget /\ (faults' = faults \/ (faults' = faults + 1 /\ Fails(t)))
      BY <2>3, StepsCount
    <3>2. BudgetFits'
      BY <3>1 DEF BudgetFits
    <3>3. CASE Fails(t)
      <4>1. faults' = faults + 1
        BY <3>3 DEF Fails, ScanRejected, HookFails, ChildAborted
      <4>2. ~Undisturbed'
        BY <4>1 DEF BudgetFits, Undisturbed
      <4> QED BY <3>2, <4>2
    <3>4. CASE ~Fails(t)
      <4>1. Undisturbed' => Undisturbed
        BY <3>1, <3>4 DEF Undisturbed
      <4>2. Progress(t) /\ Roles => Roles'
        BY ProgressKeepsRoles DEF Progress
      <4> QED BY <2>3, <3>2, <3>4, <4>1, <4>2, StepKeepsRoles
    <3> QED BY <3>3, <3>4
  <2> QED BY <2>1, <2>2, <2>3
<1>2. CASE UNCHANGED vars
  <2>1. Undisturbed' => Undisturbed
    BY <1>2 DEF vars, env, Undisturbed
  <2>2. BudgetFits'
    BY <1>2 DEF vars, env, BudgetFits
  <2>3. Roles => Roles'
    BY <1>2, ProgressKeepsRoles DEF vars
  <2> QED BY <2>1, <2>2, <2>3
<1> QED BY <1>1, <1>2

--------------------------------------------------------------------------------
(***************************************************************************)
(* What follows from the roles                                             *)
(***************************************************************************)
\* Whatever the clients call, at most one thread is at work on the block, and each
\* one that waits, waits for something that is going to come.
THEOREM RolesAreKept ==
  ASSUME Scope
  PROVE  Spec => [](Undisturbed => Roles)
<1>1. Init => RolesFit
  BY InitRoles DEF RolesFit
<1>2. ControlTypes /\ RolesFit /\ [Next]_vars => RolesFit'
  BY NextKeepsRoles
<1>3. RolesFit => (Undisturbed => Roles)
  BY DEF RolesFit
<1> QED BY <1>1, <1>2, <1>3, ControlTyped, PTL DEF Spec

\* In a state that nobody is to interrupt, whoever acts is at home.
LEMMA ActsAtHome ==
  ASSUME Roles, state \notin {"Aborting", "Seeking"}, NEW t \in Threads, Acts(t)
  PROVE  AtHome(t) /\ Placed(t)
<1>1. ~Awaited
  BY DEF Roles, AwaitersFit, Awaited
<1> QED BY <1>1 DEF Roles, ActorsFit, AllPlaced

\* A running scan has the run() that works on it and a paused one the run() that
\* resume() will wake, and neither reads an answer that was meant for another: until
\* a part fails or somebody disables the block, while hooks stop in time and no call
\* comes in the windows of configure() and pause().
THEOREM AnswersFindRuns ==
  ASSUME Scope
  PROVE  Spec => [](Undisturbed => AnswersFindTheirRun)
<1>1. Roles => AnswersFindTheirRun
  <2> SUFFICES ASSUME Roles PROVE AnswersFindTheirRun
    OBVIOUS
  <2>1. state = "Running" => \E t \in Threads : InRun(t) /\ ~Waiting(t)
    <3>1. SUFFICES ASSUME state = "Running" PROVE \E t \in Threads : InRun(t) /\ ~Waiting(t)
      OBVIOUS
    <3>2. PICK t \in Threads : Acts(t)
      BY <3>1 DEF Roles, SomebodyActs
    <3>3. AtHome(t) /\ Placed(t)
      BY <3>1, <3>2, ActsAtHome
    <3>4. InRun(t)
      BY <3>1, <3>3 DEF AtHome
    <3>5. ~Waiting(t)
      BY <3>2 DEF Acts, Waiting, Resuming, Queue
    <3> QED BY <3>4, <3>5
  <2>2. state = "Paused" => \E t \in Threads : Waiting(t) /\ loc[t].queue = Len(resumeQueues)
    BY DEF Roles, SomebodyActs, ReadersFit, Waiting
  <2>3. RunIsThere
    BY <2>1, <2>2 DEF RunIsThere, InRun
  <2>4. NoStaleResume
    <3>1. SUFFICES ASSUME state \in {"Armed", "Paused", "Finished"}
                   PROVE  \A t \in Threads : ~Resuming(t)
      BY DEF Roles, QueueIsClear, NoStaleResume, LastQueue
    <3>2. SUFFICES ASSUME NEW t \in Threads, Resuming(t) PROVE FALSE
      OBVIOUS
    <3>3. AtHome(t) /\ Placed(t) /\ pc[t] = "AwaitResume"
      BY <3>1, <3>2, ActsAtHome DEF Acts, Resuming
    <3> QED BY <3>1, <3>3 DEF AtHome, Placed
  <2> QED BY <2>3, <2>4 DEF AnswersFindTheirRun
<1> QED BY <1>1, RolesAreKept, PTL

\* Then the block never ends in Fault, and in Aborted only when no hook of the scan
\* runs any more, in whatever order abort(), pause(), run() and reset() meet.
THEOREM OutcomesAreTrue ==
  ASSUME Scope
  PROVE  Spec => [](Undisturbed => OutcomeIsTrue)
<1>1. ControlTypes /\ Roles => OutcomeIsTrue
  <2> SUFFICES ASSUME ControlTypes, Roles PROVE OutcomeIsTrue
    OBVIOUS
  <2>1. FaultOnlyOnError
    BY DEF Roles, AllPlaced, FaultOnlyOnError
  <2>2. AbortedIsQuiet
    <3>1. SUFFICES ASSUME state = "Aborted", NEW t \in live PROVE FALSE
      BY DEF AbortedIsQuiet
    <3>2. t \in Threads /\ Acts(t) /\ pc[t] \in SharedPhases
      BY DEF ControlTypes, Roles, StopsFit, SharedPhases, Acts
    <3>3. AtHome(t)
      BY <3>1, <3>2, ActsAtHome
    <3> QED BY <3>1, <3>3 DEF AtHome
  <2> QED BY <2>1, <2>2 DEF OutcomeIsTrue
<1> QED BY <1>1, RolesAreKept, ControlTyped, PTL

\* Then no run() is left to wait in a scan that nobody can resume or abort any more.
THEOREM NoRunIsLeft ==
  ASSUME Scope
  PROVE  Spec => [](Undisturbed => NoRunLeftBehind)
<1>1. Roles => NoRunLeftBehind
  BY DEF Roles, WaitersFit, NoRunLeftBehind
<1> QED BY <1>1, RolesAreKept, PTL

\* Then an operation that has reached its last transition in charge of the block is
\* not refused it by a STOP that was meant for another.
THEOREM NoStopIsLeft ==
  ASSUME Scope
  PROVE  Spec => [](Undisturbed => NoLeftoverStop)
<1>1. ControlTypes /\ Roles => NoLeftoverStop
  <2> SUFFICES ASSUME ControlTypes, Roles, NEW t \in Threads, pc[t] = "Settle",
                      state \in BusyStates, WorksOn(t, state)
               PROVE  selfStops = 0
    BY DEF NoLeftoverStop
  <2>1. Acts(t) /\ Placed(t)
    BY DEF Acts, Roles, AllPlaced
  <2>2. ~Interrupted(t) \/ ~Awaited
    <3>1. SUFFICES ASSUME Awaited PROVE ~Interrupted(t)
      OBVIOUS
    <3>2. state \in {"Aborting", "Seeking"}
      BY <3>1 DEF Roles, AwaitersFit, Awaited
    <3>3. state = "Aborting" => op[t] = "abort"
      BY DEF WorksOn, Owners
    <3>4. ~InRun(t)
      BY DEF InRun
    <3> QED BY <3>2, <3>3, <3>4 DEF Interrupted, Interruptible
  <2>3. ~Awaited
    BY <2>1, <2>2 DEF Roles, ActorsFit
  <2> QED BY <2>3 DEF Roles, StopsFit, ControlTypes
<1> QED BY <1>1, RolesAreKept, ControlTyped, PTL

--------------------------------------------------------------------------------
(***************************************************************************)
(* The steps of a scan                                                     *)
(*                                                                         *)
(* Each run is configured, paused, seeked and resumed within its ends,     *)
(* and the next one up to the end that follows. Runs and breakpoints are   *)
(* those that get_steps_per_run can make, seeks stay within the run in     *)
(* progress (SeekAnywhere = FALSE), and the rest is as the roles have it.  *)
(* The types of the steps follow from where the runs end.                  *)
(*                                                                         *)
(* First, runs.                                                            *)
(***************************************************************************)
\* The run with that breakpoint_index takes the scan from step first to step last.
RunOf(s, index, first, last) ==
  IF s.ends = << >>
  THEN /\ index = 0
       /\ last = first + s.steps[1]
       /\ \E n \in Nat : first = n * s.steps[1]
  ELSE /\ index \in 0 .. Len(s.ends) - 1
       /\ last = s.ends[index + 1]
       /\ first = IF index = 0 THEN 0 ELSE s.ends[index]

\* Step n is to be done by the run that ends at last.
ToDo(n, last) ==
  \E first \in Nat : /\ RunOf(scan, breakpointIndex, first, last)
                     /\ first <= n /\ n < last

--------------------------------------------------------------------------------
(***************************************************************************)
(* The inductive invariant                                                 *)
(***************************************************************************)
\* A scan is configured.
HasScan ==
  /\ scan \in ScanRecords /\ total = scan.total
  /\ completed \in Nat /\ configured \in Nat
  /\ scan.ends = << >> => breakpointIndex = 0

\* A run is configured, and some of it may be done.
HasRun ==
  /\ HasScan
  /\ configured <= total
  /\ \E first \in Nat : /\ RunOf(scan, breakpointIndex, first, configured)
                        /\ first <= completed /\ completed <= configured

\* A run is configured and not yet done.
HasNextRun == HasRun /\ completed < configured

AllDone == HasScan /\ completed = total /\ configured = total

\* What configure() has done so far
ConfigureFits(t) ==
  /\ pc[t] \in {"ConfigStatus", "Configure", "PostConfigure", "Settle"} =>
       /\ scan \in ScanRecords /\ total = scan.total /\ completed = 0 /\ configured \in Nat
  /\ pc[t] \in {"Configure", "PostConfigure"} =>
       breakpointIndex = 0 /\ loc[t].target = scan.steps[1]
  /\ pc[t] = "Settle" => breakpointIndex = 0 /\ configured = scan.steps[1]

\* what run() has done since its hooks,
PostRunFits(t) ==
  /\ pc[t] \in {"RunStatus", "PostRunArmed"} =>
       /\ HasScan /\ goal[t] = "Armed" /\ configured = loc[t].from
       /\ loc[t].from \in Nat /\ loc[t].target \in Nat /\ loc[t].target <= total
       /\ RunOf(scan, breakpointIndex, loc[t].from, loc[t].target)
  /\ pc[t] = "PostRunArmed" => completed = loc[t].from
  /\ pc[t] = "PostRunReady" => AllDone /\ goal[t] = "Finished"
  /\ pc[t] = "Settle" => IF goal[t] = "Armed" THEN HasNextRun ELSE AllDone

\* and pause(): one that is to end in Paused stays in the run, of which parts may
\* still report.
PauseFits(t) ==
  /\ HasScan
  /\ loc[t].from \in 0 .. total - 1
  /\ goal[t] = "Paused" => HasRun
  /\ goal[t] = "Paused" /\ pc[t] \in {"AwaitAbort", "Pause"} => ToDo(loc[t].from, configured)
  /\ pc[t] \in {"SeekStatus", "Seek"} =>
       /\ loc[t].target \in Nat /\ loc[t].target <= total
       /\ ToDo(loc[t].from, loc[t].target)
       /\ goal[t] = "Paused" => loc[t].target = configured
  /\ pc[t] = "Seek" => goal[t] = "Paused" \/ completed = loc[t].from
  /\ pc[t] = "Settle" => IF goal[t] = "Paused" THEN HasRun ELSE HasNextRun

\* A run() in its hooks, or one that resume() would wake
Follows(t) == InRun(t) /\ (Acts(t) \/ Waiting(t))

LocalsFit ==
  \A t \in Threads :
    /\ DOMAIN loc[t] = {"from", "target", "scan", "queue"}
    /\ op[t] = "configure" => loc[t].scan \in ScanRecords

AtRest ==
  /\ state = "Armed" => HasNextRun
  /\ state \in {"Paused", "Running"} => HasRun
  /\ state = "Finished" => AllDone

\* What each thread is about; run() means to end where the run that is configured ends.
Fits(t) ==
  /\ state = "Configuring" /\ Acts(t) => ConfigureFits(t)
  /\ state = "PostRun" /\ Acts(t) => PostRunFits(t)
  /\ state = "Seeking" /\ op[t] = "pause" /\ pc[t] # "Idle" => PauseFits(t)
  /\ state \in {"Running", "Paused", "Seeking"} /\ Follows(t) => goal[t] = RunGoal

Steps == LocalsFit /\ AtRest /\ \A t \in Threads : Fits(t)

StepsInv == Undisturbed => Steps

--------------------------------------------------------------------------------
(***************************************************************************)
(* Runs follow one another                                                 *)
(***************************************************************************)
LEMMA SmallestOf ==
  ASSUME NEW S \in SUBSET Nat, S # {}
  PROVE  \E x \in S : \A y \in S : x <= y
<1> DEFINE R == {ss \in Nat \X Nat : ss[1] < ss[2]}
<1>1. IsWellFoundedOn(R, Nat)
  BY NatLessThanWellFounded DEF OpToRel
<1>2. PICK x \in S : \A y \in S : ~(<<y, x>> \in R)
  BY <1>1, WFMin
<1>3. \A y \in S : <<y, x>> \in Nat \X Nat /\ <<y, x>>[1] = y /\ <<y, x>>[2] = x
  OBVIOUS
<1>4. \A y \in S : ~(y < x)
  BY <1>2, <1>3
<1> QED BY <1>4

\* What the fields of a scan are
LEMMA ScanHas ==
  ASSUME NEW s \in ScanRecords
  PROVE  /\ s.total \in Nat /\ s.total > 0
         /\ Len(s.steps) \in Nat /\ 1 \in 1 .. Len(s.steps)
         /\ \A n \in 1 .. Len(s.steps) : s.steps[n] \in Nat /\ s.steps[n] > 0
         /\ s.ends = << >> => \E n \in 1 .. s.total : s.total = n * s.steps[1]
         /\ s.ends # << >> =>
              /\ Len(s.ends) = Len(s.steps) /\ DOMAIN s.ends = 1 .. Len(s.ends)
              /\ \A n \in 1 .. Len(s.ends) : s.ends[n] \in Nat /\ s.ends[n] > 0
              /\ \E n \in 1 .. Len(s.ends) : s.total = s.ends[n]
              /\ \A n \in 1 .. Len(s.ends) :
                   s.ends[n] = s.steps[n] + (IF n = 1 THEN 0 ELSE s.ends[n - 1])
<1>1. s.total \in Positive /\ s.steps \in Seq(Positive) /\ s.ends \in Seq(Positive)
  BY DEF ScanRecords
<1>2. Len(s.steps) \in Nat /\ Len(s.steps) # 0 /\ s.steps # << >>
  BY <1>1, EmptySeq DEF ScanRecords
<1>3. \A n \in 1 .. Len(s.steps) : s.steps[n] \in Positive
  BY <1>1, ElementOfSeq
<1>4. \A n \in 1 .. Len(s.ends) : s.ends[n] \in Positive
  BY <1>1, ElementOfSeq
<1>5. DOMAIN s.ends = 1 .. Len(s.ends)
  BY <1>1, LenProperties
<1>6. s.ends = << >> => \E n \in 1 .. s.total : s.total = n * s.steps[1]
  BY DEF ScanRecords
<1>7. s.ends # << >> =>
        /\ Len(s.ends) = Len(s.steps)
        /\ \E n \in DOMAIN s.ends : s.total = s.ends[n]
        /\ \A n \in DOMAIN s.ends :
             s.ends[n] = s.steps[n] + (IF n = 1 THEN 0 ELSE s.ends[n - 1])
  BY DEF ScanRecords
<1>8. \A n \in Positive : n \in Nat /\ n > 0
  BY DEF Positive
<1>9. s.ends # << >> =>
        /\ Len(s.ends) = Len(s.steps)
        /\ \E n \in 1 .. Len(s.ends) : s.total = s.ends[n]
        /\ \A n \in 1 .. Len(s.ends) :
             s.ends[n] = s.steps[n] + (IF n = 1 THEN 0 ELSE s.ends[n - 1])
  BY <1>5, <1>7
<1>10. s.total \in Nat /\ s.total > 0 /\ 1 \in 1 .. Len(s.steps)
  BY <1>1, <1>2, <1>8
<1>11. \A n \in 1 .. Len(s.steps) : s.steps[n] \in Nat /\ s.steps[n] > 0
  BY <1>3, <1>8
<1>12. \A n \in 1 .. Len(s.ends) : s.ends[n] \in Nat /\ s.ends[n] > 0
  BY <1>4, <1>8
<1> QED BY <1>2, <1>5, <1>6, <1>9, <1>10, <1>11, <1>12

\* Breakpoints come one after the other.
LEMMA EndsIncrease ==
  ASSUME NEW s \in ScanRecords, s.ends # << >>,
         NEW m \in 1 .. Len(s.ends), NEW n \in 1 .. Len(s.ends), m < n
  PROVE  s.ends[m] < s.ends[n]
<1> DEFINE Wrong == {k \in m + 1 .. Len(s.ends) : ~(s.ends[m] < s.ends[k])}
<1>1. /\ Len(s.ends) = Len(s.steps) /\ Len(s.ends) \in Nat
      /\ \A k \in 1 .. Len(s.ends) : s.ends[k] \in Nat /\ s.steps[k] \in Nat /\ s.steps[k] > 0
      /\ \A k \in 2 .. Len(s.ends) : s.ends[k] = s.steps[k] + s.ends[k - 1]
  <2>1. \A k \in 2 .. Len(s.ends) : k \in 1 .. Len(s.ends) /\ k # 1
    BY ScanHas
  <2> QED BY <2>1, ScanHas
<1>2. SUFFICES Wrong = {}
  <2>1. n \in m + 1 .. Len(s.ends)
    BY <1>1
  <2> QED BY <2>1
<1>3. SUFFICES ASSUME Wrong # {} PROVE FALSE
  OBVIOUS
<1>4. Wrong \in SUBSET Nat
  BY <1>1
<1>5. PICK k \in Wrong : \A j \in Wrong : k <= j
  <2> HIDE DEF Wrong
  <2> QED BY <1>3, <1>4, SmallestOf
<1>6. k \in 2 .. Len(s.ends) /\ k - 1 \in 1 .. Len(s.ends)
  BY <1>1, <1>5
<1>7. CASE k = m + 1
  BY <1>1, <1>5, <1>6, <1>7
<1>8. CASE k # m + 1
  <2>1. k - 1 \notin Wrong
    BY <1>1, <1>5, <1>6
  <2>2. s.ends[m] < s.ends[k - 1]
    BY <1>1, <1>5, <1>6, <1>8, <2>1
  <2>3. s.ends[k - 1] < s.ends[k]
    <3>1. s.ends[k] = s.steps[k] + s.ends[k - 1]
      BY <1>1, <1>6
    <3>2. s.steps[k] \in Nat /\ s.steps[k] > 0 /\ s.ends[k - 1] \in Nat
      BY <1>1, <1>6
    <3> QED BY <3>1, <3>2
  <2>4. ~(s.ends[m] < s.ends[k])
    BY <1>5
  <2>5. s.ends[m] \in Nat /\ s.ends[k - 1] \in Nat /\ s.ends[k] \in Nat
    BY <1>1, <1>6
  <2> QED BY <2>2, <2>3, <2>4, <2>5
<1> QED BY <1>7, <1>8

\* Multiples
LEMMA Products ==
  ASSUME NEW a \in Nat, NEW b \in Nat, NEW size \in Nat, size > 0
  PROVE  /\ a * size \in Nat /\ a <= a * size
         /\ (a + 1) * size = a * size + size
         /\ a * size < b * size => a + 1 <= b
         /\ a + 1 <= b => a * size + size <= b * size
<1>1. a * size \in Nat /\ b * size \in Nat /\ (a + 1) * size = a * size + size
  OBVIOUS
<1>2. a <= a * size
  OBVIOUS
<1>3. ASSUME NEW c \in Nat, NEW d \in Nat, c <= d PROVE c * size <= d * size
  BY <1>3
<1>4. a * size < b * size => a + 1 <= b
  <2>1. b <= a => b * size <= a * size
    BY <1>3
  <2> QED BY <1>1, <2>1
<1>5. a + 1 <= b => a * size + size <= b * size
  BY <1>1, <1>3
<1> QED BY <1>1, <1>2, <1>4, <1>5

LEMMA Quotient ==
  ASSUME NEW n \in Nat, NEW size \in Nat, size > 0
  PROVE  \E q \in Nat : /\ n - (n % size) = q * size
                        /\ q * size <= n /\ n < q * size + size
<1> DEFINE q == n \div size
           r == n % size
<1>1. r \in 0 .. size - 1 /\ n = size * q + r /\ q \in Nat
  OBVIOUS
<1>2. q * size \in Nat /\ q * size = size * q
  BY <1>1
<1> HIDE DEF q, r
<1>3. n - r = q * size /\ q * size <= n /\ n < q * size + size
  BY <1>1, <1>2
<1> QED BY <1>1, <1>3 DEF r

\* A run takes at least one step.
LEMMA RunIs ==
  ASSUME NEW s \in ScanRecords, NEW index, NEW first \in Nat, NEW last, RunOf(s, index, first, last)
  PROVE  index \in Nat /\ last \in Nat /\ first < last
<1>1. CASE s.ends = << >>
  <2>1. s.steps[1] \in Nat /\ s.steps[1] > 0
    BY ScanHas
  <2> QED BY <1>1, <2>1 DEF RunOf
<1>2. CASE s.ends # << >>
  <2>1. /\ Len(s.ends) \in Nat
        /\ \A n \in 1 .. Len(s.ends) : s.ends[n] \in Nat /\ s.ends[n] > 0
    BY <1>2, ScanHas
  <2>2. /\ index \in 0 .. Len(s.ends) - 1 /\ last = s.ends[index + 1]
        /\ first = IF index = 0 THEN 0 ELSE s.ends[index]
    BY <1>2 DEF RunOf
  <2>3. CASE index = 0
    BY <2>1, <2>2, <2>3
  <2>4. CASE index # 0
    <3>1. index \in 1 .. Len(s.ends) /\ index + 1 \in 1 .. Len(s.ends)
      BY <2>1, <2>2, <2>4
    <3>2. s.ends[index] < s.ends[index + 1]
      BY <1>2, <2>1, <3>1, EndsIncrease
    <3> QED BY <2>1, <2>2, <2>4, <3>1, <3>2
  <2> QED BY <2>3, <2>4
<1> QED BY <1>1, <1>2

\* configure() configures the first run.
LEMMA FirstRun ==
  ASSUME NEW s \in ScanRecords
  PROVE  /\ RunOf(s, 0, 0, s.steps[1])
         /\ s.steps[1] \in Nat /\ 0 < s.steps[1] /\ s.steps[1] <= s.total
<1>1. s.steps[1] \in Nat /\ s.steps[1] > 0 /\ s.total \in Nat
  BY ScanHas
<1>2. CASE s.ends = << >>
  <2>1. PICK n \in 1 .. s.total : s.total = n * s.steps[1]
    BY <1>2, ScanHas
  <2>2. n \in Nat /\ 0 + 1 <= n
    BY <1>1, <2>1
  <2>3. 0 * s.steps[1] + s.steps[1] <= n * s.steps[1]
    BY <1>1, <2>2, Products
  <2>4. 0 * s.steps[1] = 0
    BY <1>1
  <2> QED BY <1>1, <1>2, <2>1, <2>3, <2>4 DEF RunOf
<1>3. CASE s.ends # << >>
  <2>1. PICK n \in 1 .. Len(s.ends) : s.total = s.ends[n]
    BY <1>3, ScanHas
  <2>2. Len(s.ends) \in Nat /\ 1 \in 1 .. Len(s.ends)
    BY <1>3, ScanHas
  <2>3. s.ends[1] = s.steps[1] + 0
    BY <1>3, <2>2, ScanHas
  <2>4. s.ends[1] <= s.total
    <3>1. CASE n = 1
      BY <1>1, <2>1, <3>1
    <3>2. CASE n # 1
      <4>1. 1 < n
        BY <2>1, <2>2, <3>2
      <4>2. s.ends[1] < s.ends[n]
        BY <1>3, <2>1, <2>2, <4>1, EndsIncrease
      <4> QED BY <1>1, <2>1, <2>3, <4>2
    <3> QED BY <3>1, <3>2
  <2> QED BY <1>1, <1>3, <2>2, <2>3, <2>4 DEF RunOf
<1> QED BY <1>2, <1>3

\* run() configures the run that follows, if there is one.
LEMMA NextRun ==
  ASSUME NEW s \in ScanRecords, NEW index, NEW first \in Nat, NEW last,
         RunOf(s, index, first, last), last < s.total,
         NEW next, next = IF s.ends = << >> THEN index ELSE index + 1
  PROVE  /\ RunOf(s, next, last, last + s.steps[next + 1])
         /\ last + s.steps[next + 1] \in Nat /\ last + s.steps[next + 1] <= s.total
<1>1. index \in Nat /\ last \in Nat /\ first < last /\ s.total \in Nat
  BY RunIs, ScanHas
<1>2. CASE s.ends = << >>
  <2>1. index = 0 /\ next = 0 /\ last = first + s.steps[1]
    BY <1>2 DEF RunOf
  <2>2. PICK a \in Nat : first = a * s.steps[1]
    BY <1>2 DEF RunOf
  <2>3. PICK n \in 1 .. s.total : s.total = n * s.steps[1]
    BY <1>2, ScanHas
  <2>4. s.steps[1] \in Nat /\ s.steps[1] > 0 /\ n \in Nat /\ a + 1 \in Nat
    BY <1>1, ScanHas
  <2>5. last = (a + 1) * s.steps[1]
    BY <2>1, <2>2, <2>4, Products
  <2>6. (a + 1) * s.steps[1] + s.steps[1] <= n * s.steps[1]
    BY <2>3, <2>4, <2>5, Products
  <2>7. next + 1 = 1
    BY <2>1
  <2>8. RunOf(s, next, last, last + s.steps[next + 1])
    BY <1>2, <2>1, <2>4, <2>5, <2>7 DEF RunOf
  <2>9. last + s.steps[1] \in Nat /\ last + s.steps[1] <= s.total
    BY <1>1, <2>3, <2>4, <2>5, <2>6
  <2> QED BY <2>7, <2>8, <2>9
<1>3. CASE s.ends # << >>
  <2>1. /\ index \in 0 .. Len(s.ends) - 1 /\ last = s.ends[index + 1]
        /\ next = index + 1
    BY <1>3 DEF RunOf
  <2>2. PICK n \in 1 .. Len(s.ends) : s.total = s.ends[n]
    BY <1>3, ScanHas
  <2>3. /\ Len(s.ends) \in Nat /\ Len(s.ends) = Len(s.steps)
        /\ \A k \in 1 .. Len(s.ends) : s.ends[k] \in Nat /\ s.steps[k] \in Nat
    BY <1>3, ScanHas
  <2>4. index + 1 \in 1 .. Len(s.ends)
    BY <2>1, <2>3
  <2>5. index + 1 < n
    <3>1. SUFFICES ASSUME n <= index + 1 PROVE FALSE
      BY <2>2, <2>4
    <3>2. n < index + 1 => s.ends[n] < s.ends[index + 1]
      BY <1>3, <2>4, EndsIncrease
    <3> QED BY <1>1, <2>1, <2>2, <2>3, <2>4, <3>1, <3>2
  <2>6. next + 1 \in 1 .. Len(s.ends) /\ next \in 0 .. Len(s.ends) - 1 /\ next # 0
    BY <2>1, <2>2, <2>3, <2>5
  <2>7. s.ends[next + 1] = s.steps[next + 1] + s.ends[next]
    <3>1. s.ends[next + 1] =
            s.steps[next + 1] + (IF next + 1 = 1 THEN 0 ELSE s.ends[next + 1 - 1])
      BY <1>3, <2>6, ScanHas
    <3>2. next + 1 # 1 /\ next + 1 - 1 = next
      BY <2>6
    <3> QED BY <3>1, <3>2
  <2>8. s.ends[next + 1] = last + s.steps[next + 1]
    BY <1>1, <2>1, <2>3, <2>6, <2>7
  <2>9. s.ends[next + 1] <= s.total
    <3>1. next + 1 <= n
      BY <2>1, <2>2, <2>3, <2>5
    <3>2. next + 1 < n => s.ends[next + 1] < s.ends[n]
      BY <1>3, <2>2, <2>6, EndsIncrease
    <3> QED BY <2>2, <2>3, <2>6, <3>1, <3>2
  <2>10. last = IF next = 0 THEN 0 ELSE s.ends[next]
    BY <2>1, <2>6
  <2>11. RunOf(s, next, last, last + s.steps[next + 1])
    BY <1>3, <2>6, <2>8, <2>10 DEF RunOf
  <2> QED BY <2>3, <2>6, <2>8, <2>9, <2>11
<1> QED BY <1>2, <1>3

\* A step is in one run.
LEMMA SameRun ==
  ASSUME NEW s \in ScanRecords, NEW n \in Nat,
         NEW index, NEW first \in Nat, NEW last, RunOf(s, index, first, last),
         NEW other, NEW start \in Nat, NEW end, RunOf(s, other, start, end),
         first <= n, n < last, start <= n, n < end
  PROVE  other = index /\ start = first /\ end = last
<1>1. index \in Nat /\ last \in Nat /\ other \in Nat /\ end \in Nat
  BY RunIs
<1>2. CASE s.ends = << >>
  <2>1. /\ index = 0 /\ other = 0
        /\ last = first + s.steps[1] /\ end = start + s.steps[1]
    BY <1>2 DEF RunOf
  <2>2. PICK a \in Nat : first = a * s.steps[1]
    BY <1>2 DEF RunOf
  <2>3. PICK b \in Nat : start = b * s.steps[1]
    BY <1>2 DEF RunOf
  <2>4. s.steps[1] \in Nat /\ s.steps[1] > 0
    BY ScanHas
  <2>5. ~(a + 1 <= b) /\ ~(b + 1 <= a)
    <3>1. a + 1 <= b => last <= start
      BY <2>1, <2>2, <2>3, <2>4, Products
    <3>2. b + 1 <= a => end <= first
      BY <2>1, <2>2, <2>3, <2>4, Products
    <3> QED BY <1>1, <3>1, <3>2
  <2>6. a = b
    BY <2>5
  <2> QED BY <2>1, <2>2, <2>3, <2>6
<1>3. CASE s.ends # << >>
  <2>1. /\ index \in 0 .. Len(s.ends) - 1 /\ last = s.ends[index + 1]
        /\ first = IF index = 0 THEN 0 ELSE s.ends[index]
        /\ other \in 0 .. Len(s.ends) - 1 /\ end = s.ends[other + 1]
        /\ start = IF other = 0 THEN 0 ELSE s.ends[other]
    BY <1>3 DEF RunOf
  <2>2. Len(s.ends) \in Nat /\ \A k \in 1 .. Len(s.ends) : s.ends[k] \in Nat
    BY <1>3, ScanHas
  <2>3. ~(index < other)
    <3>1. SUFFICES ASSUME index < other PROVE last <= start
      BY <1>1
    <3>2. index + 1 \in 1 .. Len(s.ends) /\ other \in 1 .. Len(s.ends) /\ start = s.ends[other]
      BY <2>1, <2>2, <3>1
    <3>3. index + 1 < other => s.ends[index + 1] < s.ends[other]
      BY <1>3, <3>2, EndsIncrease
    <3> QED BY <1>1, <2>1, <2>2, <3>1, <3>2, <3>3
  <2>4. ~(other < index)
    <3>1. SUFFICES ASSUME other < index PROVE end <= first
      BY <1>1
    <3>2. other + 1 \in 1 .. Len(s.ends) /\ index \in 1 .. Len(s.ends) /\ first = s.ends[index]
      BY <2>1, <2>2, <3>1
    <3>3. other + 1 < index => s.ends[other + 1] < s.ends[index]
      BY <1>3, <3>2, EndsIncrease
    <3> QED BY <1>1, <2>1, <2>2, <3>1, <3>2, <3>3
  <2>5. index = other
    BY <1>1, <2>3, <2>4
  <2> QED BY <2>1, <2>5
<1> QED BY <1>2, <1>3

\* A run ends at the first of the boundaries that follow its steps.
LEMMA RunsEndAtBoundaries ==
  ASSUME HasScan, NEW n \in Nat, NEW index, NEW first \in Nat, NEW last,
         RunOf(scan, index, first, last), first <= n, n < last, last <= total
  PROVE  /\ last \in Boundaries
         /\ \A end \in Boundaries : end > n => last <= end
<1>1. scan \in ScanRecords /\ total = scan.total /\ total \in Nat
  BY ScanHas DEF HasScan
<1>2. index \in Nat /\ last \in Nat /\ first < last
  BY <1>1, RunIs
<1>3. CASE scan.ends = << >>
  <2>1. /\ last = first + scan.steps[1]
        /\ Boundaries = {k * scan.steps[1] : k \in 1 .. total}
    BY <1>3 DEF RunOf, Boundaries
  <2>2. PICK a \in Nat : first = a * scan.steps[1]
    BY <1>3 DEF RunOf
  <2>3. scan.steps[1] \in Nat /\ scan.steps[1] > 0
    BY <1>1, ScanHas
  <2>4. last = (a + 1) * scan.steps[1] /\ a + 1 \in Nat
    BY <2>1, <2>2, <2>3, Products
  <2>5. a + 1 <= last
    BY <2>3, <2>4, Products
  <2>6. a + 1 \in 1 .. total
    BY <1>1, <1>2, <2>5
  <2>7. last \in Boundaries
    BY <2>1, <2>4, <2>6
  <2>8. ASSUME NEW k \in 1 .. total, k * scan.steps[1] > n PROVE last <= k * scan.steps[1]
    <3>1. k \in Nat /\ k * scan.steps[1] \in Nat
      BY <1>1, <2>3
    <3>2. a * scan.steps[1] < k * scan.steps[1]
      BY <1>2, <2>2, <2>8, <3>1
    <3>3. a * scan.steps[1] + scan.steps[1] <= k * scan.steps[1]
      BY <2>3, <3>1, <3>2, Products
    <3> QED BY <2>1, <2>2, <3>3
  <2> QED BY <2>1, <2>7, <2>8
<1>4. CASE scan.ends # << >>
  <2>1. /\ index \in 0 .. Len(scan.ends) - 1 /\ last = scan.ends[index + 1]
        /\ first = IF index = 0 THEN 0 ELSE scan.ends[index]
    BY <1>4 DEF RunOf
  <2>2. /\ Len(scan.ends) \in Nat /\ DOMAIN scan.ends = 1 .. Len(scan.ends)
        /\ \A k \in 1 .. Len(scan.ends) : scan.ends[k] \in Nat
    BY <1>1, <1>4, ScanHas
  <2>3. Boundaries = {scan.ends[k] : k \in 1 .. Len(scan.ends)}
    BY <1>4, <2>2 DEF Boundaries
  <2>4. index + 1 \in 1 .. Len(scan.ends)
    BY <2>1, <2>2
  <2>5. ASSUME NEW k \in 1 .. Len(scan.ends), scan.ends[k] > n PROVE last <= scan.ends[k]
    <3>1. index + 1 <= k
      <4>1. SUFFICES ASSUME k <= index PROVE FALSE
        BY <1>2, <2>2
      <4>2. index # 0 /\ index \in 1 .. Len(scan.ends) /\ first = scan.ends[index]
        BY <2>1, <2>2, <4>1
      <4>3. k < index => scan.ends[k] < scan.ends[index]
        BY <1>1, <1>4, <4>2, EndsIncrease
      <4>4. scan.ends[k] <= first
        BY <2>2, <4>1, <4>2, <4>3
      <4> QED BY <2>2, <2>5, <4>4
    <3>2. index + 1 < k => scan.ends[index + 1] < scan.ends[k]
      BY <1>1, <1>4, <2>4, EndsIncrease
    <3> QED BY <1>2, <2>1, <2>2, <2>4, <3>1, <3>2
  <2> QED BY <2>1, <2>3, <2>4, <2>5
<1> QED BY <1>3, <1>4

\* get_breakpoint_index: the run that a step is in
LEMMA IndexOfStep ==
  ASSUME scan \in ScanRecords, scan.ends # << >>, NEW n \in Nat, n < scan.total
  PROVE  /\ BreakpointIndex(n) \in 0 .. Len(scan.ends) - 1
         /\ n < scan.ends[BreakpointIndex(n) + 1]
         /\ BreakpointIndex(n) # 0 => scan.ends[BreakpointIndex(n)] <= n
<1> DEFINE len == Len(scan.ends)
           In(i) == n < scan.ends[i + 1] /\ \A j \in 1 .. i : n >= scan.ends[j]
           Later == {i \in 0 .. len - 1 : n < scan.ends[i + 1]}
<1>1. len \in Nat /\ \A k \in 1 .. len : scan.ends[k] \in Nat
  BY ScanHas
<1>2. PICK k \in 1 .. len : scan.total = scan.ends[k]
  BY ScanHas
<1>3. n # scan.ends[len]
  <2>1. len \in 1 .. len
    BY <1>1, <1>2
  <2>2. k < len => scan.ends[k] < scan.ends[len]
    BY <2>1, EndsIncrease
  <2> QED BY <1>1, <1>2, <2>1, <2>2
<1>4. k - 1 \in Later
  BY <1>1, <1>2
<1>5. Later \in SUBSET Nat
  BY <1>1
<1>6. PICK i \in Later : \A j \in Later : i <= j
  <2> HIDE DEF Later
  <2> QED BY <1>4, <1>5, SmallestOf
<1>7. \A j \in 1 .. i : n >= scan.ends[j]
  <2> SUFFICES ASSUME NEW j \in 1 .. i PROVE n >= scan.ends[j]
    OBVIOUS
  <2>1. j - 1 \in 0 .. len - 1 /\ j - 1 < i /\ j \in 1 .. len
    BY <1>1, <1>6
  <2>2. j - 1 \notin Later
    <3>1. i \in Nat /\ j - 1 \in Nat /\ ~(i <= j - 1)
      BY <1>1, <1>6, <2>1
    <3> HIDE DEF Later
    <3> QED BY <1>6, <3>1
  <2>3. ~(n < scan.ends[j - 1 + 1]) /\ j - 1 + 1 = j
    BY <2>1, <2>2
  <2> QED BY <1>1, <2>1, <2>3
<1>8. BreakpointIndex(n) = CHOOSE m \in 0 .. len - 1 : In(m)
  BY <1>3 DEF BreakpointIndex
<1>9. i \in 0 .. len - 1 /\ In(i)
  BY <1>6, <1>7
<1>10. BreakpointIndex(n) \in 0 .. len - 1 /\ In(BreakpointIndex(n))
  <2> HIDE DEF In
  <2> QED BY <1>8, <1>9
<1>11. BreakpointIndex(n) # 0 => BreakpointIndex(n) \in 1 .. BreakpointIndex(n)
  BY <1>1, <1>10
<1>12. BreakpointIndex(n) # 0 => n >= scan.ends[BreakpointIndex(n)]
  BY <1>10, <1>11
<1>13. BreakpointIndex(n) # 0 => BreakpointIndex(n) \in 1 .. len
  BY <1>1, <1>10
<1> QED BY <1>1, <1>10, <1>12, <1>13

\* do_pause: configure up to the end of the run that the step is in.
LEMMA SoughtRun ==
  ASSUME HasScan, NEW n \in 0 .. total - 1, NEW index,
         index = IF scan.ends = << >> THEN breakpointIndex ELSE BreakpointIndex(n)
  PROVE  \E first \in Nat : /\ RunOf(scan, index, first, SeekTarget(n))
                            /\ first <= n /\ n < SeekTarget(n) /\ SeekTarget(n) <= total
<1>1. scan \in ScanRecords /\ total = scan.total /\ total \in Nat /\ n \in Nat /\ n < total
  BY ScanHas DEF HasScan
<1>2. CASE scan.ends = << >>
  <2>1. index = 0 /\ breakpointIndex = 0
    BY <1>2 DEF HasScan
  <2>2. scan.steps[1] \in Nat /\ scan.steps[1] > 0
    BY <1>1, ScanHas
  <2>3. SeekTarget(n) = n + scan.steps[1] - (n % scan.steps[1])
    BY <1>2, <2>1 DEF SeekTarget
  <2>4. PICK q \in Nat : /\ n - (n % scan.steps[1]) = q * scan.steps[1]
                         /\ q * scan.steps[1] <= n /\ n < q * scan.steps[1] + scan.steps[1]
    BY <1>1, <2>2, Quotient
  <2>5. q * scan.steps[1] \in Nat /\ n % scan.steps[1] \in Nat
    BY <1>1, <2>2, Products
  <2>6. SeekTarget(n) = q * scan.steps[1] + scan.steps[1]
    BY <1>1, <2>2, <2>3, <2>4, <2>5
  <2>7. PICK k \in 1 .. scan.total : scan.total = k * scan.steps[1]
    BY <1>1, <1>2, ScanHas
  <2>8. q * scan.steps[1] < k * scan.steps[1] /\ k \in Nat
    BY <1>1, <2>4, <2>5, <2>7
  <2>9. q * scan.steps[1] + scan.steps[1] <= k * scan.steps[1]
    BY <2>2, <2>8, Products
  <2>10. RunOf(scan, index, q * scan.steps[1], SeekTarget(n))
    BY <1>2, <2>1, <2>6 DEF RunOf
  <2> QED BY <1>1, <2>4, <2>5, <2>6, <2>7, <2>9, <2>10
<1>3. CASE scan.ends # << >>
  <2>1. /\ index \in 0 .. Len(scan.ends) - 1
        /\ n < scan.ends[index + 1]
        /\ index # 0 => scan.ends[index] <= n
    BY <1>1, <1>3, IndexOfStep
  <2>2. Len(scan.ends) \in Nat /\ \A k \in 1 .. Len(scan.ends) : scan.ends[k] \in Nat
    BY <1>1, <1>3, ScanHas
  <2>3. index + 1 \in 1 .. Len(scan.ends) /\ (index # 0 => index \in 1 .. Len(scan.ends))
    BY <2>1, <2>2
  <2>4. SeekTarget(n) = n + scan.ends[index + 1] - (n % scan.ends[index + 1])
    BY <1>3 DEF SeekTarget
  <2>5. n % scan.ends[index + 1] = n
    <3>1. scan.ends[index + 1] \in Nat
      BY <2>2, <2>3
    <3> QED BY <1>1, <2>1, <3>1
  <2>6. SeekTarget(n) = scan.ends[index + 1]
    BY <1>1, <2>2, <2>3, <2>4, <2>5
  <2> DEFINE first == IF index = 0 THEN 0 ELSE scan.ends[index]
  <2>7. first \in Nat /\ first <= n
    BY <1>1, <2>1, <2>2, <2>3
  <2>8. RunOf(scan, index, first, SeekTarget(n))
    BY <1>3, <2>1, <2>6 DEF RunOf
  <2>9. scan.ends[index + 1] <= total
    <3>1. PICK k \in 1 .. Len(scan.ends) : scan.total = scan.ends[k]
      BY <1>1, <1>3, ScanHas
    <3>2. index + 1 <= k
      <4>1. SUFFICES ASSUME k <= index PROVE FALSE
        BY <2>3, <3>1
      <4>2. index # 0 /\ index \in 1 .. Len(scan.ends)
        BY <2>1, <2>2, <3>1, <4>1
      <4>3. k < index => scan.ends[k] < scan.ends[index]
        BY <1>1, <1>3, <4>2, EndsIncrease
      <4> QED BY <1>1, <2>1, <2>2, <3>1, <4>1, <4>2, <4>3
    <3>3. index + 1 < k => scan.ends[index + 1] < scan.ends[k]
      BY <1>1, <1>3, <2>3, EndsIncrease
    <3> QED BY <1>1, <2>2, <2>3, <3>1, <3>2, <3>3
  <2> HIDE DEF first
  <2> QED BY <2>1, <2>6, <2>7, <2>8, <2>9
<1> QED BY <1>2, <1>3

--------------------------------------------------------------------------------
(***************************************************************************)
(* One thread moves                                                        *)
(***************************************************************************)
Claimed == {"Armed", "Paused", "Running", "Finished", "Configuring", "PostRun", "Seeking"}

\* In the other states nothing is said of the steps.
LEMMA Unclaimed ==
  ASSUME LocalsFit', state' \notin Claimed
  PROVE  Steps'
BY DEF Steps, AtRest, Fits, Claimed

LEMMA LocalsStayFit ==
  ASSUME LocalsFit, NEW t \in Threads, Alone(t),
         DOMAIN loc'[t] = {"from", "target", "scan", "queue"},
         op'[t] = "configure" => loc'[t].scan \in ScanRecords
  PROVE  LocalsFit'
BY DEF LocalsFit, Alone

LEMMA LocalsAre ==
  ASSUME LocalsFit, NEW t \in Threads
  PROVE  /\ \A v : /\ DOMAIN [loc[t] EXCEPT !.target = v] = {"from", "target", "scan", "queue"}
                   /\ [loc[t] EXCEPT !.target = v].target = v
                   /\ [loc[t] EXCEPT !.target = v].from = loc[t].from
                   /\ [loc[t] EXCEPT !.target = v].scan = loc[t].scan
         /\ \A v : /\ DOMAIN [loc[t] EXCEPT !.queue = v] = {"from", "target", "scan", "queue"}
                   /\ [loc[t] EXCEPT !.queue = v].scan = loc[t].scan
         /\ \A v, w : /\ DOMAIN [loc[t] EXCEPT !.from = v, !.target = w]
                           = {"from", "target", "scan", "queue"}
                      /\ [loc[t] EXCEPT !.from = v, !.target = w].from = v
                      /\ [loc[t] EXCEPT !.from = v, !.target = w].target = w
                      /\ [loc[t] EXCEPT !.from = v, !.target = w].scan = loc[t].scan
<1>1. DOMAIN loc[t] = {"from", "target", "scan", "queue"}
  BY DEF LocalsFit
<1> QED BY <1>1

LEMMA NoLocalsAre ==
  /\ DOMAIN NoLocals = {"from", "target", "scan", "queue"}
  /\ \A v : /\ DOMAIN [NoLocals EXCEPT !.scan = v] = {"from", "target", "scan", "queue"}
            /\ [NoLocals EXCEPT !.scan = v].scan = v
  /\ \A v : /\ DOMAIN [NoLocals EXCEPT !.from = v] = {"from", "target", "scan", "queue"}
            /\ [NoLocals EXCEPT !.from = v].from = v
<1>1. DOMAIN NoLocals = {"from", "target", "scan", "queue"}
  BY DEF NoLocals
<1> HIDE DEF NoLocals
<1> QED BY <1>1

\* A thread that ends has nothing to keep to.
LEMMA EndsFit ==
  ASSUME ControlTypes, Roles, LocalsFit, NEW t \in Threads, End(t)
  PROVE  /\ Alone(t) /\ LocalsFit' /\ Fits(t)' /\ pc'[t] = "Idle"
         /\ ~Acts(t)' /\ ~Waiting(t)'
<1>1. Start(t, "none", "none", "Idle", NoLocals)
  BY DEF End
<1>2. Alone(t) /\ pc'[t] = "Idle" /\ op'[t] = "none" /\ loc'[t] = NoLocals
  BY <1>1, Lands DEF Roles
<1>3. LocalsFit'
  BY <1>2, NoLocalsAre, LocalsStayFit
<1>4. ~Acts(t)' /\ ~Follows(t)' /\ ~Waiting(t)'
  BY <1>2 DEF Acts, Resuming, Follows, InRun, Waiting
<1> QED BY <1>2, <1>3, <1>4 DEF Fits

\* What is said of a thread depends on the steps, its place and its locals.
LEMMA StaysFit ==
  ASSUME NEW u \in Threads, Fits(u), state' = state, UNCHANGED attributes,
         pc'[u] = pc[u], op'[u] = op[u], goal'[u] = goal[u], loc'[u] = loc[u],
         Acts(u)' => Acts(u), Waiting(u)' => Waiting(u)
  PROVE  Fits(u)'
<1>1. UNCHANGED <<total, configured, completed, breakpointIndex, scan>>
  BY DEF attributes
<1>2. HasScan' = HasScan /\ HasRun' = HasRun /\ RunGoal' = RunGoal
  BY <1>1 DEF HasScan, HasRun, RunGoal
<1>3. HasNextRun' = HasNextRun /\ AllDone' = AllDone
  BY <1>1, <1>2 DEF HasNextRun, AllDone
<1>4. ConfigureFits(u) => ConfigureFits(u)'
  BY <1>1 DEF ConfigureFits
<1>5. PostRunFits(u) => PostRunFits(u)'
  BY <1>1, <1>2, <1>3 DEF PostRunFits
<1>6. \A n, last : ToDo(n, last)' = ToDo(n, last)
  BY <1>1 DEF ToDo
<1>7. PauseFits(u) => PauseFits(u)'
  <2>1. /\ ToDo(loc[u].from, configured)' = ToDo(loc[u].from, configured)
        /\ ToDo(loc[u].from, loc[u].target)' = ToDo(loc[u].from, loc[u].target)
    BY <1>1 DEF ToDo
  <2> QED BY <1>1, <1>2, <1>3, <2>1 DEF PauseFits
<1>8. Follows(u)' => Follows(u)
  BY DEF Follows, InRun
<1> QED BY <1>2, <1>4, <1>5, <1>7, <1>8 DEF Fits

\* A thread goes on and neither the state nor the steps change.
LEMMA Quiet ==
  ASSUME Steps, NEW t \in Threads, Alone(t), state' = state, UNCHANGED attributes,
         LocalsFit', Fits(t)',
         \A u \in Threads \ {t} : (Acts(u)' => Acts(u)) /\ (Waiting(u)' => Waiting(u))
  PROVE  Steps'
<1>1. UNCHANGED <<total, configured, completed, breakpointIndex, scan>>
  BY DEF attributes
<1>2. AtRest'
  BY <1>1 DEF Steps, AtRest, HasScan, HasRun, HasNextRun, AllDone
<1>3. ASSUME NEW u \in Threads \ {t} PROVE Fits(u)'
  <2>1. pc'[u] = pc[u] /\ op'[u] = op[u] /\ goal'[u] = goal[u] /\ loc'[u] = loc[u]
    BY DEF Alone
  <2> QED BY <2>1, StaysFit DEF Steps
<1> QED BY <1>2, <1>3 DEF Steps

\* The thread at work changes the steps: the others only wait.
LEMMA Leads ==
  ASSUME Roles', NEW t \in Threads, Acts(t)', LocalsFit', AtRest', Fits(t)',
         state' = "Seeking" =>
           \A u \in Threads \ {t} : ~(op'[u] = "pause" /\ pc'[u] # "Idle"),
         state' \in {"Running", "Paused", "Seeking"} =>
           \A u \in Threads \ {t} : Follows(u)' => goal'[u] = RunGoal'
  PROVE  Steps'
<1>1. \A u \in Threads \ {t} : ~Acts(u)'
  BY DEF Roles, OneActs
<1>2. ASSUME NEW u \in Threads \ {t} PROVE Fits(u)'
  BY <1>1 DEF Fits
<1> QED BY <1>2 DEF Steps

\* The thread at work is where the state says, or is being interrupted.
LEMMA WhereItActs ==
  ASSUME Roles, NEW t \in Threads, Acts(t)
  PROVE  /\ Placed(t)
         /\ AtHome(t) \/ state = "Aborting" \/ (state = "Seeking" /\ InRun(t))
<1>1. Awaited => state \in {"Aborting", "Seeking"}
  BY DEF Roles, AwaitersFit, Awaited
<1> QED BY <1>1 DEF Roles, ActorsFit, AllPlaced, Interrupted

\* A thread goes to its next phase, with the same locals or with new steps in them.
LEMMA Going ==
  ASSUME ControlTypes, Roles, LocalsFit, NEW t \in Threads, NEW phase, NEW locals,
         Goto(t, phase, locals), DOMAIN locals = {"from", "target", "scan", "queue"},
         locals.scan = loc[t].scan
  PROVE  /\ Alone(t) /\ LocalsFit'
         /\ pc'[t] = phase /\ op'[t] = op[t] /\ goal'[t] = goal[t] /\ loc'[t] = locals
<1>1. /\ Alone(t)
      /\ pc'[t] = phase /\ op'[t] = op[t] /\ goal'[t] = goal[t] /\ loc'[t] = locals
  BY Lands DEF Goto, Roles
<1>2. op'[t] = "configure" => loc'[t].scan \in ScanRecords
  BY <1>1 DEF LocalsFit
<1> QED BY <1>1, <1>2, LocalsStayFit

\* A thread goes on and no steps change.
LEMMA GoesQuietly ==
  ASSUME ControlTypes, Roles, Steps, NEW t \in Threads, NEW phase, Proceed(t, phase),
         state' = state, UNCHANGED attributes, resumeQueues' = resumeQueues, Fits(t)'
  PROVE  Steps'
<1>1. DOMAIN loc[t] = {"from", "target", "scan", "queue"}
  BY DEF Steps, LocalsFit
<1>2. Alone(t) /\ LocalsFit'
  BY <1>1, Going DEF Steps, Proceed
<1>3. \A u \in Threads \ {t} : (Acts(u)' => Acts(u)) /\ (Waiting(u)' => Waiting(u))
  BY <1>2, Others
<1> QED BY <1>2, <1>3, Quiet

--------------------------------------------------------------------------------
(***************************************************************************)
(* configure()                                                             *)
(***************************************************************************)
\* Of a thread that executes configure() only Configuring says anything.
LEMMA ConfigureOnly ==
  ASSUME NEW t \in Threads, op'[t] = "configure",
         state' = "Configuring" => ConfigureFits(t)', state' # "PostRun"
  PROVE  Fits(t)'
BY DEF Fits, Follows, InRun

LEMMA ConfigureQuietly ==
  ASSUME ControlTypes, Roles, Steps, NEW t \in Threads,
         ConfigResetDone(t) \/ ContextsCleared(t) \/ ConfigureDone(t)
  PROVE  Steps'
<1>1. PICK phase \in {"ClearContexts", "PreConfigure", "PostConfigure"} :
        /\ Proceed(t, phase)
        /\ phase = "PostConfigure" => pc[t] = "Configure"
  BY DEF ConfigResetDone, ContextsCleared, ConfigureDone
<1>2. /\ pc[t] \in {"ConfigReset", "ClearContexts", "Configure"}
      /\ state' = state /\ resumeQueues' = resumeQueues /\ UNCHANGED attributes
  BY DEF ConfigResetDone, ContextsCleared, ConfigureDone
<1>3. Acts(t) /\ op[t] = "configure" /\ state \in {"Configuring", "Aborting"}
  <2>1. Acts(t)
    BY <1>2 DEF Acts
  <2>2. op[t] = "configure"
    BY <1>2, <2>1, WhereItActs DEF Placed
  <2> QED BY <1>2, <2>1, <2>2, WhereItActs DEF AtHome, InRun
<1>4. DOMAIN loc[t] = {"from", "target", "scan", "queue"}
  BY DEF Steps, LocalsFit
<1>5. pc'[t] = phase /\ op'[t] = op[t] /\ loc'[t] = loc[t]
  BY <1>1, <1>4, Going DEF Proceed, Steps
<1>6. state = "Configuring" => ConfigureFits(t)'
  <2>1. CASE phase # "PostConfigure"
    BY <1>5, <2>1 DEF ConfigureFits
  <2>2. CASE phase = "PostConfigure" /\ state = "Configuring"
    <3>1. ConfigureFits(t) /\ pc[t] = "Configure"
      BY <1>1, <1>3, <2>2 DEF Steps, Fits
    <3> QED BY <1>2, <1>5, <2>2, <3>1 DEF ConfigureFits, attributes
  <2> QED BY <2>1, <2>2
<1>7. Fits(t)'
  BY <1>2, <1>3, <1>5, <1>6, ConfigureOnly
<1> QED BY <1>1, <1>2, <1>7, GoesQuietly

\* configure() starts.
LEMMA ValidateKeepsSteps ==
  ASSUME ControlTypes, Roles, Steps, NEW t \in Threads, ValidateDone(t), Roles'
  PROVE  Steps'
<1>1. Acts(t) /\ pc[t] = "Validate" /\ op[t] = "configure"
  BY WhereItActs DEF ValidateDone, Acts, Placed
<1>2. ~Interruptible(t)
  BY <1>1 DEF Interruptible, Unready
<1>3. state \in {"Ready", "Finished"}
  <2>1. AtHome(t)
    BY <1>1, <1>2, Unawaited
  <2> QED BY <1>1, <2>1 DEF AtHome, InRun
<1>4. /\ state' = "Configuring"
      /\ \E phase \in {"ConfigReset", "ClearContexts"} : Proceed(t, phase)
  BY <1>3, Allowed DEF ValidateDone, Transition
<1>5. PICK phase \in {"ConfigReset", "ClearContexts"} : Proceed(t, phase)
  BY <1>4
<1>6. DOMAIN loc[t] = {"from", "target", "scan", "queue"}
  BY DEF Steps, LocalsFit
<1>7. /\ Alone(t) /\ LocalsFit' /\ pc'[t] = phase /\ op'[t] = op[t]
  BY <1>5, <1>6, Going DEF Proceed, Steps
<1>8. Acts(t)' /\ ConfigureFits(t)'
  BY <1>7 DEF Acts, ConfigureFits
<1>9. AtRest' /\ Fits(t)'
  BY <1>1, <1>4, <1>7, <1>8, ConfigureOnly DEF AtRest
<1> QED BY <1>4, <1>7, <1>8, <1>9, Leads

\* PreConfigureDone, ConfigStatusDone and PostConfigureDone set the steps.
LEMMA ConfigureKeepsSteps ==
  ASSUME ControlTypes, Roles, Steps, NEW t \in Threads, Roles',
         PreConfigureDone(t) \/ ConfigStatusDone(t) \/ PostConfigureDone(t)
  PROVE  Steps'
<1>1. /\ pc[t] \in {"PreConfigure", "ConfigStatus", "PostConfigure"}
      /\ state' = state
  BY DEF PreConfigureDone, ConfigStatusDone, PostConfigureDone
<1>2. Acts(t) /\ op[t] = "configure" /\ state \in {"Configuring", "Aborting"}
  <2>1. Acts(t)
    BY <1>1 DEF Acts
  <2>2. op[t] = "configure"
    BY <1>1, <2>1, WhereItActs DEF Placed
  <2> QED BY <1>1, <2>1, <2>2, WhereItActs DEF AtHome, InRun
<1>3. PICK phase \in {"ConfigStatus", "Configure", "Settle"} :
        \E locals \in {loc[t], [loc[t] EXCEPT !.target = scan.steps[1]]} :
          Goto(t, phase, locals)
  BY DEF PreConfigureDone, ConfigStatusDone, PostConfigureDone, Proceed
<1>4. PICK locals \in {loc[t], [loc[t] EXCEPT !.target = scan.steps[1]]} :
        Goto(t, phase, locals)
  BY <1>3
<1>5. DOMAIN loc[t] = {"from", "target", "scan", "queue"} /\ loc[t].scan \in ScanRecords
  BY <1>2 DEF Steps, LocalsFit
<1>6. DOMAIN locals = {"from", "target", "scan", "queue"} /\ locals.scan = loc[t].scan
  BY <1>4, <1>5
<1>7. /\ Alone(t) /\ LocalsFit' /\ pc'[t] = phase /\ op'[t] = op[t] /\ loc'[t] = locals
  BY <1>4, <1>6, Going DEF Steps
<1>8. CASE state = "Aborting"
  BY <1>1, <1>7, <1>8, Unclaimed DEF Claimed
<1>9. CASE state = "Configuring"
  <2>1. ConfigureFits(t)
    BY <1>2, <1>9 DEF Steps, Fits
  <2>2. ConfigureFits(t)'
    <3>1. CASE PreConfigureDone(t)
      <4>1. /\ total' = loc[t].scan.total /\ completed' = 0 /\ configured' = 0
            /\ scan' = loc[t].scan /\ Proceed(t, "ConfigStatus")
        BY <3>1 DEF PreConfigureDone
      <4>2. pc'[t] = "ConfigStatus"
        BY <4>1, <1>5, Going DEF Proceed, Steps
      <4> QED BY <1>5, <4>1, <4>2 DEF ConfigureFits
    <3>2. CASE ConfigStatusDone(t)
      <4>1. /\ breakpointIndex' = 0 /\ UNCHANGED <<total, configured, completed, scan>>
            /\ Goto(t, "Configure", [loc[t] EXCEPT !.target = scan.steps[1]])
            /\ pc[t] = "ConfigStatus"
        BY <3>2 DEF ConfigStatusDone
      <4>2. /\ pc'[t] = "Configure" /\ loc'[t] = [loc[t] EXCEPT !.target = scan.steps[1]]
        BY <4>1, LocalsAre, Going DEF Steps
      <4>3. loc'[t].target = scan.steps[1]
        BY <1>5, <4>2
      <4> QED BY <2>1, <4>1, <4>2, <4>3 DEF ConfigureFits
    <3>3. CASE PostConfigureDone(t)
      <4>1. /\ configured' = loc[t].target
            /\ UNCHANGED <<total, completed, breakpointIndex, scan>>
            /\ Proceed(t, "Settle") /\ pc[t] = "PostConfigure"
        BY <3>3 DEF PostConfigureDone
      <4>2. pc'[t] = "Settle"
        BY <1>5, <4>1, Going DEF Proceed, Steps
      <4>3. scan.steps[1] \in Nat
        BY <2>1, <4>1, ScanHas DEF ConfigureFits
      <4> QED BY <2>1, <4>1, <4>2, <4>3 DEF ConfigureFits
    <3> QED BY <3>1, <3>2, <3>3
  <2>3. Acts(t)'
    BY <1>7 DEF Acts
  <2>4. AtRest' /\ Fits(t)'
    BY <1>1, <1>2, <1>7, <1>9, <2>2, ConfigureOnly DEF AtRest
  <2> QED BY <1>1, <1>7, <1>9, <2>3, <2>4, Leads
<1> QED BY <1>2, <1>8, <1>9
--------------------------------------------------------------------------------
(***************************************************************************)
(* run()                                                                   *)
(***************************************************************************)
\* A run() in its hooks, or about to go on to them
LEMMA RunsHooks ==
  ASSUME Roles, Steps, NEW t \in Threads, Acts(t), pc[t] \in {"PreRun", "Run", "AwaitResume"}
  PROVE  /\ op[t] = "run" /\ InRun(t) /\ state \in {"Running", "Seeking", "Aborting"}
         /\ state \in {"Running", "Seeking"} => goal[t] = RunGoal
<1>1. op[t] = "run"
  BY WhereItActs DEF Placed
<1>2. InRun(t)
  BY <1>1 DEF InRun
<1>3. state \in {"Running", "Seeking", "Aborting"}
  BY <1>1, <1>2, WhereItActs DEF AtHome
<1>4. state \in {"Running", "Seeking"} => goal[t] = RunGoal
  BY <1>2 DEF Steps, Fits, Follows
<1> QED BY <1>1, <1>2, <1>3, <1>4

\* It stays at that.
LEMMA StaysInRun ==
  ASSUME NEW t \in Threads, op'[t] = "run", state' \notin {"Configuring", "PostRun", "Paused"},
         state' \in {"Running", "Seeking"} => goal'[t] = RunGoal'
  PROVE  Fits(t)'
BY DEF Fits

LEMMA PreRunKeepsSteps ==
  ASSUME ControlTypes, Roles, Steps, NEW t \in Threads, PreRunDone(t)
  PROVE  Steps'
<1>1. /\ Proceed(t, "Run") /\ pc[t] = "PreRun" /\ state' = state
      /\ resumeQueues' = resumeQueues /\ UNCHANGED attributes
  BY DEF PreRunDone
<1>2. Acts(t)
  BY <1>1 DEF Acts
<1>3. /\ op[t] = "run" /\ state \in {"Running", "Seeking", "Aborting"}
      /\ state \in {"Running", "Seeking"} => goal[t] = RunGoal
  BY <1>1, <1>2, RunsHooks
<1>4. DOMAIN loc[t] = {"from", "target", "scan", "queue"}
  BY DEF Steps, LocalsFit
<1>5. op'[t] = op[t] /\ goal'[t] = goal[t]
  BY <1>1, <1>4, Going DEF Proceed, Steps
<1>6. RunGoal' = RunGoal
  BY <1>1 DEF RunGoal, attributes
<1>7. Fits(t)'
  BY <1>1, <1>3, <1>5, <1>6, StaysInRun
<1> QED BY <1>1, <1>7, GoesQuietly

LEMMA RunDoneKeepsSteps ==
  ASSUME ControlTypes, Roles, Steps, NEW t \in Threads, RunDone(t), Roles'
  PROVE  Steps'
<1>1. /\ pc[t] = "Run" /\ NotStopped /\ state' = "PostRun"
      /\ UNCHANGED <<total, configured, scan>>
      /\ NextRunConfigured(t) \/ ScanOver(t)
  BY DEF RunDone, Transition
<1>2. Acts(t)
  BY <1>1 DEF Acts
<1>3. op[t] = "run" /\ InRun(t)
  BY <1>1, <1>2, RunsHooks
<1>4. state = "Running"
  <2>1. AtHome(t)
    BY <1>1, <1>2, Unawaited
  <2> QED BY <1>3, <2>1 DEF AtHome, InRun
<1>5. HasRun /\ goal[t] = RunGoal
  BY <1>1, <1>2, <1>4, RunsHooks DEF Steps, AtRest
<1>6. /\ scan \in ScanRecords /\ total = scan.total /\ total \in Nat
      /\ completed \in Nat /\ configured \in Nat /\ configured <= total
  BY <1>5, ScanHas DEF HasRun, HasScan
<1>7. DOMAIN loc[t] = {"from", "target", "scan", "queue"}
  BY DEF Steps, LocalsFit
<1>8. CASE NextRunConfigured(t)
  <2> DEFINE index == IF scan.ends = << >> THEN breakpointIndex ELSE breakpointIndex + 1
             target == configured + scan.steps[index + 1]
             locals == [loc[t] EXCEPT !.from = configured, !.target = target]
  <2>1. /\ configured < total /\ completed' = completed /\ breakpointIndex' = index
        /\ Goto(t, "RunStatus", locals)
    <3>1. /\ configured < total /\ completed' = completed /\ breakpointIndex' = index
          /\ Goto(t, "RunStatus",
               [loc[t] EXCEPT !.from = configured,
                              !.target = configured + scan.steps[breakpointIndex' + 1]])
      BY <1>8 DEF NextRunConfigured
    <3> HIDE DEF index
    <3> QED BY <3>1
  <2>2. /\ DOMAIN locals = {"from", "target", "scan", "queue"} /\ locals.scan = loc[t].scan
        /\ locals.from = configured /\ locals.target = target
    BY <1>7
  <2> HIDE DEF locals
  <2>3. /\ LocalsFit' /\ pc'[t] = "RunStatus" /\ op'[t] = "run" /\ goal'[t] = "Armed"
        /\ loc'[t] = locals
    BY <1>3, <1>5, <2>1, <2>2, Going DEF Steps, RunGoal
  <2>4. PICK first \in Nat : RunOf(scan, breakpointIndex, first, configured)
    BY <1>5 DEF HasRun
  <2>5. RunOf(scan, index, configured, target) /\ target \in Nat /\ target <= total
    BY <1>6, <2>1, <2>4, NextRun
  <2>6. HasScan'
    BY <1>1, <1>5, <1>6, <2>1 DEF HasRun, HasScan
  <2>7. PostRunFits(t)'
    BY <1>1, <1>6, <2>1, <2>2, <2>3, <2>5, <2>6 DEF PostRunFits
  <2>8. Acts(t)'
    BY <2>3 DEF Acts
  <2>9. AtRest' /\ Fits(t)'
    BY <1>1, <2>3, <2>7 DEF AtRest, Fits
  <2> QED BY <1>1, <2>3, <2>8, <2>9, Leads
<1>9. CASE ScanOver(t)
  <2>1. /\ configured >= total /\ completed' = configured
        /\ Proceed(t, "PostRunReady") /\ UNCHANGED breakpointIndex
    BY <1>9 DEF ScanOver
  <2>2. /\ LocalsFit' /\ pc'[t] = "PostRunReady" /\ op'[t] = "run" /\ goal'[t] = "Finished"
    BY <1>3, <1>5, <1>6, <1>7, <2>1, Going DEF Proceed, Steps, RunGoal
  <2>3. AllDone'
    BY <1>1, <1>5, <1>6, <2>1 DEF HasRun, HasScan, AllDone
  <2>4. PostRunFits(t)'
    BY <2>2, <2>3 DEF PostRunFits
  <2>5. Acts(t)'
    BY <2>2 DEF Acts
  <2>6. AtRest' /\ Fits(t)'
    BY <1>1, <2>2, <2>4 DEF AtRest, Fits
  <2> QED BY <1>1, <2>2, <2>5, <2>6, Leads
<1> QED BY <1>1, <1>8, <1>9

\* RunStatusDone, PostRunArmedDone and PostRunReadyDone
LEMMA PostRunKeepsSteps ==
  ASSUME ControlTypes, Roles, Steps, NEW t \in Threads, Roles',
         RunStatusDone(t) \/ PostRunArmedDone(t) \/ PostRunReadyDone(t)
  PROVE  Steps'
<1>1. /\ pc[t] \in {"RunStatus", "PostRunArmed", "PostRunReady"} /\ state' = state
      /\ UNCHANGED <<total, breakpointIndex, scan>>
  BY DEF RunStatusDone, PostRunArmedDone, PostRunReadyDone, attributes
<1>2. Acts(t)
  BY <1>1 DEF Acts
<1>3. op[t] = "run"
  BY <1>1, <1>2, WhereItActs DEF Placed
<1>4. state \in {"PostRun", "Aborting"}
  BY <1>1, <1>2, <1>3, WhereItActs DEF AtHome, InRun
<1>5. DOMAIN loc[t] = {"from", "target", "scan", "queue"}
  BY DEF Steps, LocalsFit
<1>6. PICK phase \in {"PostRunArmed", "Settle"} :
        /\ Proceed(t, phase)
        /\ phase = "PostRunArmed" => RunStatusDone(t)
        /\ phase = "Settle" => PostRunArmedDone(t) \/ PostRunReadyDone(t)
  BY DEF RunStatusDone, PostRunArmedDone, PostRunReadyDone
<1>7. /\ LocalsFit' /\ pc'[t] = phase /\ op'[t] = "run" /\ goal'[t] = goal[t]
      /\ loc'[t] = loc[t]
  BY <1>3, <1>5, <1>6, Going DEF Proceed, Steps
<1>8. CASE state = "Aborting"
  BY <1>1, <1>7, <1>8, Unclaimed DEF Claimed
<1>9. CASE state = "PostRun"
  <2>1. PostRunFits(t)
    BY <1>2, <1>9 DEF Steps, Fits
  <2>2. ASSUME RunStatusDone(t) PROVE PostRunFits(t)'
    <3>1. /\ pc[t] = "RunStatus" /\ completed' = loc[t].from /\ configured' = configured
          /\ phase = "PostRunArmed"
      BY <1>6, <2>2 DEF RunStatusDone, PostRunArmedDone, PostRunReadyDone
    <3>2. HasScan'
      BY <1>1, <2>1, <3>1 DEF PostRunFits, HasScan
    <3> QED BY <1>1, <1>7, <2>1, <3>1, <3>2 DEF PostRunFits
  <2>3. ASSUME PostRunArmedDone(t) PROVE PostRunFits(t)'
    <3>1. /\ pc[t] = "PostRunArmed" /\ configured' = loc[t].target /\ completed' = completed
          /\ phase = "Settle"
      BY <1>6, <2>3 DEF RunStatusDone, PostRunArmedDone
    <3>2. /\ HasScan /\ goal[t] = "Armed" /\ completed = loc[t].from
          /\ loc[t].from \in Nat /\ loc[t].target \in Nat /\ loc[t].target <= total
          /\ RunOf(scan, breakpointIndex, loc[t].from, loc[t].target)
      BY <2>1, <3>1 DEF PostRunFits
    <3>3. HasScan'
      BY <1>1, <3>1, <3>2 DEF HasScan
    <3>4. loc[t].from < loc[t].target
      BY <3>2, RunIs DEF HasScan
    <3>5. HasNextRun'
      BY <1>1, <3>1, <3>2, <3>3, <3>4 DEF HasRun, HasNextRun
    <3> QED BY <1>7, <3>1, <3>2, <3>5 DEF PostRunFits
  <2>4. ASSUME PostRunReadyDone(t) PROVE PostRunFits(t)'
    <3>1. pc[t] = "PostRunReady" /\ UNCHANGED attributes /\ phase = "Settle"
      BY <1>6, <2>4 DEF RunStatusDone, PostRunReadyDone
    <3>2. AllDone /\ goal[t] = "Finished"
      BY <2>1, <3>1 DEF PostRunFits
    <3>3. AllDone'
      BY <3>1, <3>2 DEF AllDone, HasScan, attributes
    <3> QED BY <1>7, <3>1, <3>2, <3>3 DEF PostRunFits
  <2>5. PostRunFits(t)'
    BY <2>2, <2>3, <2>4
  <2>6. Acts(t)'
    BY <1>7 DEF Acts
  <2>7. AtRest' /\ Fits(t)'
    BY <1>1, <1>7, <1>9, <2>5 DEF AtRest, Fits
  <2> QED BY <1>1, <1>7, <1>9, <2>6, <2>7, Leads
<1> QED BY <1>4, <1>8, <1>9

\* A run() reads its resume_queue, and no other does.
LEMMA ResumedKeepsSteps ==
  ASSUME ControlTypes, Roles, Steps, NEW t \in Threads, Resumed(t)
  PROVE  Steps'
<1>1. /\ pc[t] = "AwaitResume" /\ Queue(t) # << >>
      /\ resumeQueues' = [resumeQueues EXCEPT ![loc[t].queue] = Tail(@)]
      /\ state' = state /\ UNCHANGED attributes
      /\ IF Head(Queue(t)) THEN Proceed(t, "PreRun") ELSE End(t)
  BY DEF Resumed, Queue
<1>2. ASSUME NEW u \in Threads \ {t}, Alone(t)
      PROVE  (Acts(u)' => Acts(u)) /\ (Waiting(u)' => Waiting(u))
  <2>1. ASSUME pc[u] = "AwaitResume" PROVE resumeQueues'[loc[u].queue] = Queue(u)
    <3>1. loc[u].queue \in 1 .. Len(resumeQueues) /\ loc[u].queue # loc[t].queue
      BY <1>1, <2>1 DEF Roles, ReadersFit
    <3>2. DOMAIN resumeQueues = 1 .. Len(resumeQueues)
      BY LenProperties DEF Roles, QueuesTyped
    <3> QED BY <1>1, <3>1, <3>2 DEF Queue
  <2> QED BY <1>2, <2>1, OthersRead
<1>3. CASE Head(Queue(t))
  <2>1. Acts(t)
    BY <1>1, <1>3 DEF Acts, Resuming
  <2>2. /\ op[t] = "run" /\ state \in {"Running", "Seeking", "Aborting"}
        /\ state \in {"Running", "Seeking"} => goal[t] = RunGoal
    BY <1>1, <2>1, RunsHooks
  <2>3. DOMAIN loc[t] = {"from", "target", "scan", "queue"}
    BY DEF Steps, LocalsFit
  <2>4. Alone(t) /\ LocalsFit' /\ op'[t] = op[t] /\ goal'[t] = goal[t]
    BY <1>1, <1>3, <2>3, Going DEF Proceed, Steps
  <2>5. RunGoal' = RunGoal
    BY <1>1 DEF RunGoal, attributes
  <2>6. Fits(t)'
    BY <1>1, <2>2, <2>4, <2>5, StaysInRun
  <2> QED BY <1>1, <1>2, <2>4, <2>6, Quiet
<1>4. CASE ~Head(Queue(t))
  <2>1. Alone(t) /\ LocalsFit' /\ Fits(t)'
    BY <1>1, <1>4, EndsFit DEF Steps
  <2> QED BY <1>1, <1>2, <2>1, Quiet
<1> QED BY <1>3, <1>4

\* A part reports steps that are done; a pause() that waits has its own to go to.
LEMMA ProgressKeepsSteps ==
  ASSUME ControlTypes, Roles, Steps, NEW t \in Threads, Progress(t)
  PROVE  Steps'
<1>1. /\ pc[t] \in ReportPhases /\ completed' \in completed + 1 .. configured
      /\ op[t] = "pause" => goal[t] = "Paused"
      /\ UNCHANGED <<state, thread, resumeQueues, total, configured, breakpointIndex, scan>>
  BY DEF Progress
<1>2. Acts(t)
  BY <1>1 DEF Acts, ReportPhases
<1>3. \/ op[t] = "run" /\ state \in {"Running", "Seeking", "Aborting"}
      \/ /\ op[t] = "run" /\ state = "PostRun"
         /\ pc[t] \in {"RunStatus", "PostRunArmed", "PostRunReady"}
      \/ /\ op[t] = "pause" /\ state \in {"Seeking", "Aborting"}
         /\ pc[t] \in {"SeekStatus", "Seek"}
  BY <1>1, <1>2, WhereItActs DEF Placed, AtHome, InRun, ReportPhases
<1>4. LocalsFit'
  BY <1>1 DEF Steps, LocalsFit, thread
<1>5. HasScan => HasScan'
  BY <1>1 DEF HasScan
<1>6. HasRun => HasRun'
  <2>1. SUFFICES ASSUME HasRun PROVE HasRun'
    OBVIOUS
  <2>2. PICK first \in Nat : /\ RunOf(scan, breakpointIndex, first, configured)
                             /\ first <= completed
    BY <2>1 DEF HasRun
  <2>3. completed \in Nat /\ configured \in Nat /\ configured <= total
    BY <2>1 DEF HasRun, HasScan
  <2>4. first <= completed' /\ completed' <= configured
    BY <1>1, <2>2, <2>3
  <2> QED BY <1>1, <1>5, <2>1, <2>2, <2>3, <2>4 DEF HasRun
<1>7. AtRest'
  BY <1>1, <1>3, <1>6 DEF Steps, AtRest
<1>8. RunGoal' = RunGoal
  BY <1>1 DEF RunGoal
<1>9. ASSUME NEW u \in Threads PROVE Fits(u)'
  <2>1. (Acts(u)' <=> Acts(u)) /\ (Waiting(u)' <=> Waiting(u))
    BY <1>1 DEF Acts, Waiting, Resuming, Queue, thread
  <2>2. Follows(u)' <=> Follows(u)
    BY <1>1, <2>1 DEF Follows, InRun, thread
  <2>3. ASSUME state = "Seeking", op[u] = "pause", pc[u] # "Idle" PROVE PauseFits(u)'
    <3>1. PauseFits(u)
      BY <2>3 DEF Steps, Fits
    <3>2. ToDo(loc[u].from, configured)' = ToDo(loc[u].from, configured)
      BY <1>1 DEF ToDo, thread
    <3>3. CASE u = t
      <4>1. pc[t] \in {"SeekStatus", "Seek"} /\ goal[t] = "Paused"
        BY <1>1, <1>3, <2>3, <3>3
      <4>2. ToDo(loc[t].from, loc[t].target)' = ToDo(loc[t].from, loc[t].target)
        BY <1>1 DEF ToDo, thread
      <4> QED BY <1>1, <1>5, <1>6, <3>1, <3>2, <3>3, <4>1, <4>2 DEF PauseFits, thread
    <3>4. CASE u # t
      <4>1. ~Acts(u)
        BY <1>2, <3>4 DEF Roles, OneActs
      <4>2. Placed(u)
        BY DEF Roles, AllPlaced
      <4>3. pc[u] = "AwaitAbort"
        BY <2>3, <4>1, <4>2 DEF Acts, Placed
      <4> QED BY <1>1, <1>5, <1>6, <3>1, <3>2, <4>3 DEF PauseFits, thread
    <3> QED BY <3>3, <3>4
  <2>4. ASSUME state = "PostRun", Acts(u) PROVE PostRunFits(u)'
    <3>1. u = t
      BY <1>2, <2>4 DEF Roles, OneActs
    <3>2. PostRunFits(t) /\ pc[t] \in {"RunStatus", "PostRunArmed", "PostRunReady"}
      BY <1>2, <1>3, <2>4 DEF Steps, Fits
    <3>3. pc[t] = "RunStatus"
      <4>1. pc[t] = "PostRunArmed" => completed = configured /\ completed \in Nat
        BY <3>2 DEF PostRunFits, HasScan
      <4>2. pc[t] = "PostRunReady" => completed = configured /\ completed \in Nat
        BY <3>2 DEF PostRunFits, AllDone, HasScan
      <4> QED BY <1>1, <3>2, <4>1, <4>2
    <3> QED BY <1>1, <1>5, <3>1, <3>2, <3>3 DEF PostRunFits, thread
  <2> QED BY <1>1, <1>3, <1>8, <2>1, <2>2, <2>3, <2>4 DEF Steps, Fits, thread
<1> QED BY <1>4, <1>7, <1>9 DEF Steps
--------------------------------------------------------------------------------
(***************************************************************************)
(* pause() and abort()                                                     *)
(***************************************************************************)
\* pause() goes on, with the steps it had.
LEMMA PauseGoesOn ==
  ASSUME NEW t \in Threads, op'[t] = "pause", state' = "Seeking", PauseFits(t)'
  PROVE  Fits(t)'
BY DEF Fits, Follows, InRun

LEMMA AnsweredKeepsSteps ==
  ASSUME ControlTypes, Roles, Steps, NEW t \in Threads, AbortAnswered(t)
  PROVE  Steps'
<1>1. /\ pc[t] = "AwaitAbort" /\ state' = state
      /\ resumeQueues' = resumeQueues /\ UNCHANGED attributes
      /\ Proceed(t, IF op[t] = "pause" THEN "Pause" ELSE "Abort")
  BY DEF AbortAnswered
<1>2. Awaits(t)
  BY <1>1 DEF Awaits
<1>3. DOMAIN loc[t] = {"from", "target", "scan", "queue"}
  BY DEF Steps, LocalsFit
<1>4. CASE op[t] = "abort"
  <2>1. state = "Aborting"
    BY <1>2, <1>4 DEF Roles, AwaitersFit
  <2>2. LocalsFit'
    BY <1>1, <1>3, Going DEF Proceed, Steps
  <2> QED BY <1>1, <2>1, <2>2, Unclaimed DEF Claimed
<1>5. CASE op[t] = "pause"
  <2>1. state = "Seeking"
    BY <1>2, <1>5 DEF Roles, AwaitersFit
  <2>2. Proceed(t, "Pause")
    BY <1>1, <1>5
  <2>3. pc'[t] = "Pause" /\ op'[t] = "pause" /\ goal'[t] = goal[t] /\ loc'[t] = loc[t]
    BY <1>3, <1>5, <2>2, Going DEF Proceed, Steps
  <2>4. PauseFits(t)
    BY <1>1, <1>5, <2>1 DEF Steps, Fits
  <2>5. HasScan' = HasScan /\ HasRun' = HasRun
    BY <1>1 DEF HasScan, HasRun, attributes
  <2>6. ToDo(loc[t].from, configured)' = ToDo(loc[t].from, configured)
    BY <1>1, <2>3 DEF ToDo, attributes
  <2>7. PauseFits(t)'
    BY <1>1, <2>3, <2>4, <2>5, <2>6 DEF PauseFits, attributes
  <2> QED BY <1>1, <2>1, <2>2, <2>3, <2>7, GoesQuietly, PauseGoesOn
<1> QED BY <1>2, <1>4, <1>5 DEF Roles, AwaitersFit

LEMMA AbortDoneKeepsSteps ==
  ASSUME ControlTypes, Roles, Steps, NEW t \in Threads, AbortDone(t)
  PROVE  Steps'
<1>1. pc[t] = "Abort" /\ state' = state /\ Proceed(t, "Settle")
  BY DEF AbortDone
<1>2. Acts(t)
  BY <1>1 DEF Acts
<1>3. op[t] = "abort"
  BY <1>1, <1>2, WhereItActs DEF Placed
<1>4. state = "Aborting"
  BY <1>1, <1>2, <1>3, WhereItActs DEF AtHome, InRun
<1>5. DOMAIN loc[t] = {"from", "target", "scan", "queue"}
  BY DEF Steps, LocalsFit
<1>6. LocalsFit'
  BY <1>1, <1>5, Going DEF Proceed, Steps
<1> QED BY <1>1, <1>4, <1>6, Unclaimed DEF Claimed

\* While pause() works there is no other, and a run() waits only for one that is to
\* end in Paused.
LEMMA PauseAlone ==
  ASSUME ControlTypes, Roles, NEW t \in Threads, Acts(t), op[t] = "pause", state = "Seeking"
  PROVE  \A u \in Threads \ {t} : /\ ~(op[u] = "pause" /\ pc[u] # "Idle")
                                  /\ Follows(u) => goal[t] = "Paused"
<1>1. ~Awaited
  BY DEF Roles, ActorsFit, Interrupted, InRun
<1> SUFFICES ASSUME NEW u \in Threads \ {t}
             PROVE  /\ ~(op[u] = "pause" /\ pc[u] # "Idle")
                    /\ Follows(u) => goal[t] = "Paused"
  OBVIOUS
<1>2. ~Acts(u) /\ ~Awaits(u)
  BY <1>1 DEF Roles, OneActs, Awaited
<1>3. ~(op[u] = "pause" /\ pc[u] # "Idle")
  <2>1. Placed(u)
    BY DEF Roles, AllPlaced
  <2> QED BY <1>2, <2>1 DEF Acts, Awaits, Placed
<1>4. Follows(u) => goal[t] = "Paused"
  BY <1>2 DEF Follows, Roles, WaitersFit
<1> QED BY <1>3, <1>4

\* pause() goes on in Seeking with new steps.
LEMMA SeeksOn ==
  ASSUME ControlTypes, Roles, Steps, NEW t \in Threads, Roles',
         Acts(t), op[t] = "pause", state = "Seeking", state' = "Seeking",
         NEW phase \in {"SeekStatus", "Seek", "Settle"}, NEW locals, Goto(t, phase, locals),
         DOMAIN locals = {"from", "target", "scan", "queue"}, locals.scan = loc[t].scan,
         resumeQueues' = resumeQueues, PauseFits(t)',
         total' = total, goal[t] = "Paused" => configured' = configured
  PROVE  Steps'
<1>1. Alone(t) /\ LocalsFit' /\ pc'[t] = phase /\ op'[t] = "pause"
  BY Going DEF Steps
<1>2. Acts(t)'
  BY <1>1 DEF Acts
<1>3. AtRest' /\ Fits(t)'
  BY <1>1, PauseGoesOn DEF AtRest
<1>4. ASSUME NEW u \in Threads \ {t} PROVE ~(op'[u] = "pause" /\ pc'[u] # "Idle")
  <2>1. op'[u] = op[u] /\ pc'[u] = pc[u]
    BY <1>1 DEF Alone
  <2> QED BY <2>1, PauseAlone
<1>5. ASSUME NEW u \in Threads \ {t}, Follows(u)' PROVE goal'[u] = RunGoal'
  <2>1. Follows(u) /\ goal'[u] = goal[u]
    <3>1. (Acts(u)' => Acts(u)) /\ (Waiting(u)' => Waiting(u))
      BY <1>1, Others
    <3> QED BY <1>1, <1>5, <3>1 DEF Follows, InRun, Alone
  <2>2. goal[t] = "Paused"
    BY <2>1, PauseAlone
  <2>3. goal[u] = RunGoal
    BY <2>1 DEF Steps, Fits
  <2> QED BY <2>1, <2>2, <2>3 DEF RunGoal
<1> QED BY <1>1, <1>2, <1>3, <1>4, <1>5, Leads

\* Where each phase of pause() takes the steps
LEMMA PauseDoneFits ==
  ASSUME NEW t \in Threads, PauseFits(t), PauseDone(t),
         pc'[t] = "SeekStatus", goal'[t] = goal[t],
         loc'[t].from = loc[t].from, loc'[t].target = SeekTarget(loc[t].from)
  PROVE  PauseFits(t)'
<1> DEFINE from == loc[t].from
           target == SeekTarget(loc[t].from)
           index == IF scan.ends = << >> THEN breakpointIndex ELSE BreakpointIndex(from)
<1>1. /\ pc[t] = "Pause" /\ breakpointIndex' = index
      /\ UNCHANGED <<total, configured, completed, scan>>
  BY DEF PauseDone
<1>2. HasScan /\ from \in 0 .. total - 1
  BY DEF PauseFits
<1>3. PICK first \in Nat : /\ RunOf(scan, index, first, target)
                           /\ first <= from /\ from < target /\ target <= total
  BY <1>2, SoughtRun
<1>4. scan \in ScanRecords /\ total = scan.total /\ total \in Nat /\ from \in Nat
  BY <1>2, ScanHas DEF HasScan
<1>5. target \in Nat
  BY <1>3, <1>4, RunIs
<1>6. HasScan'
  BY <1>1, <1>2 DEF HasScan
<1>7. goal[t] = "Paused" => HasRun /\ index = breakpointIndex /\ target = configured
  <2>1. SUFFICES ASSUME goal[t] = "Paused"
                 PROVE  HasRun /\ index = breakpointIndex /\ target = configured
    OBVIOUS
  <2>2. HasRun /\ ToDo(from, configured)
    BY <1>1, <2>1 DEF PauseFits
  <2>3. PICK start \in Nat : /\ RunOf(scan, breakpointIndex, start, configured)
                             /\ start <= from /\ from < configured
    BY <2>2 DEF ToDo
  <2> HIDE DEF index, target, from
  <2> QED BY <1>3, <1>4, <2>2, <2>3, SameRun
<1>8. goal[t] = "Paused" => HasRun'
  BY <1>1, <1>6, <1>7 DEF HasRun
<1> HIDE DEF index, target, from
<1>9. ToDo(loc[t].from, loc[t].target)'
  BY <1>1, <1>3 DEF ToDo, from, target
<1> QED BY <1>1, <1>2, <1>3, <1>5, <1>6, <1>7, <1>8, <1>9 DEF PauseFits, from, target

LEMMA SeekStatusFits ==
  ASSUME NEW t \in Threads, PauseFits(t), SeekStatusDone(t),
         pc'[t] = "Seek", goal'[t] = goal[t], loc'[t] = loc[t]
  PROVE  PauseFits(t)'
<1>1. /\ pc[t] = "SeekStatus" /\ completed' = loc[t].from
      /\ UNCHANGED <<total, configured, breakpointIndex, scan>>
  BY DEF SeekStatusDone
<1>2. /\ HasScan /\ loc[t].from \in 0 .. total - 1
      /\ loc[t].target \in Nat /\ loc[t].target <= total
      /\ ToDo(loc[t].from, loc[t].target)
      /\ goal[t] = "Paused" => HasRun /\ loc[t].target = configured
  BY <1>1 DEF PauseFits
<1>3. total \in Nat /\ loc[t].from \in Nat
  BY <1>2, ScanHas DEF HasScan
<1>4. HasScan'
  BY <1>1, <1>2, <1>3 DEF HasScan
<1>5. ToDo(loc[t].from, loc[t].target)'
  BY <1>1, <1>2 DEF ToDo
<1>6. goal[t] = "Paused" => HasRun'
  <2>1. SUFFICES ASSUME goal[t] = "Paused" PROVE HasRun'
    OBVIOUS
  <2>2. PICK first \in Nat : /\ RunOf(scan, breakpointIndex, first, configured)
                             /\ first <= loc[t].from /\ loc[t].from < configured
    BY <1>2, <2>1 DEF ToDo
  <2>3. configured \in Nat /\ configured <= total
    BY <1>2, <2>1 DEF HasRun, HasScan
  <2> QED BY <1>1, <1>3, <1>4, <2>2, <2>3 DEF HasRun
<1> QED BY <1>1, <1>2, <1>4, <1>5, <1>6 DEF PauseFits

LEMMA SeekFits ==
  ASSUME NEW t \in Threads, PauseFits(t), SeekDone(t),
         pc'[t] = "Settle", goal'[t] = goal[t], loc'[t] = loc[t]
  PROVE  PauseFits(t)' /\ (goal[t] = "Paused" => configured' = configured)
<1>1. /\ pc[t] = "Seek" /\ configured' = loc[t].target
      /\ UNCHANGED <<total, completed, breakpointIndex, scan>>
  BY DEF SeekDone
<1>2. /\ HasScan /\ loc[t].from \in 0 .. total - 1
      /\ loc[t].target \in Nat /\ loc[t].target <= total
      /\ ToDo(loc[t].from, loc[t].target)
      /\ goal[t] = "Paused" => HasRun /\ loc[t].target = configured
      /\ goal[t] # "Paused" => completed = loc[t].from
  BY <1>1 DEF PauseFits
<1>3. PICK first \in Nat : /\ RunOf(scan, breakpointIndex, first, loc[t].target)
                           /\ first <= loc[t].from /\ loc[t].from < loc[t].target
  BY <1>2 DEF ToDo
<1>4. HasScan'
  BY <1>1, <1>2 DEF HasScan
<1>5. goal[t] = "Paused" => HasRun'
  BY <1>1, <1>2, <1>4 DEF HasRun
<1>6. goal[t] # "Paused" => HasNextRun'
  <2>1. completed \in Nat
    BY <1>2 DEF HasScan
  <2> QED BY <1>1, <1>2, <1>3, <1>4, <2>1 DEF HasNextRun, HasRun
<1> QED BY <1>1, <1>2, <1>4, <1>5, <1>6 DEF PauseFits

LEMMA SeekKeepsSteps ==
  ASSUME ControlTypes, Roles, Steps, NEW t \in Threads, Roles',
         PauseDone(t) \/ SeekStatusDone(t) \/ SeekDone(t)
  PROVE  Steps'
<1>1. /\ pc[t] \in {"Pause", "SeekStatus", "Seek"} /\ state' = state
      /\ resumeQueues' = resumeQueues /\ total' = total
      /\ PauseDone(t) \/ SeekStatusDone(t) => configured' = configured
  BY DEF PauseDone, SeekStatusDone, SeekDone
<1>2. Acts(t)
  BY <1>1 DEF Acts
<1>3. op[t] = "pause"
  BY <1>1, <1>2, WhereItActs DEF Placed
<1>4. state \in {"Seeking", "Aborting"}
  BY <1>1, <1>2, <1>3, WhereItActs DEF AtHome, InRun
<1>5. DOMAIN loc[t] = {"from", "target", "scan", "queue"}
  BY DEF Steps, LocalsFit
<1> DEFINE sought == [loc[t] EXCEPT !.target = SeekTarget(loc[t].from)]
<1>6. PICK phase \in {"SeekStatus", "Seek", "Settle"}, locals \in {loc[t], sought} :
        /\ Goto(t, phase, locals)
        /\ PauseDone(t) => phase = "SeekStatus" /\ locals = sought
        /\ SeekStatusDone(t) => phase = "Seek" /\ locals = loc[t]
        /\ SeekDone(t) => phase = "Settle" /\ locals = loc[t]
  BY DEF PauseDone, SeekStatusDone, SeekDone, Proceed
<1>7. /\ DOMAIN sought = {"from", "target", "scan", "queue"} /\ sought.scan = loc[t].scan
      /\ sought.from = loc[t].from /\ sought.target = SeekTarget(loc[t].from)
  BY <1>5
<1> HIDE DEF sought
<1>8. DOMAIN locals = {"from", "target", "scan", "queue"} /\ locals.scan = loc[t].scan
  BY <1>5, <1>6, <1>7
<1>9. /\ LocalsFit' /\ pc'[t] = phase /\ goal'[t] = goal[t] /\ loc'[t] = locals
  BY <1>6, <1>8, Going DEF Steps
<1>10. CASE state = "Aborting"
  BY <1>1, <1>9, <1>10, Unclaimed DEF Claimed
<1>11. CASE state = "Seeking"
  <2>1. PauseFits(t)
    BY <1>1, <1>3, <1>11 DEF Steps, Fits
  <2>2. PauseFits(t)' /\ (goal[t] = "Paused" => configured' = configured)
    <3>1. CASE PauseDone(t)
      BY <1>1, <1>6, <1>7, <1>9, <2>1, <3>1, PauseDoneFits
    <3>2. CASE SeekStatusDone(t)
      BY <1>1, <1>6, <1>9, <2>1, <3>2, SeekStatusFits
    <3>3. CASE SeekDone(t)
      BY <1>6, <1>9, <2>1, <3>3, SeekFits
    <3> QED BY <3>1, <3>2, <3>3
  <2> QED BY <1>1, <1>2, <1>3, <1>6, <1>8, <1>11, <2>2, SeeksOn
<1> QED BY <1>4, <1>10, <1>11
--------------------------------------------------------------------------------
(***************************************************************************)
(* An operation ends                                                       *)
(***************************************************************************)
\* What the last transition finds
LEMMA SettlesWith ==
  ASSUME ControlTypes, Roles, Steps, NEW t \in Threads, Settled(t), op[t] # "abort"
  PROVE  /\ state' = "Armed" => HasNextRun
         /\ state' = "Paused" => HasRun
         /\ state' = "Finished" => AllDone
         /\ state' \in {"Armed", "Paused", "Finished"}
         /\ state' = "Paused" => state = "Seeking"
<1>1. pc[t] = "Settle" /\ NotStopped /\ state' = goal[t]
  BY DEF Settled
<1>2. /\ Acts(t)
      /\ \/ op[t] = "configure" /\ state = "Configuring" /\ goal[t] = "Armed"
         \/ op[t] = "run" /\ state = "PostRun" /\ goal[t] \in {"Armed", "Finished"}
         \/ op[t] = "pause" /\ state = "Seeking" /\ goal[t] \in {"Armed", "Paused"}
  BY <1>1, SettlesFrom
<1>3. Fits(t)
  BY DEF Steps
<1>4. CASE op[t] = "configure"
  <2>1. /\ scan \in ScanRecords /\ total = scan.total /\ completed = 0
        /\ breakpointIndex = 0 /\ configured = scan.steps[1]
    BY <1>1, <1>2, <1>3, <1>4 DEF Fits, ConfigureFits
  <2>2. /\ RunOf(scan, 0, 0, configured) /\ 0 \in Nat
        /\ configured \in Nat /\ 0 < configured /\ configured <= total
    BY <2>1, FirstRun
  <2>3. HasScan
    BY <2>1, <2>2 DEF HasScan
  <2>4. HasRun
    BY <2>1, <2>2, <2>3 DEF HasRun
  <2> QED BY <1>1, <1>2, <1>4, <2>1, <2>2, <2>4 DEF HasNextRun
<1>5. CASE op[t] = "run"
  BY <1>1, <1>2, <1>3, <1>5 DEF Fits, PostRunFits
<1>6. CASE op[t] = "pause"
  BY <1>1, <1>2, <1>3, <1>6 DEF Fits, PauseFits
<1> QED BY <1>2, <1>4, <1>5, <1>6

LEMMA SettledKeepsSteps ==
  ASSUME ControlTypes, Roles, Steps, NEW t \in Threads, Settled(t)
  PROVE  Steps'
<1>1. /\ pc[t] = "Settle" /\ NotStopped /\ state' = goal[t] /\ End(t)
      /\ UNCHANGED <<total, configured, completed, breakpointIndex, scan>>
      /\ op[t] # "abort" => resumeQueues' = resumeQueues
  BY DEF Settled, KeepResumeQueues, attributes
<1>2. Alone(t) /\ LocalsFit' /\ Fits(t)'
  BY <1>1, EndsFit DEF Steps
<1>3. CASE op[t] = "abort"
  <2>1. state' = "Aborted"
    BY <1>1, <1>3, SettlesFrom
  <2> QED BY <1>2, <2>1, Unclaimed DEF Claimed
<1>4. CASE op[t] # "abort"
  <2>1. /\ state' = "Armed" => HasNextRun
        /\ state' = "Paused" => HasRun
        /\ state' = "Finished" => AllDone
        /\ state' \in {"Armed", "Paused", "Finished"}
        /\ state' = "Paused" => state = "Seeking"
    BY <1>4, SettlesWith
  <2>2. AtRest'
    BY <1>1, <2>1 DEF AtRest, HasNextRun, HasRun, HasScan, AllDone
  <2>3. ASSUME NEW u \in Threads \ {t} PROVE Fits(u)'
    <3>1. (Acts(u)' => Acts(u)) /\ (Waiting(u)' => Waiting(u))
      BY <1>1, <1>2, <1>4, Others
    <3>2. Follows(u)' => Follows(u) /\ goal'[u] = goal[u]
      BY <1>2, <3>1 DEF Follows, InRun, Alone
    <3>3. state' = "Paused" /\ Follows(u)' => goal'[u] = RunGoal'
      BY <1>1, <2>1, <3>2 DEF Steps, Fits, RunGoal
    <3> QED BY <2>1, <3>3 DEF Fits
  <2> QED BY <1>2, <2>2, <2>3 DEF Steps
<1> QED BY <1>3, <1>4

LEMMA StatefulKeepsSteps ==
  ASSUME ControlTypes, Roles, Steps, NEW t \in Threads, StatefulDone(t)
  PROVE  Steps'
<1>1. pc[t] = "Stateful"
  BY DEF StatefulDone
<1>2. Acts(t)
  BY <1>1 DEF Acts
<1>3. goal[t] = "Ready"
  BY <1>1, <1>2, WhereItActs DEF Placed
<1>4. state \in {"Resetting", "Saving", "Loading"}
  <2>1. op[t] \notin {"configure", "run", "pause", "abort"}
    BY <1>1, <1>2, WhereItActs DEF Placed
  <2>2. AtHome(t)
    BY <1>1, <1>2, Unawaited DEF Interruptible
  <2> QED BY <1>1, <2>1, <2>2 DEF AtHome, InRun
<1>5. state' = "Ready" /\ End(t)
  BY <1>3, <1>4, Allowed DEF StatefulDone, Transition
<1> QED BY <1>5, EndsFit, Unclaimed DEF Steps, Claimed

\* An operation gives way; a run() in a scan that is being paused waits.
LEMMA DropsKeepSteps ==
  ASSUME Scope, ControlTypes, Roles, Steps, NEW t \in Threads, Drops(t)
  PROVE  Steps'
<1>1. Acts(t) /\ pc[t] # "AwaitResume" /\ Awaited /\ Aborted(t)
  BY DropsForSomebody
<1>2. UNCHANGED attributes
  BY DEF Drops, HookStopped, SettleRefused, RunRefused
<1>3. /\ op[t] \in {"configure", "run", "pause"}
      /\ state = "Aborting" \/ (state = "Seeking" /\ op[t] = "run")
      /\ abortQueue \in Threads
  BY <1>1, InterruptedFits
<1>4. CASE op[t] = "run"
  <2> DEFINE locals == [loc[t] EXCEPT !.queue = Len(resumeQueues)]
  <2>1. /\ Goto(t, "AwaitResume", locals)
        /\ state' = state /\ resumeQueues' = resumeQueues
    BY <1>1, <1>3, <1>4, ThreadsAssumption DEF Aborted, RunAborted
  <2>2. DOMAIN locals = {"from", "target", "scan", "queue"} /\ locals.scan = loc[t].scan
    BY LocalsAre DEF Steps
  <2> HIDE DEF locals
  <2>3. /\ Alone(t) /\ LocalsFit' /\ op'[t] = "run" /\ goal'[t] = goal[t]
    BY <1>4, <2>1, <2>2, Going DEF Steps
  <2>4. state = "Seeking" => goal[t] = RunGoal
    <3>1. state = "Seeking" => InRun(t)
      BY <1>1, <1>4, WhereItActs DEF AtHome
    <3> QED BY <1>1, <3>1 DEF Steps, Fits, Follows
  <2>5. RunGoal' = RunGoal
    BY <1>2 DEF RunGoal, attributes
  <2>6. Fits(t)'
    BY <1>3, <2>1, <2>3, <2>4, <2>5, StaysInRun
  <2>7. \A u \in Threads \ {t} : (Acts(u)' => Acts(u)) /\ (Waiting(u)' => Waiting(u))
    BY <2>1, <2>3, Others
  <2> QED BY <1>2, <2>1, <2>3, <2>6, <2>7, Quiet
<1>5. CASE op[t] # "run"
  <2>1. End(t) /\ state' = state
    BY <1>1, <1>3, <1>5 DEF Aborted, OperationAborted
  <2> QED BY <1>3, <1>5, <2>1, EndsFit, Unclaimed DEF Steps, Claimed
<1> QED BY <1>4, <1>5

LEMMA StepKeepsSteps ==
  ASSUME Scope, ControlTypes, Roles, Steps, NEW t \in Threads, Step(t), ~Fails(t), Roles'
  PROVE  Steps'
<1>1. CASE ConfigureStep(t)
  BY <1>1, ValidateKeepsSteps, ConfigureQuietly, ConfigureKeepsSteps DEF ConfigureStep, Fails
<1>2. CASE RunStep(t)
  BY <1>2, PreRunKeepsSteps, RunDoneKeepsSteps, PostRunKeepsSteps, ResumedKeepsSteps,
     DropsKeepSteps DEF RunStep, Drops
<1>3. CASE AbortStep(t)
  BY <1>3, AnsweredKeepsSteps, AbortDoneKeepsSteps, SeekKeepsSteps DEF AbortStep
<1>4. CASE EndStep(t)
  <2>1. ~HaltDone(t)
    BY DEF HaltDone, Roles, AllPlaced, Placed
  <2> QED BY <1>4, <2>1, SettledKeepsSteps, StatefulKeepsSteps, DropsKeepSteps
          DEF EndStep, Drops, Fails
<1> QED BY <1>1, <1>2, <1>3, <1>4 DEF Step

--------------------------------------------------------------------------------
(***************************************************************************)
(* Requests                                                                *)
(***************************************************************************)
\* A request that starts with locals as they should be
LEMMA StartsFit ==
  ASSUME ControlTypes, Roles, LocalsFit, NEW t \in Threads,
         NEW f, NEW end, NEW phase, NEW locals, Start(t, f, end, phase, locals),
         DOMAIN locals = {"from", "target", "scan", "queue"},
         f = "configure" => locals.scan \in ScanRecords
  PROVE  /\ Alone(t) /\ LocalsFit'
         /\ pc'[t] = phase /\ op'[t] = f /\ goal'[t] = end /\ loc'[t] = locals
<1>1. Alone(t) /\ pc'[t] = phase /\ op'[t] = f /\ goal'[t] = end /\ loc'[t] = locals
  BY Lands DEF Roles
<1> QED BY <1>1, LocalsStayFit

LEMMA CallStatefulKeepsSteps ==
  ASSUME ControlTypes, Roles, Steps, NEW t \in Threads, NEW f \in DOMAIN StartState,
         CallStateful(t, f)
  PROVE  Steps'
<1>1. /\ state' \in {"Resetting", "Saving", "Loading"} /\ f # "configure"
      /\ Start(t, f, EndState[f], "Stateful", NoLocals)
  BY DEF CallStateful, Transition, StartState
<1>2. LocalsFit'
  BY <1>1, NoLocalsAre, StartsFit DEF Steps
<1> QED BY <1>1, <1>2, Unclaimed DEF Claimed

LEMMA CallAbortKeepsSteps ==
  ASSUME ControlTypes, Roles, Steps, NEW t \in Threads, CallAbort(t)
  PROVE  Steps'
<1>1. /\ state' = "Aborting"
      /\ \E phase : Start(t, "abort", "Aborted", phase, NoLocals)
  BY DEF CallAbort, TryAborting
<1>2. LocalsFit'
  BY <1>1, NoLocalsAre, StartsFit DEF Steps
<1> QED BY <1>1, <1>2, Unclaimed DEF Claimed

LEMMA CallConfigureKeepsSteps ==
  ASSUME ControlTypes, Roles, Steps, NEW t \in Threads, CallConfigure(t)
  PROVE  Steps'
<1>1. PICK s \in Scans : Start(t, "configure", "Armed", "Validate", [NoLocals EXCEPT !.scan = s])
  BY DEF CallConfigure
<1>2. /\ state \in {"Ready", "Finished"} /\ state' = state
      /\ resumeQueues' = resumeQueues /\ UNCHANGED attributes
  BY DEF CallConfigure, Call, WriteableIn
<1>3. Alone(t) /\ LocalsFit' /\ op'[t] = "configure"
  <2>1. /\ DOMAIN [NoLocals EXCEPT !.scan = s] = {"from", "target", "scan", "queue"}
        /\ [NoLocals EXCEPT !.scan = s].scan \in ScanRecords
    BY NoLocalsAre, ScansAssumption
  <2> HIDE DEF NoLocals
  <2> QED BY <1>1, <2>1, StartsFit DEF Steps
<1>4. Fits(t)'
  BY <1>2, <1>3, ConfigureOnly
<1>5. \A u \in Threads \ {t} : (Acts(u)' => Acts(u)) /\ (Waiting(u)' => Waiting(u))
  BY <1>2, <1>3, Others
<1> QED BY <1>2, <1>3, <1>4, <1>5, Quiet

LEMMA CallRunKeepsSteps ==
  ASSUME Scope, ControlTypes, Roles, Steps, NEW t \in Threads, CallRun(t), Roles'
  PROVE  Steps'
<1>1. /\ state = "Armed" /\ state' = "Running"
      /\ resumeQueues' = resumeQueues
      /\ UNCHANGED <<total, configured, completed, breakpointIndex, scan>>
      /\ Start(t, "run", RunGoal, "PreRun", NoLocals)
  BY DEF CallRun, Call, WriteableIn, Transition, attributes
<1>2. /\ Alone(t) /\ LocalsFit'
      /\ pc'[t] = "PreRun" /\ op'[t] = "run" /\ goal'[t] = RunGoal
  BY <1>1, NoLocalsAre, StartsFit DEF Steps
<1>3. AtRest'
  BY <1>1 DEF Steps, AtRest, HasNextRun, HasRun, HasScan
<1>4. RunGoal' = RunGoal
  BY <1>1 DEF RunGoal
<1>5. Acts(t)' /\ Fits(t)'
  BY <1>1, <1>2, <1>4, StaysInRun DEF Acts
<1>6. Shut
  BY CallsAreShut DEF CallRun
<1>7. ASSUME NEW u \in Threads \ {t} PROVE ~Follows(u)'
  <2>1. ~Acts(u) /\ ~Waiting(u)
    BY <1>1, <1>6, NobodyActs
  <2>2. ~Acts(u)' /\ ~Waiting(u)'
    BY <1>1, <1>2, <2>1, Others
  <2> QED BY <2>2 DEF Follows
<1> QED BY <1>1, <1>2, <1>3, <1>5, <1>7, Leads
\* resume(): the run() that waited is the one whose goal is kept.
LEMMA CallResumeKeepsSteps ==
  ASSUME Scope, ControlTypes, Roles, Steps, NEW t \in Threads, CallResume(t)
  PROVE  Steps'
<1>1. /\ state = "Paused" /\ state' = "Running"
      /\ UNCHANGED <<pc, op, goal, loc>> /\ PutResume(TRUE)
      /\ UNCHANGED <<total, configured, completed, breakpointIndex, scan>>
  BY DEF CallResume, Call, WriteableIn, thread, attributes
<1>2. Shut
  BY CallsAreShut DEF CallResume
<1>3. /\ resumeQueues # << >> /\ LastQueue = << >>
      /\ \A u \in Threads : ~Acts(u)
  BY <1>1, <1>2, NobodyActs
<1>4. \A n \in 1 .. Len(resumeQueues) :
        n # Len(resumeQueues) => resumeQueues'[n] = resumeQueues[n]
  <2>1. DOMAIN resumeQueues = 1 .. Len(resumeQueues)
    BY LenProperties DEF Roles, QueuesTyped
  <2> QED BY <1>1, <1>3, <2>1 DEF PutResume
<1>5. LocalsFit'
  BY <1>1 DEF Steps, LocalsFit
<1>6. AtRest'
  BY <1>1 DEF Steps, AtRest, HasNextRun, HasRun, HasScan
<1>7. ASSUME NEW u \in Threads, Follows(u)' PROVE goal'[u] = RunGoal'
  <2>1. pc[u] = "AwaitResume" /\ InRun(u)
    <3>1. Acts(u)' => pc[u] = "AwaitResume"
      BY <1>1, <1>3 DEF Acts, Resuming
    <3>2. Waiting(u)' => pc[u] = "AwaitResume"
      BY <1>1 DEF Waiting
    <3> QED BY <1>1, <1>7, <3>1, <3>2 DEF Follows, InRun
  <2>2. Waiting(u)
    <3>1. loc[u].queue \in 1 .. Len(resumeQueues)
      BY <2>1 DEF Roles, ReadersFit
    <3>2. CASE loc[u].queue = Len(resumeQueues)
      BY <1>3, <2>1, <3>2 DEF Waiting, LastQueue
    <3>3. CASE loc[u].queue # Len(resumeQueues)
      <4>1. Queue(u)' = Queue(u)
        BY <1>1, <1>4, <3>1, <3>3 DEF Queue
      <4>2. ~Acts(u)'
        BY <1>1, <1>3, <2>1, <4>1 DEF Acts, Resuming
      <4> QED BY <1>1, <1>7, <2>1, <4>1, <4>2 DEF Follows, Waiting, Queue
    <3> QED BY <3>2, <3>3
  <2>3. goal[u] = RunGoal
    BY <1>1, <2>1, <2>2 DEF Steps, Fits, Follows
  <2> QED BY <1>1, <2>3 DEF RunGoal
<1>8. \A u \in Threads : Fits(u)'
  BY <1>1, <1>7 DEF Fits
<1> QED BY <1>5, <1>6, <1>8 DEF Steps

\* pause() starts where nobody else is pausing, and a run() is in progress or paused
\* if there is one.
LEMMA NoPause ==
  ASSUME Roles, state \in {"Armed", "Paused", "Running", "Finished"}, NEW u \in Threads
  PROVE  /\ ~(op[u] = "pause" /\ pc[u] # "Idle")
         /\ Follows(u) => state \in {"Running", "Paused"}
<1>1. Acts(u) => AtHome(u)
  BY WhereItActs
<1>2. ~Awaits(u)
  BY DEF Roles, AwaitersFit
<1>3. Placed(u)
  BY DEF Roles, AllPlaced
<1>4. ~(op[u] = "pause" /\ pc[u] # "Idle")
  <2>1. SUFFICES ASSUME op[u] = "pause", pc[u] # "Idle" PROVE FALSE
    OBVIOUS
  <2>2. Acts(u)
    BY <1>2, <1>3, <2>1 DEF Acts, Awaits, Placed
  <2>3. pc[u] \notin {"Validate", "Stateful"} /\ ~InRun(u)
    BY <1>3, <2>1 DEF Placed, InRun
  <2> QED BY <1>1, <2>1, <2>2, <2>3 DEF AtHome
<1>5. Follows(u) => state \in {"Running", "Paused"}
  <2>1. SUFFICES ASSUME Follows(u) PROVE state \in {"Running", "Paused"}
    OBVIOUS
  <2>2. CASE Waiting(u)
    BY <2>2 DEF Roles, WaitersFit
  <2>3. CASE Acts(u)
    <3>1. InRun(u)
      BY <2>1 DEF Follows
    <3> QED BY <1>1, <2>3, <3>1 DEF AtHome, InRun
  <2> QED BY <2>1, <2>2, <2>3 DEF Follows
<1> QED BY <1>4, <1>5

\* The step that pause(n) goes back to: one of the scan, and of the run in progress.
LEMMA LastGoodSteps ==
  ASSUME SeekAnywhere = FALSE, AtRest, NEW n \in PauseArguments, n < 0 => state # "Finished",
         state \in {"Armed", "Paused", "Running", "Finished"}
  PROVE  /\ HasScan /\ LastGoodStep(n) \in 0 .. total - 1
         /\ state \in {"Paused", "Running"} => HasRun /\ ToDo(LastGoodStep(n), configured)
<1>1. HasScan
  BY DEF AtRest, HasNextRun, HasRun, AllDone
<1>2. /\ scan \in ScanRecords /\ total \in Nat /\ total > 0
      /\ completed \in Nat /\ configured \in Nat
  BY <1>1, ScanHas DEF HasScan
<1>3. n \in -1 .. total + 1
  BY DEF PauseArguments
<1>4. CASE state \in {"Armed", "Finished"}
  <2>1. LastGoodStep(n) = IF n < 0 THEN completed ELSE IF n >= total THEN total - 1 ELSE n
    BY <1>4 DEF LastGoodStep
  <2>2. n < 0 => completed < total
    <3>1. n < 0 => state = "Armed"
      BY <1>4
    <3> QED BY <1>2, <3>1 DEF AtRest, HasNextRun, HasRun
  <2> QED BY <1>1, <1>2, <1>3, <1>4, <2>1, <2>2
<1>5. CASE state \in {"Paused", "Running"}
  <2>1. HasRun
    BY <1>5 DEF AtRest, HasNextRun
  <2>2. PICK first \in Nat : /\ RunOf(scan, breakpointIndex, first, configured)
                             /\ first <= completed /\ completed <= configured
    BY <2>1 DEF HasRun
  <2>3. first < configured /\ configured <= total
    BY <1>2, <2>1, <2>2, RunIs DEF HasRun
  <2>4. RunStart = first
    <3>1. CASE scan.ends = << >>
      <4>1. configured = first + scan.steps[1] /\ scan.steps[1] \in Nat
        BY <1>2, <2>2, <3>1, ScanHas DEF RunOf
      <4> QED BY <3>1, <4>1 DEF RunStart
    <3>2. CASE scan.ends # << >>
      BY <2>2, <3>2 DEF RunOf, RunStart
    <3> QED BY <3>1, <3>2
  <2>5. n = -1 \/ n \in first .. configured
    BY <1>5, <2>4 DEF PauseArguments
  <2> DEFINE bounded == IF n < 0 THEN completed ELSE IF n >= total THEN total - 1 ELSE n
  <2>6. LastGoodStep(n) = IF bounded = configured THEN bounded - 1 ELSE bounded
    BY <1>5 DEF LastGoodStep
  <2>7. bounded \in first .. configured
    BY <1>2, <1>3, <2>2, <2>3, <2>5
  <2> HIDE DEF bounded
  <2>8. LastGoodStep(n) \in first .. configured - 1
    BY <1>2, <2>3, <2>6, <2>7
  <2>9. ToDo(LastGoodStep(n), configured)
    BY <1>2, <2>2, <2>8 DEF ToDo
  <2> QED BY <1>1, <1>2, <2>1, <2>3, <2>8, <2>9
<1> QED BY <1>4, <1>5

LEMMA CallPauseKeepsSteps ==
  ASSUME SeekAnywhere = FALSE, ControlTypes, Roles, Steps, NEW t \in Threads, CallPause(t)
  PROVE  Steps'
<1>1. /\ state \in {"Armed", "Paused", "Running", "Finished"} /\ state' = "Seeking"
      /\ resumeQueues' = resumeQueues
      /\ UNCHANGED <<total, configured, completed, breakpointIndex, scan>>
  BY DEF CallPause, Call, WriteableIn, TryAborting, attributes
<1> DEFINE end == IF state \in {"Armed", "Finished"} THEN "Armed" ELSE "Paused"
<1>2. PICK n \in PauseArguments :
        /\ n < 0 => state # "Finished"
        /\ TryAborting(t, "pause", "Seeking", end, "Pause",
                       [NoLocals EXCEPT !.from = LastGoodStep(n)])
  BY DEF CallPause
<1>3. PICK phase \in {"Pause", "AwaitAbort"} :
        Start(t, "pause", end, phase, [NoLocals EXCEPT !.from = LastGoodStep(n)])
  BY <1>2 DEF TryAborting
<1>4. /\ Alone(t) /\ LocalsFit' /\ pc'[t] = phase /\ op'[t] = "pause" /\ goal'[t] = end
      /\ loc'[t].from = LastGoodStep(n)
  <2>1. /\ DOMAIN [NoLocals EXCEPT !.from = LastGoodStep(n)] = {"from", "target", "scan", "queue"}
        /\ [NoLocals EXCEPT !.from = LastGoodStep(n)].from = LastGoodStep(n)
    BY NoLocalsAre
  <2> HIDE DEF NoLocals, end
  <2> QED BY <1>3, <2>1, StartsFit DEF Steps
<1>5. /\ HasScan /\ LastGoodStep(n) \in 0 .. total - 1
      /\ end = "Paused" => HasRun /\ ToDo(LastGoodStep(n), configured)
  BY <1>1, <1>2, LastGoodSteps DEF Steps
<1> HIDE DEF end
<1>6. HasScan' = HasScan /\ HasRun' = HasRun
  BY <1>1 DEF HasScan, HasRun
<1>7. ToDo(LastGoodStep(n), configured) => ToDo(loc[t].from, configured)'
  BY <1>1, <1>4 DEF ToDo
<1>8. PauseFits(t)'
  BY <1>1, <1>4, <1>5, <1>6, <1>7 DEF PauseFits
<1>9. Fits(t)'
  BY <1>1, <1>4, <1>8, PauseGoesOn
<1>10. ASSUME NEW u \in Threads \ {t} PROVE Fits(u)'
  <2>1. op'[u] = op[u] /\ pc'[u] = pc[u] /\ goal'[u] = goal[u]
    BY <1>4 DEF Alone
  <2>2. Follows(u)' => Follows(u)
    <3>1. (Acts(u)' => Acts(u)) /\ (Waiting(u)' => Waiting(u))
      BY <1>1, <1>4, Others
    <3> QED BY <2>1, <3>1 DEF Follows, InRun
  <2>3. Follows(u)' => goal'[u] = RunGoal'
    <3>1. Follows(u) => goal[u] = RunGoal
      BY <1>1, NoPause DEF Steps, Fits
    <3> QED BY <1>1, <2>1, <2>2, <3>1 DEF RunGoal
  <2>4. ~(op'[u] = "pause" /\ pc'[u] # "Idle")
    BY <1>1, <2>1, NoPause
  <2> QED BY <1>1, <2>3, <2>4 DEF Fits
<1>11. AtRest'
  BY <1>1 DEF AtRest
<1> QED BY <1>4, <1>9, <1>10, <1>11 DEF Steps

LEMMA RequestsKeepSteps ==
  ASSUME Scope, SeekAnywhere = FALSE, ControlTypes, Roles, Steps, NEW t \in Threads,
         Requests(t), ~CallDisable(t), ~CallHalt(t), Roles'
  PROVE  Steps'
BY CallStatefulKeepsSteps, CallConfigureKeepsSteps, CallRunKeepsSteps, CallResumeKeepsSteps,
   CallAbortKeepsSteps, CallPauseKeepsSteps DEF Requests

--------------------------------------------------------------------------------
(***************************************************************************)
(* Every step                                                              *)
(***************************************************************************)
LEMMA InitSteps ==
  ASSUME Init
  PROVE  Steps
<1>1. /\ state = "Disabled"
      /\ \A t \in Threads : pc[t] = "Idle" /\ op[t] = "none" /\ loc[t] = NoLocals
  BY DEF Init
<1>2. LocalsFit
  BY <1>1, NoLocalsAre DEF LocalsFit
<1> QED BY <1>1, <1>2 DEF Steps, AtRest, Fits

LEMMA NextKeepsSteps ==
  ASSUME Scope, SeekAnywhere = FALSE, ControlTypes, RolesFit, RolesFit', StepsInv, [Next]_vars
  PROVE  StepsInv'
<1> SUFFICES ASSUME Undisturbed' PROVE Steps'
  BY DEF StepsInv
<1>1. Roles'
  BY DEF RolesFit
<1>2. CASE Next
  <2>1. PICK t \in Threads : Requests(t) \/ Progress(t) \/ Step(t)
    BY <1>2 DEF Next
  <2>2. CASE Requests(t)
    <3>1. PICK f \in Operations : Call(t, f)
      BY <2>2 DEF Requests, CallStateful, CallDisable, CallHalt, CallConfigure, CallRun,
         CallResume, CallAbort, CallPause, StartState, Operations
    <3>2. Undisturbed
      BY <3>1, CallsCount DEF RolesFit
    <3>3. ~CallDisable(t) /\ ~CallHalt(t)
      <4>1. "disable" \in Operations /\ "halt" \in Operations
        BY DEF Operations
      <4> QED BY <4>1, CallsCount DEF CallDisable, CallHalt, RolesFit
    <3> QED BY <1>1, <2>2, <3>2, <3>3, RequestsKeepSteps DEF RolesFit, StepsInv
  <2>3. CASE Progress(t) \/ Step(t)
    <3>1. budget' = budget /\ (faults' = faults \/ faults' = faults + 1)
      BY <2>3, StepsCount
    <3>2. Undisturbed
      BY <3>1 DEF Undisturbed, RolesFit, BudgetFits
    <3>3. ~Fails(t)
      <4>1. Fails(t) => faults' = faults + 1
        BY DEF Fails, ScanRejected, HookFails, ChildAborted
      <4> QED BY <4>1 DEF Undisturbed, RolesFit, BudgetFits
    <3> QED BY <1>1, <2>3, <3>2, <3>3, ProgressKeepsSteps, StepKeepsSteps DEF RolesFit, StepsInv
  <2> QED BY <2>1, <2>2, <2>3
<1>3. CASE UNCHANGED vars
  <2>1. Undisturbed
    BY <1>3 DEF vars, env, Undisturbed
  <2>2. Roles /\ Steps
    BY <2>1 DEF RolesFit, StepsInv
  <2>3. /\ state' = state /\ resumeQueues' = resumeQueues
        /\ UNCHANGED <<pc, op, goal, loc>> /\ UNCHANGED attributes
    BY <1>3 DEF vars, thread
  <2>4. LocalsFit' /\ AtRest'
    BY <2>2, <2>3 DEF Steps, LocalsFit, AtRest, HasNextRun, HasRun, HasScan, AllDone, attributes
  <2>5. ASSUME NEW u \in Threads PROVE Fits(u)'
    <3>1. (Acts(u)' => Acts(u)) /\ (Waiting(u)' => Waiting(u))
      BY <2>3 DEF Acts, Waiting, Resuming, Queue
    <3> QED BY <2>2, <2>3, <3>1, StaysFit DEF Steps
  <2> QED BY <2>4, <2>5 DEF Steps
<1> QED BY <1>2, <1>3

\* A finished scan has done all of its steps, one that is armed has steps left to do,
\* and both that and a paused one are configured up to the end of the run that they
\* are in, however they were run, paused, seeked and resumed and whenever the parts
\* report: until a part fails or somebody disables the block, while seeks stay in the
\* run in progress, hooks stop in time and no call comes in the windows of configure()
\* and pause().
THEOREM StepsAddUp ==
  ASSUME Scope, SeekAnywhere = FALSE
  PROVE  Spec => [](Undisturbed => StepsAccountedFor)
<1>1. Init => RolesFit /\ StepsInv
  BY InitRoles, InitSteps DEF RolesFit, StepsInv
<1>2. ControlTypes /\ RolesFit /\ [Next]_vars => RolesFit'
  BY NextKeepsRoles
<1>3. ControlTypes /\ RolesFit /\ RolesFit' /\ StepsInv /\ [Next]_vars => StepsInv'
  BY NextKeepsSteps
<1>4. StepsInv => (Undisturbed => StepsAccountedFor)
  <2> SUFFICES ASSUME Steps PROVE StepsAccountedFor
    BY DEF StepsInv
  <2>1. state = "Finished" => completed = total /\ configured = total
    BY DEF Steps, AtRest, AllDone
  <2>2. state = "Armed" => completed < configured
    BY DEF Steps, AtRest, HasNextRun
  <2>3. ASSUME state \in {"Armed", "Paused"}
        PROVE  /\ 0 <= completed /\ completed <= configured /\ configured \in Boundaries
               /\ \A n \in Boundaries : n > completed => configured <= n
    <3>1. HasRun /\ HasScan /\ completed \in Nat /\ completed <= configured /\ configured <= total
      BY <2>3 DEF Steps, AtRest, HasNextRun, HasRun, HasScan
    <3>2. PICK first \in Nat : /\ RunOf(scan, breakpointIndex, first, configured)
                               /\ first <= completed
      BY <3>1 DEF HasRun
    <3>3. first < configured
      BY <3>1, <3>2, RunIs DEF HasScan
    <3>4. /\ configured \in Boundaries
          /\ \A n \in Boundaries : n > first => configured <= n
      BY <3>1, <3>2, <3>3, RunsEndAtBoundaries
    <3>5. Boundaries \subseteq Int
      BY <3>1, ScanHas DEF HasScan, Boundaries
    <3> QED BY <3>1, <3>2, <3>4, <3>5
  <2> QED BY <2>1, <2>2, <2>3 DEF StepsAccountedFor
<1> QED BY <1>1, <1>2, <1>3, <1>4, ControlTyped, PTL DEF Spec

--------------------------------------------------------------------------------
(***************************************************************************)
(* The types of the data                                                   *)
(***************************************************************************)
StepLocals == [from: Nat, target: Nat, scan: Scans \cup {NoScan}, queue: Nat]

DataTyped ==
  /\ loc \in [Threads -> StepLocals]
  /\ total \in Nat /\ configured \in Nat /\ completed \in Nat /\ breakpointIndex \in Nat
  /\ scan \in Scans \cup {NoScan}

\* A pause() that is aborted while its hooks run still has steps to go to.
SeekIsLeft ==
  state = "Aborting" =>
    \A t \in Threads : op[t] = "pause" /\ pc[t] = "Pause"
      => HasScan /\ loc[t].from \in 0 .. total - 1

EnvTyped == budget \in [Operations -> Nat] /\ unasked \in BOOLEAN

DataInv == EnvTyped /\ (Undisturbed => DataTyped /\ SeekIsLeft)

\* The values in a scan
LEMMA ScanTyped ==
  ASSUME NEW s \in Scans \cup {NoScan}
  PROVE  s.total \in Nat /\ s.steps[1] \in Nat
<1>1. CASE s \in Scans
  BY <1>1, ScansAssumption, ScanHas
<1>2. CASE s = NoScan
  BY <1>2 DEF NoScan
<1> QED BY <1>1, <1>2

\* A thread goes where its locals are typed.
LEMMA StartsTyped ==
  ASSUME loc \in [Threads -> StepLocals], NEW t \in Threads, NEW f, NEW end, NEW phase,
         NEW locals \in StepLocals, Start(t, f, end, phase, locals)
  PROVE  loc' \in [Threads -> StepLocals]
BY DEF Start

LEMMA ProceedsTyped ==
  ASSUME loc \in [Threads -> StepLocals], NEW t \in Threads, NEW phase, Proceed(t, phase)
  PROVE  loc' \in [Threads -> StepLocals]
<1>1. loc[t] \in StepLocals
  OBVIOUS
<1> QED BY <1>1, StartsTyped DEF Proceed, Goto

LEMMA NoLocalsTyped ==
  /\ NoLocals \in StepLocals
  /\ \A s \in Scans : [NoLocals EXCEPT !.scan = s] \in StepLocals
  /\ \A n \in Nat : [NoLocals EXCEPT !.from = n] \in StepLocals
BY DEF NoLocals, StepLocals

LEMMA EndsTyped ==
  ASSUME loc \in [Threads -> StepLocals], NEW t \in Threads, End(t)
  PROVE  loc' \in [Threads -> StepLocals]
BY NoLocalsTyped, StartsTyped DEF End

LEMMA AbortedTyped ==
  ASSUME Roles, loc \in [Threads -> StepLocals], NEW t \in Threads, Aborted(t)
  PROVE  loc' \in [Threads -> StepLocals]
<1>1. CASE RunAborted(t) /\ abortQueue # NoThread
  <2>1. Goto(t, "AwaitResume", [loc[t] EXCEPT !.queue = Len(resumeQueues)])
    BY <1>1 DEF RunAborted
  <2>2. Len(resumeQueues) \in Nat
    BY LenProperties DEF Roles, QueuesTyped
  <2>3. loc[t] \in StepLocals
    OBVIOUS
  <2>4. [loc[t] EXCEPT !.queue = Len(resumeQueues)] \in StepLocals
    BY <2>2, <2>3 DEF StepLocals
  <2> QED BY <2>1, <2>4, StartsTyped DEF Goto
<1>2. CASE Raise(t) \/ OperationAborted(t)
  BY <1>2, EndsTyped DEF Raise, OperationAborted
<1>3. CASE RunAborted(t) /\ abortQueue = NoThread
  BY <1>3, EndsTyped DEF RunAborted, Raise
<1> QED BY <1>1, <1>2, <1>3 DEF Aborted

--------------------------------------------------------------------------------
LEMMA ConfigureKeepsData ==
  ASSUME DataTyped, NEW t \in Threads, ConfigureStep(t), ~ScanRejected(t)
  PROVE  DataTyped'
<1>1. loc[t] \in StepLocals
  BY DEF DataTyped
<1>2. /\ loc[t].scan \in Scans \cup {NoScan} /\ loc[t].target \in Nat
  BY <1>1 DEF StepLocals
<1>3. scan.steps[1] \in Nat /\ loc[t].scan.total \in Nat
  BY <1>2, ScanTyped DEF DataTyped
<1>4. CASE ValidateDone(t) \/ ConfigResetDone(t) \/ ContextsCleared(t) \/ ConfigureDone(t)
  <2>1. (\E phase : Proceed(t, phase)) \/ Raise(t)
    BY <1>4 DEF ValidateDone, ConfigResetDone, ContextsCleared, ConfigureDone
  <2>2. loc' \in [Threads -> StepLocals]
    BY <2>1, ProceedsTyped, EndsTyped DEF DataTyped, Raise
  <2>3. UNCHANGED attributes
    BY <1>4 DEF ValidateDone, ConfigResetDone, ContextsCleared, ConfigureDone
  <2> QED BY <2>2, <2>3 DEF DataTyped, attributes
<1>5. CASE PreConfigureDone(t)
  <2>1. Proceed(t, "ConfigStatus")
    BY <1>5 DEF PreConfigureDone
  <2>2. loc' \in [Threads -> StepLocals]
    BY <2>1, ProceedsTyped DEF DataTyped
  <2> QED BY <1>2, <1>3, <1>5, <2>2 DEF DataTyped, PreConfigureDone
<1>6. CASE ConfigStatusDone(t)
  <2>1. Goto(t, "Configure", [loc[t] EXCEPT !.target = scan.steps[1]])
    BY <1>6 DEF ConfigStatusDone
  <2>2. [loc[t] EXCEPT !.target = scan.steps[1]] \in StepLocals
    BY <1>1, <1>3 DEF StepLocals
  <2>3. loc' \in [Threads -> StepLocals]
    BY <2>1, <2>2, StartsTyped DEF DataTyped, Goto
  <2> QED BY <1>6, <2>3 DEF DataTyped, ConfigStatusDone
<1>7. CASE PostConfigureDone(t)
  <2>1. Proceed(t, "Settle")
    BY <1>7 DEF PostConfigureDone
  <2>2. loc' \in [Threads -> StepLocals]
    BY <2>1, ProceedsTyped DEF DataTyped
  <2> QED BY <1>2, <1>7, <2>2 DEF DataTyped, PostConfigureDone
<1> QED BY <1>4, <1>5, <1>6, <1>7 DEF ConfigureStep

LEMMA RunDoneKeepsData ==
  ASSUME ControlTypes, Roles, Steps, DataTyped, NEW t \in Threads, RunDone(t)
  PROVE  DataTyped'
<1>1. /\ pc[t] = "Run" /\ NotStopped
      /\ UNCHANGED <<total, configured, scan>>
      /\ NextRunConfigured(t) \/ ScanOver(t)
  BY DEF RunDone
<1>2. Acts(t)
  BY <1>1 DEF Acts
<1>3. HasRun
  <2>1. AtHome(t) /\ op[t] = "run" /\ InRun(t)
    BY <1>1, <1>2, Unawaited, RunsHooks
  <2>2. state = "Running"
    BY <2>1 DEF AtHome, InRun
  <2> QED BY <2>2 DEF Steps, AtRest
<1>4. CASE NextRunConfigured(t)
  <2> DEFINE index == IF scan.ends = << >> THEN breakpointIndex ELSE breakpointIndex + 1
             target == configured + scan.steps[index + 1]
             locals == [loc[t] EXCEPT !.from = configured, !.target = target]
  <2>1. /\ configured < total /\ completed' = completed /\ breakpointIndex' = index
        /\ Goto(t, "RunStatus", locals)
    <3>1. /\ configured < total /\ completed' = completed /\ breakpointIndex' = index
          /\ Goto(t, "RunStatus",
               [loc[t] EXCEPT !.from = configured,
                              !.target = configured + scan.steps[breakpointIndex' + 1]])
      BY <1>4 DEF NextRunConfigured
    <3> HIDE DEF index
    <3> QED BY <3>1
  <2>2. PICK first \in Nat : RunOf(scan, breakpointIndex, first, configured)
    BY <1>3 DEF HasRun
  <2>3. target \in Nat
    BY <1>3, <2>1, <2>2, NextRun DEF HasRun, HasScan
  <2>4. index \in Nat
    BY DEF DataTyped
  <2> HIDE DEF target, index
  <2>5. locals \in StepLocals
    BY <2>3 DEF DataTyped, StepLocals
  <2> HIDE DEF locals
  <2>6. loc' \in [Threads -> StepLocals]
    BY <2>1, <2>5, StartsTyped DEF DataTyped, Goto
  <2> QED BY <1>1, <2>1, <2>4, <2>6 DEF DataTyped
<1>5. CASE ScanOver(t)
  <2>1. Proceed(t, "PostRunReady")
    BY <1>5 DEF ScanOver
  <2>2. loc' \in [Threads -> StepLocals]
    BY <2>1, ProceedsTyped DEF DataTyped
  <2> QED BY <1>1, <1>5, <2>2 DEF ScanOver, DataTyped
<1> QED BY <1>1, <1>4, <1>5

LEMMA RunKeepsData ==
  ASSUME Scope, ControlTypes, Roles, Steps, DataTyped, NEW t \in Threads, RunStep(t)
  PROVE  DataTyped'
<1>1. loc[t] \in StepLocals
  BY DEF DataTyped
<1>2. loc[t].from \in Nat /\ loc[t].target \in Nat
  BY <1>1 DEF StepLocals
<1>3. CASE PreRunDone(t) \/ RunStatusDone(t) \/ PostRunArmedDone(t) \/ PostRunReadyDone(t)
  <2>1. \E phase : Proceed(t, phase)
    BY <1>3 DEF PreRunDone, RunStatusDone, PostRunArmedDone, PostRunReadyDone
  <2>2. loc' \in [Threads -> StepLocals]
    BY <2>1, ProceedsTyped DEF DataTyped
  <2>3. /\ total' = total /\ breakpointIndex' = breakpointIndex /\ scan' = scan
        /\ completed' \in {completed, loc[t].from} /\ configured' \in {configured, loc[t].target}
    BY <1>3 DEF PreRunDone, RunStatusDone, PostRunArmedDone, PostRunReadyDone, attributes
  <2> QED BY <1>2, <2>2, <2>3 DEF DataTyped
<1>4. CASE RunDone(t)
  BY <1>4, RunDoneKeepsData
<1>5. CASE RunRefused(t)
  <2>1. Aborted(t) /\ UNCHANGED attributes
    BY <1>5, DropsForSomebody DEF Drops, RunRefused
  <2>2. loc' \in [Threads -> StepLocals]
    BY <2>1, AbortedTyped DEF DataTyped
  <2> QED BY <2>1, <2>2 DEF DataTyped, attributes
<1>6. CASE Resumed(t)
  <2>1. (\E phase : Proceed(t, phase)) \/ End(t)
    BY <1>6 DEF Resumed
  <2>2. loc' \in [Threads -> StepLocals]
    BY <2>1, ProceedsTyped, EndsTyped DEF DataTyped
  <2>3. UNCHANGED attributes
    BY <1>6 DEF Resumed
  <2> QED BY <2>2, <2>3 DEF DataTyped, attributes
<1> QED BY <1>3, <1>4, <1>5, <1>6 DEF RunStep

\* Where pause() looks for its steps there is a scan.
LEMMA PauseHasScan ==
  ASSUME ControlTypes, Roles, Steps, SeekIsLeft, NEW t \in Threads, pc[t] = "Pause"
  PROVE  op[t] = "pause" /\ HasScan /\ loc[t].from \in 0 .. total - 1
<1>1. Acts(t)
  BY DEF Acts
<1>2. op[t] = "pause"
  BY <1>1, WhereItActs DEF Placed
<1>3. state \in {"Seeking", "Aborting"}
  BY <1>1, <1>2, WhereItActs DEF AtHome, InRun
<1>4. CASE state = "Seeking"
  BY <1>2, <1>4 DEF Steps, Fits, PauseFits
<1>5. CASE state = "Aborting"
  BY <1>2, <1>5 DEF SeekIsLeft
<1> QED BY <1>2, <1>3, <1>4, <1>5

LEMMA PauseDoneKeepsData ==
  ASSUME ControlTypes, Roles, Steps, SeekIsLeft, DataTyped, NEW t \in Threads, PauseDone(t)
  PROVE  DataTyped'
<1> DEFINE from == loc[t].from
           index == IF scan.ends = << >> THEN breakpointIndex ELSE BreakpointIndex(from)
           locals == [loc[t] EXCEPT !.target = SeekTarget(from)]
<1>1. /\ pc[t] = "Pause" /\ breakpointIndex' = index /\ Goto(t, "SeekStatus", locals)
      /\ UNCHANGED <<total, configured, completed, scan>>
  BY DEF PauseDone
<1>2. HasScan /\ from \in 0 .. total - 1
  BY <1>1, PauseHasScan
<1>3. PICK first \in Nat : RunOf(scan, index, first, SeekTarget(from))
  BY <1>2, SoughtRun
<1>4. index \in Nat /\ SeekTarget(from) \in Nat
  <2>1. scan \in ScanRecords
    BY <1>2 DEF HasScan
  <2> HIDE DEF index, from
  <2> QED BY <2>1, <1>3, RunIs
<1>5. loc[t] \in StepLocals
  BY DEF DataTyped
<1> HIDE DEF index, from
<1>6. locals \in StepLocals
  BY <1>4, <1>5 DEF StepLocals
<1> HIDE DEF locals
<1>7. loc' \in [Threads -> StepLocals]
  BY <1>1, <1>6, StartsTyped DEF DataTyped, Goto
<1> QED BY <1>1, <1>4, <1>7 DEF DataTyped

LEMMA AbortKeepsData ==
  ASSUME ControlTypes, Roles, Steps, SeekIsLeft, DataTyped, NEW t \in Threads, AbortStep(t)
  PROVE  DataTyped'
<1>1. loc[t] \in StepLocals
  BY DEF DataTyped
<1>2. loc[t].from \in Nat /\ loc[t].target \in Nat
  BY <1>1 DEF StepLocals
<1>3. CASE ~PauseDone(t)
  <2>1. \E phase : Proceed(t, phase)
    BY <1>3 DEF AbortStep, AbortAnswered, AbortDone, SeekStatusDone, SeekDone
  <2>2. loc' \in [Threads -> StepLocals]
    BY <2>1, ProceedsTyped DEF DataTyped
  <2>3. /\ total' = total /\ breakpointIndex' = breakpointIndex /\ scan' = scan
        /\ completed' \in {completed, loc[t].from} /\ configured' \in {configured, loc[t].target}
    BY <1>3 DEF AbortStep, AbortAnswered, AbortDone, SeekStatusDone, SeekDone, attributes
  <2> QED BY <1>2, <2>2, <2>3 DEF DataTyped
<1> QED BY <1>3, PauseDoneKeepsData

LEMMA EndKeepsData ==
  ASSUME Scope, ControlTypes, Roles, DataTyped, NEW t \in Threads, EndStep(t), ~Fails(t)
  PROVE  DataTyped'
<1>1. ~HaltDone(t)
  BY DEF HaltDone, Roles, AllPlaced, Placed
<1>2. CASE Settled(t) \/ StatefulDone(t)
  <2>1. End(t)
    BY <1>2 DEF Settled, StatefulDone, Raise
  <2>2. loc' \in [Threads -> StepLocals]
    BY <2>1, EndsTyped DEF DataTyped
  <2>3. /\ scan' = scan /\ total' \in {total, 0} /\ breakpointIndex' \in {breakpointIndex, 0}
        /\ completed' \in {completed, 0} /\ configured' \in {configured, 0}
    BY <1>2 DEF Settled, StatefulDone, attributes
  <2> QED BY <2>2, <2>3 DEF DataTyped
<1>3. CASE SettleRefused(t) \/ HookStopped(t)
  <2>1. Aborted(t) /\ UNCHANGED attributes
    BY <1>3, DropsForSomebody DEF Drops, SettleRefused, HookStopped
  <2>2. loc' \in [Threads -> StepLocals]
    BY <2>1, AbortedTyped DEF DataTyped
  <2> QED BY <2>1, <2>2 DEF DataTyped, attributes
<1> QED BY <1>1, <1>2, <1>3 DEF EndStep, Fails

LEMMA RequestsKeepData ==
  ASSUME SeekAnywhere = FALSE, Steps, DataTyped, NEW t \in Threads, Requests(t),
         ~CallDisable(t), ~CallHalt(t)
  PROVE  DataTyped'
<1>1. CASE CallPause(t)
  <2> DEFINE end == IF state \in {"Armed", "Finished"} THEN "Armed" ELSE "Paused"
  <2>1. PICK n \in PauseArguments :
          /\ n < 0 => state # "Finished"
          /\ TryAborting(t, "pause", "Seeking", end, "Pause",
                         [NoLocals EXCEPT !.from = LastGoodStep(n)])
    BY <1>1 DEF CallPause
  <2>2. state \in {"Armed", "Paused", "Running", "Finished"}
    BY <1>1 DEF CallPause, Call, WriteableIn
  <2>3. HasScan /\ LastGoodStep(n) \in 0 .. total - 1
    BY <2>1, <2>2, LastGoodSteps DEF Steps
  <2>4. LastGoodStep(n) \in Nat
    BY <2>3 DEF DataTyped
  <2>5. [NoLocals EXCEPT !.from = LastGoodStep(n)] \in StepLocals
    BY <2>4, NoLocalsTyped
  <2> HIDE DEF end
  <2>6. \E phase : Start(t, "pause", end, phase, [NoLocals EXCEPT !.from = LastGoodStep(n)])
    BY <2>1 DEF TryAborting
  <2>7. loc' \in [Threads -> StepLocals]
    BY <2>5, <2>6, StartsTyped DEF DataTyped
  <2> QED BY <2>1, <2>7 DEF TryAborting, DataTyped, attributes
<1>2. CASE CallResume(t)
  BY <1>2 DEF CallResume, DataTyped, thread, attributes
<1>3. CASE ~CallPause(t) /\ ~CallResume(t)
  <2>1. \E f, end, phase : \E locals \in {NoLocals} \cup {[NoLocals EXCEPT !.scan = s] : s \in Scans} :
          Start(t, f, end, phase, locals)
    BY <1>3 DEF Requests, CallStateful, CallConfigure, CallRun, CallAbort, TryAborting
  <2>2. loc' \in [Threads -> StepLocals]
    BY <2>1, NoLocalsTyped, StartsTyped DEF DataTyped
  <2>3. UNCHANGED attributes
    BY <1>3 DEF Requests, CallStateful, CallConfigure, CallRun, CallAbort, TryAborting
  <2> QED BY <2>2, <2>3 DEF DataTyped, attributes
<1> QED BY <1>1, <1>2, <1>3

--------------------------------------------------------------------------------
\* pause() comes to its hooks only when it is answered.
LEMMA ComesToPause ==
  ASSUME Scope, ControlTypes, Roles, NEW t \in Threads, Step(t), ~Fails(t)
  PROVE  Alone(t) /\ (pc'[t] = "Pause" => AbortAnswered(t))
<1> DEFINE Goes == \E phase, locals :
             Goto(t, phase, locals) /\ (phase = "Pause" => AbortAnswered(t))
<1>1. ASSUME NEW phase, Proceed(t, phase), phase = "Pause" => AbortAnswered(t) PROVE Goes
  BY <1>1 DEF Proceed
<1>2. ASSUME Aborted(t) PROVE Goes \/ End(t)
  <2>1. RunAborted(t) \/ End(t)
    BY <1>2 DEF Aborted, OperationAborted, Raise
  <2>2. RunAborted(t) => Goes \/ End(t)
    BY DEF RunAborted, Raise
  <2> QED BY <2>1, <2>2
<1>3. Goes \/ End(t)
  <2>1. CASE ConfigureStep(t)
    <3>1. CASE ConfigStatusDone(t)
      BY <3>1 DEF ConfigStatusDone
    <3>2. CASE ~ConfigStatusDone(t)
      <4>1. (\E phase \in Phases \ {"Pause"} : Proceed(t, phase)) \/ End(t)
        BY <2>1, <3>2 DEF ConfigureStep, ValidateDone, ConfigResetDone, ContextsCleared,
           PreConfigureDone, ScanRejected, ConfigureDone, PostConfigureDone, Raise, Phases,
           HookPhases, SharedPhases, FreshPhases
      <4> HIDE DEF Goes
      <4> QED BY <1>1, <4>1
    <3> QED BY <3>1, <3>2
  <2>2. CASE RunStep(t)
    <3>1. CASE RunDone(t)
      <4>1. NextRunConfigured(t) => Goes
        BY DEF NextRunConfigured
      <4>2. ScanOver(t) => Proceed(t, "PostRunReady")
        BY DEF ScanOver
      <4> HIDE DEF Goes
      <4> QED BY <1>1, <3>1, <4>1, <4>2 DEF RunDone
    <3>2. CASE RunRefused(t)
      <4>1. Aborted(t)
        BY <3>2, DropsForSomebody DEF Drops
      <4> HIDE DEF Goes
      <4> QED BY <1>2, <4>1
    <3>3. CASE ~RunDone(t) /\ ~RunRefused(t)
      <4>1. (\E phase \in Phases \ {"Pause"} : Proceed(t, phase)) \/ End(t)
        BY <2>2, <3>3 DEF RunStep, PreRunDone, RunStatusDone, PostRunArmedDone,
           PostRunReadyDone, Resumed, Phases, HookPhases, SharedPhases, FreshPhases
      <4> HIDE DEF Goes
      <4> QED BY <1>1, <4>1
    <3> QED BY <3>1, <3>2, <3>3
  <2>3. CASE AbortStep(t)
    <3>1. CASE PauseDone(t)
      BY <3>1 DEF PauseDone
    <3>2. CASE ~PauseDone(t)
      <4>1. \E phase : Proceed(t, phase) /\ (phase = "Pause" => AbortAnswered(t))
        BY <2>3, <3>2 DEF AbortStep, AbortAnswered, AbortDone, SeekStatusDone, SeekDone
      <4> HIDE DEF Goes
      <4> QED BY <1>1, <4>1
    <3> QED BY <3>1, <3>2
  <2>4. CASE EndStep(t)
    <3>1. ~HaltDone(t)
      BY DEF HaltDone, Roles, AllPlaced, Placed
    <3>2. CASE SettleRefused(t) \/ HookStopped(t)
      <4>1. Aborted(t)
        BY <3>2, DropsForSomebody DEF Drops
      <4> HIDE DEF Goes
      <4> QED BY <1>2, <4>1
    <3>3. CASE Settled(t) \/ StatefulDone(t)
      BY <3>3 DEF Settled, StatefulDone, Raise
    <3> QED BY <2>4, <3>1, <3>2, <3>3 DEF EndStep, Fails
  <2> HIDE DEF Goes
  <2> QED BY <2>1, <2>2, <2>3, <2>4 DEF Step
<1>4. CASE End(t)
  <2>1. Start(t, "none", "none", "Idle", NoLocals)
    BY <1>4 DEF End
  <2> QED BY <2>1, Lands DEF Roles
<1>5. CASE Goes
  <2>1. PICK phase, locals : Goto(t, phase, locals) /\ (phase = "Pause" => AbortAnswered(t))
    BY <1>5
  <2>2. Start(t, op[t], goal[t], phase, locals)
    BY <2>1 DEF Goto
  <2> QED BY <2>1, <2>2, Lands DEF Roles
<1> QED BY <1>3, <1>4, <1>5

\* A thread that does not act leaves the steps alone.
LEMMA IdleLeavesSteps ==
  ASSUME NEW t \in Threads, Step(t), ~Acts(t)
  PROVE  UNCHANGED attributes
<1>1. pc[t] \in {"AwaitAbort", "AwaitResume"}
  <2>1. pc[t] # "Idle"
    BY DEF Step, ConfigureStep, RunStep, AbortStep, EndStep, ValidateDone, ConfigResetDone,
       ContextsCleared, PreConfigureDone, ScanRejected, ConfigStatusDone, ConfigureDone,
       PostConfigureDone, PreRunDone, RunDone, RunRefused, RunStatusDone, PostRunArmedDone,
       PostRunReadyDone, Resumed, AbortAnswered, AbortDone, PauseDone, SeekStatusDone, SeekDone,
       Settled, SettleRefused, StatefulDone, HaltDone, HookFails, HookStopped, ChildAborted,
       HookPhases, SharedPhases, FreshPhases
  <2> QED BY <2>1 DEF Acts
<1>2. AbortAnswered(t) \/ Resumed(t)
  BY <1>1 DEF Step, ConfigureStep, RunStep, AbortStep, EndStep, ValidateDone, ConfigResetDone,
     ContextsCleared, PreConfigureDone, ScanRejected, ConfigStatusDone, ConfigureDone,
     PostConfigureDone, PreRunDone, RunDone, RunRefused, RunStatusDone, PostRunArmedDone,
     PostRunReadyDone, AbortDone, PauseDone, SeekStatusDone, SeekDone, Settled, SettleRefused,
     StatefulDone, HaltDone, HookFails, HookStopped, ChildAborted, HookPhases, SharedPhases,
     FreshPhases
<1> QED BY <1>2 DEF AbortAnswered, Resumed

LEMMA SeekStaysLeft ==
  ASSUME Scope, ControlTypes, Roles, Steps, SeekIsLeft, NEW t \in Threads,
         \/ Step(t) /\ ~Fails(t)
         \/ Progress(t)
         \/ Requests(t) /\ ~CallDisable(t) /\ ~CallHalt(t)
  PROVE  SeekIsLeft'
<1> SUFFICES ASSUME state' = "Aborting", NEW u \in Threads, op'[u] = "pause", pc'[u] = "Pause"
             PROVE  HasScan' /\ loc'[u].from \in 0 .. total' - 1
  BY DEF SeekIsLeft
<1>1. SUFFICES /\ pc[u] = "Pause" /\ loc'[u] = loc[u] /\ UNCHANGED attributes
  BY PauseHasScan DEF HasScan, attributes
<1>2. ASSUME pc[u] = "Pause", u # t PROVE ~Acts(t)
  BY <1>2 DEF Roles, OneActs, Acts
<1>3. CASE Step(t) /\ ~Fails(t)
  <2>1. Alone(t) /\ (pc'[t] = "Pause" => AbortAnswered(t))
    BY <1>3, ComesToPause
  <2>2. u # t
    <3>1. SUFFICES ASSUME AbortAnswered(t), u = t PROVE FALSE
      BY <2>1
    <3>2. pc[t] = "AwaitAbort" /\ Proceed(t, IF op[t] = "pause" THEN "Pause" ELSE "Abort")
          /\ state' = state
      BY <3>1 DEF AbortAnswered
    <3>3. op'[t] = op[t]
      BY <3>2, Lands DEF Proceed, Goto, Roles
    <3> QED BY <3>1, <3>2, <3>3 DEF Roles, AwaitersFit, Awaits
  <2>3. pc[u] = "Pause" /\ loc'[u] = loc[u]
    BY <2>1, <2>2 DEF Alone
  <2> QED BY <1>2, <1>3, <2>2, <2>3, IdleLeavesSteps
<1>4. CASE Progress(t)
  <2>1. pc[t] \in ReportPhases /\ UNCHANGED thread
    BY <1>4 DEF Progress
  <2>2. pc[u] = "Pause" /\ u # t
    BY <2>1 DEF thread, ReportPhases
  <2> QED BY <1>2, <2>1, <2>2 DEF Acts, ReportPhases
<1>5. CASE Requests(t) /\ ~CallDisable(t) /\ ~CallHalt(t)
  <2>1. CASE CallResume(t)
    BY <1>5, <2>1 DEF CallResume
  <2>2. CASE CallPause(t)
    BY <2>2 DEF CallPause, TryAborting
  <2>3. CASE ~CallResume(t) /\ ~CallPause(t)
    <3>1. PICK f, end, phase, locals : Start(t, f, end, phase, locals) /\ f # "pause"
      <4> DEFINE Goal == \E f, end, phase, locals :
                   Start(t, f, end, phase, locals) /\ f # "pause"
      <4>1. ASSUME NEW f \in DOMAIN StartState, CallStateful(t, f) PROVE Goal
        <5>1. f # "pause"
          BY DEF StartState
        <5> QED BY <4>1, <5>1 DEF CallStateful
      <4>2. CallConfigure(t) => Goal
        BY DEF CallConfigure
      <4>3. CallRun(t) => Goal
        BY DEF CallRun
      <4>4. CallAbort(t) => Goal
        BY DEF CallAbort, TryAborting
      <4> HIDE DEF Goal
      <4>5. Goal
        BY <1>5, <2>3, <4>1, <4>2, <4>3, <4>4 DEF Requests
      <4> QED BY <4>5 DEF Goal
    <3>2. Alone(t) /\ op'[t] # "pause"
      BY <3>1, Lands DEF Roles
    <3>3. UNCHANGED attributes
      BY <1>5, <2>3 DEF Requests, CallStateful, CallConfigure, CallRun, CallAbort, TryAborting
    <3> QED BY <3>2, <3>3 DEF Alone
  <2> QED BY <2>1, <2>2, <2>3
<1> QED BY <1>3, <1>4, <1>5

--------------------------------------------------------------------------------
LEMMA EnvStaysTyped ==
  ASSUME EnvTyped, [Next]_vars
  PROVE  EnvTyped'
<1>1. CASE UNCHANGED vars
  BY <1>1 DEF vars, env, EnvTyped
<1>2. ASSUME NEW t \in Threads, Requests(t) PROVE EnvTyped'
  <2>1. PICK f \in Operations : Call(t, f)
    BY <1>2 DEF Requests, CallStateful, CallDisable, CallHalt, CallConfigure, CallRun,
       CallResume, CallAbort, CallPause, StartState, Operations
  <2>2. budget' = [budget EXCEPT ![f] = budget[f] - 1] /\ budget[f] > 0 /\ unasked' = unasked
    BY <2>1 DEF Call
  <2> QED BY <2>2 DEF EnvTyped
<1>3. ASSUME NEW t \in Threads, Progress(t) \/ Step(t) PROVE EnvTyped'
  <2>1. budget' = budget
    BY <1>3, StepsCount
  <2>2. unasked' = unasked \/ unasked' = TRUE
    <3>1. CASE Progress(t)
      BY <3>1 DEF Progress, env
    <3>2. CASE ConfigureStep(t)
      BY <3>2 DEF ConfigureStep, ValidateDone, ConfigResetDone, ContextsCleared,
         PreConfigureDone, ScanRejected, ConfigStatusDone, ConfigureDone,
         PostConfigureDone, env
    <3>3. CASE RunStep(t)
      BY <3>3 DEF RunStep, PreRunDone, RunDone, RunRefused, RunStatusDone,
         PostRunArmedDone, PostRunReadyDone, Resumed, env
    <3>4. CASE AbortStep(t)
      BY <3>4 DEF AbortStep, AbortAnswered, AbortDone, PauseDone, SeekStatusDone,
         SeekDone, env
    <3>5. CASE EndStep(t)
      BY <3>5 DEF EndStep, Settled, SettleRefused, StatefulDone, HaltDone, HookFails,
         HookStopped, ChildAborted, env
    <3> QED BY <1>3, <3>1, <3>2, <3>3, <3>4, <3>5 DEF Step
  <2> QED BY <2>1, <2>2 DEF EnvTyped
<1> QED BY <1>1, <1>2, <1>3 DEF Next

LEMMA NextKeepsData ==
  ASSUME Scope, SeekAnywhere = FALSE, ControlTypes, RolesFit, StepsInv, DataInv, [Next]_vars
  PROVE  DataInv'
<1>1. EnvTyped'
  BY EnvStaysTyped DEF DataInv
<1> SUFFICES ASSUME Undisturbed' PROVE DataTyped' /\ SeekIsLeft'
  BY <1>1 DEF DataInv
<1>2. CASE Next
  <2>1. PICK t \in Threads : Requests(t) \/ Progress(t) \/ Step(t)
    BY <1>2 DEF Next
  <2>2. CASE Requests(t)
    <3>1. PICK f \in Operations : Call(t, f)
      BY <2>2 DEF Requests, CallStateful, CallDisable, CallHalt, CallConfigure, CallRun,
         CallResume, CallAbort, CallPause, StartState, Operations
    <3>2. Undisturbed
      BY <3>1, CallsCount DEF RolesFit
    <3>3. ~CallDisable(t) /\ ~CallHalt(t)
      <4>1. "disable" \in Operations /\ "halt" \in Operations
        BY DEF Operations
      <4> QED BY <4>1, CallsCount DEF CallDisable, CallHalt, RolesFit
    <3>4. Roles /\ Steps /\ DataTyped /\ SeekIsLeft
      BY <3>2 DEF RolesFit, StepsInv, DataInv
    <3> QED BY <2>2, <3>3, <3>4, RequestsKeepData, SeekStaysLeft
  <2>3. CASE Progress(t) \/ Step(t)
    <3>1. budget' = budget /\ (faults' = faults \/ faults' = faults + 1)
      BY <2>3, StepsCount
    <3>2. Undisturbed
      BY <3>1 DEF Undisturbed, RolesFit, BudgetFits
    <3>3. ~Fails(t)
      <4>1. Fails(t) => faults' = faults + 1
        BY DEF Fails, ScanRejected, HookFails, ChildAborted
      <4> QED BY <4>1 DEF Undisturbed, RolesFit, BudgetFits
    <3>4. Roles /\ Steps /\ DataTyped /\ SeekIsLeft
      BY <3>2 DEF RolesFit, StepsInv, DataInv
    <3>5. SeekIsLeft'
      BY <2>3, <3>3, <3>4, SeekStaysLeft
    <3>6. CASE Progress(t)
      BY <3>4, <3>5, <3>6 DEF Progress, DataTyped, thread
    <3>7. CASE Step(t)
      BY <3>3, <3>4, <3>5, <3>7, ConfigureKeepsData, RunKeepsData, AbortKeepsData, EndKeepsData
         DEF Step, Fails
    <3> QED BY <2>3, <3>6, <3>7
  <2> QED BY <2>1, <2>2, <2>3
<1>3. CASE UNCHANGED vars
  <2>1. Undisturbed
    BY <1>3 DEF vars, env, Undisturbed
  <2>2. DataTyped /\ SeekIsLeft
    BY <2>1 DEF DataInv
  <2>3. state' = state /\ UNCHANGED thread /\ UNCHANGED attributes
    BY <1>3 DEF vars
  <2>4. HasScan' = HasScan
    BY <2>3 DEF HasScan, attributes
  <2> QED BY <2>2, <2>3, <2>4 DEF DataTyped, SeekIsLeft, thread, attributes
<1> QED BY <1>2, <1>3

LEMMA InitData ==
  ASSUME Init
  PROVE  DataInv
<1>1. loc \in [Threads -> StepLocals]
  BY NoLocalsTyped DEF Init
<1>2. budget \in [Operations -> Nat]
  BY BoundsAssumption DEF Init
<1> QED BY <1>1, <1>2 DEF Init, DataInv, EnvTyped, DataTyped, SeekIsLeft

\* Every variable keeps its type, in every phase of configure(), run() and pause() and
\* also while they are being aborted: there are steps for every breakpoint that is
\* looked up, and no step is negative.  Until a part fails or somebody disables the
\* block, in the scope of StepsAddUp: otherwise an operation that is left over from
\* before may set the steps of one scan in another.
THEOREM TypesAreKept ==
  ASSUME Scope, SeekAnywhere = FALSE
  PROVE  Spec => [](Undisturbed => TypeOK)
<1>1. Init => RolesFit /\ StepsInv /\ DataInv
  BY InitRoles, InitSteps, InitData DEF RolesFit, StepsInv
<1>2. ControlTypes /\ RolesFit /\ [Next]_vars => RolesFit'
  BY NextKeepsRoles
<1>3. ControlTypes /\ RolesFit /\ RolesFit' /\ StepsInv /\ [Next]_vars => StepsInv'
  BY NextKeepsSteps
<1>4. ControlTypes /\ RolesFit /\ StepsInv /\ DataInv /\ [Next]_vars => DataInv'
  BY NextKeepsData
<1>5. ControlTypes /\ RolesFit /\ DataInv => (Undisturbed => TypeOK)
  <2> SUFFICES ASSUME ControlTypes, RolesFit, DataInv, Undisturbed PROVE DataTypes
    BY DEF TypeOK
  <2>1. Roles /\ DataTyped /\ EnvTyped /\ faults \in Nat
    BY DEF RolesFit, BudgetFits, DataInv
  <2>2. \A t \in Threads : loc[t] \in Locals
    <3> SUFFICES ASSUME NEW t \in Threads PROVE loc[t] \in Locals
      OBVIOUS
    <3>1. loc[t] \in StepLocals
      BY <2>1 DEF DataTyped
    <3> QED BY <3>1 DEF StepLocals, Locals
  <2>3. loc \in [Threads -> Locals]
    BY <2>1, <2>2 DEF DataTyped
  <2> QED BY <2>1, <2>3 DEF DataTypes, DataTyped, EnvTyped, Roles, QueuesTyped
<1> QED BY <1>1, <1>2, <1>3, <1>4, <1>5, ControlTyped, PTL DEF Spec

================================================================================
