-------------------------- MODULE RunnableController --------------------------
(***************************************************************************)
(* The state machine of a scanning block: RunnableController               *)
(* (scanning/controllers/runnablecontroller.py) with the operations it     *)
(* inherits from StatefulController and ManagerController.                 *)
(*                                                                         *)
(* Every request is handled in a cothread of its own, so code between two  *)
(* blocking points is one step.  A thread blocks while the hooks of its    *)
(* parts run (one phase of pc each), while abort() or pause() waits on     *)
(* abort_queue, while run() waits on resume_queue, and where it takes the  *)
(* lock for its last abortable_transition ("Settle").                      *)
(***************************************************************************)
EXTENDS Integers, Sequences, FiniteSets, RunnableStates

CONSTANTS
  Threads,      \* the cothreads that handle requests
  NoThread,     \* abort_queue is None
  Scans,        \* the scans configure() can be given, see ScanRecords
  Calls,        \* how many calls of each operation the clients make
  MaxFaults,    \* how many times a part may fail
  ChildAborts,  \* may a part's hook end in AbortedError of its own accord?
  SlowHooks,    \* may a hook outlast the 10 s abort() and pause() wait?
  SeekAnywhere, \* may pause(n) leave the current run() while it is active?
  OverlapConfigure, \* may a call come before configure() has made its contexts?
  OverlapPause  \* may a call come while pause() waits for run() to stop?

Operations == {"init", "configure", "run", "pause", "resume", "abort",
               "reset", "disable", "halt", "save", "load"}

(***************************************************************************)
(* What configure() gets out of a generator: its size, steps_per_run, and  *)
(* breakpoint_steps, the running sums of steps, empty without breakpoints. *)
(* The size is where a run ends; dimensions without axes count twice in    *)
(* the number of runs, so that the breakpoints may go on after it.         *)
(***************************************************************************)
Positive == Nat \ {0}

ScanRecords ==
  {s \in [total: Positive, steps: Seq(Positive), ends: Seq(Positive)] :
     /\ s.steps # << >>
     /\ IF s.ends = << >> THEN \E n \in 1 .. s.total : s.total = n * s.steps[1]
        ELSE /\ Len(s.ends) = Len(s.steps)
             /\ \E n \in DOMAIN s.ends : s.total = s.ends[n]
             /\ \A n \in DOMAIN s.ends :
                  s.ends[n] = s.steps[n] + (IF n = 1 THEN 0 ELSE s.ends[n - 1])}

ASSUME ThreadsAssumption == NoThread \notin Threads
ASSUME ScansAssumption == Scans \subseteq ScanRecords
ASSUME BoundsAssumption == Calls \in [Operations -> Nat] /\ MaxFaults \in Nat
ASSUME ScopeAssumption ==
  /\ ChildAborts \in BOOLEAN
  /\ SlowHooks \in BOOLEAN
  /\ SeekAnywhere \in BOOLEAN
  /\ OverlapConfigure \in BOOLEAN
  /\ OverlapPause \in BOOLEAN

VARIABLES
  state,           \* the state attribute
  pc,              \* where each thread is
  op,              \* the operation it executes
  goal,            \* the state that operation is to end in
  loc,             \* its other locals: steps, scan, queue
  live,            \* threads whose running hooks hold the current part_contexts
  stopped,         \* threads whose running hooks have been sent STOP
  contexts,        \* has part_contexts[self] been made?
  selfStops,       \* STOPs on part_contexts[self] that nothing ignores
  abortQueue,      \* the thread whose abort() or pause() made abort_queue
  signalled,       \* threads with an answer on the abort_queue they wait on
  resumeQueues,    \* every resume_queue configure() made, the last in use
  total,           \* totalSteps
  configured,      \* configuredSteps
  completed,       \* completedSteps
  breakpointIndex,
  scan,            \* steps_per_run and breakpoint_steps in force
  budget,          \* calls of each operation the clients have left
  faults,          \* part failures so far
  unasked          \* has a part let out an AbortedError of its own accord?

stops == <<contexts, selfStops>>
attributes == <<total, configured, completed, breakpointIndex, scan>>
env == <<budget, faults, unasked>>
thread == <<pc, op, goal, loc>>
vars == <<state, thread, live, stopped, stops, abortQueue, signalled,
          resumeQueues, attributes, env>>

NoScan == [total |-> 1, steps |-> <<1>>, ends |-> << >>]
NoLocals == [from |-> 0, target |-> 0, scan |-> NoScan, queue |-> 0]

\* Phases in which the thread waits for hooks given the shared part_contexts,
SharedPhases == {"PreConfigure", "ConfigStatus", "Configure", "PostConfigure",
                 "PreRun", "Run", "RunStatus", "PostRunArmed", "PostRunReady",
                 "SeekStatus", "Seek"}
\* and those in which the hooks were given contexts made for the occasion.
FreshPhases == {"Validate", "ConfigReset", "Pause", "Abort", "Stateful", "Halt"}
HookPhases == SharedPhases \cup FreshPhases
Phases == HookPhases \cup {"Idle", "ClearContexts", "AwaitAbort", "AwaitResume",
                           "Settle"}

Init ==
  /\ state = "Disabled"
  /\ pc = [t \in Threads |-> "Idle"]
  /\ op = [t \in Threads |-> "none"]
  /\ goal = [t \in Threads |-> "none"]
  /\ loc = [t \in Threads |-> NoLocals]
  /\ live = {} /\ stopped = {}
  /\ contexts = FALSE /\ selfStops = 0
  /\ abortQueue = NoThread /\ signalled = {}
  /\ resumeQueues = << >>
  /\ total = 0 /\ configured = 0 /\ completed = 0
  /\ breakpointIndex = 0 /\ scan = NoScan
  /\ budget = Calls /\ faults = 0 /\ unasked = FALSE

--------------------------------------------------------------------------------
(***************************************************************************)
(* Threads, hooks and queues                                               *)
(***************************************************************************)
Start(t, operation, end, phase, locals) ==
  /\ pc' = [pc EXCEPT ![t] = phase]
  /\ op' = [op EXCEPT ![t] = operation]
  /\ goal' = [goal EXCEPT ![t] = end]
  /\ loc' = [loc EXCEPT ![t] = locals]

Goto(t, phase, locals) == Start(t, op[t], goal[t], phase, locals)
Proceed(t, phase) == Goto(t, phase, loc[t])
End(t) == Start(t, "none", "none", "Idle", NoLocals)

\* t starts hooks on part_contexts: ControllerHook.prepare drops earlier STOPs.
OnShared(t) == live' = live \cup {t} /\ stopped' = stopped \ {t}
\* t starts hooks on contexts of its own, or runs none.
OffShared(t) == live' = live \ {t} /\ stopped' = stopped \ {t}

\* for context in self.part_contexts.values(): context.stop()
StopHooks == stopped \cup live
StopSelf == IF contexts THEN selfStops + 1 ELSE selfStops

\* self.resume_queue.put(resume), if there is a resume_queue
PutResume(resume) ==
  resumeQueues' =
    IF resumeQueues = << >> THEN << >>
    ELSE [resumeQueues EXCEPT ![Len(resumeQueues)] = Append(@, resume)]

KeepResumeQueues == resumeQueues' = resumeQueues

\* self.resume_queue.put(False): a run() that waits need not wait any longer.
Release == PutResume(FALSE)

\* self.abort_queue.put(None): heard only by an owner that is still waiting.
SignalAnything == signalled' = signalled \cup {abortQueue}

SignalAbort ==
  signalled' = signalled \cup {t \in Threads : t = abortQueue /\ pc[t] = "AwaitAbort"}

\* go_to_error_state, after which the operation raises and its thread is done
Raise(t) ==
  /\ state' = IF TransitionAllowed(state, "Fault") THEN "Fault" ELSE state
  /\ Release
  /\ End(t) /\ OffShared(t)
  /\ UNCHANGED signalled

\* AbortedError in configure(), abort() and pause(): no error state.
OperationAborted(t) ==
  /\ SignalAbort
  /\ End(t) /\ OffShared(t)
  /\ UNCHANGED <<state, resumeQueues>>

\* AbortedError in run(): tell who asked for it, then wait to be resumed.
RunAborted(t) ==
  IF abortQueue = NoThread
  THEN Raise(t) \* the assertion "No abort queue" fails
  ELSE /\ SignalAbort
       /\ Goto(t, "AwaitResume", [loc[t] EXCEPT !.queue = Len(resumeQueues)])
       /\ OffShared(t)
       /\ UNCHANGED <<state, resumeQueues>>

AbortIsError(t) == Raise(t)

Aborted(t) ==
  CASE op[t] = "run" -> RunAborted(t)
    [] op[t] \in {"configure", "abort", "pause"} -> OperationAborted(t)
    [] OTHER -> Raise(t)

\* transition(s): it leaves the queues alone.
Transition(s) ==
  /\ TransitionAllowed(state, s)
  /\ state' = s
  /\ UNCHANGED <<resumeQueues, signalled>>

\* Has abort(), pause() or disable() asked this operation to stop?
NotStopped == selfStops = 0

\* abortable_transition(s) fails: with AbortedError, or as it is not allowed.
Refused(t, s) ==
  \/ selfStops > 0 /\ selfStops' = selfStops - 1 /\ Aborted(t)
  \/ NotStopped /\ ~TransitionAllowed(state, s) /\ UNCHANGED selfStops /\ Raise(t)

--------------------------------------------------------------------------------
(***************************************************************************)
(* Requests                                                                *)
(***************************************************************************)
\* The states each operation is writeable in; a client that calls it in
\* another gets NotWriteableError and changes nothing.  init() is called by
\* the process before the block is published, halt() whenever it stops.
WriteableIn == [
  init      |-> {"Disabled"},
  configure |-> {"Ready", "Finished"},
  run       |-> {"Armed"},
  pause     |-> {"Armed", "Paused", "Running", "Finished"},
  resume    |-> {"Paused"},
  abort     |-> NormalStates,
  reset     |-> {"Fault", "Disabled", "Aborted", "Armed", "Finished"},
  disable   |-> States \ {"Disabling", "Disabled"},
  halt      |-> States,
  save      |-> {"Ready"},
  load      |-> {"Ready"}]

ConfigureUnready == {"Validate", "ConfigReset", "ClearContexts"}
PauseWaits(t) == pc[t] = "AwaitAbort" /\ op[t] = "pause"

Call(t, f) ==
  /\ pc[t] = "Idle"
  /\ state \in WriteableIn[f]
  /\ budget[f] > 0
  /\ OverlapConfigure \/ \A u \in Threads : pc[u] \notin ConfigureUnready
  /\ OverlapPause \/ \A u \in Threads : ~PauseWaits(u)
  /\ f = "init" => \A u \in Threads : pc[u] = "Idle"
  /\ budget' = [budget EXCEPT ![f] = @ - 1]
  /\ UNCHANGED <<faults, unasked>>

StartState == [init |-> "Resetting", reset |-> "Resetting",
               save |-> "Saving", load |-> "Loading"]
EndState == [init |-> "Ready", reset |-> "Ready", save |-> "Ready",
             load |-> "Ready", disable |-> "Disabled"]

\* init(), reset(), save() and set_design(): try_stateful_function
CallStateful(t, f) ==
  /\ Call(t, f)
  /\ Transition(StartState[f])
  /\ Start(t, f, EndState[f], "Stateful", NoLocals)
  /\ OffShared(t)
  /\ UNCHANGED <<stops, abortQueue, attributes>>

\* disable(): abort what is running, without waiting for it
Disable(t) ==
  /\ TransitionAllowed(state, "Disabling")
  /\ state' = "Disabling"
  /\ stopped' = StopHooks \ {t} /\ live' = live \ {t}
  /\ selfStops' = StopSelf
  /\ Release
  /\ Start(t, "disable", "Disabled", "Stateful", NoLocals)
  /\ UNCHANGED <<contexts, signalled, abortQueue, attributes>>

CallDisable(t) == Call(t, "disable") /\ Disable(t)

CallHalt(t) ==
  /\ Call(t, "halt")
  /\ Start(t, "halt", "none", "Halt", NoLocals)
  /\ OffShared(t)
  /\ UNCHANGED <<state, stops, abortQueue, signalled, resumeQueues, attributes>>

CallConfigure(t) ==
  /\ Call(t, "configure")
  /\ \E s \in Scans :
       Start(t, "configure", "Armed", "Validate", [NoLocals EXCEPT !.scan = s])
  /\ OffShared(t)
  /\ UNCHANGED <<state, stops, abortQueue, signalled, resumeQueues, attributes>>

\* next_state: decided when run() is called
RunGoal == IF configured < total THEN "Armed" ELSE "Finished"

CallRun(t) ==
  /\ Call(t, "run")
  /\ Transition("Running")
  /\ Start(t, "run", RunGoal, "PreRun", NoLocals)
  /\ OnShared(t)
  /\ UNCHANGED <<stops, abortQueue, attributes>>

\* resume(): run() takes over
CallResume(t) ==
  /\ Call(t, "resume")
  /\ TransitionAllowed(state, "Running")
  /\ state' = "Running"
  /\ PutResume(TRUE)
  /\ UNCHANGED <<thread, live, stopped, stops, abortQueue, signalled, attributes>>

(***************************************************************************)
(* abort() and pause(): try_aborting_function                              *)
(***************************************************************************)

\* Nothing is running that would answer on abort_queue.
RestingStates == {"Ready", "Armed", "Paused", "Finished"}

\* self_ctx.ignore_stops_before_now()
StopsKept == selfStops' = selfStops

IgnoreStops == selfStops' = 0

\* Announce the abort and stop every context; wait for what was running.
TryAborting(t, operation, start, end, hooks, locals) ==
  /\ TransitionAllowed(state, start)
  /\ state' = start
  /\ abortQueue' = t
  /\ signalled' = signalled \ {t}
  /\ stopped' = StopHooks \ {t} /\ live' = live \ {t}
  /\ IF state \in RestingStates
     THEN IgnoreStops /\ Start(t, operation, end, hooks, locals)
     ELSE selfStops' = StopSelf /\ Start(t, operation, end, "AwaitAbort", locals)
  /\ UNCHANGED <<contexts, resumeQueues, attributes>>

CallAbort(t) ==
  /\ Call(t, "abort")
  /\ TryAborting(t, "abort", "Aborting", "Aborted", "Abort", NoLocals)

\* The step a run in progress started from.
RunStart ==
  IF scan.ends = << >> THEN configured - scan.steps[1]
  ELSE IF breakpointIndex = 0 THEN 0 ELSE scan.ends[breakpointIndex]

\* The lastGoodStep values clients pass: -1 for "here", or any step and past.
PauseArguments ==
  {n \in -1 .. total + 1 :
     state \in {"Running", "Paused"} /\ ~SeekAnywhere
       => n = -1 \/ n \in RunStart .. configured}

LastGoodStep(n) ==
  LET bounded == IF n < 0 THEN completed ELSE IF n >= total THEN total - 1 ELSE n
  IN  IF state \notin {"Armed", "Finished"} /\ bounded = configured
      THEN bounded - 1 ELSE bounded

\* pause(n); pause(-1) has nothing to do in a finished scan.
CallPause(t) ==
  /\ Call(t, "pause")
  /\ \E n \in PauseArguments :
       /\ n < 0 => state # "Finished"
       /\ TryAborting(t, "pause", "Seeking",
                      IF state \in {"Armed", "Finished"} THEN "Armed" ELSE "Paused",
                      "Pause", [NoLocals EXCEPT !.from = LastGoodStep(n)])

Requests(t) ==
  \/ \E f \in DOMAIN StartState : CallStateful(t, f)
  \/ CallDisable(t)
  \/ CallHalt(t)
  \/ CallConfigure(t)
  \/ CallRun(t)
  \/ CallResume(t)
  \/ CallAbort(t)
  \/ CallPause(t)

--------------------------------------------------------------------------------
(***************************************************************************)
(* configure()                                                             *)
(***************************************************************************)
\* validate() returned: read the state and transition.
ValidateDone(t) ==
  /\ pc[t] = "Validate"
  /\ \/ /\ Transition("Configuring")
        /\ Proceed(t, IF state = "Finished" THEN "ConfigReset" ELSE "ClearContexts")
        /\ OffShared(t)
     \/ ~TransitionAllowed(state, "Configuring") /\ Raise(t)
  /\ UNCHANGED <<stops, abortQueue, attributes, env>>

\* The ResetHooks of a finished scan are done.
ConfigResetDone(t) ==
  /\ pc[t] = "ConfigReset"
  /\ Proceed(t, "ClearContexts")
  /\ OffShared(t)
  /\ UNCHANGED <<state, stops, abortQueue, signalled, resumeQueues, attributes, env>>

\* unsubscribe_all on the old contexts may yield; then new ones replace them,
\* so what was running on the old ones is out of reach.
ContextsCleared(t) ==
  /\ pc[t] = "ClearContexts"
  /\ contexts' = TRUE
  /\ selfStops' = 0
  /\ live' = {t} /\ stopped' = stopped \ {t}
  /\ Proceed(t, "PreConfigure")
  /\ UNCHANGED <<state, abortQueue, signalled, resumeQueues, attributes, env>>

PreConfigureDone(t) ==
  /\ pc[t] = "PreConfigure"
  /\ total' = loc[t].scan.total /\ completed' = 0 /\ configured' = 0
  /\ scan' = loc[t].scan
  /\ Proceed(t, "ConfigStatus")
  /\ OnShared(t)
  /\ UNCHANGED <<state, stops, abortQueue, signalled, resumeQueues,
                 breakpointIndex, env>>

\* get_steps_per_run does not accept the generator, axes and breakpoints.
ScanRejected(t) ==
  /\ pc[t] = "PreConfigure"
  /\ faults < MaxFaults /\ faults' = faults + 1
  /\ total' = loc[t].scan.total /\ completed' = 0 /\ configured' = 0
  /\ Raise(t)
  /\ UNCHANGED <<stops, abortQueue, breakpointIndex, scan, budget, unasked>>

ConfigStatusDone(t) ==
  /\ pc[t] = "ConfigStatus"
  /\ breakpointIndex' = 0
  /\ Goto(t, "Configure", [loc[t] EXCEPT !.target = scan.steps[1]])
  /\ OnShared(t)
  /\ UNCHANGED <<state, stops, abortQueue, signalled, resumeQueues, total,
                 configured, completed, scan, env>>

ConfigureDone(t) ==
  /\ pc[t] = "Configure"
  /\ Proceed(t, "PostConfigure")
  /\ OnShared(t)
  /\ UNCHANGED <<state, stops, abortQueue, signalled, resumeQueues, attributes, env>>

\* self.resume_queue = Queue()
SameResumeQueue == IF resumeQueues = << >> THEN <<<< >>>> ELSE resumeQueues

NewResumeQueue == Append(resumeQueues, << >>)

PostConfigureDone(t) ==
  /\ pc[t] = "PostConfigure"
  /\ configured' = loc[t].target
  /\ resumeQueues' = NewResumeQueue
  /\ Proceed(t, "Settle")
  /\ OffShared(t)
  /\ UNCHANGED <<state, stops, abortQueue, signalled, total, completed,
                 breakpointIndex, scan, env>>

--------------------------------------------------------------------------------
(***************************************************************************)
(* run()                                                                   *)
(***************************************************************************)
PreRunDone(t) ==
  /\ pc[t] = "PreRun"
  /\ Proceed(t, "Run")
  /\ OnShared(t)
  /\ UNCHANGED <<state, stops, abortQueue, signalled, resumeQueues, attributes, env>>

\* update_completed_steps asks neither for the state nor for the phase: parts report
\* (RunProgressInfo) wherever their hooks serve what they subscribed to in the run.
\* A STOP does not drop the updates queued behind it, so that even the hooks of the
\* seek after an interrupted run report some, when completed_steps is set already.
ReportPhases == {"PreRun", "Run", "RunStatus", "PostRunArmed", "PostRunReady",
                 "SeekStatus", "Seek"}

Progress(t) ==
  /\ pc[t] \in ReportPhases
  /\ op[t] = "pause" => goal[t] = "Paused"
  /\ \E n \in completed + 1 .. configured : completed' = n
  /\ UNCHANGED <<state, thread, live, stopped, stops, abortQueue, signalled,
                 resumeQueues, total, configured, breakpointIndex, scan, env>>

\* More steps to do: the next run() is configured before this one returns.
NextRunConfigured(t) ==
  /\ configured < total
  /\ breakpointIndex' = IF scan.ends = << >> THEN breakpointIndex
                        ELSE breakpointIndex + 1
  /\ Goto(t, "RunStatus",
       [loc[t] EXCEPT !.from = configured,
                      !.target = configured + scan.steps[breakpointIndex' + 1]])
  /\ UNCHANGED completed

ScanOver(t) ==
  /\ configured >= total
  /\ completed' = configured
  /\ Proceed(t, "PostRunReady")
  /\ UNCHANGED breakpointIndex

RunDone(t) ==
  /\ pc[t] = "Run"
  /\ NotStopped
  /\ Transition("PostRun")
  /\ NextRunConfigured(t) \/ ScanOver(t)
  /\ OnShared(t)
  /\ UNCHANGED <<stops, abortQueue, total, configured, scan, env>>

RunRefused(t) ==
  /\ pc[t] = "Run"
  /\ Refused(t, "PostRun")
  /\ UNCHANGED <<contexts, abortQueue, attributes, env>>

RunStatusDone(t) ==
  /\ pc[t] = "RunStatus"
  /\ completed' = loc[t].from
  /\ Proceed(t, "PostRunArmed")
  /\ OnShared(t)
  /\ UNCHANGED <<state, stops, abortQueue, signalled, resumeQueues, total,
                 configured, breakpointIndex, scan, env>>

PostRunArmedDone(t) ==
  /\ pc[t] = "PostRunArmed"
  /\ configured' = loc[t].target
  /\ Proceed(t, "Settle")
  /\ OffShared(t)
  /\ UNCHANGED <<state, stops, abortQueue, signalled, resumeQueues, total,
                 completed, breakpointIndex, scan, env>>

PostRunReadyDone(t) ==
  /\ pc[t] = "PostRunReady"
  /\ Proceed(t, "Settle")
  /\ OffShared(t)
  /\ UNCHANGED <<state, stops, abortQueue, signalled, resumeQueues, attributes, env>>

\* resume_queue.get(): start again from the PreRunHooks, or drop out.
Resumed(t) ==
  LET q == loc[t].queue
  IN  /\ pc[t] = "AwaitResume"
      /\ resumeQueues[q] # << >>
      /\ resumeQueues' = [resumeQueues EXCEPT ![q] = Tail(@)]
      /\ IF Head(resumeQueues[q])
         THEN Proceed(t, "PreRun") /\ OnShared(t)
         ELSE End(t) /\ OffShared(t)
      /\ UNCHANGED <<state, stops, abortQueue, signalled, attributes, env>>

--------------------------------------------------------------------------------
(***************************************************************************)
(* pause() and abort(), once what was running has stopped                  *)
(***************************************************************************)
\* Could a thread that runs hooks, or has a message to read, still answer?
Working(u) ==
  \/ pc[u] \notin {"Idle", "AwaitAbort", "AwaitResume"}
  \/ pc[u] = "AwaitResume" /\ resumeQueues[loc[u].queue] # << >>

\* The answer on abort_queue, or none within DEFAULT_TIMEOUT: then only a hook
\* that takes longer than that can still be at work.
AbortAnswered(t) ==
  /\ pc[t] = "AwaitAbort"
  /\ \/ t \in signalled
     \/ \A u \in Threads \ {t} : Working(u) => SlowHooks /\ pc[u] \in HookPhases
  /\ signalled' = signalled \ {t}
  /\ IgnoreStops
  /\ Proceed(t, IF op[t] = "pause" THEN "Pause" ELSE "Abort")
  /\ OffShared(t)
  /\ UNCHANGED <<state, contexts, abortQueue, resumeQueues, attributes, env>>

AbortDone(t) ==
  /\ pc[t] = "Abort"
  /\ Proceed(t, "Settle")
  /\ OffShared(t)
  /\ UNCHANGED <<state, stops, abortQueue, signalled, resumeQueues, attributes, env>>

\* get_breakpoint_index
BreakpointIndex(step) ==
  LET n == Len(scan.ends)
  IN  IF step = scan.ends[n] THEN n - 1
      ELSE CHOOSE i \in 0 .. n - 1 :
             /\ step < scan.ends[i + 1]
             /\ \A j \in 1 .. i : step >= scan.ends[j]

\* do_pause: the end of the run that step is in
SeekFromStep(step) ==
  step + (IF scan.ends = << >> THEN scan.steps[breakpointIndex + 1]
          ELSE scan.steps[BreakpointIndex(step) + 1])

SeekTarget(step) ==
  LET size == IF scan.ends = << >> THEN scan.steps[breakpointIndex + 1]
              ELSE scan.ends[BreakpointIndex(step) + 1]
  IN  step + size - (step % size)

PauseDone(t) ==
  /\ pc[t] = "Pause"
  /\ breakpointIndex' = IF scan.ends = << >> THEN breakpointIndex
                        ELSE BreakpointIndex(loc[t].from)
  /\ Goto(t, "SeekStatus", [loc[t] EXCEPT !.target = SeekTarget(loc[t].from)])
  /\ OnShared(t)
  /\ UNCHANGED <<state, stops, abortQueue, signalled, resumeQueues, total,
                 configured, completed, scan, env>>

SeekStatusDone(t) ==
  /\ pc[t] = "SeekStatus"
  /\ completed' = loc[t].from
  /\ Proceed(t, "Seek")
  /\ OnShared(t)
  /\ UNCHANGED <<state, stops, abortQueue, signalled, resumeQueues, total,
                 configured, breakpointIndex, scan, env>>

SeekDone(t) ==
  /\ pc[t] = "Seek"
  /\ configured' = loc[t].target
  /\ Proceed(t, "Settle")
  /\ OffShared(t)
  /\ UNCHANGED <<state, stops, abortQueue, signalled, resumeQueues, total,
                 completed, breakpointIndex, scan, env>>

--------------------------------------------------------------------------------
(***************************************************************************)
(* The end of an operation, good or bad                                    *)
(***************************************************************************)
\* The abortable_transition that ends configure, run, pause and abort; abort
\* then tells a waiting run() to drop out.
Settled(t) ==
  /\ pc[t] = "Settle"
  /\ NotStopped
  /\ TransitionAllowed(state, goal[t])
  /\ state' = goal[t]
  /\ IF op[t] = "abort" THEN Release ELSE KeepResumeQueues
  /\ End(t) /\ OffShared(t)
  /\ UNCHANGED <<stops, abortQueue, signalled, attributes, env>>

SettleRefused(t) ==
  /\ pc[t] = "Settle"
  /\ Refused(t, goal[t])
  /\ UNCHANGED <<contexts, abortQueue, attributes, env>>

\* The hooks of a stateful function are done; reset() clears the steps too.
StatefulDone(t) ==
  /\ pc[t] = "Stateful"
  /\ IF op[t] = "reset"
     THEN /\ total' = 0 /\ configured' = 0 /\ completed' = 0
          /\ breakpointIndex' = 0 /\ UNCHANGED scan
     ELSE UNCHANGED attributes
  /\ \/ Transition(goal[t]) /\ End(t) /\ OffShared(t)
     \/ ~TransitionAllowed(state, goal[t]) /\ Raise(t)
  /\ UNCHANGED <<stops, abortQueue, env>>

\* halt() goes on to disable(), whatever the state.
HaltDone(t) ==
  /\ pc[t] = "Halt"
  /\ \/ Disable(t)
     \/ /\ ~TransitionAllowed(state, "Disabling")
        /\ Raise(t)
        /\ UNCHANGED <<stops, abortQueue, attributes>>
  /\ UNCHANGED env

\* The hooks of validate() and halt() run outside any handler.
Unhandled(t) ==
  /\ End(t) /\ OffShared(t)
  /\ UNCHANGED <<state, resumeQueues, signalled>>

\* A part raises an exception.
HookFails(t) ==
  /\ pc[t] \in HookPhases
  /\ faults < MaxFaults /\ faults' = faults + 1
  /\ IF pc[t] \in {"Validate", "Halt"} THEN Unhandled(t) ELSE Raise(t)
  /\ UNCHANGED <<stops, abortQueue, attributes, budget, unasked>>

\* wait_hooks passes AbortedError on when all hooks are done, or gives up on
\* them after 10 s with TimeoutError.
HooksAborted(t) == Aborted(t) \/ (SlowHooks /\ Raise(t))

\* A part that waits on its context is stopped: AbortedError
HookStopped(t) ==
  /\ pc[t] \in HookPhases
  /\ t \in stopped
  /\ HooksAborted(t)
  /\ UNCHANGED <<stops, abortQueue, attributes, env>>

\* A part lets out the AbortedError of a child block that was aborted directly.
ChildAborted(t) ==
  /\ ChildAborts
  /\ pc[t] \in HookPhases
  /\ faults < MaxFaults /\ faults' = faults + 1
  /\ unasked' = TRUE
  /\ IF pc[t] \in {"Validate", "Halt"} THEN Unhandled(t) ELSE HooksAborted(t)
  /\ UNCHANGED <<stops, abortQueue, attributes, budget>>

ConfigureStep(t) ==
  \/ ValidateDone(t) \/ ConfigResetDone(t) \/ ContextsCleared(t)
  \/ PreConfigureDone(t) \/ ScanRejected(t) \/ ConfigStatusDone(t)
  \/ ConfigureDone(t) \/ PostConfigureDone(t)

RunStep(t) ==
  \/ PreRunDone(t) \/ RunDone(t) \/ RunRefused(t) \/ RunStatusDone(t)
  \/ PostRunArmedDone(t) \/ PostRunReadyDone(t) \/ Resumed(t)

AbortStep(t) ==
  \/ AbortAnswered(t) \/ AbortDone(t)
  \/ PauseDone(t) \/ SeekStatusDone(t) \/ SeekDone(t)

EndStep(t) ==
  \/ Settled(t) \/ SettleRefused(t) \/ StatefulDone(t) \/ HaltDone(t)
  \/ HookFails(t) \/ HookStopped(t) \/ ChildAborted(t)

\* Everything a thread does once it has been called.
Step(t) == ConfigureStep(t) \/ RunStep(t) \/ AbortStep(t) \/ EndStep(t)

Next == \E t \in Threads : Requests(t) \/ Progress(t) \/ Step(t)

Spec == Init /\ [][Next]_vars

\* Hooks end and woken cothreads get to run; nobody has to make a request.
FairSpec == Spec /\ \A t \in Threads : WF_vars(Step(t))

--------------------------------------------------------------------------------
(***************************************************************************)
(* Properties                                                              *)
(***************************************************************************)
\* The states an operation means to end in
Goals == {"none", "Ready", "Disabled", "Armed", "Paused", "Finished", "Aborted"}

ControlTypes ==
  /\ state \in States
  /\ pc \in [Threads -> Phases]
  /\ op \in [Threads -> Operations \cup {"none"}]
  /\ goal \in [Threads -> Goals]
  /\ live \subseteq Threads /\ stopped \subseteq Threads
  /\ contexts \in BOOLEAN /\ selfStops \in Nat
  /\ abortQueue \in Threads \cup {NoThread} /\ signalled \subseteq Threads

Locals == [from: Int, target: Int, scan: Scans \cup {NoScan}, queue: Nat]

DataTypes ==
  /\ loc \in [Threads -> Locals]
  /\ resumeQueues \in Seq(Seq(BOOLEAN))
  /\ total \in Nat /\ configured \in Nat /\ completed \in Nat
  /\ breakpointIndex \in Nat /\ scan \in Scans \cup {NoScan}
  /\ budget \in [Operations -> Nat] /\ faults \in Nat /\ unasked \in BOOLEAN

\* Every variable keeps its type: threads, steps and queues of the controller.
TypeOK == ControlTypes /\ DataTypes

\* The operations that put the block in a busy state, and where they can be
\* while it is in it.
Owners == [Configuring |-> {"configure"}, PostRun |-> {"run"},
           Seeking |-> {"pause"}, Aborting |-> {"abort"},
           Resetting |-> {"init", "reset"}, Saving |-> {"save"},
           Loading |-> {"load"}, Disabling |-> {"disable"}]

WorkerPhases == [
  Configuring |-> {"ConfigReset", "ClearContexts", "PreConfigure", "ConfigStatus",
                   "Configure", "PostConfigure", "Settle"},
  PostRun     |-> {"RunStatus", "PostRunArmed", "PostRunReady", "Settle"},
  Seeking     |-> {"AwaitAbort", "Pause", "SeekStatus", "Seek", "Settle"},
  Aborting    |-> {"AwaitAbort", "Abort", "Settle"},
  Resetting   |-> {"Stateful"},
  Saving      |-> {"Stateful"},
  Loading     |-> {"Stateful"},
  Disabling   |-> {"Stateful"}]

BusyStates == DOMAIN Owners

WorksOn(t, s) == op[t] \in Owners[s] /\ pc[t] \in WorkerPhases[s]

\* A block in a busy state has a thread at work that will take it out of it:
\* no operation drops out and leaves Configuring, PostRun, Aborting... behind,
\* unless a part has let out an AbortedError that nobody asked for.
BusyHasWorker ==
  ~unasked /\ state \in BusyStates => \E t \in Threads : WorksOn(t, state)

\* A STOP sent to the controller's own context is gone by the time a scan is
\* armed, running or paused again: it cannot abort an operation that came later.
NoStaleStop ==
  state \in {"Armed", "Running", "PostRun", "Paused", "Finished"} => selfStops = 0

\* No STOP is left over to abort an operation it was not meant for: one that
\* reaches its last transition still in charge of the block is not refused.  That
\* is so while hooks stop in time and nobody disables the block: it may be reset
\* and configured again while the hooks of what was disabled still run.
NoLeftoverStop ==
  \A t \in Threads : pc[t] = "Settle" /\ state \in BusyStates /\ WorksOn(t, state)
    => selfStops = 0

\* A run() that waits to be resumed, with nothing to read
Waiting(t) == pc[t] = "AwaitResume" /\ resumeQueues[loc[t].queue] = << >>

\* A running scan has a run() that works on it, a paused one has the run() that
\* resume() would wake.
RunIsThere ==
  /\ state = "Running" =>
       \E t \in Threads : /\ pc[t] \in {"PreRun", "Run", "AwaitResume"}
                          /\ ~Waiting(t)
  /\ state = "Paused" =>
       \E t \in Threads : Waiting(t) /\ loc[t].queue = Len(resumeQueues)

\* A run() waits to be told what to do only in a scan that is paused or being
\* paused, or while an abort that will release it is at work; but for one whose part
\* let out an AbortedError that nobody asked for.
NoRunLeftBehind ==
  ~unasked => \A t \in Threads : Waiting(t) => state \in {"Seeking", "Paused", "Aborting"}

\* A scan that can be started or resumed has an empty resume_queue: a run()
\* that is aborted must not find the answer to an earlier abort or pause.
NoStaleResume ==
  state \in {"Armed", "Paused", "Finished"} /\ resumeQueues # << >>
    => resumeQueues[Len(resumeQueues)] = << >>

\* What is put in a resume_queue and the run() that reads it find each other: a
\* running or paused scan has its run(), and nobody finds another's answer.
AnswersFindTheirRun == RunIsThere /\ NoStaleResume

\* Where the runs of the scan in force end
Boundaries ==
  IF scan.ends = << >> THEN {n * scan.steps[1] : n \in 1 .. total}
  ELSE {scan.ends[i] : i \in DOMAIN scan.ends}

\* A finished scan has done all of its steps; one that waits to be run or resumed
\* is configured, however it was paused and seeked, up to the end of the run that it
\* is in, with steps left to do when it is armed.  A paused one may say that all of
\* them are done: the reports that come after the seek are of the run it interrupted.
StepsAccountedFor ==
  /\ state = "Finished" => completed = total /\ configured = total
  /\ state = "Armed" => completed < configured
  /\ state \in {"Armed", "Paused"} =>
       /\ 0 <= completed /\ completed <= configured /\ configured \in Boundaries
       /\ \A n \in Boundaries : n > completed => configured <= n

\* Fault is where a part's failure leads, and nothing else.
FaultOnlyOnError == state = "Fault" => faults > 0

\* abort() leaves no hook of the scan running behind it.
AbortedIsQuiet == state = "Aborted" => live = {}

\* However the calls of abort(), pause(), run() and reset() meet, the block ends
\* in Fault only when a part failed and in Aborted only when its hooks are over.
OutcomeIsTrue == FaultOnlyOnError /\ AbortedIsQuiet

\* A run() that drops out while the block is being disabled leaves it to end in
\* Disabled; only a failing part may make it Fault.
RunObeysDisable ==
  [][\A t \in Threads :
       op[t] = "run" /\ pc'[t] = "Idle" /\ state = "Disabling"
         => state' # "Fault" \/ faults' > 0]_vars

\* Every busy state is left in the end, whoever else calls what.
BusyEnds == \A s \in BusyStates \cup {"Running"} : state = s ~> state # s

\* Every operation returns, but a run() that is left paused and a run() that
\* was never told why it was aborted.
OperationsReturn ==
  \A t \in Threads : pc[t] # "Idle" ~> pc[t] = "Idle" \/ (Waiting(t) /\ state = "Paused")

================================================================================
