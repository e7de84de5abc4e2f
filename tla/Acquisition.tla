----------------------------- MODULE Acquisition -----------------------------
(***************************************************************************)
(* How a scan's steps are counted: the runs that a RunnableController      *)
(* makes of a generator and its breakpoints, and the parts of a detector   *)
(* that it drives with completed_steps and steps_to_do.  The driver        *)
(* (detectordriverpart.py) numbers the frames, the labeller                *)
(* (positionlabellerpart.py) gives each number its place in the file, the  *)
(* writer (hdfwriterpart.py) counts what is in the file.  All three keep   *)
(* the number to wait for and an offset over pauses, seeks and runs.  One  *)
(* call is made at a time, but for pause() and abort(), which may come     *)
(* while run() is in its hooks (RunnableController has the others).        *)
(***************************************************************************)
EXTENDS Integers, Sequences, FiniteSetsExt, Functions, TLC

CONSTANTS
  Generators,    \* what may be scanned, and how the detector is triggered:
                 \* [dims, moved, breakpoints, hardware]
  MaxConfigures, \* bound: calls of configure(); abort() and reset() come before the last
  MaxPauses,     \* bound: calls of pause()
  MaxCalls,      \* bound: calls of configure() and of pause()
  MaxInFlight,   \* bound: frames between the driver and the labeller, or the writer
  LateFrames     \* scope: may frames be on their way when a hook stops the labeller,
                 \* and when a seek or reset is over with stopping?

Sizes(g) == [n \in DOMAIN g.dims |-> g.dims[n].size]

ASSUME AcquisitionAssumption ==
  /\ \A g \in Generators : \A n \in DOMAIN g.dims : g.dims[n].size \in Nat \ {0}
  /\ {MaxConfigures, MaxPauses, MaxCalls, MaxInFlight} \subseteq Nat /\ LateFrames \in BOOLEAN

VARIABLES
  scan,       \* what configure() was given, with the detector's trigger mode
  phase,      \* state, as far as the steps depend on it
  hooks,      \* the hooks that run: their name and arguments, and the parts that
              \* have still to begin or to end theirs
  configured, completed, index,  \* configured_steps, completed_steps, breakpoint_index
  progress,   \* progress_updates
  driver, labeller, writer,      \* the parts and the plugins they drive
  moving,     \* the motors go through the points of the run
  exposure,   \* the step that the next exposure is of
  flight, labelled,  \* frames on their way to the labeller, and to the writer
  file,       \* the frame at each place of the file
  skipped,    \* steps that a pause() said to leave out
  overcounted, \* history: the steps that a report from before a seek counted after it,
              \* and that have not been taken since
  configures, pauses

controller == <<scan, phase, hooks, configured, completed, index, progress>>
pipeline == <<flight, labelled, file>>
history == <<skipped, overcounted>>
calls == <<configures, pauses>>
vars == <<controller, driver, labeller, writer, moving, exposure, pipeline, history, calls>>

--------------------------------------------------------------------------------
(***************************************************************************)
(* get_steps_per_run: the steps of each run                                *)
(***************************************************************************)
Product(f, S) == FoldFunctionOnSet(LAMBDA a, b : a * b, 1, f, S)
SumTo(f, n) == FoldFunctionOnSet(+, 0, f, 1 .. n)
Size(g) == Product(Sizes(g), DOMAIN g.dims)

AxesAfter(g, n) == UNION {g.dims[m].axes : m \in n + 1 .. Len(g.dims)}

\* The dimensions that are consumed, from the last to the first.
Inner(g) ==
  {n \in DOMAIN g.dims :
     \A m \in n .. Len(g.dims) : g.dims[m].axes # {} => ~(g.moved \subseteq AxesAfter(g, m))}

Outer(g) == {n \in DOMAIN g.dims : g.dims[n].axes \cap g.moved = {}}

InnerSteps(g) == Product(Sizes(g), Inner(g))

\* The breakpoints, with one more for the steps that are left.
Filled(g) ==
  LET sum == SumTo(g.breakpoints, Len(g.breakpoints))
  IN  IF sum < InnerSteps(g) THEN Append(g.breakpoints, InnerSteps(g) - sum)
      ELSE g.breakpoints

StepsPerRun(g) ==
  IF g.breakpoints = << >> THEN <<InnerSteps(g)>>
  ELSE [n \in 1 .. Len(Filled(g)) * Product(Sizes(g), Outer(g))
          |-> Filled(g)[((n - 1) % Len(Filled(g))) + 1]]

Runs == scan.runs
Total == scan.size
BreakpointStep(n) == SumTo(Runs, n)
InBreakpoints == scan.breakpoints # << >>

IndexNext(k) ==
  IF k = BreakpointStep(Len(Runs)) THEN Len(Runs)
  ELSE Min({n \in DOMAIN Runs : k <= BreakpointStep(n)})

\* get_breakpoint_index
IndexOf(k) ==
  IF k = BreakpointStep(Len(Runs)) THEN Len(Runs)
  ELSE Min({n \in DOMAIN Runs : k < BreakpointStep(n)})

\* do_pause: the steps to the end of the run that step k is in
StepsToDo(k) ==
  IF InBreakpoints THEN LET end == BreakpointStep(IndexOf(k)) IN end - (k % end)
  ELSE Runs[index] - (k % Runs[index])

--------------------------------------------------------------------------------
NoFrame == [scan |-> 0, step |-> 0]
Idle == [name |-> "none", from |-> 0, steps |-> 0, todo |-> {}, busy |-> {}]

Scans ==
  {[size |-> Size(g), runs |-> StepsPerRun(g), breakpoints |-> g.breakpoints,
    generator |-> g, hardware |-> g.hardware] : g \in Generators}

Init ==
  /\ scan \in Scans
  /\ phase = "Ready" /\ hooks = Idle
  /\ configured = 0 /\ completed = 0 /\ index = 1 /\ progress = << >>
  /\ driver = [done |-> 0, offset |-> 0, counter |-> 0, left |-> 0]
  /\ labeller = [done |-> 0, start |-> 0, first |-> 0, counter |-> 0, running |-> FALSE]
  /\ writer = [done |-> 0, offset |-> 0, captured |-> 0, arrived |-> FALSE, running |-> FALSE,
                updates |-> "off"]
  /\ moving = FALSE /\ exposure = 0
  /\ flight = << >> /\ labelled = << >>
  /\ file = [s \in 0 .. Total - 1 |-> NoFrame]
  /\ skipped = {} /\ overcounted = {} /\ configures = 0 /\ pauses = 0

(***************************************************************************)
(* The hooks that each part has                                            *)
(***************************************************************************)
Motors == IF scan.hardware THEN {"motion"} ELSE {}

Hooked(name) ==
  CASE name \in {"Configure", "Seek", "PostRunArmed"} -> {"driver", "labeller", "writer"}
    [] name = "Pause" -> {"driver", "labeller"} \cup Motors
    [] name \in {"Run", "Abort", "Reset"} -> {"driver", "labeller", "writer"} \cup Motors
    [] OTHER -> {}

RunHooks(name, from, steps) ==
  hooks' = [name |-> name, from |-> from, steps |-> steps, todo |-> Hooked(name), busy |-> {}]

Ended(p) == hooks' = [hooks EXCEPT !.todo = @ \ {p}, !.busy = @ \ {p}]

AllEnded == hooks.todo = {} /\ hooks.busy = {}

Doing(name, p) == hooks.name = name /\ p \in hooks.todo

--------------------------------------------------------------------------------
(***************************************************************************)
(* DetectorDriverPart                                                      *)
(***************************************************************************)
\* setup_detector, and arm_detector where start is TRUE
SetUpDetector(initial, images, start) ==
  LET counter == IF initial THEN 0 ELSE driver.done
  IN  driver' = [done |-> counter + hooks.steps, offset |-> hooks.from - counter,
                 counter |-> counter, left |-> IF start THEN images ELSE 0]

\* How many frames the detector is set up for.
Images == IF scan.hardware /\ ~InBreakpoints THEN Total - hooks.from ELSE hooks.steps

DriverConfigure ==
  /\ Doing("Configure", "driver")
  /\ SetUpDetector(TRUE, Images, scan.hardware)

DriverSeek ==
  /\ Doing("Seek", "driver")
  /\ SetUpDetector(FALSE, Images, scan.hardware)

SetUpAgain ==
  IF InBreakpoints \/ ~scan.hardware THEN SetUpDetector(FALSE, hooks.steps, scan.hardware)
  ELSE driver' = [driver EXCEPT !.done = @ + hooks.steps]

DriverPostRunArmed == Doing("PostRunArmed", "driver") /\ SetUpAgain

\* on_abort and on_reset
DriverStops ==
  /\ hooks.name \in {"Pause", "Abort", "Reset"} /\ "driver" \in hooks.todo
  /\ driver' = [driver EXCEPT !.left = 0]

DriverHook ==
  /\ DriverConfigure \/ DriverSeek \/ DriverPostRunArmed \/ DriverStops
  /\ Ended("driver")
  /\ UNCHANGED <<scan, phase, configured, completed, index, progress, labeller, writer,
                 moving, exposure, pipeline, history, calls>>

(***************************************************************************)
(* PositionLabellerPart                                                    *)
(***************************************************************************)
NextCounted == labeller.counter + 1

NextId == labeller.done + 1

\* setup_plugin
SetUpPlugin(initial) ==
  LET start == IF initial THEN 1 ELSE NextId
  IN  labeller' = [done |-> (IF initial THEN 0 ELSE labeller.done) + hooks.steps,
                   start |-> start, first |-> hooks.from, counter |-> start - 1,
                   running |-> TRUE]

LabellerPostRunArmed ==
  /\ Doing("PostRunArmed", "labeller")
  /\ labeller' = [labeller EXCEPT !.done = @ + hooks.steps]

LabellerStops ==
  /\ hooks.name \in {"Pause", "Abort", "Reset"} /\ "labeller" \in hooks.todo
  /\ LateFrames \/ flight = << >>
  /\ labeller' = [labeller EXCEPT !.running = FALSE]

LabellerHook ==
  /\ \/ Doing("Configure", "labeller") /\ SetUpPlugin(TRUE)
     \/ Doing("Seek", "labeller") /\ SetUpPlugin(FALSE)
     \/ LabellerPostRunArmed \/ LabellerStops
  /\ Ended("labeller")
  /\ UNCHANGED <<scan, phase, configured, completed, index, progress, driver, writer,
                 moving, exposure, pipeline, history, calls>>

(***************************************************************************)
(* What the parts report, to update_completed_steps, which asks for neither *)
(* the state nor the hooks that run.  Of the updates that wait for a part   *)
(* the last is reported; those before it count less.                        *)
(***************************************************************************)
Steps(p) ==
  IF p = "driver" THEN driver.counter + driver.offset ELSE writer.captured - writer.offset

Least(steps, p) == Min(Range((p :> steps) @@ progress))

Reported(p) ==
  /\ progress' = (p :> Steps(p)) @@ progress
  /\ completed' = Max({completed, Least(Steps(p), p)})

(***************************************************************************)
(* HDFWriterPart                                                           *)
(***************************************************************************)
\* A new file is opened; first_array_future is made for its first frame only.
WriterConfigure ==
  /\ Doing("Configure", "writer")
  /\ writer' = [done |-> hooks.from + hooks.steps, offset |-> 0, captured |-> 0,
                arrived |-> FALSE, running |-> TRUE, updates |-> "off"]
  /\ file' = [s \in 0 .. Total - 1 |-> NoFrame]
  /\ UNCHANGED <<completed, progress, overcounted>>

CountedOn == [writer EXCEPT !.done = @ + hooks.steps]

\* on_seek, which is the hook for PostRunArmed too
Recounted == [writer EXCEPT !.offset = writer.captured - hooks.from,
                            !.done = writer.captured + hooks.steps]

\* Setting arrayCounter waits on the context of the hooks, which still has what came
\* for the subscriptions of a run that was stopped, and the STOP goes by itself: what
\* is queued is reported now, with the offset of that run.  (The driver and detectors
\* that are child blocks unsubscribe first.)
WriterSeek ==
  /\ Doing("Seek", "writer") \/ Doing("PostRunArmed", "writer")
  /\ \/ /\ writer.updates = "queued" /\ Steps("writer") >= 0
        /\ Reported("writer")
        /\ writer' = [Recounted EXCEPT !.updates = "told"]
        /\ overcounted' = overcounted \cup completed .. completed' - 1
     \/ writer' = Recounted /\ UNCHANGED <<completed, progress, overcounted>>
  /\ UNCHANGED file

WriterStops ==
  /\ Doing("Abort", "writer") \/ Doing("Reset", "writer")
  /\ writer' = [writer EXCEPT !.running = FALSE]
  /\ UNCHANGED <<file, completed, progress, overcounted>>

WriterHook ==
  /\ WriterConfigure \/ WriterSeek \/ WriterStops
  /\ Ended("writer")
  /\ UNCHANGED <<scan, phase, configured, index, driver, labeller, moving, exposure,
                 flight, labelled, skipped, calls>>

--------------------------------------------------------------------------------
(***************************************************************************)
(* The hooks of a run, which begin, report and end                         *)
(***************************************************************************)
\* A software triggered detector is armed now, the writer waits for the first
\* frame of its file, the motors start.
BeginRun(p) ==
  /\ Doing("Run", p)
  /\ p = "writer" => writer.arrived
  /\ hooks' = [hooks EXCEPT !.todo = @ \ {p}, !.busy = @ \cup {p}]
  /\ driver' = IF p = "driver" /\ ~scan.hardware
               THEN [driver EXCEPT !.left = driver.done - driver.counter] ELSE driver
  /\ writer' = IF p = "writer" THEN [writer EXCEPT !.updates = "queued"] ELSE writer
  /\ moving' = (moving \/ p = "motion")
  /\ UNCHANGED <<scan, phase, configured, completed, index, progress, labeller,
                 exposure, pipeline, history, calls>>

WriterTold == writer' = [writer EXCEPT !.updates = "told"]

Report(p) ==
  /\ hooks.name = "Run" /\ p \in hooks.busy \cap {"driver", "writer"}
  /\ Steps(p) >= 0
  /\ Reported(p)
  /\ IF p = "writer" THEN writer.updates = "queued" /\ WriterTold ELSE UNCHANGED writer
  /\ UNCHANGED <<scan, phase, hooks, configured, index, driver, labeller, moving,
                 exposure, pipeline, history, calls>>

Reached(p) ==
  CASE p = "driver" -> driver.counter = driver.done
    [] p = "labeller" -> labeller.counter = labeller.done
    [] p = "writer" -> writer.captured = writer.done
    [] p = "motion" -> exposure = configured

\* What has been subscribed to before is told before what is waited for.
EndRun(p) ==
  /\ hooks.name = "Run" /\ p \in hooks.busy
  /\ Reached(p)
  /\ IF p \in {"driver", "writer"} THEN Reported(p) ELSE UNCHANGED <<progress, completed>>
  /\ IF p = "writer" THEN WriterTold ELSE UNCHANGED writer
  /\ moving' = (moving /\ p # "motion")
  /\ Ended(p)
  /\ UNCHANGED <<scan, phase, configured, index, driver, labeller,
                 exposure, pipeline, history, calls>>

MotorsStop ==
  /\ hooks.name \in {"Pause", "Abort", "Reset"} /\ "motion" \in hooks.todo
  /\ moving' = FALSE
  /\ Ended("motion")
  /\ UNCHANGED <<scan, phase, configured, completed, index, progress, driver, labeller,
                 writer, exposure, pipeline, history, calls>>

--------------------------------------------------------------------------------
(***************************************************************************)
(* The detector and its plugins                                            *)
(***************************************************************************)
\* The motors trigger the detector, or it takes its frames by itself.
Expose ==
  /\ IF scan.hardware THEN moving /\ exposure < configured ELSE driver.left > 0
  /\ Len(flight) < MaxInFlight
  /\ exposure' = exposure + 1 /\ overcounted' = overcounted \ {exposure}
  /\ IF driver.left > 0
     THEN /\ driver' = [driver EXCEPT !.left = @ - 1, !.counter = @ + 1]
          /\ flight' = Append(flight, [id |-> driver.counter + 1, scan |-> configures,
                                       step |-> exposure])
     ELSE UNCHANGED <<driver, flight>>
  /\ UNCHANGED <<controller, labeller, writer, moving, labelled, file, skipped, calls>>

\* The place of a frame is that of its number.
Label ==
  /\ flight # << >> /\ flight' = Tail(flight)
  /\ LET frame == Head(flight)
     IN  IF labeller.running /\ frame.id >= labeller.start
         THEN /\ Len(labelled) < MaxInFlight
              /\ labelled' = Append(labelled,
                   [place |-> labeller.first + frame.id - labeller.start,
                    frame |-> [scan |-> frame.scan, step |-> frame.step]])
              /\ labeller' = [labeller EXCEPT !.counter = @ + 1]
         ELSE UNCHANGED <<labelled, labeller>>
  /\ UNCHANGED <<controller, driver, writer, moving, exposure, file, history, calls>>

Write ==
  /\ labelled # << >> /\ labelled' = Tail(labelled)
  /\ IF writer.running /\ Head(labelled).place \in DOMAIN file
     THEN /\ file' = [file EXCEPT ![Head(labelled).place] = Head(labelled).frame]
          /\ writer' = [writer EXCEPT !.captured = @ + 1, !.arrived = TRUE,
                                      !.updates = IF @ = "off" THEN "off" ELSE "queued"]
     ELSE UNCHANGED <<file, writer>>
  /\ UNCHANGED <<controller, driver, labeller, moving, exposure, flight, history, calls>>

Drained == flight = << >> /\ labelled = << >>

--------------------------------------------------------------------------------
(***************************************************************************)
(* RunnableController                                                      *)
(***************************************************************************)
parts == <<driver, labeller, writer, moving, pipeline>>

MayConfigure == configures < MaxConfigures /\ configures + pauses < MaxCalls

\* configure() of a Finished block resets its parts before.
Configure ==
  /\ phase \in {"Ready", "Finished"} /\ MayConfigure
  /\ configures' = configures + 1
  /\ phase' = "Configuring"
  /\ IF phase = "Finished" THEN RunHooks("Reset", 0, 0) ELSE RunHooks("Configure", 0, Runs[1])
  /\ configured' = 0 /\ completed' = 0 /\ index' = 1 /\ skipped' = {} /\ overcounted' = {}
  /\ exposure' = 0
  /\ UNCHANGED <<scan, progress, parts, pauses>>

PartsAreReset ==
  /\ hooks.name = "Reset" /\ AllEnded
  /\ LateFrames \/ Drained
  /\ IF phase = "Configuring" THEN RunHooks("Configure", 0, Runs[1]) /\ UNCHANGED phase
     ELSE hooks' = Idle /\ phase' = "Ready"
  /\ UNCHANGED <<scan, configured, completed, index, progress, parts, exposure, history,
                 calls>>

Configured ==
  /\ hooks.name = "Configure" /\ AllEnded
  /\ configured' = hooks.steps /\ progress' = << >>
  /\ phase' = "Armed" /\ hooks' = Idle
  /\ UNCHANGED <<scan, completed, index, parts, exposure, history, calls>>

Run ==
  /\ phase = "Armed" /\ hooks = Idle
  /\ phase' = "Running" /\ RunHooks("Run", 0, 0)
  /\ UNCHANGED <<scan, configured, completed, index, progress, parts, exposure, history, calls>>

NextIndex == IF InBreakpoints THEN index + 1 ELSE index

\* do_run, once the parts have run
PostRun ==
  /\ hooks.name = "Run" /\ AllEnded
  /\ phase' = "PostRun" /\ completed' = configured
  /\ IF configured < Total
     THEN index' = NextIndex /\ RunHooks("PostRunArmed", configured, Runs[NextIndex])
     ELSE UNCHANGED index /\ RunHooks("PostRunReady", 0, 0)
  /\ UNCHANGED <<scan, configured, progress, parts, exposure, history, calls>>

RunReturns ==
  /\ hooks.name \in {"PostRunArmed", "PostRunReady"} /\ AllEnded
  /\ configured' = configured + hooks.steps
  /\ phase' = IF hooks.name = "PostRunArmed" THEN "Armed" ELSE "Finished"
  /\ hooks' = Idle
  /\ UNCHANGED <<scan, completed, index, progress, parts, exposure, history, calls>>

\* The first step of the run that is configured.
RunStart ==
  IF InBreakpoints
  THEN Max({s \in {0} \cup {BreakpointStep(n) : n \in DOMAIN Runs} : s < configured})
  ELSE configured - Runs[1]

\* pause(k): where it may go to, which while run() is active is within its run
MayPauseAt ==
  CASE phase \in {"Running", "Paused"} -> RunStart .. configured - 1
    [] phase \in {"Armed", "Finished"} -> 0 .. Total - 1
    [] OTHER -> {}

Pause(k) ==
  /\ k \in MayPauseAt /\ pauses < MaxPauses /\ configures + pauses < MaxCalls
  /\ hooks = Idle \/ hooks.name = "Run"
  /\ pauses' = pauses + 1
  /\ phase' = IF phase \in {"Armed", "Finished"} THEN "SeekingArmed" ELSE "SeekingPaused"
  /\ RunHooks("Pause", k, 0)
  /\ skipped' = {s \in skipped \cup completed .. k - 1 : s < k}
  /\ UNCHANGED <<scan, configured, completed, index, progress, parts, exposure, overcounted,
                 configures>>

Seek ==
  /\ hooks.name = "Pause" /\ AllEnded
  /\ LateFrames \/ Drained
  /\ index' = IF InBreakpoints THEN IndexOf(hooks.from) ELSE index
  /\ completed' = hooks.from
  /\ exposure' = hooks.from
  /\ overcounted' = {s \in overcounted : s < hooks.from}
  /\ RunHooks("Seek", hooks.from, StepsToDo(hooks.from))
  /\ UNCHANGED <<scan, phase, configured, progress, parts, skipped, calls>>

Seeked ==
  /\ hooks.name = "Seek" /\ AllEnded
  /\ configured' = hooks.from + hooks.steps
  /\ phase' = IF phase = "SeekingArmed" THEN "Armed" ELSE "Paused"
  /\ hooks' = Idle
  /\ UNCHANGED <<scan, completed, index, progress, parts, exposure, history, calls>>

Resume ==
  /\ phase = "Paused" /\ hooks = Idle
  /\ phase' = "Running" /\ RunHooks("Run", 0, 0)
  /\ UNCHANGED <<scan, configured, completed, index, progress, parts, exposure, history, calls>>

Abort ==
  /\ phase \notin {"Ready", "Aborting", "Aborted", "Resetting"}
  /\ MayConfigure
  /\ phase' = "Aborting" /\ RunHooks("Abort", 0, 0)
  /\ UNCHANGED <<scan, configured, completed, index, progress, parts, exposure, history, calls>>

Aborted ==
  /\ hooks.name = "Abort" /\ AllEnded
  /\ phase' = "Aborted" /\ hooks' = Idle
  /\ UNCHANGED <<scan, configured, completed, index, progress, parts, exposure, history, calls>>

Reset ==
  /\ phase \in {"Armed", "Finished", "Aborted"} /\ hooks = Idle
  /\ MayConfigure
  /\ phase' = "Resetting" /\ RunHooks("Reset", 0, 0)
  /\ configured' = 0 /\ completed' = 0 /\ index' = 1 /\ skipped' = {} /\ overcounted' = {}
  /\ UNCHANGED <<scan, progress, parts, exposure, calls>>

--------------------------------------------------------------------------------
Parts == {"driver", "labeller", "writer", "motion"}

RunSteps == \E p \in Parts : BeginRun(p) \/ EndRun(p)

HookSteps == DriverHook \/ LabellerHook \/ WriterHook \/ MotorsStop

ControllerSteps ==
  \/ PartsAreReset \/ Configured \/ PostRun \/ RunReturns \/ Seek \/ Seeked \/ Aborted

Calls ==
  \/ Configure \/ Run \/ Resume \/ Abort \/ Reset
  \/ \E k \in 0 .. Total - 1 : Pause(k)

Next ==
  \/ Calls \/ HookSteps \/ RunSteps \/ ControllerSteps
  \/ \E p \in {"driver", "writer"} : Report(p)
  \/ Expose \/ Label \/ Write

Spec == Init /\ [][Next]_vars

\* Hooks begin and end, the motors and the detector go on, frames arrive.
FairSpec ==
  /\ Spec
  /\ WF_vars(HookSteps \/ RunSteps \/ ControllerSteps)
  /\ WF_vars(Expose \/ Label \/ Write)

--------------------------------------------------------------------------------
(***************************************************************************)
(* Properties                                                              *)
(***************************************************************************)
Phases ==
  {"Ready", "Configuring", "Armed", "Running", "PostRun", "SeekingArmed", "SeekingPaused",
   "Paused", "Finished", "Aborting", "Aborted", "Resetting"}

\* The types; nothing is counted or configured beyond the scan.
TypeOK ==
  /\ scan \in Scans /\ phase \in Phases
  /\ hooks.todo \subseteq Parts /\ hooks.busy \subseteq Parts
  /\ completed \in 0 .. Total /\ configured \in 0 .. Total /\ index \in DOMAIN Runs
  /\ DOMAIN progress \subseteq {"driver", "writer"} /\ \A p \in DOMAIN progress : progress[p] \in 0 .. Total
  /\ driver.counter \in Nat /\ driver.left \in 0 .. Total
  /\ labeller.counter \in Nat /\ writer.captured \in Nat
  /\ writer.updates \in {"off", "told", "queued"}
  /\ exposure \in 0 .. Total /\ skipped \cup overcounted \subseteq 0 .. Total - 1

\* The ends of the runs as the generator and the breakpoints mean them: those of
\* the inner scan, the last dimensions of which all axes are moved, and within
\* each the breakpoints, counted from its start.
Boundaries ==
  LET g == scan.generator
      inner == {n \in DOMAIN g.dims : \A m \in n .. Len(g.dims) : g.dims[m].axes \subseteq g.moved}
      row == Product(Sizes(g), inner)
  IN  {n \in 1 .. Total : n % row = 0
         \/ \E b \in DOMAIN g.breakpoints : n % row = SumTo(g.breakpoints, b)}

\* Whatever was run, paused or seeked before, the next run ends at the boundary that
\* follows the step it starts with, and no run goes over one (get_steps_per_run,
\* do_pause).  That step is what the block says is completed, unless the writer has
\* reported since the seek what it wrote before.
NextBoundary ==
  phase \in {"Armed", "Paused"} =>
    /\ configured = Min({n \in Boundaries : n > exposure})
    /\ exposure <= completed /\ exposure .. completed - 1 \subseteq overcounted

\* A frame that is in the file is of this scan and of the step that is its place.
FramesInPlace ==
  phase \notin {"Ready", "Configuring", "Resetting"}
    => \A s \in DOMAIN file : file[s] \in {NoFrame, [scan |-> configures, step |-> s]}

InFile(s) == file[s] = [scan |-> configures, step |-> s]

\* What need not be there though it is counted: pause() said to leave it out, or it was
\* counted by a report that came after the seek.
Excepted(s) == s \in skipped \cup overcounted

\* Every other step that is said to be completed when the block comes to rest is in
\* the file: the counts of the parts, and which of them have reported, do not lose one.
RestIsWritten ==
  phase \in {"Armed", "Paused", "Finished"}
    => \A s \in 0 .. completed - 1 : Excepted(s) \/ InFile(s)

\* What is reported as completed while run() goes on has been exposed.
CountedIsExposed ==
  phase = "Running"
    => \A s \in 0 .. completed - 1 :
         \/ Excepted(s) \/ InFile(s)
         \/ \E n \in DOMAIN flight : flight[n].step = s
         \/ \E n \in DOMAIN labelled : labelled[n].frame.step = s

\* Whatever is counted by the driver, the labeller and the writer, each on its own
\* and over pauses and seeks, the file has every step in its place that the block
\* says is completed, or will have it when what is exposed has come through: but for
\* the steps that a pause() left out, and those that a late report counts too early.
FileIsRight == TypeOK /\ FramesInPlace /\ RestIsWritten /\ CountedIsExposed

\* A run comes to an end without a timeout: the numbers that its parts wait for
\* are reached, after pauses, seeks and runs.
RunsEnd == phase = "Running" ~> phase # "Running"

================================================================================
