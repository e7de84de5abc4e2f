# A TLA+ verification of pymalcolm

pymalcolm hosts *blocks*: trees of attributes and methods that clients get, put, post to and
subscribe to. A block is served by a *controller*, made of *parts*; parts of one block may be
clients of other blocks, down to EPICS PVs and hardware. The behaviour that everything rests
on is in `malcolm/core` and in `malcolm/modules/builtin` and `scanning`: a block that scans is
configured, run, paused, aborted and disabled by clients who do not wait for one another,
while its parts run hooks in cothreads of their own. Around it are the servers and clients that
carry blocks between processes, and the parts and controllers that drive detectors and PandAs.

All paths below are relative to `src/malcolm/` unless they begin with `docs/` or `tests/`.

## Contents

1. Inventory of the system
2. The modules and how they correspond to the code
3. The runs: what is checked, with which bounds
4. Where the code does not keep what is expected of it
5. What is proved
6. What is only model-checked, and what is not modelled
7. Plan

## 1. Inventory

### Concurrency

Handlers run in cothreads: one runs until it blocks on a queue, an event, a lock or a sleep
(`core/concurrency.py`). Code between two such points is atomic with respect to other
cothreads, so it is one step of a model. The exceptions are the parts that talk to tornado,
p4p or sockets from real threads (`web`, `pva`, `pandablocks`); these hand over with queues.
A cothread lock is held over waits in a few places, on purpose (`Controller._lock`,
`Notifier.lock`).

### Components

| component | state it keeps | operations | what makes it correct |
|---|---|---|---|
| State sets (`core/stateset.py`, `builtin/util.py`, `scanning/util.py`) | allowed transitions | `set_allowed`, `transition_allowed` | every operation has a way to its state, and to Fault and Disabling |
| Runnable state machine (`runnablecontroller.py`, `statefulcontroller.py`) | `state`, step counters, `part_contexts`, `abort_queue`, `resume_queue` | init, configure, run, pause, resume, abort, reset, disable, halt | a busy state has somebody who ends it; steps add up; aborts neither get lost nor hit someone else; Fault only for an error |
| Run progress, breakpoints (`runnablecontroller.py`) | progress updates, steps per run | `update_completed_steps`, `get_steps_per_run` | runs end at the breakpoints; completed steps are really done |
| Hooks (`core/hook.py`, `*/hooks.py`) | hook queue, spawned hooks | prepare, start, wait, stop | a failing part stops the others; all are waited for |
| Context and futures (`core/context.py`, `core/future.py`) | `_q`, sentinel, requests, futures, subscriptions | put, post, subscribe, wait, stop, `ignore_stops_before_now` | a wait ends exactly when its futures are done, failed or stopped |
| Notifier and models (`core/notifier.py`, `core/models.py`) | tree of nodes, squashed changes | subscribe, unsubscribe, `changes_squashed`, set and remove endpoints | a client that applies what it is sent holds what the block does |
| Controller requests (`core/controller.py`) | lock, field registry, method logs | get, put, post, subscribe | one request at a time; no deadlock with a parent |
| Process (`core/process.py`) | controllers, spawned functions, state | add, start, publish, stop | what is published is what should be; stop halts and waits for everything |
| Designs (`managercontroller.py`, `childpart.py`) | saved structures, modified messages, files | save, load, layout, `modified` | the modified LED tells the truth; a design comes back as it was saved |
| Exports and endpoints (`managercontroller.py`, `childpart.py`) | export list, block fields, config subscriptions | `set_exports`, `update_block_endpoints`, `update_part_exportable` | exported fields follow their source, whichever come and go; no call waits for ever |
| Websocket client and proxies (`web`, `builtin`) | connection, request lookup, proxy models | connect, put, post, sync | a put ends; a proxy equals its remote block; Ready means connected |
| Websocket, HTTP, REST server (`web`) | subscriptions by connection, responses under way | requests, responses, back pressure | each client is told all in order; nobody waits for one who has gone |
| PandA client (`pandablocks`) | send queue, response queues, two threads | start, stop, send, recv | responses pair with requests over timeouts and lost connections |
| PandA manager (`pandablocks`) | poll loop, blocks, bits | reset, disable, poll | a Ready block is polled; a bit's pulse is not lost |
| areaDetector driver, labeller, writer (`ADCore`) | frame numbers, offsets and targets | configure, run, seek, abort | each frame in its place, none counted that is not there |
| DetectorChildPart, ScanRunnerPart (`scanning`) | run future; scan sets and outcomes | hooks that run a child scan; load, run, abort | the child ends where the parent does; counts add up |
| PVA server and client (`pva`) | PV, value, put paths | first connect, last disconnect, Delta | a PV shows its block, over reconnects |
| Channel Access (`ca`) | monitor, rate limit | caput with read back, monitor | the attribute follows the PV |
| PandA double buffer (`ADPandABlocks`) | two tables, active flags | fill, refill, split | rows are played once and in order |
| PMAC trajectory (`pmac`) | profile points | write profile, refill, abort | no gap in a trajectory |

`PROJECT.json` lists all of them, and the small parts that hold no state worth a model, with
the reason each one is left out; it lists the hazards at the line where they bite.

### How they interact

- A client's request arrives through comms at `Controller.handle_request`, which spawns a
  handler through the process; a method ends up in an operation of `RunnableController`.
- An operation *transitions* the state under the lock and runs *hooks*: each part gets a
  `Context` and runs in its own cothread. `prepare()` of a hook calls
  `ignore_stops_before_now` on the context, `stop()` of a hook calls `Context.stop`.
- Parts use the context to post to child blocks, and get notified through the children's
  `Notifier`, into the context's queue or by a callback in the child's cothread.
- A part reports infos to its controller through the registrar: run progress, modified
  fields, port changes. These come at any time and are handled in the part's cothread.
- `ManagerController` exports children's fields: a child's change reaches the parent's
  notifier while the child's lock is held.
- Server comms subscribe to blocks like any client; client comms apply the Deltas to the
  block of a `ProxyController`.

### Hard behaviours

- **Interleaving**: operations that overlap in the windows between "checked" and "changed",
  especially abort and disable against configure, pause and run.
- **Timeouts**: abort and pause wait 10 s for each of the answer and the hooks; a late hook
  carries on in its old operation. A response that comes after its request has timed out.
- **Partial failure**: one hook of many fails; a load that half worked; a poll that failed.
- **Stale state**: contexts, queues, messages, items and models that outlive what they were
  made for.
- **Nested waits**: a callback in a wait that waits itself, on the same queue.
- **Lock order**: a parent that holds its own lock and subscribes to a child that reports to it.
- **Lost connections** (web, pandablocks): requests sent to a connection that is gone.
- **Numbers** that several parts count, each with an offset of its own, over pauses and seeks.

## 2. Modules

| module | models | state |
|---|---|---|
| `RunnableStates` | `StateSet` and the three `create_*_transitions`, as the relation they build | none |
| `RunnableController` | the runnable state machine with every operation | `state`, threads (`pc`, `op`, `goal`, `loc`), hooks (`live`, `stopped`), own context (`contexts`, `selfStops`), `abortQueue`, `signalled`, `resumeQueues`, the step attributes |
| `RunnableControllerProofs` | theorems about it: types, who works on a busy block, who acts, awaits and waits, where the steps are | |
| `HookSet` | what `run_hooks` promises to who calls it | the result, whether something runs, was stopped, failed |
| `Hooks` | `run_hooks` of several parts, which implements it | each function, its pending STOP and its Spawned's item; the hook queue; where `wait_hooks` is |
| `Process` | a process, with the hooks of one controller (extends `Hooks`) | controllers, tasks that run and that are listed, where start, stop and the adders are |
| `ProcessProofs` | theorems about it and about `Hooks`, and that `Hooks` implements `HookSet` | |
| `Context` | a context with its queue and futures | `queue`, `sentinel`, `future`, `requests`, `stack` of waits |
| `ContextProofs` | theorems about it | |
| `Notifier` | a block of fields of values, the tree of nodes and its clients | `heap`, `block`, `wired`, `count`, `changes`, `nodes`, `request`, `view` |
| `NotifierProofs` | theorems about it | |
| `Designs` | save, load, layout, exports and the modified LED | `value`, `saved`, `messages`, `reported`, `clean`, `files`, `job`, `locked`, `blocked` |
| `DesignsProofs` | theorems about it | |
| `Exports` | a child, its part and the manager's exports, with both locks | the child's fields and subscriptions, `holder` and `line` of the locks, what each cothread has to do yet, the part's and the manager's tables |
| `BlockMessages` | what a block and its subscribers tell each other | none |
| `BlockServer` | what a server of a block promises | connections with what is under way, the block, subscriptions |
| `WebsocketHandler` | the websocket server, which implements it | handlers, outbox, back pressure, cothreads that are kept waiting |
| `WebsocketHandlerProofs` | theorems about it, and that it implements `BlockServer` | |
| `WebsocketClient` | the client comms and a proxy, over `BlockServer` | waits and items of `_connected_queue`, recv loops, calls between the two threads, request lookup, puts, the proxy's block |
| `WebsocketClientProofs` | theorems about it | |
| `PandAClient` | the client's two threads and its PandA | send and response queues, wire, lines, who waits for what, the PandA's fields |
| `PandAManager` | the poll loop, reset, disable, blocks and bits over it | state, where reset, disable and the poll are, bits as reported, deferred and shown |
| `PandAProofs` | theorems about both | |
| `Acquisition` | runs and breakpoints with a driver, a labeller and a writer | the controller's steps, each part's counters, offsets and targets, frames under way, the file |
| `MC*` | instances for TLC | |

Two pairs are refinements: `Hooks` implements `HookSet` (`OneHook`), and `WebsocketHandler`
implements `BlockServer` (`ServesBlock`). Each abstract module is what another model is built
on: `RunnableController` gives its sets of hooks the outcomes of `HookSet`, and
`WebsocketClient` is checked against `BlockServer` itself.

Some properties hold only within a *scope*, which a BOOLEAN constant of the module names: what
happens outside of it is in section 4. The model has the behaviours of both sides.

### RunnableController

A *thread* is the cothread that handles one request. `Call*` actions are the request up to its
first blocking point; the other actions are what a thread does after one. The phases of `pc` are
the blocking points: one for each set of hooks, `ClearContexts` (configure has not made its
contexts yet), `AwaitAbort` (on `abort_queue`), `AwaitResume` (on `resume_queue`) and `Settle`
(before the last `abortable_transition`). A set of hooks has the outcomes of `HookSet`: success,
a failure (bounded by `MaxFaults`), `AbortedError` once stopped, `AbortedError` by itself
(`ChildAborts`; `unasked` remembers it), or nothing within the 10 s (`SlowHooks`).

What is abstracted: the parts, their infos and the generator's content. A scan is its size,
its steps per run and its breakpoints, related as `get_steps_per_run` relates them (`ScanRecords`;
`Acquisition` has how these are computed). `Progress`
raises `completed` to any of the configured steps, as parts may report, in each phase in which
their hooks may serve an update of a run: `update_completed_steps` asks for neither state nor phase,
and the updates behind a STOP are still in the queue in the seek after it (`ReportPhases`).

### Hooks and Process

`StartHooks` prepares and spawns one function for each hooked part. A function returns, fails,
meets the STOP of its context or raises AbortedError by itself; `GetResult` and `GetError` are
turns of `wait_hooks` on the hook queue, `CollectNext` and `CollectTimesOut` its waits for the
others after an error. A Spawned's queue gets one item, so who waits second for the same Spawned
waits in vain: `token` is that item.

`Process` adds what `spawn` lists: requests, start, stop and publish hooks, a comms' loop and the
hooks' functions. The clearing of the list after so many is in `Spawn`; `same` and `missed` say
what of it `stop()` sees while it walks over the list that it had. The tree in which controllers
are published is abstracted to the set.

### Context

`Dispatch`, `Unsubscribe`, `Wait` and `Sleep` are calls of the owner; `Stop` and
`IgnoreStopsBeforeNow` come from other cothreads; `Answer`, `SendUpdate` and
`AnswerUnsubscribe` are the controllers. `Service*` is one turn of `_service_futures`. `stack`
holds the nested calls: a callback of a watch may start another wait on the same queue. Only
calls can answer `Error`: subscriptions fail only for a path that does not exist, and
unsubscriptions of a subscription that is there succeed. Sentinels are named by the count of
calls that made them, since the code compares them by identity.

### Notifier

A block with fields that hold values: three levels are enough for every case of
`NotifierNode` (itself, a child, a descendant). Models are objects on a `heap`, as what is
replaced may be set again by whoever still holds it; `wired` is the object's notifier path.
`Exit` at the outermost level sends the squashed changes down the tree; clients apply Updates
and Deltas into `view`. Callbacks do not yield here. One in the repository does: every tenth
response of a websocket handler. What that leads to is in `WebsocketHandler` (and in section 4).

### Designs

Children change at any time; a report is delivered at once or, while the controller's lock is
held over `update_block_endpoints`, waits in `blocked`. A save runs one hook per part
(`SavePart`); a load starts the hooks (`LoadPart`) and puts the attributes that differ one at a
time (`LoadAttr`), as a put yields. `MarkClean` writes the file and forgets the reports.
A put of layout or exports is let in by `AskPut`, when the block is Ready, and made by `SetLayout` or
`SetExports`, which take the lock in whatever state the block is by then, or comes to nothing; so
it may be made in the midst of a save or load. `mixed` remembers that, and that a save or load failed:
the code promises nothing for the block after either, until the next one is done.

### Exports

A cothread runs until it waits: for the manager's lock (`line`), for the child to serve a
request (`requests`, while `holder` keeps the child's lock), or for the function of a method.
What the child's notifier calls back is `todo` of the cothread that changed the child: the part's
report, the exported field, the part's comparison. The child's fields come and go; an export is
told apart by the `generation` of `update_block_endpoints` that made it.

### Websocket client and server

`toTornado` and `toCothread` are the two queues of calls between the threads; a connection
has requests and responses under way, and may be refused or lost with what is under way. A
block is its fields, each with the number of its last change, so a change that is lost, doubled
or out of order shows. `stale`, `unwritten` and `refused` remember the three cases in which the
code gives no promise (section 4): no property says anything once a wait was cut short (`stale`),
and a put need not end in any of the three. In the handler `count`, `acks` and `blocked` are the wait
after every `Batch` responses, the code's ten.

### PandA

Requests are numbers in queues; the PandA answers in order, also to those whose sender has given
up. One fault is a connection refused or lost, a malformed line or a late answer. The manager's
`reset()` and `disable()` are sequences of steps with the client's waits between them; the poll
asks for `*CHANGES?`, fetches the tables that changed and tells the blocks. A bit that is
reported with the value that it has is shown to toggle and set back by the next poll
(`deferred`).

### Acquisition

`StepsPerRun` is `get_steps_per_run` on dimensions, axes and breakpoints; `Boundaries`, which it
is checked against, is defined from what breakpoints mean and not from the algorithm. The driver
numbers frames from its own counter, the labeller gives each number a place, the writer counts
what is in the file; each has an offset and a number to wait for, which configure, run, seek and
abort change as the parts do. `Expose`, `Label` and `Write` move frames, `Report` is a progress
report in a run, of which the controller takes the least. What the writer was told of and has not
served when a run is stopped stays queued (`updates`), and `WriterSeek` may report it with the old offset,
since setting `arrayCounter` serves the queue. `overcounted` is a history variable: the steps
that such a report counted and that have not been taken since.

## 3. Runs

State counts are those of distinct states TLC finds. Every property has a mutant in
`PROJECT.json`: a plausible bug in one mapped definition for which TLC finds it violated.

| run | states | properties |
|---|---|---|
| `scan` | 83 010 | `StepsAccountedFor`, `AnswersFindTheirRun`, `OutcomeIsTrue`, `BusyEnds`, `OperationsReturn`: over pauses, seeks, resumes, an abort and a second scan |
| `everything` | 1 506 299 | `TypeOK`, `BusyHasWorker`, `NoRunLeftBehind`, `NoLeftoverStop`: a call of each of the eleven operations, with slow hooks, a failure or an AbortedError of a part, and every overlap |
| `hooks` | 45 814 | `NobodyLeftBehind`, `AbortsAreOurs`, `InterruptEnds`, `OneHook` |
| `process` | 288 267 | `StopIsTrue`, `PublishedIsRight`, `StopEnds` |
| `waits` | 741 402 | `StopsObeyed`, `ReturnsAreRight`, `NothingDoneIsAwaited`, `WaitsEnd` |
| `notifier` | 525 432 | `ClientsInStep`, `TreeFits` |
| `designs` | 2 281 488 | `CleanIsDesign`, `ReportsCurrent` |
| `exports` | 62 230 | `ExportsInStep`, `PartInStep`, `EveryCallEnds` |
| `websocket` | 467 784 | `ReadyIsConnected`, `ProxyInStep`, `PutsEnd` |
| `websocket_server` | 116 496 | `DeadHandlesLeave`, `NobodyIsKept`, `ServesBlock` |
| `panda` | 601 528 | `ResponsesMatch`, `PollFollowsState`, `BitsInStep`, `DisableReturns` |
| `acquisition` | 995 105 | `NextBoundary`, `FileIsRight`, `RunsEnd` |

What each property says is in the comment before it, in its module.

### Bounds

- `scan`: three threads, two calls of configure, run, pause and resume, enough to configure again
  over what the first scan left and to seek twice; three steps in runs of 2 and 1, so that a
  run's end, a seek within and across runs, and the scan's end are different steps. No faults:
  `everything` has them.
- `everything`: two threads, as what goes wrong involves the operation that works and the one
  that interrupts it; a thread is reused after it returns. One of each call, one fault: from
  Fault only a reset leads on. `BusyHasWorker` is proved for any number, and so, within the
  scope of section 5, are `AnswersFindTheirRun`, `OutcomeIsTrue`, `NoRunLeftBehind` and
  `NoLeftoverStop`.
- `hooks`: three parts (one that fails, one before and one after it in the order in which they
  are collected), two sets so that something can be left over, two stops and two failures.
- `process`: the list is cleared after four spawns instead of a thousand, so that it happens at
  every point of start, add and stop; one request adds a block and the other a proxy.
- `waits`: `MaxInterruptions = 2` puts a STOP before and after a sentinel, or between two;
  `MaxFutures = 2` is the smallest list from which one element can be skipped; `MaxNesting = 2`.
- `notifier`: two fields, a value in each, three models (one to replace another and one that
  was removed before), two subscribers, three changes in a squash: set, remove and set again.
- `designs`: two parts with one attribute of two values, one design, two exports tables, any layout.
  `MaxBlocked = 2` lets two reports wait for the lock and get it in order; `MaxAsked = 1` puts one
  put of layout or exports at every point of a save or load. Two designs make the run too long:
  with one part (`Parts <- OnePart`, `Names <- TwoNames`) and two puts it passes too, with 609 582
  states, and the theorem is for any designs.
- `exports`: three requests, any of put, post, change of fields and new exports, so that one can
  come between the steps of two others; two attributes, one of which comes and goes, one method.
- `websocket`: two connections, so that something can be left over from the first; one loss, one
  refusal, two changes, a put and a proxy. `websocket_server`: two websockets, two requests and
  changes, `Batch = 2`: the second response is the one that waits, and a second wait can begin.
- `panda`: a bit and a table, two changes (there and back is a pulse), one fault, seven requests
  before the last poll, which covers a reset, a poll, a disable and another reset.
- `acquisition`: two rows that are a run each, a row with a breakpoint, and a point that is repeated
  three times with a breakpoint between and a software trigger; two calls of configure and of pause,
  three in all, and one frame on its way in each place.

### Symmetry

Used in `everything`, `notifier` and `designs`, which check invariants only: threads, fields,
models, subscribers, parts and values are interchangeable there, no definition names one.

### Deadlock

`CHECK_DEADLOCK FALSE` everywhere: what clients do is bounded, and when it is used up an idle
block has nothing to do. That nothing stops halfway is what the liveness properties are for:
`BusyEnds`, `OperationsReturn`, `InterruptEnds`, `StopEnds`, `WaitsEnd`, `EveryCallEnds`,
`PutsEnd`, `NobodyIsKept`, `DisableReturns` and `RunsEnd`.

### Fairness

What cothreads and threads do by themselves is fair; what clients, users and devices do is not.

- `RunnableController`: weak fairness of `Step(t)` for each thread, as cothread's scheduler is
  a queue; hooks end. Nobody has to resume a paused scan.
- `Hooks`: weak fairness of `wait_hooks` and of each function whose context has a STOP: it is woken.
  One that is not stopped may run as long as it likes. `Process` likewise.
- `Context`: weak fairness of servicing the queue and of the controllers' answers and first
  updates, and strong fairness of `CallbackReturns`: it is enabled again and again while the
  callback's nested waits begin and end, and a callback that never returned would be the client's
  fault.
- `Exports`: weak fairness of all that is not a new request. `WebsocketHandler`: of the server's
  threads. `WebsocketClient`: of both threads and the server, a connection that is not refused
  being made.
- `PandAManager`: weak fairness of the two threads, of the PandA's answers, the poll loop, the steps
  of `disable()` and of timeouts, each by itself.
- `Acquisition`: weak fairness of hooks and of the frames on their way.

## 4. Where the code does not keep what is expected of it

Each of these was met while modelling. Those with a constant are found by TLC when the constant
is set to TRUE in the run's configuration, or the definition named is checked there; they are
kept out of the runs so that these say what does hold.

**Against a comment or a document**

1. `disable()` while `run()` has its hooks on, with no abort or pause before it, fails the
   assertion in `run()`'s handler (`runnablecontroller.py:542`): `abort_queue` is None. The block
   goes to Fault; the docstring of `run()` says it "will return in Disabled state" (lines
   525-526). `RunObeysDisable` states that and is violated with two threads and one call each of
   init, configure, run and disable.
2. A part that raises `AbortedError` of its own accord, as one whose child block is aborted
   directly does, makes `configure()` leave without a transition (lines 453-456): the block stays
   in Configuring, nobody working on it. The docstring says it will return in Fault (444-445).
   `BusyHasWorker` is violated without its `~unasked`.
3. After a callback that waits itself, `_service_futures` removes concluded futures from the list
   it iterates over (`core/context.py:402-404`): the second of two adjacent ones stays, and the
   wait for it never ends. The comment just above says that this is there so as not to hang for
   ever. `NothingDoneIsAwaited` with `NestInLists`.
4. A save or load replaces what a part compares with and leaves its `modified_messages`
   (`childpart.py:234`, `256`): an old message comes back with the next report, and `modified` is
   on with nothing modified, against `docs/tutorials/motion.rst:144-145`. `ModifiedIsTrue` in
   `designs`.

**Windows in which operations must not overlap**

| constant | when TRUE | what then fails |
|---|---|---|
| `OverlapConfigure` | calls come while configure() is let in but has not changed the state or made its contexts | an abort there ends in Fault instead of Aborted (`FaultOnlyOnError`) |
| `OverlapPause` | abort() comes while pause() waits for run() to answer | pause() forgets the STOP with its own and ends in Fault |
| `SlowHooks` | a hook outlasts the 10 s | the operation that was given up on comes back later: with a second configure it breaks what `scan` checks, with a second pause `NoLeftoverStop` |
| `SeekAnywhere` | pause(n) with n outside the current run while run() is active | run() returns for the state it read when it began, so `StepsAccountedFor` fails; the comment at `runnablecontroller.py:689` says the seek is for within the run |
| `ChangesInHooks` (`Designs`) | a child changes between its own hook and `_mark_clean` | its report is thrown away with the others, and the LED is off for a modified block (`managercontroller.py:561`) |
| `OverlapAdds` (`Process`) | controllers are added while others are published | who added a proxy publishes before the proxy has said that it is unpublished, or is overtaken with an older list (`process.py:232`) |
| `LateClears` (`Process`) | the list of spawned functions is cleared while stop() walks over it | stop() returns while a request runs (`process.py:212`) |
| two parts with `StopInHooks` (`Process`) | stop() while a controller runs hooks | `wait_hooks` and `stop()` wait for one Spawned, whose one item the first takes; the other times out although the function has ended (`concurrency.py:57`), and the process stays STOPPING |
| `OverlapCalls` (`PandAManager`) | reset() or disable() before the one before it has ended | a Disabled block that is polled or connected, a Ready one that is not (`pandamanagercontroller.py:108`) |
| `ResetFaulty` (`PandAManager`) | reset() in Fault with no disable() before it | `_poll_spawned` of the loop that died is still set, no new one is started, and the block is Ready and not polled (`pandamanagercontroller.py:105`) |
| `LateFrames` (`Acquisition`) | frames are on their way when a pause stops the labeller | a step that was counted as completed is not in the file (`runnablecontroller.py:598`) |

**Late reports and late puts**

- `HDFWriterPart.on_seek` does not unsubscribe, as the driver and the detector child do, and setting
  `arrayCounter` (`hdfwriterpart.py:627`) serves the updates behind the STOP, which are reported with the
  old offset. `do_pause` has set `completed_steps` before (`runnablecontroller.py:716`), and the report
  raises it: pause(1) in a run of two steps may end in a Paused block with both completed, one
  of them still to be taken. `StepsAccountedFor` and `NextBoundary` say what holds nevertheless: the block is
  configured up to the end of a run and the next run begins where the seek went, and what is counted
  beyond that has been counted by such a report. `RestIsWritten` in `acquisition` is violated without its
  exception for `overcounted`. As pause() without an argument means "here", a further one leaves these
  steps out: with one call of configure() and three of pause() TLC finds a Finished scan without a step that
  nobody meant to leave out; the property then counts it as `skipped`.
- A put of layout or exports is let in when the block is Ready (`controller.py:195-200`) and made later:
  set_layout waits for the LayoutHooks first (`managercontroller.py:163-166`). A save that starts in
  between writes the table as it was (426), and `_mark_clean` takes the one that there is by then for saved
  (554-555): the LED is off and the file differs. `CleanIsDesign` in `designs` is violated without
  its `~mixed`, with `MaxFaults = 0`.

A call of disable() has a similar effect as slow hooks, as it does not wait for the hooks it
stops: after reset() and another configure() the transition of the configure() that was disabled
makes the block Armed in the middle of the new one. So `scan` makes no such call.

**Exports**

- With `ExportMethods`, a child's post that ends with `update_method_logs` while its lock is held
  waits for the manager's lock, whose holder waits for the child's to subscribe: nobody goes on
  (`controller.py:265`, `managercontroller.py:391`).
- With `FieldsReturn`, a field that has gone and comes back is not subscribed to: its old entry
  is still in `config_subscriptions` (`childpart.py:294`).
- With `OverlapChanges`, two changes of the fields are reported in the wrong order, as each waits
  for its own subscriptions before it reports (`childpart.py:331`).
- `NobodyFails` does not hold: a Delta that takes an exported field away cannot be applied to the
  exported model, and an exported field that has gone cannot be subscribed to
  (`managercontroller.py:380-384`, `core/models.py:131-141`). The properties are about the time
  that nobody has failed.

**Connections**

- With `FieldsChange`, a field that comes or goes in a block that a proxy follows is a Delta with a
  path of one element, of which the second is read (`websocketclientcomms.py:198-204`): the proxy
  stays behind.
- A lost connection leaves an item in `_connected_queue`, so that the next reset() reports Ready
  before it is connected (`stale`, `websocketclientcomms.py:124`), and a late report of one connection
  may take the requests of the next for lost; a put for which there is no
  connection waits for ever (`unwritten`), as does one whose lost connection is reported in a state
  that cannot go to Fault (`refused`).
- With two subscribers to a block (`OneSubscriber = FALSE`), a cothread that waits after its tenth
  response has others to tell yet, and a later change overtakes it (`websocketserverpart.py:127-134`,
  `core/notifier.py:119`).
- A failure halfway in `_make_child_controllers` leaves `_bit_outs` empty for ever, as the next
  reset finds the children there: the properties on bits are about blocks that have them.

**Seen in code that is not modelled**

- `scanrunnerpart.py:264`: abort() ends the current scan only, and run() goes on to the next;
  `loadFile` in a run rebinds `scan_sets` while run() goes over the old dictionary.
- `doublebuffer.py:65`: a row with a multiple of 4096 repeats gets one more of 0.
- `pvaservercomms.py:257`: a Delta between the last disconnect and the Unsubscribe.
- `hdfwriterpart.py`: the future for the first array is not made again on a seek.

## 5. Proofs

Checked by TLAPS for every value of the constants: any threads, scans, parts, designs, bits, any
number of calls and faults. Each theorem comes from an inductive invariant, which was first given
to TLC as an invariant of the component's run; the proof that a step keeps it has one lemma for
each action, or for each kind of step where many actions do the same. Where a theorem needs a scope,
its hypotheses are the scope constants being FALSE, and section 4 says what happens otherwise.

### RunnableController: a busy block has a worker

`RunnableControllerProofs`, with no scope. It rests on no
assumption about the constants: none of the named ASSUMEs of `RunnableController` is used, only
the types that are proved first.

- `ControlTyped`: `Spec => []ControlTypes`. Its substance is that each transition ends in a state of
  the state set.
- `WorkInvariant`: `Spec => []WorkInv`, the inductive invariant, a conjunction of
  - `ControlTypes`;
  - `NoStaleStop`: no STOP pends on the controller's own context in a state in which a scan is
    armed, running, paused or finished;
  - `OpsFit`: a thread in the hooks of a stateful function means to end in Ready or Disabled,
    one that validates executes configure, one in the phases of a run executes run;
  - `Attended` (while `~unasked`): a busy state has a *good worker*, that is a thread in the
    right operation and phase that will not be refused, by a pending STOP, the transition that
    ends it.
- `StopsAreGone`: `Spec => []NoStaleStop`.
- `BusyBlocksHaveWorkers`: `Spec => []BusyHasWorker`.

`BusyHasWorker` is not inductive: a worker at its last transition may be refused it because of a
STOP, and drops out. So the invariant has to say that the worker is not one that a STOP will
hit (it forgets STOPs later, or there are none), and then needs to know where STOPs can be,
which is `NoStaleStop`. The proof that a step preserves it has one lemma for each of configure,
run, abort and pause, the ends of operations, disable and requests; each uses some of the
lemmas on how the worker can change: `SameState`, `NewWorker`, `NotBusy`, and those on raising
and dropping out. `Stays` says that what a part has let out is never taken back, so that a step
after which `~unasked` holds began in a state where it held.

`RunnableStates` writes the state sets as one relation, without the dictionary of sets that
`set_allowed` fills: the lemmas on transitions expand it once.

### RunnableController: one acts, one awaits, one waits

The second part of `RunnableControllerProofs`, in the scope `SlowHooks`, `OverlapConfigure`, `OverlapPause` = FALSE
(`Scope`), while the block is `Undisturbed`: no part has failed and nobody has called disable() or
halt(). `SeekAnywhere` and the breakpoints are free. It uses `ThreadsAssumption` (None is no
thread) and `BoundsAssumption`.

The inductive invariant is `RolesFit`, that is `Undisturbed => Roles`, with `Roles` made of

- `OneActs`, `ActorsFit`, `SomebodyActs`: at most one thread is in the hooks or at the last
  transition of an operation, it is in an operation that fits the state, and a state that needs one
  has one;
- `AwaitersFit`: at most one abort() or pause() waits for its answer, and it is the one whose queue
  is `abort_queue`. If it has not been answered, the thread that acts has its STOP or will meet it;
- `WaitersFit`, `ReadersFit`, `QueueIsClear`: at most one run() waits to be resumed, on the queue in
  use, which is empty but for the item that lets this run() go on;
- `StopsFit`, `ContextsFit`: STOPs pend on the own context only while somebody is awaited, and a scan
  that is there has its contexts.

None is inductive without the others: that the queue is clear needs that only one run() reads it,
which needs that a second run() can only be called when the first has gone, which needs that the
one that was stopped was the one that acted. `GoesOn`, `MovesOn`, `Rests`, `Begins` and
`Interrupts` are the lemmas on a thread that goes on in its operation, changes the state with it,
leaves the block at rest, begins an operation or interrupts one.

`RolesAreKept` is that invariant; `AnswersFindRuns`, `OutcomesAreTrue`, `NoRunIsLeft` and
`NoStopIsLeft` are the properties of the runs that follow.

### RunnableController: the steps add up

The third part of it, in the scope of the roles and with `SeekAnywhere` = FALSE: a seek while a
run() is active stays in that run, as the comment at `runnablecontroller.py:689` has it. It uses
`ScansAssumption`: without breakpoints the size of a scan is a multiple of the steps of a run; with
them they are the running sums of the steps of the runs, and the size is one of them.

`RunOf` says which steps the run with a given `breakpoint_index` does. The lemmas on it are `FirstRun`
(what configure() sets), `NextRun` (what run() sets when it is done), `SameRun` (a step is in one
run), `SoughtRun` (what do_pause computes, with the modulo in it, is the end of the run that the
step is in) and `RunsEndAtBoundaries`. The inductive invariant `Steps` says of each state at rest
what the counters are, and of each thread, by its phase, what it has set and will set:

- `AtRest`: an armed scan has a run with steps to do, a paused one a run which it is in or, by the
  count of the reports that came after the seek, at the end of; a finished one has none;
- `ConfigureFits`, `PostRunFits`, `PauseFits`: what the locals of the thread that works on the block
  have to do with the counters while some of these are set and others are not yet;
- the state that run() means to end in, which it decides when it is called, is the one it would
  decide on now (`RunGoal`), also when it waits to be resumed. This needs that a pause() that is to
  end in Paused does not move `configured`, which is `SameRun` on the step it goes to.

Who may change the counters under whom is `Roles`. `Progress` may come in any of `ReportPhases`, those of a
seek among them, where it is not held to what the seek has set (`ProgressKeepsSteps`). `StepsAddUp` is
`StepsAccountedFor`.

`TypesAreKept` is `TypeOK` in the same scope. The control part has none (`ControlTyped`). The data
part needs it: each step that is computed is looked up in the scan in force, and that there is a run to
look up is what `Steps` says. `Steps` is silent about a scan that is being aborted, so `DataInv` adds
that a pause() whose hooks still run then has a step of the scan to go to (`SeekIsLeft`). With a
disable() between, a run() that was disabled in its last hooks may set `configured` of the scan that was
configured after it, and the run() of that one look up a run behind its last: an IndexError in the
code, which the model has no step for and which no instance here reaches.

### Hooks

The first part of `ProcessProofs`, with no scope, from `OrderAssumption` (the order in which parts are collected is a
permutation of them) and `BoundsAssumption`. `HooksInvariant` says where STOPs pend and what
`wait_hooks` knows: until it gets an error each function has ended well or has yet to be got; after it
nothing runs before the function that it is collecting, which runs or has left its item. From it `NobodyIsLeftBehind` and `NoForeignAborts`.
`HooksImplementContract` is the refinement: `Spec => OneHook`, each action of `Hooks` being a step of
`HookSet` under the mapping or a stutter. It needs the invariant: a result that `wait_hooks` reports
is allowed by the contract only if no function runs any more.

### Process

The rest of `ProcessProofs`, from `ProcessAssumption` (controllers and adders are finite sets, Host and Comms are
there from the beginning), `TasksAssumption` (a part's function is none of the other tasks) and
`OrderAssumption`. `ProcessTypes` has no scope. The others need `OverlapAdds` = FALSE: one at a time
adds, publishes or stops.

- `StopIsComplete`, which needs `LateClears` = FALSE: `StopWaitsForAll` and `AllAreHalted`. Its
  invariant `StopInv` says that everything that runs is listed (`Listed`), that nothing runs in a
  stopped process, which also keeps an add_controllers() from going on in one, as it belongs to a
  request that is listed, and that stop() waits only when all controllers have met their stop hook
  (`Halting`). `KeepsReady`, or a `stop` that halts fewer than all, breaks one of these.
- `StopTellsTheTruth` is `StopIsTrue`, with the timeouts: with one hooked part (`OnlyOnePart`) the
  error that `wait_hooks()` gets from the queue is of the function that has ended, so that there is
  nothing to collect, and the item stays for stop() (`ItemIsLeft`). No new hooks can reset it, since
  stop() waits only after Host has been disabled (`HostIsThere`, `Halting`).
- `ThePublishedAreRight` is `PublishedIsRight`, also with `LateClears`. `PublishInv` says that a
  controller that has reported is known for it or awaited by an actor that has not yet read the
  reports (`ReportsAreKnown`), that the one who publishes has asked for everything (`OnePublishes`),
  and what is told in between (`ToldIsRight`). That start() and add_controllers() may skip the
  publishing when as many have reported as were started is `AllHaveReported`.

### Context

`ContextProofs` has the invariants in the order in which they build on one another:

- `AnswersInvariant`: an answer in the queue is one that is expected, and there is no second one to the
  same request; a subscription that has not ended is subscribed or being unsubscribed. With it
  `TypeCorrect`.
- `CallsInvariant`: what each wait of the `stack` still holds is what it was given without what has
  been concluded. From it `WaitsReturnWhatTheyAwaited`.
- `StopsInvariant`: the sentinels in the queue are in the order of the calls that made them, and STOPs
  are ignored as long as the last of them is there. From it `StopsAreObeyed`.
- `NobodyAwaitsTheDone` needs `NestInLists` = FALSE; the others have no scope.

They rest on `IdsAssumption` and `LimitsAssumption` (the bounds are numbers and an answer is no STOP).

### Notifier

`NotifierProofs`, with no scope, from `NamesAssumption` (the block, its fields and their values have names
of their own, and the values come in some order) and `NoneAssumption` (None is no value, no model and
no request). The inductive invariant `IInv` says that what is held anywhere differs from the
block only where a change that `changes_squashed` still keeps will tell:

- `Typed`: the nodes are there that have a child with a request, and no other (`TreeFits`), a request
  is on the nodes of its path only (`Wired`), and each pending change is of a path that is in the block
  (`ChangesOK`);
- `FieldTold`, `LeafTold`: of the pending changes that touch a field or a value, the last one carries what
  the block has there now. So a field that is replaced after its value was set is told with the
  replacement, whatever was squashed between;
- `NodesTold`: the data of a node is what the block has, but at the fields and values that a pending
  change is of;
- `ViewsTold`: the same of what a client has made of its response and its deltas.

That the invariant is kept has three parts. A step of the model keeps it if its change is
`Announced`: this is the lemma for `set_value`, for the replacement of a field by the block, and for
changes of a block that nobody has asked for. Subscribe and unsubscribe only change the tree and the
view of one client. The exit of `changes_squashed` tells everything at once: `NodeFollows` says
that a node that takes the pending changes in order is then the block's data, and `ClientFollows` that a
client that applies the delta made of them is too. Both are inductions on the
position in the list of changes, done by the smallest position at which they fail, since
`FoldLeft` and `FlattenSeq` are characterised by first-order lemmas of that form
(`Applied`, `Chained`, `OneEach`).

- `TreeFitsHolds` is `TreeFits`, `ClientsInStepHolds` is `ClientsInStep`: when nothing is pending, `FieldTold` and
  the others leave no difference.

### Designs

`DesignsProofs`, from `DesignsAssumption` (None is no design, value or message). `TypeCorrect` and
`ReportsAreCurrent` have no scope: the reports that wait for the lock are given to the controller in
order, so what it holds of a part is what the part said last or there is a later one that waits.
`CleanBlocksAreDesigns` needs `ChangesInHooks` = FALSE. Its invariant follows a job from its first
hook to `MarkClean`, through puts of layout and exports made in its midst: a part whose hook has
started is as the structure says but for what is still to be put, and layout and exports are unless
such a put was made (`JobInv`); after a job that none overtook, what differs from what was saved is in a report that is held or waits (`KeptInv`);
what was saved is what is in the file (`FileInv`); and the LED is on exactly when the controller holds
a modification (`LedInv`).

### PandA

`PandAProofs` proves `PandAManager` and the `PandAClient` in it.

- `ResponsesFindTheirRequest` and `TypeCorrect`, with no scope: while the receiver runs, the lines it
  has read, the responses on the wire and the response queues are in one order (`Aligned`), so that
  the next response is for the first queue.
- `NoPulseIsMissed`, with no scope: a block is told of a bit only when it changes. That is the half of
  `BitsInStep` about pulses.
- `PollsFollowTheState` and `BlocksShowThePandA` need `OverlapCalls` = FALSE and `ResetFaulty` =
  FALSE. `LoopInv` says in which step of reset, disable and the loop the threads, the connection and
  `_poll_spawned` are there; `NumbersFresh` and `TruthInv` that the answer to the last poll is of the
  PandA as it was when it was asked, with the changes since then to be told by the next one.

They rest on `PandAClientAssumption` and `PandAManagerAssumption`.

### WebsocketHandler

`WebsocketHandlerProofs`, from `HandlerAssumption` and `BlockAssumption`, for any websockets, requests,
changes and `Batch`.

- `HandlersAreTold`, with no scope, is the inductive invariant `IInv` with `OpenAsk`. Besides the types
  it says that a handler may end each of its subscriptions until it has asked for that (`Handled`), and
  `DeadAreTold`: when a websocket is closed, each of its subscriptions has had no change since, or its end
  is asked for (`Leaving`), or a Delta for it is still on its way (`Due`). `on_close()` ends nothing, so all
  depends on the `_on_response()` that finds the websocket gone. `OpenAsk`: a handler asks only for the
  ends of subscriptions whose client has gone.
- `DeadHandlesLeaveHolds` is `DeadHandlesLeave`: with nothing under way only the first of the three is left.
- `ServerServes` is the refinement `ServesBlock`, which needs `OneSubscriber` = TRUE. Under the mapping of
  `Contract`, what a client is still to be told is what is in tornado's callbacks, followed by what the
  cothread that is kept waiting has yet to tell. That this is a queue in the right order is the invariant
  `Served`: the subscriber is alone, nobody has asked for it twice, and a cothread that is kept waiting
  holds nothing but, at most, the answer to a put of its own. This is so because a change makes one
  Delta, to the one subscriber, and only the answer can come after it (`Leaves`, `TwoLeave`). Each action
  is then a step of `BlockServer`, or a stutter: taking an item and acknowledging it are stutters.

`BlockMessages` takes the part of a sequence with a function on its positions, and the order of the
Deltas of a change with CHOOSE, since the provers have no facts about `SelectSeq` and `SortSeq`.

### WebsocketClient

`WebsocketClientProofs`, from `BlockAssumption` and `ServerAssumption`, for any fields, connections, losses,
refusals, changes and puts. `ClientInvariant` is the inductive invariant `IInv`, of six parts:

- `Types`; and `AreMet`: connections are made in their order, nothing is on one before;
- `AsksOnce`: the proxy's request is in one place, the calls to tornado's thread, one connection or the
  server's subscriptions, and the proxy is told of nothing before the last; `IdsDiffer`: its id is that of no
  put, so that the answer to a put does not end it;
- `ConnInv`, while `~stale`: there is one recv_loop and it reads from `_conn`, a connection that
  is made or announced has somebody who waits for it, and reports of faults are of earlier
  connections (`OneConnection`). Who is Ready without a connection has a fault on its way (`ReadyFits`), and a
  connection whose start has ended is subscribed to the blocks, or will be, or is lost (`BlocksAsked`);
- `ProxyInv`, while `~stale` and with `FieldsChange` = FALSE: `SentFits` and `LookedUp` say that a fault is reported
  before the next connection is, and that a proxy asks over a connection that is there: so
  the report that empties `_request_lookup` never takes its request. `ProxyTold` speaks of the changes
  that wait to be applied, to be handled and to be read, in that order (`Places`, `Sooner`): of each field, they say
  later values the later they come, none before what the proxy has, and the last, or what the proxy has if there is
  none, is what the block has (`FieldTold`).

`ReadyIsConnectedHolds` needs the parts to `ConnInv`. Neither property is inductive: both speak only of
states in which all has been said. That a step keeps `FieldTold` has a lemma for each way the changes
move: none does and something else comes (`ToldKept`), one comes for a field that has changed
(`ToldAnew`), a message is read (`DeltaMoves`, `OtherMoves`), a call is run (`QueueMoves`) and the first one is applied
(`ToldApplied`). The moves keep the order, which `Come` states as a map from the places
after the step to those before it. A `HandleChange` that applies a change to a field by the path of the whole,
or a callback that is not put behind those that wait, breaks one of them.

## 6. What is not proved or not modelled

Only model-checked:

- in `RunnableController`, what `everything` shows outside of the scope of the theorems: `TypeOK`,
  `NoRunLeftBehind` and `NoLeftoverStop` when a part fails, hooks are slow and calls overlap, for two
  threads and one call of each operation;
- `TimeoutIsTrue` of `Process` for more parts than one, where it does not hold with `StopInHooks`;
- `ExportsInStep` and `PartInStep` of `Exports`: no inductive invariant has been written for these;
- `NextBoundary` and `FileIsRight` of `Acquisition`, which speak of sums over the dimensions of a generator:
  they would need inductions over data;
- liveness under fairness, everywhere, as it is beyond the prover;
- what `StepsPerRun` computes, which is a fold: it is checked on the generators of `acquisition`.

### Not modelled

The components with status `not_modelled` and `partly` in `PROJECT.json` say what is left out. The
reasons are of these kinds:

- two state machines of the size of `RunnableController` in one instance (DetectorChildPart);
- what is right depends on a library that the code does not show (p4p in `pva`, cothread's catools
  in `ca`), or on the time that hardware takes (double buffer, PMAC trajectory);
- a sequential loop with counters (ScanRunnerPart), settings computed from arguments, wrappers
  without state, and pure data conversion;
- floating point (trajectories, kinematics).

Of what is modelled partly, the pieces left out are data (metas and their validation, port graphs,
templates, exposure times, layouts of files), the HTTP and REST handlers, which are a get or a put
each, and the Odin and Xspress3 writers, which are variants of the HDF writer.

Small hazards in modelled components that the models abstract from: an unknown block leaves a
future and a request behind (`core/context.py:87`); a bad value is raised in whatever wait
services the queue (`core/context.py:458`); an id used twice by one client
(`core/notifier.py:64`); `on_hook` raising half way (`core/hook.py:179`); stalls of the writer
(`hdfwriterpart.py:661`).

## 7. Plan

All modules of the plan are there, and the proofs of `Hooks`, `Process`, `Context`, `Notifier`, `Designs`,
`PandAManager`, `WebsocketHandler`, `WebsocketClient` and of the roles, steps and types in `RunnableController`. What is left
are proofs, in this order:

1. `Exports`: `PartInStep`, then `ExportsInStep`.
