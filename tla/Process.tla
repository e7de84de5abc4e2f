------------------------------- MODULE Process -------------------------------
(***************************************************************************)
(* core/process.py: a process starts its controllers, publishes them to    *)
(* its server comms, takes new ones while it runs, and stops.  Everything  *)
(* that runs is a task that Process.spawn() made and listed.  One of the   *)
(* controllers, Host, runs the hooks of module Hooks for a request.        *)
(***************************************************************************)
EXTENDS Hooks

CONSTANTS
  Controllers,
  Initial,        \* controllers there before start()
  Host,           \* the one whose request runs a set of hooks
  Comms,          \* the server comms, which have a publish hook
  Hidden,         \* controllers whose start reports UnpublishedInfo
  Adders,         \* requests that add controllers
  Adds,           \* the controllers that each of them adds
  ClearCount,     \* SPAWN_CLEAR_COUNT
  MaxStartFaults, \* bound: start hooks that fail
  OverlapAdds,    \* whether controllers are added while others are published
  LateClears,     \* whether the list is cleared while stop() walks over it
  StopInHooks     \* whether stop() may come while the hooks run

ASSUME ProcessAssumption ==
  /\ {Host, Comms} \subseteq Initial /\ Initial \subseteq Controllers
  /\ Hidden \subseteq Controllers
  /\ IsFiniteSet(Controllers) /\ IsFiniteSet(Adders)
  /\ Adders \cap {"main", "configure"} = {}
  /\ Adds \in [Adders -> (SUBSET Controllers) \ {{}}]
  /\ ClearCount \in Nat

VARIABLES
  state,        \* "Stopped", "Starting", "Started" or "Stopping"
  controllers,  \* the hosted controllers
  unpublished,  \* those known not to be published
  reported,     \* those whose start hook has reported UnpublishedInfo
  step,         \* where start(), stop() or an add_controllers() is
  mine,         \* the controllers whose start an actor waits for
  publishes,    \* publish hooks spawned and not run: by whom, with what list
  told,         \* the list that the comms have published
  alive,        \* tasks that run, other than the hooks' functions
  spawned,      \* _spawned: the tasks that are listed
  count,        \* _spawn_count
  same,         \* while stop() walks over the list: whether it is still the same
  missed,       \* tasks listed after that in a list that stop() does not see
  at,           \* the task that stop() is blocked on
  met,          \* controllers whose stop hook has run
  used          \* requests made, start hooks that failed, and whether what stop() has
                \* given up on was still running

processVars == <<state, controllers, unpublished, reported, step, mine,
                 publishes, told, alive, spawned, count, same, missed, at, met, used>>
vars == <<hookVars, processVars>>

Actors == {"main"} \cup Adders
Configure == <<"request", "configure">>
Steps == {"Idle", "Asked", "Starting", "Publishing", "Stopping", "Waiting", "Failed"}

OtherTasks ==
  {Configure} \cup ({"start", "stop"} \X Controllers) \cup ({"request"} \X Adders)
    \cup ({"publish"} \X Actors) \cup {<<"loop", Comms>>}

Tasks == Parts \cup OtherTasks
NoTask == <<"none", "none">>

ASSUME TasksAssumption == Parts \cap (OtherTasks \cup {NoTask}) = {}

Live(t) == IF t \in Parts THEN Running(t) ELSE t \in alive

ProcessTypeOK ==
  /\ state \in {"Stopped", "Starting", "Started", "Stopping"}
  /\ controllers \subseteq Controllers /\ unpublished \subseteq Controllers
  /\ reported \subseteq Hidden /\ met \subseteq Controllers
  /\ step \in [Actors -> Steps]
  /\ mine \in [Actors -> SUBSET Controllers]
  /\ publishes \in Seq([by : Actors, list : SUBSET Controllers])
  /\ told \subseteq Controllers
  /\ alive \subseteq OtherTasks
  /\ spawned \subseteq Tasks /\ missed \subseteq spawned
  /\ count \in 0 .. ClearCount
  /\ same \in BOOLEAN
  /\ at \in Tasks \cup {NoTask}

ProcessInit ==
  /\ Init
  /\ state = "Stopped"
  /\ controllers = Initial
  /\ unpublished = {} /\ reported = {} /\ told = {} /\ met = {} /\ alive = {}
  /\ step = [a \in Actors |-> "Idle"]
  /\ mine = [a \in Actors |-> {}]
  /\ publishes = << >>
  /\ spawned = {} /\ missed = {}
  /\ count = 0
  /\ same = TRUE
  /\ at = NoTask
  /\ used = [requests |-> {}, faults |-> 0, started |-> FALSE, outlasted |-> TRUE]

--------------------------------------------------------------------------------

\* The count of so many, which each clearing of the list sets to 0.
Counted(total) == total % (ClearCount + 1)

\* The ones that are ready() are kept.
KeepsReady(ts) == {t \in ts : ~Live(t)}

\* What a clearing leaves.
Cleared(ts) == {t \in ts : Live(t)}

\* spawn() of each task of a set.  After ClearCount of them, those that are
\* ready() are taken out, which makes a new list.
Spawn(ts) ==
  LET total == count + Cardinality(ts)
      full == total > ClearCount
  IN  /\ full /\ step["main"] = "Waiting" => LateClears
      /\ count' = Counted(total)
      /\ spawned' = ts \cup IF full THEN Cleared(spawned) ELSE spawned
      /\ same' = (same /\ ~(full /\ step["main"] = "Waiting"))
      /\ missed' = IF same' THEN {} ELSE (missed \cup ts) \cap spawned'

SpawnTasks(ts) == Spawn(ts) /\ alive' = alive \cup ts

\* The scope: one at a time adds, publishes or stops.  While the process starts
\* its controllers an init hook may add some, and start() waits for it.
Busy ==
  {a \in Adders : step[a] # "Idle"}
    \cup {a \in {"main"} : step[a] \in {"Publishing", "Stopping", "Waiting"}}

KeptApart == OverlapAdds \/ Cardinality(Busy') <= 1

\* A request comes in: handle_request() spawns its handler.
Request(r) ==
  /\ state # "Stopped"
  /\ <<"request", r>> \notin used.requests
  /\ used' = [used EXCEPT !.requests = @ \cup {<<"request", r>>}]
  /\ SpawnTasks({<<"request", r>>})

ArriveConfigure ==
  /\ Request("configure")
  /\ UNCHANGED <<hookVars, state, controllers, unpublished, reported, step, mine,
                 publishes, told, at, met>>

ArriveAdder(a) ==
  /\ Request(a)
  /\ step' = [step EXCEPT ![a] = "Asked"]
  /\ KeptApart
  /\ UNCHANGED <<hookVars, state, controllers, unpublished, reported, mine,
                 publishes, told, at, met>>

--------------------------------------------------------------------------------
(***************************************************************************)
(* start() and add_controllers().                                          *)
(***************************************************************************)
StartControllers(a, cs) ==
  /\ SpawnTasks({"start"} \X cs)
  /\ mine' = [mine EXCEPT ![a] = cs]
  /\ step' = [step EXCEPT ![a] = "Starting"]

Start ==
  /\ state = "Stopped"
  /\ ~used.started
  /\ used' = [used EXCEPT !.started = TRUE]
  /\ state' = "Starting"
  /\ StartControllers("main", controllers)
  /\ UNCHANGED <<hookVars, controllers, unpublished, reported, publishes, told, at, met>>

AddControllers(a) ==
  /\ step[a] = "Asked"
  /\ Adds[a] \cap controllers = {}
  /\ controllers' = controllers \cup Adds[a]
  /\ IF state = "Stopped"
       THEN /\ step' = [step EXCEPT ![a] = "Idle"]
            /\ UNCHANGED <<mine, alive, spawned, count, same, missed>>
       ELSE StartControllers(a, Adds[a])
  /\ UNCHANGED <<hookVars, state, unpublished, reported, publishes, told, at, met, used>>

\* init() of a controller: the comms spawn a loop, a proxy reports that it
\* is not to be published.
Started(c) ==
  /\ <<"start", c>> \in alive
  /\ \/ /\ used' = used
        /\ reported' = reported \cup ({c} \cap Hidden)
     \/ /\ used.faults < MaxStartFaults
        /\ used' = [used EXCEPT !.faults = @ + 1]
        /\ UNCHANGED reported
  /\ IF c = Comms /\ c \notin met
       THEN Spawn({<<"loop", c>>}) /\ alive' = (alive \ {<<"start", c>>}) \cup {<<"loop", c>>}
       ELSE alive' = alive \ {<<"start", c>>} /\ UNCHANGED <<spawned, count, same, missed>>
  /\ UNCHANGED <<hookVars, state, controllers, unpublished, step, mine, publishes, told, at, met>>

\* Everybody is published.
PublishesAll == controllers

\* Whom to publish: the tree of controllers without the unpublished ones.
ToPublish == controllers \ unpublished'

\* The hook is run on all controllers, and the comms have a function for it.
PublishControllers(a) ==
  /\ step' = [step EXCEPT ![a] = "Publishing"]
  /\ publishes' = Append(publishes, [by |-> a, list |-> ToPublish])
  /\ SpawnTasks({<<"publish", a>>})

\* What start() compares with is a view of all controllers, so it counts those
\* that were added meanwhile.
ListLength(a) == Cardinality(IF a = "main" THEN controllers ELSE mine[a])

ControllersStarted(a) ==
  LET new == reported \cap mine[a]
      published == ListLength(a) > Cardinality(new)
  IN  /\ step[a] = "Starting"
      /\ \A c \in mine[a] : <<"start", c>> \notin alive
      /\ unpublished' = unpublished \cup new
      /\ IF published /\ (a = "main" \/ state = "Started")
           THEN PublishControllers(a) /\ UNCHANGED state
           ELSE /\ step' = [step EXCEPT ![a] = "Idle"]
                /\ state' = IF a = "main" THEN "Started" ELSE state
                /\ UNCHANGED <<publishes, alive, spawned, count, same, missed>>
      /\ KeptApart
      /\ UNCHANGED <<hookVars, controllers, reported, mine, told, at, met, used>>

\* The publish hook of the comms, in the order of their spawning.
Publish ==
  /\ publishes # << >>
  /\ told' = Head(publishes).list
  /\ publishes' = Tail(publishes)
  /\ alive' = alive \ {<<"publish", Head(publishes).by>>}
  /\ UNCHANGED <<hookVars, state, controllers, unpublished, reported, step, mine,
                 spawned, count, same, missed, at, met, used>>

ControllersPublished(a) ==
  /\ step[a] = "Publishing"
  /\ <<"publish", a>> \notin alive
  /\ step' = [step EXCEPT ![a] = "Idle"]
  /\ state' = IF a = "main" THEN "Started" ELSE state
  /\ UNCHANGED <<hookVars, controllers, unpublished, reported, mine, publishes, told,
                 alive, spawned, count, same, missed, at, met, used>>

\* A request that has done what it was for ends.
RequestEnds ==
  /\ \/ \E a \in Adders :
          <<"request", a>> \in alive /\ step[a] = "Idle" /\ alive' = alive \ {<<"request", a>>}
     \/ /\ Configure \in alive
        /\ phase = "Idle" /\ (outcome # "none" \/ Host \in met)
        /\ alive' = alive \ {Configure}
  /\ UNCHANGED <<hookVars, state, controllers, unpublished, reported, step, mine,
                 publishes, told, spawned, count, same, missed, at, met, used>>

--------------------------------------------------------------------------------
(***************************************************************************)
(* The hooks of Host, run by its request.                                  *)
(***************************************************************************)
\* A controller that has met its stop hook is disabled and lets nothing in.
RunHooks ==
  /\ Configure \in alive
  /\ Host \notin met
  /\ StartHooks
  /\ Spawn(awaited')
  /\ UNCHANGED <<state, controllers, unpublished, reported, step, mine, publishes,
                 told, alive, at, met, used>>

HookStep ==
  /\ Interrupt \/ WaitHooks \/ \E p \in Parts : Function(p)
  /\ UNCHANGED processVars

--------------------------------------------------------------------------------
(***************************************************************************)
(* stop().                                                                 *)
(***************************************************************************)

\* The controllers on which the stop hook is run.
ToHalt == controllers

Stop ==
  /\ state = "Started"
  /\ StopInHooks \/ Configure \notin alive
  /\ state' = "Stopping"
  /\ step' = [step EXCEPT !["main"] = "Stopping"]
  /\ SpawnTasks({"stop"} \X ToHalt)
  /\ KeptApart
  /\ UNCHANGED <<hookVars, controllers, unpublished, reported, mine, publishes, told,
                 at, met, used>>

\* halt() of a controller.  That of Host disables it, which stops the contexts
\* of its parts and does not wait; that of the comms ends their loop.
Halted(c) ==
  /\ <<"stop", c>> \in alive
  /\ met' = met \cup {c}
  /\ alive' = alive \ {<<"stop", c>>, <<"loop", c>>}
  /\ IF c = Host THEN Interrupted /\ UNCHANGED spent ELSE UNCHANGED hookVars
  /\ UNCHANGED <<state, controllers, unpublished, reported, step, mine, publishes, told,
                 spawned, count, same, missed, at, used>>

\* stop() goes on over its list, after a task that it was blocked on, and blocks
\* on the next that is not ready().  At the end it forgets all there was.
WalkOn(unready) ==
  IF unready # {}
    THEN /\ at' \in unready
         /\ step' = [step EXCEPT !["main"] = "Waiting"]
         /\ UNCHANGED <<state, controllers, unpublished, spawned, same, missed>>
    ELSE /\ state' = "Stopped"
         /\ step' = [step EXCEPT !["main"] = "Idle"]
         /\ controllers' = {} /\ unpublished' = {}
         /\ spawned' = {} /\ missed' = {}
         /\ same' = TRUE
         /\ at' = NoTask

ControllersStopped ==
  /\ step["main"] = "Stopping"
  /\ alive \cap ({"stop"} \X Controllers) = {}
  /\ WalkOn({t \in spawned : Live(t)})
  /\ UNCHANGED <<hookVars, reported, mine, publishes, told, alive, count, met, used>>

\* The task that stop() is blocked on has ended and left its item.
TaskEnded ==
  /\ step["main"] = "Waiting"
  /\ ~Live(at)
  /\ at \in Parts => at \in token
  /\ token' = token \ {at}
  /\ WalkOn({t \in spawned \ missed : Live(t)})
  /\ UNCHANGED <<hook, pending, queue, awaited, phase, position, raised, outcome, asked,
                 stopped, failed, unasked, spent, reported, mine, publishes, told, alive, count,
                 met, used>>

\* Ten seconds without it: stop() raises, and the process stays as it is.
WaitTimesOut ==
  /\ step["main"] = "Waiting"
  /\ at \in Parts
  /\ MayOutlast(at)
  /\ step' = [step EXCEPT !["main"] = "Failed"]
  /\ used' = [used EXCEPT !.outlasted = Live(at)]
  /\ UNCHANGED <<hookVars, state, controllers, unpublished, reported, mine, publishes,
                 told, alive, spawned, count, same, missed, at, met>>

--------------------------------------------------------------------------------
\* What cothreads do by themselves, once it can be done.
Step ==
  \/ \E c \in Controllers : Started(c) \/ Halted(c)
  \/ \E a \in Actors : ControllersStarted(a) \/ ControllersPublished(a)
  \/ \E a \in Adders : AddControllers(a)
  \/ \E p \in pending : Function(p) /\ UNCHANGED processVars
  \/ WaitHooks /\ UNCHANGED processVars
  \/ RunHooks \/ RequestEnds \/ Publish
  \/ ControllersStopped \/ TaskEnded \/ WaitTimesOut

\* What clients and users do.
Call ==
  \/ Start \/ Stop \/ ArriveConfigure
  \/ \E a \in Adders : ArriveAdder(a)

ProcessNext == Call \/ Step \/ HookStep

ProcessSpec == ProcessInit /\ [][ProcessNext]_vars

\* Hooks that are not stopped may take as long as they like.
ProcessFairSpec == ProcessSpec /\ WF_vars(Step)

--------------------------------------------------------------------------------
AllStopped == state = "Stopped" /\ used.started

\* stop() 'waits for it to finish': when it returns, nothing runs that the
\* process has spawned, however the list of it was cleared.
StopWaitsForAll == AllStopped => \A t \in Tasks : ~Live(t)

\* Every controller that was started has been given the chance to clean up.
AllAreHalted == AllStopped => UNION {mine[a] : a \in Actors} \subseteq met

\* Whenever nobody adds or starts anything, the server comms serve all
\* controllers but those that have said that they should not be published.
PublishedIsRight ==
  state = "Started" /\ Busy = {} => told = controllers \ reported

\* stop() gives up only on a function that really has not ended, and never because
\* somebody else has taken the item that it left.
TimeoutIsTrue == used.outlasted

\* What stop() lets its caller believe is so, whatever was spawned, added and asked
\* for while it halted the controllers and waited.
StopIsTrue == ProcessTypeOK /\ StopWaitsForAll /\ AllAreHalted /\ TimeoutIsTrue

\* stop() ends, with the process stopped, or raises because a hook's function that
\* has been told to end takes longer than ten seconds for it.
StopEnds ==
  state = "Stopping" ~> state = "Stopped" \/ (step["main"] = "Failed" /\ at \in asked)

================================================================================
