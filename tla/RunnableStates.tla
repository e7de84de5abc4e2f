---------------------------- MODULE RunnableStates ----------------------------
(***************************************************************************)
(* The state sets of the block state machines: core/stateset.py and its    *)
(* subclasses StatefulStates, ManagerStates (builtin/util.py) and          *)
(* RunnableStates (scanning/util.py).                                      *)
(*                                                                         *)
(* A state set is the relation its set_allowed calls build up: a set of    *)
(* pairs <<initial_state, target_state>>.  Subclasses add pairs before the *)
(* base class adds its error and disable transitions for every state named *)
(* so far, so those are computed from the finished block relation.         *)
(***************************************************************************)

\* One call set_allowed(s, t1, t2, ...), for each s of a set of states.
SetAllowed(initial, targets) == initial \X targets

\* StateSet.possible_states: every state named by a pair, at either end.
PossibleStates(allowed) == UNION {{p[1], p[2]} : p \in allowed}

\* StatefulStates.create_block_transitions
StatefulBlockTransitions == SetAllowed({"Resetting"}, {"Ready"})

\* ManagerStates.create_block_transitions
ManagerBlockTransitions ==
  StatefulBlockTransitions
    \cup SetAllowed({"Ready"}, {"Saving", "Loading"})
    \cup SetAllowed({"Saving", "Loading"}, {"Ready"})

\* normal_states: those abort() can be called in
NormalStates == {"Ready", "Configuring", "Armed", "Running", "PostRun",
                 "Paused", "Seeking", "Finished"}

\* RunnableStates.create_block_transitions
RunnableBlockTransitions ==
  ManagerBlockTransitions
    \cup SetAllowed({"Ready"}, {"Configuring"})
    \cup SetAllowed({"Configuring"}, {"Armed"})
    \cup SetAllowed({"Armed"}, {"Running", "Seeking", "Resetting"})
    \cup SetAllowed({"Running"}, {"PostRun", "Seeking"})
    \cup SetAllowed({"PostRun"}, {"Finished", "Armed", "Seeking"})
    \cup SetAllowed({"Finished"}, {"Seeking", "Resetting", "Configuring"})
    \cup SetAllowed({"Seeking"}, {"Armed", "Paused", "Finished"})
    \cup SetAllowed({"Paused"}, {"Seeking", "Running"})
    \cup SetAllowed(NormalStates, {"Aborting"})
    \cup SetAllowed({"Aborting"}, {"Aborted"})
    \cup SetAllowed({"Aborted"}, {"Resetting"})

\* StatefulStates.create_error_disable_transitions
WithErrorDisable(block) ==
  block
    \cup SetAllowed(PossibleStates(block), {"Fault", "Disabling"})
    \cup SetAllowed({"Fault"}, {"Resetting", "Disabling"})
    \cup SetAllowed({"Disabling"}, {"Fault", "Disabled"})
    \cup SetAllowed({"Disabled"}, {"Resetting"})

RunnableTransitions == WithErrorDisable(RunnableBlockTransitions)

\* StateSet.transition_allowed, for a RunnableController
TransitionAllowed(initial, target) == <<initial, target>> \in RunnableTransitions

States == PossibleStates(RunnableTransitions)

================================================================================
