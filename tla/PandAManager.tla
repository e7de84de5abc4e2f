----------------------------- MODULE PandAManager -----------------------------
(***************************************************************************)
(* pandablocks/controllers/pandamanagercontroller.py over PandAClient: the *)
(* poll loop and who starts and stops it, the blocks that are made at the  *)
(* first reset, and the bits, which are shown to toggle whenever they are  *)
(* reported.  Hooks of the parts are module Hooks.                         *)
(***************************************************************************)
EXTENDS PandAClient

CONSTANTS
  Users,        \* callers that put to a field of a block
  OverlapCalls, \* scope: a call is made before the one before it has ended
  ResetFaulty   \* scope: reset() is called in Fault, with no disable() before it

Manager == "manager"

ASSUME PandAManagerAssumption ==
  /\ Callers = Users \cup {Manager} /\ Manager \notin Users
  /\ OverlapCalls \in BOOLEAN /\ ResetFaulty \in BOOLEAN

VARIABLES
  state,        \* of the manager block
  resetting,    \* where reset() is, or "no"
  disabling,    \* where disable() is, or "no"
  loop,         \* _poll_spawned: "none", "runs" or "ended"
  stopping,     \* there is an item in _stop_queue
  poll,         \* where get_changes() and handle_changes() are, or "no"
  children,     \* _child_controllers is filled
  bitOuts,      \* _bit_outs
  deferred,     \* _bit_out_changes
  telling,      \* bits that the blocks are to be told of
  shown,        \* bits as the blocks show them
  missed        \* bits that a poll failed to tell the blocks of

bitVars == <<bitOuts, deferred, telling, shown, missed>>
callVars == <<state, resetting, disabling, loop, stopping, children>>
managerVars == <<callVars, poll, bitVars>>
vars == <<clientVars, pandaVars, managerVars>>

BitValues == UNION {[B -> BOOLEAN] : B \in SUBSET Bits}
NoBits == [b \in {} |-> FALSE]

\* The values of old, updated with those of new.
Updated(old, new) ==
  [b \in DOMAIN new \cup DOMAIN old |-> IF b \in DOMAIN new THEN new[b] ELSE old[b]]

TypeOK ==
  /\ ClientTypeOK
  /\ state \in {"Disabled", "Resetting", "Ready", "Disabling", "Fault"}
  /\ resetting \in {"no", "connect", "children", "blocks", "bits", "changes", "loop", "hooks"}
  /\ disabling \in {"no", "hooks", "loop", "client", "sender", "receiver", "done"}
  /\ loop \in {"none", "runs", "ended"}
  /\ poll \in {"no", "asked", "table", "tell"}
  /\ stopping \in BOOLEAN /\ children \in BOOLEAN
  /\ {bitOuts, deferred, telling} \subseteq BitValues
  /\ DOMAIN deferred \subseteq DOMAIN bitOuts
  /\ shown \in [Bits -> BOOLEAN] /\ missed \subseteq Bits

Init ==
  /\ ClientInit
  /\ state = "Disabled"
  /\ resetting = "no" /\ disabling = "no"
  /\ loop = "none" /\ stopping = FALSE
  /\ poll = "no" /\ children = FALSE
  /\ bitOuts = NoBits /\ deferred = NoBits /\ telling = NoBits
  /\ shown = [b \in Bits |-> FALSE]
  /\ missed = {}

\* go_to_error_state()
ErrorState(s) == IF s = "Disabled" THEN s ELSE "Fault"

--------------------------------------------------------------------------------
(***************************************************************************)
(* handle_changes().                                                       *)
(***************************************************************************)
Reported(report) == DOMAIN report \cap Bits

\* What was deferred is set back, before *CHANGES? is asked for.
SetBack ==
  /\ bitOuts' = Updated(bitOuts, deferred)
  /\ telling' = deferred
  /\ deferred' = NoBits

\* A bit that is reported is shown to change, unless it has just been set back: to
\* the value that is reported or, if it has that value, to the other one.
ShownBit(b, report) ==
  CASE b \notin DOMAIN bitOuts -> report[b]
    [] b \in DOMAIN telling -> telling[b]
    [] OTHER -> IF report[b] = bitOuts[b] THEN ~report[b] ELSE report[b]

NothingDeferred(report) == NoBits

\* A reported value that is not shown now is deferred to the next poll.
NewDeferred(report) ==
  [b \in {k \in Reported(report) \cap DOMAIN bitOuts : ShownBit(k, report) # report[k]} |->
     report[b]]

Handle(report) ==
  LET toShow == [b \in Reported(report) |-> ShownBit(b, report)] IN
    /\ bitOuts' = [b \in DOMAIN bitOuts |-> Updated(bitOuts, toShow)[b]]
    /\ deferred' = NewDeferred(report)
    /\ telling' = Updated(telling, toShow)
    /\ UNCHANGED <<shown, missed>>

\* The lines of *CHANGES? are handled while the tables that they name are asked
\* for; the blocks are told when the tables have come.
ChangesAnswered ==
  /\ poll = "asked"
  /\ \E e \in Answers(Manager) :
       /\ Handle(e.response.report)
       /\ IF DOMAIN e.response.report \cap Tables = {}
            THEN /\ poll' = "tell"
                 /\ waits' = [waits EXCEPT ![Manager] = 0]
                 /\ UNCHANGED <<sendQueue, nextId>>
            ELSE poll' = "table" /\ Ask(Manager, "table")
  /\ inbox' = Dropped(Manager)
  /\ UNCHANGED <<started, respQueues, sender, receiver, link, wire, lines, pandaVars, callVars>>

TableAnswered ==
  /\ poll = "table" /\ Answers(Manager) # {}
  /\ poll' = "tell"
  /\ waits' = [waits EXCEPT ![Manager] = 0]
  /\ inbox' = Dropped(Manager)
  /\ UNCHANGED <<started, sendQueue, respQueues, sender, receiver, link, wire, lines,
                 nextId, pandaVars, callVars, bitVars>>

\* The first poll is followed by handle_changes(()), for bits to toggle back.
TellBlocks ==
  /\ poll = "tell"
  /\ shown' = Updated(shown, telling)
  /\ missed' = missed \ DOMAIN telling
  /\ IF resetting = "changes" /\ deferred # NoBits
       THEN SetBack /\ UNCHANGED <<poll, resetting>>
       ELSE /\ telling' = NoBits
            /\ poll' = "no"
            /\ resetting' = IF resetting = "changes" THEN "loop" ELSE resetting
            /\ UNCHANGED <<bitOuts, deferred>>
  /\ UNCHANGED <<clientVars, pandaVars, state, disabling, loop, stopping, children>>

--------------------------------------------------------------------------------
(***************************************************************************)
(* _poll_loop().                                                           *)
(***************************************************************************)
Sleeping == loop = "runs" /\ poll = "no"

StartPoll ==
  /\ Sleeping /\ ~stopping
  /\ nextId <= MaxRequests
  /\ SetBack
  /\ Ask(Manager, "changes")
  /\ poll' = "asked"
  /\ UNCHANGED <<started, respQueues, sender, receiver, link, wire, lines, inbox,
                 pandaVars, callVars, shown, missed>>

LoopEnds ==
  /\ Sleeping /\ stopping
  /\ loop' = "ended" /\ stopping' = FALSE
  /\ UNCHANGED <<clientVars, pandaVars, state, resetting, disabling, children, poll, bitVars>>

\* A request of the manager times out: it fails the poll loop, or reset().
RequestTimesOut ==
  /\ GivesUp(Manager)
  /\ respQueues' = ForgottenQueues(Manager)
  /\ state' = ErrorState(state)
  /\ IF loop = "runs"
       THEN loop' = "ended" /\ UNCHANGED resetting
       ELSE resetting' = "no" /\ UNCHANGED loop
  /\ poll' = "no"
  /\ telling' = NoBits
  /\ missed' = missed \cup DOMAIN telling
  /\ UNCHANGED <<started, sendQueue, sender, receiver, link, wire, lines, inbox, nextId,
                 hardware, pending, changes, disabling, stopping, children, bitOuts, deferred, shown>>

--------------------------------------------------------------------------------
(***************************************************************************)
(* reset(), and init(), which does the same.                               *)
(***************************************************************************)
Reset ==
  /\ state = "Disabled" \/ (ResetFaulty /\ state = "Fault")
  /\ resetting = "no" /\ (disabling = "no" \/ OverlapCalls)
  /\ state' = "Resetting"
  /\ resetting' = IF started THEN "children" ELSE "connect"
  /\ stopping' = (stopping /\ started)
  /\ UNCHANGED <<clientVars, pandaVars, disabling, loop, children, poll, bitVars>>

Connected ==
  /\ resetting = "connect"
  /\ Connect
  /\ resetting' = "children"
  /\ UNCHANGED <<waits, inbox, nextId, hardware, faults, changes, state, disabling, loop,
                 stopping, children, poll, bitVars>>

Refused ==
  /\ resetting = "connect" /\ faults < MaxFaults
  /\ faults' = faults + 1
  /\ resetting' = "no"
  /\ state' = ErrorState(state)
  /\ UNCHANGED <<clientVars, hardware, pending, changes, disabling, loop, stopping,
                 children, poll, bitVars>>

\* _make_child_controllers() is not called again once it has made some.
FindChildren ==
  /\ resetting = "children"
  /\ IF children
       THEN resetting' = "loop" /\ UNCHANGED <<sendQueue, nextId, waits>>
       ELSE /\ nextId <= MaxRequests
            /\ resetting' = "blocks" /\ Ask(Manager, "blocks")
  /\ UNCHANGED <<started, respQueues, sender, receiver, link, wire, lines, inbox,
                 pandaVars, state, disabling, loop, stopping, children, poll, bitVars>>

BlocksAnswered ==
  /\ resetting = "blocks" /\ Answers(Manager) # {}
  /\ children' = TRUE
  /\ resetting' = "bits" /\ Ask(Manager, "bits")
  /\ inbox' = Dropped(Manager)
  /\ UNCHANGED <<started, respQueues, sender, receiver, link, wire, lines, pandaVars,
                 state, disabling, loop, stopping, poll, bitVars>>

BitsAnswered ==
  /\ resetting = "bits" /\ Answers(Manager) # {}
  /\ bitOuts' = [b \in Bits |-> FALSE]
  /\ deferred' = NoBits
  /\ resetting' = "changes" /\ poll' = "asked" /\ Ask(Manager, "changes")
  /\ inbox' = Dropped(Manager)
  /\ UNCHANGED <<started, respQueues, sender, receiver, link, wire, lines, pandaVars,
                 state, disabling, loop, stopping, children, telling, shown, missed>>

\* A loop that has ended by itself is taken for one that runs.
StartLoop ==
  /\ resetting = "loop"
  /\ loop' = IF loop = "none" THEN "runs" ELSE loop
  /\ resetting' = "hooks"
  /\ UNCHANGED <<clientVars, pandaVars, state, disabling, stopping, children, poll, bitVars>>

\* A part fails: what start_poll_loop() started runs on, and disable() does not
\* come to stop_poll_loop().
HooksFail ==
  /\ faults < MaxFaults
  /\ faults' = faults + 1
  /\ \/ resetting = "hooks" /\ resetting' = "no" /\ UNCHANGED disabling
     \/ disabling = "hooks" /\ disabling' = "no" /\ UNCHANGED resetting
  /\ state' = ErrorState(state)
  /\ UNCHANGED <<clientVars, hardware, pending, changes, loop, stopping, children, poll, bitVars>>

ResetEnds ==
  /\ resetting = "hooks"
  /\ resetting' = "no"
  /\ state' = IF state = "Resetting" THEN "Ready" ELSE ErrorState(state)
  /\ UNCHANGED <<clientVars, pandaVars, disabling, loop, stopping, children, poll, bitVars>>

--------------------------------------------------------------------------------
(***************************************************************************)
(* disable().                                                              *)
(***************************************************************************)
Disable ==
  /\ state \in {"Ready", "Fault"} \/ (OverlapCalls /\ state = "Resetting")
  /\ disabling = "no" /\ (resetting = "no" \/ OverlapCalls)
  /\ state' = "Disabling"
  /\ disabling' = "hooks"
  /\ UNCHANGED <<clientVars, pandaVars, resetting, loop, stopping, children, poll, bitVars>>

StopLoop ==
  /\ disabling = "hooks"
  /\ stopping' = (stopping \/ loop # "none")
  /\ disabling' = IF loop = "none" THEN "client" ELSE "loop"
  /\ UNCHANGED <<clientVars, pandaVars, state, resetting, loop, children, poll, bitVars>>

\* _poll_spawned.wait() has returned.
LoopKept == "ended"
LoopAfter == "none"
LoopStopped ==
  /\ disabling = "loop" /\ loop = "ended"
  /\ loop' = LoopAfter
  /\ disabling' = "client"
  /\ UNCHANGED <<clientVars, pandaVars, state, resetting, stopping, children, poll, bitVars>>

StopClient ==
  /\ disabling = "client"
  /\ IF started
       THEN sendQueue' = Append(sendQueue, Stop) /\ disabling' = "sender"
       ELSE disabling' = "done" /\ UNCHANGED sendQueue
  /\ UNCHANGED <<started, respQueues, sender, receiver, link, wire, lines, waits, inbox,
                 nextId, pandaVars, state, resetting, loop, stopping, children, poll, bitVars>>

NotShut == link
Shut == "shut"
SenderStopped ==
  /\ disabling = "sender" /\ ~sender
  /\ link' = Shut
  /\ disabling' = "receiver"
  /\ UNCHANGED <<started, sendQueue, respQueues, sender, receiver, wire, lines, waits,
                 inbox, nextId, pandaVars, state, resetting, loop, stopping, children,
                 poll, bitVars>>

ReceiverAwaited == ~receiver
ReceiverStopped ==
  /\ disabling = "receiver" /\ ReceiverAwaited
  /\ link' = "none" /\ started' = FALSE
  /\ wire' = << >> /\ lines' = << >>
  /\ disabling' = "done"
  /\ UNCHANGED <<sendQueue, respQueues, sender, receiver, waits, inbox, nextId, pandaVars,
                 state, resetting, loop, stopping, children, poll, bitVars>>

DisableEnds ==
  /\ disabling = "done"
  /\ disabling' = "no"
  /\ state' = IF state = "Disabling" THEN "Disabled" ELSE ErrorState(state)
  /\ UNCHANGED <<clientVars, pandaVars, resetting, loop, stopping, children, poll, bitVars>>

--------------------------------------------------------------------------------
(***************************************************************************)
(* Puts to the fields of a block, each a send_recv().                      *)
(***************************************************************************)
Put(u) ==
  /\ children /\ waits[u] = 0
  /\ changes < MaxChanges
  /\ changes' = changes + 1
  /\ Ask(u, "put")
  /\ UNCHANGED <<started, respQueues, sender, receiver, link, wire, lines, inbox,
                 hardware, pending, faults, managerVars>>

PutReturns(u) ==
  /\ waits[u] # 0 /\ Answers(u) # {}
  /\ waits' = [waits EXCEPT ![u] = 0]
  /\ inbox' = Dropped(u)
  /\ UNCHANGED <<started, sendQueue, respQueues, sender, receiver, link, wire, lines,
                 nextId, pandaVars, managerVars>>

PutTimesOut(u) ==
  /\ GivesUp(u)
  /\ respQueues' = ForgottenQueues(u)
  /\ UNCHANGED <<started, sendQueue, sender, receiver, link, wire, lines, inbox, nextId,
                 hardware, pending, changes, managerVars>>

--------------------------------------------------------------------------------
Threads == (SendNext \/ Respond \/ ReceiveFails \/ ReceiveEnds) /\ UNCHANGED managerVars
Outside == (PandAAnswers \/ FieldChanges \/ Breaks) /\ UNCHANGED managerVars
Polls == ChangesAnswered \/ TableAnswered \/ TellBlocks \/ StartPoll \/ LoopEnds
Resets ==
  \/ Connected \/ Refused \/ FindChildren \/ BlocksAnswered \/ BitsAnswered
  \/ StartLoop \/ ResetEnds
Disables == StopLoop \/ LoopStopped \/ StopClient \/ SenderStopped \/ ReceiverStopped \/ DisableEnds

Next ==
  \/ Threads \/ Outside \/ Polls \/ Resets \/ Disables
  \/ RequestTimesOut \/ HooksFail \/ Reset \/ Disable
  \/ \E u \in Users : Put(u) \/ PutReturns(u) \/ PutTimesOut(u)

Spec == Init /\ [][Next]_vars

\* The threads and cothreads run, and what is waited for comes or its timeout
\* passes.  No caller is fair.
Fairness ==
  /\ WF_vars(PandAAnswers /\ UNCHANGED managerVars)
  /\ WF_vars(SendNext /\ UNCHANGED managerVars)
  /\ WF_vars((Respond \/ ReceiveFails \/ ReceiveEnds) /\ UNCHANGED managerVars)
  /\ WF_vars(Polls) /\ WF_vars(Disables)
  /\ WF_vars(RequestTimesOut)
FairSpec == Spec /\ Fairness

--------------------------------------------------------------------------------
\* A block that is Ready is polled: whoever stopped the loop, or failed it, has
\* left the block in another state, and the next reset starts a new one
\* (start_poll_loop, stop_poll_loop and the handler of _poll_loop).
ReadyPolls == state = "Ready" => loop = "runs"

\* Between polls a block shows each bit as the PandA has it, or is going to at
\* the next poll, or the PandA has a change of it to report: whatever connection
\* was lost and whatever poll failed since (_handle_change, handle_changes).
BlocksInStep ==
  Sleeping /\ bitOuts # NoBits /\ resetting = "no" =>
    \A b \in Bits \ pending :
      hardware[b] = IF b \in DOMAIN deferred THEN deferred[b] ELSE shown[b]

\* A block that is told of a bit is told that it changed, so that a pulse shorter
\* than the poll period is seen, unless a poll that failed has kept the change
\* before from it (_handle_change).
PulsesAreSeen ==
  bitOuts # NoBits =>
    \A b \in DOMAIN telling \ missed : telling[b] # shown[b]

\* A block that is Disabled polls nothing, and its client has neither a thread
\* nor a connection (stop_poll_loop, stop).
DisabledIsQuiet ==
  state = "Disabled" =>
    ~started /\ ~sender /\ ~receiver /\ loop = "none" /\ link = "none"

\* disable() ends, whatever the PandA does: its waits for the loop and for the
\* two threads have no timeout (stop_poll_loop, stop).
DisableReturns == disabling # "no" ~> disabling = "no"

\* Who reads the PandA follows from the state of the block, whatever was lost,
\* failed, reset and disabled before.
PollFollowsState == TypeOK /\ ReadyPolls /\ DisabledIsQuiet

\* What was a bit before and after each poll is what the blocks are shown.
BitsInStep == BlocksInStep /\ PulsesAreSeen

================================================================================
