----------------------------- MODULE PandAProofs -----------------------------
(***************************************************************************)
(* What the client and the manager of a PandA promise for any callers,     *)
(* bits and tables, whatever is lost, malformed, late or failing: each     *)
(* response goes to its request; no pulse is missed; and, where no call    *)
(* overlaps another, who polls follows from the state of the block and     *)
(* the blocks show what the PandA has.                                     *)
(***************************************************************************)
EXTENDS PandAManager, SequenceTheorems, TLAPS

--------------------------------------------------------------------------------
(***************************************************************************)
(* Who asks for what                                                       *)
(***************************************************************************)
ManagerTypes ==
  /\ state \in {"Disabled", "Resetting", "Ready", "Disabling", "Fault"}
  /\ resetting \in {"no", "connect", "children", "blocks", "bits", "changes", "loop", "hooks"}
  /\ disabling \in {"no", "hooks", "loop", "client", "sender", "receiver", "done"}
  /\ loop \in {"none", "runs", "ended"}
  /\ poll \in {"no", "asked", "table", "tell"}
  /\ stopping \in BOOLEAN /\ children \in BOOLEAN

\* The blocks are made before the first poll, and once.
ChildrenFirst ==
  /\ loop # "none" \/ poll # "no" => children /\ resetting \notin {"blocks", "bits"}
  /\ resetting \in {"bits", "changes", "loop", "hooks"} => children
  /\ resetting = "blocks" => ~children

\* The manager waits for a response only where it asks for one.
ManagerWaits ==
  waits[Manager] # 0 => poll \in {"asked", "table"} \/ resetting \in {"blocks", "bits"}

PhaseInv == ManagerTypes /\ ChildrenFirst /\ ManagerWaits

LEMMA ManagerCalls == Manager \in Callers /\ Users \subseteq Callers /\ Manager \notin Users
BY PandAManagerAssumption

LEMMA PhasesStay ==
  ASSUME PhaseInv, waits \in [Callers -> Ids \cup {0}], [Next]_vars
  PROVE  PhaseInv'
<1> USE ManagerCalls DEF PhaseInv, ManagerTypes, ChildrenFirst, ManagerWaits
<1>1. CASE Threads
  BY <1>1 DEF Threads, SendNext, Respond, ReceiveFails, ReceiveEnds, managerVars, callVars
<1>2. CASE Outside
  BY <1>2 DEF Outside, PandAAnswers, FieldChanges, Breaks, managerVars, callVars, clientVars
<1>3. CASE ChangesAnswered
  BY <1>3 DEF ChangesAnswered, Ask, callVars
<1>4. CASE TableAnswered
  BY <1>4 DEF TableAnswered, callVars
<1>5. CASE TellBlocks
  BY <1>5 DEF TellBlocks, clientVars
<1>6. CASE StartPoll
  BY <1>6 DEF StartPoll, Sleeping, callVars
<1>7. CASE LoopEnds
  BY <1>7 DEF LoopEnds, Sleeping, clientVars
<1>8. CASE Connected \/ Refused \/ FindChildren
  BY <1>8 DEF Connected, Refused, FindChildren, ErrorState, clientVars, Ask
<1>9. CASE BlocksAnswered \/ BitsAnswered
  BY <1>9 DEF BlocksAnswered, BitsAnswered
<1>10. CASE StartLoop \/ ResetEnds
  BY <1>10 DEF StartLoop, ResetEnds, ErrorState, clientVars
<1>11. CASE Disables
  BY <1>11 DEF Disables, StopLoop, LoopStopped, LoopAfter, StopClient, SenderStopped,
    ReceiverStopped, DisableEnds, ErrorState, clientVars
<1>12. CASE RequestTimesOut
  BY <1>12 DEF RequestTimesOut, GivesUp, ErrorState
<1>13. CASE HooksFail
  BY <1>13 DEF HooksFail, ErrorState, clientVars
<1>16. CASE Reset
  <2>1. stopping' \in BOOLEAN
    <3> stopping' = (stopping /\ started)
      BY <1>16 DEF Reset
    <3> QED  OBVIOUS
  <2>2. /\ state' = "Resetting" /\ resetting' \in {"children", "connect"}
        /\ UNCHANGED <<waits, disabling, loop, children, poll>> /\ resetting = "no"
    BY <1>16 DEF Reset, clientVars
  <2> QED  BY <2>1, <2>2
<1>17. CASE Disable
  BY <1>17 DEF Disable, clientVars
<1>14. CASE \E u \in Users : Put(u) \/ PutReturns(u) \/ PutTimesOut(u)
  BY <1>14 DEF Put, PutReturns, PutTimesOut, Ask, GivesUp, managerVars, callVars
<1>15. CASE UNCHANGED vars
  BY <1>15 DEF vars, clientVars, managerVars, callVars
<1> QED
  BY <1>1, <1>2, <1>3, <1>4, <1>5, <1>6, <1>7, <1>8, <1>9, <1>10, <1>11, <1>12, <1>13,
     <1>14, <1>15, <1>16, <1>17 DEF Next, Polls, Resets

--------------------------------------------------------------------------------
(***************************************************************************)
(* What a step does to the client                                          *)
(***************************************************************************)
\* The number of the next request: each poll starts from a bounded one.
NumbersBounded ==
  /\ nextId \in Nat \ {0} /\ changes \in 0 .. MaxChanges
  /\ nextId <= MaxRequests + changes + 4 + 1
  /\ resetting = "blocks" => nextId <= MaxRequests + changes + 1 + 1
  /\ resetting = "bits" => nextId <= MaxRequests + changes + 2 + 1
  /\ poll = "asked" => nextId <= MaxRequests + changes + 3 + 1

LEMMA BoundsAreNumbers == MaxRequests \in Nat /\ MaxChanges \in Nat
BY PandAClientAssumption

LEMMA NumbersStayBounded ==
  ASSUME PhaseInv, NumbersBounded, [Next]_vars
  PROVE  NumbersBounded'
<1> USE BoundsAreNumbers DEF NumbersBounded
<1>1. CASE Threads
  BY <1>1 DEF Threads, SendNext, Respond, ReceiveFails, ReceiveEnds, managerVars, callVars, pandaVars
<1>2. CASE Outside
  BY <1>2 DEF Outside, PandAAnswers, FieldChanges, Breaks, managerVars, callVars, clientVars
<1>3. CASE ChangesAnswered
  <2> resetting' = resetting /\ changes' = changes /\ poll' \in {"tell", "table"}
      /\ nextId' \in {nextId, nextId + 1} /\ poll = "asked"
    BY <1>3 DEF ChangesAnswered, Ask, callVars, pandaVars
  <2> resetting \notin {"blocks", "bits"}
    BY DEF PhaseInv, ChildrenFirst
  <2> QED  OBVIOUS
<1>4. CASE TableAnswered \/ TellBlocks \/ LoopEnds
  BY <1>4 DEF TableAnswered, TellBlocks, LoopEnds, callVars, clientVars, pandaVars
<1>5. CASE StartPoll
  BY <1>5 DEF StartPoll, Ask, callVars, pandaVars, PhaseInv, ManagerTypes, ChildrenFirst, Sleeping
<1>6. CASE Connected \/ Refused
  BY <1>6 DEF Connected, Refused, clientVars
<1>7. CASE FindChildren
  BY <1>7 DEF FindChildren, Ask, pandaVars, PhaseInv, ChildrenFirst
<1>8. CASE BlocksAnswered
  BY <1>8 DEF BlocksAnswered, Ask, pandaVars, PhaseInv, ChildrenFirst
<1>9. CASE BitsAnswered
  BY <1>9 DEF BitsAnswered, Ask, pandaVars
<1>10. CASE StartLoop \/ ResetEnds
  BY <1>10 DEF StartLoop, ResetEnds, clientVars, pandaVars
<1>11. CASE Disables
  BY <1>11 DEF Disables, StopLoop, LoopStopped, StopClient, SenderStopped,
    ReceiverStopped, DisableEnds, clientVars, pandaVars
<1>12. CASE RequestTimesOut
  BY <1>12 DEF RequestTimesOut, GivesUp
<1>13. CASE HooksFail \/ Reset \/ Disable
  BY <1>13 DEF HooksFail, Reset, Disable, clientVars, pandaVars
<1>14. CASE \E u \in Users : Put(u) \/ PutReturns(u) \/ PutTimesOut(u)
  <2> resetting' = resetting /\ poll' = poll
    BY <1>14 DEF Put, PutReturns, PutTimesOut, managerVars, callVars
  <2>1. CASE \E u \in Users : Put(u)
    BY <2>1 DEF Put, Ask
  <2>2. CASE \E u \in Users : PutReturns(u) \/ PutTimesOut(u)
    BY <2>2 DEF PutReturns, PutTimesOut, pandaVars
  <2> QED  BY <1>14, <2>1, <2>2
<1>15. CASE UNCHANGED vars
  BY <1>15 DEF vars, clientVars, pandaVars, managerVars, callVars
<1> QED
  BY <1>1, <1>2, <1>3, <1>4, <1>5, <1>6, <1>7, <1>8, <1>9, <1>10, <1>11, <1>12, <1>13,
     <1>14, <1>15 DEF Next, Polls, Resets
\* What a line says: what it responds to, or 0, and the bits and tables that it names.
Reports == UNION {[F -> BOOLEAN] : F \in SUBSET Fields}
Lines == [to : Ids \cup {0}, report : Reports]

QueuesTyped ==
  /\ ClientTypeOK
  /\ lines \in Seq(Lines)
  /\ inbox \subseteq [queue : Ids, response : Lines]

\* The parts of the client that the steps of its callers share.
networkVars == <<started, respQueues, sender, receiver, link, wire, lines, hardware, pending>>

Questions == {"put", "blocks", "bits", "table", "changes"}

Asks(c, what) ==
  /\ c \in Callers /\ what \in Questions
  /\ nextId \in Ids
  /\ Ask(c, what)
  /\ inbox' = Dropped(c)
  /\ UNCHANGED networkVars

Drops(c) ==
  /\ c \in Callers
  /\ waits' = [waits EXCEPT ![c] = 0]
  /\ inbox' = Dropped(c)
  /\ UNCHANGED <<networkVars, sendQueue, nextId>>

Connects == Connect /\ UNCHANGED <<waits, inbox, nextId, hardware>>

Stops ==
  /\ sendQueue' = Append(sendQueue, Stop)
  /\ UNCHANGED <<networkVars, waits, inbox, nextId>>

Shuts ==
  /\ ~sender /\ link' = "shut"
  /\ UNCHANGED <<started, sendQueue, respQueues, sender, receiver, wire, lines, waits,
                 inbox, nextId, hardware, pending>>

Closes ==
  /\ ~receiver /\ link' = "none" /\ started' = FALSE
  /\ wire' = << >> /\ lines' = << >>
  /\ UNCHANGED <<sendQueue, respQueues, sender, receiver, waits, inbox, nextId,
                 hardware, pending>>

Rests == UNCHANGED <<networkVars, sendQueue, waits, inbox, nextId>>

ClientStep ==
  \/ \E c \in Callers : Drops(c) \/ \E what \in Questions : Asks(c, what)
  \/ SendNext \/ Respond \/ ReceiveFails \/ ReceiveEnds
  \/ PandAAnswers \/ FieldChanges \/ Breaks
  \/ Connects \/ Stops \/ Shuts \/ Closes \/ Rests

\* Who waits for nothing has nothing to drop.
LEMMA NothingToDrop ==
  ASSUME QueuesTyped, NEW c \in Callers, waits[c] = 0 \/ Answers(c) = {}
  PROVE  Dropped(c) = inbox
<1>1. Answers(c) = {}
  <2> SUFFICES ASSUME waits[c] = 0 PROVE Answers(c) = {}
    OBVIOUS
  <2>1. \A e \in inbox : e.queue \in Ids
    BY DEF QueuesTyped
  <2>2. 0 \notin Ids
    BY BoundsAreNumbers DEF Ids
  <2> QED  BY <2>1, <2>2 DEF Answers
<1> QED  BY <1>1 DEF Dropped

LEMMA AsksAreNumbered ==
  ASSUME NumbersBounded, nextId <= MaxRequests + changes + 4
  PROVE  nextId \in Ids
BY BoundsAreNumbers DEF NumbersBounded, Ids

LEMMA StartedPollAsks ==
  ASSUME PhaseInv, NumbersBounded, QueuesTyped, StartPoll
  PROVE  Asks(Manager, "changes")
<1> USE ManagerCalls DEF networkVars
<1>1. nextId \in Ids
  BY AsksAreNumbered, BoundsAreNumbers DEF StartPoll, NumbersBounded
<1>2. waits[Manager] = 0
  BY DEF StartPoll, Sleeping, PhaseInv, ChildrenFirst, ManagerWaits
<1> QED  BY <1>1, <1>2, NothingToDrop DEF StartPoll, Asks, Questions, pandaVars

LEMMA BitsPollAsks ==
  ASSUME PhaseInv, NumbersBounded, QueuesTyped, BitsAnswered
  PROVE  Asks(Manager, "changes")
<1>1. nextId \in Ids
  BY AsksAreNumbered, BoundsAreNumbers DEF BitsAnswered, NumbersBounded
<1> QED  BY <1>1, ManagerCalls DEF BitsAnswered, Asks, Questions, pandaVars, networkVars

LEMMA UsersStep ==
  ASSUME NumbersBounded, QueuesTyped, NEW u \in Users, Put(u) \/ PutReturns(u) \/ PutTimesOut(u)
  PROVE  Drops(u) \/ Asks(u, "put")
<1> USE ManagerCalls DEF networkVars
<1>1. CASE Put(u)
  <2>1. nextId \in Ids
    BY <1>1, BoundsAreNumbers DEF Put, NumbersBounded, Ids
  <2> QED  BY <1>1, <2>1, NothingToDrop DEF Put, Asks, Questions
<1>2. CASE PutReturns(u)
  BY <1>2 DEF PutReturns, Drops, pandaVars
<1>3. CASE PutTimesOut(u)
  BY <1>3, NothingToDrop DEF PutTimesOut, GivesUp, ForgottenQueues, Drops
<1> QED  BY <1>1, <1>2, <1>3

LEMMA StepsOfTheClient ==
  ASSUME PhaseInv, NumbersBounded, QueuesTyped, [Next]_vars
  PROVE  ClientStep
<1> USE ManagerCalls DEF networkVars
<1>1. CASE Threads \/ Outside
  BY <1>1 DEF Threads, Outside, ClientStep
<1>2. CASE ChangesAnswered
  <2>1. nextId \in Ids
    BY <1>2, AsksAreNumbered, BoundsAreNumbers DEF ChangesAnswered, NumbersBounded
  <2>2. Drops(Manager) \/ Asks(Manager, "table")
    BY <1>2, <2>1 DEF ChangesAnswered, Drops, Asks, Questions, pandaVars
  <2> QED  BY <2>2 DEF ClientStep, Questions
<1>3. CASE TableAnswered
  <2>1. Drops(Manager)
    BY <1>3 DEF TableAnswered, Drops, pandaVars
  <2> QED  BY <2>1 DEF ClientStep, Questions
<1>4. CASE TellBlocks \/ LoopEnds
  BY <1>4 DEF TellBlocks, LoopEnds, ClientStep, Rests, clientVars, pandaVars
<1>5. CASE StartPoll
  BY <1>5, StartedPollAsks DEF ClientStep, Questions
<1>6. CASE Connected
  BY <1>6 DEF Connected, ClientStep, Connects
<1>7. CASE Refused \/ StartLoop \/ ResetEnds \/ HooksFail \/ Reset \/ Disable
  BY <1>7 DEF Refused, StartLoop, ResetEnds, HooksFail, Reset, Disable, ClientStep, Rests,
    clientVars, pandaVars
<1>8. CASE FindChildren
  <2>1. CASE children
    BY <1>8, <2>1 DEF FindChildren, ClientStep, Rests, pandaVars
  <2>2. CASE ~children
    <3>1. nextId \in Ids
      BY <1>8, <2>2, AsksAreNumbered, BoundsAreNumbers DEF FindChildren, NumbersBounded
    <3>2. waits[Manager] = 0
      BY <1>8, <2>2 DEF FindChildren, PhaseInv, ManagerTypes, ChildrenFirst, ManagerWaits
    <3>3. Asks(Manager, "blocks")
      BY <1>8, <2>2, <3>1, <3>2, NothingToDrop DEF FindChildren, Asks, Questions, pandaVars
    <3> QED  BY <3>3 DEF ClientStep, Questions
  <2> QED  BY <2>1, <2>2
<1>9. CASE BlocksAnswered
  <2>1. nextId \in Ids
    BY <1>9, AsksAreNumbered, BoundsAreNumbers DEF BlocksAnswered, NumbersBounded
  <2>2. Asks(Manager, "bits")
    BY <1>9, <2>1 DEF BlocksAnswered, Asks, Questions, pandaVars
  <2> QED  BY <2>2 DEF ClientStep, Questions
<1>10. CASE BitsAnswered
  BY <1>10, BitsPollAsks DEF ClientStep, Questions
<1>11. CASE StopLoop \/ LoopStopped \/ DisableEnds
  BY <1>11 DEF StopLoop, LoopStopped, DisableEnds, ClientStep, Rests, clientVars, pandaVars
<1>12. CASE StopClient
  BY <1>12 DEF StopClient, ClientStep, Stops, Rests, pandaVars
<1>13. CASE SenderStopped
  BY <1>13 DEF SenderStopped, Shut, ClientStep, Shuts, pandaVars
<1>14. CASE ReceiverStopped
  BY <1>14 DEF ReceiverStopped, ReceiverAwaited, ClientStep, Closes, pandaVars
<1>15. CASE RequestTimesOut
  <2>1. Drops(Manager)
    BY <1>15, NothingToDrop DEF RequestTimesOut, GivesUp, ForgottenQueues, Drops
  <2> QED  BY <2>1 DEF ClientStep, Questions
<1>16. CASE \E u \in Users : Put(u) \/ PutReturns(u) \/ PutTimesOut(u)
  BY <1>16, UsersStep DEF ClientStep, Questions
<1>19. CASE UNCHANGED vars
  BY <1>19 DEF vars, ClientStep, Rests, clientVars, pandaVars
<1> QED
  BY <1>1, <1>2, <1>3, <1>4, <1>5, <1>6, <1>7, <1>8, <1>9, <1>10, <1>11, <1>12, <1>13,
     <1>14, <1>15, <1>16, <1>19 DEF Next, Polls, Resets, Disables
--------------------------------------------------------------------------------
(***************************************************************************)
(* Each response goes to its request                                       *)
(***************************************************************************)
LEMMA ReportsAreReports == NoReport \in Reports /\ (QueuesTyped => Report \in Reports)
<1>1. NoReport \in Reports
  <2>1. NoReport \in [{} -> BOOLEAN]
    BY DEF NoReport
  <2> QED  BY <2>1 DEF Reports
<1>2. ASSUME QueuesTyped PROVE Report \in Reports
  <2>1. pending \in SUBSET Fields /\ hardware \in [Bits -> BOOLEAN]
    BY <1>2 DEF QueuesTyped, ClientTypeOK
  <2>2. \A f \in pending : (f \in Bits /\ hardware[f]) \in BOOLEAN
    OBVIOUS
  <2>3. Report \in [pending -> BOOLEAN]
    BY <2>2 DEF Report
  <2> QED  BY <2>1, <2>3 DEF Reports
<1> QED  BY <1>1, <1>2

\* Whoever stops waiting for a response takes it from the inbox.
LEMMA DroppedIsAwaited ==
  ASSUME QueuesTyped, NEW c \in Callers, NEW w \in Ids \cup {0},
         waits' = [waits EXCEPT ![c] = w], inbox' = Dropped(c)
  PROVE  /\ waits' \in [Callers -> Ids \cup {0}]
         /\ inbox' \subseteq [queue : Ids, response : Lines]
         /\ \A e \in inbox' : \E d \in Callers : waits'[d] = e.queue
<1> USE DEF QueuesTyped, ClientTypeOK
<1>1. inbox' \subseteq inbox
  BY DEF Dropped
<1>2. ASSUME NEW e \in inbox' PROVE \E d \in Callers : waits'[d] = e.queue
  <2>1. e \in inbox /\ e.queue # waits[c]
    BY DEF Dropped, Answers
  <2>2. PICK d \in Callers : waits[d] = e.queue
    BY <2>1
  <2>3. d # c
    BY <2>1, <2>2
  <2> QED  BY <2>2, <2>3
<1> QED  BY <1>1, <1>2

LEMMA QueuesStayTyped ==
  ASSUME QueuesTyped, ClientStep
  PROVE  QueuesTyped'
<1> USE DEF QueuesTyped, ClientTypeOK
<1>1. ASSUME NEW c \in Callers, Drops(c) PROVE QueuesTyped'
  <2>1. /\ waits' \in [Callers -> Ids \cup {0}]
        /\ inbox' \subseteq [queue : Ids, response : Lines]
        /\ \A e \in inbox' : \E d \in Callers : waits'[d] = e.queue
    BY <1>1, DroppedIsAwaited DEF Drops
  <2> QED  BY <1>1, <2>1 DEF Drops, networkVars
<1>2. ASSUME NEW c \in Callers, NEW what \in Questions, Asks(c, what) PROVE QueuesTyped'
  <2>1. /\ waits' \in [Callers -> Ids \cup {0}]
        /\ inbox' \subseteq [queue : Ids, response : Lines]
        /\ \A e \in inbox' : \E d \in Callers : waits'[d] = e.queue
    BY <1>2, DroppedIsAwaited DEF Asks, Ask
  <2>2. [id |-> nextId, what |-> what] \in Requests
    BY <1>2 DEF Asks, Requests, Questions
  <2>3. sendQueue' \in Seq(Requests \cup {Stop})
    BY <1>2, <2>2 DEF Asks, Ask
  <2> QED  BY <1>2, <2>1, <2>3 DEF Asks, networkVars
<1>3. CASE SendNext
  <2>1. Head(sendQueue) \in Requests \cup {Stop} /\ Tail(sendQueue) \in Seq(Requests \cup {Stop})
    BY <1>3 DEF SendNext
  <2>2. CASE Head(sendQueue) = Stop
    BY <1>3, <2>1, <2>2 DEF SendNext, pandaVars
  <2>3. CASE Head(sendQueue) # Stop
    <3>1. Head(sendQueue) \in Requests /\ Head(sendQueue).id \in Ids
      BY <2>1, <2>3 DEF Requests
    <3>2. respQueues' \in Seq(Ids)
      <4>1. Append(respQueues, Head(sendQueue).id) \in Seq(Ids)
        BY <3>1
      <4> QED  BY <1>3, <2>3, <4>1 DEF SendNext
    <3>3. wire' \in Seq(Requests)
      <4>1. Append(wire, Head(sendQueue)) \in Seq(Requests)
        BY <3>1
      <4> QED  BY <1>3, <2>3, <4>1 DEF SendNext
    <3> QED  BY <1>3, <2>1, <2>3, <3>2, <3>3 DEF SendNext, pandaVars
  <2> QED  BY <2>2, <2>3
<1>4. CASE Respond
  <2>1. Head(lines) \in Lines /\ Head(respQueues) \in Ids
    BY <1>4 DEF Respond
  <2>2. lines' \in Seq(Lines) /\ respQueues' \in Seq(Ids)
    BY <1>4 DEF Respond
  <2>3. /\ inbox' \subseteq [queue : Ids, response : Lines]
        /\ \A e \in inbox' : \E c \in Callers : waits[c] = e.queue
    BY <1>4, <2>1 DEF Respond
  <2> QED  BY <1>4, <2>2, <2>3 DEF Respond, pandaVars
<1>5. CASE ReceiveFails
  <2>1. lines' \in Seq(Lines)
    <3> lines # << >> /\ lines' = Tail(lines)
      BY <1>5 DEF ReceiveFails
    <3> QED  OBVIOUS
  <2> QED  BY <1>5, <2>1 DEF ReceiveFails, pandaVars
<1>13. CASE ReceiveEnds
  BY <1>13 DEF ReceiveEnds, pandaVars
<1>6. CASE PandAAnswers
  <2>1. Head(wire).id \in Ids /\ wire' \in Seq(Requests)
    <3>1. wire # << >> /\ wire' = Tail(wire)
      BY <1>6 DEF PandAAnswers
    <3>2. Head(wire) \in Requests /\ Tail(wire) \in Seq(Requests)
      BY <3>1
    <3> QED  BY <3>1, <3>2 DEF Requests
  <2>2. \E r \in Reports : lines' = Append(lines, [to |-> Head(wire).id, report |-> r])
    BY <1>6, ReportsAreReports DEF PandAAnswers
  <2>3. lines' \in Seq(Lines)
    BY <2>1, <2>2 DEF Lines
  <2>4. pending' \subseteq Fields
    BY <1>6 DEF PandAAnswers
  <2> QED  BY <1>6, <2>1, <2>3, <2>4 DEF PandAAnswers
<1>7. CASE FieldChanges
  <2>1. PICK f \in Fields : hardware' = [b \in Bits |-> (b = f) # hardware[b]]
                            /\ pending' = pending \cup {f}
    BY <1>7 DEF FieldChanges
  <2>2. \A b \in Bits : ((b = f) # hardware[b]) \in BOOLEAN
    OBVIOUS
  <2>3. hardware' \in [Bits -> BOOLEAN]
    BY <2>1, <2>2
  <2> QED  BY <1>7, <2>1, <2>3 DEF FieldChanges, clientVars
<1>8. CASE Breaks
  <2>1. [to |-> 0, report |-> NoReport] \in Lines
    BY ReportsAreReports DEF Lines
  <2>2. Append(lines, [to |-> 0, report |-> NoReport]) \in Seq(Lines)
    BY <2>1
  <2>3. lines' \in Seq(Lines)
    BY <1>8, <2>2 DEF Breaks
  <2>4. wire' \in Seq(Requests)
    <3>1. wire' = << >> \/ wire' = wire
      BY <1>8 DEF Breaks
    <3>2. wire \in Seq(Requests) /\ << >> \in Seq(Requests)
      OBVIOUS
    <3> QED  BY <3>1, <3>2, Zenon
  <2>5. link' \in {"up", "lost"}
    BY <1>8 DEF Breaks
  <2> QED  BY <1>8, <2>3, <2>4, <2>5 DEF Breaks
<1>9. CASE Connects
  BY <1>9 DEF Connects, Connect
<1>10. CASE Stops
  <2>1. sendQueue' \in Seq(Requests \cup {Stop})
    BY <1>10 DEF Stops
  <2> QED  BY <1>10, <2>1 DEF Stops, networkVars
<1>11. CASE Shuts
  BY <1>11 DEF Shuts
<1>14. CASE Closes
  <2>1. (started \in BOOLEAN /\ sender \in BOOLEAN /\ receiver \in BOOLEAN)'
    BY <1>14 DEF Closes
  <2>2. (sendQueue \in Seq(Requests \cup {Stop}))'
    BY <1>14 DEF Closes
  <2>3. (wire \in Seq(Requests))'
    BY <1>14 DEF Closes
  <2>4. (lines \in Seq(Lines))'
    BY <1>14 DEF Closes
  <2>5. (respQueues \in Seq(Ids) /\ waits \in [Callers -> Ids \cup {0}])'
    BY <1>14 DEF Closes
  <2>6. (link \in {"none", "up", "lost", "shut"})'
    BY <1>14 DEF Closes
  <2>7. (\A e \in inbox : \E c \in Callers : waits[c] = e.queue)'
    BY <1>14 DEF Closes
  <2>8. (pending \subseteq Fields /\ hardware \in [Bits -> BOOLEAN])'
    BY <1>14 DEF Closes
  <2> QED  BY <1>14, <2>1, <2>2, <2>3, <2>4, <2>5, <2>6, <2>7, <2>8 DEF Closes
<1>12. CASE Rests
  BY <1>12 DEF Rests, networkVars
<1> QED
  BY <1>1, <1>2, <1>3, <1>4, <1>5, <1>6, <1>7, <1>8, <1>9, <1>10, <1>11, <1>12,
     <1>13, <1>14 DEF ClientStep

\* The lines that are still to be read, up to the first malformed one, respond to the
\* requests that have waited longest, and the wire to those after them.
NoneMalformed(n) == \A m \in 1 .. n : lines[m].to # 0

LinesInOrder ==
  \A n \in 1 .. Len(lines) :
    NoneMalformed(n) => n <= Len(respQueues) /\ lines[n].to = respQueues[n]

WireInOrder ==
  NoneMalformed(Len(lines)) =>
    /\ Len(lines) + Len(wire) <= Len(respQueues)
    /\ \A m \in 1 .. Len(wire) : wire[m].id = respQueues[Len(lines) + m]
    /\ link = "up" => Len(respQueues) = Len(lines) + Len(wire)

Aligned ==
  /\ receiver => LinesInOrder /\ WireInOrder
  /\ link \in {"none", "lost"} => wire = << >>
  /\ link = "shut" => ~sender
LEMMA QueuesStayAligned ==
  ASSUME QueuesTyped, Aligned, ClientStep
  PROVE  Aligned'
<1> DEFINE Unmoved == UNCHANGED <<respQueues, sender, receiver, link, wire, lines>>
<1>0. /\ sendQueue \in Seq(Requests \cup {Stop}) /\ lines \in Seq(Lines)
      /\ wire \in Seq(Requests) /\ respQueues \in Seq(Ids)
      /\ 0 \notin Ids /\ \A r \in Requests : r.id \in Ids
      /\ sender \in BOOLEAN /\ receiver \in BOOLEAN
  BY BoundsAreNumbers DEF QueuesTyped, ClientTypeOK, Ids, Requests
<1>1. ASSUME Unmoved PROVE Aligned'
  BY <1>1 DEF Aligned, LinesInOrder, WireInOrder, NoneMalformed
<1>2. CASE (\E c \in Callers : Drops(c) \/ \E what \in Questions : Asks(c, what))
           \/ FieldChanges \/ Stops \/ Rests
  <2>1. Unmoved
    BY <1>2 DEF Drops, Asks, FieldChanges, Stops, Rests, networkVars, clientVars
  <2> QED  BY <1>1, <2>1
<1>3. CASE SendNext
  <2>1. CASE Head(sendQueue) = Stop
    BY <1>3, <2>1 DEF SendNext, Aligned, LinesInOrder, WireInOrder, NoneMalformed
  <2>2. CASE Head(sendQueue) # Stop
    <3> DEFINE r == Head(sendQueue)
    <3>1. /\ sender /\ r \in Requests /\ r.id \in Ids
          /\ respQueues' = Append(respQueues, r.id)
          /\ wire' = IF link = "up" THEN Append(wire, r) ELSE wire
          /\ UNCHANGED <<link, lines, sender, receiver>>
      BY <1>0, <1>3, <2>2 DEF SendNext
    <3> HIDE DEF r
    <3>2. ASSUME LinesInOrder PROVE LinesInOrder'
      <4>1. /\ Len(respQueues') = Len(respQueues) + 1 /\ Len(respQueues) \in Nat
            /\ \A i \in 1 .. Len(respQueues) : respQueues'[i] = respQueues[i]
        BY <1>0, <3>1
      <4> SUFFICES ASSUME NEW n \in 1 .. Len(lines), NoneMalformed(n)
                   PROVE  n <= Len(respQueues') /\ lines[n].to = respQueues'[n]
        BY <3>1 DEF LinesInOrder, NoneMalformed
      <4>2. n <= Len(respQueues) /\ lines[n].to = respQueues[n]
        BY <3>2 DEF LinesInOrder
      <4> QED  BY <4>1, <4>2
    <3>3. ASSUME WireInOrder PROVE WireInOrder'
      <4> SUFFICES ASSUME NoneMalformed(Len(lines))
                   PROVE  /\ Len(lines) + Len(wire') <= Len(respQueues')
                          /\ \A m \in 1 .. Len(wire') : wire'[m].id = respQueues'[Len(lines) + m]
                          /\ link = "up" => Len(respQueues') = Len(lines) + Len(wire')
        BY <3>1 DEF WireInOrder, NoneMalformed
      <4>1. /\ Len(lines) + Len(wire) <= Len(respQueues)
            /\ \A m \in 1 .. Len(wire) : wire[m].id = respQueues[Len(lines) + m]
            /\ link = "up" => Len(respQueues) = Len(lines) + Len(wire)
        BY <3>3 DEF WireInOrder
      <4>2. CASE link = "up"
        <5>1. wire' = Append(wire, r) /\ Len(wire') = Len(wire) + 1
              /\ Len(respQueues') = Len(respQueues) + 1
          BY <1>0, <3>1, <4>2
        <5>2. ASSUME NEW m \in 1 .. Len(wire') PROVE wire'[m].id = respQueues'[Len(lines) + m]
          <6>1. CASE m \in 1 .. Len(wire)
            <7>1. wire'[m] = wire[m] /\ Len(lines) + m \in 1 .. Len(respQueues)
              BY <1>0, <3>1, <4>1, <4>2, <5>1, <6>1
            <7>2. respQueues'[Len(lines) + m] = respQueues[Len(lines) + m]
              BY <1>0, <3>1, <7>1
            <7> QED  BY <4>1, <6>1, <7>1, <7>2
          <6>2. CASE m = Len(wire) + 1
            <7>1. wire'[m] = r
              BY <1>0, <3>1, <5>1, <6>2
            <7>2. respQueues'[Len(lines) + m] = r.id
              BY <1>0, <3>1, <4>1, <4>2, <6>2
            <7> QED  BY <7>1, <7>2
          <6> QED  BY <1>0, <5>1, <6>1, <6>2
        <5> QED  BY <1>0, <4>1, <4>2, <5>1, <5>2
      <4>3. CASE link # "up"
        <5>1. wire' = wire /\ Len(respQueues') = Len(respQueues) + 1
              /\ \A i \in 1 .. Len(respQueues) : respQueues'[i] = respQueues[i]
          BY <1>0, <3>1, <4>3
        <5>2. \A m \in 1 .. Len(wire) : Len(lines) + m \in 1 .. Len(respQueues)
          BY <1>0, <4>1
        <5>3. \A m \in 1 .. Len(wire') : wire'[m].id = respQueues'[Len(lines) + m]
          BY <4>1, <5>1, <5>2
        <5> QED  BY <1>0, <4>1, <4>3, <5>1, <5>3
      <4> QED  BY <4>2, <4>3
    <3>4. link \in {"none", "lost"} => wire' = wire
      BY <3>1
    <3> QED  BY <3>1, <3>2, <3>3, <3>4 DEF Aligned
  <2> QED  BY <2>1, <2>2
<1>4. CASE Respond
  <2>1. /\ receiver /\ lines # << >> /\ respQueues # << >> /\ Head(lines).to # 0
        /\ lines' = Tail(lines) /\ respQueues' = Tail(respQueues)
        /\ UNCHANGED <<link, wire, sender, receiver>>
    BY <1>4 DEF Respond
  <2>2. /\ Len(lines') = Len(lines) - 1 /\ \A m \in 1 .. Len(lines') : lines'[m] = lines[m + 1]
        /\ Len(respQueues') = Len(respQueues) - 1
        /\ \A m \in 1 .. Len(respQueues') : respQueues'[m] = respQueues[m + 1]
        /\ Head(lines) = lines[1] /\ Len(lines) \in Nat \ {0} /\ Len(respQueues) \in Nat \ {0}
    BY <1>0, <2>1
  <2>3. ASSUME NEW n \in 0 .. Len(lines'), NoneMalformed(n)'
        PROVE  NoneMalformed(n + 1)
    <3> SUFFICES ASSUME NEW m \in 1 .. n + 1 PROVE lines[m].to # 0
      BY DEF NoneMalformed
    <3>1. CASE m = 1
      BY <2>1, <2>2, <3>1
    <3>2. CASE m # 1
      <4>1. m - 1 \in 1 .. n /\ lines'[m - 1] = lines[m]
        BY <2>2, <3>2
      <4> QED  BY <2>3, <4>1 DEF NoneMalformed
    <3> QED  BY <3>1, <3>2
  <2>4. LinesInOrder'
    <3> SUFFICES ASSUME NEW n \in 1 .. Len(lines'), NoneMalformed(n)'
                 PROVE  n <= Len(respQueues') /\ lines'[n].to = respQueues'[n]
      BY DEF LinesInOrder
    <3> n \in 0 .. Len(lines')
      BY <2>2
    <3>0. NoneMalformed(n + 1)
      BY <2>3
    <3>1. n + 1 \in 1 .. Len(lines)
      BY <2>2
    <3>2. n + 1 <= Len(respQueues) /\ lines[n + 1].to = respQueues[n + 1]
      BY <2>1, <3>0, <3>1 DEF Aligned, LinesInOrder
    <3> QED  BY <2>2, <3>2
  <2>5. WireInOrder'
    <3> SUFFICES ASSUME NoneMalformed(Len(lines))'
                 PROVE  /\ Len(lines') + Len(wire) <= Len(respQueues')
                        /\ \A m \in 1 .. Len(wire) : wire[m].id = respQueues'[Len(lines') + m]
                        /\ link = "up" => Len(respQueues') = Len(lines') + Len(wire)
      BY <2>1 DEF WireInOrder
    <3>1. NoneMalformed(Len(lines))
      BY <2>2, <2>3
    <3>2. /\ Len(lines) + Len(wire) <= Len(respQueues)
          /\ \A m \in 1 .. Len(wire) : wire[m].id = respQueues[Len(lines) + m]
          /\ link = "up" => Len(respQueues) = Len(lines) + Len(wire)
      BY <2>1, <3>1 DEF Aligned, WireInOrder
    <3>3. ASSUME NEW m \in 1 .. Len(wire) PROVE wire[m].id = respQueues'[Len(lines') + m]
      <4>1. Len(lines') + m \in 1 .. Len(respQueues') /\ Len(lines') + m + 1 = Len(lines) + m
        BY <1>0, <2>2, <3>2
      <4>2. respQueues'[Len(lines') + m] = respQueues[Len(lines) + m]
        BY <2>2, <4>1
      <4> QED  BY <3>2, <4>2
    <3> QED  BY <1>0, <2>2, <3>2, <3>3
  <2> QED  BY <2>1, <2>4, <2>5 DEF Aligned
<1>5. CASE ReceiveFails \/ ReceiveEnds
  <2>1. ~receiver' /\ UNCHANGED <<link, wire, sender>>
    BY <1>5 DEF ReceiveFails, ReceiveEnds
  <2> QED  BY <2>1 DEF Aligned
<1>6. CASE PandAAnswers
  <2>1. PICK line :
          /\ lines' = Append(lines, line) /\ line.to = Head(wire).id
          /\ wire # << >> /\ wire' = Tail(wire) /\ link \in {"up", "shut"}
          /\ UNCHANGED <<respQueues, link, sender, receiver>>
    BY <1>6 DEF PandAAnswers
  <2>2. /\ Len(lines') = Len(lines) + 1 /\ lines'[Len(lines) + 1] = line
        /\ \A m \in 1 .. Len(lines) : lines'[m] = lines[m]
        /\ Len(wire') = Len(wire) - 1 /\ \A m \in 1 .. Len(wire') : wire'[m] = wire[m + 1]
        /\ Len(wire) \in Nat \ {0} /\ Head(wire) = wire[1] /\ Len(lines) \in Nat
        /\ Len(respQueues) \in Nat
    BY <1>0, <2>1
  <2>3. ASSUME NEW n \in 0 .. Len(lines), NoneMalformed(n)' PROVE NoneMalformed(n)
    BY <2>2, <2>3 DEF NoneMalformed
  <2>4. NoneMalformed(Len(lines))' => NoneMalformed(Len(lines))
    BY <2>2 DEF NoneMalformed
  <2>5. ASSUME receiver, NoneMalformed(Len(lines))
        PROVE  /\ Len(lines) + Len(wire) <= Len(respQueues)
               /\ \A m \in 1 .. Len(wire) : wire[m].id = respQueues[Len(lines) + m]
               /\ link = "up" => Len(respQueues) = Len(lines) + Len(wire)
    BY <2>5 DEF Aligned, WireInOrder
  <2>6. ASSUME receiver PROVE LinesInOrder'
    <3> SUFFICES ASSUME NEW n \in 1 .. Len(lines'), NoneMalformed(n)'
                 PROVE  n <= Len(respQueues) /\ lines'[n].to = respQueues[n]
      BY <2>1 DEF LinesInOrder
    <3>1. CASE n \in 1 .. Len(lines)
      BY <2>2, <2>3, <2>6, <3>1 DEF Aligned, LinesInOrder
    <3>2. CASE n = Len(lines) + 1
      <4>1. NoneMalformed(Len(lines))
        BY <2>2, <2>4, <3>2
      <4>2. wire[1].id = respQueues[Len(lines) + 1] /\ Len(lines) + 1 <= Len(respQueues)
        BY <2>2, <2>5, <2>6, <4>1
      <4> QED  BY <2>1, <2>2, <3>2, <4>2
    <3> QED  BY <2>2, <3>1, <3>2
  <2>7. ASSUME receiver PROVE WireInOrder'
    <3> SUFFICES ASSUME NoneMalformed(Len(lines))'
                 PROVE  /\ Len(lines') + Len(wire') <= Len(respQueues)
                        /\ \A m \in 1 .. Len(wire') : wire'[m].id = respQueues[Len(lines') + m]
                        /\ link = "up" => Len(respQueues) = Len(lines') + Len(wire')
      BY <2>1 DEF WireInOrder
    <3>1. NoneMalformed(Len(lines))
      BY <2>4
    <3>2. ASSUME NEW m \in 1 .. Len(wire') PROVE wire'[m].id = respQueues[Len(lines') + m]
      <4>1. m + 1 \in 1 .. Len(wire) /\ Len(lines) + (m + 1) = Len(lines') + m
        BY <2>2
      <4>2. wire'[m] = wire[m + 1] /\ wire[m + 1].id = respQueues[Len(lines) + (m + 1)]
        BY <2>2, <2>5, <2>7, <3>1, <4>1
      <4> QED  BY <4>1, <4>2
    <3>3. /\ Len(lines) + Len(wire) <= Len(respQueues)
          /\ link = "up" => Len(respQueues) = Len(lines) + Len(wire)
      BY <2>5, <2>7, <3>1
    <3>4. Len(lines') + Len(wire') = Len(lines) + Len(wire)
      BY <2>2
    <3> QED  BY <3>2, <3>3, <3>4
  <2> QED  BY <2>1, <2>6, <2>7 DEF Aligned
<1>7. CASE Breaks
  <2>1. link = "up" /\ UNCHANGED <<respQueues, sender, receiver>>
    BY <1>7 DEF Breaks
  <2>2. CASE link' = "lost" /\ wire' = << >> /\ UNCHANGED lines
    <3>1. LinesInOrder => LinesInOrder'
      BY <2>1, <2>2 DEF LinesInOrder, NoneMalformed
    <3>2. WireInOrder => WireInOrder'
      BY <1>0, <2>1, <2>2 DEF WireInOrder, NoneMalformed
    <3> QED  BY <2>1, <2>2, <3>1, <3>2 DEF Aligned
  <2>3. CASE lines' = Append(lines, [to |-> 0, report |-> NoReport]) /\ UNCHANGED <<link, wire>>
    <3>1. /\ Len(lines') = Len(lines) + 1 /\ lines'[Len(lines) + 1].to = 0
          /\ \A m \in 1 .. Len(lines) : lines'[m] = lines[m]
          /\ Len(lines) \in Nat
      BY <1>0, <2>3
    <3>2. ASSUME NEW n \in 1 .. Len(lines'), NoneMalformed(n)'
          PROVE  n \in 1 .. Len(lines) /\ NoneMalformed(n)
      <4>1. n # Len(lines) + 1
        BY <3>1, <3>2 DEF NoneMalformed
      <4> QED  BY <3>1, <3>2, <4>1 DEF NoneMalformed
    <3>3. ~NoneMalformed(Len(lines))'
      BY <1>0, <3>1 DEF NoneMalformed
    <3>4. LinesInOrder => LinesInOrder'
      BY <2>1, <3>1, <3>2 DEF LinesInOrder
    <3>5. WireInOrder'
      BY <3>3 DEF WireInOrder
    <3> QED  BY <2>1, <2>3, <3>4, <3>5 DEF Aligned
  <2> QED  BY <1>7, <2>2, <2>3 DEF Breaks
<1>8. CASE Connects
  BY <1>8 DEF Connects, Connect, Aligned, LinesInOrder, WireInOrder
<1>9. CASE Shuts
  BY <1>9 DEF Shuts, Aligned, LinesInOrder, WireInOrder, NoneMalformed
<1>10. CASE Closes
  BY <1>10 DEF Closes, Aligned
<1> QED
  BY <1>2, <1>3, <1>4, <1>5, <1>6, <1>7, <1>8, <1>9, <1>10 DEF ClientStep
--------------------------------------------------------------------------------
\* What the client has in its queues, whoever calls it.
ClientInv == PhaseInv /\ NumbersBounded /\ QueuesTyped /\ Aligned

LEMMA ClientStarts == Init => ClientInv /\ ResponsesMatch
<1> SUFFICES ASSUME Init PROVE ClientInv /\ ResponsesMatch
  OBVIOUS
<1> USE ManagerCalls, BoundsAreNumbers DEF Init, ClientInit
<1>1. PhaseInv
  BY DEF PhaseInv, ManagerTypes, ChildrenFirst, ManagerWaits
<1>2. NumbersBounded
  BY DEF NumbersBounded
<1>3. QueuesTyped
  <2>1. << >> \in Seq(Lines) /\ << >> \in Seq(Requests) /\ << >> \in Seq(Ids)
        /\ << >> \in Seq(Requests \cup {Stop})
    OBVIOUS
  <2>2. waits \in [Callers -> Ids \cup {0}] /\ inbox = {}
    OBVIOUS
  <2>3. /\ sendQueue = << >> /\ respQueues = << >> /\ wire = << >> /\ lines = << >>
        /\ started \in BOOLEAN /\ sender \in BOOLEAN /\ receiver \in BOOLEAN
        /\ link = "none" /\ pending = {} /\ hardware \in [Bits -> BOOLEAN]
    OBVIOUS
  <2> HIDE DEF Init, ClientInit
  <2> QED  BY <2>1, <2>2, <2>3 DEF QueuesTyped, ClientTypeOK
<1>4. Aligned
  BY DEF Aligned, LinesInOrder, WireInOrder
<1>5. ResponsesMatch
  BY DEF ResponsesMatch
<1> QED  BY <1>1, <1>2, <1>3, <1>4, <1>5 DEF ClientInv

LEMMA ClientStays ==
  ASSUME ClientInv, [Next]_vars
  PROVE  ClientInv' /\ ClientStep
<1>1. PhaseInv' /\ NumbersBounded'
  BY PhasesStay, NumbersStayBounded DEF ClientInv, QueuesTyped, ClientTypeOK
<1>2. ClientStep
  BY StepsOfTheClient DEF ClientInv
<1>3. QueuesTyped' /\ Aligned'
  BY <1>2, QueuesStayTyped, QueuesStayAligned DEF ClientInv
<1> QED  BY <1>1, <1>2, <1>3 DEF ClientInv

LEMMA ResponsesStayMatched ==
  ASSUME ClientInv, ClientStep, ResponsesMatch
  PROVE  ResponsesMatch'
<1> USE DEF ResponsesMatch
<1>1. CASE inbox' \subseteq inbox
  BY <1>1
<1>2. CASE Respond
  <2>1. /\ receiver /\ lines # << >> /\ respQueues # << >> /\ Head(lines).to # 0
        /\ \A e \in inbox' : \/ e \in inbox
                             \/ e.queue = Head(respQueues) /\ e.response = Head(lines)
    BY <1>2 DEF Respond
  <2>2. lines \in Seq(Lines) /\ respQueues \in Seq(Ids)
    BY DEF ClientInv, QueuesTyped, ClientTypeOK
  <2>3. Head(lines) = lines[1] /\ 1 \in 1 .. Len(lines) /\ Head(respQueues) = respQueues[1]
    BY <2>1, <2>2
  <2>4. NoneMalformed(1)
    BY <2>1, <2>3 DEF NoneMalformed
  <2>5. Head(lines).to = Head(respQueues)
    BY <2>1, <2>3, <2>4 DEF ClientInv, Aligned, LinesInOrder
  <2> QED  BY <2>1, <2>5
<1>3. CASE ~Respond
  <2>1. inbox' \subseteq inbox
    BY <1>3 DEF ClientStep, Drops, Asks, Dropped, SendNext, ReceiveFails, ReceiveEnds,
      PandAAnswers, FieldChanges, Breaks, Connects, Stops, Shuts, Closes, Rests, clientVars
  <2> QED  BY <1>1, <2>1
<1> QED  BY <1>2, <1>3

\* Each response that somebody waits for is the response to the request he made, with
\* any number of callers, lost connections, malformed lines and late answers, and calls
\* that overlap (send, _send_loop, _recv_loop, _respond).
THEOREM ResponsesFindTheirRequest == Spec => []ResponsesMatch
<1>1. Init => ClientInv /\ ResponsesMatch
  BY ClientStarts
<1>2. (ClientInv /\ ResponsesMatch) /\ [Next]_vars => (ClientInv /\ ResponsesMatch)'
  BY ClientStays, ResponsesStayMatched
<1> QED  BY <1>1, <1>2, PTL DEF Spec

--------------------------------------------------------------------------------
(***************************************************************************)
(* No pulse is missed                                                      *)
(***************************************************************************)
BitsTyped ==
  /\ bitOuts \in BitValues /\ deferred \in BitValues /\ telling \in BitValues
  /\ DOMAIN deferred \subseteq DOMAIN bitOuts
  /\ shown \in [Bits -> BOOLEAN] /\ missed \subseteq Bits

\* _bit_outs holds what the blocks show, or are about to; what is deferred differs.
PulseInv ==
  /\ BitsTyped
  /\ DOMAIN bitOuts \in {{}, Bits}
  /\ ~children \/ resetting = "bits" =>
       /\ DOMAIN bitOuts = {} /\ DOMAIN telling = {} /\ missed = {}
       /\ \A b \in Bits : shown[b] = FALSE
  /\ poll = "no" => DOMAIN telling = {}
  /\ poll = "asked" => DOMAIN deferred = {}
  /\ \A b \in DOMAIN bitOuts :
       /\ b \in DOMAIN telling => bitOuts[b] = telling[b]
       /\ b \in DOMAIN telling \ missed => telling[b] # shown[b]
       /\ b \notin DOMAIN telling \cup missed => bitOuts[b] = shown[b]
       /\ b \in DOMAIN deferred => deferred[b] # bitOuts[b]

LEMMA BitValuesAre ==
  ASSUME NEW v \in BitValues
  PROVE  /\ DOMAIN v \subseteq Bits /\ v = [b \in DOMAIN v |-> v[b]]
         /\ \A b \in DOMAIN v : v[b] \in BOOLEAN
<1>1. PICK B \in SUBSET Bits : v \in [B -> BOOLEAN]
  BY DEF BitValues
<1> QED  BY <1>1

LEMMA BitValuesHave ==
  ASSUME NEW B \in SUBSET Bits, NEW v \in [B -> BOOLEAN]
  PROVE  v \in BitValues /\ DOMAIN v = B
BY DEF BitValues

LEMMA NoBitsHave == NoBits \in BitValues /\ DOMAIN NoBits = {}
<1>1. NoBits \in [{} -> BOOLEAN] /\ {} \in SUBSET Bits
  BY DEF NoBits
<1> QED  BY <1>1, BitValuesHave

LEMMA WholeOrNone ==
  ASSUME NEW v \in BitValues, v # NoBits
  PROVE  DOMAIN v # {}
<1> SUFFICES ASSUME DOMAIN v = {} PROVE v = NoBits
  OBVIOUS
<1> QED  BY BitValuesAre DEF NoBits

LEMMA UpdatedHas ==
  ASSUME NEW old \in BitValues, NEW new \in BitValues
  PROVE  /\ Updated(old, new) \in BitValues
         /\ DOMAIN Updated(old, new) = DOMAIN new \cup DOMAIN old
         /\ \A b \in DOMAIN new : Updated(old, new)[b] = new[b]
         /\ \A b \in DOMAIN old \ DOMAIN new : Updated(old, new)[b] = old[b]
<1>1. /\ DOMAIN new \cup DOMAIN old \in SUBSET Bits
      /\ \A b \in DOMAIN new : new[b] \in BOOLEAN
      /\ \A b \in DOMAIN old : old[b] \in BOOLEAN
  BY BitValuesAre
<1>2. Updated(old, new) \in [DOMAIN new \cup DOMAIN old -> BOOLEAN]
  BY <1>1 DEF Updated
<1>3. /\ \A b \in DOMAIN new : Updated(old, new)[b] = new[b]
      /\ \A b \in DOMAIN old \ DOMAIN new : Updated(old, new)[b] = old[b]
  BY DEF Updated
<1> QED  BY <1>1, <1>2, <1>3, BitValuesHave

\* What is shown of all bits stays a value of all of them.
LEMMA ShownStaysWhole ==
  ASSUME NEW old \in [Bits -> BOOLEAN], NEW new \in BitValues
  PROVE  /\ Updated(old, new) \in [Bits -> BOOLEAN]
         /\ \A b \in DOMAIN new : Updated(old, new)[b] = new[b]
         /\ \A b \in Bits \ DOMAIN new : Updated(old, new)[b] = old[b]
<1>1. DOMAIN new \subseteq Bits /\ \A b \in DOMAIN new : new[b] \in BOOLEAN
  BY BitValuesAre
<1>2. DOMAIN new \cup DOMAIN old = Bits
  BY <1>1
<1> QED  BY <1>1, <1>2 DEF Updated
\* What a poll makes of the lines of *CHANGES?.
LEMMA HandledBits ==
  ASSUME PulseInv, children, resetting # "bits", poll = "asked",
         NEW report \in Reports, Handle(report)
  PROVE  /\ BitsTyped' /\ DOMAIN bitOuts' = DOMAIN bitOuts
         /\ DOMAIN telling \subseteq DOMAIN telling'
         /\ \A b \in DOMAIN bitOuts :
              /\ b \in DOMAIN telling' => bitOuts'[b] = telling'[b]
              /\ b \in DOMAIN telling' \ missed => telling'[b] # shown[b]
              /\ b \notin DOMAIN telling' \cup missed => bitOuts'[b] = shown[b]
              /\ b \in DOMAIN deferred' => deferred'[b] # bitOuts'[b]
              /\ b \in DOMAIN report /\ b \notin DOMAIN deferred' => telling'[b] = report[b]
              /\ b \in DOMAIN deferred' => b \in DOMAIN report /\ deferred'[b] = report[b]
              /\ b \notin DOMAIN report => bitOuts'[b] = bitOuts[b]
         /\ DOMAIN telling' = DOMAIN telling \cup Reported(report)
<1> DEFINE toShow == [b \in Reported(report) |-> ShownBit(b, report)]
           updated == Updated(bitOuts, toShow)
<1>0. \A b \in DOMAIN report : report[b] \in BOOLEAN
  <2>1. PICK F \in SUBSET Fields : report \in [F -> BOOLEAN]
    BY DEF Reports
  <2> QED  BY <2>1
<1>1. BitsTyped /\ DOMAIN deferred = {}
  BY DEF PulseInv
<1>2. /\ \A b \in DOMAIN bitOuts : bitOuts[b] \in BOOLEAN
      /\ \A b \in DOMAIN telling : telling[b] \in BOOLEAN
      /\ DOMAIN bitOuts \subseteq Bits /\ DOMAIN telling \subseteq Bits
  BY <1>1, BitValuesAre DEF BitsTyped
<1>3. \A b \in Reported(report) : ShownBit(b, report) \in BOOLEAN
  BY <1>0, <1>2 DEF Reported, ShownBit
<1>4. toShow \in BitValues /\ DOMAIN toShow = Reported(report)
  <2>1. Reported(report) \in SUBSET Bits /\ toShow \in [Reported(report) -> BOOLEAN]
    BY <1>3 DEF Reported
  <2> QED  BY <2>1, BitValuesHave
<1>5. /\ DOMAIN updated = Reported(report) \cup DOMAIN bitOuts /\ updated \in BitValues
      /\ \A b \in Reported(report) : updated[b] = ShownBit(b, report)
      /\ \A b \in DOMAIN bitOuts \ Reported(report) : updated[b] = bitOuts[b]
  <2> HIDE DEF toShow
  <2>2. /\ Updated(bitOuts, toShow) \in BitValues
        /\ DOMAIN Updated(bitOuts, toShow) = DOMAIN toShow \cup DOMAIN bitOuts
        /\ \A b \in DOMAIN toShow : Updated(bitOuts, toShow)[b] = toShow[b]
        /\ \A b \in DOMAIN bitOuts \ DOMAIN toShow : Updated(bitOuts, toShow)[b] = bitOuts[b]
    BY <1>1, <1>4, UpdatedHas DEF BitsTyped
  <2>3. \A b \in Reported(report) : toShow[b] = ShownBit(b, report)
    BY DEF toShow
  <2> QED  BY <1>4, <2>2, <2>3
<1>6. /\ telling' \in BitValues /\ DOMAIN telling' = DOMAIN telling \cup Reported(report)
      /\ \A b \in Reported(report) : telling'[b] = ShownBit(b, report)
      /\ \A b \in DOMAIN telling \ Reported(report) : telling'[b] = telling[b]
  <2>1. telling' = Updated(telling, toShow)
    BY DEF Handle
  <2> HIDE DEF toShow
  <2>2. /\ Updated(telling, toShow) \in BitValues
        /\ DOMAIN Updated(telling, toShow) = DOMAIN toShow \cup DOMAIN telling
        /\ \A b \in DOMAIN toShow : Updated(telling, toShow)[b] = toShow[b]
        /\ \A b \in DOMAIN telling \ DOMAIN toShow : Updated(telling, toShow)[b] = telling[b]
    BY <1>1, <1>4, UpdatedHas DEF BitsTyped
  <2>3. \A b \in Reported(report) : toShow[b] = ShownBit(b, report)
    BY DEF toShow
  <2> QED  BY <1>4, <2>1, <2>2, <2>3
<1>7. bitOuts' = [b \in DOMAIN bitOuts |-> updated[b]]
  BY DEF Handle
<1> HIDE DEF toShow, updated
<1>8. \A b \in DOMAIN updated : updated[b] \in BOOLEAN
  BY <1>5, BitValuesAre
<1>9. bitOuts' \in BitValues /\ DOMAIN bitOuts' = DOMAIN bitOuts
  <2>1. bitOuts' \in [DOMAIN bitOuts -> BOOLEAN]
    BY <1>5, <1>7, <1>8
  <2> QED  BY <1>2, <2>1, BitValuesHave
<1>10. /\ deferred' \in BitValues
       /\ \A b : b \in DOMAIN deferred' <=>
                   /\ b \in Reported(report) /\ b \in DOMAIN bitOuts
                   /\ ShownBit(b, report) # report[b]
       /\ \A b \in DOMAIN deferred' : deferred'[b] = report[b]
  <2> DEFINE B == {k \in Reported(report) \cap DOMAIN bitOuts : ShownBit(k, report) # report[k]}
  <2>1. deferred' = [b \in B |-> report[b]]
    BY DEF Handle, NewDeferred
  <2>2. B \in SUBSET Bits /\ \A b \in B : report[b] \in BOOLEAN
    BY <1>0 DEF Reported
  <2>3. deferred' \in [B -> BOOLEAN]
    BY <2>1, <2>2
  <2>4. deferred' \in BitValues /\ DOMAIN deferred' = B
    BY <2>2, <2>3, BitValuesHave
  <2> QED  BY <2>1, <2>4
<1>11. shown' = shown /\ missed' = missed
  BY DEF Handle
<1>12. BitsTyped'
  <2>1. DOMAIN deferred' \subseteq DOMAIN bitOuts'
    BY <1>9, <1>10
  <2> QED  BY <1>1, <1>6, <1>9, <1>10, <1>11, <2>1 DEF BitsTyped
<1>13. ASSUME NEW b \in DOMAIN bitOuts
       PROVE  /\ b \in DOMAIN telling' => bitOuts'[b] = telling'[b]
              /\ b \in DOMAIN telling' \ missed => telling'[b] # shown[b]
              /\ b \notin DOMAIN telling' \cup missed => bitOuts'[b] = shown[b]
              /\ b \in DOMAIN deferred' => deferred'[b] # bitOuts'[b]
              /\ b \in DOMAIN report /\ b \notin DOMAIN deferred' => telling'[b] = report[b]
              /\ b \in DOMAIN deferred' => b \in DOMAIN report /\ deferred'[b] = report[b]
              /\ b \notin DOMAIN report => bitOuts'[b] = bitOuts[b]
  <2>1. /\ b \in DOMAIN telling => bitOuts[b] = telling[b]
        /\ b \in DOMAIN telling \ missed => telling[b] # shown[b]
        /\ b \notin DOMAIN telling \cup missed => bitOuts[b] = shown[b]
        /\ b \in Bits
    BY <1>2 DEF PulseInv
  <2>2. bitOuts'[b] = updated[b]
    BY <1>7
  <2>3. CASE b \in Reported(report)
    <3>1. bitOuts'[b] = ShownBit(b, report) /\ telling'[b] = ShownBit(b, report)
          /\ b \in DOMAIN telling' /\ b \in DOMAIN report
      BY <1>5, <1>6, <2>2, <2>3 DEF Reported
    <3>2. b \in DOMAIN telling => ShownBit(b, report) = telling[b]
      BY DEF ShownBit
    <3>3. b \notin DOMAIN telling => ShownBit(b, report) # bitOuts[b]
      BY <1>0, <1>2, <3>1 DEF ShownBit
    <3>4. b \in DOMAIN deferred' <=> ShownBit(b, report) # report[b]
      BY <1>10, <2>3
    <3>5. b \in DOMAIN deferred' => deferred'[b] = report[b]
      BY <1>10
    <3> QED  BY <2>1, <3>1, <3>2, <3>3, <3>4, <3>5
  <2>4. CASE b \notin Reported(report)
    <3>1. bitOuts'[b] = bitOuts[b] /\ b \notin DOMAIN deferred' /\ b \notin DOMAIN report
      BY <1>5, <1>10, <2>1, <2>2, <2>4 DEF Reported
    <3>2. /\ b \in DOMAIN telling' <=> b \in DOMAIN telling
          /\ b \in DOMAIN telling => telling'[b] = telling[b]
      BY <1>6, <2>4
    <3> QED  BY <2>1, <3>1, <3>2
  <2> QED  BY <2>3, <2>4
<1> QED  BY <1>6, <1>9, <1>12, <1>13

\* What a poll sets back before it asks.
LEMMA BitsAreSetBack ==
  ASSUME BitsTyped, SetBack, DOMAIN bitOuts \in {{}, Bits}
  PROVE  /\ bitOuts' \in BitValues /\ telling' \in BitValues /\ deferred' \in BitValues
         /\ DOMAIN bitOuts' = DOMAIN bitOuts /\ DOMAIN deferred' = {}
         /\ DOMAIN telling' = DOMAIN deferred /\ telling' = deferred
         /\ \A b \in DOMAIN deferred : bitOuts'[b] = deferred[b]
         /\ \A b \in DOMAIN bitOuts \ DOMAIN deferred : bitOuts'[b] = bitOuts[b]
<1>1. /\ Updated(bitOuts, deferred) \in BitValues
      /\ DOMAIN Updated(bitOuts, deferred) = DOMAIN deferred \cup DOMAIN bitOuts
      /\ \A b \in DOMAIN deferred : Updated(bitOuts, deferred)[b] = deferred[b]
      /\ \A b \in DOMAIN bitOuts \ DOMAIN deferred : Updated(bitOuts, deferred)[b] = bitOuts[b]
  BY UpdatedHas DEF BitsTyped
<1>2. DOMAIN deferred \cup DOMAIN bitOuts = DOMAIN bitOuts
  BY DEF BitsTyped
<1> QED  BY <1>1, <1>2, NoBitsHave DEF SetBack, BitsTyped
LEMMA PulsesStay ==
  ASSUME PhaseInv, QueuesTyped, PulseInv, [Next]_vars
  PROVE  PulseInv'
<1> DEFINE Unshown == UNCHANGED <<bitOuts, deferred, telling, shown, missed>>
<1>0. BitsTyped /\ DOMAIN bitOuts \in {{}, Bits}
  BY DEF PulseInv
<1>1. ASSUME UNCHANGED <<resetting, poll, children>>, Unshown PROVE PulseInv'
  BY <1>1 DEF PulseInv, BitsTyped
<1>2. CASE Threads \/ Outside \/ Disables \/ HooksFail \/ Disable
  <2>1. Unshown /\ UNCHANGED <<poll, children>> /\ (resetting' = resetting \/ resetting' = "no")
    BY <1>2 DEF Threads, Outside, Disables, StopLoop, LoopStopped, StopClient, SenderStopped,
      ReceiverStopped, DisableEnds, HooksFail, Disable, managerVars, callVars, bitVars
  <2> QED  BY <2>1 DEF PulseInv, BitsTyped
<1>3. CASE LoopEnds \/ Connected \/ Refused \/ FindChildren \/ StartLoop \/ ResetEnds \/ Reset
  <2>1. Unshown /\ UNCHANGED <<poll, children>> /\ (resetting' = resetting \/ resetting' # "bits")
    BY <1>3 DEF LoopEnds, Connected, Refused, FindChildren, StartLoop, ResetEnds, Reset, bitVars
  <2> QED  BY <2>1 DEF PulseInv, BitsTyped
<1>4. CASE \E u \in Users : Put(u) \/ PutReturns(u) \/ PutTimesOut(u)
  BY <1>1, <1>4 DEF Put, PutReturns, PutTimesOut, managerVars, callVars, bitVars
<1>5. CASE UNCHANGED vars
  BY <1>1, <1>5 DEF vars, managerVars, callVars, bitVars
<1>6. CASE ChangesAnswered
  <2>1. children /\ resetting # "bits" /\ poll = "asked"
    BY <1>6 DEF ChangesAnswered, PhaseInv, ChildrenFirst
  <2>2. PICK report \in Reports : Handle(report)
    BY <1>6 DEF ChangesAnswered, Answers, QueuesTyped, Lines
  <2>3. poll' \in {"tell", "table"} /\ UNCHANGED <<children, resetting, shown, missed>>
    BY <1>6, <2>2 DEF ChangesAnswered, callVars, Handle
  <2>4. /\ BitsTyped' /\ DOMAIN bitOuts' = DOMAIN bitOuts
        /\ \A b \in DOMAIN bitOuts :
             /\ b \in DOMAIN telling' => bitOuts'[b] = telling'[b]
             /\ b \in DOMAIN telling' \ missed => telling'[b] # shown[b]
             /\ b \notin DOMAIN telling' \cup missed => bitOuts'[b] = shown[b]
             /\ b \in DOMAIN deferred' => deferred'[b] # bitOuts'[b]
    BY <2>1, <2>2, HandledBits
  <2> QED  BY <1>0, <2>1, <2>3, <2>4 DEF PulseInv
<1>7. CASE TableAnswered
  <2>1. Unshown /\ UNCHANGED <<children, resetting>> /\ poll' = "tell"
    BY <1>7 DEF TableAnswered, callVars, bitVars
  <2> QED  BY <2>1 DEF PulseInv, BitsTyped
<1>8. CASE TellBlocks
  <2>1. children /\ resetting # "bits" /\ UNCHANGED children /\ resetting' # "bits"
    BY <1>8 DEF TellBlocks, PhaseInv, ChildrenFirst
  <2>2. shown' = Updated(shown, telling) /\ missed' = missed \ DOMAIN telling
    BY <1>8 DEF TellBlocks
  <2>3. /\ shown' \in [Bits -> BOOLEAN]
        /\ \A b \in DOMAIN telling : shown'[b] = telling[b]
        /\ \A b \in Bits \ DOMAIN telling : shown'[b] = shown[b]
    BY <1>0, <2>2, ShownStaysWhole DEF BitsTyped
  <2>4. \A b \in DOMAIN bitOuts : b \notin missed' => bitOuts[b] = shown'[b]
    <3> SUFFICES ASSUME NEW b \in DOMAIN bitOuts, b \notin missed'
                 PROVE  bitOuts[b] = shown'[b]
      OBVIOUS
    <3>1. b \in Bits
      BY <1>0
    <3>2. CASE b \in DOMAIN telling
      BY <2>3, <3>2 DEF PulseInv
    <3>3. CASE b \notin DOMAIN telling
      BY <2>2, <2>3, <3>1, <3>3 DEF PulseInv
    <3> QED  BY <3>2, <3>3
  <2>5. CASE SetBack /\ UNCHANGED <<poll, resetting>>
    <3>1. /\ bitOuts' \in BitValues /\ telling' \in BitValues /\ deferred' \in BitValues
          /\ DOMAIN bitOuts' = DOMAIN bitOuts /\ DOMAIN deferred' = {}
          /\ DOMAIN telling' = DOMAIN deferred /\ telling' = deferred
          /\ \A b \in DOMAIN deferred : bitOuts'[b] = deferred[b]
          /\ \A b \in DOMAIN bitOuts \ DOMAIN deferred : bitOuts'[b] = bitOuts[b]
      BY <1>0, <2>5, BitsAreSetBack
    <3>2. BitsTyped'
      BY <1>0, <2>2, <2>3, <3>1 DEF BitsTyped
    <3>3. poll' = "tell"
      BY <1>8, <2>5 DEF TellBlocks
    <3>4. ASSUME NEW b \in DOMAIN bitOuts
          PROVE  /\ b \in DOMAIN telling' => bitOuts'[b] = telling'[b]
                 /\ b \in DOMAIN telling' \ missed' => telling'[b] # shown'[b]
                 /\ b \notin DOMAIN telling' \cup missed' => bitOuts'[b] = shown'[b]
      <4>1. b \in DOMAIN deferred => deferred[b] # bitOuts[b]
        BY DEF PulseInv
      <4> QED  BY <2>4, <3>1, <4>1
    <3> QED  BY <1>0, <2>1, <3>1, <3>2, <3>3, <3>4 DEF PulseInv
  <2>6. CASE telling' = NoBits /\ UNCHANGED <<bitOuts, deferred>> /\ poll' = "no"
    <3>1. BitsTyped'
      BY <1>0, <2>2, <2>3, <2>6, NoBitsHave DEF BitsTyped
    <3>2. \A b \in DOMAIN bitOuts : b \in DOMAIN deferred => deferred[b] # bitOuts[b]
      BY DEF PulseInv
    <3>3. DOMAIN telling' = {}
      BY <2>6, NoBitsHave
    <3> QED  BY <1>0, <2>1, <2>4, <2>6, <3>1, <3>2, <3>3 DEF PulseInv
  <2> QED  BY <1>8, <2>5, <2>6 DEF TellBlocks
<1>9. CASE StartPoll
  <2>1. /\ SetBack /\ poll = "no" /\ poll' = "asked" /\ children /\ resetting # "bits"
        /\ UNCHANGED <<children, resetting, shown, missed>>
    BY <1>9 DEF StartPoll, Sleeping, callVars, PhaseInv, ChildrenFirst
  <2>2. /\ bitOuts' \in BitValues /\ telling' \in BitValues /\ deferred' \in BitValues
        /\ DOMAIN bitOuts' = DOMAIN bitOuts /\ DOMAIN deferred' = {}
        /\ DOMAIN telling' = DOMAIN deferred /\ telling' = deferred
        /\ \A b \in DOMAIN deferred : bitOuts'[b] = deferred[b]
        /\ \A b \in DOMAIN bitOuts \ DOMAIN deferred : bitOuts'[b] = bitOuts[b]
    BY <1>0, <2>1, BitsAreSetBack
  <2>3. BitsTyped'
    BY <1>0, <2>1, <2>2 DEF BitsTyped
  <2>4. ASSUME NEW b \in DOMAIN bitOuts
        PROVE  /\ b \in DOMAIN telling' => bitOuts'[b] = telling'[b]
               /\ b \in DOMAIN telling' \ missed => telling'[b] # shown[b]
               /\ b \notin DOMAIN telling' \cup missed => bitOuts'[b] = shown[b]
    <3>1. /\ b \in DOMAIN deferred => deferred[b] # bitOuts[b]
          /\ b \notin missed => bitOuts[b] = shown[b]
      BY <2>1 DEF PulseInv
    <3> QED  BY <2>2, <3>1
  <2> QED  BY <1>0, <2>1, <2>2, <2>3, <2>4 DEF PulseInv
<1>10. CASE RequestTimesOut
  <2>1. /\ telling' = NoBits /\ missed' = missed \cup DOMAIN telling /\ poll' = "no"
        /\ UNCHANGED <<children, bitOuts, deferred, shown>>
        /\ resetting' = resetting \/ resetting' = "no"
    BY <1>10 DEF RequestTimesOut
  <2>2. DOMAIN telling \subseteq Bits /\ DOMAIN telling' = {} /\ telling' \in BitValues
    BY <1>0, <2>1, NoBitsHave, BitValuesAre DEF BitsTyped
  <2>3. BitsTyped'
    BY <1>0, <2>1, <2>2 DEF BitsTyped
  <2> QED  BY <1>0, <2>1, <2>2, <2>3 DEF PulseInv
<1>11. CASE BlocksAnswered
  <2>1. Unshown /\ UNCHANGED poll /\ ~children
    BY <1>11 DEF BlocksAnswered, bitVars, PhaseInv, ChildrenFirst
  <2> QED  BY <2>1 DEF PulseInv, BitsTyped
<1>12. CASE BitsAnswered
  <2>1. /\ bitOuts' = [b \in Bits |-> FALSE] /\ deferred' = NoBits /\ poll' = "asked"
        /\ UNCHANGED <<telling, shown, missed, children>>
        /\ resetting = "bits" /\ resetting' = "changes" /\ children
    BY <1>12 DEF BitsAnswered, PhaseInv, ChildrenFirst
  <2>2. bitOuts' \in BitValues /\ DOMAIN bitOuts' = Bits
    <3> bitOuts' \in [Bits -> BOOLEAN]
      BY <2>1
    <3> QED  BY BitValuesHave
  <2>3. BitsTyped'
    BY <1>0, <2>1, <2>2, NoBitsHave DEF BitsTyped
  <2>4. \A b \in Bits : bitOuts'[b] = shown[b] /\ b \notin DOMAIN telling
    BY <2>1 DEF PulseInv
  <2>5. DOMAIN deferred' = {}
    BY <2>1, NoBitsHave
  <2> QED  BY <2>1, <2>2, <2>3, <2>4, <2>5 DEF PulseInv
<1> QED
  BY <1>2, <1>3, <1>4, <1>5, <1>6, <1>7, <1>8, <1>9, <1>10, <1>11, <1>12
     DEF Next, Polls, Resets

LEMMA PulsesStart == Init => PulseInv
<1> SUFFICES ASSUME Init PROVE PulseInv
  OBVIOUS
<1>1. BitsTyped /\ DOMAIN bitOuts = {} /\ DOMAIN telling = {} /\ DOMAIN deferred = {}
  BY NoBitsHave DEF Init, BitsTyped
<1> QED  BY <1>1 DEF Init, PulseInv

\* The client and the manager have their types.
THEOREM TypeCorrect == Spec => []TypeOK
<1>1. Init => ClientInv /\ PulseInv
  BY ClientStarts, PulsesStart
<1>2. (ClientInv /\ PulseInv) /\ [Next]_vars => (ClientInv /\ PulseInv)'
  BY ClientStays, PulsesStay DEF ClientInv
<1>3. ClientInv /\ PulseInv => TypeOK
  BY DEF ClientInv, PulseInv, BitsTyped, PhaseInv, ManagerTypes, QueuesTyped, TypeOK
<1> QED  BY <1>1, <1>2, <1>3, PTL DEF Spec

\* A block is told of a bit only when it changes, and of every change but one that a
\* failed poll has kept from it, so that a pulse is seen as one: for any number of bits,
\* whatever else the PandA and its callers do (_handle_change, handle_changes).
THEOREM NoPulseIsMissed == Spec => []PulsesAreSeen
<1>1. Init => ClientInv /\ PulseInv
  BY ClientStarts, PulsesStart
<1>2. (ClientInv /\ PulseInv) /\ [Next]_vars => (ClientInv /\ PulseInv)'
  BY ClientStays, PulsesStay DEF ClientInv
<1>3. PulseInv => PulsesAreSeen
  <2> SUFFICES ASSUME PulseInv, bitOuts # NoBits, NEW b \in DOMAIN telling \ missed
               PROVE  telling[b] # shown[b]
    BY DEF PulsesAreSeen
  <2>1. bitOuts \in BitValues /\ telling \in BitValues
    BY DEF PulseInv, BitsTyped
  <2>2. DOMAIN bitOuts # {}
    BY <2>1, WholeOrNone
  <2>3. b \in DOMAIN bitOuts
    BY <2>1, <2>2, BitValuesAre DEF PulseInv
  <2> QED  BY <2>3 DEF PulseInv
<1> QED  BY <1>1, <1>2, <1>3, PTL DEF Spec
--------------------------------------------------------------------------------
(***************************************************************************)
(* Who polls, where no call overlaps another                               *)
(***************************************************************************)
NoOverlaps == OverlapCalls = FALSE /\ ResetFaulty = FALSE

\* Steps of reset() on a connection that is new.
Resetting == {"children", "blocks", "bits", "changes", "loop"}

LoopFollows ==
  /\ resetting \in Resetting \cup {"connect"} => loop = "none" /\ ~stopping
  /\ resetting = "hooks" => ~stopping /\ (loop = "runs" \/ state = "Fault")
  /\ state = "Ready" => loop = "runs" /\ ~stopping
  /\ disabling \in {"client", "sender", "receiver", "done"} => loop = "none"
  /\ state = "Disabled" => loop = "none"
  /\ poll # "no" => loop = "runs" \/ resetting = "changes"

CallsFollow ==
  /\ disabling # "no" => resetting = "no" /\ state \in {"Disabling", "Fault"}
  /\ resetting # "no" => state \in {"Resetting", "Fault"}
  /\ state = "Resetting" => resetting # "no"
  /\ state = "Disabling" => disabling # "no"

ClientFollows ==
  /\ ~started => ~sender /\ ~receiver /\ link = "none"
  /\ resetting = "connect" \/ state = "Disabled" \/ disabling = "done" => ~started
  /\ disabling \in {"sender", "receiver"} => started
  /\ disabling = "receiver" => ~sender

LoopInv == LoopFollows /\ CallsFollow /\ ClientFollows
LEMMA LoopStaysFollowed ==
  ASSUME NoOverlaps, PhaseInv, waits \in [Callers -> Ids \cup {0}], LoopInv, [Next]_vars
  PROVE  LoopInv'
<1> USE ManagerCalls DEF LoopInv, LoopFollows, CallsFollow, ClientFollows, Resetting
<1>0. ManagerTypes
  BY DEF PhaseInv
<1>1. CASE SendNext /\ UNCHANGED managerVars
  BY <1>1 DEF SendNext, managerVars, callVars
<1>2. CASE (Respond \/ ReceiveFails \/ ReceiveEnds) /\ UNCHANGED managerVars
  BY <1>2 DEF Respond, ReceiveFails, ReceiveEnds, managerVars, callVars
<1>3. CASE Outside
  BY <1>3 DEF Outside, PandAAnswers, FieldChanges, Breaks, managerVars, callVars, clientVars
<1>4. CASE ChangesAnswered
  <2>1. /\ UNCHANGED <<callVars, started, sender, receiver, link>> /\ poll = "asked"
    BY <1>4 DEF ChangesAnswered
  <2> QED  BY <2>1 DEF callVars
<1>5. CASE TableAnswered
  BY <1>5 DEF TableAnswered, callVars
<1>6. CASE TellBlocks
  BY <1>6 DEF TellBlocks, clientVars
<1>7. CASE StartPoll
  BY <1>7 DEF StartPoll, Sleeping, callVars
<1>8. CASE LoopEnds
  BY <1>8 DEF LoopEnds, Sleeping, clientVars
<1>9. CASE Connected
  BY <1>9 DEF Connected, Connect
<1>10. CASE Refused
  BY <1>10, <1>0 DEF Refused, ErrorState, clientVars
<1>11. CASE FindChildren \/ BlocksAnswered
  BY <1>11 DEF FindChildren, BlocksAnswered
<1>12. CASE BitsAnswered
  BY <1>12 DEF BitsAnswered
<1>13. CASE StartLoop \/ ResetEnds
  BY <1>13 DEF StartLoop, ResetEnds, ErrorState, clientVars
<1>14. CASE StopLoop \/ LoopStopped \/ DisableEnds
  BY <1>14, <1>0 DEF StopLoop, LoopStopped, LoopAfter, DisableEnds, ErrorState, clientVars,
    ManagerTypes
<1>15. CASE StopClient \/ SenderStopped
  BY <1>15 DEF StopClient, SenderStopped
<1>16. CASE ReceiverStopped
  BY <1>16 DEF ReceiverStopped, ReceiverAwaited
<1>17. CASE RequestTimesOut
  BY <1>17, <1>0 DEF RequestTimesOut, GivesUp, ErrorState, ManagerTypes
<1>18. CASE HooksFail
  BY <1>18 DEF HooksFail, ErrorState, clientVars
<1>19. CASE Reset
  BY <1>19 DEF Reset, NoOverlaps, clientVars
<1>20. CASE Disable
  BY <1>20 DEF Disable, NoOverlaps, clientVars
<1>21. CASE \E u \in Users : Put(u) \/ PutReturns(u) \/ PutTimesOut(u)
  BY <1>21 DEF Put, PutReturns, PutTimesOut, managerVars, callVars
<1>22. CASE UNCHANGED vars
  BY <1>22 DEF vars, clientVars, managerVars, callVars
<1> QED
  BY <1>1, <1>2, <1>3, <1>4, <1>5, <1>6, <1>7, <1>8, <1>9, <1>10, <1>11, <1>12, <1>13,
     <1>14, <1>15, <1>16, <1>17, <1>18, <1>19, <1>20, <1>21, <1>22
     DEF Next, Threads, Polls, Resets, Disables

LEMMA LoopStarts == Init => LoopInv
BY DEF Init, ClientInit, LoopInv, LoopFollows, CallsFollow, ClientFollows, Resetting

\* Where no call overlaps another and a faulty block is disabled before it is reset, a
\* block that is Ready is polled, and one that is Disabled has neither a poll loop, nor
\* threads, nor a connection (start_poll_loop, stop_poll_loop, stop).
THEOREM PollsFollowTheState ==
  ASSUME OverlapCalls = FALSE, ResetFaulty = FALSE
  PROVE  Spec => []PollFollowsState
<1>0. NoOverlaps
  BY DEF NoOverlaps
<1>1. Init => ClientInv /\ LoopInv
  BY ClientStarts, LoopStarts
<1>2. (ClientInv /\ LoopInv) /\ [Next]_vars => (ClientInv /\ LoopInv)'
  BY <1>0, ClientStays, LoopStaysFollowed DEF ClientInv, QueuesTyped, ClientTypeOK
<1>3. LoopInv => ReadyPolls /\ DisabledIsQuiet
  BY DEF LoopInv, LoopFollows, ClientFollows, ReadyPolls, DisabledIsQuiet
<1>4. Spec => []TypeOK
  BY TypeCorrect
<1> QED  BY <1>1, <1>2, <1>3, <1>4, PTL DEF Spec, PollFollowsState
--------------------------------------------------------------------------------
(***************************************************************************)
(* What the blocks show is what the PandA has                              *)
(***************************************************************************)
\* Nothing in the queues is newer than the next request, and nobody shares one.
NumbersFresh ==
  /\ \A c \in Callers : waits[c] < nextId
  /\ \A c, d \in Callers : c # d /\ waits[c] # 0 => waits[c] # waits[d]
  /\ \A i \in DOMAIN sendQueue : sendQueue[i] # Stop => sendQueue[i].id < nextId
  /\ \A i \in DOMAIN wire : wire[i].id < nextId
  /\ \A i \in DOMAIN lines : lines[i].to < nextId
  /\ \A e \in inbox : e.queue < nextId

\* The reports that the poll is about to get.
Awaited ==
  {lines[i].report : i \in {j \in DOMAIN lines : lines[j].to = waits[Manager]}}
    \cup {e.response.report : e \in Answers(Manager)}

\* Where the request *CHANGES? is, before it is answered.
AskedIn(queue) == {i \in DOMAIN queue : queue[i] # Stop /\ queue[i].what = "changes"}

PollAsks ==
  /\ poll = "asked" => waits[Manager] # 0
  /\ poll = "asked" =>
       /\ \A i \in DOMAIN sendQueue :
            sendQueue[i] # Stop /\ sendQueue[i].id = waits[Manager] => i \in AskedIn(sendQueue)
       /\ \A i \in DOMAIN wire : wire[i].id = waits[Manager] => wire[i].what = "changes"

\* The connection is polled, or about to be: reset() goes on, or its loop runs.
Intact == loop = "runs" \/ resetting \in Resetting

OnePoll ==
  /\ \A i \in AskedIn(sendQueue) :
       /\ poll = "asked" /\ sendQueue[i].id = waits[Manager] /\ Awaited = {}
       /\ \A j \in DOMAIN wire : wire[j].what # "changes"
       /\ \A j \in AskedIn(sendQueue) : i = j
  /\ \A i \in DOMAIN wire : wire[i].what = "changes" =>
       /\ poll = "asked" /\ wire[i].id = waits[Manager] /\ Awaited = {}
       /\ \A j \in DOMAIN wire : wire[j].what = "changes" => i = j

ReportsTrue ==
  poll = "asked" =>
    \A r \in Awaited : \A b \in (Bits \cap DOMAIN r) \ pending : r[b] = hardware[b]

\* The blocks show a bit as the PandA has it, once they are told and it is set back.
Told(b) ==
  /\ b \notin missed \ DOMAIN telling
  /\ hardware[b] = IF b \in DOMAIN deferred THEN deferred[b] ELSE bitOuts[b]

Arriving(b) == poll = "asked" /\ Awaited # {} /\ \A r \in Awaited : b \in DOMAIN r

\* Nothing has been reported before the blocks are made.
Early == {"children", "blocks", "bits"}

BitsTrue ==
  /\ resetting \in Early => Bits \subseteq pending
  /\ \A b \in DOMAIN bitOuts \ pending : Told(b) \/ Arriving(b)

Truths == PollAsks /\ OnePoll /\ ReportsTrue /\ BitsTrue
TruthInv == Intact => Truths
LEMMA TailsHave ==
  ASSUME NEW S, NEW q \in Seq(S), q # << >>
  PROVE  /\ Tail(q) \in Seq(S) /\ 1 \in DOMAIN q /\ Head(q) = q[1]
         /\ \A i \in DOMAIN Tail(q) : i + 1 \in DOMAIN q /\ Tail(q)[i] = q[i + 1] /\ i \in Nat
         /\ \A i \in DOMAIN q \ {1} : i - 1 \in DOMAIN Tail(q) /\ Tail(q)[i - 1] = q[i] /\ i \in Nat
OBVIOUS

LEMMA AppendsHave ==
  ASSUME NEW S, NEW q \in Seq(S), NEW x
  PROVE  /\ DOMAIN Append(q, x) = DOMAIN q \cup {Len(q) + 1} /\ Len(q) + 1 \notin DOMAIN q
         /\ Append(q, x)[Len(q) + 1] = x
         /\ \A i \in DOMAIN q : Append(q, x)[i] = q[i]
OBVIOUS

LEMMA FreshStart == Init => NumbersFresh
BY DEF Init, ClientInit, NumbersFresh

\* What the receiver reads is the response to the request that has waited longest.
LEMMA HeadsMatch ==
  ASSUME ClientInv, receiver, lines # << >>, Head(lines).to # 0
  PROVE  respQueues # << >> /\ Head(respQueues) = Head(lines).to
<1>1. lines \in Seq(Lines) /\ respQueues \in Seq(Ids)
  BY DEF ClientInv, QueuesTyped, ClientTypeOK
<1>2. Head(lines) = lines[1] /\ 1 \in 1 .. Len(lines)
  BY <1>1
<1>3. NoneMalformed(1)
  BY <1>2 DEF NoneMalformed
<1>4. 1 <= Len(respQueues) /\ lines[1].to = respQueues[1]
  BY <1>2, <1>3 DEF ClientInv, Aligned, LinesInOrder
<1> QED  BY <1>1, <1>2, <1>4

LEMMA NumbersStayFresh ==
  ASSUME ClientInv, NumbersFresh, ClientStep
  PROVE  NumbersFresh'
<1>0. /\ sendQueue \in Seq(Requests \cup {Stop}) /\ lines \in Seq(Lines)
      /\ wire \in Seq(Requests) /\ waits \in [Callers -> Ids \cup {0}]
      /\ nextId \in Nat \ {0} /\ \A i \in Ids : i \in Nat /\ i # 0
      /\ \A e \in inbox : e.queue \in Ids
      /\ \A i \in DOMAIN lines : lines[i].to \in Nat
      /\ \A i \in DOMAIN wire : wire[i].id \in Nat
      /\ \A i \in DOMAIN sendQueue : sendQueue[i] # Stop => sendQueue[i].id \in Nat
      /\ \A c \in Callers : waits[c] \in Nat
  <2>1. /\ sendQueue \in Seq(Requests \cup {Stop}) /\ lines \in Seq(Lines)
        /\ wire \in Seq(Requests) /\ waits \in [Callers -> Ids \cup {0}]
        /\ nextId \in Nat \ {0} /\ \A i \in Ids : i \in Nat /\ i # 0
        /\ \A e \in inbox : e.queue \in Ids
    BY BoundsAreNumbers DEF ClientInv, QueuesTyped, ClientTypeOK, NumbersBounded, Ids
  <2>2. \A i \in DOMAIN lines : lines[i] \in Lines
    BY <2>1
  <2>3. \A i \in DOMAIN wire : wire[i] \in Requests
    BY <2>1
  <2>4. \A i \in DOMAIN sendQueue : sendQueue[i] # Stop => sendQueue[i] \in Requests
    BY <2>1
  <2>5. \A r \in Requests : r.id \in Nat
    BY <2>1 DEF Requests
  <2>6. \A l \in Lines : l.to \in Nat
    BY <2>1 DEF Lines
  <2> QED  BY <2>1, <2>2, <2>3, <2>4, <2>5, <2>6
<1> USE DEF NumbersFresh
<1>1. ASSUME NEW c \in Callers, Drops(c) PROVE NumbersFresh'
  <2>1. /\ waits' = [waits EXCEPT ![c] = 0] /\ inbox' \subseteq inbox
        /\ UNCHANGED <<sendQueue, wire, lines, nextId>>
    BY <1>1 DEF Drops, Dropped, networkVars
  <2> QED  BY <1>0, <2>1
<1>2. ASSUME NEW c \in Callers, NEW what \in Questions, Asks(c, what) PROVE NumbersFresh'
  <2>1. /\ waits' = [waits EXCEPT ![c] = nextId] /\ inbox' \subseteq inbox
        /\ nextId' = nextId + 1 /\ UNCHANGED <<wire, lines>>
        /\ sendQueue' = Append(sendQueue, [id |-> nextId, what |-> what])
    BY <1>2 DEF Asks, Ask, Dropped, networkVars
  <2>2. /\ \A d \in Callers : waits'[d] < nextId'
        /\ \A d, e \in Callers : d # e /\ waits'[d] # 0 => waits'[d] # waits'[e]
    BY <1>0, <2>1
  <2>3. \A i \in DOMAIN sendQueue' : sendQueue'[i] # Stop => sendQueue'[i].id < nextId'
    <3> SUFFICES ASSUME NEW i \in DOMAIN sendQueue', sendQueue'[i] # Stop
                 PROVE  sendQueue'[i].id < nextId'
      OBVIOUS
    <3>1. CASE i \in DOMAIN sendQueue
      <4>1. sendQueue'[i] = sendQueue[i]
        BY <1>0, <2>1, <3>1, AppendsHave
      <4> QED  BY <1>0, <2>1, <3>1, <4>1
    <3>2. CASE i \notin DOMAIN sendQueue
      <4>1. sendQueue'[i] = [id |-> nextId, what |-> what]
        BY <1>0, <2>1, <3>2, AppendsHave
      <4> QED  BY <1>0, <2>1, <4>1
    <3> QED  BY <3>1, <3>2
  <2>4. /\ \A i \in DOMAIN wire' : wire'[i].id < nextId'
        /\ \A i \in DOMAIN lines' : lines'[i].to < nextId'
        /\ \A e \in inbox' : e.queue < nextId'
    BY <1>0, <2>1
  <2> QED  BY <2>2, <2>3, <2>4
<1>3. CASE SendNext
  <2>1. /\ sendQueue # << >> /\ sendQueue' = Tail(sendQueue)
        /\ UNCHANGED <<waits, lines, inbox, nextId>>
        /\ wire' = wire \/ (Head(sendQueue) # Stop /\ wire' = Append(wire, Head(sendQueue)))
    BY <1>3 DEF SendNext
  <2>2. \A i \in DOMAIN sendQueue' : sendQueue'[i] # Stop => sendQueue'[i].id < nextId
    BY <1>0, <2>1, TailsHave
  <2>3. Head(sendQueue) # Stop => Head(sendQueue).id < nextId
    BY <1>0, <2>1, TailsHave
  <2>4. \A i \in DOMAIN wire' : wire'[i].id < nextId
    <3>1. CASE wire' = wire
      BY <3>1
    <3>2. CASE wire' = Append(wire, Head(sendQueue)) /\ Head(sendQueue) # Stop
      <4> SUFFICES ASSUME NEW i \in DOMAIN wire' PROVE wire'[i].id < nextId
        OBVIOUS
      <4>1. CASE i \in DOMAIN wire
        <5>1. wire'[i] = wire[i]
          BY <1>0, <3>2, <4>1, AppendsHave
        <5> QED  BY <4>1, <5>1
      <4>2. CASE i \notin DOMAIN wire
        <5>1. wire'[i] = Head(sendQueue)
          BY <1>0, <3>2, <4>2, AppendsHave
        <5> QED  BY <2>3, <3>2, <5>1
      <4> QED  BY <4>1, <4>2
    <3> QED  BY <2>1, <3>1, <3>2
  <2> QED  BY <2>1, <2>2, <2>4
<1>4. CASE Respond
  <2>1. /\ receiver /\ lines # << >> /\ Head(lines).to # 0 /\ lines' = Tail(lines)
        /\ UNCHANGED <<waits, sendQueue, wire, nextId>>
        /\ \A e \in inbox' : e \in inbox \/ e.queue = Head(respQueues)
    BY <1>4 DEF Respond
  <2>2. Head(respQueues) = Head(lines).to
    BY <2>1, HeadsMatch
  <2>3. Head(lines).to < nextId /\ \A i \in DOMAIN lines' : lines'[i].to < nextId
    BY <1>0, <2>1, TailsHave
  <2> QED  BY <2>1, <2>2, <2>3
<1>5. CASE ReceiveFails
  <2>1. lines # << >> /\ lines' = Tail(lines) /\ UNCHANGED <<waits, sendQueue, wire, nextId, inbox>>
    BY <1>5 DEF ReceiveFails
  <2>2. \A i \in DOMAIN lines' : lines'[i].to < nextId
    BY <1>0, <2>1, TailsHave
  <2> QED  BY <2>1, <2>2
<1>6. CASE PandAAnswers
  <2>1. PICK line :
          /\ lines' = Append(lines, line) /\ line.to = Head(wire).id
          /\ wire # << >> /\ wire' = Tail(wire)
          /\ UNCHANGED <<waits, sendQueue, inbox, nextId>>
    BY <1>6 DEF PandAAnswers
  <2>2. Head(wire).id < nextId /\ \A i \in DOMAIN wire' : wire'[i].id < nextId
    BY <1>0, <2>1, TailsHave
  <2>3. \A i \in DOMAIN lines' : lines'[i].to < nextId
    BY <1>0, <2>1, <2>2, AppendsHave
  <2> QED  BY <2>1, <2>2, <2>3
<1>7. CASE Breaks
  <2>1. /\ UNCHANGED <<waits, sendQueue, inbox, nextId>>
        /\ wire' = wire \/ wire' = << >>
        /\ lines' = lines \/ lines' = Append(lines, [to |-> 0, report |-> NoReport])
    BY <1>7 DEF Breaks
  <2>2. \A i \in DOMAIN lines' : lines'[i].to < nextId
    <3>1. CASE lines' = lines
      BY <3>1
    <3>2. CASE lines' = Append(lines, [to |-> 0, report |-> NoReport])
      BY <1>0, <3>2, AppendsHave
    <3> QED  BY <2>1, <3>1, <3>2
  <2> QED  BY <2>1, <2>2
<1>8. CASE Connects
  BY <1>8 DEF Connects, Connect
<1>9. CASE Stops
  <2>1. sendQueue' = Append(sendQueue, Stop) /\ UNCHANGED <<waits, wire, lines, inbox, nextId>>
    BY <1>9 DEF Stops, networkVars
  <2>2. \A i \in DOMAIN sendQueue' : sendQueue'[i] # Stop => sendQueue'[i].id < nextId
    BY <1>0, <2>1, AppendsHave
  <2> QED  BY <2>1, <2>2
<1>10. CASE Closes
  BY <1>10 DEF Closes
<1>11. CASE FieldChanges \/ ReceiveEnds \/ Shuts \/ Rests
  BY <1>11 DEF FieldChanges, ReceiveEnds, Shuts, Rests, networkVars, clientVars
<1> QED
  BY <1>1, <1>2, <1>3, <1>4, <1>5, <1>6, <1>7, <1>8, <1>9, <1>10, <1>11 DEF ClientStep
LEMMA QueuesHave ==
  ASSUME ClientInv
  PROVE  /\ sendQueue \in Seq(Requests \cup {Stop}) /\ lines \in Seq(Lines) /\ wire \in Seq(Requests)
         /\ waits \in [Callers -> Ids \cup {0}] /\ nextId \in Nat \ {0}
         /\ pending \subseteq Fields /\ hardware \in [Bits -> BOOLEAN]
BY DEF ClientInv, QueuesTyped, ClientTypeOK, NumbersBounded

\* Neither the network nor the other callers touch the reports that the poll awaits.
LEMMA AwaitedStays ==
  ASSUME ClientInv, waits[Manager] # 0,
         \/ UNCHANGED <<lines, inbox, waits>>
         \/ Respond \/ ReceiveFails \/ Breaks
         \/ PandAAnswers /\ Head(wire).id # waits[Manager]
  PROVE  Awaited' = Awaited
<1>0. lines \in Seq(Lines) /\ wire \in Seq(Requests)
  BY QueuesHave
<1>1. CASE UNCHANGED <<lines, inbox, waits>>
  BY <1>1 DEF Awaited, Answers
<1>2. CASE Respond
  <2>1. /\ receiver /\ lines # << >> /\ Head(lines).to # 0 /\ lines' = Tail(lines)
        /\ UNCHANGED waits
    BY <1>2 DEF Respond
  <2>2. Head(respQueues) = Head(lines).to
    BY <2>1, HeadsMatch
  <2>3. /\ 1 \in DOMAIN lines /\ Head(lines) = lines[1]
        /\ \A i \in DOMAIN lines' : i + 1 \in DOMAIN lines /\ lines'[i] = lines[i + 1]
        /\ \A i \in DOMAIN lines \ {1} : i - 1 \in DOMAIN lines' /\ lines'[i - 1] = lines[i]
    BY <1>0, <2>1, TailsHave
  <2>4. /\ inbox \subseteq inbox'
        /\ \A e \in inbox' \ inbox : e = [queue |-> Head(respQueues), response |-> Head(lines)]
        /\ Head(respQueues) = waits[Manager] =>
             [queue |-> Head(respQueues), response |-> Head(lines)] \in inbox'
    BY <1>2, ManagerCalls DEF Respond
  <2>5. ASSUME NEW r \in Awaited PROVE r \in Awaited'
    <3>1. CASE \E e \in inbox : e.queue = waits[Manager] /\ r = e.response.report
      BY <2>1, <2>4, <3>1 DEF Awaited, Answers
    <3>2. CASE \E i \in DOMAIN lines : lines[i].to = waits[Manager] /\ r = lines[i].report
      <4>1. PICK i \in DOMAIN lines : lines[i].to = waits[Manager] /\ r = lines[i].report
        BY <3>2
      <4>2. CASE i = 1
        BY <2>1, <2>2, <2>3, <2>4, <4>1, <4>2 DEF Awaited, Answers
      <4>3. CASE i # 1
        <5>1. i - 1 \in DOMAIN lines' /\ lines'[i - 1] = lines[i]
          BY <2>3, <4>3
        <5> QED  BY <2>1, <4>1, <5>1 DEF Awaited
      <4> QED  BY <4>2, <4>3
    <3> QED  BY <3>1, <3>2 DEF Awaited, Answers
  <2>6. ASSUME NEW r \in Awaited' PROVE r \in Awaited
    <3>1. CASE \E e \in inbox' : e.queue = waits[Manager] /\ r = e.response.report
      <4>1. PICK e \in inbox' : e.queue = waits[Manager] /\ r = e.response.report
        BY <3>1
      <4>2. CASE e \in inbox
        BY <4>1, <4>2 DEF Awaited, Answers
      <4>3. CASE e \notin inbox
        <5>1. e.queue = Head(lines).to /\ e.response = lines[1]
          BY <2>2, <2>3, <2>4, <4>3
        <5> QED  BY <2>3, <4>1, <5>1 DEF Awaited
      <4> QED  BY <4>2, <4>3
    <3>2. CASE \E i \in DOMAIN lines' : lines'[i].to = waits[Manager] /\ r = lines'[i].report
      BY <2>3, <3>2 DEF Awaited
    <3> QED  BY <2>1, <3>1, <3>2 DEF Awaited, Answers
  <2> QED  BY <2>5, <2>6
<1>3. CASE ReceiveFails
  <2>1. /\ receiver /\ lines # << >> /\ lines' = Tail(lines) /\ UNCHANGED <<waits, inbox>>
        /\ Head(lines).to = 0 \/ respQueues = << >>
    BY <1>3 DEF ReceiveFails
  <2>2. Head(lines).to = 0
    BY <2>1, HeadsMatch
  <2>3. /\ 1 \in DOMAIN lines /\ Head(lines) = lines[1]
        /\ \A i \in DOMAIN lines' : i + 1 \in DOMAIN lines /\ lines'[i] = lines[i + 1]
        /\ \A i \in DOMAIN lines \ {1} : i - 1 \in DOMAIN lines' /\ lines'[i - 1] = lines[i]
    BY <1>0, <2>1, TailsHave
  <2>4. \A i \in DOMAIN lines : lines[i].to = waits[Manager] => i # 1
    BY <2>2, <2>3
  <2>5. {lines'[i].report : i \in {j \in DOMAIN lines' : lines'[j].to = waits[Manager]}}
          = {lines[i].report : i \in {j \in DOMAIN lines : lines[j].to = waits[Manager]}}
    BY <2>3, <2>4
  <2> QED  BY <2>1, <2>5 DEF Awaited, Answers
<1>4. ASSUME NEW l, l.to # waits[Manager], lines' = Append(lines, l), UNCHANGED <<waits, inbox>>
      PROVE  Awaited' = Awaited
  <2>1. /\ \A i \in DOMAIN lines : i \in DOMAIN lines' /\ lines'[i] = lines[i]
        /\ \A i \in DOMAIN lines' \ DOMAIN lines : lines'[i] = l
    BY <1>0, <1>4, AppendsHave
  <2>2. {lines'[i].report : i \in {j \in DOMAIN lines' : lines'[j].to = waits[Manager]}}
          = {lines[i].report : i \in {j \in DOMAIN lines : lines[j].to = waits[Manager]}}
    BY <1>4, <2>1
  <2> QED  BY <1>4, <2>2 DEF Awaited, Answers
<1>5. CASE Breaks
  <2>1. UNCHANGED <<waits, inbox>> /\ (lines' = lines \/ lines' = Append(lines, [to |-> 0, report |-> NoReport]))
    BY <1>5 DEF Breaks
  <2> QED  BY <1>1, <1>4, <2>1
<1>6. CASE PandAAnswers /\ Head(wire).id # waits[Manager]
  <2>1. PICK l : lines' = Append(lines, l) /\ l.to = Head(wire).id /\ UNCHANGED <<waits, inbox>>
    BY <1>6 DEF PandAAnswers
  <2> QED  BY <1>4, <1>6, <2>1
<1> QED  BY <1>1, <1>2, <1>3, <1>5, <1>6

LEMMA AwaitedByOthers ==
  ASSUME NumbersFresh, waits[Manager] # 0, ClientInv, NEW u \in Users,
         Drops(u) \/ Asks(u, "put")
  PROVE  Awaited' = Awaited /\ waits'[Manager] = waits[Manager]
<1>0. waits \in [Callers -> Ids \cup {0}] /\ u \in Callers /\ u # Manager
  BY ManagerCalls, QueuesHave
<1>1. UNCHANGED lines /\ inbox' = Dropped(u) /\ waits'[Manager] = waits[Manager]
  BY <1>0, ManagerCalls DEF Drops, Asks, Ask, networkVars
<1>2. waits[u] # waits[Manager]
  BY <1>0, ManagerCalls DEF NumbersFresh
<1>3. Answers(Manager)' = Answers(Manager)
  BY <1>1, <1>2 DEF Answers, Dropped
<1> QED  BY <1>1, <1>3 DEF Awaited
\* Where the bits and what is awaited stay, so does what is true of them.
LEMMA TruthIsKept ==
  ASSUME Truths, poll = "asked" => Awaited' = Awaited,
         UNCHANGED <<poll, bitVars, hardware, pending>>,
         resetting' \in Early => resetting \in Early
  PROVE  ReportsTrue' /\ BitsTrue'
<1>1. ReportsTrue'
  BY DEF Truths, ReportsTrue, bitVars
<1>2. ASSUME NEW b \in DOMAIN bitOuts \ pending PROVE (Told(b) \/ Arriving(b))'
  <2>1. Told(b) \/ Arriving(b)
    BY <1>2 DEF Truths, BitsTrue
  <2>2. Told(b) => Told(b)'
    BY DEF Told, bitVars
  <2>3. Arriving(b) => Arriving(b)'
    BY DEF Arriving
  <2> QED  BY <2>1, <2>2, <2>3
<1>3. bitOuts' = bitOuts /\ pending' = pending
  BY DEF bitVars
<1> QED  BY <1>1, <1>2, <1>3 DEF Truths, BitsTrue, Early

\* The sender moves the request *CHANGES? on, or drops it.
LEMMA SendingKeepsTruth ==
  ASSUME ClientInv, Truths, SendNext, UNCHANGED managerVars
  PROVE  Truths'
<1>0. /\ sendQueue # << >> /\ sendQueue' = Tail(sendQueue)
      /\ wire' = wire \/ (Head(sendQueue) # Stop /\ wire' = Append(wire, Head(sendQueue)))
      /\ UNCHANGED <<lines, inbox, waits, hardware, pending, poll, resetting, bitVars>>
  BY DEF SendNext, managerVars, callVars, pandaVars
<1>1. sendQueue \in Seq(Requests \cup {Stop}) /\ wire \in Seq(Requests)
  BY QueuesHave
<1>2. /\ 1 \in DOMAIN sendQueue /\ Head(sendQueue) = sendQueue[1]
      /\ \A i \in DOMAIN sendQueue' :
           i \in Nat /\ i + 1 \in DOMAIN sendQueue /\ sendQueue'[i] = sendQueue[i + 1]
           /\ (i = 0 => FALSE)
  BY <1>0, <1>1, TailsHave
<1>3. Awaited' = Awaited
  BY <1>0 DEF Awaited, Answers
<1>4. \A i \in DOMAIN wire' :
        \/ i \in DOMAIN wire /\ wire'[i] = wire[i]
        \/ i = Len(wire) + 1 /\ Head(sendQueue) # Stop /\ wire'[i] = Head(sendQueue)
  <2>1. CASE wire' = wire
    BY <2>1
  <2>2. CASE Head(sendQueue) # Stop /\ wire' = Append(wire, Head(sendQueue))
    BY <1>1, <2>2, AppendsHave
  <2> QED  BY <1>0, <2>1, <2>2
<1>5. PollAsks'
  <2> SUFFICES ASSUME poll = "asked"
               PROVE  /\ \A i \in DOMAIN sendQueue' :
                           sendQueue'[i] # Stop /\ sendQueue'[i].id = waits[Manager]
                             => sendQueue'[i].what = "changes"
                      /\ \A i \in DOMAIN wire' : wire'[i].id = waits[Manager]
                                                   => wire'[i].what = "changes"
                      /\ waits[Manager] # 0
    BY <1>0 DEF PollAsks, AskedIn
  <2>1. /\ \A i \in DOMAIN sendQueue :
             sendQueue[i] # Stop /\ sendQueue[i].id = waits[Manager] => sendQueue[i].what = "changes"
        /\ \A i \in DOMAIN wire : wire[i].id = waits[Manager] => wire[i].what = "changes"
        /\ waits[Manager] # 0
    BY DEF Truths, PollAsks, AskedIn
  <2> QED  BY <1>2, <1>4, <2>1
<1>6. \A i \in AskedIn(sendQueue) :
        /\ poll = "asked" /\ sendQueue[i].id = waits[Manager] /\ Awaited = {}
        /\ \A j \in DOMAIN wire : wire[j].what # "changes"
        /\ \A j \in AskedIn(sendQueue) : i = j
  BY DEF Truths, OnePoll
<1>7. \A i \in DOMAIN wire : wire[i].what = "changes" =>
        /\ poll = "asked" /\ wire[i].id = waits[Manager] /\ Awaited = {}
        /\ \A j \in DOMAIN wire : wire[j].what = "changes" => i = j
  BY DEF Truths, OnePoll
<1>8. ASSUME NEW i \in AskedIn(sendQueue')
      PROVE  /\ poll' = "asked" /\ sendQueue'[i].id = waits'[Manager] /\ Awaited' = {}
             /\ \A j \in DOMAIN wire' : wire'[j].what # "changes"
             /\ \A j \in AskedIn(sendQueue') : i = j
  <2>1. \A j \in AskedIn(sendQueue') : j \in Nat /\ j + 1 # 1 /\ j + 1 \in AskedIn(sendQueue)
    BY <1>2 DEF AskedIn
  <2>2. i + 1 \in AskedIn(sendQueue) /\ sendQueue'[i] = sendQueue[i + 1]
    BY <1>2, <1>8, <2>1 DEF AskedIn
  <2>3. \A j \in AskedIn(sendQueue') : i = j
    <3> SUFFICES ASSUME NEW j \in AskedIn(sendQueue') PROVE i = j
      OBVIOUS
    <3>1. i + 1 = j + 1 /\ i \in Nat /\ j \in Nat
      BY <1>6, <1>8, <2>1, <2>2
    <3> QED  BY <3>1
  <2>4. Head(sendQueue) # Stop => Head(sendQueue).what # "changes"
    <3> SUFFICES ASSUME Head(sendQueue) # Stop, Head(sendQueue).what = "changes" PROVE FALSE
      OBVIOUS
    <3>1. 1 \in AskedIn(sendQueue)
      BY <1>2 DEF AskedIn
    <3>2. 1 = i + 1
      BY <1>6, <2>2, <3>1
    <3> QED  BY <1>8, <2>1, <3>2
  <2> QED  BY <1>0, <1>3, <1>4, <1>6, <2>2, <2>3, <2>4
<1>9. ASSUME NEW i \in DOMAIN wire', wire'[i].what = "changes"
      PROVE  /\ poll' = "asked" /\ wire'[i].id = waits'[Manager] /\ Awaited' = {}
             /\ \A j \in DOMAIN wire' : wire'[j].what = "changes" => i = j
  <2>1. Head(sendQueue) # Stop /\ Head(sendQueue).what = "changes" => 1 \in AskedIn(sendQueue)
    BY <1>2 DEF AskedIn
  <2>2. Head(sendQueue) # Stop /\ Head(sendQueue).what = "changes" =>
          /\ poll = "asked" /\ Head(sendQueue).id = waits[Manager] /\ Awaited = {}
          /\ \A j \in DOMAIN wire : wire[j].what # "changes"
    BY <1>2, <1>6, <2>1
  <2> QED  BY <1>0, <1>3, <1>4, <1>7, <1>9, <2>2
<1>10. OnePoll'
  BY <1>8, <1>9 DEF OnePoll
<1>11. ReportsTrue' /\ BitsTrue'
  BY <1>0, <1>3, TruthIsKept
<1> QED  BY <1>5, <1>10, <1>11 DEF Truths
\* Nobody else asks for *CHANGES?.
LEMMA OthersKeepOnePoll ==
  ASSUME ClientInv, PollAsks, OnePoll, poll = "asked" => Awaited' = Awaited,
         poll' = poll, waits'[Manager] = waits[Manager],
         wire' = wire \/ wire' = << >>,
         NEW x, x = Stop \/ (x.what # "changes" /\ (poll = "asked" => x.id # waits[Manager])),
         sendQueue' = sendQueue \/ sendQueue' = Append(sendQueue, x)
  PROVE  PollAsks' /\ OnePoll'
<1>0. sendQueue \in Seq(Requests \cup {Stop}) /\ wire \in Seq(Requests)
  BY QueuesHave
<1>1. \A i \in DOMAIN wire' : i \in DOMAIN wire /\ wire'[i] = wire[i]
  OBVIOUS
<1>2. \A i \in DOMAIN sendQueue' :
        \/ i \in DOMAIN sendQueue /\ sendQueue'[i] = sendQueue[i]
        \/ sendQueue'[i] = x
  <2>1. CASE sendQueue' = sendQueue
    BY <2>1
  <2>2. CASE sendQueue' = Append(sendQueue, x)
    BY <1>0, <2>2, AppendsHave
  <2> QED  BY <2>1, <2>2
<1>3. PollAsks'
  <2> SUFFICES ASSUME poll = "asked"
               PROVE  /\ \A i \in DOMAIN sendQueue' :
                           sendQueue'[i] # Stop /\ sendQueue'[i].id = waits[Manager]
                             => sendQueue'[i].what = "changes"
                      /\ \A i \in DOMAIN wire' : wire'[i].id = waits[Manager]
                                                   => wire'[i].what = "changes"
                      /\ waits[Manager] # 0
    BY DEF PollAsks, AskedIn
  <2>1. /\ \A i \in DOMAIN sendQueue :
             sendQueue[i] # Stop /\ sendQueue[i].id = waits[Manager] => sendQueue[i].what = "changes"
        /\ \A i \in DOMAIN wire : wire[i].id = waits[Manager] => wire[i].what = "changes"
        /\ waits[Manager] # 0
    BY DEF PollAsks, AskedIn
  <2> QED  BY <1>1, <1>2, <2>1
<1>4. \A i \in AskedIn(sendQueue') : i \in AskedIn(sendQueue) /\ sendQueue'[i] = sendQueue[i]
  BY <1>2 DEF AskedIn
<1>5. OnePoll'
  BY <1>1, <1>4 DEF OnePoll
<1> QED  BY <1>3, <1>5

NoneAsked ==
  AskedIn(sendQueue) = {} /\ \A i \in DOMAIN wire : wire[i].what # "changes"

LEMMA NoneIsAsked ==
  ASSUME OnePoll, poll # "asked" \/ Awaited # {}
  PROVE  NoneAsked
BY DEF OnePoll, NoneAsked

\* The manager asks for something else, or for nothing.
LEMMA NoneStaysAsked ==
  ASSUME ClientInv, NoneAsked, poll' # "asked", wire' = wire \/ wire' = << >>,
         NEW x, x = Stop \/ x.what # "changes",
         sendQueue' = sendQueue \/ sendQueue' = Append(sendQueue, x)
  PROVE  PollAsks' /\ OnePoll' /\ ReportsTrue'
<1>0. sendQueue \in Seq(Requests \cup {Stop}) /\ wire \in Seq(Requests)
  BY QueuesHave
<1>1. \A i \in DOMAIN wire' : i \in DOMAIN wire /\ wire'[i] = wire[i]
  OBVIOUS
<1>2. AskedIn(sendQueue') = {}
  <2>1. CASE sendQueue' = sendQueue
    BY <2>1 DEF NoneAsked
  <2>2. CASE sendQueue' = Append(sendQueue, x)
    BY <1>0, <2>2, AppendsHave DEF NoneAsked, AskedIn
  <2> QED  BY <2>1, <2>2
<1> QED  BY <1>1, <1>2 DEF NoneAsked, OnePoll, PollAsks, ReportsTrue

\* The manager asks for *CHANGES?, with a number that nothing has yet.
LEMMA PollStarts ==
  ASSUME ClientInv, ResponsesMatch, NumbersFresh, NoneAsked, Asks(Manager, "changes"),
         poll' = "asked"
  PROVE  PollAsks' /\ OnePoll' /\ ReportsTrue' /\ Awaited' = {}
<1> DEFINE x == [id |-> nextId, what |-> "changes"]
<1>0. sendQueue \in Seq(Requests \cup {Stop}) /\ wire \in Seq(Requests)
      /\ nextId \in Nat \ {0} /\ waits \in [Callers -> Ids \cup {0}]
  BY QueuesHave
<1>1. /\ sendQueue' = Append(sendQueue, x) /\ waits'[Manager] = nextId
      /\ UNCHANGED <<lines, wire>> /\ inbox' \subseteq inbox
  BY <1>0, ManagerCalls DEF Asks, Ask, Dropped, networkVars
<1>2. /\ x.id = nextId /\ x.what = "changes"
      /\ Len(sendQueue) + 1 \in DOMAIN sendQueue'
      /\ sendQueue'[Len(sendQueue) + 1] = x
      /\ \A i \in DOMAIN sendQueue' : i # Len(sendQueue) + 1 =>
           i \in DOMAIN sendQueue /\ sendQueue'[i] = sendQueue[i]
  BY <1>0, <1>1, AppendsHave
<1>3. /\ \A i \in DOMAIN sendQueue : sendQueue[i] # Stop => sendQueue[i].id # nextId
      /\ \A i \in DOMAIN wire : wire[i].id # nextId
      /\ \A i \in DOMAIN lines : lines[i].to # nextId
      /\ \A e \in inbox : e.queue # nextId
  BY <1>0 DEF NumbersFresh
<1> HIDE DEF x
<1>4. Awaited' = {}
  BY <1>1, <1>3 DEF Awaited, Answers
<1>5. PollAsks'
  BY <1>0, <1>1, <1>2, <1>3 DEF PollAsks, AskedIn
<1>6. \A i \in AskedIn(sendQueue') : i = Len(sendQueue) + 1
  BY <1>2 DEF NoneAsked, AskedIn
<1>7. OnePoll'
  BY <1>1, <1>2, <1>4, <1>6 DEF NoneAsked, OnePoll
<1> QED  BY <1>4, <1>5, <1>7 DEF ReportsTrue
LEMMA PandAKeepsTruth ==
  ASSUME ClientInv, Truths, PandAAnswers, UNCHANGED managerVars,
         poll = "asked" => resetting \notin Early
  PROVE  Truths'
<1>0. /\ wire # << >> /\ wire' = Tail(wire)
      /\ UNCHANGED <<sendQueue, waits, inbox, hardware, poll, resetting, bitVars>>
  BY DEF PandAAnswers, managerVars, callVars
<1>1. wire \in Seq(Requests) /\ lines \in Seq(Lines) /\ hardware \in [Bits -> BOOLEAN]
  BY QueuesHave
<1>2. /\ 1 \in DOMAIN wire /\ Head(wire) = wire[1]
      /\ \A i \in DOMAIN wire' :
           i \in Nat /\ i + 1 \in DOMAIN wire /\ wire'[i] = wire[i + 1] /\ i + 1 # 1
  <2>1. /\ 1 \in DOMAIN wire /\ Head(wire) = wire[1]
        /\ \A i \in DOMAIN wire' : i \in Nat /\ i + 1 \in DOMAIN wire /\ wire'[i] = wire[i + 1]
    BY <1>0, <1>1, TailsHave
  <2>2. \A i \in DOMAIN wire' : i + 1 # 1
    BY <1>0, <1>1
  <2> QED  BY <2>1, <2>2
<1>3. \A i \in DOMAIN wire : wire[i].what = "changes" =>
        /\ poll = "asked" /\ wire[i].id = waits[Manager] /\ Awaited = {}
        /\ \A j \in DOMAIN wire : wire[j].what = "changes" => i = j
  BY DEF Truths, OnePoll
<1>4. PollAsks'
  <2> SUFFICES ASSUME poll = "asked"
               PROVE  /\ \A i \in DOMAIN sendQueue :
                           sendQueue[i] # Stop /\ sendQueue[i].id = waits[Manager]
                             => i \in AskedIn(sendQueue)
                      /\ \A i \in DOMAIN wire' : wire'[i].id = waits[Manager]
                                                   => wire'[i].what = "changes"
                      /\ waits[Manager] # 0
    BY <1>0 DEF PollAsks, AskedIn
  <2>1. /\ \A i \in DOMAIN sendQueue :
             sendQueue[i] # Stop /\ sendQueue[i].id = waits[Manager] => i \in AskedIn(sendQueue)
        /\ \A i \in DOMAIN wire : wire[i].id = waits[Manager] => wire[i].what = "changes"
        /\ waits[Manager] # 0
    BY DEF Truths, PollAsks
  <2> QED  BY <1>2, <2>1
<1>5. CASE wire[1].what = "changes"
  <2>1. poll = "asked" /\ wire[1].id = waits[Manager] /\ Awaited = {}
    BY <1>2, <1>3, <1>5
  <2>2. \A i \in DOMAIN wire' : wire'[i].what # "changes"
    BY <1>2, <1>3, <1>5
  <2>3. AskedIn(sendQueue) = {}
    BY <1>2, <1>5 DEF Truths, OnePoll
  <2>4. OnePoll'
    BY <1>0, <2>2, <2>3 DEF OnePoll, AskedIn
  <2> DEFINE l == [to |-> waits[Manager], report |-> Report]
  <2>5. lines' = Append(lines, l) /\ pending' = {}
    BY <1>2, <1>5, <2>1 DEF PandAAnswers
  <2>6. Awaited' = {Report}
    <3>0. l.to = waits[Manager] /\ l.report = Report
      OBVIOUS
    <3> HIDE DEF l
    <3>1. /\ Len(lines) + 1 \in DOMAIN lines' /\ lines'[Len(lines) + 1] = l
          /\ \A i \in DOMAIN lines' : i # Len(lines) + 1 =>
               i \in DOMAIN lines /\ lines'[i] = lines[i]
      BY <1>1, <2>5, AppendsHave
    <3>2. /\ \A i \in DOMAIN lines : lines[i].to # waits[Manager]
          /\ Answers(Manager) = {}
      BY <2>1 DEF Awaited
    <3>3. {j \in DOMAIN lines' : lines'[j].to = waits[Manager]} = {Len(lines) + 1}
      BY <3>0, <3>1, <3>2
    <3>4. Answers(Manager)' = {}
      BY <1>0, <3>2 DEF Answers
    <3> QED  BY <1>0, <3>0, <3>1, <3>3, <3>4 DEF Awaited
  <2>7. DOMAIN Report = pending /\ \A b \in pending \cap Bits : Report[b] = hardware[b]
    <3>1. \A b \in Bits : (b \in Bits /\ hardware[b]) = hardware[b]
      BY <1>1
    <3> QED  BY <3>1 DEF Report
  <2>8. ReportsTrue'
    BY <1>0, <2>6, <2>7 DEF ReportsTrue
  <2>9. BitsTrue'
    <3>1. ASSUME NEW b \in DOMAIN bitOuts PROVE (Told(b) \/ Arriving(b))'
      <4>1. CASE b \in pending
        BY <1>0, <2>1, <2>6, <2>7, <4>1 DEF Arriving
      <4>2. CASE b \notin pending
        <5>1. Told(b)
          BY <2>1, <4>2 DEF Truths, BitsTrue, Arriving
        <5> QED  BY <1>0, <5>1 DEF Told, bitVars
      <4> QED  BY <4>1, <4>2
    <3>2. resetting' \notin Early /\ bitOuts' = bitOuts
      BY <1>0, <2>1 DEF bitVars
    <3> QED  BY <3>1, <3>2 DEF BitsTrue
  <2> QED  BY <1>4, <2>4, <2>8, <2>9 DEF Truths
<1>6. CASE wire[1].what # "changes"
  <2>1. poll = "asked" => Awaited' = Awaited
    <3>1. poll = "asked" => waits[Manager] # 0 /\ wire[1].id # waits[Manager]
      BY <1>2, <1>6 DEF Truths, PollAsks
    <3> QED  BY <1>2, <3>1, AwaitedStays
  <2>2. pending' = pending
    BY <1>2, <1>6 DEF PandAAnswers
  <2>3. ReportsTrue' /\ BitsTrue'
    BY <1>0, <2>1, <2>2, TruthIsKept
  <2>4. \A i \in AskedIn(sendQueue) :
          /\ poll = "asked" /\ sendQueue[i].id = waits[Manager] /\ Awaited = {}
          /\ \A j \in DOMAIN wire : wire[j].what # "changes"
          /\ \A j \in AskedIn(sendQueue) : i = j
    BY DEF Truths, OnePoll
  <2>5. ASSUME NEW i \in DOMAIN wire', wire'[i].what = "changes"
        PROVE  /\ poll = "asked" /\ wire'[i].id = waits[Manager] /\ Awaited = {}
               /\ \A j \in DOMAIN wire' : wire'[j].what = "changes" => i = j
    <3>1. poll = "asked" /\ wire'[i].id = waits[Manager] /\ Awaited = {}
      BY <1>2, <1>3, <2>5
    <3>2. ASSUME NEW j \in DOMAIN wire', wire'[j].what = "changes" PROVE i = j
      <4>1. i + 1 = j + 1 /\ i \in Nat /\ j \in Nat
        BY <1>2, <1>3, <2>5, <3>2
      <4> QED  BY <4>1
    <3> QED  BY <3>1, <3>2
  <2>6. \A i \in AskedIn(sendQueue) : \A j \in DOMAIN wire' : wire'[j].what # "changes"
    BY <1>2, <2>4
  <2>7. OnePoll'
    BY <1>0, <2>1, <2>4, <2>5, <2>6 DEF OnePoll, AskedIn
  <2> QED  BY <1>4, <2>3, <2>7 DEF Truths
<1> QED  BY <1>5, <1>6

\* A bit that changes is one that the PandA has to report.
LEMMA ChangesKeepTruth ==
  ASSUME ClientInv, BitsTyped, Truths, FieldChanges, UNCHANGED managerVars
  PROVE  Truths'
<1>0. UNCHANGED <<sendQueue, wire, lines, waits, inbox, poll, resetting, bitVars>>
  BY DEF FieldChanges, clientVars, managerVars, callVars
<1>1. PollAsks' /\ OnePoll' /\ Awaited' = Awaited
  <2>1. Awaited' = Awaited
    BY <1>0 DEF Awaited, Answers
  <2>2. AskedIn(sendQueue)' = AskedIn(sendQueue)
    BY <1>0 DEF AskedIn
  <2>3. PollAsks'
    BY <1>0, <2>2 DEF Truths, PollAsks
  <2>4. OnePoll'
    BY <1>0, <2>1, <2>2 DEF Truths, OnePoll
  <2> QED  BY <2>1, <2>3, <2>4
<1>2. PICK f \in Fields :
        pending' = pending \cup {f} /\ hardware' = [b \in Bits |-> (b = f) # hardware[b]]
  BY DEF FieldChanges
<1>3. ASSUME NEW b \in Bits, b # f PROVE hardware'[b] = hardware[b]
  <2>1. hardware \in [Bits -> BOOLEAN]
    BY QueuesHave
  <2>2. hardware'[b] = (FALSE # hardware[b]) /\ hardware[b] \in BOOLEAN
    BY <1>2, <1>3, <2>1
  <2>3. CASE hardware[b] = TRUE
    BY <2>2, <2>3
  <2>4. CASE hardware[b] = FALSE
    BY <2>2, <2>4
  <2> QED  BY <2>2, <2>3, <2>4
<1>4. ReportsTrue'
  BY <1>0, <1>1, <1>2, <1>3 DEF Truths, ReportsTrue
<1>5. BitsTrue'
  <2>1. ASSUME NEW b \in DOMAIN bitOuts \ pending', b \in Bits PROVE (Told(b) \/ Arriving(b))'
    <3>1. Told(b) \/ Arriving(b)
      BY <1>2, <2>1 DEF Truths, BitsTrue
    <3>2. Told(b) => Told(b)'
      BY <1>0, <1>2, <1>3, <2>1 DEF Told, bitVars
    <3>3. Arriving(b) => Arriving(b)'
      BY <1>0, <1>1 DEF Arriving
    <3> QED  BY <3>1, <3>2, <3>3
  <2>2. bitOuts' = bitOuts /\ resetting' = resetting
    BY <1>0 DEF bitVars
  <2>3. DOMAIN bitOuts \subseteq Bits /\ pending \subseteq pending'
    BY <1>2, BitValuesAre DEF BitsTyped
  <2>4. \A b \in DOMAIN bitOuts' \ pending' : (Told(b) \/ Arriving(b))'
    BY <2>1, <2>2, <2>3
  <2>5. resetting' \in Early => Bits \subseteq pending'
    BY <2>2, <2>3 DEF Truths, BitsTrue
  <2> QED  BY <2>4, <2>5 DEF BitsTrue
<1> QED  BY <1>1, <1>4, <1>5 DEF Truths
LEMMA TruthStays ==
  ASSUME NoOverlaps, ClientInv, ResponsesMatch, NumbersFresh, PulseInv, LoopInv, TruthInv,
         [Next]_vars
  PROVE  TruthInv'
<1> SUFFICES ASSUME Intact' PROVE Truths'
  BY DEF TruthInv
<1>a. BitsTyped /\ PhaseInv /\ QueuesTyped
  BY DEF PulseInv, ClientInv
<1>b. poll # "no" \/ loop = "runs" => resetting \notin Early \cup {"connect"}
  BY DEF LoopInv, LoopFollows, Resetting, Early
<1>c. Intact => Truths
  BY DEF TruthInv
<1>1. ASSUME Intact, UNCHANGED <<clientVars, pandaVars, poll, bitVars>>,
             resetting' \in Early => resetting \in Early
      PROVE  Truths'
  <2>1. UNCHANGED <<sendQueue, lines, wire, waits, inbox, hardware, pending>>
    BY <1>1 DEF clientVars, pandaVars
  <2>2. Awaited' = Awaited
    BY <2>1 DEF Awaited, Answers
  <2>3. PollAsks' /\ OnePoll'
    BY <1>1, <1>c, <2>1, <2>2, OthersKeepOnePoll DEF Truths
  <2> QED  BY <1>1, <1>c, <2>1, <2>2, <2>3, TruthIsKept DEF Truths
<1>2. CASE SendNext /\ UNCHANGED managerVars
  <2>1. Intact
    BY <1>2 DEF Intact, managerVars, callVars
  <2> QED  BY <1>2, <1>c, <2>1, SendingKeepsTruth
<1>3. CASE (Respond \/ ReceiveFails \/ ReceiveEnds \/ Breaks) /\ UNCHANGED managerVars
  <2>1. /\ UNCHANGED <<sendQueue, waits, hardware, pending, poll, resetting, bitVars>>
        /\ wire' = wire \/ wire' = << >>
        /\ Intact
    BY <1>3 DEF Respond, ReceiveFails, ReceiveEnds, Breaks, pandaVars, managerVars, callVars, Intact
  <2>2. ReceiveEnds => UNCHANGED <<lines, inbox, waits>>
    BY DEF ReceiveEnds
  <2>3. poll = "asked" => waits[Manager] # 0
    BY <1>c, <2>1 DEF Truths, PollAsks
  <2>4. poll = "asked" => Awaited' = Awaited
    BY <1>3, <2>2, <2>3, AwaitedStays
  <2>5. PollAsks' /\ OnePoll'
    BY <1>c, <2>1, <2>4, OthersKeepOnePoll DEF Truths
  <2>6. ReportsTrue' /\ BitsTrue'
    BY <1>c, <2>1, <2>4, TruthIsKept
  <2> QED  BY <2>5, <2>6 DEF Truths
<1>4. CASE PandAAnswers /\ UNCHANGED managerVars
  <2>1. Intact
    BY <1>4 DEF Intact, managerVars, callVars
  <2>2. poll = "asked" => resetting \notin Early
    BY <1>b
  <2> QED  BY <1>4, <1>c, <2>1, <2>2, PandAKeepsTruth DEF Early
<1>5. CASE FieldChanges /\ UNCHANGED managerVars
  <2>1. Intact
    BY <1>5 DEF Intact, managerVars, callVars
  <2> QED  BY <1>5, <1>a, <1>c, <2>1, ChangesKeepTruth
<1>6. CASE ChangesAnswered
  <2>1. /\ poll = "asked" /\ poll' \in {"tell", "table"}
        /\ UNCHANGED <<resetting, loop, children, wire, hardware, pending>>
        /\ sendQueue' = sendQueue
           \/ sendQueue' = Append(sendQueue, [id |-> nextId, what |-> "table"])
    BY <1>6 DEF ChangesAnswered, Ask, callVars, pandaVars
  <2>2. PICK e \in Answers(Manager) : Handle(e.response.report)
    BY <1>6 DEF ChangesAnswered
  <2> DEFINE r == e.response.report
  <2>3. r \in Reports /\ r \in Awaited
    BY <1>a, <2>2 DEF Answers, QueuesTyped, Lines, Awaited
  <2>4. Truths /\ resetting \notin Early
    BY <1>b, <1>c, <2>1 DEF Intact
  <2>5. NoneAsked
    BY <2>3, <2>4, NoneIsAsked DEF Truths
  <2>6. PollAsks' /\ OnePoll' /\ ReportsTrue'
    <3> DEFINE x == [id |-> nextId, what |-> "table"]
    <3>1. x.what # "changes"
      OBVIOUS
    <3> HIDE DEF x
    <3>2. sendQueue' = sendQueue \/ sendQueue' = Append(sendQueue, x)
      BY <2>1 DEF x
    <3> QED  BY <2>1, <2>5, <3>1, <3>2, NoneStaysAsked
  <2>7. children /\ resetting # "bits"
    BY <1>a, <2>1 DEF PhaseInv, ChildrenFirst
  <2> HIDE DEF r
  <2>8. /\ DOMAIN bitOuts' = DOMAIN bitOuts /\ DOMAIN telling \subseteq DOMAIN telling'
        /\ \A b \in DOMAIN bitOuts :
             /\ b \in DOMAIN telling' => bitOuts'[b] = telling'[b]
             /\ b \in DOMAIN r /\ b \notin DOMAIN deferred' => telling'[b] = r[b]
             /\ b \in DOMAIN deferred' => b \in DOMAIN r /\ deferred'[b] = r[b]
             /\ b \notin DOMAIN r => bitOuts'[b] = bitOuts[b]
        /\ DOMAIN telling' = DOMAIN telling \cup Reported(r)
    BY <2>1, <2>2, <2>3, <2>7, HandledBits DEF r
  <2>9. DOMAIN bitOuts \subseteq Bits /\ DOMAIN deferred = {} /\ missed' = missed
    BY <1>a, <2>1, <2>2, BitValuesAre DEF BitsTyped, PulseInv, Handle
  <2>10. ASSUME NEW b \in DOMAIN bitOuts \ pending PROVE Told(b)'
    <3>1. CASE b \in DOMAIN r
      <4>1. r[b] = hardware[b]
        BY <2>1, <2>3, <2>4, <2>9, <2>10, <3>1 DEF Truths, ReportsTrue
      <4>2. b \in DOMAIN telling'
        BY <2>8, <2>9, <3>1 DEF Reported
      <4> QED  BY <2>1, <2>8, <3>1, <4>1, <4>2 DEF Told
    <3>2. CASE b \notin DOMAIN r
      <4>1. Told(b)
        BY <2>1, <2>3, <2>4, <2>10, <3>2 DEF Truths, BitsTrue, Arriving
      <4> QED  BY <2>1, <2>8, <2>9, <3>2, <4>1 DEF Told
    <3> QED  BY <3>1, <3>2
  <2>11. BitsTrue'
    BY <2>1, <2>4, <2>8, <2>10 DEF BitsTrue, Early
  <2> QED  BY <2>6, <2>11 DEF Truths
<1>7. CASE TableAnswered
  <2>1. /\ poll = "table" /\ poll' = "tell"
        /\ UNCHANGED <<sendQueue, wire, hardware, pending, resetting, loop, bitVars>>
    BY <1>7 DEF TableAnswered, pandaVars, callVars
  <2>2. Truths
    BY <1>c, <2>1 DEF Intact
  <2>3. PollAsks' /\ OnePoll' /\ ReportsTrue'
    BY <2>1, <2>2, NoneIsAsked, NoneStaysAsked DEF Truths
  <2>4. BitsTrue'
    BY <2>1, <2>2 DEF Truths, BitsTrue, Arriving, Told, bitVars
  <2> QED  BY <2>3, <2>4 DEF Truths
<1>8. CASE TellBlocks
  <2>1. /\ poll = "tell" /\ poll' # "asked" /\ resetting' \in {resetting, "loop"}
        /\ UNCHANGED <<sendQueue, wire, hardware, pending, loop>>
        /\ missed' = missed \ DOMAIN telling
        /\ \/ SetBack
           \/ telling' = NoBits /\ UNCHANGED <<bitOuts, deferred>>
    BY <1>8 DEF TellBlocks, clientVars, pandaVars
  <2>2. Truths /\ resetting \notin Early
    <3>1. Intact
      BY <2>1 DEF LoopInv, LoopFollows, Intact, Resetting
    <3> QED  BY <1>b, <1>c, <2>1, <3>1
  <2>3. PollAsks' /\ OnePoll' /\ ReportsTrue'
    BY <2>1, <2>2, NoneIsAsked, NoneStaysAsked DEF Truths
  <2>4. ASSUME NEW b \in DOMAIN bitOuts \ pending PROVE Told(b)' /\ DOMAIN bitOuts' = DOMAIN bitOuts
    <3>1. Told(b) /\ b \notin missed'
      BY <2>1, <2>2, <2>4 DEF Truths, BitsTrue, Arriving, Told
    <3>2. CASE SetBack
      BY <1>a, <2>1, <3>1, <3>2, BitsAreSetBack DEF Told, PulseInv
    <3>3. CASE UNCHANGED <<bitOuts, deferred>>
      BY <2>1, <3>1, <3>3 DEF Told
    <3> QED  BY <2>1, <3>2, <3>3
  <2>5. DOMAIN bitOuts' = DOMAIN bitOuts
    BY <1>a, <2>1, BitsAreSetBack DEF PulseInv
  <2>6. BitsTrue'
    BY <2>1, <2>2, <2>4, <2>5 DEF BitsTrue, Early
  <2> QED  BY <2>3, <2>6 DEF Truths
<1>9. CASE StartPoll
  <2>1. /\ loop = "runs" /\ poll = "no" /\ poll' = "asked" /\ SetBack
        /\ UNCHANGED <<hardware, pending, resetting, missed>>
    BY <1>9 DEF StartPoll, Sleeping, callVars, pandaVars
  <2>2. Truths /\ resetting \notin Early
    BY <1>b, <1>c, <2>1 DEF Intact
  <2>3. Asks(Manager, "changes")
    BY <1>9, StartedPollAsks DEF ClientInv
  <2>4. PollAsks' /\ OnePoll' /\ ReportsTrue'
    BY <2>1, <2>2, <2>3, NoneIsAsked, PollStarts DEF Truths
  <2>5. DOMAIN telling = {}
    BY <2>1 DEF PulseInv
  <2>6. /\ DOMAIN bitOuts' = DOMAIN bitOuts /\ DOMAIN deferred' = {}
        /\ \A b \in DOMAIN deferred : bitOuts'[b] = deferred[b]
        /\ \A b \in DOMAIN bitOuts \ DOMAIN deferred : bitOuts'[b] = bitOuts[b]
    BY <1>a, <2>1, BitsAreSetBack DEF PulseInv
  <2>7. ASSUME NEW b \in DOMAIN bitOuts \ pending PROVE Told(b)'
    <3>1. Told(b)
      BY <2>1, <2>2, <2>7 DEF Truths, BitsTrue, Arriving
    <3> QED  BY <2>1, <2>5, <2>6, <3>1 DEF Told
  <2>8. BitsTrue'
    BY <2>1, <2>2, <2>6, <2>7 DEF BitsTrue, Early
  <2> QED  BY <2>4, <2>8 DEF Truths
<1>10. CASE Connected
  <2>1. /\ resetting = "connect" /\ sendQueue' = << >> /\ wire' = << >> /\ pending' = Fields
        /\ UNCHANGED <<poll, bitVars>>
    BY <1>10 DEF Connected, Connect
  <2>2. poll' = "no"
    BY <1>a, <1>b, <2>1 DEF PhaseInv, ManagerTypes
  <2>3. PollAsks' /\ OnePoll' /\ ReportsTrue'
    BY <2>1, <2>2 DEF PollAsks, OnePoll, ReportsTrue, AskedIn
  <2>4. DOMAIN bitOuts' \subseteq Bits
    BY <1>a, <2>1, BitValuesAre DEF BitsTyped, bitVars
  <2>5. BitsTrue'
    BY <2>1, <2>4 DEF BitsTrue, Fields
  <2> QED  BY <2>3, <2>5 DEF Truths
<1>11. CASE FindChildren
  <2>1. resetting = "children" /\ Truths /\ Intact
    BY <1>11, <1>c DEF FindChildren, Intact, Resetting
  <2>2. CASE children
    BY <1>1, <1>11, <2>1, <2>2 DEF FindChildren, clientVars, Early
  <2>3. CASE ~children
    <3>1. /\ poll = "no" /\ resetting' = "blocks"
          /\ UNCHANGED <<wire, hardware, pending, poll, bitVars>>
      BY <1>a, <1>11, <1>b, <2>1, <2>3 DEF FindChildren, pandaVars, Early, PhaseInv, ManagerTypes
    <3> DEFINE x == [id |-> nextId, what |-> "blocks"]
    <3>2. sendQueue' = Append(sendQueue, x) /\ x.what # "changes"
      BY <1>11, <2>3 DEF FindChildren, Ask
    <3> HIDE DEF x
    <3>3. PollAsks' /\ OnePoll' /\ ReportsTrue'
      BY <2>1, <3>1, <3>2, NoneIsAsked, NoneStaysAsked DEF Truths
    <3>4. BitsTrue'
      BY <2>1, <3>1 DEF Truths, BitsTrue, Arriving, Told, bitVars, Early
    <3> QED  BY <3>3, <3>4 DEF Truths
  <2> QED  BY <2>2, <2>3
<1>12. CASE BlocksAnswered
  <2>1. resetting = "blocks" /\ Truths
    BY <1>12, <1>c DEF BlocksAnswered, Intact, Resetting
  <2>2. /\ poll = "no" /\ resetting' = "bits"
        /\ UNCHANGED <<wire, hardware, pending, poll, bitVars>>
    BY <1>a, <1>12, <1>b, <2>1 DEF BlocksAnswered, pandaVars, Early, PhaseInv, ManagerTypes
  <2> DEFINE x == [id |-> nextId, what |-> "bits"]
  <2>3. sendQueue' = Append(sendQueue, x) /\ x.what # "changes"
    BY <1>12 DEF BlocksAnswered, Ask
  <2> HIDE DEF x
  <2>4. PollAsks' /\ OnePoll' /\ ReportsTrue'
    BY <2>1, <2>2, <2>3, NoneIsAsked, NoneStaysAsked DEF Truths
  <2>5. BitsTrue'
    BY <2>1, <2>2 DEF Truths, BitsTrue, Arriving, Told, bitVars, Early
  <2> QED  BY <2>4, <2>5 DEF Truths
<1>13. CASE BitsAnswered
  <2>1. /\ resetting = "bits" /\ resetting' = "changes" /\ poll' = "asked"
        /\ bitOuts' = [b \in Bits |-> FALSE] /\ UNCHANGED <<hardware, pending>>
    BY <1>13 DEF BitsAnswered, pandaVars
  <2>2. Truths /\ poll = "no"
    BY <1>a, <1>b, <1>c, <2>1 DEF Intact, Resetting, Early, PhaseInv, ManagerTypes
  <2>3. Asks(Manager, "changes")
    BY <1>13, BitsPollAsks DEF ClientInv
  <2>4. PollAsks' /\ OnePoll' /\ ReportsTrue'
    BY <2>1, <2>2, <2>3, NoneIsAsked, PollStarts DEF Truths
  <2>5. BitsTrue'
    BY <2>1, <2>2 DEF Truths, BitsTrue, Early
  <2> QED  BY <2>4, <2>5 DEF Truths
<1>14. CASE StartLoop \/ ResetEnds
  <2>1. Intact /\ resetting' \notin Early
    BY <1>14 DEF StartLoop, ResetEnds, Intact, Resetting, Early
  <2> QED  BY <1>1, <1>14, <2>1 DEF StartLoop, ResetEnds
<1>15. CASE HooksFail
  <2>1. UNCHANGED <<clientVars, hardware, pending, poll, bitVars, loop>>
        /\ (resetting' = resetting \/ resetting' = "no")
    BY <1>15 DEF HooksFail
  <2>2. Intact /\ (resetting' \in Early => resetting \in Early)
    BY <2>1 DEF Intact, Resetting, Early
  <2>3. UNCHANGED <<sendQueue, lines, wire, waits, inbox, hardware, pending>>
    BY <2>1 DEF clientVars
  <2>4. Awaited' = Awaited
    BY <2>3 DEF Awaited, Answers
  <2>5. PollAsks' /\ OnePoll'
    BY <1>c, <2>1, <2>2, <2>3, <2>4, OthersKeepOnePoll DEF Truths
  <2> QED  BY <1>c, <2>1, <2>2, <2>3, <2>4, <2>5, TruthIsKept DEF Truths
<1>16. CASE Reset
  BY <1>16 DEF Reset, NoOverlaps, LoopInv, LoopFollows, ClientFollows, Intact, Resetting
<1>17. CASE Disable \/ StopLoop \/ LoopStopped \/ DisableEnds
  <2>1. UNCHANGED <<clientVars, pandaVars, poll, bitVars, resetting>> /\ Intact
    BY <1>17 DEF Disable, StopLoop, LoopStopped, LoopAfter, DisableEnds, Intact
  <2> QED  BY <1>1, <2>1
<1>18. CASE LoopEnds \/ Refused \/ StopClient \/ SenderStopped \/ ReceiverStopped
  BY <1>18 DEF LoopEnds, Sleeping, Refused, StopClient, SenderStopped, ReceiverStopped, LoopInv, LoopFollows,
    CallsFollow, Intact, Resetting
<1>19. CASE RequestTimesOut
  BY <1>19 DEF RequestTimesOut, LoopInv, LoopFollows, Intact, Resetting
<1>20. ASSUME NEW u \in Users, Put(u) \/ PutReturns(u) \/ PutTimesOut(u) PROVE Truths'
  <2>1. UNCHANGED <<managerVars, wire, hardware, pending>> /\ (Drops(u) \/ Asks(u, "put"))
    <3>1. UNCHANGED managerVars
      BY <1>20 DEF Put, PutReturns, PutTimesOut
    <3>2. Drops(u) \/ Asks(u, "put")
      BY <1>20, UsersStep DEF ClientInv
    <3> QED  BY <3>1, <3>2 DEF Drops, Asks, networkVars
  <2>2. UNCHANGED <<poll, resetting, bitVars>> /\ Intact
    BY <2>1 DEF managerVars, callVars, Intact
  <2>3. poll = "asked" => waits[Manager] # 0
    BY <1>c, <2>2 DEF Truths, PollAsks
  <2>4. poll = "asked" => Awaited' = Awaited
    BY <2>1, <2>3, AwaitedByOthers
  <2>5. waits'[Manager] = waits[Manager] /\ waits[Manager] # nextId
    <3>1. waits \in [Callers -> Ids \cup {0}] /\ u # Manager /\ Manager \in Callers
          /\ nextId \in Nat
      BY QueuesHave, ManagerCalls
    <3>2. waits[Manager] < nextId
      BY <3>1 DEF NumbersFresh
    <3> QED  BY <2>1, <3>1, <3>2, BoundsAreNumbers DEF Drops, Asks, Ask, Ids
  <2> DEFINE x == [id |-> nextId, what |-> "put"]
  <2>6. /\ sendQueue' = sendQueue \/ sendQueue' = Append(sendQueue, x)
        /\ x.what # "changes" /\ x.id = nextId
    BY <2>1 DEF Drops, Asks, Ask
  <2> HIDE DEF x
  <2>7. PollAsks' /\ OnePoll'
    BY <1>c, <2>1, <2>2, <2>4, <2>5, <2>6, OthersKeepOnePoll DEF Truths
  <2>8. ReportsTrue' /\ BitsTrue'
    BY <1>c, <2>1, <2>2, <2>4, TruthIsKept
  <2> QED  BY <2>7, <2>8 DEF Truths
<1>21. CASE UNCHANGED vars
  <2>1. UNCHANGED <<clientVars, pandaVars, poll, bitVars, resetting>> /\ Intact
    BY <1>21 DEF vars, managerVars, callVars, Intact
  <2> QED  BY <1>1, <2>1
<1> QED
  BY <1>2, <1>3, <1>4, <1>5, <1>6, <1>7, <1>8, <1>9, <1>10, <1>11, <1>12, <1>13, <1>14,
     <1>15, <1>16, <1>17, <1>18, <1>19, <1>20, <1>21
     DEF Next, Threads, Outside, Polls, Resets, Disables

LEMMA TruthStarts == Init => TruthInv
BY DEF Init, TruthInv, Intact, Resetting

\* Where no call overlaps another and a faulty block is disabled before it is reset,
\* between two polls each bit is shown as the PandA has it, or will be by the next poll,
\* or the PandA has still to report it, whatever polls and connections were lost before
\* (_handle_change, handle_changes, start).
THEOREM BlocksShowThePandA ==
  ASSUME OverlapCalls = FALSE, ResetFaulty = FALSE
  PROVE  Spec => []BitsInStep
<1> DEFINE Inv == /\ ClientInv /\ ResponsesMatch /\ NumbersFresh /\ PulseInv
                  /\ LoopInv /\ TruthInv
<1>0. NoOverlaps
  BY DEF NoOverlaps
<1>1. Init => Inv
  BY ClientStarts, FreshStart, PulsesStart, LoopStarts, TruthStarts
<1>2. Inv /\ [Next]_vars => Inv'
  <2> SUFFICES ASSUME Inv, [Next]_vars PROVE Inv'
    OBVIOUS
  <2>1. ClientInv' /\ ClientStep
    BY ClientStays
  <2>2. ResponsesMatch' /\ NumbersFresh'
    BY <2>1, ResponsesStayMatched, NumbersStayFresh
  <2>3. PulseInv'
    BY PulsesStay DEF ClientInv
  <2>4. LoopInv'
    BY <1>0, LoopStaysFollowed DEF ClientInv, QueuesTyped, ClientTypeOK
  <2>5. TruthInv'
    BY <1>0, TruthStays
  <2> QED  BY <2>1, <2>2, <2>3, <2>4, <2>5
<1>3. Inv => BlocksInStep
  <2> SUFFICES ASSUME Inv, loop = "runs", poll = "no", bitOuts # NoBits, NEW b \in Bits \ pending
               PROVE  hardware[b] = IF b \in DOMAIN deferred THEN deferred[b] ELSE shown[b]
    BY DEF BlocksInStep, Sleeping
  <2>1. DOMAIN bitOuts = Bits
    BY WholeOrNone DEF PulseInv, BitsTyped
  <2>2. DOMAIN telling = {}
    BY DEF PulseInv
  <2>3. Told(b)
    BY <2>1 DEF TruthInv, Truths, Intact, BitsTrue, Arriving
  <2>4. b \notin missed => bitOuts[b] = shown[b]
    BY <2>1, <2>2 DEF PulseInv
  <2> QED  BY <2>2, <2>3, <2>4 DEF Told
<1> HIDE DEF Inv
<1>4. Spec => []PulsesAreSeen
  BY NoPulseIsMissed
<1> QED  BY <1>1, <1>2, <1>3, <1>4, PTL DEF Spec, BitsInStep

================================================================================
