------------------------------ MODULE PandAClient ------------------------------
(***************************************************************************)
(* pandablocks/pandablocksclient.py: requests are queued by send() and     *)
(* sent by one thread; another reads the responses and gives each to the   *)
(* response queue that has waited longest.  The PandA answers in order.    *)
(* A request is its response queue, a number; a response says what it is   *)
(* the response to, and which fields have changed if it is to *CHANGES?.   *)
(***************************************************************************)
EXTENDS Naturals, Sequences, SequencesExt

CONSTANTS
  Callers,      \* who makes requests, each one at a time
  Bits, Tables, \* fields of the PandA
  Stop,         \* the sentinel STOP
  MaxRequests,  \* bound: requests before the last that is made of its own accord
  MaxFaults,    \* bound: connections refused or lost, responses malformed or late
  MaxChanges    \* bound: changes of a field by the PandA itself, and puts

ASSUME PandAClientAssumption ==
  /\ Bits \cap Tables = {}
  /\ MaxRequests \in Nat /\ MaxFaults \in Nat /\ MaxChanges \in Nat

VARIABLES
  started,      \* start() has returned
  sendQueue,    \* _send_queue
  respQueues,   \* _response_queues: the requests that have been sent
  sender, receiver,  \* the two threads run
  link,         \* the connection: "none", "up", "lost", or "shut" for reading
  wire,         \* requests that the PandA has still to answer
  lines,        \* responses that have still to be read
  waits,        \* the request whose response a caller waits for, or 0
  inbox,        \* responses in the queues that are waited for
  nextId,       \* number of the next request
  hardware,     \* values of the bits in the PandA
  pending,      \* fields that the next response to *CHANGES? will name
  faults, changes  \* how many have happened

clientVars == <<started, sendQueue, respQueues, sender, receiver, link, wire, lines,
                waits, inbox, nextId>>
pandaVars == <<hardware, pending, faults, changes>>

Fields == Bits \cup Tables
Ids == 1 .. MaxRequests + MaxChanges + 4
Requests == [id : Ids, what : {"put", "blocks", "bits", "table", "changes"}]
NoReport == [f \in {} |-> FALSE]

ClientTypeOK ==
  /\ started \in BOOLEAN /\ sender \in BOOLEAN /\ receiver \in BOOLEAN
  /\ sendQueue \in Seq(Requests \cup {Stop})
  /\ wire \in Seq(Requests) /\ respQueues \in Seq(Ids)
  /\ link \in {"none", "up", "lost", "shut"}
  /\ waits \in [Callers -> Ids \cup {0}]
  /\ \A e \in inbox : \E c \in Callers : waits[c] = e.queue
  /\ pending \subseteq Fields /\ hardware \in [Bits -> BOOLEAN]

ClientInit ==
  /\ started = FALSE /\ sender = FALSE /\ receiver = FALSE
  /\ sendQueue = << >> /\ respQueues = << >> /\ wire = << >> /\ lines = << >>
  /\ link = "none"
  /\ waits = [c \in Callers |-> 0] /\ inbox = {}
  /\ nextId = 1
  /\ hardware \in [Bits -> BOOLEAN]
  /\ pending = {}
  /\ faults = 0 /\ changes = 0

--------------------------------------------------------------------------------
\* send(); a client that has been stopped still has its queue.
Ask(c, what) ==
  /\ sendQueue' = Append(sendQueue, [id |-> nextId, what |-> what])
  /\ nextId' = nextId + 1
  /\ waits' = [waits EXCEPT ![c] = nextId]

Answers(c) == {e \in inbox : e.queue = waits[c]}

\* The queue of a request is dropped, by who has its response or has timed out.
Dropped(c) == inbox \ Answers(c)

\* The response to the request that c waits for is on its way.
Coming(c) ==
  /\ receiver /\ link \in {"up", "shut"}
  /\ \/ \E i \in DOMAIN sendQueue : sendQueue[i] # Stop /\ sendQueue[i].id = waits[c]
     \/ \E i \in DOMAIN respQueues : respQueues[i] = waits[c]

\* The timeout passes: for a response that is on its way, that is a fault.
GivesUp(c) ==
  /\ waits[c] # 0 /\ Answers(c) = {}
  /\ waits' = [waits EXCEPT ![c] = 0]
  /\ faults' = IF Coming(c) THEN faults + 1 ELSE faults
  /\ faults' <= MaxFaults
ForgetsItsQueue(c) == SelectSeq(respQueues, LAMBDA q : q # waits[c])
ForgottenQueues(c) == respQueues

\* What start() does when it is connected: a new connection is told every field.
Connect ==
  /\ started' = TRUE /\ sender' = TRUE /\ receiver' = TRUE
  /\ link' = "up"
  /\ sendQueue' = << >> /\ respQueues' = << >> /\ wire' = << >> /\ lines' = << >>
  /\ pending' = Fields

--------------------------------------------------------------------------------
\* _send_loop(): a request that cannot be sent leaves its response queue behind.
SendNext ==
  /\ sender /\ sendQueue # << >>
  /\ sendQueue' = Tail(sendQueue)
  /\ IF Head(sendQueue) = Stop
       THEN sender' = FALSE /\ UNCHANGED <<respQueues, wire>>
       ELSE /\ respQueues' = Append(respQueues, Head(sendQueue).id)
            /\ wire' = IF link = "up" THEN Append(wire, Head(sendQueue)) ELSE wire
            /\ UNCHANGED sender
  /\ UNCHANGED <<started, receiver, link, lines, waits, inbox, nextId, pandaVars>>

\* _respond(), for a response that is complete.
Respond ==
  /\ receiver /\ lines # << >>
  /\ Head(lines).to # 0 /\ respQueues # << >>
  /\ lines' = Tail(lines)
  /\ respQueues' = Tail(respQueues)
  /\ inbox' = IF \E c \in Callers : waits[c] = Head(respQueues)
                THEN inbox \cup {[queue |-> Head(respQueues), response |-> Head(lines)]}
                ELSE inbox
  /\ UNCHANGED <<started, sendQueue, sender, receiver, link, wire, waits, nextId, pandaVars>>

\* A malformed line, or one that nobody waits for, ends _recv_loop().
ReceiveFails ==
  /\ receiver /\ lines # << >>
  /\ Head(lines).to = 0 \/ respQueues = << >>
  /\ lines' = Tail(lines)
  /\ receiver' = FALSE
  /\ UNCHANGED <<started, sendQueue, respQueues, sender, link, wire, waits, inbox,
                 nextId, pandaVars>>

ReceiveEnds ==
  /\ receiver /\ lines = << >> /\ link \in {"lost", "shut"}
  /\ receiver' = FALSE
  /\ UNCHANGED <<started, sendQueue, respQueues, sender, link, wire, lines, waits, inbox,
                 nextId, pandaVars>>

--------------------------------------------------------------------------------
(***************************************************************************)
(* The PandA and the network.                                              *)
(***************************************************************************)
Report == [f \in pending |-> f \in Bits /\ hardware[f]]

PandAAnswers ==
  /\ link \in {"up", "shut"} /\ wire # << >>
  /\ wire' = Tail(wire)
  /\ LET changesAsked == Head(wire).what = "changes" IN
       /\ lines' = Append(lines, [to |-> Head(wire).id,
                                  report |-> IF changesAsked THEN Report ELSE NoReport])
       /\ pending' = IF changesAsked THEN {} ELSE pending
  /\ UNCHANGED <<started, sendQueue, respQueues, sender, receiver, link, waits, inbox,
                 nextId, hardware, faults, changes>>

FieldChanges ==
  /\ changes < MaxChanges
  /\ changes' = changes + 1
  /\ \E f \in Fields :
       /\ pending' = pending \cup {f}
       /\ hardware' = [b \in Bits |-> (b = f) # hardware[b]]
  /\ UNCHANGED <<clientVars, faults>>

Breaks ==
  /\ link = "up" /\ faults < MaxFaults
  /\ faults' = faults + 1
  /\ \/ link' = "lost" /\ wire' = << >> /\ UNCHANGED lines
     \/ /\ lines' = Append(lines, [to |-> 0, report |-> NoReport])
        /\ UNCHANGED <<link, wire>>
  /\ UNCHANGED <<started, sendQueue, respQueues, sender, receiver, waits, inbox, nextId,
                 hardware, pending, changes>>

\* Every response that is waited for is the response to its request.
ResponsesMatch == \A e \in inbox : e.response.to = e.queue

================================================================================
