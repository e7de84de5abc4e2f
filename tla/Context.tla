------------------------------- MODULE Context -------------------------------
(***************************************************************************)
(* A Context (core/context.py): how a part talks to blocks.  Puts, posts   *)
(* and subscriptions get a future each; every answer, update and STOP goes *)
(* through one queue, which whoever calls wait_all_futures services.  An   *)
(* update calls its callback, and that may wait for futures of its own,    *)
(* servicing the queue in a nested call.  abort() and the start of a hook  *)
(* come from other cothreads, as stop() and ignore_stops_before_now().     *)
(***************************************************************************)
EXTENDS Naturals, FiniteSets, SequencesExt

CONSTANTS
  Calls,       \* ids of put_async and post_async requests
  Whens,       \* ids of when_matches_async requests
  Watches,     \* ids of subscriptions with a callback of the client's
  MaxSubscriptions, \* subscriptions that are made
  MaxUpdates,  \* updates a block sends to a subscription
  MaxInterruptions, \* calls of stop() and ignore_stops_before_now(), and timeouts
  MaxFutures,  \* futures given to one wait_all_futures
  MaxNesting,  \* waits inside each other
  MaxTimeouts, \* waits that time out
  NestInLists  \* scope: does a callback wait while a wait for several futures calls it?

Subscriptions == Whens \cup Watches
Ids == Calls \cup Subscriptions

ASSUME IdsAssumption == Calls \cap Subscriptions = {} /\ Whens \cap Watches = {}
ASSUME LimitsAssumption ==
  /\ {MaxSubscriptions, MaxUpdates, MaxInterruptions, MaxFutures, MaxNesting,
       MaxTimeouts} \subseteq Nat
  /\ NestInLists \in BOOLEAN

VARIABLES
  queue,     \* _q
  sentinel,  \* _sentinel_stop, 0 for None
  ignores,   \* calls of ignore_stops_before_now so far, naming the sentinels
  stops,     \* calls of stop() so far
  future,    \* the state of each future, "none" before it is made
  requests,  \* the ids in _requests (and _futures)
  watched,   \* the ids in _subscriptions
  pending,   \* the ids in _pending_unsubscribes
  stack,     \* the calls of wait_all_futures in progress, innermost last
  outcome,   \* how the last call of it to end ended
  updates,   \* updates the block sent to each subscription
  timeouts   \* waits that timed out so far

client == <<sentinel, future, requests, watched, pending, stack, outcome>>
others == <<ignores, stops, updates, timeouts>>
vars == <<queue, client, others>>

Init ==
  /\ queue = << >> /\ sentinel = 0 /\ ignores = 0 /\ stops = 0
  /\ future = [i \in Ids |-> "none"]
  /\ requests = {} /\ watched = {} /\ pending = {}
  /\ stack = << >> /\ outcome = "none"
  /\ updates = [i \in Subscriptions |-> 0] /\ timeouts = 0

Message(kind, id) == [kind |-> kind, id |-> id]
Answers(i) == {n \in DOMAIN queue : queue[n].kind \in {"Return", "Error"} /\ queue[n].id = i}

--------------------------------------------------------------------------------
(***************************************************************************)
(* The block's controller                                                  *)
(***************************************************************************)
\* A put or post is handled: it returns or it fails.
Answer(i) ==
  /\ i \in Calls \cap requests /\ Answers(i) = {}
  /\ \E kind \in {"Return", "Error"} : queue' = Append(queue, Message(kind, i))
  /\ UNCHANGED <<client, others>>

\* The notifier sends a value: the first when it subscribes, then the changes.
SendUpdate(i) ==
  /\ i \in Subscriptions \cap requests /\ Answers(i) = {}
  /\ updates[i] < MaxUpdates
  /\ updates' = [updates EXCEPT ![i] = @ + 1]
  /\ \E kind \in IF i \in Whens THEN {"Good", "Bad", "Other"} ELSE {"Other"} :
       queue' = Append(queue, Message(kind, i))
  /\ UNCHANGED <<client, ignores, stops, timeouts>>

\* It unsubscribes.
AnswerUnsubscribe(i) ==
  /\ i \in pending /\ Answers(i) = {} /\ updates[i] > 0
  /\ queue' = Append(queue, Message("Return", i))
  /\ UNCHANGED <<client, others>>

--------------------------------------------------------------------------------
(***************************************************************************)
(* Other cothreads                                                         *)
(***************************************************************************)
Interruptions == stops + ignores + timeouts

Stop ==
  /\ Interruptions < MaxInterruptions
  /\ stops' = stops + 1
  /\ queue' = Append(queue, Message("Stop", 0))
  /\ UNCHANGED <<client, ignores, updates, timeouts>>

KeepsSentinel == UNCHANGED sentinel

NewSentinel == sentinel' = ignores + 1

IgnoreStopsBeforeNow ==
  /\ Interruptions < MaxInterruptions
  /\ ignores' = ignores + 1
  /\ NewSentinel
  /\ queue' = Append(queue, Message("Sentinel", ignores + 1))
  /\ UNCHANGED <<future, requests, watched, pending, stack, outcome, stops, updates, timeouts>>

--------------------------------------------------------------------------------
(***************************************************************************)
(* The client: the code that uses the context                              *)
(***************************************************************************)
\* A list of futures without the ones at some of its places.
Without(futures, places) ==
  LET kept[n \in 0 .. Len(futures)] ==
        IF n = 0 THEN << >>
        ELSE IF n \in places THEN kept[n - 1] ELSE Append(kept[n - 1], futures[n])
  IN  kept[Len(futures)]

Places(futures, i) == {n \in DOMAIN futures : futures[n] = i}

\* A call of wait_all_futures: what it still waits for, what it was asked to wait
\* for (nothing: it is sleep), whether it is calling a callback, and whether no
\* callback has waited in it.
Asleep == [futures |-> << >>, asked |-> {}, calling |-> FALSE, alone |-> TRUE]

\* It runs outside any wait, or in the callback of an update.
Running == stack # << >> => Last(stack).calling

MayWait ==
  /\ Running
  /\ Len(stack) < MaxNesting
  /\ NestInLists \/ \A n \in DOMAIN stack : Cardinality(stack[n].asked) < 2

\* The calls in progress, once one more has begun.
Deeper(call) == Append([n \in DOMAIN stack |-> [stack[n] EXCEPT !.alone = FALSE]], call)

\* put_async, post_async, subscribe, when_matches_async
Dispatch(i) ==
  /\ Running
  /\ future[i] = "none"
  /\ i \in Subscriptions
       => Cardinality({s \in Subscriptions : future[s] # "none"}) < MaxSubscriptions
  /\ future' = [future EXCEPT ![i] = "running"]
  /\ requests' = requests \cup {i}
  /\ watched' = IF i \in Subscriptions THEN watched \cup {i} ELSE watched
  /\ UNCHANGED <<queue, sentinel, pending, stack, outcome, others>>

Unsubscribed(i) == watched' = watched \ {i} /\ pending' = pending \cup {i}

Unsubscribe(i) ==
  /\ Running
  /\ i \in Watches \cap requests /\ i \notin pending
  /\ Unsubscribed(i)
  /\ UNCHANGED <<queue, sentinel, future, requests, stack, outcome, others>>

\* An exception goes up through the callbacks it came from, until one of them
\* or the client's own code catches it.
Raised(how, depth) ==
  /\ \E n \in 0 .. depth : stack' = SubSeq(stack, 1, n)
  /\ outcome' = how

\* What a client may wait for: a subscription it does not end is no such thing.
Awaited == {i \in Ids : future[i] # "none" /\ (i \in Watches /\ i \in requests => i \in pending)}

NoneFailed(fs) == FALSE

AlreadyFailed(fs) == \E n \in DOMAIN fs : future[fs[n]] = "error"

\* wait_all_futures looks at the futures that are done already.
Wait(fs) ==
  LET waiting == Without(fs, {n \in DOMAIN fs : future[fs[n]] # "running"})
  IN  /\ MayWait
      /\ ToSet(fs) \subseteq Awaited
      /\ IF AlreadyFailed(fs)
         THEN Raised("failed", Len(stack))
         ELSE /\ waiting # << >>
              /\ stack' = Deeper([Asleep EXCEPT !.futures = waiting, !.asked = ToSet(fs)])
              /\ outcome' = "none"
      /\ UNCHANGED <<queue, sentinel, future, requests, watched, pending, others>>

\* sleep services the queue too, waiting for nothing.
Sleep ==
  /\ MayWait
  /\ stack' = Deeper(Asleep)
  /\ outcome' = "none"
  /\ UNCHANGED <<queue, sentinel, future, requests, watched, pending, others>>

--------------------------------------------------------------------------------
(***************************************************************************)
(* _service_futures: what the innermost wait does with a response          *)
(***************************************************************************)

\* The wait is over when none of its futures is left.
Over(futures) == futures = << >> /\ Last(stack).asked # {}

Remaining(futures) ==
  IF Over(futures)
  THEN stack' = Front(stack) /\ outcome' = "ok"
  ELSE /\ stack' = [stack EXCEPT ![Len(stack)].futures = futures, ![Len(stack)].calling = FALSE]
       /\ UNCHANGED outcome

\* for future in futures: if future not in self._requests: futures.remove(future)
\* Removing one moves the next into its place, where the loop does not look.
FilterWhileIterating(futures) ==
  LET removed[n \in DOMAIN futures] ==
        futures[n] \notin requests /\ (n = 1 \/ ~removed[n - 1])
  IN  Without(futures, {n \in DOMAIN futures : removed[n]})

NoFilter(futures) == futures

Filter(futures) == FilterWhileIterating(futures)

\* Whatever it is, the innermost wait takes the first message.
Take(kind, i) ==
  /\ stack # << >> /\ ~Last(stack).calling
  /\ queue # << >> /\ Head(queue) = Message(kind, i)
  /\ queue' = Tail(queue)

ServiceSentinel ==
  \E n \in 1 .. ignores :
    /\ Take("Sentinel", n)
    /\ sentinel' = IF n = sentinel THEN 0 ELSE sentinel
    /\ UNCHANGED <<future, requests, watched, pending, stack, outcome, others>>

ServiceStop ==
  /\ Take("Stop", 0)
  /\ IF sentinel = 0 THEN Raised("aborted", Len(stack) - 1) ELSE UNCHANGED <<stack, outcome>>
  /\ UNCHANGED <<sentinel, future, requests, watched, pending, others>>

\* A When that is satisfied unsubscribes; a bad value makes it raise as well.
ServiceWhen(i) ==
  /\ \E kind \in {"Good", "Bad", "Other"} :
       /\ Take(kind, i)
       /\ IF kind # "Other" /\ i \in watched
          THEN Unsubscribed(i) ELSE UNCHANGED <<watched, pending>>
       /\ IF kind = "Bad" /\ i \in watched
          THEN Raised("bad", Len(stack) - 1)
          ELSE Remaining(Filter(Last(stack).futures))
  /\ UNCHANGED <<sentinel, future, requests, others>>

\* The callback of a subscription is called, if it is still subscribed,
ServiceUpdate(i) ==
  /\ Take("Other", i)
  /\ IF i \in watched
     THEN /\ stack' = [stack EXCEPT ![Len(stack)].calling = TRUE]
          /\ UNCHANGED outcome
     ELSE Remaining(Filter(Last(stack).futures))
  /\ UNCHANGED <<sentinel, future, requests, watched, pending, others>>

\* and returns.
CallbackReturns ==
  /\ stack # << >> /\ Last(stack).calling
  /\ Remaining(Filter(Last(stack).futures))
  /\ UNCHANGED <<queue, sentinel, future, requests, watched, pending, others>>

ServiceReturn(i) ==
  /\ Take("Return", i)
  /\ future' = [future EXCEPT ![i] = "result"]
  /\ requests' = requests \ {i} /\ pending' = pending \ {i}
  /\ Remaining(Without(Last(stack).futures, Places(Last(stack).futures, i)))
  /\ UNCHANGED <<sentinel, watched, others>>

\* The wait that asked for it raises it; another leaves it in the future.
ServiceError(i) ==
  /\ Take("Error", i)
  /\ future' = [future EXCEPT ![i] = "error"]
  /\ requests' = requests \ {i}
  /\ IF i \in ToSet(Last(stack).futures)
     THEN Raised("failed", Len(stack) - 1)
     ELSE UNCHANGED <<stack, outcome>>
  /\ UNCHANGED <<sentinel, watched, pending, others>>

TimeOut ==
  /\ stack # << >> /\ ~Last(stack).calling /\ queue = << >>
  /\ IF Last(stack).asked = {}
     THEN stack' = Front(stack) /\ outcome' = "ok" /\ UNCHANGED timeouts
     ELSE /\ timeouts < MaxTimeouts /\ Interruptions < MaxInterruptions /\ timeouts' = timeouts + 1
          /\ Raised("timeout", Len(stack) - 1)
  /\ UNCHANGED <<queue, sentinel, future, requests, watched, pending, ignores, stops, updates>>

Service ==
  \/ ServiceSentinel \/ ServiceStop \/ CallbackReturns
  \/ \E i \in Whens : ServiceWhen(i)
  \/ \E i \in Watches : ServiceUpdate(i)
  \/ \E i \in Ids : ServiceReturn(i) \/ ServiceError(i)

Blocks ==
  \E i \in Ids : Answer(i) \/ AnswerUnsubscribe(i)

FutureLists == {fs \in UNION {[1 .. n -> Ids] : n \in 1 .. MaxFutures} : IsInjective(fs)}

Client ==
  \/ \E i \in Ids : Dispatch(i) \/ Unsubscribe(i)
  \/ \E fs \in FutureLists : Wait(fs)
  \/ Sleep

Next ==
  \/ Client \/ Service \/ TimeOut \/ Blocks
  \/ \E i \in Subscriptions : SendUpdate(i)
  \/ Stop \/ IgnoreStopsBeforeNow

Spec == Init /\ [][Next]_vars

\* Requests are handled, a subscription gets its first value, messages are
\* serviced and callbacks return; the value a When waits for is not promised.
FairSpec ==
  /\ Spec /\ WF_vars(Service \/ TimeOut) /\ SF_vars(CallbackReturns)
  /\ \A i \in Ids : WF_vars(Answer(i)) /\ WF_vars(AnswerUnsubscribe(i))
  /\ \A i \in Subscriptions : WF_vars(updates[i] = 0 /\ SendUpdate(i))

--------------------------------------------------------------------------------
(***************************************************************************)
(* Properties                                                              *)
(***************************************************************************)
Messages ==
  [kind: {"Return", "Error", "Good", "Bad", "Other"}, id: Ids]
    \cup [kind: {"Sentinel"}, id: 1 .. MaxInterruptions] \cup {Message("Stop", 0)}

Outcomes == {"none", "ok", "aborted", "timeout", "bad", "failed"}

\* The types; what is in _requests is running, and has an answer on its way at
\* most once: a second one would be a KeyError in whoever waits.
TypeOK ==
  /\ queue \in Seq(Messages)
  /\ sentinel \in 0 .. MaxInterruptions /\ ignores \in 0 .. MaxInterruptions /\ stops \in 0 .. MaxInterruptions
  /\ future \in [Ids -> {"none", "running", "result", "error"}]
  /\ requests = {i \in Ids : future[i] = "running"}
  /\ \A i \in Ids : Cardinality(Answers(i)) <= IF i \in requests THEN 1 ELSE 0
  /\ watched \cup pending \subseteq Subscriptions
  /\ stack \in Seq([futures: Seq(Ids), asked: SUBSET Ids, calling: BOOLEAN, alone: BOOLEAN])
  /\ outcome \in Outcomes /\ updates \in [Subscriptions -> 0 .. MaxUpdates]
  /\ timeouts \in 0 .. MaxTimeouts

\* A STOP makes the wait that meets it raise AbortedError if and only if nobody
\* has called ignore_stops_before_now() since it was sent.
StopsObeyed ==
  [][stack # << >> /\ queue # << >> /\ Head(queue).kind = "Stop" /\ queue' = Tail(queue)
       => (Len(stack') < Len(stack)
             <=> \A n \in DOMAIN queue : queue[n].kind # "Sentinel")]_vars

\* A wait that returns has seen all of its futures done, by whichever wait their
\* responses were read, and none of them failed: the first failure is what a wait
\* raises.  Only one whose callback has waited may drop what failed in there.
ReturnsAreRight ==
  [][outcome' = "ok" /\ Len(stack') < Len(stack)
       => \A i \in Last(stack).asked :
            future'[i] = "result" \/ (future'[i] = "error" /\ ~Last(stack).alone)]_vars

\* Nobody goes on waiting for a future that is done: it will not hear of it.
NothingDoneIsAwaited ==
  /\ TypeOK
  /\ stack # << >> /\ ~Last(stack).calling
       => ToSet(Last(stack).futures) \subseteq requests

\* Every wait comes to an end, unless a value that a When waits for does not come.
NoValue == \E i \in Whens \cap requests : i \notin pending

WaitsEnd == stack # << >> ~> stack = << >> \/ NoValue

================================================================================
