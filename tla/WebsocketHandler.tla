--------------------------- MODULE WebsocketHandler ---------------------------
(***************************************************************************)
(* web/parts/websocketserverpart.py: the server has a handler for each     *)
(* websocket, which takes its requests from tornado's thread to cothreads  *)
(* of the controller and their responses back, and keeps a cothread that   *)
(* responds too fast waiting.  A cothread runs until it is kept waiting or *)
(* is done, so each step is what it does until then.                       *)
(***************************************************************************)
EXTENDS BlockMessages

CONSTANTS
  MaxConns,      \* bound: websockets
  MaxChanges,    \* bound: changes of the block that nobody asked for
  MaxRequests,   \* bound: requests of the clients
  Batch,         \* of responses, after which a cothread waits for as many: 10
  OneSubscriber  \* whether nobody subscribes to the block while another does

ASSUME HandlerAssumption ==
  /\ MaxConns \in Nat \ {0} /\ MaxChanges \in Nat /\ MaxRequests \in Nat
  /\ Batch \in Nat \ {0} /\ OneSubscriber \in BOOLEAN

VARIABLES
  link,      \* "new", "open" or "closed": what became of each websocket
  up, down,  \* requests to its handler, and all that has been written to it
  handles,   \* _id_to_mri of each handler: subscriptions that it may have to end
  outbox,    \* responses that cothreads have left for tornado's thread
  count,     \* _counter, modulo Batch
  acks,      \* _queue: items for responses that have been dealt with
  blocked,   \* cothreads kept waiting, and what they have to respond yet
  remote,    \* the block
  subs,      \* subscriptions that its notifier serves
  changes,   \* of the block so far
  closedAt,  \* how many there were when a websocket was closed
  requests   \* of the clients so far

vars == <<link, up, down, handles, outbox, count, acks, blocked, remote, subs,
          changes, closedAt, requests>>

Conns == 1 .. MaxConns

TypeOK ==
  /\ link \in [Conns -> {"new", "open", "closed"}]
  /\ handles \in [Conns -> SUBSET (1 .. MaxRequests)]
  /\ count \in [Conns -> 0 .. Batch - 1] /\ acks \in [Conns -> Nat]
  /\ \A i \in DOMAIN blocked : blocked[i].conn \in Conns /\ blocked[i].need \in 1 .. Batch
  /\ \E fs \in SUBSET Fields : Own \subseteq fs /\ remote \in [fs -> 0 .. changes]
  /\ \A s \in subs : s.conn \in Conns /\ s.id \in 1 .. requests
  /\ closedAt \in [Conns -> 0 .. changes]

Init ==
  /\ link = [c \in Conns |-> "new"]
  /\ up = [c \in Conns |-> << >>] /\ down = up
  /\ handles = [c \in Conns |-> {}]
  /\ outbox = << >> /\ blocked = << >>
  /\ count = [c \in Conns |-> 0] /\ acks = count
  /\ remote = [f \in Own |-> 0]
  /\ subs = {}
  /\ changes = 0 /\ requests = 0
  /\ closedAt = [c \in Conns |-> 0]

--------------------------------------------------------------------------------
(***************************************************************************)
(* The cothreads of the server.                                            *)
(***************************************************************************)
\* on_response() of one response after the other.  After each Batch of a handler
\* the cothread waits for as many to be dealt with, whoever has sent them.
Respond(others, responses) ==
  LET Of(c, n) == Cardinality({i \in 1 .. n : responses[i].conn = c})
      Waits == {i \in DOMAIN responses :
                  (count[responses[i].conn] + Of(responses[i].conn, i)) % Batch = 0}
      last == IF Waits = {} THEN Len(responses)
              ELSE CHOOSE i \in Waits : \A j \in Waits : i <= j
  IN  /\ outbox' = outbox \o SubSeq(responses, 1, last)
      /\ count' = [c \in Conns |-> (count[c] + Of(c, last)) % Batch]
      /\ blocked' = IF Waits = {} THEN others
                    ELSE Append(others, [conn |-> responses[last].conn, need |-> Batch,
                           rest |-> SubSeq(responses, last + 1, Len(responses))])

BlockChanges ==
  /\ changes < MaxChanges
  /\ changes' = changes + 1
  /\ \E change \in Happenings(remote, changes') :
       /\ remote' = Changed(remote, change)
       /\ Respond(blocked, Deltas(subs, change))
  /\ UNCHANGED <<link, up, down, handles, acks, subs, closedAt, requests>>

MaySubscribe == OneSubscriber => subs = {}

\* The clients number their requests, so no id is used for two subscriptions.
Subscribe(c, r) ==
  /\ r.what = "block"
  /\ MaySubscribe
  /\ r.id \notin handles[c]
  /\ handles' = [handles EXCEPT ![c] = @ \cup {r.id}]
  /\ subs' = subs \cup {Subscription(c, r.id, "block")}
  /\ Respond(blocked, <<Response(c, "delta", r.id, Change("block", None, remote))>>)
  /\ UNCHANGED <<remote, changes>>

\* The answer comes before the Deltas.
AnswerFirst(deltas, return) == <<return>> \o deltas

\* Who waits for a change has it before who has asked for it has an answer.
AnswerLast(deltas, return) == Append(deltas, return)

Put(c, r) ==
  LET change == Change("value", r.field, changes')
  IN  /\ r.what = "put"
      /\ changes' = changes + 1
      /\ remote' = Changed(remote, change)
      /\ Respond(blocked,
           AnswerLast(Deltas(subs, change), Response(c, "return", r.id, r.by)))
      /\ UNCHANGED <<handles, subs>>

Unsubscribe(c, r) ==
  /\ r.what = "unsubscribe"
  /\ subs' = {s \in subs : s.conn # c \/ s.id # r.id}
  /\ Respond(blocked, <<Response(c, "return", r.id, None)>>)
  /\ UNCHANGED <<handles, remote, changes>>

\* on_message() of the handler, and _handle_request() of the controller.
HandleRequest(c) ==
  /\ up[c] # << >>
  /\ up' = [up EXCEPT ![c] = Tail(@)]
  /\ LET r == Head(up[c]) IN Subscribe(c, r) \/ Put(c, r) \/ Unsubscribe(c, r)
  /\ UNCHANGED <<link, down, acks, closedAt, requests>>

\* A cothread that is kept waiting has all of its items with the next one.
HasAll(b) == b.need = 1

TakeItem ==
  \E i \in DOMAIN blocked :
    LET b == blocked[i]
    IN  /\ acks[b.conn] > 0
        /\ acks' = [acks EXCEPT ![b.conn] = @ - 1]
        /\ IF HasAll(b)
             THEN Respond(RemoveAt(blocked, i), b.rest)
             ELSE /\ blocked' = [blocked EXCEPT ![i].need = @ - 1]
                  /\ UNCHANGED <<outbox, count>>
        /\ UNCHANGED <<link, up, down, handles, remote, subs, changes, closedAt, requests>>

--------------------------------------------------------------------------------
(***************************************************************************)
(* Tornado's thread of the server.                                         *)
(***************************************************************************)
\* Only for what was written.
AckIfOpen(c) == acks' = [acks EXCEPT ![c] = IF link[c] = "open" THEN @ + 1 ELSE @]

\* In a finally clause.
Ack(c) == acks' = [acks EXCEPT ![c] = @ + 1]

\* Only Updates are looked at.
EndsUpdates(r) == r.what = "update" /\ r.id \in handles[r.conn]

\* A response that cannot be written ends the subscription that it is for, once.
EndsSubscription(r) == r.what \in {"delta", "update"} /\ r.id \in handles[r.conn]

\* _on_response().
WriteResponse ==
  /\ outbox # << >>
  /\ outbox' = Tail(outbox)
  /\ LET r == Head(outbox)
         c == r.conn
     IN  /\ Ack(c)
         /\ \/ /\ link[c] = "open"
               /\ down' = [down EXCEPT ![c] = Append(@, r)]
               /\ UNCHANGED <<up, handles>>
            \/ /\ link[c] = "closed" /\ EndsSubscription(r)
               /\ handles' = [handles EXCEPT ![c] = @ \ {r.id}]
               /\ up' = [up EXCEPT ![c] = Append(@, [what |-> "unsubscribe", id |-> r.id])]
               /\ UNCHANGED down
            \/ /\ link[c] = "closed" /\ ~EndsSubscription(r)
               /\ UNCHANGED <<up, down, handles>>
  /\ UNCHANGED <<link, count, blocked, remote, subs, changes, closedAt, requests>>

--------------------------------------------------------------------------------
(***************************************************************************)
(* Clients and their connections.                                          *)
(***************************************************************************)
Connect(c) ==
  /\ \A d \in Conns : link[d] = "new" <=> d >= c
  /\ link' = [link EXCEPT ![c] = "open"]
  /\ UNCHANGED <<up, down, closedAt, requests>>

Ask(c) ==
  /\ link[c] = "open"
  /\ requests < MaxRequests
  /\ requests' = requests + 1
  /\ \E r \in {[what |-> "block", id |-> requests']}
                \cup {[what |-> "put", id |-> requests', field |-> f, by |-> requests'] :
                      f \in DOMAIN remote} :
       up' = [up EXCEPT ![c] = Append(@, r)]
  /\ UNCHANGED <<link, down, closedAt>>

\* The client closes it, or it is lost with what was under way to the server.
Close(c) ==
  /\ link[c] = "open"
  /\ link' = [link EXCEPT ![c] = "closed"]
  /\ closedAt' = [closedAt EXCEPT ![c] = changes]
  /\ UNCHANGED <<down, requests>>
  /\ UNCHANGED up \/ up' = [up EXCEPT ![c] = << >>]

Client(c) == Connect(c) \/ Ask(c) \/ Close(c)

Server == (\E c \in Conns : HandleRequest(c)) \/ TakeItem \/ WriteResponse

Next ==
  \/ BlockChanges \/ Server
  \/ \E c \in Conns :
       Client(c) /\ UNCHANGED <<handles, outbox, count, acks, blocked, remote, subs, changes>>

Spec == Init /\ [][Next]_vars

\* Threads run.  Nobody needs to read what is sent.
FairSpec == Spec /\ WF_vars(Server)

--------------------------------------------------------------------------------
Quiet ==
  /\ outbox = << >> /\ blocked = << >>
  /\ \A c \in Conns : up[c] = << >>

\* A handler whose client has gone keeps its subscription no longer than until the
\* next change of the block.
DeadHandlesLeave ==
  /\ TypeOK
  /\ Quiet => \A s \in subs : link[s.conn] = "closed" => closedAt[s.conn] = changes

\* A cothread of the server that is kept waiting for what it has sent to be dealt
\* with goes on, whether there is still a client or not.
NobodyIsKept == blocked # << >> ~> blocked = << >>

Rest == [i \in DOMAIN blocked |-> ToSet(blocked[i].rest)]

Contract == INSTANCE BlockServer WITH
  up <- [c \in Conns |->
           Part(up[c], {i \in DOMAIN up[c] : up[c][i].what # "unsubscribe"})],
  down <- [c \in Conns |->
             IF link[c] = "open" THEN down[c] \o For(c, outbox) ELSE down[c]],
  owed <- {r \in UNION Range(Rest) : r.what = "return" /\ r.data # None}

\* With all its threads and queues, what the server does is what a client of a
\* block may count on.
ServesBlock == Contract!Spec

================================================================================
