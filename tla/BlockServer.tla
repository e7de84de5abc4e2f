------------------------------ MODULE BlockServer ------------------------------
(***************************************************************************)
(* What a server of a block promises to its clients, whatever threads and  *)
(* queues it has inside (module WebsocketHandler has those of a            *)
(* websocket): each connection is told of every change of what it          *)
(* subscribes to, in their order, and a put is answered after the Delta    *)
(* of the change that it makes.                                            *)
(***************************************************************************)
EXTENDS BlockMessages

CONSTANTS
  MaxConns,      \* bound: connections
  MaxChanges,    \* bound: changes of the block that nobody asked for
  MaxRequests,   \* bound: requests of the clients
  OneSubscriber  \* whether nobody subscribes to the block while another does

ASSUME ServerAssumption ==
  /\ MaxConns \in Nat \ {0} /\ MaxChanges \in Nat /\ MaxRequests \in Nat
  /\ OneSubscriber \in BOOLEAN

VARIABLES
  link,     \* "new", "open" or "closed": what became of each connection
  up, down, \* requests and responses that are under way on it
  owed,     \* answers to puts that have been made
  remote,   \* the block: its fields, each with the number of its last change
  subs,     \* subscriptions to it, and to the list of blocks
  changes   \* of the block so far

serverVars == <<link, up, down, owed, remote, subs, changes>>

Conns == 1 .. MaxConns

ServerTypeOK ==
  /\ link \in [Conns -> {"new", "open", "closed"}]
  /\ DOMAIN up = Conns /\ DOMAIN down = Conns
  /\ \A r \in owed : r.conn \in Conns
  /\ \E fs \in SUBSET Fields : Own \subseteq fs /\ remote \in [fs -> 0 .. changes]
  /\ \A s \in subs : s.conn \in Conns

ServerInit ==
  /\ link = [c \in Conns |-> "new"]
  /\ up = [c \in Conns |-> << >>] /\ down = up
  /\ owed = {}
  /\ remote = [f \in Own |-> 0]
  /\ subs = {}
  /\ changes = 0

--------------------------------------------------------------------------------
\* The first response to a subscription.  That with the list of blocks, which does
\* not change, is left out.
FirstResponse(c, r) ==
  IF r.what = "block" THEN <<Response(c, "delta", r.id, Change("block", None, remote))>>
  ELSE << >>

MaySubscribe(r) ==
  r.what = "block" /\ OneSubscriber => \A s \in subs : s.of # "block"

\* Responses go to the connections that are open.
Tell(responses) ==
  down' = [c \in Conns |-> IF link[c] = "open"
             THEN down[c] \o For(c, responses) ELSE down[c]]

--------------------------------------------------------------------------------
BlockChanges ==
  /\ changes < MaxChanges
  /\ changes' = changes + 1
  /\ \E change \in Happenings(remote, changes') :
       remote' = Changed(remote, change) /\ Tell(Deltas(subs, change))
  /\ UNCHANGED <<link, up, owed, subs>>

Subscribe(c, r) ==
  /\ r.what \in {"blocks", "block"}
  /\ MaySubscribe(r)
  /\ subs' = subs \cup {Subscription(c, r.id, r.what)}
  /\ Tell(FirstResponse(c, r))
  /\ UNCHANGED <<owed, remote, changes>>

\* It is answered at once or later.
Put(c, r) ==
  LET change == Change("value", r.field, changes')
      return == Response(c, "return", r.id, r.by)
  IN  /\ r.what = "put"
      /\ changes' = changes + 1
      /\ remote' = Changed(remote, change)
      /\ \/ Tell(Append(Deltas(subs, change), return)) /\ UNCHANGED owed
         \/ Tell(Deltas(subs, change)) /\ owed' = owed \cup {return}
      /\ UNCHANGED subs

Handle(c) ==
  /\ up[c] # << >>
  /\ up' = [up EXCEPT ![c] = Tail(@)]
  /\ Subscribe(c, Head(up[c])) \/ Put(c, Head(up[c]))
  /\ UNCHANGED link

Answer ==
  /\ \E r \in owed : owed' = owed \ {r} /\ Tell(<<r>>)
  /\ UNCHANGED <<link, up, remote, subs, changes>>

\* Nobody is there any more.
Forget ==
  /\ \E s \in subs : link[s.conn] = "closed" /\ subs' = subs \ {s}
  /\ UNCHANGED <<link, up, down, owed, remote, changes>>

ServerStep == (\E c \in Conns : Handle(c)) \/ Answer \/ Forget

--------------------------------------------------------------------------------
(***************************************************************************)
(* The connections.                                                        *)
(***************************************************************************)
Connects(c) ==
  /\ \A d \in Conns : link[d] = "new" <=> d >= c
  /\ link' = [link EXCEPT ![c] = "open"]

Writes(c, request) ==
  /\ link[c] = "open"
  /\ up' = [up EXCEPT ![c] = Append(@, request)]

Reads(c) ==
  /\ down[c] # << >>
  /\ down' = [down EXCEPT ![c] = Tail(@)]

\* Either side closes it, with some of what is under way to the client.
Closes(c) ==
  /\ link' = [link EXCEPT ![c] = "closed"]
  /\ \E n \in 0 .. Len(down[c]) : down' = [down EXCEPT ![c] = SubSeq(@, 1, n)]

\* It is lost, with what is under way to the server as well.
Loses(c) ==
  /\ link[c] = "open"
  /\ Closes(c)
  /\ up' = [up EXCEPT ![c] = << >>]

--------------------------------------------------------------------------------
(***************************************************************************)
(* The server with clients that ask for what they like.                    *)
(***************************************************************************)
Requests ==
  {[what |-> "block", id |-> i] : i \in 1 .. MaxRequests}
    \cup {[what |-> "put", id |-> i, field |-> f, by |-> i] :
          i \in 1 .. MaxRequests, f \in Fields}

SomeClient(c) ==
  \/ Connects(c) /\ UNCHANGED <<up, down>>
  \/ (\E r \in Requests : Writes(c, r)) /\ UNCHANGED <<link, down>>
  \/ Reads(c) /\ UNCHANGED <<link, up>>
  \/ link[c] = "open" /\ Closes(c) /\ UNCHANGED up
  \/ Loses(c)

Next ==
  \/ BlockChanges
  \/ ServerStep
  \/ (\E c \in Conns : SomeClient(c)) /\ UNCHANGED <<owed, remote, subs, changes>>

Spec == ServerInit /\ [][Next]_serverVars

================================================================================
