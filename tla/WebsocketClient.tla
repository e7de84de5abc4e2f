---------------------------- MODULE WebsocketClient ----------------------------
(***************************************************************************)
(* web/controllers/websocketclientcomms.py and a ProxyController that      *)
(* follows a block over it.  Cothreads and tornado's thread send each      *)
(* other calls: toTornado of IOLoopHelper.call(), toCothread of            *)
(* cothread.Callback().  The server is as module BlockServer says.          *)
(***************************************************************************)
EXTENDS BlockServer

CONSTANTS
  PutOrder,    \* bound: calls of send_put(), in their order
  MaxRefused,  \* bound: connections that are refused
  MaxLosses    \* bound: connections that are lost

ASSUME ClientAssumption ==
  /\ IsInjective(PutOrder)
  /\ MaxRefused \in Nat /\ MaxLosses \in Nat

VARIABLES
  state,       \* of the comms block
  waits,       \* who waits for an item: "start" of init() or reset(), "stop" of disable()
  items,       \* in _connected_queue, each with what it was put for
  conn,        \* _conn
  dialing,     \* recv_loops that wait for websocket_connect()
  loops,       \* connections that a recv_loop reads from
  starts,      \* calls of recv_loop() so far
  lookup,      \* _request_lookup
  nextId,      \* _next_id
  toTornado, toCothread,
  answer,      \* of each put: "none", "waiting", "failed" or which put it is for
  proxy,       \* sync_proxy(): "none", "waiting" for its first response, or "done"
  shadow,      \* the fields of the proxy's block
  unwritten,   \* puts that there was no connection for
  stale,       \* a wait has been given an item that was put for something before it
  refused,     \* _report_fault() has raised
  spent        \* losses, and connections refused

clientVars == <<state, waits, items, conn, dialing, loops, starts, lookup, nextId,
                toTornado, toCothread, answer, proxy, shadow, unwritten, stale, refused, spent>>
vars == <<serverVars, clientVars>>

Puts == ToSet(PutOrder)

TypeOK ==
  /\ ServerTypeOK
  /\ state \in {"Disabled", "Resetting", "Ready", "Disabling", "Fault"}
  /\ waits \subseteq {"start", "stop"}
  /\ dialing \in Nat /\ nextId \in Nat
  /\ conn \in Conns \cup {None}
  /\ loops \subseteq Conns
  /\ DOMAIN lookup \subseteq 1 .. nextId - 1
  /\ answer \in [Puts -> {"none", "waiting", "failed"} \cup Puts]
  /\ proxy \in {"none", "waiting", "done"}
  /\ DOMAIN shadow \subseteq Fields

Init ==
  /\ ServerInit
  /\ state = "Disabled"
  /\ waits = {} /\ loops = {}
  /\ items = << >>
  /\ dialing = 0 /\ starts = 0
  /\ conn = None
  /\ lookup = << >> /\ nextId = 1
  /\ toTornado = << >> /\ toCothread = << >>
  /\ answer = [p \in Puts |-> "none"]
  /\ proxy = "none" /\ shadow = << >>
  /\ unwritten = {}
  /\ stale = FALSE /\ refused = FALSE
  /\ spent = [losses |-> 0, refusals |-> 0]

--------------------------------------------------------------------------------
\* go_to_error_state(), and the transition of _report_fault(): Disabled and Fault
\* are left by a reset only.
MayFault == state \in {"Resetting", "Ready", "Disabling"}
ErrorState == IF MayFault THEN "Fault" ELSE state

\* Something is under way that will put an item.
Coming ==
  \/ dialing > 0
  \/ \E i \in DOMAIN toTornado : toTornado[i].do = "recv"
  \/ \E i \in DOMAIN toCothread : toCothread[i].do \in {"connected", "fault"}
  \/ \E c \in loops : link[c] = "closed" \/ [do |-> "close", conn |-> c] \in ToSet(toTornado)

\* The connection that was made last.
Newest == CHOOSE n \in 0 .. MaxConns : \A c \in Conns : link[c] # "new" <=> c <= n

CallTornado(call) == toTornado' = Append(toTornado, call)
Send(request) == [do |-> "send", request |-> request]
Blocks == [what |-> "blocks"]

(***************************************************************************)
(* Cothreads: init(), reset() and disable().                               *)
(***************************************************************************)
\* _start_client() calls recv_loop and waits, unless there is a connection.
StartClient ==
  /\ state \in {"Disabled", "Fault"}
  /\ "start" \notin waits
  /\ starts < MaxConns
  /\ IF conn = None
       THEN /\ state' = "Resetting"
            /\ waits' = waits \cup {"start"}
            /\ starts' = starts + 1
            /\ CallTornado([do |-> "recv"])
       ELSE state' = "Ready" /\ UNCHANGED <<waits, starts, toTornado>>
  /\ UNCHANGED <<serverVars, items, conn, dialing, loops, lookup, nextId, toCothread,
                 answer, proxy, shadow, unwritten, stale, refused, spent>>

\* Who waits takes the next item, whatever it was put for.
GetItem(who, what) ==
  /\ who \in waits
  /\ waits' = waits \ {who}
  /\ items # << >>
  /\ items' = Tail(items)
  /\ stale' = (stale \/ Head(items) # [do |-> what, conn |-> Newest])

ClientStarted ==
  /\ GetItem("start", "connected")
  /\ CallTornado(Send(Blocks))
  /\ state' = IF state = "Resetting" THEN "Ready" ELSE ErrorState
  /\ UNCHANGED <<serverVars, conn, dialing, loops, starts, lookup, nextId, toCothread,
                 answer, proxy, shadow, unwritten, refused, spent>>

\* _stop_client() closes the connection and waits, if there is one.
StopClient ==
  /\ state \in {"Resetting", "Ready", "Fault"}
  /\ "stop" \notin waits
  /\ IF conn = None
       THEN state' = "Disabled" /\ UNCHANGED <<waits, toTornado>>
       ELSE /\ state' = "Disabling"
            /\ waits' = waits \cup {"stop"}
            /\ CallTornado([do |-> "close", conn |-> conn])
  /\ UNCHANGED <<serverVars, items, conn, dialing, loops, starts, lookup, nextId,
                 toCothread, answer, proxy, shadow, unwritten, stale, refused, spent>>

ClientStopped ==
  /\ GetItem("stop", "fault")
  /\ conn' = None
  /\ state' = IF state = "Disabling" THEN "Disabled" ELSE ErrorState
  /\ UNCHANGED <<serverVars, dialing, loops, starts, lookup, nextId, toTornado,
                 toCothread, answer, proxy, shadow, unwritten, refused, spent>>

\* The timeout is longer than what is under way takes.
WaitTimesOut ==
  /\ items = << >> /\ ~Coming
  /\ \E who \in waits : waits' = waits \ {who}
  /\ state' = ErrorState
  /\ UNCHANGED <<serverVars, items, conn, dialing, loops, starts, lookup, nextId,
                 toTornado, toCothread, answer, proxy, shadow, unwritten, stale, refused, spent>>

\* The proxy's block has a put function for each field that it has.
SendPut(p) ==
  /\ p = PutOrder[Cardinality({q \in Puts : answer[q] # "none"}) + 1]
  /\ answer' = [answer EXCEPT ![p] = "waiting"]
  /\ \E f \in DOMAIN shadow :
       CallTornado(Send([what |-> "put", field |-> f, by |-> p]))
  /\ UNCHANGED <<serverVars, state, waits, items, conn, dialing, loops, starts, lookup,
                 nextId, toCothread, proxy, shadow, unwritten, stale, refused, spent>>

\* ProxyController.init() waits for the comms to be Ready.
SyncProxy ==
  /\ proxy = "none"
  /\ state = "Ready"
  /\ proxy' = "waiting"
  /\ CallTornado(Send([what |-> "block"]))
  /\ UNCHANGED <<serverVars, state, waits, items, conn, dialing, loops, starts, lookup,
                 nextId, toCothread, answer, shadow, unwritten, stale, refused, spent>>

--------------------------------------------------------------------------------
(***************************************************************************)
(* Tornado's thread.                                                       *)
(***************************************************************************)

CallCothread(call) == toCothread' = Append(toCothread, call)

\* The number that the last request had.
SameId == nextId

NewId == nextId + 1

\* A request as it is written
WithId(request) ==
  [x \in DOMAIN request \cup {"id"} |-> IF x = "id" THEN nextId ELSE request[x]]

\* _send_request() records the request before it writes it, and raises if there
\* is nothing to write it to.
SendRequest(request) ==
  /\ nextId' = NewId
  /\ lookup' = [i \in DOMAIN lookup \cup {nextId} |-> IF i = nextId THEN request ELSE lookup[i]]
  /\ up' = IF conn = None THEN up ELSE
       IF link[conn] = "closed" THEN up ELSE
         [up EXCEPT ![conn] = Append(@, WithId(request))]
  /\ unwritten' = IF conn = None /\ request.what = "put" THEN unwritten \cup {request.by}
                  ELSE unwritten
  /\ UNCHANGED <<link, down, dialing>>

RunTornado ==
  /\ toTornado # << >>
  /\ toTornado' = Tail(toTornado)
  /\ LET call == Head(toTornado)
     IN  \/ /\ call.do = "recv"
            /\ dialing' = dialing + 1
            /\ UNCHANGED <<link, up, down, lookup, nextId, unwritten>>
         \/ /\ call.do = "close"
            /\ Closes(call.conn)
            /\ UNCHANGED <<up, dialing, lookup, nextId, unwritten>>
         \/ /\ call.do = "send"
            /\ SendRequest(call.request)
  /\ UNCHANGED <<owed, remote, subs, changes, state, waits, items, conn,
                 loops, starts, toCothread, answer, proxy, shadow, stale, refused, spent>>

\* websocket_connect() has connected to the server, or raises.
Connect ==
  /\ dialing > 0
  /\ dialing' = dialing - 1
  /\ \/ \E c \in Conns :
          /\ Connects(c)
          /\ conn' = c
          /\ loops' = loops \cup {c}
          /\ CallCothread([do |-> "connected", conn |-> c])
          /\ UNCHANGED spent
     \/ /\ spent.refusals < MaxRefused
        /\ spent' = [spent EXCEPT !.refusals = @ + 1]
        /\ UNCHANGED <<link, conn, loops, toCothread>>
  /\ UNCHANGED <<up, down, owed, remote, subs, changes, state, waits, items, starts, lookup, nextId, toTornado, answer,
                 proxy, shadow, unwritten, stale, refused>>

\* recv_loop() reads from _conn again after each message: from another connection
\* that has a recv_loop already, or from None, which raises.
ReadMessage(c) ==
  /\ c \in loops
  /\ Reads(c)
  /\ loops' = IF conn = c THEN loops ELSE loops \ {c}
  /\ LET m == Head(down[c])
     IN  IF m.id \in DOMAIN lookup
           THEN /\ CallCothread([do |-> "response", request |-> lookup[m.id], message |-> m])
                /\ lookup' = IF m.what \in {"return", "error"}
                               THEN Restrict(lookup, DOMAIN lookup \ {m.id}) ELSE lookup
           ELSE UNCHANGED <<toCothread, lookup>>
  /\ UNCHANGED <<link, up, owed, remote, subs, changes, state, waits, items, conn, dialing, starts, nextId, toTornado,
                 answer, proxy, shadow, unwritten, stale, refused, spent>>

\* _conn is kept until it is closed.
KeepsConn(c) == conn

\* _conn when there is nothing to read any more, of whatever connection it was.
ConnAfter(c) == None

ReadNone(c) ==
  /\ c \in loops
  /\ down[c] = << >> /\ link[c] = "closed"
  /\ conn' = ConnAfter(c)
  /\ loops' = loops \ {c}
  /\ CallCothread([do |-> "fault", conn |-> c])
  /\ UNCHANGED <<serverVars, state, waits, items, dialing, starts, lookup, nextId,
                 toTornado, answer, proxy, shadow, unwritten, stale, refused, spent>>

--------------------------------------------------------------------------------
(***************************************************************************)
(* Callbacks that tornado's thread has sent.                               *)
(***************************************************************************)
\* A put gets what was sent as its answer.
Answered(p, outcome) == answer' = [answer EXCEPT ![p] = outcome]

\* Who waits for a connection and who waits for the end of one are told alike.
PutItem(item) == items' = Append(items, item)

\* Those who wait for a response of one of these requests have an error instead:
\* a put raises it, sync_proxy() returns.
Fail(requests) ==
  /\ answer' = [p \in Puts |->
       IF \E r \in requests : r.what = "put" /\ r.by = p THEN "failed" ELSE answer[p]]
  /\ proxy' = IF proxy = "waiting" /\ [what |-> "block"] \in requests THEN "done" ELSE proxy

\* _report_fault() raises before all else if the block is in Disabled or Fault.
ReportFault(call) ==
  IF MayFault
    THEN /\ state' = IF state = "Disabling" THEN state ELSE "Fault"
         /\ PutItem(call)
         /\ Fail(Range(lookup))
         /\ lookup' = << >>
         /\ UNCHANGED refused
    ELSE /\ refused' = TRUE
         /\ UNCHANGED <<state, items, lookup, answer, proxy>>

\* A put has its answer; the first response to a proxy is one to sync_proxy(), and
\* a Delta is worked on in a callback of its own.
HandleResponse(request, m) ==
  \/ /\ request.what = "put"
     /\ Answered(request.by, IF m.what = "return" THEN m.data ELSE "failed")
     /\ UNCHANGED proxy
  \/ /\ request.what = "block"
     /\ proxy' = IF m.what = "delta" THEN proxy ELSE "done"
     /\ UNCHANGED answer

\* Every change but that of the block is looked up by path[1].
AllByPath(block, change) == IF change.depth = "block" THEN change.data ELSE block

\* _handle_change(): a change of a field as a whole is looked up by path[1], which
\* is not there, and raises.
HandleChange(block, change) ==
  IF change.depth = "field" THEN block ELSE Changed(block, change)

RunCothread ==
  /\ toCothread # << >>
  /\ LET call == Head(toCothread)
     IN  /\ toCothread' = Tail(toCothread) \o
              IF call.do = "response" /\ call.request.what = "block" /\ call.message.what = "delta"
                THEN <<[do |-> "apply", change |-> call.message.data]>> ELSE << >>
         /\ \/ /\ call.do = "connected"
               /\ PutItem(call)
               /\ UNCHANGED <<state, lookup, answer, proxy, shadow, refused>>
            \/ /\ call.do = "fault"
               /\ ReportFault(call)
               /\ UNCHANGED shadow
            \/ /\ call.do = "response"
               /\ HandleResponse(call.request, call.message)
               /\ UNCHANGED <<state, items, lookup, shadow, refused>>
            \/ /\ call.do = "apply"
               /\ shadow' = HandleChange(shadow, call.change)
               /\ proxy' = "done"
               /\ UNCHANGED <<state, items, lookup, answer, refused>>
  /\ UNCHANGED <<serverVars, waits, conn, dialing, loops, starts, nextId, toTornado,
                 unwritten, stale, spent>>

--------------------------------------------------------------------------------
Lose ==
  /\ spent.losses < MaxLosses
  /\ spent' = [spent EXCEPT !.losses = @ + 1]
  /\ \E c \in Conns : Loses(c)
  /\ UNCHANGED <<owed, remote, subs, changes, state, waits, items, conn, dialing, loops, starts, lookup, nextId,
                 toTornado, toCothread, answer, proxy, shadow, unwritten, stale, refused>>

ClientStep ==
  \/ ClientStarted \/ ClientStopped \/ WaitTimesOut
  \/ RunTornado \/ Connect \/ RunCothread
  \/ \E c \in Conns : ReadMessage(c) \/ ReadNone(c)

\* What cothreads, threads and the network do by themselves.
Work == ClientStep \/ (ServerStep /\ UNCHANGED clientVars)

\* What users and devices do, and what goes wrong.
Call ==
  \/ StartClient \/ StopClient \/ SyncProxy \/ Lose
  \/ \E p \in {q \in Puts : answer[q] = "none"} : SendPut(p)
  \/ (BlockChanges /\ UNCHANGED clientVars)

ClientNext == Work \/ Call

ClientSpec == Init /\ [][ClientNext]_vars

\* Threads run, and a connection that is not refused is made.
FairSpec == ClientSpec /\ WF_vars(Work)

--------------------------------------------------------------------------------
Quiet ==
  /\ waits = {} /\ dialing = 0
  /\ toTornado = << >> /\ toCothread = << >>
  /\ \A c \in loops : link[c] = "open" /\ down[c] = << >>
  /\ owed = {}
  /\ \A c \in Conns : up[c] = << >>

Connected == conn # None /\ link[conn] = "open" /\ conn \in loops

\* A comms block that is Ready when all is said has a connection that is read from
\* and over which it is told of the server's blocks, unless a wait for a connection
\* was cut short by an item that an earlier loss had left.
ReadyIsConnected ==
  /\ TypeOK
  /\ Quiet /\ state = "Ready" /\ ~stale =>
       Connected /\ \E s \in subs : s.conn = conn /\ s.of = "blocks"

\* Once all has been told, a proxy that is subscribed over a connection that is
\* read from has the fields and values of the server's block.  The report of an
\* earlier connection, which takes all requests for lost, comes too late only if a
\* wait for a connection was cut short.
ProxyInStep ==
  Quiet /\ ~stale /\ Connected /\ (\E s \in subs : s.conn = conn /\ s.of = "block") =>
    shadow = remote

\* send_put() ends, though it has no timeout, unless there was no connection to
\* write it to, the report of a lost one was refused, or an item that an earlier
\* loss had left has cut short the wait for a connection or for the end of one.
PutsEnd ==
  \A p \in Puts :
    answer[p] = "waiting" ~> answer[p] # "waiting" \/ p \in unwritten \/ refused \/ stale

================================================================================
