------------------------------ MODULE Notifier -------------------------------
(***************************************************************************)
(* The Notifier of a block (core/notifier.py): subscribers of the block, a *)
(* field or a value in a field are told what changes there.  Changes are   *)
(* squashed: they are collected while anybody is inside a changes_squashed *)
(* and then go down a tree of nodes, one for each path that somebody below *)
(* it subscribed to.  The models that change are those of core/models.py.  *)
(* The lock is held while changes are squashed, and a callback gives up    *)
(* the processor only in the websocket server (module WebsocketHandler),   *)
(* so here a subscribe request or the last exit from changes_squashed is   *)
(* one step.                                                               *)
(***************************************************************************)
EXTENDS Naturals, SequencesExt

CONSTANTS
  Fields,       \* names of fields of the block
  Leaves,       \* names of values in a field
  Values,       \* what a value may be
  Objects,      \* field models in memory at once
  Subscribers,  \* subscriptions at once
  MaxNesting,   \* changes_squashed inside each other
  MaxChanges    \* changes in one squash

CONSTANT None   \* no such thing, as in getattr(data, name, None)

ASSUME NamesAssumption ==
  /\ Fields \cap Leaves = {} /\ Objects \cap Values = {}
  /\ None \notin Fields \cup Leaves \cup Values \cup Objects
  /\ "block" \notin Values \cup Objects \cup {None}
  /\ Values # {}
  /\ {MaxNesting, MaxChanges} \subseteq Nat

VARIABLES
  heap,     \* the values in each field model
  block,    \* the model of each field, or None
  wired,    \* the field each model notifies changes of, None for the DummyNotifier
  count,    \* _squashed_count
  changes,  \* _squashed_changes
  nodes,    \* the data of each node of the tree, by path
  request,  \* the request of each subscriber, None before and after
  view      \* what a client that believes its responses holds

model == <<heap, block, wired>>
tree == <<nodes, request, view>>
vars == <<model, count, changes, tree>>

Root == << >>
Paths == {Root} \cup {<<f>> : f \in Fields} \cup {<<f, l>> : f \in Fields, l \in Leaves}

Requests == [path: Paths, delta: BOOLEAN]

\* None is no frozen model and no request either.
ASSUME NoneAssumption ==
  None \notin Requests \cup [Leaves -> Values] \cup [Fields -> [Leaves -> Values] \cup {None}]

Init ==
  /\ heap = [o \in Objects |-> [l \in Leaves |-> CHOOSE v \in Values : TRUE]]
  /\ block = [f \in Fields |-> None]
  /\ wired = [o \in Objects |-> None]
  /\ count = 0 /\ changes = << >>
  /\ nodes = [p \in {Root} |-> "block"]
  /\ request = [s \in Subscribers |-> None]
  /\ view = [s \in Subscribers |-> None]

--------------------------------------------------------------------------------
(***************************************************************************)
(* The models                                                              *)
(***************************************************************************)
\* A change of the data at a path, or its deletion.
Changed(path, data) == [path |-> path, data |-> data]

Squashed(change) ==
  /\ count > 0
  /\ Len(changes) < MaxChanges
  /\ changes' = Append(changes, change)

\* A model that was just made is known to nobody.
Fresh(o) ==
  /\ wired[o] = None
  /\ \A p \in DOMAIN nodes : nodes[p] # o
  /\ \A n \in DOMAIN changes : changes[n].data # o

OldStaysWired(f, o) == wired' = [wired EXCEPT ![o] = f]

\* A model is put where another may have been, which stops notifying.
Rewired(f, o) ==
  wired' = [x \in Objects |-> IF x = o THEN f ELSE IF x = block[f] THEN None ELSE wired[x]]

\* BlockModel.set_endpoint_data
SetField(f, o, values) ==
  /\ Fresh(o)
  /\ heap' = [heap EXCEPT ![o] = values]
  /\ Rewired(f, o)
  /\ block' = [block EXCEPT ![f] = o]
  /\ Squashed(Changed(<<f>>, o))
  /\ UNCHANGED <<count, tree>>

\* BlockModel.remove_endpoint
RemoveField(f) ==
  /\ block[f] # None
  /\ wired' = [wired EXCEPT ![block[f]] = None]
  /\ block' = [block EXCEPT ![f] = None]
  /\ Squashed(Changed(<<f>>, None))
  /\ UNCHANGED <<heap, count, tree>>

\* Model.set_endpoint_data, of a model that may not be in the block any more
SetLeaf(o, l, v) ==
  /\ heap' = [heap EXCEPT ![o][l] = v]
  /\ IF wired[o] = None
     THEN count > 0 /\ UNCHANGED changes
     ELSE Squashed(Changed(<<wired[o], l>>, v))
  /\ UNCHANGED <<block, wired, count, tree>>

--------------------------------------------------------------------------------
(***************************************************************************)
(* The tree                                                                *)
(***************************************************************************)
\* getattr(data, name, None): data is the block, a field's model, a value or None.
Child(data, name) ==
  IF data = "block" THEN block[name]
  ELSE IF data \in Objects THEN heap[data][name]
  ELSE None

FrozenField(o) == IF o = None THEN None ELSE heap[o]

\* freeze(data)
Freeze(data) ==
  IF data = "block" THEN [f \in Fields |-> FrozenField(block[f])]
  ELSE IF data \in Objects THEN heap[data]
  ELSE data

\* _update_data: if data of mine was replaced, so was each child's.
Reflected(name, data) == <<Changed(Root, Child(data, name))>>

\* _add_child_change, for one child
ForChild(name, change) ==
  IF change.path = Root THEN Reflected(name, change.data)
  ELSE IF Head(change.path) = name THEN <<Changed(Tail(change.path), change.data)>>
  ELSE << >>

\* The changes that notify_changes gets at each node, by way of its parents.
Local[p \in Paths] ==
  IF p = Root THEN changes
  ELSE LET above == Local[Front(p)]
       IN  FlattenSeq([n \in DOMAIN above |-> ForChild(Last(p), above[n])])

\* _update_data: the data of a node is that of the last change of all of it.
NewData(p, local) ==
  LET last == SelectLastInSeq(local, LAMBDA change : change.path = Root)
  IN  IF last = 0 THEN nodes[p] ELSE local[last].data

\* What a client does with a change of a Delta.
Apply(held, change) ==
  LET data == Freeze(change.data)
  IN  IF change.path = Root THEN data
      ELSE IF held = None THEN None
      ELSE IF Len(change.path) = 1 THEN [held EXCEPT ![change.path[1]] = data]
      ELSE IF held[change.path[1]] = None THEN held
      ELSE [held EXCEPT ![change.path[1]][change.path[2]] = data]

\* Deltas are applied in turn, an Update replaces what the client holds.
Response(s, local) ==
  IF request[s].delta
  THEN FoldLeft(Apply, view[s], local)
  ELSE Freeze(NewData(request[s].path, local))

NotifyChanges ==
  /\ nodes' = [p \in DOMAIN nodes |-> NewData(p, Local[p])]
  /\ view' = [s \in Subscribers |->
                IF request[s] = None \/ Local[request[s].path] = << >> THEN view[s]
                ELSE Response(s, Local[request[s].path])]

\* changes_squashed is entered,
Enter ==
  /\ count < MaxNesting
  /\ count' = count + 1
  /\ UNCHANGED <<model, changes, tree>>

Lower == count' = count - 1

\* and left: the last to leave notifies.
Exit ==
  /\ count > 0
  /\ Lower
  /\ IF count' = 0
     THEN changes' = << >> /\ NotifyChanges /\ UNCHANGED request
     ELSE UNCHANGED <<changes, tree>>
  /\ UNCHANGED model

\* A node that is made has the data of its parent's.
NodeData[p \in Paths] ==
  IF p \in DOMAIN nodes THEN nodes[p] ELSE Child(NodeData[Front(p)], Last(p))

\* handle_subscribe: nodes are made down to the path.
Subscribe(s, r) ==
  /\ count = 0
  /\ request[s] = None
  /\ request' = [request EXCEPT ![s] = r]
  /\ nodes' = [p \in DOMAIN nodes \cup Prefixes(r.path) |-> NodeData[p]]
  /\ view' = [view EXCEPT ![s] = Freeze(NodeData[r.path])]
  /\ UNCHANGED <<model, count, changes>>

HasRequests(p, s) == \E x \in Subscribers \ {s} : request[x] # None /\ p = request[x].path

\* Is anybody subscribed to a node or below it, but for the one that leaves?
Needed(p, s) ==
  \E x \in Subscribers \ {s} : request[x] # None /\ IsPrefix(p, request[x].path)

\* handle_unsubscribe: the nodes nobody needs any more go.
Unsubscribe(s) ==
  /\ count = 0
  /\ request[s] # None
  /\ request' = [request EXCEPT ![s] = None]
  /\ nodes' = [p \in {p \in DOMAIN nodes :
                        p = Root \/ p \notin Prefixes(request[s].path) \/ Needed(p, s)} |-> nodes[p]]
  /\ view' = [view EXCEPT ![s] = None]
  /\ UNCHANGED <<model, count, changes>>

Next ==
  \/ Enter \/ Exit
  \/ \E f \in Fields : RemoveField(f)
  \/ \E f \in Fields, o \in Objects, values \in [Leaves -> Values] : SetField(f, o, values)
  \/ \E o \in Objects, l \in Leaves, v \in Values : SetLeaf(o, l, v)
  \/ \E s \in Subscribers : Unsubscribe(s) \/ \E r \in Requests : Subscribe(s, r)

Spec == Init /\ [][Next]_vars

--------------------------------------------------------------------------------
(***************************************************************************)
(* Properties                                                              *)
(***************************************************************************)
\* The types.
TypeOK ==
  /\ heap \in [Objects -> [Leaves -> Values]]
  /\ block \in [Fields -> Objects \cup {None}] /\ wired \in [Objects -> Fields \cup {None}]
  /\ count \in 0 .. MaxNesting
  /\ DOMAIN nodes \subseteq Paths
  /\ \A p \in DOMAIN nodes : nodes[p] \in {"block", None} \cup Objects \cup Values
  /\ request \in [Subscribers -> Requests \cup {None}] /\ DOMAIN view = Subscribers

\* The data at a path of the block.
DataAt(path) ==
  CASE path = Root -> "block"
    [] Len(path) = 1 -> block[path[1]]
    [] OTHER -> Child(block[path[1]], path[2])

\* When no changes are being squashed, every client holds what is there, by
\* updates and by deltas, whatever was set, replaced and removed in between.
ClientsInStep ==
  count = 0 => \A s \in Subscribers : request[s] # None => view[s] = Freeze(DataAt(request[s].path))

\* There is a node for the paths subscribed to and above them, and no other.
TreeFits ==
  /\ TypeOK
  /\ DOMAIN nodes =
       {Root} \cup UNION {Prefixes(request[s].path) : s \in {s \in Subscribers : request[s] # None}}

================================================================================
