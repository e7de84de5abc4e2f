------------------------------- MODULE Exports -------------------------------
(***************************************************************************)
(* A manager that exports fields of a child block.  The child's requests   *)
(* are handled under its lock (core/controller.py), its notifier calls     *)
(* back into the ChildPart and into the manager's exports, which take the  *)
(* manager's lock, and the manager subscribes to the child while it holds  *)
(* its own (builtin/controllers/managercontroller.py, parts/childpart.py). *)
(* Cothreads give up the processor only where they wait for a lock or for  *)
(* each other, so what they do between two waits is one step; who waits    *)
(* for the manager's lock gets it in the order of asking.                  *)
(***************************************************************************)
EXTENDS Integers, FiniteSets, SequencesExt

CONSTANTS
  Attributes,     \* config attributes that the child may have
  Methods,        \* methods of the child
  Own,            \* fields that the child always has and never replaces
  Values,         \* of an attribute, or how often a method has been called
  Saved,          \* the value of each attribute in the saved design
  Threads,        \* cothreads that handle one request each
  ExportMethods,  \* whether methods may be exported
  FieldsReturn,   \* whether a field that has gone may come back
  OverlapChanges  \* whether the fields change while the last change is reported

CONSTANT None     \* no thread, no value

Fields == Attributes \cup Methods

ASSUME FieldsAssumption ==
  /\ Attributes \cap Methods = {} /\ Methods \subseteq Own /\ Own \subseteq Fields
  /\ Saved \in Values /\ None \notin Values \cup Threads
  /\ Threads \cap Fields = {}

VARIABLES
  fields,      \* the fields of the child
  value,       \* of each field
  gone,        \* fields that the child had once
  subscribed,  \* exports that the child's notifier serves: <<field, generation>>
  watched,     \* attributes whose config subscription it serves
  requests,    \* subscribe and unsubscribe requests to the child, in order
  holder,      \* who keeps the child's lock while waiting for something
  line,        \* who has the manager's lock, and who waits for it
  step,        \* what each thread does
  todo,        \* callbacks that a thread, or the handler of a request, has to call
  config,      \* config_subscriptions of the ChildPart, never taken out again
  ports,       \* port_infos
  messages,    \* modified_messages: attributes that differ from the saved design
  modified,    \* part_modified of the manager
  known,       \* part_exportable
  exports,     \* the fields that the manager's exports name
  current,     \* _current_part_fields
  block,       \* exported fields in the manager's block: value and generation
  left,        \* exports that update_block_endpoints has not subscribed to yet
  made,        \* those it has got
  generation   \* of the exports, counted by update_block_endpoints

childVars == <<fields, value, gone, subscribed, watched, requests, holder>>
partVars == <<config, ports, messages>>
managerVars == <<modified, known, exports, current, block, left, made, generation>>
vars == <<childVars, line, step, todo, partVars, managerVars>>

\* The handler of a request for a config subscription is named after its field.
Workers == Threads \cup Attributes

Steps == {"Idle", "Posting", "Calling", "Exporting", "Rewiring", "Reporting", "Done", "Failed"}

TypeOK ==
  /\ fields \subseteq Fields /\ Own \subseteq fields
  /\ value \in [Fields -> Values]
  /\ subscribed \subseteq Fields \X Nat
  /\ watched \subseteq config
  /\ holder \in Threads \cup {None}
  /\ IsInjective(line) /\ ToSet(line) \subseteq Workers
  /\ step \in [Threads -> Steps]
  /\ messages \subseteq Attributes /\ modified \subseteq Attributes
  /\ known \subseteq Fields /\ exports \subseteq Fields /\ current \subseteq Fields
  /\ DOMAIN block \in {{}, current}
  /\ left \cap DOMAIN made = {}

\* The state after the first load: the part watches its child.
Init ==
  /\ fields \in {fs \in SUBSET Fields : Own \subseteq fs}
  /\ value = [f \in Fields |-> Saved]
  /\ gone = {} /\ subscribed = {}
  /\ watched = fields \cap Attributes /\ config = watched /\ ports = watched
  /\ requests = << >> /\ line = << >>
  /\ holder = None
  /\ step = [t \in Threads |-> "Idle"]
  /\ todo = [w \in Workers |-> << >>]
  /\ messages = {} /\ modified = {}
  /\ known = fields
  /\ exports = {} /\ current = {} /\ left = {}
  /\ block = << >> /\ made = << >>
  /\ generation = 0

--------------------------------------------------------------------------------
(***************************************************************************)
(* Callbacks that the child's notifier has for a thread.                   *)
(***************************************************************************)
Update(f, v) == [to |-> "part", field |-> f, value |-> v]
Delta(e, v) == [to |-> "export", export |-> e, value |-> v]
\* The list from before the change.
OldFieldList(new) == [to |-> "fields", new |-> fields]

FieldList(new) == [to |-> "fields", new |-> new]
Report(mods) == [to |-> "modified", mods |-> mods]

ExportsOf(f) == {e \in subscribed : e[1] = f}

\* What the notifier tells of field f: those who have a Delta of it, then those
\* who have its value.  None stands for a field that goes.
Told(f, delta, v) ==
  SetToSeq({Delta(e, delta) : e \in ExportsOf(f)})
    \o (IF f \in watched THEN <<Update(f, v)>> ELSE << >>)

\* What it tells of each of a set of fields, in any order.
TellAll(fs, Tell(_)) == FoldLeft(LAMBDA calls, f : calls \o Tell(f), << >>, SetToSeq(fs))

\* w goes on with these calls.  A thread that has none left has done its request
\* and gives the child's lock back.
GoesOn(w, calls) ==
  /\ todo' = [todo EXCEPT ![w] = calls]
  /\ step' = IF w \in Threads /\ calls = << >> THEN [step EXCEPT ![w] = "Done"] ELSE step
  /\ holder' = IF calls = << >> /\ holder = w THEN None ELSE holder

\* A callback raises: it is logged and raised, and the rest is not called.
Raises(w) ==
  /\ todo' = [todo EXCEPT ![w] = << >>]
  /\ step' = IF w \in Threads THEN [step EXCEPT ![w] = "Failed"] ELSE step
  /\ holder' = IF holder = w THEN None ELSE holder

Starts(t) == step[t] = "Idle"

--------------------------------------------------------------------------------
(***************************************************************************)
(* Requests to the child.                                                  *)
(***************************************************************************)
\* The lock is kept while the callbacks are called.
LockKept(t, calls) == holder' = IF calls = << >> THEN None ELSE t

\* Notifier.__exit__(): the lock is released, then they are called.
LockReleased(t, calls) == UNCHANGED holder

Notifies(t, calls) ==
  /\ LockReleased(t, calls)
  /\ todo' = [todo EXCEPT ![t] = calls]
  /\ step' = [step EXCEPT ![t] = IF calls = << >> THEN "Done" ELSE "Calling"]

SetValue(t) ==
  /\ Starts(t)
  /\ holder = None
  /\ \E f \in fields \cap Attributes, v \in Values :
       /\ value' = [value EXCEPT ![f] = v]
       /\ Notifies(t, Told(f, v, v))
  /\ UNCHANGED <<fields, gone, subscribed, watched, requests, line, partVars, managerVars>>

\* _handle_post() releases the lock for the function ...
Post(t) ==
  /\ Starts(t)
  /\ Methods # {}
  /\ step' = [step EXCEPT ![t] = "Posting"]
  /\ UNCHANGED <<childVars, line, todo, partVars, managerVars>>

\* ... and has it again for update_method_logs(): what that notifies is called
\* with the lock.
PostEnds(t) ==
  /\ step[t] = "Posting"
  /\ holder = None
  /\ \E m \in Methods, v \in Values :
       LET calls == Told(m, v, v)
       IN  /\ value' = [value EXCEPT ![m] = v]
           /\ todo' = [todo EXCEPT ![t] = calls]
           /\ step' = [step EXCEPT ![t] = IF calls = << >> THEN "Done" ELSE "Calling"]
           /\ LockKept(t, calls)
  /\ UNCHANGED <<fields, gone, subscribed, watched, requests, line, partVars, managerVars>>

\* The scope of changes: nobody reports the last one.
Reporting == \E t \in Threads : \E i \in DOMAIN todo[t] : todo[t][i].to \in {"fields", "wait"}

\* The child, a manager as well, takes all fields but its own away and puts the
\* new ones there, in one squash.
ChangeFields(t) ==
  /\ Starts(t)
  /\ holder = None
  /\ OverlapChanges \/ ~Reporting
  /\ \E new \in SUBSET Fields, v \in Values :
       /\ Own \subseteq new /\ new # fields
       /\ FieldsReturn \/ new \cap gone = {}
       /\ fields' = new
       /\ gone' = gone \cup (fields \ new)
       /\ value' = [f \in Fields |-> IF f \in new \ fields THEN v ELSE value[f]]
       /\ Notifies(t, <<FieldList(new)>>
                        \o TellAll(fields \ new, LAMBDA f : Told(f, None, None))
                        \o TellAll(new \ Own, LAMBDA f : Told(f, None, value'[f])))
  /\ UNCHANGED <<subscribed, watched, requests, line, partVars, managerVars>>

\* The handler of a request: the response to a config subscription is an Update
\* that the part works on, the one to an export is taken as it is.
Serve ==
  /\ holder = None
  /\ requests # << >>
  /\ requests' = Tail(requests)
  /\ LET r == Head(requests)
         f == r.field
         now == IF f \in fields THEN value[f] ELSE None
     IN  \/ /\ r.what = "watch" /\ todo[f] = << >>
            /\ watched' = watched \cup {f}
            /\ todo' = [todo EXCEPT ![f] = <<Update(f, now)>>]
            /\ UNCHANGED <<subscribed, made>>
         \/ /\ r.what = "unwatch"
            /\ watched' = watched \ {f}
            /\ UNCHANGED <<subscribed, todo, made>>
         \/ /\ r.what = "export"
            /\ subscribed' = subscribed \cup {<<f, generation>>}
            /\ made' = made @@ (f :> now)
            /\ UNCHANGED <<watched, todo>>
         \/ /\ r.what = "unexport"
            /\ subscribed' = subscribed \ {<<f, r.generation>>}
            /\ UNCHANGED <<watched, todo, made>>
  /\ UNCHANGED <<fields, value, gone, holder, line, step, partVars, modified, known,
                 exports, current, block, left, generation>>

--------------------------------------------------------------------------------
(***************************************************************************)
(* The ChildPart.                                                          *)
(***************************************************************************)
Call(w) == Head(todo[w])
Calls(w, to) ==
  /\ w \in Threads => step[w] = "Calling"
  /\ todo[w] # << >> /\ Call(w).to = to

\* The messages are copied for the report as they are after the change.
MessagesAfter(f, v) == IF v = Saved THEN messages \ {f} ELSE messages \cup {f}

\* update_part_modified() ...
UpdatePartModified(w) ==
  /\ Calls(w, "part")
  /\ messages' = MessagesAfter(Call(w).field, Call(w).value)
  /\ IF messages' = messages
       THEN GoesOn(w, Tail(todo[w])) /\ UNCHANGED line
       ELSE /\ todo' = [todo EXCEPT ![w] = <<Report(messages')>> \o Tail(@)]
            /\ line' = Append(line, w)
            /\ UNCHANGED <<step, holder>>
  /\ UNCHANGED <<fields, value, gone, subscribed, watched, requests, config, ports, managerVars>>

\* ... reports to the manager's update_modified().
UpdateModified(w) ==
  /\ Calls(w, "modified")
  /\ line # << >> /\ Head(line) = w
  /\ line' = Tail(line)
  /\ modified' = Call(w).mods
  /\ GoesOn(w, Tail(todo[w]))
  /\ UNCHANGED <<fields, value, gone, subscribed, watched, requests, partVars,
                 known, exports, current, block, left, made, generation>>

\* Fields that are there for the first time: config_subscriptions forgets none.
NewFields(new) == (new \cap Attributes) \ config

\* update_part_exportable(): unsubscribes from what is not in the list, again and
\* again, subscribes to what is new, ...
UpdatePartExportable(t) ==
  /\ Calls(t, "fields")
  /\ holder = None
  /\ LET new == Call(t).new
         Request(what, f) == [what |-> what, field |-> f, generation |-> 0, by |-> t]
     IN  IF NewFields(new) \subseteq fields
           THEN /\ requests' = requests
                     \o SetToSeq({Request("unwatch", f) : f \in config \ new})
                     \o SetToSeq({Request("watch", f) : f \in NewFields(new)})
                /\ config' = config \cup NewFields(new)
                /\ ports' = (ports \ (config \ new)) \cup NewFields(new)
                /\ todo' = [todo EXCEPT ![t] =
                              <<[to |-> "wait", new |-> new, added |-> NewFields(new)]>> \o Tail(@)]
                /\ UNCHANGED <<step, holder>>
           ELSE Raises(t) /\ UNCHANGED <<requests, config, ports>>
  /\ UNCHANGED <<fields, value, gone, subscribed, watched, line, messages, managerVars>>

\* ... waits for the responses ...
Responded(t) ==
  /\ \A i \in DOMAIN requests : requests[i].by # t
  /\ \A f \in Call(t).added : todo[f] = << >>

\* Only what was deleted.
DeletedNames(new) == known \ new

\* Whose exports the manager has to make again: what was added or deleted.
ChangedNames(new) == (known \ new) \cup (new \ known)

--------------------------------------------------------------------------------
(***************************************************************************)
(* The manager.                                                            *)
(***************************************************************************)

\* w asks for the manager's lock.
Join(w) ==
  /\ w \notin ToSet(line)
  /\ \/ Calls(w, "export")
     \/ Calls(w, "wait") /\ Responded(w)
  /\ line' = Append(line, w)
  /\ UNCHANGED <<childVars, step, todo, partVars, managerVars>>

AskExports(t) ==
  /\ Starts(t)
  /\ step' = [step EXCEPT ![t] = "Exporting"]
  /\ line' = Append(line, t)
  /\ UNCHANGED <<childVars, todo, partVars, managerVars>>

\* _subscriptions: what the last update_block_endpoints() has subscribed to.
Subscriptions == {e \in subscribed : e[2] = generation}

\* update_block_endpoints() takes the fields away and unsubscribes from them; it
\* raises if they are not there.
Rewire(t, calls) ==
  IF current # {} /\ block = << >>
    THEN /\ Raises(t)
         /\ line' = Tail(line)
         /\ UNCHANGED <<requests, block, left, made, generation>>
    ELSE /\ block' = << >>
         /\ requests' = requests \o SetToSeq(
              {[what |-> "unexport", field |-> e[1], generation |-> e[2], by |-> None] :
               e \in Subscriptions})
         /\ generation' = generation + 1
         /\ left' = exports' \cap known'
         /\ made' = << >>
         /\ step' = [step EXCEPT ![t] = "Rewiring"]
         /\ todo' = [todo EXCEPT ![t] = calls]
         /\ UNCHANGED <<line, holder>>

SetExports(t) ==
  /\ step[t] = "Exporting"
  /\ Head(line) = t
  /\ exports' \in SUBSET Fields
  /\ ExportMethods \/ exports' \subseteq Attributes
  /\ known' = known
  /\ Rewire(t, << >>)
  /\ UNCHANGED <<fields, value, gone, subscribed, watched, partVars, modified, current>>

\* ... and reports to the manager's update_exportable().
UpdateExportable(t) ==
  /\ Calls(t, "wait")
  /\ line # << >> /\ Head(line) = t
  /\ known' = Call(t).new
  /\ exports' = exports
  /\ IF ChangedNames(known') \cap exports # {}
       THEN Rewire(t, Tail(todo[t]))
       ELSE /\ GoesOn(t, Tail(todo[t]))
            /\ line' = Tail(line)
            /\ UNCHANGED <<requests, block, left, made, generation>>
  /\ UNCHANGED <<fields, value, gone, subscribed, watched, partVars, modified, current>>

\* _make_export_field() subscribes to one after the other, with the lock.
SubscribeExport(t) ==
  /\ step[t] = "Rewiring"
  /\ DOMAIN made = (exports \cap known) \ left
  /\ None \notin Range(made)
  /\ \E f \in left :
       /\ left' = left \ {f}
       /\ requests' = Append(requests, [what |-> "export", field |-> f,
                                        generation |-> generation, by |-> t])
  /\ UNCHANGED <<fields, value, gone, subscribed, watched, holder, line, step, todo,
                 partVars, modified, known, exports, current, block, made, generation>>

\* A field that the child does not have is no model: there is no export to return.
ExportMissing(t) ==
  /\ step[t] = "Rewiring"
  /\ None \in Range(made)
  /\ Raises(t)
  /\ line' = Tail(line)
  /\ left' = {} /\ made' = << >>
  /\ UNCHANGED <<fields, value, gone, subscribed, watched, requests, partVars,
                 modified, known, exports, current, block, generation>>

Rewired(t) ==
  /\ step[t] = "Rewiring"
  /\ DOMAIN made = exports \cap known
  /\ None \notin Range(made)
  /\ block' = made
  /\ current' = DOMAIN made
  /\ left' = {} /\ made' = << >>
  /\ line' = Tail(line)
  /\ step' = [step EXCEPT ![t] = IF todo[t] = << >> THEN "Done" ELSE "Calling"]
  /\ UNCHANGED <<childVars, todo, partVars, modified, known, exports, generation>>

\* update_field(): a Delta of an export that is not in the block any more changes
\* a model that nobody sees; one that is no change of a value cannot be applied.
UpdateField(w) ==
  /\ Calls(w, "export")
  /\ line # << >> /\ Head(line) = w
  /\ line' = Tail(line)
  /\ LET e == Call(w).export
         v == Call(w).value
     IN  IF v = None
           THEN Raises(w) /\ UNCHANGED block
           ELSE /\ block' = IF e[1] \in DOMAIN block /\ e[2] = generation
                              THEN [block EXCEPT ![e[1]] = v] ELSE block
                /\ GoesOn(w, Tail(todo[w]))
  /\ UNCHANGED <<fields, value, gone, subscribed, watched, requests, partVars,
                 modified, known, exports, current, left, made, generation>>

--------------------------------------------------------------------------------
\* w is in the middle of its callbacks and does not wait for a lock.
Running(w) ==
  \/ Calls(w, "part")
  \/ Calls(w, "export") /\ w \notin ToSet(line)
  \/ Calls(w, "fields") /\ holder = None

GoOn(w) == UpdatePartModified(w) \/ Join(w) \/ UpdatePartExportable(w)

Resume ==
  \/ Serve
  \/ \E t \in Threads :
       \/ PostEnds(t) \/ SetExports(t) \/ UpdateExportable(t)
       \/ SubscribeExport(t) \/ ExportMissing(t) \/ Rewired(t)
  \/ \E w \in Workers : UpdateModified(w) \/ UpdateField(w) \/ Join(w)

\* Another cothread is only scheduled when that one waits.
Work ==
  \/ \E w \in Workers : Running(w) /\ GoOn(w)
  \/ ~(\E w \in Workers : Running(w)) /\ Resume

Request(t) == SetValue(t) \/ Post(t) \/ ChangeFields(t) \/ AskExports(t)

Next == Work \/ \E t \in Threads : ~(\E w \in Workers : Running(w)) /\ Request(t)

Spec == Init /\ [][Next]_vars

\* Cothreads are scheduled, and the functions of methods return.
FairSpec == Spec /\ WF_vars(Work)

--------------------------------------------------------------------------------
\* Nobody is at work on anything.
Quiet ==
  /\ \A t \in Threads : step[t] \in {"Idle", "Done", "Failed"}
  /\ requests = << >>
  /\ \A w \in Workers : todo[w] = << >>

\* Every request ends: nobody waits for ever, as two would who wait for each
\* other's lock.
EveryCallEnds == \A t \in Threads : step[t] # "Idle" ~> step[t] \in {"Done", "Failed"}

\* No request fails because of what another one does at the same time, or of who
\* has subscribed to what it changes.
NobodyFails == \A t \in Threads : step[t] # "Failed"

\* Once all has been told and nobody has failed, the manager's block has the
\* exported fields that the child has, each with the child's value.
ExportsInStep ==
  Quiet /\ NobodyFails => block = [f \in exports \cap fields |-> value[f]]

\* Once all has been told and nobody has failed, the manager may export the fields
\* that the child has, and the part knows the ports of all of them.
FieldsAreKnown ==
  Quiet /\ NobodyFails => known = fields /\ ports = fields \cap Attributes

\* Once all has been told and nobody has failed, a design counts as modified
\* where the child differs from it.
ModifiedIsRight ==
  Quiet /\ NobodyFails =>
    {f \in fields \cap Attributes : value[f] # Saved} = modified \cap fields

\* Once all has been told and nobody has failed, the child serves the
\* subscriptions that somebody wants.
NothingLeaks ==
  Quiet /\ NobodyFails =>
    /\ subscribed = {<<f, generation>> : f \in current}
    /\ watched = fields \cap Attributes

\* What the part keeps of its child is right, whichever fields came and went while
\* it subscribed to others.
PartInStep == TypeOK /\ FieldsAreKnown /\ ModifiedIsRight /\ NothingLeaks

================================================================================
