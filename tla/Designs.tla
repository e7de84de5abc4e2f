------------------------------- MODULE Designs -------------------------------
(***************************************************************************)
(* The designs of a ManagerController and its ChildParts: what is saved to *)
(* a file and loaded from it, and how the block knows whether it was       *)
(* modified since (builtin/controllers/managercontroller.py and            *)
(* builtin/parts/childpart.py).  A part compares its child's attributes    *)
(* with what it last saved or loaded and reports the ones that differ; the *)
(* controller keeps the reports and sets "modified".  Children change at   *)
(* any time: a report waits while the controller's lock is held, which it  *)
(* is while block fields are exported.  A put of layout or exports is let  *)
(* in when the block is Ready, and made later, whatever the state is then. *)
(* The model starts when the block is Ready with no design loaded.         *)
(***************************************************************************)
EXTENDS Naturals, SequencesExt

CONSTANTS
  Parts,           \* the ChildParts
  Attrs,           \* config tagged attributes of each child
  Values,          \* their values
  Tables,          \* what the exports table may be
  Names,           \* names of designs
  MaxBlocked,      \* reports that wait for the lock
  MaxFaults,       \* hooks that fail
  MaxAsked,        \* puts of layout or exports that were let in and are not made yet
  ChangesInHooks   \* may a child change between the end of its hook and the end of all?

CONSTANT None      \* no design, no file, no message

ASSUME DesignsAssumption ==
  /\ None \notin Names \cup Values \cup (Values \X Values)
  /\ {MaxBlocked, MaxFaults, MaxAsked} \subseteq Nat
  /\ ChangesInHooks \in BOOLEAN

VARIABLES
  value,      \* the children's attributes
  saved,      \* saved_structure of each part
  messages,   \* modified_messages of each part
  reported,   \* part_modified: the messages each part last reported
  visible,    \* layout.value.visible
  exports,    \* exports.value
  clean,      \* saved_visibility and saved_exports
  modified,   \* modified.value
  design,     \* design.value
  files,      \* the files of the designs
  state,      \* Ready, Saving, Loading or Fault
  job,        \* what the save or load has to do and has done
  locked,     \* is the lock held over a wait?
  blocked,    \* reports that wait for it
  faults,     \* hooks that failed so far
  asked,      \* puts of layout or exports that were let in and are not made yet
  mixed       \* did the last save or load fail, or was such a put made in its midst?

parts == <<value, saved, messages>>
control == <<design, files, state, job, faults, mixed>>
vars == <<parts, reported, visible, exports, clean, modified, control, locked, blocked, asked>>

NoMessages == [a \in Attrs |-> None]

\* A save or load of a design: the structure to write or that was read, the parts
\* whose hook has not started, the attributes that it is still putting, and whether
\* layout or exports were put in its midst.
Idle == [design |-> None, structure |-> None, todo |-> {}, puts |-> [p \in Parts |-> {}],
         overtaken |-> FALSE]

JobOn == job.design # None

Init ==
  /\ value \in [Parts -> [Attrs -> Values]]
  /\ saved = value
  /\ messages = [p \in Parts |-> NoMessages] /\ reported = messages
  /\ visible \in [Parts -> BOOLEAN] /\ exports \in Tables
  /\ clean = [visible |-> visible, exports |-> exports]
  /\ modified = FALSE /\ design = None
  /\ files = [d \in Names |-> None]
  /\ state = "Ready" /\ job = Idle
  /\ locked = FALSE /\ blocked = << >>
  /\ faults = 0 /\ asked = 0 /\ mixed = FALSE

--------------------------------------------------------------------------------
(***************************************************************************)
(* Whether the design is modified                                          *)
(***************************************************************************)
\* update_modified: hidden parts do not count.
UpdateModified ==
  modified' = \/ \E p \in Parts : visible'[p] /\ reported'[p] # NoMessages
              \/ visible' # clean'.visible
              \/ exports' # clean'.exports

\* What a part says of an attribute that is or is not as it saved it.
Message(p, a, v, structure) == IF structure[a] = v THEN None ELSE <<v, structure[a]>>

TellOnlyModified(p, a, message) == message # messages[p][a] /\ message # None

\* It tells the controller if that is news.
IsNews(p, a, message) == message # messages[p][a]

\* A child's attribute is put: its part and then the controller are told.
Put(p, a, v) ==
  LET message == Message(p, a, v, saved[p])
      all == [messages EXCEPT ![p][a] = message]
  IN  /\ value' = [value EXCEPT ![p][a] = v]
      /\ messages' = all
      /\ IF ~IsNews(p, a, message) THEN UNCHANGED <<reported, modified, blocked>>
         ELSE IF locked
         THEN blocked' = Append(blocked, [part |-> p, messages |-> all[p]])
                /\ UNCHANGED <<reported, modified>>
         ELSE /\ reported' = [reported EXCEPT ![p] = all[p]]
              /\ UpdateModified
              /\ UNCHANGED blocked

\* The hook of a part is over, those of others are not.
HookDone(p) == JobOn /\ p \notin job.todo /\ job.puts[p] = {}

\* Somebody changes an attribute of a child.
ChangeAttr(p, a, v) ==
  /\ v # value[p][a]
  /\ locked => Len(blocked) < MaxBlocked
  /\ job.puts[p] = {}
  /\ ChangesInHooks \/ ~HookDone(p)
  /\ UNCHANGED <<saved, visible, exports, clean, control, locked, asked>>
  /\ Put(p, a, v)

\* _handle_put finds layout or exports writeable and releases the lock.
AskPut ==
  /\ state = "Ready" /\ ~locked
  /\ asked < MaxAsked
  /\ asked' = asked + 1
  /\ UNCHANGED <<parts, reported, visible, exports, clean, modified, control, locked, blocked>>

\* What was asked is made with the lock, which is then held while the fields are
\* subscribed to: a save or load that has started meanwhile goes on.
MakePut ==
  /\ asked > 0 /\ ~locked
  /\ asked' = asked - 1
  /\ UNCHANGED <<reported, clean>>
  /\ UpdateModified
  /\ locked' = TRUE
  /\ job' = [job EXCEPT !.overtaken = JobOn]
  /\ UNCHANGED <<parts, design, files, state, faults, mixed, blocked>>

SetExports(table) ==
  /\ exports' = table
  /\ UNCHANGED visible
  /\ MakePut

\* set_layout waits for the LayoutHooks before; only when what is visible changed
\* does it more than to set the table.
SetLayout(shown) ==
  /\ shown # visible
  /\ visible' = shown
  /\ UNCHANGED exports
  /\ MakePut

\* A hook fails, a name is not valid, or nothing changes that shows.
PutNothing ==
  /\ asked > 0
  /\ asked' = asked - 1
  /\ UNCHANGED <<parts, reported, visible, exports, clean, modified, control, locked, blocked>>

\* The reports of a part that wait for the lock.
Waiting(p) == {n \in DOMAIN blocked : blocked[n].part = p}

\* What its report is when those that wait have been taken, the last one last.
Upcoming(p) == IF Waiting(p) = {} THEN reported[p] ELSE blocked[Max(Waiting(p))].messages

\* The lock is released, reports that waited are taken in turn; a save or load that
\* has marked all clean is over.
Unlock ==
  /\ locked
  /\ locked' = FALSE /\ blocked' = << >>
  /\ reported' = [p \in Parts |-> Upcoming(p)]
  /\ UNCHANGED <<visible, exports, clean>>
  /\ IF blocked = << >> THEN UNCHANGED modified ELSE UpdateModified
  /\ state' = IF state \in {"Saving", "Loading"} /\ ~JobOn THEN "Ready" ELSE state
  /\ UNCHANGED <<parts, design, files, job, faults, asked, mixed>>

--------------------------------------------------------------------------------
(***************************************************************************)
(* Saving and loading                                                      *)
(***************************************************************************)

\* Layout and exports are saved as they are when the save starts.
Snapshot == [visible |-> visible, exports |-> exports, children |-> value]

\* A design that is saved under no name takes that of the design there is; if
\* there is none the save fails.
Save(name) ==
  /\ state = "Ready" /\ ~locked
  /\ IF name = None /\ design = None
     THEN state' = "Fault" /\ UNCHANGED job
     ELSE /\ state' = "Saving"
          /\ job' = [Idle EXCEPT
               !.design = IF name = None THEN design ELSE name,
               !.structure = Snapshot,
               !.todo = Parts]
  /\ UNCHANGED <<parts, reported, visible, exports, clean, modified, locked, blocked,
                 design, files, faults, asked, mixed>>

\* ChildPart.on_save
SavePart(p) ==
  /\ state = "Saving" /\ p \in job.todo
  /\ saved' = [saved EXCEPT ![p] = value[p]]
  /\ job' = [job EXCEPT !.todo = @ \ {p}, !.structure.children[p] = value[p]]
  /\ UNCHANGED <<value, messages, reported, visible, exports, clean, modified, locked,
                 blocked, design, files, state, faults, asked, mixed>>

\* do_load reads the file, sets layout and exports, and starts the load hooks.
Load(name) ==
  /\ state = "Ready" /\ ~locked
  /\ files[name] # None
  /\ state' = "Loading"
  /\ job' = [Idle EXCEPT !.design = name, !.structure = files[name], !.todo = Parts]
  /\ visible' = files[name].visible /\ exports' = files[name].exports
  /\ UNCHANGED <<reported, clean>>
  /\ IF visible' = visible THEN UNCHANGED modified
     ELSE modified' = \/ \E p \in Parts : visible'[p] /\ reported[p] # NoMessages
                      \/ visible' # clean.visible \/ exports # clean.exports
  /\ UNCHANGED <<parts, locked, blocked, design, files, faults, asked, mixed>>

PutModified(p, structure) == {a \in Attrs : messages[p][a] # None}

\* on_load puts what is not as it is in the file.
ToPut(p, structure) == {a \in Attrs : value[p][a] # structure[a]}

LoadPart(p) ==
  LET structure == job.structure.children[p]
  IN  /\ state = "Loading" /\ p \in job.todo
      /\ saved' = [saved EXCEPT ![p] = structure]
      /\ job' = [job EXCEPT !.todo = @ \ {p}, !.puts[p] = ToPut(p, structure)]
      /\ UNCHANGED <<value, messages, reported, visible, exports, clean, modified, locked,
                     blocked, design, files, state, faults, asked, mixed>>

LoadAttr(p, a) ==
  /\ state = "Loading" /\ a \in job.puts[p]
  /\ UNCHANGED <<saved, visible, exports, clean, locked, design, files, state, faults, asked,
                 mixed>>
  /\ Put(p, a, job.structure.children[p][a])
  /\ job' = [job EXCEPT !.puts[p] = @ \ {a}]

\* A hook fails: the save or load stops where it is.
HookFails ==
  /\ JobOn /\ ~locked
  /\ faults < MaxFaults
  /\ faults' = faults + 1 /\ mixed' = TRUE
  /\ state' = "Fault" /\ job' = Idle
  /\ UNCHANGED <<parts, reported, visible, exports, clean, modified, design, files, locked, blocked,
                 asked>>

\* All hooks are done: the file is written and _mark_clean forgets the reports;
\* it holds the lock while the fields are subscribed to.
MarkClean ==
  /\ JobOn /\ ~locked
  /\ job.todo = {} /\ \A p \in Parts : job.puts[p] = {}
  /\ files' = IF state = "Saving" THEN [files EXCEPT ![job.design] = job.structure] ELSE files
  /\ clean' = [visible |-> visible, exports |-> exports]
  /\ reported' = [p \in Parts |-> NoMessages]
  /\ UNCHANGED <<visible, exports>>
  /\ UpdateModified
  /\ design' = job.design
  /\ locked' = TRUE
  /\ job' = Idle /\ mixed' = job.overtaken
  /\ UNCHANGED <<parts, state, faults, blocked, asked>>

\* reset does not touch what was saved.
Reset ==
  /\ state = "Fault" /\ ~locked
  /\ state' = "Ready"
  /\ UNCHANGED <<parts, reported, visible, exports, clean, modified, design, files, job,
                 faults, mixed, locked, blocked, asked>>

Next ==
  \/ \E p \in Parts, a \in Attrs, v \in Values : ChangeAttr(p, a, v)
  \/ AskPut \/ PutNothing
  \/ \E table \in Tables : SetExports(table)
  \/ \E shown \in [Parts -> BOOLEAN] : SetLayout(shown)
  \/ \E name \in Names \cup {None} : Save(name)
  \/ \E name \in Names : Load(name)
  \/ \E p \in Parts : SavePart(p) \/ LoadPart(p)
  \/ \E p \in Parts, a \in Attrs : LoadAttr(p, a)
  \/ HookFails \/ MarkClean \/ Unlock \/ Reset

Spec == Init /\ [][Next]_vars

--------------------------------------------------------------------------------
(***************************************************************************)
(* Properties                                                              *)
(***************************************************************************)
Structures == [visible: [Parts -> BOOLEAN], exports: Tables, children: [Parts -> [Attrs -> Values]]]
Messages == [Attrs -> {None} \cup Values \X Values]

\* The types.
TypeOK ==
  /\ value \in [Parts -> [Attrs -> Values]] /\ saved \in [Parts -> [Attrs -> Values]]
  /\ messages \in [Parts -> Messages] /\ reported \in [Parts -> Messages]
  /\ visible \in [Parts -> BOOLEAN] /\ exports \in Tables
  /\ clean \in [visible: [Parts -> BOOLEAN], exports: Tables]
  /\ modified \in BOOLEAN /\ locked \in BOOLEAN /\ mixed \in BOOLEAN
  /\ design \in Names \cup {None}
  /\ \A d \in Names : files[d] # None => files[d] \in Structures
  /\ state \in {"Ready", "Saving", "Loading", "Fault"}
  /\ job.todo \subseteq Parts /\ job.puts \in [Parts -> SUBSET Attrs] /\ job.overtaken \in BOOLEAN
  /\ blocked \in Seq([part: Parts, messages: Messages]) /\ faults \in 0 .. MaxFaults
  /\ asked \in 0 .. MaxAsked

Quiet == state = "Ready" /\ ~locked

\* When the LED is off the block is as in its design: to load it would change
\* nothing that shows. A save or load that failed leaves that open, until the
\* next one, and so does one that a put of layout or exports overtook.
CleanIsDesign ==
  Quiet /\ ~modified /\ design # None /\ ~mixed =>
    /\ visible = files[design].visible
    /\ exports = files[design].exports
    /\ \A p \in Parts : visible[p] => value[p] = files[design].children[p]

\* The controller holds what each part last said, or has forgotten it.
ReportsCurrent ==
  /\ TypeOK
  /\ Quiet => \A p \in Parts : reported[p] \in {NoMessages, messages[p]}

\* When the LED is on something that shows differs from what was saved or loaded.
ModifiedIsTrue ==
  Quiet /\ modified =>
    \/ visible # clean.visible
    \/ exports # clean.exports
    \/ \E p \in Parts : visible[p] /\ value[p] # saved[p]

================================================================================
