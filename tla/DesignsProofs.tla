---------------------------- MODULE DesignsProofs ----------------------------
(***************************************************************************)
(* What a ManagerController promises of its designs, for any parts,        *)
(* attributes, designs, tables, reports that wait and hooks that fail: it  *)
(* never holds an old report; and, where no child changes between the end  *)
(* of its hook and the end of all (ChangesInHooks is FALSE), a block whose *)
(* LED is off is as in the file of its design, unless a put of layout or   *)
(* exports was made in the midst of the last save or load.                 *)
(***************************************************************************)
EXTENDS Designs, WellFoundedInduction, TLAPS

--------------------------------------------------------------------------------
(***************************************************************************)
(* Types                                                                   *)
(***************************************************************************)
Jobs == [design: Names \cup {None}, structure: {None} \cup Structures,
         todo: SUBSET Parts, puts: [Parts -> SUBSET Attrs], overtaken: BOOLEAN]

\* A save or load has a name, a structure and a state.
JobTyped ==
  job # Idle => JobOn /\ job.structure \in Structures /\ state \in {"Saving", "Loading"}

\* The types.
Typed ==
  /\ value \in [Parts -> [Attrs -> Values]]
  /\ saved \in [Parts -> [Attrs -> Values]]
  /\ messages \in [Parts -> Messages]
  /\ reported \in [Parts -> Messages]
  /\ visible \in [Parts -> BOOLEAN] /\ exports \in Tables
  /\ clean \in [visible: [Parts -> BOOLEAN], exports: Tables]
  /\ modified \in BOOLEAN /\ locked \in BOOLEAN /\ mixed \in BOOLEAN
  /\ design \in Names \cup {None}
  /\ files \in [Names -> {None} \cup Structures]
  /\ state \in {"Ready", "Saving", "Loading", "Fault"}
  /\ job \in Jobs
  /\ JobTyped
  /\ blocked \in Seq([part: Parts, messages: Messages])
  /\ faults \in 0 .. MaxFaults
  /\ asked \in 0 .. MaxAsked

LEMMA TypesHold == Typed => TypeOK
<1> SUFFICES ASSUME Typed PROVE TypeOK
  OBVIOUS
<1>1. job.todo \subseteq Parts /\ job.puts \in [Parts -> SUBSET Attrs] /\ job.overtaken \in BOOLEAN
  BY DEF Typed, Jobs
<1>2. \A d \in Names : files[d] # None => files[d] \in Structures
  BY DEF Typed
<1> QED BY <1>1, <1>2 DEF Typed, TypeOK

LEMMA MessageTyped ==
  ASSUME NEW p \in Parts, NEW a \in Attrs, NEW v \in Values, NEW structure \in [Attrs -> Values]
  PROVE  Message(p, a, v, structure) \in {None} \cup (Values \X Values)
BY DEF Message

LEMMA IdleTyped == Idle \in Jobs
BY DEF Idle, Jobs

LEMMA InitTyped == Init => Typed
<1> SUFFICES ASSUME Init PROVE Typed
  OBVIOUS
<1>1. NoMessages \in Messages
  BY DEF NoMessages, Messages
<1>2. messages \in [Parts -> Messages]
  BY <1>1 DEF Init
<1>3. blocked \in Seq([part: Parts, messages: Messages])
  BY DEF Init
<1>4. files \in [Names -> {None} \cup Structures]
  BY DEF Init
<1>5. faults \in 0 .. MaxFaults /\ asked \in 0 .. MaxAsked
  BY DesignsAssumption DEF Init
<1>6. clean \in [visible: [Parts -> BOOLEAN], exports: Tables]
  BY DEF Init
<1>7. job \in Jobs /\ job = Idle
  BY IdleTyped DEF Init
<1>8. /\ value \in [Parts -> [Attrs -> Values]] /\ saved \in [Parts -> [Attrs -> Values]]
      /\ reported \in [Parts -> Messages]
      /\ visible \in [Parts -> BOOLEAN] /\ exports \in Tables
      /\ modified \in BOOLEAN /\ locked \in BOOLEAN /\ mixed \in BOOLEAN
      /\ design \in Names \cup {None}
      /\ state \in {"Ready", "Saving", "Loading", "Fault"}
  BY <1>2 DEF Init
<1> QED BY <1>2, <1>3, <1>4, <1>5, <1>6, <1>7, <1>8 DEF Typed, JobTyped

LEMMA ModifiedIsBoolean == UpdateModified => modified' \in BOOLEAN
BY DEF UpdateModified

LEMMA PutTyped ==
  ASSUME Typed, NEW p \in Parts, NEW a \in Attrs, NEW v \in Values, Put(p, a, v)
  PROVE  /\ value' \in [Parts -> [Attrs -> Values]]
         /\ messages' \in [Parts -> Messages]
         /\ reported' \in [Parts -> Messages]
         /\ modified' \in BOOLEAN
         /\ blocked' \in Seq([part: Parts, messages: Messages])
<1> DEFINE message == Message(p, a, v, saved[p])
           all == [messages EXCEPT ![p][a] = message]
<1>1. /\ value \in [Parts -> [Attrs -> Values]] /\ messages \in [Parts -> Messages]
      /\ reported \in [Parts -> Messages] /\ modified \in BOOLEAN
      /\ saved[p] \in [Attrs -> Values]
      /\ blocked \in Seq([part: Parts, messages: Messages])
  BY DEF Typed
<1>2. message \in {None} \cup (Values \X Values)
  BY <1>1, MessageTyped
<1>3. value' = [value EXCEPT ![p][a] = v] /\ messages' = all
  BY DEF Put
<1>4. value' \in [Parts -> [Attrs -> Values]]
  BY <1>1, <1>3
<1>5. all \in [Parts -> Messages]
  <2> HIDE DEF message
  <2> QED BY <1>1, <1>2 DEF Messages
<1>6. \/ UNCHANGED <<reported, modified, blocked>>
      \/ /\ blocked' = Append(blocked, [part |-> p, messages |-> all[p]])
         /\ UNCHANGED <<reported, modified>>
      \/ /\ reported' = [reported EXCEPT ![p] = all[p]]
         /\ UpdateModified
         /\ UNCHANGED blocked
  BY DEF Put
<1> HIDE DEF all
<1>7. [part |-> p, messages |-> all[p]] \in [part: Parts, messages: Messages]
  BY <1>5
<1>8. Append(blocked, [part |-> p, messages |-> all[p]]) \in Seq([part: Parts, messages: Messages])
  BY <1>1, <1>7
<1>9. reported' \in [Parts -> Messages]
  BY <1>1, <1>5, <1>6
<1>10. modified' \in BOOLEAN
  BY <1>1, <1>6, ModifiedIsBoolean
<1>11. blocked' \in Seq([part: Parts, messages: Messages])
  BY <1>1, <1>6, <1>8
<1> QED BY <1>3, <1>4, <1>5, <1>9, <1>10, <1>11

--------------------------------------------------------------------------------
(***************************************************************************)
(* Reports that wait                                                       *)
(***************************************************************************)
LEMMA GreatestOf ==
  ASSUME NEW m \in Nat, NEW S \in SUBSET (1 .. m), S # {}
  PROVE  Max(S) \in S /\ \A x \in S : x <= Max(S)
<1> DEFINE R == {ss \in Nat \X Nat : ss[1] < ss[2]}
           Below == {m - x : x \in S}
<1>1. IsWellFoundedOn(R, Nat)
  BY NatLessThanWellFounded DEF OpToRel
<1>2. Below \in SUBSET Nat /\ Below # {}
  <2>1. \A x \in 1 .. m : m - x \in Nat
    OBVIOUS
  <2>2. \A x \in S : m - x \in Below
    OBVIOUS
  <2> QED BY <2>1, <2>2
<1>3. PICK b \in Below : \A y \in Below : ~(<<y, b>> \in R)
  BY <1>1, <1>2, WFMin
<1>4. \A y \in Below : <<y, b>> \in Nat \X Nat /\ <<y, b>>[1] = y /\ <<y, b>>[2] = b
  BY <1>2
<1>5. \A y \in Below : ~(y < b)
  BY <1>3, <1>4
<1>6. PICK x \in S : b = m - x
  OBVIOUS
<1>7. \A y \in S : x >= y
  BY <1>5, <1>6
<1>8. \A y \in S : Max(S) >= y /\ Max(S) \in S
  BY <1>7 DEF Max
<1> QED BY <1>7, <1>8

\* The last report of a part that waits is one that waits.
LEMMA LatestWaits ==
  ASSUME Typed, NEW p \in Parts, Waiting(p) # {}
  PROVE  /\ Max(Waiting(p)) \in Waiting(p)
         /\ \A n \in Waiting(p) : n <= Max(Waiting(p))
<1>1. blocked \in Seq([part: Parts, messages: Messages])
  BY DEF Typed
<1>2. Waiting(p) \in SUBSET (1 .. Len(blocked)) /\ Len(blocked) \in Nat
  BY <1>1 DEF Waiting
<1> QED BY <1>2, GreatestOf

LEMMA UpcomingTyped ==
  ASSUME Typed, NEW p \in Parts
  PROVE  Upcoming(p) \in Messages
<1>1. blocked \in Seq([part: Parts, messages: Messages]) /\ reported[p] \in Messages
  BY DEF Typed
<1>2. CASE Waiting(p) = {}
  BY <1>1, <1>2 DEF Upcoming
<1>3. CASE Waiting(p) # {}
  <2>1. Max(Waiting(p)) \in DOMAIN blocked
    BY <1>3, LatestWaits DEF Waiting
  <2>2. \A n \in DOMAIN blocked : blocked[n] \in [part: Parts, messages: Messages]
    <3> DEFINE Reports == [part: Parts, messages: Messages]
    <3>1. blocked \in Seq(Reports)
      BY <1>1
    <3> HIDE DEF Reports
    <3>2. \A n \in DOMAIN blocked : blocked[n] \in Reports
      BY <3>1
    <3> QED BY <3>2 DEF Reports
  <2> QED BY <1>3, <2>1, <2>2 DEF Upcoming
<1> QED BY <1>2, <1>3

\* A report that waits is the one that will be taken, those of others stay.
LEMMA LastComesLast ==
  ASSUME Typed, NEW p \in Parts, NEW report, reported' = reported,
         blocked' = Append(blocked, [part |-> p, messages |-> report])
  PROVE  \A q \in Parts : Upcoming(q)' = IF q = p THEN report ELSE Upcoming(q)
<1>1. blocked \in Seq([part: Parts, messages: Messages])
  BY DEF Typed
<1>2. /\ Len(blocked) \in Nat
      /\ DOMAIN blocked = 1 .. Len(blocked)
      /\ DOMAIN blocked' = 1 .. Len(blocked) + 1
      /\ \A n \in 1 .. Len(blocked) : blocked'[n] = blocked[n]
      /\ blocked'[Len(blocked) + 1] = [part |-> p, messages |-> report]
  BY <1>1
<1>3. Upcoming(p)' = report
  <2> DEFINE S == Waiting(p)'
  <2>1. /\ S \in SUBSET (1 .. Len(blocked) + 1) /\ Len(blocked) + 1 \in Nat
        /\ Len(blocked) + 1 \in S
    BY <1>2 DEF Waiting
  <2> HIDE DEF S
  <2>2. Max(S) \in S /\ \A x \in S : x <= Max(S)
    BY <2>1, GreatestOf
  <2>3. Max(S) = Len(blocked) + 1
    <3>1. Max(S) \in 1 .. Len(blocked) + 1 /\ Len(blocked) + 1 <= Max(S)
      BY <2>1, <2>2
    <3> QED BY <3>1, <1>2
  <2> USE DEF S
  <2>4. Upcoming(p)' = blocked'[Max(S)].messages
    BY <2>1 DEF Upcoming
  <2> QED BY <2>3, <2>4, <1>2
<1>4. ASSUME NEW q \in Parts, q # p PROVE Upcoming(q)' = Upcoming(q)
  <2>1. Waiting(q)' = Waiting(q)
    BY <1>2, <1>4 DEF Waiting
  <2>2. CASE Waiting(q) = {}
    BY <2>1, <2>2 DEF Upcoming
  <2>3. CASE Waiting(q) # {}
    <3>1. Max(Waiting(q)) \in 1 .. Len(blocked)
      BY <2>3, <1>2, LatestWaits DEF Waiting
    <3>2. blocked'[Max(Waiting(q))] = blocked[Max(Waiting(q))]
      BY <3>1, <1>2
    <3>3. Upcoming(q)' = blocked'[Max(Waiting(q))].messages
      BY <2>1, <2>3 DEF Upcoming
    <3> QED BY <2>3, <3>2, <3>3 DEF Upcoming
  <2> QED BY <2>2, <2>3
<1> QED BY <1>3, <1>4

LEMMA NoneWaits ==
  ASSUME blocked = << >>
  PROVE  \A p \in Parts : Upcoming(p) = reported[p]
BY DEF Upcoming, Waiting

\* What is new of a part is what its report is going to be.
LEMMA PutReports ==
  ASSUME Typed, ~locked => blocked = << >>,
         NEW p \in Parts, NEW a \in Attrs, NEW v \in Values, Put(p, a, v)
  PROVE  \A q \in Parts :
           Upcoming(q)' = IF q = p /\ IsNews(p, a, Message(p, a, v, saved[p]))
                          THEN messages'[p] ELSE Upcoming(q)
<1>1. CASE ~IsNews(p, a, Message(p, a, v, saved[p]))
  BY <1>1 DEF Put, Upcoming, Waiting
<1>2. CASE IsNews(p, a, Message(p, a, v, saved[p])) /\ locked
  <2>1. /\ reported' = reported
        /\ blocked' = Append(blocked, [part |-> p, messages |-> messages'[p]])
    BY <1>2 DEF Put
  <2> QED BY <1>2, <2>1, LastComesLast
<1>3. CASE IsNews(p, a, Message(p, a, v, saved[p])) /\ ~locked
  <2>1. reported' = [reported EXCEPT ![p] = messages'[p]] /\ blocked' = << >> /\ blocked = << >>
    BY <1>3 DEF Put
  <2>2. reported \in [Parts -> Messages]
    BY DEF Typed
  <2>3. \A q \in Parts : Upcoming(q) = reported[q] /\ Upcoming(q)' = reported'[q]
    BY <2>1 DEF Upcoming, Waiting
  <2> QED BY <1>3, <2>1, <2>2, <2>3
<1> QED BY <1>1, <1>2, <1>3

--------------------------------------------------------------------------------
(***************************************************************************)
(* Every step keeps the types                                              *)
(***************************************************************************)
\* Who has a part or an attribute to do is saving or loading.
LEMMA WorkIsJob ==
  ASSUME Typed, NEW p \in Parts, p \in job.todo \/ job.puts[p] # {}
  PROVE  JobOn /\ job.structure \in Structures
<1>1. job # Idle
  BY DEF Idle
<1> QED BY <1>1 DEF Typed, JobTyped

LEMMA OnHasName ==
  ASSUME Typed, JobOn
  PROVE  job.design \in Names /\ job.structure \in Structures /\ state \in {"Saving", "Loading"}
<1>1. job # Idle /\ job \in Jobs
  BY DEF Typed, JobOn, Idle
<1> QED BY <1>1 DEF Typed, JobTyped, Jobs, JobOn

LEMMA OnIsTyped ==
  job'.design # None /\ job'.structure \in Structures /\ state' \in {"Saving", "Loading"}
    => JobTyped'
BY DEF JobTyped, JobOn

LEMMA SameJobTyped == Typed /\ job' = job /\ state' = state => JobTyped'
BY DEF Typed, JobTyped, JobOn

\* A put of layout or exports changes nothing of what a save or load does.
LEMMA MakePutTyped ==
  ASSUME Typed, MakePut, visible' \in [Parts -> BOOLEAN], exports' \in Tables
  PROVE  Typed'
<1> USE DEF Typed
<1>1. job' \in Jobs
  BY DEF MakePut, Jobs, JobOn
<1>2. JobTyped'
  <2>1. CASE job = Idle
    BY <2>1 DEF MakePut, Idle, JobOn, JobTyped
  <2>2. CASE job # Idle
    <3>1. job'.design = job.design /\ job'.structure = job.structure /\ state' = state
      BY DEF MakePut, Jobs
    <3> QED BY <2>2, <3>1 DEF JobOn, JobTyped
  <2> QED BY <2>1, <2>2
<1>3. modified' \in BOOLEAN
  BY ModifiedIsBoolean DEF MakePut
<1>4. asked' \in 0 .. MaxAsked
  BY DesignsAssumption DEF MakePut
<1> QED BY <1>1, <1>2, <1>3, <1>4 DEF MakePut, parts

LEMMA StepsTyped == Typed /\ [Next]_vars => Typed'
<1> SUFFICES ASSUME Typed, [Next]_vars PROVE Typed'
  OBVIOUS
<1> USE DEF Typed
<1>1. CASE UNCHANGED vars
  <2>1. Typed' <=> Typed
    BY <1>1 DEF vars, parts, control, JobTyped, JobOn
  <2> QED BY <2>1
<1>2. ASSUME NEW p \in Parts, NEW a \in Attrs, NEW v \in Values, ChangeAttr(p, a, v)
      PROVE  Typed'
  BY <1>2, PutTyped, SameJobTyped DEF ChangeAttr, control
<1>3. ASSUME NEW table \in Tables, SetExports(table) PROVE Typed'
  BY <1>3, MakePutTyped DEF SetExports
<1>4. ASSUME NEW shown \in [Parts -> BOOLEAN], SetLayout(shown) PROVE Typed'
  BY <1>4, MakePutTyped DEF SetLayout
<1>5. ASSUME NEW name \in Names \cup {None}, Save(name) PROVE Typed'
  <2>1. Snapshot \in Structures
    BY DEF Snapshot, Structures
  <2> DEFINE saving == [Idle EXCEPT !.design = IF name = None THEN design ELSE name,
                                    !.structure = Snapshot, !.todo = Parts]
  <2>2. CASE name = None /\ design = None
    <3>1. job = Idle /\ job' = job
      BY <1>5, <2>2 DEF Save, JobTyped
    <3>2. JobTyped'
      BY <3>1 DEF JobTyped
    <3> QED BY <1>5, <2>2, <3>1, <3>2 DEF Save, parts
  <2>3. CASE ~(name = None /\ design = None)
    <3>1. (IF name = None THEN design ELSE name) \in Names
      BY <2>3
    <3>2. saving \in Jobs /\ saving.design \in Names /\ saving.structure = Snapshot
      BY <2>1, <3>1 DEF Idle, Jobs
    <3>3. job' = saving /\ state' = "Saving"
      BY <1>5, <2>3 DEF Save
    <3> HIDE DEF saving
    <3>4. JobTyped'
      BY <2>1, <3>2, <3>3, DesignsAssumption, OnIsTyped
    <3> QED BY <1>5, <2>1, <3>2, <3>3, <3>4 DEF Save, parts
  <2> QED BY <2>2, <2>3
<1>6. ASSUME NEW name \in Names, Load(name) PROVE Typed'
  <2> DEFINE loading == [Idle EXCEPT !.design = name, !.structure = files[name], !.todo = Parts]
  <2>1. files[name] \in Structures
    BY <1>6 DEF Load
  <2>2. loading \in Jobs /\ loading.design \in Names /\ loading.structure = files[name]
    BY <2>1 DEF Idle, Jobs
  <2>3. job' = loading /\ state' = "Loading" /\ visible' = files[name].visible
        /\ exports' = files[name].exports
    BY <1>6 DEF Load
  <2>4. visible' \in [Parts -> BOOLEAN] /\ exports' \in Tables
    BY <2>1, <2>3 DEF Structures
  <2>5. modified' \in BOOLEAN
    BY <1>6 DEF Load
  <2> HIDE DEF loading
  <2>6. JobTyped'
    BY <2>1, <2>2, <2>3, DesignsAssumption, OnIsTyped
  <2> QED BY <1>6, <2>1, <2>2, <2>3, <2>4, <2>5, <2>6 DEF Load, parts
<1>7. ASSUME NEW p \in Parts, SavePart(p) PROVE Typed'
  <2> DEFINE next == [job EXCEPT !.todo = @ \ {p}, !.structure.children[p] = value[p]]
  <2>1. job \in Jobs /\ job.structure \in Structures /\ job.design \in Names /\ job' = next
    BY <1>7, WorkIsJob DEF SavePart, Jobs, JobOn
  <2>2. [job.structure EXCEPT !.children[p] = value[p]] \in Structures
    BY <2>1 DEF Structures
  <2>3. next = [job EXCEPT !.todo = @ \ {p}, !.structure = [job.structure EXCEPT !.children[p] = value[p]]]
    BY <2>1 DEF Jobs
  <2>4. next \in Jobs /\ next.structure \in Structures /\ next.design \in Names
    BY <2>1, <2>2, <2>3 DEF Jobs
  <2>5. saved' \in [Parts -> [Attrs -> Values]]
    BY <1>7 DEF SavePart
  <2> HIDE DEF next
  <2>6. JobTyped'
    BY <1>7, <2>1, <2>4, DesignsAssumption, OnIsTyped DEF SavePart
  <2> QED BY <1>7, <2>1, <2>4, <2>5, <2>6 DEF SavePart
<1>8. ASSUME NEW p \in Parts, LoadPart(p) PROVE Typed'
  <2> DEFINE structure == job.structure.children[p]
             next == [job EXCEPT !.todo = @ \ {p}, !.puts[p] = ToPut(p, structure)]
  <2>1. job \in Jobs /\ job.structure \in Structures /\ job.design \in Names /\ job' = next
        /\ saved' = [saved EXCEPT ![p] = structure]
    BY <1>8, WorkIsJob DEF LoadPart, Jobs, JobOn
  <2>2. structure \in [Attrs -> Values]
    BY <2>1 DEF Structures
  <2>3. ToPut(p, structure) \in SUBSET Attrs
    BY DEF ToPut
  <2> HIDE DEF structure
  <2>4. next \in Jobs /\ next.structure \in Structures /\ next.design \in Names
    BY <2>1, <2>3 DEF Jobs
  <2>5. saved' \in [Parts -> [Attrs -> Values]]
    BY <2>1, <2>2
  <2> HIDE DEF next
  <2>6. JobTyped'
    BY <1>8, <2>1, <2>4, DesignsAssumption, OnIsTyped DEF LoadPart
  <2> QED BY <1>8, <2>1, <2>4, <2>5, <2>6 DEF LoadPart
<1>9. ASSUME NEW p \in Parts, NEW a \in Attrs, LoadAttr(p, a) PROVE Typed'
  <2> DEFINE v == job.structure.children[p][a]
             next == [job EXCEPT !.puts[p] = @ \ {a}]
  <2>1. job \in Jobs /\ job.structure \in Structures /\ job.design \in Names /\ job' = next
        /\ Put(p, a, v)
    BY <1>9, WorkIsJob DEF LoadAttr, Jobs, JobOn
  <2>2. v \in Values
    BY <2>1 DEF Structures
  <2>3. next \in Jobs /\ next.structure \in Structures /\ next.design \in Names
    BY <2>1 DEF Jobs
  <2> HIDE DEF v, next
  <2>4. JobTyped'
    BY <1>9, <2>1, <2>3, DesignsAssumption, OnIsTyped DEF LoadAttr
  <2> QED BY <1>9, <2>1, <2>2, <2>3, <2>4, PutTyped DEF LoadAttr
<1>10. CASE HookFails
  BY <1>10, IdleTyped, DesignsAssumption DEF HookFails, parts, JobTyped
<1>11. CASE MarkClean
  <2>1. job.design \in Names /\ job.structure \in Structures /\ job.overtaken \in BOOLEAN
    BY <1>11, OnHasName DEF MarkClean, Jobs
  <2>2. files' \in [Names -> {None} \cup Structures]
    BY <1>11, <2>1 DEF MarkClean
  <2>3. clean' \in [visible: [Parts -> BOOLEAN], exports: Tables]
    BY <1>11 DEF MarkClean
  <2>4. reported' \in [Parts -> Messages]
    BY <1>11 DEF MarkClean, Messages, NoMessages
  <2>5. modified' \in BOOLEAN
    BY <1>11, ModifiedIsBoolean DEF MarkClean
  <2> QED BY <1>11, <2>1, <2>2, <2>3, <2>4, <2>5, IdleTyped DEF MarkClean, parts, JobTyped
<1>12. CASE Unlock
  <2>1. reported' \in [Parts -> Messages]
    BY <1>12, UpcomingTyped DEF Unlock
  <2>2. modified' \in BOOLEAN
    BY <1>12, ModifiedIsBoolean DEF Unlock
  <2>3. blocked' \in Seq([part: Parts, messages: Messages])
    BY <1>12 DEF Unlock
  <2>4. JobTyped'
    BY <1>12 DEF Unlock, JobTyped, JobOn
  <2> QED BY <1>12, <2>1, <2>2, <2>3, <2>4 DEF Unlock, parts
<1>13. CASE Reset
  BY <1>13 DEF Reset, parts, JobTyped
<1>14. CASE AskPut \/ PutNothing
  BY <1>14, SameJobTyped, DesignsAssumption DEF AskPut, PutNothing, parts, control
<1> QED BY <1>1, <1>2, <1>3, <1>4, <1>5, <1>6, <1>7, <1>8, <1>9, <1>10, <1>11, <1>12, <1>13, <1>14 DEF Next

--------------------------------------------------------------------------------
(***************************************************************************)
(* No old report is held                                                   *)
(***************************************************************************)
\* What the controller is going to hold of a part, once the reports that wait
\* were taken, is nothing or what the part says now.
ReportInv ==
  /\ ~locked => blocked = << >>
  /\ \A p \in Parts : Upcoming(p) \in {NoMessages, messages[p]}

ReportsInv == Typed /\ ReportInv

LEMMA NotNews ==
  ASSUME Typed, NEW p \in Parts, NEW a \in Attrs, NEW v \in Values, Put(p, a, v),
         ~IsNews(p, a, Message(p, a, v, saved[p]))
  PROVE  messages' = messages
<1> DEFINE message == Message(p, a, v, saved[p])
<1>1. messages \in [Parts -> Messages] /\ messages[p] \in Messages
  BY DEF Typed
<1>2. message = messages[p][a] /\ messages' = [messages EXCEPT ![p][a] = message]
  BY DEF Put, IsNews
<1> HIDE DEF message
<1> QED BY <1>1, <1>2 DEF Messages

LEMMA PutKeepsReports ==
  ASSUME ReportsInv, NEW p \in Parts, NEW a \in Attrs, NEW v \in Values, Put(p, a, v),
         locked' = locked
  PROVE  ReportInv'
<1>1. \A q \in Parts :
        Upcoming(q)' = IF q = p /\ IsNews(p, a, Message(p, a, v, saved[p]))
                       THEN messages'[p] ELSE Upcoming(q)
  BY PutReports DEF ReportsInv, ReportInv
<1>2. (~locked => blocked = << >>)'
  BY DEF ReportsInv, ReportInv, Put
<1>3. \A q \in Parts : q # p => messages'[q] = messages[q]
  BY DEF Put, ReportsInv, Typed
<1>4. \A q \in Parts : Upcoming(q)' \in {NoMessages, messages'[q]}
  BY <1>1, <1>3, NotNews DEF ReportsInv, ReportInv
<1> QED BY <1>2, <1>4 DEF ReportInv

LEMMA StepsKeepReports == ReportsInv /\ [Next]_vars => ReportsInv'
<1> SUFFICES ASSUME ReportsInv, [Next]_vars PROVE ReportInv'
  BY StepsTyped DEF ReportsInv
<1> USE DEF ReportsInv
<1>1. ASSUME UNCHANGED <<reported, messages, blocked>>, locked' = locked \/ locked'
      PROVE  ReportInv'
  <2>1. \A p \in Parts : Upcoming(p)' = Upcoming(p)
    BY <1>1 DEF Upcoming, Waiting
  <2> QED BY <1>1, <2>1 DEF ReportInv
<1>2. CASE UNCHANGED vars
  BY <1>1, <1>2 DEF vars, parts
<1>3. ASSUME NEW p \in Parts, NEW a \in Attrs, NEW v \in Values, ChangeAttr(p, a, v)
      PROVE  ReportInv'
  BY <1>3, PutKeepsReports DEF ChangeAttr
<1>4. ASSUME NEW p \in Parts, NEW a \in Attrs, LoadAttr(p, a) PROVE ReportInv'
  <2>1. job.structure.children[p][a] \in Values
    BY <1>4, WorkIsJob DEF LoadAttr, Structures
  <2> QED BY <1>4, <2>1, PutKeepsReports DEF LoadAttr
<1>5. CASE \/ \E table \in Tables : SetExports(table)
           \/ \E shown \in [Parts -> BOOLEAN] : SetLayout(shown)
  BY <1>1, <1>5 DEF SetExports, SetLayout, MakePut, parts
<1>6. CASE \/ \E name \in Names \cup {None} : Save(name)
           \/ \E name \in Names : Load(name)
  BY <1>1, <1>6 DEF Save, Load, parts
<1>7. CASE \E p \in Parts : SavePart(p) \/ LoadPart(p)
  BY <1>1, <1>7 DEF SavePart, LoadPart
<1>8. CASE HookFails \/ Reset \/ AskPut \/ PutNothing
  BY <1>1, <1>8 DEF HookFails, Reset, AskPut, PutNothing, parts, control
<1>9. CASE MarkClean
  <2>1. blocked' = << >> /\ reported' = [p \in Parts |-> NoMessages] /\ locked'
    BY <1>9 DEF MarkClean, ReportInv
  <2>2. \A p \in Parts : Upcoming(p)' = NoMessages
    BY <2>1 DEF Upcoming, Waiting
  <2> QED BY <2>1, <2>2 DEF ReportInv
<1>10. CASE Unlock
  <2>1. blocked' = << >> /\ reported' = [p \in Parts |-> Upcoming(p)] /\ messages' = messages
    BY <1>10 DEF Unlock, parts
  <2>2. \A p \in Parts : Upcoming(p)' = Upcoming(p)
    BY <2>1 DEF Upcoming, Waiting
  <2> QED BY <2>1, <2>2 DEF ReportInv
<1> QED BY <1>2, <1>3, <1>4, <1>5, <1>6, <1>7, <1>8, <1>9, <1>10 DEF Next

LEMMA ReportsAtFirst == Init => ReportsInv
<1> SUFFICES ASSUME Init PROVE ReportInv
  BY InitTyped DEF ReportsInv
<1>1. blocked = << >> /\ \A p \in Parts : reported[p] = NoMessages
  BY DEF Init
<1> QED BY <1>1, NoneWaits DEF ReportInv

\* In every state the types hold, with what a save or load has to do.
THEOREM TypeCorrect == Spec => []TypeOK
<1>1. Typed => TypeOK
  BY TypesHold
<1> QED BY <1>1, InitTyped, StepsTyped, PTL DEF Spec

\* update_part_modified: when nothing holds the lock, the controller has of each
\* part what it says now, or has forgotten it with _mark_clean, in whatever order
\* changes, locks, saves and loads come.
THEOREM ReportsAreCurrent == Spec => []ReportsCurrent
<1>1. ASSUME ReportsInv PROVE ReportsCurrent
  <2>1. ASSUME Quiet PROVE \A p \in Parts : reported[p] \in {NoMessages, messages[p]}
    <3>1. blocked = << >>
      BY <1>1, <2>1 DEF ReportsInv, ReportInv, Quiet
    <3> QED BY <1>1, <3>1, NoneWaits DEF ReportsInv, ReportInv
  <2> QED BY <1>1, <2>1, TypesHold DEF ReportsCurrent, ReportsInv
<1>2. ReportsInv => ReportsCurrent
  BY <1>1
<1> QED BY <1>2, ReportsAtFirst, StepsKeepReports, PTL DEF Spec

--------------------------------------------------------------------------------
(***************************************************************************)
(* A block whose LED is off is as in its design                            *)
(***************************************************************************)
\* A message is about the value that there is.
MessagesNow ==
  \A p \in Parts, a \in Attrs : messages[p][a] # None => messages[p][a][1] = value[p][a]

\* A part whose hook has started is as the structure says, but for what is still
\* to be put; layout and exports are too, if no put of them came in its midst.
JobInv ==
  JobOn =>
    /\ ~job.overtaken => job.structure.visible = visible /\ job.structure.exports = exports
    /\ state = "Loading" => job.structure = files[job.design]
    /\ state = "Saving" => \A p \in Parts : job.puts[p] = {}
    /\ \A p \in job.todo : job.puts[p] = {}
    /\ \A p \in Parts \ job.todo :
         /\ saved[p] = job.structure.children[p]
         /\ \A a \in Attrs \ job.puts[p] : value[p][a] = saved[p][a]

\* Nobody saves or loads, and the last who did ended well and was not overtaken.
Settled == ~JobOn /\ ~mixed

\* What is not as it was saved is going to be in the reports that are held.
KeptInv ==
  Settled => \A p \in Parts, a \in Attrs :
               value[p][a] # saved[p][a] => messages[p][a] # None /\ Upcoming(p) = messages[p]

\* What was saved is what is in the file.
FileInv ==
  Settled /\ design # None =>
    /\ clean.visible = files[design].visible
    /\ clean.exports = files[design].exports
    /\ saved = files[design].children

Modifications ==
  \/ \E p \in Parts : visible[p] /\ reported[p] # NoMessages
  \/ visible # clean.visible
  \/ exports # clean.exports

LedInv == Settled => (modified <=> Modifications)

CleanInv == ReportsInv /\ MessagesNow /\ JobInv /\ KeptInv /\ FileInv /\ LedInv

LEMMA CleanAtFirst == Init => CleanInv
<1> SUFFICES ASSUME Init PROVE CleanInv
  OBVIOUS
<1>1. MessagesNow
  BY DEF Init, MessagesNow, NoMessages
<1>2. ~JobOn /\ JobInv
  BY DEF Init, JobOn, JobInv, Idle
<1>3. KeptInv
  BY DEF Init, KeptInv
<1>4. FileInv
  BY DEF Init, FileInv
<1>5. LedInv
  BY DEF Init, LedInv, Modifications
<1> QED BY <1>1, <1>2, <1>3, <1>4, <1>5, ReportsAtFirst DEF CleanInv

LEMMA OneOfOne ==
  ASSUME NEW S, NEW T, NEW R, NEW f \in [S -> [T -> R]], NEW x \in S, NEW y \in T, NEW r
  PROVE  /\ [f EXCEPT ![x][y] = r][x][y] = r
         /\ \A z \in S, u \in T : z # x \/ u # y => [f EXCEPT ![x][y] = r][z][u] = f[z][u]
OBVIOUS

\* What a put does to the part whose attribute it is.
LEMMA PutTells ==
  ASSUME Typed, NEW p \in Parts, NEW a \in Attrs, NEW v \in Values, Put(p, a, v)
  PROVE  /\ value'[p][a] = v
         /\ messages'[p][a] = Message(p, a, v, saved[p])
         /\ \A q \in Parts, b \in Attrs : q # p \/ b # a =>
              value'[q][b] = value[q][b] /\ messages'[q][b] = messages[q][b]
<1> DEFINE message == Message(p, a, v, saved[p])
<1>1. /\ value \in [Parts -> [Attrs -> Values]]
      /\ messages \in [Parts -> [Attrs -> {None} \cup Values \X Values]]
  BY DEF Typed, Messages
<1>2. value' = [value EXCEPT ![p][a] = v] /\ messages' = [messages EXCEPT ![p][a] = message]
  BY DEF Put
<1> HIDE DEF message
<1>3. value'[p][a] = v /\ messages'[p][a] = message
  BY <1>1, <1>2, OneOfOne
<1>4. \A q \in Parts, b \in Attrs : q # p \/ b # a => value'[q][b] = value[q][b]
  BY <1>1, <1>2, OneOfOne
<1>5. \A q \in Parts, b \in Attrs : q # p \/ b # a => messages'[q][b] = messages[q][b]
  BY <1>1, <1>2, OneOfOne
<1> QED BY <1>3, <1>4, <1>5 DEF message

LEMMA MessagesStayNow == CleanInv /\ [Next]_vars => MessagesNow'
<1> SUFFICES ASSUME CleanInv, [Next]_vars PROVE MessagesNow'
  OBVIOUS
<1> USE DEF CleanInv, ReportsInv
<1>1. ASSUME NEW p \in Parts, NEW a \in Attrs, NEW v \in Values, Put(p, a, v) PROVE MessagesNow'
  <2>1. messages'[p][a] # None => messages'[p][a][1] = value'[p][a]
    <3>1. value'[p][a] = v /\ messages'[p][a] = Message(p, a, v, saved[p])
      BY <1>1, PutTells
    <3>2. Message(p, a, v, saved[p]) # None => Message(p, a, v, saved[p])[1] = v
      BY DEF Message
    <3> QED BY <3>1, <3>2
  <2>2. \A q \in Parts, b \in Attrs : q # p \/ b # a =>
          value'[q][b] = value[q][b] /\ messages'[q][b] = messages[q][b]
    BY <1>1, PutTells
  <2>3. ASSUME NEW q \in Parts, NEW b \in Attrs, messages'[q][b] # None
        PROVE  messages'[q][b][1] = value'[q][b]
    BY <2>1, <2>2, <2>3 DEF MessagesNow
  <2> QED BY <2>3 DEF MessagesNow
<1>2. CASE \E p \in Parts, a \in Attrs, v \in Values : ChangeAttr(p, a, v)
  BY <1>1, <1>2 DEF ChangeAttr
<1>3. ASSUME NEW p \in Parts, NEW a \in Attrs, LoadAttr(p, a) PROVE MessagesNow'
  <2>1. job.structure.children[p][a] \in Values
    BY <1>3, WorkIsJob DEF LoadAttr, Structures
  <2> QED BY <1>1, <1>3, <2>1 DEF LoadAttr
<1>4. UNCHANGED <<value, messages>> => MessagesNow'
  BY DEF MessagesNow
<1>5. CASE UNCHANGED vars
  BY <1>4, <1>5 DEF vars, parts
<1>6. CASE \/ \E table \in Tables : SetExports(table)
           \/ \E shown \in [Parts -> BOOLEAN] : SetLayout(shown)
           \/ \E name \in Names \cup {None} : Save(name)
           \/ \E name \in Names : Load(name)
           \/ \E p \in Parts : SavePart(p) \/ LoadPart(p)
  BY <1>4, <1>6 DEF SetExports, SetLayout, MakePut, Save, Load, SavePart, LoadPart, parts
<1>7. CASE HookFails \/ MarkClean \/ Unlock \/ Reset \/ AskPut \/ PutNothing
  BY <1>4, <1>7 DEF HookFails, MarkClean, Unlock, Reset, AskPut, PutNothing, parts
<1> QED BY <1>2, <1>3, <1>5, <1>6, <1>7 DEF Next

LEMMA HooksAreJobs ==
  ASSUME CleanInv, NEW p \in Parts,
         SavePart(p) \/ LoadPart(p) \/ \E a \in Attrs : LoadAttr(p, a)
  PROVE  JobOn /\ JobOn'
<1> USE DEF CleanInv, ReportsInv
<1>1. p \in job.todo \/ job.puts[p] # {}
  BY DEF SavePart, LoadPart, LoadAttr
<1>2. JobOn /\ job \in Jobs
  BY <1>1, WorkIsJob DEF Typed
<1>3. job'.design = job.design
  BY <1>2 DEF SavePart, LoadPart, LoadAttr, Jobs
<1> QED BY <1>2, <1>3 DEF JobOn

\* A save or load goes on as its structure says, if no child changes behind it.
LEMMA JobsGoOn ==
  ASSUME ChangesInHooks = FALSE
  PROVE  CleanInv /\ [Next]_vars => JobInv'
<1> SUFFICES ASSUME CleanInv, [Next]_vars PROVE JobInv'
  OBVIOUS
<1> USE DEF CleanInv, ReportsInv
<1>1. CASE UNCHANGED vars
  BY <1>1 DEF JobInv, JobOn, vars, parts, control
<1>2. ASSUME NEW p \in Parts, NEW a \in Attrs, NEW v \in Values, ChangeAttr(p, a, v)
      PROVE  JobInv'
  <2>1. /\ saved' = saved /\ visible' = visible /\ exports' = exports
        /\ job' = job /\ files' = files /\ JobOn' = JobOn /\ state' = state
    BY <1>2 DEF ChangeAttr, control, JobOn
  <2>2. CASE ~JobOn
    BY <2>1, <2>2 DEF JobInv
  <2>3. CASE JobOn
    <3>1. p \in job.todo
      BY <1>2, <2>3 DEF ChangeAttr, HookDone, JobOn
    <3>2. \A q \in Parts \ job.todo, b \in Attrs : value'[q][b] = value[q][b]
      BY <1>2, <3>1, PutTells DEF ChangeAttr
    <3> QED BY <2>1, <2>3, <3>2 DEF JobInv
  <2> QED BY <2>2, <2>3
<1>3. CASE \/ \E table \in Tables : SetExports(table)
           \/ \E shown \in [Parts -> BOOLEAN] : SetLayout(shown)
  <2>1. MakePut /\ job \in Jobs
    BY <1>3 DEF SetExports, SetLayout, Typed
  <2>2. /\ JobOn' = JobOn /\ job'.overtaken = JobOn /\ job'.structure = job.structure
        /\ job'.design = job.design /\ job'.todo = job.todo /\ job'.puts = job.puts
    BY <2>1 DEF MakePut, Jobs, JobOn
  <2> QED BY <2>1, <2>2 DEF MakePut, JobInv, parts
<1>4. ASSUME NEW name \in Names \cup {None}, Save(name) PROVE JobInv'
  <2>1. CASE name = None /\ design = None
    <3>1. ~JobOn /\ job' = job
      BY <1>4, <2>1, OnHasName DEF Save
    <3> QED BY <3>1 DEF JobInv, JobOn
  <2>2. CASE ~(name = None /\ design = None)
    <3>1. job' = [Idle EXCEPT !.design = IF name = None THEN design ELSE name,
                              !.structure = Snapshot, !.todo = Parts]
      BY <1>4, <2>2 DEF Save
    <3>2. /\ job'.todo = Parts /\ job'.structure = Snapshot
          /\ job'.design = IF name = None THEN design ELSE name
          /\ \A p \in Parts : job'.puts[p] = {}
      BY <3>1 DEF Idle
    <3>3. state' = "Saving" /\ visible' = visible /\ exports' = exports
      BY <1>4, <2>2 DEF Save
    <3> QED BY <3>2, <3>3 DEF JobInv, Snapshot
  <2> QED BY <2>1, <2>2
<1>5. ASSUME NEW name \in Names, Load(name) PROVE JobInv'
  <2>1. job' = [Idle EXCEPT !.design = name, !.structure = files[name], !.todo = Parts]
    BY <1>5 DEF Load
  <2>2. /\ job'.todo = Parts /\ job'.structure = files[name] /\ job'.design = name
        /\ \A p \in Parts : job'.puts[p] = {}
    BY <2>1 DEF Idle
  <2>3. /\ state' = "Loading" /\ files' = files
        /\ visible' = files[name].visible /\ exports' = files[name].exports
    BY <1>5 DEF Load
  <2> QED BY <2>2, <2>3 DEF JobInv
<1>6. ASSUME NEW p \in Parts, SavePart(p) PROVE JobInv'
  <2>1. JobOn /\ JobOn' /\ state = "Saving" /\ state' = state /\ p \in job.todo
    BY <1>6, HooksAreJobs DEF SavePart
  <2>2. job \in Jobs /\ job.structure \in Structures
    BY <2>1, OnHasName DEF Typed
  <2>3. /\ job' = [job EXCEPT !.todo = @ \ {p}, !.structure.children[p] = value[p]]
        /\ saved' = [saved EXCEPT ![p] = value[p]]
        /\ value' = value /\ visible' = visible /\ exports' = exports
    BY <1>6 DEF SavePart
  <2>4. /\ job'.todo = job.todo \ {p} /\ job'.puts = job.puts /\ job'.overtaken = job.overtaken
        /\ job'.structure.visible = job.structure.visible
        /\ job'.structure.exports = job.structure.exports
        /\ job'.structure.children = [job.structure.children EXCEPT ![p] = value[p]]
    BY <2>2, <2>3 DEF Jobs, Structures
  <2>5. \A q \in Parts : /\ saved'[q] = IF q = p THEN value[p] ELSE saved[q]
                         /\ job'.structure.children[q]
                              = IF q = p THEN value[p] ELSE job.structure.children[q]
    BY <2>2, <2>3, <2>4 DEF Structures, Typed
  <2>6. \A q \in Parts \ job'.todo :
          /\ saved'[q] = job'.structure.children[q]
          /\ \A a \in Attrs \ job'.puts[q] : value'[q][a] = saved'[q][a]
    BY <2>1, <2>3, <2>4, <2>5 DEF JobInv
  <2> QED BY <2>1, <2>3, <2>4, <2>6 DEF JobInv
<1>7. ASSUME NEW p \in Parts, LoadPart(p) PROVE JobInv'
  <2> DEFINE structure == job.structure.children[p]
  <2>1. JobOn /\ JobOn' /\ state = "Loading" /\ state' = state /\ p \in job.todo
    BY <1>7, HooksAreJobs DEF LoadPart
  <2>2. job \in Jobs /\ job.structure \in Structures
    BY <2>1, OnHasName DEF Typed
  <2>3. /\ job' = [job EXCEPT !.todo = @ \ {p}, !.puts[p] = ToPut(p, structure)]
        /\ saved' = [saved EXCEPT ![p] = structure]
        /\ value' = value /\ visible' = visible /\ exports' = exports /\ files' = files
    BY <1>7 DEF LoadPart
  <2> HIDE DEF structure
  <2>4. /\ job'.todo = job.todo \ {p} /\ job'.structure = job.structure
        /\ job'.design = job.design /\ job'.overtaken = job.overtaken
        /\ \A q \in Parts : job'.puts[q] = IF q = p THEN ToPut(p, structure) ELSE job.puts[q]
    BY <2>2, <2>3 DEF Jobs
  <2>5. \A q \in Parts : saved'[q] = IF q = p THEN structure ELSE saved[q]
    BY <2>3 DEF Typed
  <2>6. \A q \in Parts \ job'.todo :
          /\ saved'[q] = job'.structure.children[q]
          /\ \A a \in Attrs \ job'.puts[q] : value'[q][a] = saved'[q][a]
    <3>1. /\ saved'[p] = job'.structure.children[p]
          /\ \A a \in Attrs \ job'.puts[p] : value'[p][a] = saved'[p][a]
      <4>1. saved'[p] = structure /\ job'.puts[p] = ToPut(p, structure)
        BY <2>4, <2>5
      <4>2. job'.structure.children[p] = structure
        BY <2>4 DEF structure
      <4>3. \A a \in Attrs \ ToPut(p, structure) : value[p][a] = structure[a]
        BY DEF ToPut
      <4> QED BY <2>3, <4>1, <4>2, <4>3
    <3>2. ASSUME NEW q \in Parts \ job'.todo, q # p
          PROVE  /\ saved'[q] = job'.structure.children[q]
                 /\ \A a \in Attrs \ job'.puts[q] : value'[q][a] = saved'[q][a]
      BY <2>1, <2>3, <2>4, <2>5, <3>2 DEF JobInv
    <3> QED BY <3>1, <3>2
  <2>7. \A q \in job'.todo : job'.puts[q] = {}
    BY <2>1, <2>2, <2>4 DEF JobInv, Jobs
  <2> QED BY <2>1, <2>3, <2>4, <2>6, <2>7 DEF JobInv
<1>8. ASSUME NEW p \in Parts, NEW a \in Attrs, LoadAttr(p, a) PROVE JobInv'
  <2> DEFINE v == job.structure.children[p][a]
  <2>1. /\ JobOn /\ JobOn' /\ state = "Loading" /\ state' = state /\ a \in job.puts[p]
    BY <1>8, HooksAreJobs DEF LoadAttr
  <2>9. p \in Parts \ job.todo
    BY <2>1 DEF JobInv
  <2>2. job \in Jobs /\ job.structure \in Structures /\ v \in Values
    BY <2>1, OnHasName DEF Typed, Structures
  <2>3. /\ job' = [job EXCEPT !.puts[p] = @ \ {a}]
        /\ saved' = saved /\ visible' = visible /\ exports' = exports /\ files' = files
        /\ Put(p, a, v)
    BY <1>8 DEF LoadAttr
  <2>4. /\ job'.todo = job.todo /\ job'.structure = job.structure
        /\ job'.design = job.design /\ job'.overtaken = job.overtaken
        /\ \A q \in Parts : job'.puts[q] = IF q = p THEN job.puts[p] \ {a} ELSE job.puts[q]
    BY <2>2, <2>3 DEF Jobs
  <2>5. saved[p][a] = v
    BY <2>1 DEF JobInv
  <2> HIDE DEF v
  <2>6. /\ value'[p][a] = v
        /\ \A q \in Parts, b \in Attrs : q # p \/ b # a => value'[q][b] = value[q][b]
    BY <2>2, <2>3, PutTells
  <2>7. \A q \in Parts \ job'.todo :
          /\ saved'[q] = job'.structure.children[q]
          /\ \A b \in Attrs \ job'.puts[q] : value'[q][b] = saved'[q][b]
    BY <2>1, <2>3, <2>4, <2>5, <2>6 DEF JobInv
  <2>8. \A q \in job'.todo : job'.puts[q] = {}
    BY <2>1, <2>2, <2>4 DEF JobInv, Jobs
  <2> QED BY <2>1, <2>3, <2>4, <2>7, <2>8 DEF JobInv
<1>9. CASE HookFails
  BY <1>9 DEF HookFails, JobInv, JobOn, Idle
<1>10. CASE MarkClean
  BY <1>10 DEF MarkClean, JobInv, JobOn, Idle
<1>11. CASE Unlock
  <2>1. /\ UNCHANGED <<value, saved, visible, exports, files, job>>
        /\ JobOn => state' = state
    BY <1>11 DEF Unlock, parts
  <2> QED BY <2>1 DEF JobInv, JobOn
<1>12. CASE Reset
  <2>1. ~JobOn'
    BY <1>12, OnHasName DEF Reset, JobOn
  <2> QED BY <2>1 DEF JobInv
<1>13. CASE AskPut \/ PutNothing
  BY <1>13 DEF AskPut, PutNothing, JobInv, JobOn, parts, control
<1> QED BY <1>1, <1>2, <1>3, <1>4, <1>5, <1>6, <1>7, <1>8, <1>9, <1>10, <1>11, <1>12, <1>13 DEF Next

\* A put does not end a save or load, nor make good what was mixed.
LEMMA PutSettles == Typed /\ MakePut => Settled' = Settled
BY DEF Typed, Jobs, MakePut, Settled, JobOn

LEMMA LoadIsJob ==
  ASSUME NEW name \in Names, Load(name)
  PROVE  JobOn'
<1>1. job'.design = name
  BY DEF Load, Idle
<1> QED BY <1>1, DesignsAssumption DEF JobOn

LEMMA SaveSettles ==
  ASSUME Typed, NEW name \in Names \cup {None}, Save(name)
  PROVE  Settled' => Settled
<1>1. CASE name = None /\ design = None
  BY <1>1 DEF Save, Settled, JobOn
<1>2. CASE ~(name = None /\ design = None)
  <2>1. job'.design = IF name = None THEN design ELSE name
    BY <1>2 DEF Save, Idle
  <2> QED BY <1>2, <2>1 DEF Settled, JobOn
<1> QED BY <1>1, <1>2

LEMMA KeptStays ==
  ASSUME ChangesInHooks = FALSE
  PROVE  CleanInv /\ [Next]_vars => KeptInv'
<1> SUFFICES ASSUME CleanInv, [Next]_vars PROVE KeptInv'
  OBVIOUS
<1> USE DEF CleanInv, ReportsInv
<1>1. ASSUME UNCHANGED <<value, saved, messages, reported, blocked>>, Settled' => Settled
      PROVE  KeptInv'
  <2>1. \A p \in Parts : Upcoming(p)' = Upcoming(p)
    BY <1>1 DEF Upcoming, Waiting
  <2> QED BY <1>1, <2>1 DEF KeptInv
<1>2. CASE UNCHANGED vars
  BY <1>1, <1>2 DEF vars, parts, control, Settled, JobOn
<1>3. ASSUME NEW p \in Parts, NEW a \in Attrs, NEW v \in Values, ChangeAttr(p, a, v), Settled
      PROVE  KeptInv'
  <2> DEFINE message == Message(p, a, v, saved[p])
  <2>1. Put(p, a, v) /\ saved' = saved /\ v # value[p][a]
    BY <1>3 DEF ChangeAttr
  <2>2. /\ \A q \in Parts : Upcoming(q)' = IF q = p /\ IsNews(p, a, message)
                                           THEN messages'[p] ELSE Upcoming(q)
        /\ ~IsNews(p, a, message) => messages' = messages
    BY <2>1, PutReports, NotNews DEF ReportInv
  <2>3. value'[p][a] = v /\ messages'[p][a] = message
    BY <2>1, PutTells
  <2>4. \A q \in Parts, b \in Attrs : q # p \/ b # a =>
          value'[q][b] = value[q][b] /\ messages'[q][b] = messages[q][b]
    BY <2>1, PutTells
  <2>5. ASSUME v # saved[p][a] PROVE message # None /\ IsNews(p, a, message)
    <3>1. message = <<v, saved[p][a]>>
      BY <2>5 DEF Message
    <3>2. saved[p][a] \in Values
      BY DEF Typed
    <3>3. message # None
      BY <3>1, <3>2, DesignsAssumption
    <3>4. message[1] = v
      BY <3>1
    <3>5. messages[p][a] = None \/ messages[p][a][1] = value[p][a]
      BY DEF MessagesNow
    <3> HIDE DEF message
    <3>6. message # messages[p][a]
      BY <2>1, <3>3, <3>4, <3>5
    <3> QED BY <3>3, <3>6 DEF IsNews
  <2> HIDE DEF message
  <2>6. ASSUME NEW q \in Parts, NEW b \in Attrs, value'[q][b] # saved[q][b]
        PROVE  messages'[q][b] # None
    <3>1. CASE q = p /\ b = a
      BY <2>3, <2>5, <2>6, <3>1
    <3>2. CASE q # p \/ b # a
      BY <1>3, <2>4, <2>6, <3>2 DEF KeptInv
    <3> QED BY <3>1, <3>2
  <2>7. ASSUME NEW q \in Parts, NEW b \in Attrs, value'[q][b] # saved[q][b]
        PROVE  Upcoming(q)' = messages'[q]
    <3>1. CASE q = p /\ IsNews(p, a, message)
      BY <2>2, <3>1
    <3>2. CASE q = p /\ ~IsNews(p, a, message)
      <4>1. b # a
        BY <2>3, <2>5, <2>7, <3>2
      <4> QED BY <1>3, <2>2, <2>4, <2>7, <3>2, <4>1 DEF KeptInv
    <3>3. CASE q # p
      <4>1. messages'[q] = messages[q]
        BY <2>1, <3>3 DEF Put, Typed
      <4> QED BY <1>3, <2>2, <2>4, <2>7, <3>3, <4>1 DEF KeptInv
    <3> QED BY <3>1, <3>2, <3>3
  <2> QED BY <2>1, <2>6, <2>7 DEF KeptInv
<1>4. ASSUME NEW p \in Parts, NEW a \in Attrs, NEW v \in Values, ChangeAttr(p, a, v), ~Settled
      PROVE  KeptInv'
  BY <1>4 DEF ChangeAttr, control, Settled, JobOn, KeptInv
<1>5. CASE \/ \E table \in Tables : SetExports(table)
           \/ \E shown \in [Parts -> BOOLEAN] : SetLayout(shown)
  BY <1>1, <1>5, PutSettles DEF SetExports, SetLayout, MakePut, parts
<1>6. CASE \/ \E name \in Names \cup {None} : Save(name)
           \/ \E name \in Names : Load(name)
  BY <1>1, <1>6, SaveSettles, LoadIsJob DEF Save, Load, parts, Settled
<1>7. CASE \/ \E p \in Parts : SavePart(p) \/ LoadPart(p)
           \/ \E p \in Parts, a \in Attrs : LoadAttr(p, a)
  <2>1. JobOn /\ JobOn'
    BY <1>7, HooksAreJobs
  <2> QED BY <2>1 DEF KeptInv, Settled
<1>8. CASE HookFails
  BY <1>8 DEF HookFails, KeptInv, Settled
<1>9. CASE MarkClean
  <2>1. \A p \in Parts, a \in Attrs : value[p][a] = saved[p][a]
    BY <1>9 DEF MarkClean, JobInv, JobOn
  <2> QED BY <1>9, <2>1 DEF MarkClean, parts, KeptInv
<1>10. CASE Unlock
  <2>1. /\ blocked' = << >> /\ reported' = [p \in Parts |-> Upcoming(p)]
        /\ UNCHANGED <<value, saved, messages, mixed, job>>
    BY <1>10 DEF Unlock, parts
  <2>2. \A p \in Parts : Upcoming(p)' = Upcoming(p)
    BY <2>1 DEF Upcoming, Waiting
  <2> QED BY <2>1, <2>2 DEF KeptInv, Settled, JobOn
<1>11. CASE Reset \/ AskPut \/ PutNothing
  BY <1>1, <1>11 DEF Reset, AskPut, PutNothing, parts, control, Settled, JobOn
<1> QED BY <1>2, <1>3, <1>4, <1>5, <1>6, <1>7, <1>8, <1>9, <1>10, <1>11 DEF Next

LEMMA FilesAreKept == CleanInv /\ [Next]_vars => FileInv'
<1> SUFFICES ASSUME CleanInv, [Next]_vars PROVE FileInv'
  OBVIOUS
<1> USE DEF CleanInv, ReportsInv
<1>1. ASSUME UNCHANGED <<saved, clean, design, files>>, Settled' => Settled PROVE FileInv'
  BY <1>1 DEF FileInv
<1>2. CASE UNCHANGED vars
  BY <1>1, <1>2 DEF vars, parts, control, Settled, JobOn
<1>3. CASE \E p \in Parts, a \in Attrs, v \in Values : ChangeAttr(p, a, v)
  BY <1>1, <1>3 DEF ChangeAttr, control, Settled, JobOn
<1>4. CASE \/ \E table \in Tables : SetExports(table)
           \/ \E shown \in [Parts -> BOOLEAN] : SetLayout(shown)
  BY <1>1, <1>4, PutSettles DEF SetExports, SetLayout, MakePut, parts
<1>5. CASE \/ \E name \in Names \cup {None} : Save(name)
           \/ \E name \in Names : Load(name)
  BY <1>1, <1>5, SaveSettles, LoadIsJob DEF Save, Load, parts, Settled
<1>6. CASE \/ \E p \in Parts : SavePart(p) \/ LoadPart(p)
           \/ \E p \in Parts, a \in Attrs : LoadAttr(p, a)
  <2>1. JobOn'
    BY <1>6, HooksAreJobs
  <2> QED BY <2>1 DEF FileInv, Settled
<1>7. CASE HookFails
  BY <1>7 DEF HookFails, FileInv, Settled
<1>8. CASE MarkClean
  <2>1. JobOn /\ job.todo = {} /\ job.design \in Names /\ job.structure \in Structures
    BY <1>8, OnHasName DEF MarkClean
  <2>2. files'[job.design] = job.structure
    BY <1>8, <2>1, OnHasName DEF MarkClean, JobInv, Typed
  <2>3. saved = job.structure.children
    <3>1. \A p \in Parts : saved[p] = job.structure.children[p]
      BY <2>1 DEF JobInv
    <3>2. saved \in [Parts -> [Attrs -> Values]] /\ job.structure.children \in [Parts -> [Attrs -> Values]]
      BY <2>1 DEF Typed, Structures
    <3> QED BY <3>1, <3>2
  <2>4. ~job.overtaken => job.structure.visible = visible /\ job.structure.exports = exports
    BY <2>1 DEF JobInv
  <2> QED BY <1>8, <2>2, <2>3, <2>4 DEF MarkClean, parts, FileInv, Settled
<1>9. CASE Unlock
  BY <1>1, <1>9 DEF Unlock, parts, Settled, JobOn
<1>10. CASE Reset \/ AskPut \/ PutNothing
  BY <1>1, <1>10 DEF Reset, AskPut, PutNothing, parts, control, Settled, JobOn
<1> QED BY <1>2, <1>3, <1>4, <1>5, <1>6, <1>7, <1>8, <1>9, <1>10 DEF Next

LEMMA LedIsRight == CleanInv /\ [Next]_vars => LedInv'
<1> SUFFICES ASSUME CleanInv, [Next]_vars PROVE LedInv'
  OBVIOUS
<1> USE DEF CleanInv, ReportsInv
<1>1. ASSUME UNCHANGED <<visible, exports, clean, modified, reported>>, Settled' => Settled
      PROVE  LedInv'
  BY <1>1 DEF LedInv, Modifications
<1>2. ASSUME UpdateModified PROVE LedInv'
  BY <1>2 DEF UpdateModified, LedInv, Modifications
<1>3. CASE UNCHANGED vars
  BY <1>1, <1>3 DEF vars, parts, control, Settled, JobOn
<1>4. CASE \E p \in Parts, a \in Attrs, v \in Values : ChangeAttr(p, a, v)
  BY <1>1, <1>2, <1>4 DEF ChangeAttr, Put, control, Settled, JobOn
<1>5. CASE \/ \E table \in Tables : SetExports(table)
           \/ \E shown \in [Parts -> BOOLEAN] : SetLayout(shown)
  BY <1>2, <1>5 DEF SetExports, SetLayout, MakePut
<1>6. CASE \/ \E name \in Names : Load(name)
           \/ \E p \in Parts : SavePart(p) \/ LoadPart(p)
           \/ \E p \in Parts, a \in Attrs : LoadAttr(p, a)
  <2>1. JobOn'
    <3>1. CASE \E name \in Names : Load(name)
      BY <3>1, LoadIsJob
    <3>2. CASE \E p \in Parts : SavePart(p) \/ LoadPart(p) \/ \E a \in Attrs : LoadAttr(p, a)
      BY <3>2, HooksAreJobs
    <3> QED BY <1>6, <3>1, <3>2
  <2> QED BY <2>1 DEF LedInv, Settled
<1>7. CASE \E name \in Names \cup {None} : Save(name)
  BY <1>1, <1>7, SaveSettles DEF Save
<1>8. CASE HookFails
  BY <1>8 DEF HookFails, LedInv, Settled
<1>9. CASE MarkClean
  BY <1>2, <1>9 DEF MarkClean
<1>10. CASE Unlock
  <2>1. CASE blocked # << >>
    BY <1>2, <1>10, <2>1 DEF Unlock
  <2>2. CASE blocked = << >>
    <3>1. \A p \in Parts : reported'[p] = reported[p]
      BY <1>10, <2>2, NoneWaits DEF Unlock
    <3>2. /\ UNCHANGED <<visible, exports, clean, modified>>
          /\ Settled' => Settled
      BY <1>10, <2>2 DEF Unlock, Settled, JobOn
    <3> QED BY <3>1, <3>2 DEF LedInv, Modifications
  <2> QED BY <2>1, <2>2
<1>11. CASE Reset \/ AskPut \/ PutNothing
  BY <1>1, <1>11 DEF Reset, AskPut, PutNothing, control, Settled, JobOn
<1> QED BY <1>3, <1>4, <1>5, <1>6, <1>7, <1>8, <1>9, <1>10, <1>11 DEF Next

\* do_save, do_load and update_modified: when the LED is off, the last save or load
\* has not failed and no put of layout or exports was made in its midst, then both and
\* the children that show are as in the file of the design, if no child changes between
\* its own hook and the end of all. Puts may wait, and be made, in every state.
THEOREM CleanBlocksAreDesigns ==
  ASSUME ChangesInHooks = FALSE
  PROVE  Spec => []CleanIsDesign
<1>1. CleanInv /\ [Next]_vars => CleanInv'
  BY StepsKeepReports, MessagesStayNow, JobsGoOn, KeptStays, FilesAreKept, LedIsRight
  DEF CleanInv
<1>2. ASSUME CleanInv, Quiet, ~modified, design # None, ~mixed
      PROVE  /\ visible = files[design].visible
             /\ exports = files[design].exports
             /\ \A p \in Parts : visible[p] => value[p] = files[design].children[p]
  <2>1. Settled /\ blocked = << >> /\ ~Modifications
    BY <1>2, OnHasName DEF Quiet, Settled, CleanInv, ReportsInv, ReportInv, LedInv
  <2>2. /\ visible = clean.visible /\ exports = clean.exports
        /\ \A p \in Parts : visible[p] => reported[p] = NoMessages
    BY <2>1 DEF Modifications
  <2>3. /\ clean.visible = files[design].visible /\ clean.exports = files[design].exports
        /\ saved = files[design].children
    BY <1>2, <2>1 DEF CleanInv, FileInv
  <2>4. ASSUME NEW p \in Parts, visible[p] PROVE value[p] = saved[p]
    <3>1. ASSUME NEW a \in Attrs, value[p][a] # saved[p][a] PROVE FALSE
      <4>1. messages[p][a] # None /\ Upcoming(p) = messages[p]
        BY <1>2, <2>1, <3>1 DEF CleanInv, KeptInv
      <4>2. Upcoming(p) = NoMessages
        BY <2>1, <2>2, <2>4, NoneWaits
      <4> QED BY <4>1, <4>2 DEF NoMessages
    <3>2. value[p] \in [Attrs -> Values] /\ saved[p] \in [Attrs -> Values]
      BY <1>2 DEF CleanInv, ReportsInv, Typed
    <3> QED BY <3>1, <3>2
  <2> QED BY <2>2, <2>3, <2>4
<1>3. CleanInv => CleanIsDesign
  BY <1>2 DEF CleanIsDesign
<1> QED BY <1>1, <1>3, CleanAtFirst, PTL DEF Spec

================================================================================
