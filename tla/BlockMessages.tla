----------------------------- MODULE BlockMessages -----------------------------
(***************************************************************************)
(* What clients and a server of a block tell each other.  The block has    *)
(* fields, each with the number of its last change.  A Delta has one       *)
(* change: of the whole block, of a field, or of a value in a field, where *)
(* None is the data of a field that goes.                                  *)
(***************************************************************************)
EXTENDS Integers, FiniteSets, SequencesExt

CONSTANTS
  Fields,        \* of the block that is served
  Own,           \* fields that it always has
  FieldsChange,  \* whether others come and go
  None           \* no field, no data

ASSUME BlockAssumption ==
  /\ Own \subseteq Fields /\ Own # {} /\ None \notin Fields \cup Nat
  /\ FieldsChange \in BOOLEAN

Subscription(c, i, of) == [conn |-> c, id |-> i, of |-> of]
Response(c, what, i, data) == [conn |-> c, what |-> what, id |-> i, data |-> data]
Change(depth, f, data) == [depth |-> depth, field |-> f, data |-> data]

\* A block after a change of it.
Changed(block, change) ==
  IF change.depth = "block" THEN change.data
  ELSE IF change.data = None THEN Restrict(block, DOMAIN block \ {change.field})
  ELSE [f \in DOMAIN block \cup {change.field} |->
          IF f = change.field THEN change.data ELSE block[f]]

\* What may happen to a block by itself, as its nth change.
Happenings(block, n) ==
  {Change("value", f, n) : f \in DOMAIN block}
    \cup IF FieldsChange
           THEN {Change("field", f, n) : f \in Fields \ DOMAIN block}
                  \cup {Change("field", f, None) : f \in DOMAIN block \ Own}
           ELSE {}

\* The Deltas of a change for those who subscribe to the block, in the order of
\* their connections.
Deltas(subs, change) ==
  LET InOrder(seq) == \A i, j \in DOMAIN seq : i < j => seq[i].conn <= seq[j].conn
      order == CHOOSE seq \in SetToSeqs({s \in subs : s.of = "block"}) : InOrder(seq)
  IN  [i \in DOMAIN order |-> Response(order[i].conn, "delta", order[i].id, change)]

\* The items of a sequence at some of its places.
Part(seq, places) ==
  LET upto[n \in 0 .. Len(seq)] ==
        IF n = 0 THEN << >>
        ELSE IF n \in places THEN Append(upto[n - 1], seq[n]) ELSE upto[n - 1]
  IN  upto[Len(seq)]

\* The responses that are for a connection.
For(c, responses) == Part(responses, {i \in DOMAIN responses : responses[i].conn = c})

================================================================================
