------------------------- MODULE WebsocketClientProofs -------------------------
(***************************************************************************)
(* What holds of the client of a websocket for any number of connections,  *)
(* losses, refusals, changes and puts: a comms block that is Ready is      *)
(* connected, and the block of a proxy follows the one that it is for.     *)
(***************************************************************************)
EXTENDS WebsocketClient, FiniteSetTheorems, WellFoundedInduction, SequenceTheorems, TLAPS

--------------------------------------------------------------------------------
(***************************************************************************)
(* What is held and sent, and to whom                                      *)
(***************************************************************************)
\* The fields that a block may have.
Known == IF FieldsChange THEN Fields ELSE Own

\* What a server says of its block, and what a client knows of it.
Whole == UNION {[fs -> Nat] : fs \in {some \in SUBSET Known : Own \subseteq some}}
Partial == UNION {[fs -> Nat] : fs \in SUBSET Known}

Changing ==
  [depth : {"block"}, field : {None}, data : Whole]
    \cup [depth : {"value"}, field : Known, data : Nat]
    \cup (IF FieldsChange THEN [depth : {"field"}, field : Known, data : Nat \cup {None}] ELSE {})

Asking ==
  [what : {"blocks", "block"}, id : Nat]
    \cup [what : {"put"}, id : Nat, field : Known, by : Puts]
Responses ==
  [conn : Conns, what : {"delta"}, id : Nat, data : Changing]
    \cup [conn : Conns, what : {"return"}, id : Nat, data : Puts]
Subscriptions == [conn : Conns, id : Nat, of : {"blocks", "block"}]

Sending == {Blocks, [what |-> "block"]} \cup [what : {"put"}, field : Known, by : Puts]
ToTornado ==
  [do : {"recv"}] \cup [do : {"close"}, conn : Conns] \cup [do : {"send"}, request : Sending]
ToCothread ==
  [do : {"connected", "fault"}, conn : Conns]
    \cup [do : {"response"}, request : Sending, message : Responses]
    \cup [do : {"apply"}, change : Changing]

ServerTypes ==
  /\ link \in [Conns -> {"new", "open", "closed"}]
  /\ up \in [Conns -> Seq(Asking)]
  /\ down \in [Conns -> Seq(Responses)]
  /\ owed \in SUBSET {r \in Responses : r.what = "return"}
  /\ changes \in Nat
  /\ remote \in Whole /\ \A f \in DOMAIN remote : remote[f] <= changes
  /\ subs \in SUBSET Subscriptions

ClientTypes ==
  /\ state \in {"Disabled", "Resetting", "Ready", "Disabling", "Fault"}
  /\ waits \in SUBSET {"start", "stop"}
  /\ items \in Seq([do : {"connected", "fault"}, conn : Conns])
  /\ conn \in Conns \cup {None}
  /\ dialing \in Nat /\ nextId \in Nat \ {0}
  /\ loops \in SUBSET Conns
  /\ DOMAIN lookup \in SUBSET (1 .. nextId - 1) /\ \A i \in DOMAIN lookup : lookup[i] \in Sending
  /\ toTornado \in Seq(ToTornado)
  /\ toCothread \in Seq(ToCothread)
  /\ answer \in [Puts -> {"none", "waiting", "failed"} \cup Puts]
  /\ proxy \in {"none", "waiting", "done"}
  /\ shadow \in Partial
  /\ stale \in BOOLEAN

Types == ServerTypes /\ ClientTypes

\* Connections are made in their order, and nothing is sent before.
AreMet ==
  /\ \A c, d \in Conns : link[c] = "new" /\ c <= d => link[d] = "new"
  /\ \A c \in Conns : link[c] = "new" => up[c] = << >> /\ down[c] = << >>
  /\ \A s \in subs : link[s.conn] # "new"
  /\ conn # None => link[conn] # "new"
  /\ \A c \in loops : link[c] # "new"
  /\ \A i \in 1 .. Len(toTornado) : toTornado[i].do = "close" =>
       toTornado[i].conn \in Conns /\ link[toTornado[i].conn] # "new"

--------------------------------------------------------------------------------
(***************************************************************************)
(* The proxy asks for its block once.                                      *)
(***************************************************************************)
SendsBlock(call) == call.do = "send" /\ call.request.what = "block"

NoneSent == \A i \in 1 .. Len(toTornado) : ~SendsBlock(toTornado[i])
NoneAsked == \A c \in Conns : \A i \in 1 .. Len(up[c]) : up[c][i].what # "block"
NoneServed == \A s \in subs : s.of # "block"

\* A call that brings a change of the block, or a change of it.
Brings(call) == call.do = "response" /\ call.request.what = "block" /\ call.message.what = "delta"
Applies(call) == call.do = "apply"

NothingTold ==
  /\ \A c \in Conns : \A i \in 1 .. Len(down[c]) : down[c][i].what # "delta"
  /\ \A i \in 1 .. Len(toCothread) : ~Brings(toCothread[i]) /\ ~Applies(toCothread[i])
  /\ shadow = << >>

SentOnce ==
  \A i, j \in 1 .. Len(toTornado) : SendsBlock(toTornado[i]) /\ SendsBlock(toTornado[j]) => i = j
AskedOnce ==
  \A c, d \in Conns : \A i \in 1 .. Len(up[c]), j \in 1 .. Len(up[d]) :
    up[c][i].what = "block" /\ up[d][j].what = "block" => c = d /\ i = j
ServedOnce == \A s, t \in subs : s.of = "block" /\ t.of = "block" => s = t

AsksOnce ==
  /\ proxy = "none" => NoneSent
  /\ proxy = "none" \/ ~NoneSent => NoneAsked
  /\ proxy = "none" \/ ~NoneSent \/ ~NoneAsked => NoneServed /\ NothingTold
  /\ SentOnce /\ AskedOnce /\ ServedOnce

\* Ids of the proxy's request and of its subscription, and those of puts
OfBlock(id) ==
  \/ \E s \in subs : s.of = "block" /\ s.id = id
  \/ \E c \in Conns : \E i \in 1 .. Len(up[c]) : up[c][i].what = "block" /\ up[c][i].id = id
OfPut(id) ==
  \/ \E r \in owed : r.id = id
  \/ \E c \in Conns : \E i \in 1 .. Len(up[c]) : up[c][i].what = "put" /\ up[c][i].id = id
  \/ \E c \in Conns : \E i \in 1 .. Len(down[c]) : down[c][i].what = "return" /\ down[c][i].id = id

IdsDiffer ==
  \A id \in Nat : /\ OfBlock(id) \/ OfPut(id) => id < nextId
                  /\ ~(OfBlock(id) /\ OfPut(id))

--------------------------------------------------------------------------------
(***************************************************************************)
(* One connection at a time                                                *)
(***************************************************************************)
\* calls to do, of a queue
No(queue, do) == \A i \in 1 .. Len(queue) : queue[i].do # do
AtMostOne(queue, do) ==
  \A i, j \in 1 .. Len(queue) : queue[i].do = do /\ queue[j].do = do => i = j

\* A connection is being made, or has been and nobody has been told.
Dials == ~No(toTornado, "recv") \/ dialing > 0
Tells == ~No(toCothread, "connected") \/ ~No(items, "connected")

OneStarts ==
  /\ AtMostOne(toTornado, "recv") /\ dialing <= 1
  /\ AtMostOne(toCothread, "connected") /\ AtMostOne(items, "connected")
  /\ No(toTornado, "recv") \/ dialing = 0
  /\ No(toCothread, "connected") \/ No(items, "connected")
  /\ ~(Dials /\ Tells)
  /\ Dials \/ Tells => "start" \in waits
  /\ Dials => conn = None

\* Faults that are reported are those of other connections than the present one.
OldFaults(queue, present, links) ==
  \A i \in 1 .. Len(queue) : queue[i].do = "fault" =>
    queue[i].conn \in Conns \ {present} /\ links[queue[i].conn] # "new"

OneConnection ==
  /\ loops = IF conn = None THEN {} ELSE {conn}
  /\ conn # None => \A c \in Conns : link[c] # "new" => c <= conn
  /\ OneStarts
  /\ OldFaults(toCothread, conn, link) /\ OldFaults(items, conn, link)

ReadyFits ==
  /\ state = "Ready" => "start" \notin waits
  /\ conn = None /\ (state = "Ready" \/ (state = "Resetting" /\ Tells)) =>
       ~No(toCothread, "fault")

SendsBlocks(call) == call.do = "send" /\ call.request.what = "blocks"

BlocksAsked ==
  conn # None =>
    \/ link[conn] = "closed" \/ Tells
    \/ \E i \in 1 .. Len(toTornado) : SendsBlocks(toTornado[i])
    \/ \E i \in 1 .. Len(up[conn]) : up[conn][i].what = "blocks"
    \/ \E s \in subs : s.conn = conn /\ s.of = "blocks"

ConnFits == OneConnection /\ ReadyFits /\ BlocksAsked
ConnInv == stale \/ ConnFits

--------------------------------------------------------------------------------
(***************************************************************************)
(* The proxy follows its block.                                            *)
(***************************************************************************)
\* Requests of a queue that the next connection comes after
SentBefore(queue) ==
  \A i, j \in 1 .. Len(queue) : queue[i].do = "recv" /\ SendsBlock(queue[j]) => j < i

\* Faults of a queue that a connection comes after
Followed(queue) ==
  \A i \in 1 .. Len(queue) : queue[i].do = "fault" =>
    \E j \in 1 .. Len(queue) : queue[j].do = "connected" /\ i < j

\* The proxy asks over a connection that was made before; who reports the loss of one
\* does so before the next is there.
SentFits ==
  /\ dialing > 0 \/ Tells => NoneSent
  /\ SentBefore(toTornado)
  /\ conn # None => Followed(toCothread)

\* Its request is on that connection, with that id.
IsAsked(id) == \E i \in 1 .. Len(up[conn]) : up[conn][i].what = "block" /\ up[conn][i].id = id
IsServed(id) == \E s \in subs : s.conn = conn /\ s.of = "block" /\ s.id = id

LookedUp ==
  \A id \in Nat : conn # None /\ (IsAsked(id) \/ IsServed(id)) =>
    /\ No(toCothread, "fault")
    /\ id \in DOMAIN lookup /\ lookup[id].what = "block"

\* What a change says of a field
Speaks(change, f) == change.depth = "block" \/ change.field = f
Says(change, f) == IF change.depth = "block" THEN change.data[f] ELSE change.data

\* The changes that the proxy has yet to apply, in their order: those that wait to be
\* applied, to be handled, and to be read.
Places == (1 .. 3) \X (Nat \ {0})
Pends(p) ==
  \/ p[1] = 1 /\ p[2] <= Len(toCothread) /\ Applies(toCothread[p[2]])
  \/ p[1] = 2 /\ p[2] <= Len(toCothread) /\ Brings(toCothread[p[2]])
  \/ p[1] = 3 /\ p[2] <= Len(down[conn]) /\ down[conn][p[2]].what = "delta"
At(p) ==
  IF p[1] = 1 THEN toCothread[p[2]].change
  ELSE IF p[1] = 2 THEN toCothread[p[2]].message.data
  ELSE down[conn][p[2]].data
Sooner(p, q) == p[1] < q[1] \/ (p[1] = q[1] /\ p[2] < q[2])

Pending(p, f) == Pends(p) /\ Speaks(At(p), f)

FieldTold(f) ==
  /\ f \in DOMAIN shadow => shadow[f] <= remote[f]
  /\ \A p \in Places : Pending(p, f) =>
       /\ Says(At(p), f) <= remote[f]
       /\ f \in DOMAIN shadow => shadow[f] <= Says(At(p), f)
  /\ \A p, q \in Places :
       Pending(p, f) /\ Pending(q, f) /\ Sooner(p, q) => Says(At(p), f) <= Says(At(q), f)
  /\ \/ f \in DOMAIN shadow /\ shadow[f] = remote[f]
     \/ \E p \in Places : Pending(p, f) /\ Says(At(p), f) = remote[f]

ProxyTold ==
  \A s \in subs : s.of = "block" /\ s.conn = conn /\ link[conn] = "open" =>
    /\ \A i \in 1 .. Len(down[conn]) : down[conn][i].what = "delta" => down[conn][i].id = s.id
    /\ \A f \in Own : FieldTold(f)

ProxyInv == stale \/ FieldsChange \/ (SentFits /\ LookedUp /\ ProxyTold)

IInv == Types /\ AreMet /\ AsksOnce /\ IdsDiffer /\ ConnInv /\ ProxyInv

--------------------------------------------------------------------------------
(***************************************************************************)
(* Names and changes                                                       *)
(***************************************************************************)
LEMMA NamesDiffer ==
  /\ Conns \in SUBSET Nat /\ None \notin Nat /\ None \notin Known /\ None \notin Conns
  /\ Own \in SUBSET Known /\ Known \in SUBSET Fields /\ Own # {}
BY BlockAssumption, ServerAssumption DEF Known, Conns

LEMMA WholeIsPartial == Whole \in SUBSET Partial
BY DEF Whole, Partial

\* The initial block
LEMMA OwnIsWhole == [f \in Own |-> 0] \in Whole
BY NamesDiffer DEF Whole

\* What kinds of changes there are
LEMMA ChangeIs ==
  ASSUME NEW ch \in Changing
  PROVE  \/ ch.depth = "block" /\ ch.data \in Whole /\ ch.field = None
         \/ ch.depth = "value" /\ ch.field \in Known /\ ch.data \in Nat
         \/ FieldsChange /\ ch.depth = "field" /\ ch.field \in Known /\ ch.data \in Nat \cup {None}
BY DEF Changing

LEMMA BlockChange ==
  ASSUME NEW b \in Whole PROVE Change("block", None, b) \in Changing
BY DEF Change, Changing

LEMMA ValueChange ==
  ASSUME NEW f \in Known, NEW n \in Nat PROVE Change("value", f, n) \in Changing
BY DEF Change, Changing

\* A block after the change of a field, or of its value
Assigned(b, f, n) == [g \in DOMAIN b \cup {f} |-> IF g = f THEN n ELSE b[g]]

LEMMA SetIs ==
  ASSUME NEW b, NEW depth, depth # "block", NEW f, NEW n \in Nat
  PROVE  Changed(b, Change(depth, f, n)) = Assigned(b, f, n)
BY NamesDiffer DEF Changed, Change, Assigned

LEMMA RemoveIs ==
  ASSUME NEW fs \in SUBSET Known, NEW b \in [fs -> Nat], NEW f \in Known
  PROVE  /\ Changed(b, Change("field", f, None)) \in [fs \ {f} -> Nat]
         /\ \A g \in fs \ {f} : Changed(b, Change("field", f, None))[g] = b[g]
<1>1. Changed(b, Change("field", f, None)) = [g \in fs \ {f} |-> b[g]]
  BY DEF Changed, Change, Restrict
<1> QED BY <1>1

\* A value that is put, or that changes by itself
LEMMA SetKeeps ==
  ASSUME NEW b \in Whole, NEW depth, depth # "block", NEW f \in Known, NEW n \in Nat,
         \A g \in DOMAIN b : b[g] <= n
  PROVE  /\ Changed(b, Change(depth, f, n)) \in Whole
         /\ \A g \in DOMAIN Changed(b, Change(depth, f, n)) : Changed(b, Change(depth, f, n))[g] <= n
<1>1. PICK fs \in SUBSET Known : Own \subseteq fs /\ b \in [fs -> Nat]
  BY DEF Whole
<1>2. fs \cup {f} \in SUBSET Known /\ Own \subseteq fs \cup {f}
  BY <1>1
<1> DEFINE c == Changed(b, Change(depth, f, n))
<1>3. c \in [fs \cup {f} -> Nat] /\ \A g \in fs \cup {f} : c[g] = IF g = f THEN n ELSE b[g]
  <2>1. c = Assigned(b, f, n)
    BY SetIs
  <2> HIDE DEF c
  <2> QED BY <1>1, <2>1 DEF Assigned
<1> HIDE DEF c
<1>4. c \in Whole
  BY <1>2, <1>3 DEF Whole
<1>5. \A g \in fs \cup {f} : c[g] <= n
  BY <1>1, <1>3
<1> QED BY <1>3, <1>4, <1>5 DEF c

\* Whatever happens to the block by itself
LEMMA HappensTo ==
  ASSUME NEW b \in Whole, NEW n \in Nat, \A g \in DOMAIN b : b[g] <= n,
         NEW change \in Happenings(b, n)
  PROVE  /\ change \in Changing /\ Changed(b, change) \in Whole
         /\ \A g \in DOMAIN Changed(b, change) : Changed(b, change)[g] <= n
         /\ ~FieldsChange => \E f \in Own : change = Change("value", f, n)
<1>1. PICK fs \in SUBSET Known : Own \subseteq fs /\ b \in [fs -> Nat]
  BY DEF Whole
<1>2. ~FieldsChange => fs = Own
  BY <1>1 DEF Known
<1>3. CASE \E f \in DOMAIN b : change = Change("value", f, n)
  BY <1>1, <1>2, <1>3, SetKeeps, ValueChange
<1>4. ASSUME FieldsChange, NEW f \in Fields \ DOMAIN b, change = Change("field", f, n)
      PROVE  change \in Changing /\ Changed(b, change) \in Whole
             /\ \A g \in DOMAIN Changed(b, change) : Changed(b, change)[g] <= n
  <2>1. f \in Known
    BY <1>4 DEF Known
  <2>2. change \in Changing
    BY <1>4, <2>1 DEF Change, Changing
  <2> QED BY <1>4, <2>1, <2>2, SetKeeps
<1>5. ASSUME FieldsChange, NEW f \in DOMAIN b \ Own, change = Change("field", f, None)
      PROVE  change \in Changing /\ Changed(b, change) \in Whole
             /\ \A g \in DOMAIN Changed(b, change) : Changed(b, change)[g] <= n
  <2>1. f \in Known /\ fs \ {f} \in SUBSET Known /\ Own \subseteq fs \ {f}
    BY <1>1, <1>5
  <2>2. change \in Changing
    BY <1>5, <2>1 DEF Change, Changing
  <2> DEFINE c == Changed(b, Change("field", f, None))
  <2>3. c \in [fs \ {f} -> Nat] /\ \A g \in fs \ {f} : c[g] = b[g]
    BY <1>1, <2>1, RemoveIs
  <2> HIDE DEF c
  <2>4. c \in Whole /\ \A g \in DOMAIN c : c[g] <= n
    BY <1>1, <2>1, <2>3 DEF Whole
  <2> QED BY <1>5, <2>2, <2>4 DEF c
<1> QED BY <1>3, <1>4, <1>5 DEF Happenings

\* What a client makes of a change
LEMMA HandleKeeps ==
  ASSUME NEW b \in Partial, NEW ch \in Changing
  PROVE  HandleChange(b, ch) \in Partial
<1>1. CASE ch.depth = "block"
  BY <1>1, ChangeIs, WholeIsPartial DEF HandleChange, Changed
<1>2. CASE ch.depth = "field"
  BY <1>2 DEF HandleChange
<1>3. CASE ch.depth = "value"
  <2>1. ch.field \in Known /\ ch.data \in Nat
    BY <1>3, ChangeIs
  <2>2. ch = Change("value", ch.field, ch.data)
    BY <1>3 DEF Changing, Change
  <2>3. PICK fs \in SUBSET Known : b \in [fs -> Nat]
    BY DEF Partial
  <2>4. PICK f \in Known, n \in Nat : f = ch.field /\ n = ch.data
    BY <2>1
  <2>5. Changed(b, Change("value", f, n)) \in [fs \cup {f} -> Nat]
    <3>1. Changed(b, Change("value", f, n)) = Assigned(b, f, n)
      BY SetIs
    <3> QED BY <2>3, <3>1 DEF Assigned
  <2>6. Changed(b, ch) \in [fs \cup {f} -> Nat] /\ fs \cup {f} \in SUBSET Known
    BY <2>2, <2>4, <2>5
  <2> QED BY <1>3, <2>6 DEF HandleChange, Partial
<1> QED BY <1>1, <1>2, <1>3, ChangeIs

--------------------------------------------------------------------------------
(***************************************************************************)
(* What is told, and to whom                                               *)
(***************************************************************************)
\* upto[n] is what Part takes of the first n items.
Takes(upto, seq, places) ==
  /\ upto[0] = << >> /\ Part(seq, places) = upto[Len(seq)]
  /\ \A n \in 1 .. Len(seq) :
       upto[n] = IF n \in places THEN Append(upto[n - 1], seq[n]) ELSE upto[n - 1]

\* Of more than two it is never asked here.
LEMMA PartOfFew ==
  ASSUME NEW seq, Len(seq) \in 0 .. 2, NEW places
  PROVE  \E upto : Takes(upto, seq, places)
<1> DEFINE Step(f, n) == IF n = 0 THEN << >>
                         ELSE IF n \in places THEN Append(f[n - 1], seq[n]) ELSE f[n - 1]
           one == IF 1 \in places THEN Append(<< >>, seq[1]) ELSE << >>
           two == IF 2 \in places THEN Append(one, seq[2]) ELSE one
           g == [n \in 0 .. Len(seq) |-> IF n = 0 THEN << >> ELSE IF n = 1 THEN one ELSE two]
           it == CHOOSE upto : upto = [n \in 0 .. Len(seq) |->
                   IF n = 0 THEN << >>
                   ELSE IF n \in places THEN Append(upto[n - 1], seq[n]) ELSE upto[n - 1]]
<1>1. ASSUME NEW n \in 0 .. Len(seq) PROVE g[n] = Step(g, n)
  <2>1. n \in {0, 1, 2} /\ 0 \in 0 .. Len(seq) /\ (n = 2 => 1 \in 0 .. Len(seq))
    <3> DEFINE N == Len(seq)
    <3>1. N \in 0 .. 2 /\ n \in 0 .. N
      OBVIOUS
    <3> HIDE DEF N
    <3>2. n \in {0, 1, 2} /\ 0 \in 0 .. N /\ (n = 2 => 1 \in 0 .. N)
      BY <3>1
    <3> QED BY <3>2 DEF N
  <2>2. g[0] = << >>
    BY <2>1
  <2>3. n = 1 => g[1] = one
    OBVIOUS
  <2>4. n = 2 => g[1] = one /\ g[2] = two
    BY <2>1
  <2>5. 1 - 1 = 0 /\ 2 - 1 = 1
    OBVIOUS
  <2> HIDE DEF g
  <2> QED BY <2>1, <2>2, <2>3, <2>4, <2>5
<1>2. g = [n \in 0 .. Len(seq) |-> Step(g, n)]
  <2> DEFINE h == [n \in 0 .. Len(seq) |-> Step(g, n)]
  <2>1. g = [n \in 0 .. Len(seq) |-> g[n]] /\ h = [n \in 0 .. Len(seq) |-> h[n]]
    OBVIOUS
  <2>2. \A n \in 0 .. Len(seq) : h[n] = Step(g, n)
    OBVIOUS
  <2> HIDE DEF g, Step, h
  <2>3. \A n \in 0 .. Len(seq) : g[n] = h[n]
    BY <1>1, <2>2
  <2>4. g = h
    BY <2>1, <2>3
  <2> QED BY <2>4 DEF h
<1>3. it = [n \in 0 .. Len(seq) |-> Step(it, n)]
  <2> HIDE DEF g
  <2> QED BY <1>2
<1>4. Part(seq, places) = it[Len(seq)]
  BY DEF Part
<1> HIDE DEF it
<1>5. \A n \in 0 .. Len(seq) : it[n] = Step(it, n)
  <2> SUFFICES ASSUME NEW n \in 0 .. Len(seq) PROVE it[n] = Step(it, n)
    OBVIOUS
  <2> HIDE DEF Step
  <2> QED BY <1>3, Zenon
<1>6. it[0] = << >>
  BY <1>5
<1>7. \A n \in 1 .. Len(seq) : it[n] = IF n \in places THEN Append(it[n - 1], seq[n]) ELSE it[n - 1]
  BY <1>5
<1>8. Takes(it, seq, places)
  BY <1>4, <1>6, <1>7 DEF Takes
<1> QED BY <1>8

LEMMA ForNone ==
  ASSUME NEW c PROVE For(c, << >>) = << >>
<1> DEFINE P == {i \in DOMAIN << >> : << >>[i].conn = c}
<1>1. For(c, << >>) = Part(<< >>, P)
  BY DEF For
<1> HIDE DEF P
<1>2. PICK upto : Takes(upto, << >>, P)
  BY PartOfFew
<1> QED BY <1>1, <1>2 DEF Takes

LEMMA ForOne ==
  ASSUME NEW c, NEW r PROVE For(c, <<r>>) = IF r.conn = c THEN <<r>> ELSE << >>
<1> DEFINE P == {i \in DOMAIN <<r>> : <<r>>[i].conn = c}
<1>1. For(c, <<r>>) = Part(<<r>>, P) /\ (1 \in P <=> r.conn = c) /\ Len(<<r>>) = 1 /\ <<r>>[1] = r
  BY DEF For
<1> HIDE DEF P
<1>2. PICK upto : Takes(upto, <<r>>, P)
  BY <1>1, PartOfFew
<1>3. upto[1] = IF 1 \in P THEN Append(upto[0], r) ELSE upto[0]
  <2>1. 1 \in 1 .. 1 /\ 1 - 1 = 0
    OBVIOUS
  <2> QED BY <1>1, <1>2, <2>1 DEF Takes
<1>4. Append(<< >>, r) = <<r>>
  OBVIOUS
<1> QED BY <1>1, <1>2, <1>3, <1>4 DEF Takes

LEMMA PairIs == ASSUME NEW r, NEW q PROVE Append(<<r>>, q) = <<r, q>>
<1> DEFINE a == Append(<<r>>, q)
           b == <<r, q>>
<1>1. <<r>> \in Seq({r, q}) /\ Len(<<r>>) = 1 /\ <<r>>[1] = r
  OBVIOUS
<1>2. a \in Seq({r, q}) /\ Len(a) = 2 /\ a[1] = r /\ a[2] = q
  BY <1>1
<1>3. b \in Seq({r, q}) /\ Len(b) = 2 /\ b[1] = r /\ b[2] = q
  OBVIOUS
<1> HIDE DEF a, b
<1>4. \A i \in 1 .. Len(a) : a[i] = b[i]
  <2>1. \A i \in 1 .. 2 : i = 1 \/ i = 2
    OBVIOUS
  <2> QED BY <1>2, <1>3, <2>1
<1>5. a = b
  BY <1>2, <1>3, <1>4, SeqEqual
<1> QED BY <1>5 DEF a, b

LEMMA ForTwo ==
  ASSUME NEW c, NEW r, NEW q
  PROVE  For(c, <<r, q>>) = IF r.conn = c THEN IF q.conn = c THEN <<r, q>> ELSE <<r>>
                            ELSE IF q.conn = c THEN <<q>> ELSE << >>
<1> DEFINE P == {i \in DOMAIN <<r, q>> : <<r, q>>[i].conn = c}
<1>1. /\ For(c, <<r, q>>) = Part(<<r, q>>, P) /\ (1 \in P <=> r.conn = c) /\ (2 \in P <=> q.conn = c)
      /\ Len(<<r, q>>) = 2 /\ <<r, q>>[1] = r /\ <<r, q>>[2] = q
  BY DEF For
<1> HIDE DEF P
<1>2. PICK upto : Takes(upto, <<r, q>>, P)
  BY <1>1, PartOfFew
<1>3. /\ upto[1] = IF 1 \in P THEN Append(upto[0], r) ELSE upto[0]
      /\ upto[2] = IF 2 \in P THEN Append(upto[1], q) ELSE upto[1]
  <2>1. 1 \in 1 .. 2 /\ 2 \in 1 .. 2 /\ 1 - 1 = 0 /\ 2 - 1 = 1
    OBVIOUS
  <2> QED BY <1>1, <1>2, <2>1 DEF Takes
<1>4. Append(<< >>, r) = <<r>> /\ Append(<< >>, q) = <<q>>
  OBVIOUS
<1>5. Append(<<r>>, q) = <<r, q>>
  BY PairIs
<1>6. upto[0] = << >> /\ For(c, <<r, q>>) = upto[2]
  BY <1>1, <1>2 DEF Takes
<1>7. CASE r.conn = c
  <2>1. upto[1] = <<r>>
    BY <1>1, <1>3, <1>4, <1>6, <1>7
  <2> QED BY <1>1, <1>3, <1>5, <1>6, <1>7, <2>1
<1>8. CASE r.conn # c
  <2>1. upto[1] = << >>
    BY <1>1, <1>3, <1>6, <1>8
  <2> QED BY <1>1, <1>3, <1>4, <1>6, <1>8, <2>1
<1> QED BY <1>7, <1>8

\* A change is told to the one that subscribes to the block, if there is one.
LEMMA DeltasNone ==
  ASSUME NoneServed, NEW change PROVE Deltas(subs, change) = << >>
<1> DEFINE InOrder(seq) == \A i, j \in DOMAIN seq : i < j => seq[i].conn <= seq[j].conn
           T == {s \in subs : s.of = "block"}
           order == CHOOSE seq \in SetToSeqs(T) : InOrder(seq)
<1>1. T = {}
  BY DEF NoneServed
<1>2. IsFiniteSet(T) /\ Cardinality(T) = 0
  BY <1>1, FS_EmptySet
<1>3. \E seq \in SetToSeqs(T) : InOrder(seq)
  <2>1. << >> \in [1 .. 0 -> T] /\ DOMAIN << >> = 1 .. 0
    OBVIOUS
  <2>2. << >> \in SetToSeqs(T)
    <3> HIDE DEF T
    <3> QED BY <1>2, <2>1 DEF SetToSeqs
  <2>3. InOrder(<< >>)
    BY <2>1
  <2> HIDE DEF InOrder, T
  <2> QED BY <2>2, <2>3
<1>4. Deltas(subs, change) = [i \in DOMAIN order |-> Response(order[i].conn, "delta", order[i].id, change)]
  BY DEF Deltas
<1>5. order \in [1 .. 0 -> T]
  <2> HIDE DEF T, InOrder
  <2>1. order \in SetToSeqs(T)
    BY <1>3
  <2> HIDE DEF order
  <2> QED BY <1>2, <2>1 DEF SetToSeqs
<1> HIDE DEF order, T
<1>6. Deltas(subs, change) = [i \in 1 .. 0 |-> Response(order[i].conn, "delta", order[i].id, change)]
  BY <1>4, <1>5
<1> QED BY <1>6

LEMMA DeltasOne ==
  ASSUME AsksOnce, NEW s \in subs, s.of = "block", NEW change
  PROVE  Deltas(subs, change) = <<Response(s.conn, "delta", s.id, change)>>
<1> DEFINE InOrder(seq) == \A i, j \in DOMAIN seq : i < j => seq[i].conn <= seq[j].conn
           T == {t \in subs : t.of = "block"}
           order == CHOOSE seq \in SetToSeqs(T) : InOrder(seq)
<1>1. T = {s}
  BY DEF AsksOnce, ServedOnce
<1>2. IsFiniteSet(T) /\ Cardinality(T) = 1
  BY <1>1, FS_Singleton
<1>3. \E seq \in SetToSeqs(T) : InOrder(seq)
  <2>1. <<s>> \in [1 .. 1 -> T] /\ DOMAIN <<s>> = 1 .. 1
    BY <1>1
  <2>2. <<s>> \in SetToSeqs(T)
    <3> HIDE DEF T
    <3> QED BY <1>2, <2>1 DEF SetToSeqs
  <2>3. InOrder(<<s>>)
    BY <2>1
  <2> QED BY <2>2, <2>3
<1>4. Deltas(subs, change) = [i \in DOMAIN order |-> Response(order[i].conn, "delta", order[i].id, change)]
  BY DEF Deltas
<1>5. order \in [1 .. 1 -> T]
  <2> HIDE DEF T, InOrder
  <2>1. order \in SetToSeqs(T)
    BY <1>3
  <2> HIDE DEF order
  <2> QED BY <1>2, <2>1 DEF SetToSeqs
<1> HIDE DEF order
<1>6. order[1] = s /\ DOMAIN order = 1 .. 1
  BY <1>1, <1>5
<1>7. Deltas(subs, change) = [i \in 1 .. 1 |-> Response(s.conn, "delta", s.id, change)]
  BY <1>4, <1>6
<1> QED BY <1>7

\* A connection's responses and one more, if that is for it and it is open
With(seq, c, r) == IF link[c] = "open" /\ r.conn = c THEN Append(seq, r) ELSE seq

LEMMA WithItems ==
  ASSUME NEW seq \in Seq(Responses), NEW c, NEW r \in Responses
  PROVE  /\ With(seq, c, r) \in Seq(Responses)
         /\ Len(seq) \in Nat /\ Len(With(seq, c, r)) \in {Len(seq), Len(seq) + 1}
         /\ \A i \in 1 .. Len(seq) : With(seq, c, r)[i] = seq[i]
         /\ \A i \in 1 .. Len(With(seq, c, r)) :
              \/ i \in 1 .. Len(seq)
              \/ i = Len(seq) + 1 /\ With(seq, c, r)[i] = r /\ r.conn = c /\ link[c] = "open"
<1>1. CASE link[c] = "open" /\ r.conn = c
  <2>1. With(seq, c, r) = Append(seq, r)
    BY <1>1 DEF With
  <2>2. /\ Append(seq, r) \in Seq(Responses) /\ Len(Append(seq, r)) = Len(seq) + 1 /\ Len(seq) \in Nat
        /\ \A i \in 1 .. Len(seq) : Append(seq, r)[i] = seq[i]
        /\ Append(seq, r)[Len(seq) + 1] = r
    OBVIOUS
  <2> QED BY <1>1, <2>1, <2>2
<1>2. CASE ~(link[c] = "open" /\ r.conn = c)
  BY <1>2 DEF With
<1> QED BY <1>1, <1>2

LEMMA TellNone ==
  ASSUME Types, Tell(<< >>) PROVE down' = down
<1>1. \A c \in Conns : down[c] \in Seq(Responses) /\ down[c] \o << >> = down[c]
  BY DEF Types, ServerTypes
<1>2. down' = [c \in Conns |-> down[c]]
  BY <1>1, ForNone DEF Tell
<1> QED BY <1>2 DEF Types, ServerTypes

LEMMA TellOne ==
  ASSUME Types, NEW r \in Responses, Tell(<<r>>)
  PROVE  down' = [c \in Conns |-> With(down[c], c, r)]
<1>1. ASSUME NEW c \in Conns
      PROVE  (IF link[c] = "open" THEN down[c] \o For(c, <<r>>) ELSE down[c]) = With(down[c], c, r)
  <2>1. down[c] \in Seq(Responses)
    BY DEF Types, ServerTypes
  <2>2. down[c] \o << >> = down[c] /\ down[c] \o <<r>> = Append(down[c], r)
    BY <2>1, AppendIsConcat
  <2> QED BY <2>2, ForOne DEF With
<1> QED BY <1>1 DEF Tell

LEMMA TellTwo ==
  ASSUME Types, NEW r \in Responses, NEW q \in Responses, Tell(<<r, q>>)
  PROVE  down' = [c \in Conns |-> With(With(down[c], c, r), c, q)]
<1>1. ASSUME NEW c \in Conns
      PROVE  (IF link[c] = "open" THEN down[c] \o For(c, <<r, q>>) ELSE down[c])
               = With(With(down[c], c, r), c, q)
  <2>1. down[c] \in Seq(Responses)
    BY DEF Types, ServerTypes
  <2>2. /\ down[c] \o << >> = down[c] /\ down[c] \o <<r>> = Append(down[c], r)
        /\ down[c] \o <<q>> = Append(down[c], q)
    BY <2>1, AppendIsConcat
  <2>3. down[c] \o <<r, q>> = Append(Append(down[c], r), q)
    <3> DEFINE a == down[c] \o <<r, q>>
               b == Append(Append(down[c], r), q)
               n == Len(down[c])
    <3>0. n \in Nat /\ <<r, q>> \in Seq(Responses) /\ Len(<<r, q>>) = 2
          /\ <<r, q>>[1] = r /\ <<r, q>>[2] = q
      BY <2>1
    <3>1. /\ a \in Seq(Responses) /\ Len(a) = n + 2
          /\ \A i \in 1 .. n : a[i] = down[c][i]
          /\ a[n + 1] = r /\ a[n + 2] = q
      <4>1. a \in Seq(Responses) /\ Len(a) = n + 2
        BY <2>1, <3>0
      <4>2. \A i \in 1 .. n + 2 : a[i] = IF i <= n THEN down[c][i] ELSE <<r, q>>[i - n]
        BY <2>1, <3>0
      <4>3. n + 1 \in 1 .. n + 2 /\ n + 2 \in 1 .. n + 2 /\ (n + 1) - n = 1 /\ (n + 2) - n = 2
            /\ ~(n + 1 <= n) /\ ~(n + 2 <= n) /\ \A i \in 1 .. n : i \in 1 .. n + 2 /\ i <= n
        BY <3>0
      <4> HIDE DEF a, n
      <4> QED BY <3>0, <4>1, <4>2, <4>3
    <3>2. Append(down[c], r) \in Seq(Responses) /\ Len(Append(down[c], r)) = n + 1
          /\ \A i \in 1 .. n : Append(down[c], r)[i] = down[c][i]
          /\ Append(down[c], r)[n + 1] = r
      BY <2>1
    <3>3. /\ b \in Seq(Responses) /\ Len(b) = n + 2
          /\ \A i \in 1 .. n + 1 : b[i] = Append(down[c], r)[i]
          /\ b[n + 2] = q
      <4> DEFINE d == Append(down[c], r)
      <4>1. d \in Seq(Responses) /\ Len(d) = n + 1 /\ b = Append(d, q)
        BY <3>2
      <4> HIDE DEF d, b
      <4>2. /\ b \in Seq(Responses) /\ Len(b) = (n + 1) + 1
            /\ \A i \in 1 .. n + 1 : b[i] = d[i]
            /\ b[(n + 1) + 1] = q
        BY <4>1
      <4>3. (n + 1) + 1 = n + 2
        BY <3>0
      <4> QED BY <4>2, <4>3 DEF d
    <3> HIDE DEF a, b, n
    <3>4. \A i \in 1 .. n + 2 : a[i] = b[i]
      <4>1. \A i \in 1 .. n + 2 : i \in 1 .. n \/ i = n + 1 \/ i = n + 2
        BY <3>0
      <4>2. \A i \in 1 .. n : i \in 1 .. n + 1
        BY <3>0
      <4>3. n + 1 \in 1 .. n + 1
        BY <3>0
      <4> QED BY <3>1, <3>2, <3>3, <4>1, <4>2, <4>3
    <3>5. a = b
      BY <3>1, <3>3, <3>4, SeqEqual
    <3> QED BY <3>5 DEF a, b
  <2>4. For(c, <<r, q>>) = IF r.conn = c THEN IF q.conn = c THEN <<r, q>> ELSE <<r>>
                           ELSE IF q.conn = c THEN <<q>> ELSE << >>
    BY ForTwo
  <2>5. CASE link[c] = "open" /\ r.conn = c
    BY <2>2, <2>3, <2>4, <2>5 DEF With
  <2>6. CASE link[c] = "open" /\ r.conn # c
    BY <2>2, <2>4, <2>6 DEF With
  <2>7. CASE link[c] # "open"
    BY <2>7 DEF With
  <2> QED BY <2>5, <2>6, <2>7
<1> QED BY <1>1 DEF Tell

\* Of some responses, each goes to the end of what is under way to its connection, if
\* that is open; a Delta goes first.
Grows(rs) ==
  /\ down' \in [Conns -> Seq(Responses)]
  /\ \A c \in Conns :
       /\ Len(down[c]) <= Len(down'[c])
       /\ \A i \in 1 .. Len(down[c]) : down'[c][i] = down[c][i]
       /\ \A i \in 1 .. Len(down'[c]) :
            \/ i \in 1 .. Len(down[c])
            \/ down'[c][i] \in rs /\ down'[c][i].conn = c /\ link[c] = "open"
       /\ \A r \in rs : r.what = "delta" /\ r.conn = c /\ link[c] = "open" =>
            Len(down[c]) + 1 <= Len(down'[c]) /\ down'[c][Len(down[c]) + 1] = r

DeltasOf(change) ==
  {Response(s.conn, "delta", s.id, change) : s \in {some \in subs : some.of = "block"}}

LEMMA GrowsNone ==
  ASSUME Types, down' = down PROVE Grows({})
<1>1. \A c \in Conns : Len(down[c]) \in Nat
  BY DEF Types, ServerTypes
<1> QED BY <1>1 DEF Types, ServerTypes, Grows

LEMMA GrowsOne ==
  ASSUME Types, NEW r \in Responses, Tell(<<r>>) PROVE Grows({r})
<1>1. down' = [c \in Conns |-> With(down[c], c, r)]
  BY TellOne
<1>2. ASSUME NEW c \in Conns
      PROVE  /\ down'[c] \in Seq(Responses)
             /\ Len(down[c]) <= Len(down'[c])
             /\ \A i \in 1 .. Len(down[c]) : down'[c][i] = down[c][i]
             /\ \A i \in 1 .. Len(down'[c]) :
                  \/ i \in 1 .. Len(down[c])
                  \/ down'[c][i] = r /\ down'[c][i].conn = c /\ link[c] = "open"
             /\ r.conn = c /\ link[c] = "open" =>
                  Len(down[c]) + 1 <= Len(down'[c]) /\ down'[c][Len(down[c]) + 1] = r
  <2>1. down[c] \in Seq(Responses) /\ down'[c] = With(down[c], c, r)
    BY <1>1 DEF Types, ServerTypes
  <2>2. r.conn = c /\ link[c] = "open" => down'[c] = Append(down[c], r)
    BY <2>1 DEF With
  <2>3. /\ Len(Append(down[c], r)) = Len(down[c]) + 1
        /\ Append(down[c], r)[Len(down[c]) + 1] = r
    BY <2>1
  <2>4. r.conn = c /\ link[c] = "open" =>
          Len(down[c]) + 1 <= Len(down'[c]) /\ down'[c][Len(down[c]) + 1] = r
    <3>1. Len(down[c]) \in Nat
      BY <2>1
    <3> QED BY <2>2, <2>3, <3>1
  <2>5. Len(down[c]) \in Nat /\ Len(down'[c]) \in {Len(down[c]), Len(down[c]) + 1}
    BY <2>1, WithItems
  <2>6. Len(down[c]) <= Len(down'[c])
    BY <2>5
  <2> QED BY <2>1, <2>4, <2>6, WithItems
<1>3. down' \in [Conns -> Seq(Responses)]
  BY <1>1, <1>2
<1> QED BY <1>2, <1>3 DEF Grows

LEMMA GrowsTwo ==
  ASSUME Types, NEW r \in Responses, NEW q \in Responses, q.what # "delta", Tell(<<r, q>>)
  PROVE  Grows({r, q})
<1>1. down' = [c \in Conns |-> With(With(down[c], c, r), c, q)]
  BY TellTwo
<1>2. ASSUME NEW c \in Conns
      PROVE  /\ down'[c] \in Seq(Responses)
             /\ Len(down[c]) <= Len(down'[c])
             /\ \A i \in 1 .. Len(down[c]) : down'[c][i] = down[c][i]
             /\ \A i \in 1 .. Len(down'[c]) :
                  \/ i \in 1 .. Len(down[c])
                  \/ down'[c][i] \in {r, q} /\ down'[c][i].conn = c /\ link[c] = "open"
             /\ r.conn = c /\ link[c] = "open" =>
                  Len(down[c]) + 1 <= Len(down'[c]) /\ down'[c][Len(down[c]) + 1] = r
  <2> DEFINE w == With(down[c], c, r)
  <2>1. down[c] \in Seq(Responses) /\ down'[c] = With(w, c, q)
    BY <1>1 DEF Types, ServerTypes
  <2>2. /\ w \in Seq(Responses)
        /\ Len(down[c]) \in Nat /\ Len(w) \in {Len(down[c]), Len(down[c]) + 1}
        /\ \A i \in 1 .. Len(down[c]) : w[i] = down[c][i]
        /\ \A i \in 1 .. Len(w) :
             \/ i \in 1 .. Len(down[c])
             \/ i = Len(down[c]) + 1 /\ w[i] = r /\ r.conn = c /\ link[c] = "open"
    BY <2>1, WithItems
  <2>3. r.conn = c /\ link[c] = "open" => Len(w) = Len(down[c]) + 1 /\ w[Len(down[c]) + 1] = r
    <3>1. Len(Append(down[c], r)) = Len(down[c]) + 1 /\ Append(down[c], r)[Len(down[c]) + 1] = r
      BY <2>1
    <3> QED BY <3>1 DEF With
  <2> HIDE DEF w
  <2>4. /\ down'[c] \in Seq(Responses)
        /\ Len(w) \in Nat /\ Len(down'[c]) \in {Len(w), Len(w) + 1}
        /\ \A i \in 1 .. Len(w) : down'[c][i] = w[i]
        /\ \A i \in 1 .. Len(down'[c]) :
             \/ i \in 1 .. Len(w)
             \/ i = Len(w) + 1 /\ down'[c][i] = q /\ q.conn = c /\ link[c] = "open"
    BY <2>1, <2>2, WithItems
  <2>5. Len(down[c]) <= Len(w) /\ Len(w) <= Len(down'[c])
    BY <2>2, <2>4
  <2>6. \A i \in 1 .. Len(down[c]) : down'[c][i] = down[c][i]
    <3>1. \A i \in 1 .. Len(down[c]) : i \in 1 .. Len(w)
      BY <2>2, <2>5
    <3> QED BY <2>2, <2>4, <3>1
  <2>7. \A i \in 1 .. Len(down'[c]) :
          \/ i \in 1 .. Len(down[c])
          \/ down'[c][i] \in {r, q} /\ down'[c][i].conn = c /\ link[c] = "open"
    BY <2>2, <2>4
  <2>8. r.conn = c /\ link[c] = "open" =>
          Len(down[c]) + 1 <= Len(down'[c]) /\ down'[c][Len(down[c]) + 1] = r
    <3>1. Len(w) = Len(down[c]) + 1 => Len(down[c]) + 1 \in 1 .. Len(w)
      BY <2>2
    <3> QED BY <2>2, <2>3, <2>4, <2>5, <3>1
  <2>9. Len(down[c]) <= Len(down'[c])
    BY <2>2, <2>4, <2>5
  <2> QED BY <2>4, <2>6, <2>7, <2>8, <2>9
<1>3. down' \in [Conns -> Seq(Responses)]
  BY <1>1, <1>2
<1> QED BY <1>2, <1>3 DEF Grows

\* What a change makes to be told, alone or with the answer to a put
LEMMA GrowsChange ==
  ASSUME Types, AsksOnce, NEW change \in Changing, Tell(Deltas(subs, change))
  PROVE  Grows(DeltasOf(change))
<1>1. CASE NoneServed
  <2>1. DeltasOf(change) = {} /\ Deltas(subs, change) = << >>
    BY <1>1, DeltasNone DEF DeltasOf, NoneServed
  <2>2. Tell(<< >>)
    BY <2>1
  <2> QED BY <2>1, <2>2, TellNone, GrowsNone
<1>2. ASSUME NEW s \in subs, s.of = "block" PROVE Grows(DeltasOf(change))
  <2> DEFINE r == Response(s.conn, "delta", s.id, change)
  <2>1. r \in Responses
    BY DEF Types, ServerTypes, Subscriptions, Responses, Response
  <2>2. Deltas(subs, change) = <<r>>
    BY <1>2, DeltasOne
  <2>3. {some \in subs : some.of = "block"} = {s}
    BY <1>2 DEF AsksOnce, ServedOnce
  <2>4. DeltasOf(change) = {r}
    BY <2>3 DEF DeltasOf
  <2> HIDE DEF r
  <2>5. Tell(<<r>>)
    BY <2>2
  <2> QED BY <2>1, <2>4, <2>5, GrowsOne
<1> QED BY <1>1, <1>2 DEF NoneServed

LEMMA GrowsPut ==
  ASSUME Types, AsksOnce, NEW change \in Changing, NEW q \in Responses, q.what # "delta",
         Tell(Append(Deltas(subs, change), q))
  PROVE  Grows(DeltasOf(change) \cup {q})
<1>1. CASE NoneServed
  <2>1. DeltasOf(change) = {} /\ Deltas(subs, change) = << >>
    BY <1>1, DeltasNone DEF DeltasOf, NoneServed
  <2>2. Append(<< >>, q) = <<q>>
    OBVIOUS
  <2>3. Tell(<<q>>)
    BY <2>1, <2>2
  <2>4. Grows({q})
    BY <2>3, GrowsOne
  <2> QED BY <2>1, <2>4
<1>2. ASSUME NEW s \in subs, s.of = "block" PROVE Grows(DeltasOf(change) \cup {q})
  <2> DEFINE r == Response(s.conn, "delta", s.id, change)
  <2>1. r \in Responses
    BY DEF Types, ServerTypes, Subscriptions, Responses, Response
  <2>2. Deltas(subs, change) = <<r>>
    BY <1>2, DeltasOne
  <2>3. {some \in subs : some.of = "block"} = {s}
    BY <1>2 DEF AsksOnce, ServedOnce
  <2>4. DeltasOf(change) \cup {q} = {r, q}
    BY <2>3 DEF DeltasOf
  <2> HIDE DEF r
  <2>5. Append(<<r>>, q) = <<r, q>>
    BY PairIs
  <2>6. Tell(<<r, q>>)
    BY <2>2, <2>5
  <2> QED BY <2>1, <2>4, <2>6, GrowsTwo
<1> QED BY <1>1, <1>2 DEF NoneServed

--------------------------------------------------------------------------------
(***************************************************************************)
(* What the steps of the server do                                         *)
(***************************************************************************)
\* An item is taken, or put.
LEMMA TailItems ==
  ASSUME NEW S, NEW s \in Seq(S), s # << >>
  PROVE  /\ Head(s) = s[1] /\ 1 \in 1 .. Len(s) /\ Head(s) \in S
         /\ Tail(s) \in Seq(S) /\ Len(s) \in Nat /\ Len(Tail(s)) = Len(s) - 1
         /\ \A i \in 1 .. Len(Tail(s)) : i + 1 \in 1 .. Len(s) /\ Tail(s)[i] = s[i + 1]
         /\ \A i \in 1 .. Len(s) : i # 1 => i - 1 \in 1 .. Len(Tail(s)) /\ Tail(s)[i - 1] = s[i]
<1>1. Len(s) \in Nat /\ Len(s) # 0
  OBVIOUS
<1>2. Head(s) = s[1] /\ 1 \in 1 .. Len(s) /\ s[1] \in S
  BY <1>1
<1>3. /\ Tail(s) \in Seq(S) /\ Len(Tail(s)) = Len(s) - 1
      /\ \A i \in 1 .. Len(s) - 1 : Tail(s)[i] = s[i + 1]
  OBVIOUS
<1>4. \A i \in 1 .. Len(s) - 1 : i + 1 \in 1 .. Len(s)
  BY <1>1
<1>5. \A i \in 1 .. Len(s) : i # 1 => i - 1 \in 1 .. Len(s) - 1 /\ (i - 1) + 1 = i
  BY <1>1
<1>6. \A i \in 1 .. Len(s) : i # 1 => i - 1 \in 1 .. Len(Tail(s)) /\ Tail(s)[i - 1] = s[i]
  BY <1>3, <1>5
<1> QED BY <1>1, <1>2, <1>3, <1>4, <1>6

LEMMA AppendItems ==
  ASSUME NEW S, NEW s \in Seq(S), NEW e \in S
  PROVE  /\ Append(s, e) \in Seq(S) /\ Len(s) \in Nat /\ Len(Append(s, e)) = Len(s) + 1
         /\ \A i \in 1 .. Len(s) : i \in 1 .. Len(Append(s, e)) /\ Append(s, e)[i] = s[i]
         /\ Len(s) + 1 \in 1 .. Len(Append(s, e)) /\ Append(s, e)[Len(s) + 1] = e
         /\ \A i \in 1 .. Len(Append(s, e)) : i \in 1 .. Len(s) \/ i = Len(s) + 1
<1>1. /\ Append(s, e) \in Seq(S) /\ Len(s) \in Nat /\ Len(Append(s, e)) = Len(s) + 1
      /\ \A i \in 1 .. Len(s) : Append(s, e)[i] = s[i]
      /\ Append(s, e)[Len(s) + 1] = e
  OBVIOUS
<1>2. \A n \in Nat : /\ n + 1 \in 1 .. n + 1
                     /\ \A i \in 1 .. n + 1 : i \in 1 .. n \/ i = n + 1
                     /\ \A i \in 1 .. n : i \in 1 .. n + 1
  OBVIOUS
<1> QED BY <1>1, <1>2

\* What is in a queue after something is put
Added(new, old, call) ==
  /\ Len(old) \in Nat /\ Len(new) = Len(old) + 1 /\ new[Len(old) + 1] = call
  /\ Len(old) + 1 \in 1 .. Len(new)
  /\ \A i \in 1 .. Len(old) : i \in 1 .. Len(new) /\ new[i] = old[i]
  /\ \A i \in 1 .. Len(new) : (i \in 1 .. Len(old) /\ new[i] = old[i]) \/ (i = Len(old) + 1 /\ new[i] = call)

\* and what is after something is taken
Taken(new, old) ==
  /\ Len(old) \in Nat /\ 1 \in 1 .. Len(old) /\ Len(new) = Len(old) - 1
  /\ \A i \in 1 .. Len(new) : i + 1 \in 1 .. Len(old) /\ new[i] = old[i + 1]
  /\ \A i \in 1 .. Len(old) : i # 1 => i - 1 \in 1 .. Len(new) /\ new[i - 1] = old[i]

LEMMA AddedIs ==
  ASSUME NEW S, NEW old \in Seq(S), NEW call \in S, NEW new, new = Append(old, call)
  PROVE  Added(new, old, call)
BY AppendItems DEF Added

LEMMA TakenIs ==
  ASSUME NEW S, NEW old \in Seq(S), old # << >>, NEW new, new = Tail(old)
  PROVE  Taken(new, old)
BY TailItems DEF Taken

LEMMA RemoteIs ==
  ASSUME Types
  PROVE  remote \in Whole /\ changes \in Nat /\ changes + 1 \in Nat
         /\ \A f \in DOMAIN remote : remote[f] <= changes + 1
<1>1. \A b \in Whole : \A f \in DOMAIN b : b[f] \in Nat
  BY DEF Whole
<1> QED BY <1>1 DEF Types, ServerTypes

\* By itself, the block changes as a change says that goes to the one that subscribes.
Alters(change) ==
  /\ changes' = changes + 1
  /\ change \in Changing
  /\ remote' = Changed(remote, change) /\ remote' \in Whole
  /\ \A f \in DOMAIN remote' : remote'[f] <= changes'
  /\ ~FieldsChange => \E f \in Known : change = Change("value", f, changes')

LEMMA BlockChangesDoes ==
  ASSUME Types, AsksOnce, BlockChanges
  PROVE  \E change : Alters(change) /\ Grows(DeltasOf(change)) /\ UNCHANGED <<link, up, owed, subs>>
<1>1. PICK change \in Happenings(remote, changes') :
        remote' = Changed(remote, change) /\ Tell(Deltas(subs, change))
  BY DEF BlockChanges
<1>2. changes' = changes + 1 /\ UNCHANGED <<link, up, owed, subs>>
  BY DEF BlockChanges
<1>3. PICK n \in Nat : n = changes'
  BY <1>2, RemoteIs
<1>4. \A f \in DOMAIN remote : remote[f] <= n
  BY <1>2, <1>3, RemoteIs
<1>5. change \in Happenings(remote, n) /\ remote \in Whole
  BY <1>3, RemoteIs
<1>6. /\ change \in Changing /\ Changed(remote, change) \in Whole
      /\ \A f \in DOMAIN Changed(remote, change) : Changed(remote, change)[f] <= n
      /\ ~FieldsChange => \E f \in Own : change = Change("value", f, n)
  BY <1>4, <1>5, HappensTo
<1>7. Alters(change)
  BY <1>1, <1>2, <1>3, <1>6, NamesDiffer DEF Alters
<1>8. Grows(DeltasOf(change))
  BY <1>1, <1>6, GrowsChange
<1> QED BY <1>2, <1>7, <1>8

\* The request that is handled
LEMMA HandleTakes ==
  ASSUME Types, NEW c \in Conns, Handle(c)
  PROVE  /\ up[c] # << >> /\ up[c] \in Seq(Asking) /\ Head(up[c]) \in Asking
         /\ Head(up[c]) = up[c][1] /\ 1 \in 1 .. Len(up[c])
         /\ up' = [up EXCEPT ![c] = Tail(up[c])] /\ up' \in [Conns -> Seq(Asking)]
         /\ Taken(up'[c], up[c]) /\ \A d \in Conns : d # c => up'[d] = up[d]
         /\ link' = link
<1>1. up[c] \in Seq(Asking) /\ up[c] # << >>
  BY DEF Handle, Types, ServerTypes
<1>2. /\ Head(up[c]) \in Asking /\ Head(up[c]) = up[c][1] /\ 1 \in 1 .. Len(up[c])
      /\ Tail(up[c]) \in Seq(Asking)
  BY <1>1, TailItems
<1>3. /\ up' = [up EXCEPT ![c] = Tail(up[c])] /\ up' \in [Conns -> Seq(Asking)]
      /\ up'[c] = Tail(up[c]) /\ \A d \in Conns : d # c => up'[d] = up[d]
  BY <1>2 DEF Handle, Types, ServerTypes
<1>4. Taken(up'[c], up[c])
  BY <1>1, <1>3, TakenIs
<1> QED BY <1>1, <1>2, <1>3, <1>4 DEF Handle

LEMMA SubscribeDoes ==
  ASSUME Types, NEW c \in Conns, NEW r \in Asking, Subscribe(c, r)
  PROVE  /\ r.what \in {"blocks", "block"}
         /\ subs' = subs \cup {Subscription(c, r.id, r.what)}
         /\ Subscription(c, r.id, r.what) \in Subscriptions
         /\ r.what = "blocks" => down' = down
         /\ r.what = "block" => Grows({Response(c, "delta", r.id, Change("block", None, remote))})
         /\ UNCHANGED <<owed, remote, changes>>
<1>1. r.what \in {"blocks", "block"} /\ r.id \in Nat
  BY DEF Subscribe, Asking
<1>2. CASE r.what = "blocks"
  <2>1. FirstResponse(c, r) = << >>
    BY <1>2 DEF FirstResponse
  <2>2. Tell(<< >>)
    BY <2>1 DEF Subscribe
  <2> QED BY <1>1, <1>2, <2>2, TellNone DEF Subscribe, Subscription, Subscriptions
<1>3. CASE r.what = "block"
  <2> DEFINE q == Response(c, "delta", r.id, Change("block", None, remote))
  <2>1. q \in Responses
    BY <1>1, BlockChange, RemoteIs DEF Responses, Response
  <2>2. FirstResponse(c, r) = <<q>>
    BY <1>3 DEF FirstResponse
  <2> HIDE DEF q
  <2>3. Tell(<<q>>)
    BY <2>2 DEF Subscribe
  <2>4. Grows({q})
    BY <2>1, <2>3, GrowsOne
  <2> QED BY <1>1, <1>3, <2>4 DEF Subscribe, Subscription, Subscriptions, q
<1> QED BY <1>1, <1>2, <1>3

\* The answer to a put
ReturnOf(c, r) == Response(c, "return", r.id, r.by)

LEMMA PutDoes ==
  ASSUME Types, AsksOnce, NEW c \in Conns, NEW r \in Asking, Put(c, r)
  PROVE  /\ r.what = "put" /\ ReturnOf(c, r) \in Responses /\ subs' = subs
         /\ \E change :
              /\ Alters(change)
              /\ \/ Grows(DeltasOf(change) \cup {ReturnOf(c, r)}) /\ owed' = owed
                 \/ Grows(DeltasOf(change)) /\ owed' = owed \cup {ReturnOf(c, r)}
<1>1. r.what = "put" /\ r.id \in Nat /\ r.field \in Known /\ r.by \in Puts
  BY DEF Put, Asking
<1>2. ReturnOf(c, r) \in Responses /\ ReturnOf(c, r).what # "delta"
  BY <1>1 DEF Responses, Response, ReturnOf
<1>3. PICK n \in Nat : n = changes' /\ n = changes + 1
  BY RemoteIs DEF Put
<1>4. PICK f \in Known : f = r.field
  BY <1>1
<1> DEFINE change == Change("value", f, n)
<1>5. change \in Changing
  BY ValueChange
<1>6. remote \in Whole /\ \A g \in DOMAIN remote : remote[g] <= n
  BY <1>3, RemoteIs
<1>7. Changed(remote, change) \in Whole
      /\ \A g \in DOMAIN Changed(remote, change) : Changed(remote, change)[g] <= n
  BY <1>6, SetKeeps
<1>8. remote' = Changed(remote, change) /\ changes' = changes + 1
  BY <1>3, <1>4 DEF Put
<1>9. Alters(change)
  BY <1>3, <1>5, <1>7, <1>8 DEF Alters
<1>10. \/ Tell(Append(Deltas(subs, change), ReturnOf(c, r))) /\ owed' = owed
       \/ Tell(Deltas(subs, change)) /\ owed' = owed \cup {ReturnOf(c, r)}
  BY <1>3, <1>4 DEF Put, ReturnOf
<1> HIDE DEF change
<1>11. \/ Grows(DeltasOf(change) \cup {ReturnOf(c, r)}) /\ owed' = owed
       \/ Grows(DeltasOf(change)) /\ owed' = owed \cup {ReturnOf(c, r)}
  BY <1>2, <1>5, <1>10, GrowsChange, GrowsPut
<1> QED BY <1>1, <1>2, <1>9, <1>11 DEF Put

LEMMA AnswerDoes ==
  ASSUME Types, Answer
  PROVE  \E r \in owed : /\ owed' = owed \ {r} /\ r \in Responses /\ r.what = "return"
                         /\ Grows({r}) /\ UNCHANGED <<link, up, remote, subs, changes>>
<1>1. PICK r \in owed : owed' = owed \ {r} /\ Tell(<<r>>)
  BY DEF Answer
<1>2. r \in Responses /\ r.what = "return"
  BY DEF Types, ServerTypes
<1> QED BY <1>1, <1>2, GrowsOne DEF Answer

--------------------------------------------------------------------------------
(***************************************************************************)
(* What the steps of the client do                                         *)
(***************************************************************************)
\* A request with its id
LEMMA RequestIs ==
  ASSUME nextId \in Nat, NEW request \in Sending
  PROVE  /\ WithId(request) \in Asking
         /\ WithId(request).id = nextId /\ WithId(request).what = request.what
<1>1. CASE request \in {Blocks, [what |-> "block"]}
  <2>1. DOMAIN request = {"what"} /\ request.what \in {"blocks", "block"}
    BY <1>1 DEF Blocks
  <2>2. WithId(request) = [what |-> request.what, id |-> nextId]
    BY <2>1 DEF WithId
  <2> QED BY <2>1, <2>2 DEF Asking
<1>2. CASE request \in [what : {"put"}, field : Known, by : Puts]
  <2>1. DOMAIN request = {"what", "field", "by"} /\ request.what = "put"
        /\ request.field \in Known /\ request.by \in Puts
    BY <1>2
  <2>2. WithId(request) =
          [what |-> "put", id |-> nextId, field |-> request.field, by |-> request.by]
    BY <2>1 DEF WithId
  <2> QED BY <2>1, <2>2 DEF Asking
<1> QED BY <1>1, <1>2 DEF Sending

\* A part of a connection's responses is kept.
LEMMA KeptItems ==
  ASSUME NEW S, NEW s \in Seq(S), NEW n \in 0 .. Len(s)
  PROVE  /\ SubSeq(s, 1, n) \in Seq(S) /\ Len(SubSeq(s, 1, n)) = n
         /\ \A i \in 1 .. n : i \in 1 .. Len(s) /\ SubSeq(s, 1, n)[i] = s[i]
<1>1. Len(s) \in Nat
  OBVIOUS
<1>2. \A i \in 1 .. n : i \in 1 .. Len(s) /\ s[i] \in S
  BY <1>1
<1>3. SubSeq(s, 1, n) = [i \in 1 .. n |-> s[i]]
  BY <1>1, <1>2
<1> QED BY <1>1, <1>2, <1>3

LEMMA ServerKeepsTypes ==
  ASSUME Types, AsksOnce, BlockChanges \/ ServerStep, UNCHANGED clientVars
  PROVE  Types'
<1>1. ClientTypes'
  BY DEF clientVars, Types, ClientTypes
<1>2. ASSUME NEW change, Alters(change) PROVE changes' \in Nat /\ remote' \in Whole
              /\ \A f \in DOMAIN remote' : remote'[f] <= changes'
  BY <1>2, RemoteIs DEF Alters
<1>3. ASSUME NEW rs, Grows(rs) PROVE down' \in [Conns -> Seq(Responses)]
  BY <1>3 DEF Grows
<1>4. CASE BlockChanges
  <2>1. PICK change : Alters(change) /\ Grows(DeltasOf(change)) /\ UNCHANGED <<link, up, owed, subs>>
    BY <1>4, BlockChangesDoes
  <2> QED BY <1>1, <1>2, <1>3, <2>1 DEF Types, ServerTypes
<1>5. ASSUME NEW c \in Conns, Handle(c) PROVE Types'
  <2>1. Head(up[c]) \in Asking /\ up' \in [Conns -> Seq(Asking)] /\ link' = link
    BY <1>5, HandleTakes
  <2>2. CASE Subscribe(c, Head(up[c]))
    <3>1. /\ subs' \in SUBSET Subscriptions /\ UNCHANGED <<owed, remote, changes>>
          /\ down' = down \/ \E rs : Grows(rs)
      BY <2>1, <2>2, SubscribeDoes DEF Types, ServerTypes
    <3> QED BY <1>1, <1>3, <2>1, <3>1 DEF Types, ServerTypes
  <2>3. CASE Put(c, Head(up[c]))
    <3> DEFINE r == Head(up[c])
    <3>1. /\ ReturnOf(c, r) \in Responses /\ subs' = subs
          /\ \E change : /\ Alters(change)
                         /\ \E rs : Grows(rs)
                         /\ owed' = owed \/ owed' = owed \cup {ReturnOf(c, r)}
      BY <2>1, <2>3, PutDoes
    <3>2. ReturnOf(c, r).what = "return"
      BY DEF ReturnOf, Response
    <3> HIDE DEF r
    <3>3. owed' \in SUBSET {q \in Responses : q.what = "return"}
      BY <3>1, <3>2 DEF Types, ServerTypes
    <3>4. changes' \in Nat /\ remote' \in Whole /\ \A f \in DOMAIN remote' : remote'[f] <= changes'
      BY <1>2, <3>1
    <3> QED BY <1>1, <1>3, <2>1, <3>1, <3>3, <3>4 DEF Types, ServerTypes
  <2> QED BY <1>5, <2>2, <2>3 DEF Handle
<1>6. CASE Answer
  <2>1. PICK r \in owed : owed' = owed \ {r} /\ Grows({r}) /\ UNCHANGED <<link, up, remote, subs, changes>>
    BY <1>6, AnswerDoes
  <2> QED BY <1>1, <1>3, <2>1 DEF Types, ServerTypes
<1>7. CASE Forget
  <2>1. PICK s \in subs : subs' = subs \ {s}
    BY <1>7 DEF Forget
  <2>2. UNCHANGED <<link, up, down, owed, remote, changes>>
    BY <1>7 DEF Forget
  <2> QED BY <1>1, <2>1, <2>2 DEF Types, ServerTypes
<1> QED BY <1>4, <1>5, <1>6, <1>7 DEF ServerStep

\* Tornado's thread is called, and calls back.
LEMMA CallTornadoKeeps ==
  ASSUME Types, NEW call \in ToTornado, CallTornado(call)
  PROVE  toTornado' \in Seq(ToTornado)
BY AppendItems DEF Types, ClientTypes, CallTornado

LEMMA CallCothreadKeeps ==
  ASSUME Types, NEW call \in ToCothread, CallCothread(call)
  PROVE  toCothread' \in Seq(ToCothread) /\ Added(toCothread', toCothread, call)
<1>1. toCothread \in Seq(ToCothread) /\ toCothread' = Append(toCothread, call)
  BY DEF Types, ClientTypes, CallCothread
<1> QED BY <1>1, AppendItems, AddedIs

LEMMA SendIs ==
  /\ Send(Blocks) \in ToTornado /\ Send([what |-> "block"]) \in ToTornado
  /\ \A f \in Known, p \in Puts : Send([what |-> "put", field |-> f, by |-> p]) \in ToTornado
BY DEF Send, Blocks, ToTornado, Sending

\* Calls to cothreads do one of four things, those to tornado's thread one of three.
LEMMA CallIs ==
  /\ \A call \in ToTornado :
       \/ call.do = "recv"
       \/ call.do = "close" /\ call.conn \in Conns
       \/ call.do = "send" /\ call.request \in Sending
  /\ \A call \in ToCothread :
       \/ call.do \in {"connected", "fault"} /\ call \in [do : {"connected", "fault"}, conn : Conns]
          /\ call.conn \in Conns
       \/ call.do = "response" /\ call.request \in Sending /\ call.message \in Responses
       \/ call.do = "apply" /\ call.change \in Changing
BY DEF ToTornado, ToCothread

LEMMA CothreadKeepsTypes ==
  ASSUME Types, StartClient \/ StopClient \/ ClientStarted \/ ClientStopped
                  \/ WaitTimesOut \/ SyncProxy
  PROVE  Types'
<1>1. CASE StartClient
  <2>1. CallTornado([do |-> "recv"]) => toTornado' \in Seq(ToTornado)
    <3>1. [do |-> "recv"] \in ToTornado
      BY DEF ToTornado
    <3> QED BY <3>1, CallTornadoKeeps
  <2> QED BY <1>1, <2>1 DEF StartClient, Types, ServerTypes, ClientTypes, serverVars
<1>2. CASE StopClient
  <2>1. conn # None /\ CallTornado([do |-> "close", conn |-> conn]) => toTornado' \in Seq(ToTornado)
    <3>1. conn # None => [do |-> "close", conn |-> conn] \in ToTornado
      BY DEF ToTornado, Types, ClientTypes
    <3> QED BY <3>1, CallTornadoKeeps
  <2> QED BY <1>2, <2>1 DEF StopClient, Types, ServerTypes, ClientTypes, serverVars
<1>3. \A who, what : GetItem(who, what) =>
        /\ waits' \in SUBSET {"start", "stop"}
        /\ items' \in Seq([do : {"connected", "fault"}, conn : Conns]) /\ stale' \in BOOLEAN
  <2>1. items # << >> => Tail(items) \in Seq([do : {"connected", "fault"}, conn : Conns])
    BY TailItems DEF Types, ClientTypes
  <2> QED BY <2>1 DEF GetItem, Types, ClientTypes
<1>4. ErrorState \in {"Disabled", "Resetting", "Ready", "Disabling", "Fault"}
  BY DEF ErrorState, Types, ClientTypes
<1>5. CASE ClientStarted
  <2>1. toTornado' \in Seq(ToTornado)
    BY <1>5, SendIs, CallTornadoKeeps DEF ClientStarted
  <2> QED BY <1>3, <1>4, <1>5, <2>1 DEF ClientStarted, Types, ServerTypes, ClientTypes, serverVars
<1>6. CASE ClientStopped
  BY <1>3, <1>4, <1>6 DEF ClientStopped, Types, ServerTypes, ClientTypes, serverVars
<1>7. CASE WaitTimesOut
  BY <1>4, <1>7 DEF WaitTimesOut, Types, ServerTypes, ClientTypes, serverVars
<1>8. CASE SyncProxy
  <2>1. toTornado' \in Seq(ToTornado)
    BY <1>8, SendIs, CallTornadoKeeps DEF SyncProxy
  <2> QED BY <1>8, <2>1 DEF SyncProxy, Types, ServerTypes, ClientTypes, serverVars
<1> QED BY <1>1, <1>2, <1>5, <1>6, <1>7, <1>8

LEMMA SendPutKeepsTypes ==
  ASSUME Types, NEW p \in Puts, SendPut(p)
  PROVE  Types'
<1>1. answer' \in [Puts -> {"none", "waiting", "failed"} \cup Puts]
  BY DEF SendPut, Types, ClientTypes
<1>2. PICK f \in DOMAIN shadow : CallTornado(Send([what |-> "put", field |-> f, by |-> p]))
  BY DEF SendPut
<1>3. f \in Known
  BY DEF Types, ClientTypes, Partial
<1>4. toTornado' \in Seq(ToTornado)
  BY <1>2, <1>3, SendIs, CallTornadoKeeps
<1> QED BY <1>1, <1>4 DEF SendPut, Types, ServerTypes, ClientTypes, serverVars

\* A call that tornado's thread runs
RunsRecv ==
  /\ Head(toTornado).do = "recv" /\ dialing' = dialing + 1
  /\ UNCHANGED <<link, up, down, lookup, nextId>>
RunsClose ==
  /\ Head(toTornado).do = "close" /\ Head(toTornado).conn \in Conns /\ Closes(Head(toTornado).conn)
  /\ UNCHANGED <<up, dialing, lookup, nextId>>
RunsSend ==
  /\ Head(toTornado).do = "send" /\ Head(toTornado).request \in Sending
  /\ SendRequest(Head(toTornado).request)

LEMMA RunTornadoDoes ==
  ASSUME Types, RunTornado
  PROVE  /\ toTornado # << >> /\ toTornado' = Tail(toTornado) /\ toTornado' \in Seq(ToTornado)
         /\ Head(toTornado) \in ToTornado /\ Head(toTornado) = toTornado[1]
         /\ Taken(toTornado', toTornado)
         /\ (RunsRecv \/ RunsClose \/ RunsSend)
         /\ UNCHANGED <<owed, remote, subs, changes, state, waits, items, conn, loops,
                        toCothread, answer, proxy, shadow, stale>>
<1>1. toTornado # << >> /\ toTornado' = Tail(toTornado) /\ toTornado \in Seq(ToTornado)
  BY DEF RunTornado, Types, ClientTypes
<1>2. /\ Head(toTornado) \in ToTornado /\ Tail(toTornado) \in Seq(ToTornado)
      /\ Head(toTornado) = toTornado[1] /\ Taken(toTornado', toTornado)
  BY <1>1, TailItems, TakenIs
<1>3. RunsRecv \/ RunsClose \/ RunsSend
  <2>1. CASE Head(toTornado).do = "recv"
    BY <2>1 DEF RunTornado, RunsRecv
  <2>2. CASE Head(toTornado).do = "close"
    BY <1>2, <2>2, CallIs DEF RunTornado, RunsClose
  <2>3. CASE Head(toTornado).do = "send"
    BY <1>2, <2>3, CallIs DEF RunTornado, RunsSend
  <2> QED BY <1>2, <2>1, <2>2, <2>3, CallIs
<1> QED BY <1>1, <1>2, <1>3 DEF RunTornado

\* A connection that is closed keeps the first of what is under way.
LEMMA ClosesDoes ==
  ASSUME Types, NEW c \in Conns, Closes(c)
  PROVE  /\ link' = [link EXCEPT ![c] = "closed"] /\ link' \in [Conns -> {"new", "open", "closed"}]
         /\ down' \in [Conns -> Seq(Responses)]
         /\ \A d \in Conns : /\ Len(down[d]) \in Nat /\ Len(down'[d]) <= Len(down[d])
                             /\ d # c => down'[d] = down[d]
                             /\ \A i \in 1 .. Len(down'[d]) :
                                  i \in 1 .. Len(down[d]) /\ down'[d][i] = down[d][i]
<1>1. link' = [link EXCEPT ![c] = "closed"] /\ link' \in [Conns -> {"new", "open", "closed"}]
  BY DEF Closes, Types, ServerTypes
<1>2. \A d \in Conns : down[d] \in Seq(Responses) /\ Len(down[d]) \in Nat
  BY DEF Types, ServerTypes
<1>3. PICK n \in 0 .. Len(down[c]) : down' = [down EXCEPT ![c] = SubSeq(down[c], 1, n)]
  BY DEF Closes
<1>4. /\ SubSeq(down[c], 1, n) \in Seq(Responses) /\ Len(SubSeq(down[c], 1, n)) = n
      /\ \A i \in 1 .. n : i \in 1 .. Len(down[c]) /\ SubSeq(down[c], 1, n)[i] = down[c][i]
  BY <1>2, KeptItems
<1>5. n <= Len(down[c])
  BY <1>2
<1>6. /\ down' \in [Conns -> Seq(Responses)]
      /\ down'[c] = SubSeq(down[c], 1, n) /\ \A d \in Conns : d # c => down'[d] = down[d]
  BY <1>3, <1>4 DEF Types, ServerTypes
<1>7. ASSUME NEW d \in Conns
      PROVE  /\ Len(down[d]) \in Nat /\ Len(down'[d]) <= Len(down[d])
             /\ d # c => down'[d] = down[d]
             /\ \A i \in 1 .. Len(down'[d]) : i \in 1 .. Len(down[d]) /\ down'[d][i] = down[d][i]
  <2>1. CASE d = c
    BY <1>2, <1>4, <1>5, <1>6, <2>1
  <2>2. CASE d # c
    BY <1>2, <1>6, <2>2
  <2> QED BY <2>1, <2>2
<1> QED BY <1>1, <1>6, <1>7

\* Where a request goes
LEMMA SendDoes ==
  ASSUME Types, NEW request \in Sending, SendRequest(request)
  PROVE  /\ nextId' = nextId + 1 /\ nextId' \in Nat \ {0}
         /\ DOMAIN lookup' = DOMAIN lookup \cup {nextId} /\ nextId \notin DOMAIN lookup
         /\ lookup'[nextId] = request /\ \A i \in DOMAIN lookup : lookup'[i] = lookup[i]
         /\ \A i \in DOMAIN lookup' : i \in 1 .. nextId' - 1 /\ lookup'[i] \in Sending
         /\ UNCHANGED <<link, down, dialing>>
         /\ \/ up' = up /\ (conn = None \/ link[conn] = "closed")
            \/ /\ conn \in Conns /\ link[conn] # "closed"
               /\ WithId(request) \in Asking
               /\ Added(up'[conn], up[conn], WithId(request))
               /\ \A d \in Conns : d # conn => up'[d] = up[d]
               /\ up' \in [Conns -> Seq(Asking)]
<1>1. nextId' = nextId + 1 /\ nextId' \in Nat \ {0} /\ nextId \in Nat \ {0} /\ UNCHANGED <<link, down, dialing>>
  BY DEF SendRequest, NewId, Types, ClientTypes
<1>2. /\ \A i \in DOMAIN lookup : i \in 1 .. nextId - 1 /\ lookup[i] \in Sending
      /\ nextId \notin 1 .. nextId - 1
  BY <1>1 DEF Types, ClientTypes
<1>3. nextId \notin DOMAIN lookup
  BY <1>2
<1>4. lookup' = [i \in DOMAIN lookup \cup {nextId} |-> IF i = nextId THEN request ELSE lookup[i]]
  BY DEF SendRequest
<1>5. DOMAIN lookup' = DOMAIN lookup \cup {nextId}
      /\ lookup'[nextId] = request /\ \A i \in DOMAIN lookup : lookup'[i] = lookup[i]
  BY <1>3, <1>4
<1>6. (\A i \in 1 .. nextId - 1 : i \in 1 .. nextId' - 1) /\ nextId \in 1 .. nextId' - 1
  BY <1>1
<1>7. \A i \in DOMAIN lookup' : i \in 1 .. nextId' - 1 /\ lookup'[i] \in Sending
  BY <1>2, <1>5, <1>6
<1>8. \/ up' = up /\ (conn = None \/ link[conn] = "closed")
      \/ /\ conn # None /\ link[conn] # "closed"
         /\ up' = [up EXCEPT ![conn] = Append(up[conn], WithId(request))]
  BY DEF SendRequest
<1>9. WithId(request) \in Asking
  BY <1>1, RequestIs
<1>10. conn # None => conn \in Conns
  BY DEF Types, ClientTypes
<1>11. ASSUME conn \in Conns, up' = [up EXCEPT ![conn] = Append(up[conn], WithId(request))]
       PROVE  /\ Added(up'[conn], up[conn], WithId(request))
              /\ \A d \in Conns : d # conn => up'[d] = up[d]
              /\ up' \in [Conns -> Seq(Asking)]
  <2>1. up[conn] \in Seq(Asking)
    BY <1>11 DEF Types, ServerTypes
  <2>2. Append(up[conn], WithId(request)) \in Seq(Asking)
    BY <1>9, <2>1, AppendItems
  <2>3. /\ up'[conn] = Append(up[conn], WithId(request)) /\ \A d \in Conns : d # conn => up'[d] = up[d]
        /\ up' \in [Conns -> Seq(Asking)]
    BY <1>11, <2>2 DEF Types, ServerTypes
  <2> QED BY <1>9, <2>1, <2>3, AddedIs
<1> QED BY <1>1, <1>3, <1>5, <1>7, <1>8, <1>9, <1>10, <1>11

LEMMA RunTornadoKeepsTypes ==
  ASSUME Types, RunTornado
  PROVE  Types'
<1>1. /\ toTornado' \in Seq(ToTornado) /\ (RunsRecv \/ RunsClose \/ RunsSend)
      /\ UNCHANGED <<owed, remote, subs, changes, state, waits, items, conn, loops,
                     toCothread, answer, proxy, shadow, stale>>
  BY RunTornadoDoes
<1>2. CASE RunsRecv
  BY <1>1, <1>2 DEF RunsRecv, Types, ServerTypes, ClientTypes
<1>3. CASE RunsClose
  <2>1. link' \in [Conns -> {"new", "open", "closed"}] /\ down' \in [Conns -> Seq(Responses)]
    BY <1>3, ClosesDoes DEF RunsClose
  <2> QED BY <1>1, <1>3, <2>1 DEF RunsClose, Types, ServerTypes, ClientTypes
<1>4. CASE RunsSend
  <2>1. /\ nextId' \in Nat \ {0} /\ \A i \in DOMAIN lookup' : i \in 1 .. nextId' - 1 /\ lookup'[i] \in Sending
        /\ UNCHANGED <<link, down, dialing>> /\ (up' = up \/ up' \in [Conns -> Seq(Asking)])
    BY <1>4, SendDoes DEF RunsSend
  <2>2. DOMAIN lookup' \in SUBSET (1 .. nextId' - 1)
    BY <2>1
  <2> QED BY <1>1, <2>1, <2>2 DEF Types, ServerTypes, ClientTypes
<1> QED BY <1>1, <1>2, <1>3, <1>4

\* A connection is made, or refused.
Makes(c) ==
  /\ Connects(c) /\ conn' = c /\ loops' = loops \cup {c}
  /\ CallCothread([do |-> "connected", conn |-> c])

LEMMA ConnectDoes ==
  ASSUME Types, Connect
  PROVE  /\ dialing > 0 /\ dialing' = dialing - 1
         /\ \/ \E c \in Conns : Makes(c)
            \/ UNCHANGED <<link, conn, loops, toCothread>>
         /\ UNCHANGED <<up, down, owed, remote, subs, changes, state, waits, items, lookup, nextId,
                        toTornado, answer, proxy, shadow, stale>>
BY DEF Connect, Makes

LEMMA MakesDoes ==
  ASSUME Types, NEW c \in Conns, Makes(c)
  PROVE  /\ \A d \in Conns : link[d] = "new" <=> d >= c
         /\ link' = [link EXCEPT ![c] = "open"] /\ link' \in [Conns -> {"new", "open", "closed"}]
         /\ conn' = c /\ loops' = loops \cup {c}
         /\ [do |-> "connected", conn |-> c] \in ToCothread
         /\ Added(toCothread', toCothread, [do |-> "connected", conn |-> c])
         /\ toCothread' \in Seq(ToCothread)
<1>1. [do |-> "connected", conn |-> c] \in ToCothread
  BY DEF ToCothread
<1>2. /\ Added(toCothread', toCothread, [do |-> "connected", conn |-> c])
      /\ toCothread' \in Seq(ToCothread)
  BY <1>1, CallCothreadKeeps DEF Makes
<1> QED BY <1>1, <1>2 DEF Makes, Connects, CallCothread, Types, ServerTypes

LEMMA ConnectKeepsTypes ==
  ASSUME Types, Connect
  PROVE  Types'
<1>1. /\ dialing' \in Nat
      /\ UNCHANGED <<up, down, owed, remote, subs, changes, state, waits, items, lookup, nextId,
                     toTornado, answer, proxy, shadow, stale>>
  BY ConnectDoes DEF Types, ClientTypes
<1>2. ASSUME NEW c \in Conns, Makes(c) PROVE Types'
  <2>1. /\ link' \in [Conns -> {"new", "open", "closed"}]
        /\ conn' = c /\ loops' = loops \cup {c} /\ toCothread' \in Seq(ToCothread)
    BY <1>2, MakesDoes
  <2> QED BY <1>1, <2>1 DEF Types, ServerTypes, ClientTypes
<1>3. CASE UNCHANGED <<link, conn, loops, toCothread>>
  BY <1>1, <1>3 DEF Types, ServerTypes, ClientTypes
<1> QED BY <1>2, <1>3, ConnectDoes

\* What is read is passed on, if it is for a request.
LEMMA ReadMessageDoes ==
  ASSUME Types, NEW c \in Conns, ReadMessage(c)
  PROVE  LET m == down[c][1]
         IN  /\ c \in loops /\ down[c] # << >> /\ down[c] \in Seq(Responses)
             /\ 1 \in 1 .. Len(down[c]) /\ m \in Responses
             /\ Taken(down'[c], down[c]) /\ \A d \in Conns : d # c => down'[d] = down[d]
             /\ down' \in [Conns -> Seq(Responses)]
             /\ loops' = IF conn = c THEN loops ELSE loops \ {c}
             /\ \/ /\ m.id \in DOMAIN lookup /\ lookup[m.id] \in Sending
                   /\ [do |-> "response", request |-> lookup[m.id], message |-> m] \in ToCothread
                   /\ Added(toCothread', toCothread,
                            [do |-> "response", request |-> lookup[m.id], message |-> m])
                   /\ toCothread' \in Seq(ToCothread)
                   /\ \/ lookup' = lookup
                      \/ /\ m.what = "return"
                         /\ DOMAIN lookup' = DOMAIN lookup \ {m.id}
                         /\ \A i \in DOMAIN lookup' : lookup'[i] = lookup[i]
                \/ m.id \notin DOMAIN lookup /\ toCothread' = toCothread /\ lookup' = lookup
             /\ UNCHANGED <<link, up, owed, remote, subs, changes, state, waits, items, conn,
                            dialing, nextId, toTornado, answer, proxy, shadow, stale>>
<1> DEFINE m == down[c][1]
<1>1. down[c] # << >> /\ down[c] \in Seq(Responses)
  BY DEF ReadMessage, Reads, Types, ServerTypes
<1>2. Head(down[c]) = m /\ 1 \in 1 .. Len(down[c]) /\ m \in Responses /\ Tail(down[c]) \in Seq(Responses)
  BY <1>1, TailItems
<1>3. /\ Taken(down'[c], down[c]) /\ \A d \in Conns : d # c => down'[d] = down[d]
      /\ down' \in [Conns -> Seq(Responses)]
  <2>1. down'[c] = Tail(down[c]) /\ down' \in [Conns -> Seq(Responses)]
        /\ \A d \in Conns : d # c => down'[d] = down[d]
    BY <1>2 DEF ReadMessage, Reads, Types, ServerTypes
  <2> QED BY <1>1, <2>1, TakenIs
<1> HIDE DEF m
<1>4. m.what \in {"return", "error"} => m.what = "return"
  BY <1>2 DEF Responses
<1>5. CASE m.id \in DOMAIN lookup
  <2> DEFINE call == [do |-> "response", request |-> lookup[m.id], message |-> m]
  <2>1. lookup[m.id] \in Sending
    BY <1>5 DEF Types, ClientTypes
  <2>2. call \in ToCothread
    BY <1>2, <2>1 DEF ToCothread
  <2>3. CallCothread(call) /\ lookup' = IF m.what \in {"return", "error"}
                               THEN Restrict(lookup, DOMAIN lookup \ {m.id}) ELSE lookup
    BY <1>2, <1>5 DEF ReadMessage
  <2> HIDE DEF call
  <2>4. Added(toCothread', toCothread, call) /\ toCothread' \in Seq(ToCothread)
    BY <2>2, <2>3, CallCothreadKeeps
  <2>5. \/ lookup' = lookup
        \/ /\ m.what = "return"
           /\ DOMAIN lookup' = DOMAIN lookup \ {m.id}
           /\ \A i \in DOMAIN lookup' : lookup'[i] = lookup[i]
    BY <1>4, <2>3 DEF Restrict
  <2> QED BY <1>1, <1>2, <1>3, <1>5, <2>1, <2>2, <2>4, <2>5 DEF ReadMessage, call, m
<1>6. CASE m.id \notin DOMAIN lookup
  <2>1. toCothread' = toCothread /\ lookup' = lookup
    BY <1>2, <1>6 DEF ReadMessage
  <2> QED BY <1>1, <1>2, <1>3, <1>6, <2>1 DEF ReadMessage, m
<1> QED BY <1>5, <1>6

LEMMA ReadMessageKeepsTypes ==
  ASSUME Types, NEW c \in Conns, ReadMessage(c)
  PROVE  Types'
<1>1. /\ down' \in [Conns -> Seq(Responses)] /\ loops' \in SUBSET Conns
      /\ toCothread' \in Seq(ToCothread)
      /\ DOMAIN lookup' \in SUBSET DOMAIN lookup /\ \A i \in DOMAIN lookup' : lookup'[i] = lookup[i]
      /\ UNCHANGED <<link, up, owed, remote, subs, changes, state, waits, items, conn,
                     dialing, nextId, toTornado, answer, proxy, shadow, stale>>
  <2>1. loops \in SUBSET Conns /\ toCothread \in Seq(ToCothread)
    BY DEF Types, ClientTypes
  <2> QED BY <2>1, ReadMessageDoes
<1> QED BY <1>1 DEF Types, ServerTypes, ClientTypes

LEMMA ReadNoneDoes ==
  ASSUME Types, NEW c \in Conns, ReadNone(c)
  PROVE  /\ c \in loops /\ down[c] = << >> /\ link[c] = "closed"
         /\ conn' = None /\ loops' = loops \ {c}
         /\ [do |-> "fault", conn |-> c] \in ToCothread
         /\ Added(toCothread', toCothread, [do |-> "fault", conn |-> c])
         /\ toCothread' \in Seq(ToCothread)
         /\ UNCHANGED <<link, up, down, owed, remote, subs, changes, state, waits, items, dialing,
                        lookup, nextId, toTornado, answer, proxy, shadow, stale>>
<1>1. [do |-> "fault", conn |-> c] \in ToCothread
  BY DEF ToCothread
<1>2. /\ Added(toCothread', toCothread, [do |-> "fault", conn |-> c])
      /\ toCothread' \in Seq(ToCothread)
  BY <1>1, CallCothreadKeeps DEF ReadNone
<1> QED BY <1>1, <1>2 DEF ReadNone, ConnAfter, serverVars

LEMMA ReadNoneKeepsTypes ==
  ASSUME Types, NEW c \in Conns, ReadNone(c)
  PROVE  Types'
BY ReadNoneDoes DEF Types, ServerTypes, ClientTypes

LEMMA LoseDoes ==
  ASSUME Types, Lose
  PROVE  \E c \in Conns :
           /\ link[c] = "open" /\ Closes(c)
           /\ up' = [up EXCEPT ![c] = << >>] /\ up' \in [Conns -> Seq(Asking)]
           /\ UNCHANGED <<owed, remote, subs, changes, state, waits, items, conn, dialing, loops,
                          lookup, nextId, toTornado, toCothread, answer, proxy, shadow, stale>>
<1>1. << >> \in Seq(Asking)
  OBVIOUS
<1> QED BY <1>1 DEF Lose, Loses, Types, ServerTypes

LEMMA LoseKeepsTypes ==
  ASSUME Types, Lose
  PROVE  Types'
<1>1. PICK c \in Conns :
        /\ Closes(c) /\ up' \in [Conns -> Seq(Asking)]
        /\ UNCHANGED <<owed, remote, subs, changes, state, waits, items, conn, dialing, loops,
                       lookup, nextId, toTornado, toCothread, answer, proxy, shadow, stale>>
  BY LoseDoes
<1>2. link' \in [Conns -> {"new", "open", "closed"}] /\ down' \in [Conns -> Seq(Responses)]
  BY <1>1, ClosesDoes
<1> QED BY <1>1, <1>2 DEF Types, ServerTypes, ClientTypes

\* A call that a cothread runs
RunsConnected ==
  /\ Head(toCothread).do = "connected" /\ items' = Append(items, Head(toCothread))
  /\ Added(items', items, Head(toCothread))
  /\ UNCHANGED <<state, lookup, answer, proxy, shadow>>
RunsFault ==
  /\ Head(toCothread).do = "fault" /\ shadow' = shadow
  /\ \/ /\ MayFault /\ state' = (IF state = "Disabling" THEN state ELSE "Fault")
        /\ items' = Append(items, Head(toCothread)) /\ Added(items', items, Head(toCothread))
        /\ lookup' = << >>
        /\ answer' \in [Puts -> {"none", "waiting", "failed"} \cup Puts]
        /\ proxy' = proxy \/ (proxy = "waiting" /\ proxy' = "done")
     \/ ~MayFault /\ UNCHANGED <<state, items, lookup, answer, proxy>>
RunsResponse ==
  /\ Head(toCothread).do = "response"
  /\ answer' \in [Puts -> {"none", "waiting", "failed"} \cup Puts]
  /\ proxy' = proxy \/ proxy' = "done"
  /\ UNCHANGED <<state, items, lookup, shadow>>
RunsApply ==
  /\ Head(toCothread).do = "apply" /\ Head(toCothread).change \in Changing
  /\ shadow' = HandleChange(shadow, Head(toCothread).change)
  /\ proxy' = "done"
  /\ UNCHANGED <<state, items, lookup, answer>>

Applying(call) == [do |-> "apply", change |-> call.message.data]

LEMMA ItemAdded ==
  ASSUME Types, NEW call \in ToCothread, call.do \in {"connected", "fault"}, items' = Append(items, call)
  PROVE  Added(items', items, call)
<1>1. call \in [do : {"connected", "fault"}, conn : Conns]
  BY CallIs
<1>2. items \in Seq([do : {"connected", "fault"}, conn : Conns])
  BY DEF Types, ClientTypes
<1> QED BY <1>1, <1>2, AddedIs

LEMMA RunCothreadDoes ==
  ASSUME Types, RunCothread
  PROVE  /\ toCothread # << >> /\ toCothread \in Seq(ToCothread) /\ Head(toCothread) \in ToCothread
         /\ Head(toCothread) = toCothread[1]
         /\ toCothread' \in Seq(ToCothread)
         /\ \/ /\ Brings(Head(toCothread)) /\ Applying(Head(toCothread)) \in ToCothread
               /\ Head(toCothread).message.data \in Changing
               /\ \E rest : Taken(rest, toCothread) /\ Added(toCothread', rest, Applying(Head(toCothread)))
            \/ ~Brings(Head(toCothread)) /\ Taken(toCothread', toCothread)
         /\ (RunsConnected \/ RunsFault \/ RunsResponse \/ RunsApply)
         /\ UNCHANGED <<link, up, down, owed, remote, subs, changes, waits, conn, dialing, loops,
                        nextId, toTornado, stale>>
<1> DEFINE call == Head(toCothread)
<1>1. toCothread # << >> /\ toCothread \in Seq(ToCothread)
  BY DEF RunCothread, Types, ClientTypes
<1>2. /\ call \in ToCothread /\ Tail(toCothread) \in Seq(ToCothread) /\ call = toCothread[1]
      /\ Taken(Tail(toCothread), toCothread)
  BY <1>1, TailItems, TakenIs
<1>3. UNCHANGED <<link, up, down, owed, remote, subs, changes, waits, conn, dialing, loops,
                  nextId, toTornado, stale>>
  BY DEF RunCothread, serverVars
<1>4. toCothread' = Tail(toCothread) \o IF Brings(call) THEN <<Applying(call)>> ELSE << >>
  BY DEF RunCothread, Brings, Applying
<1>5. /\ \/ /\ Brings(call) /\ Applying(call) \in ToCothread /\ call.message.data \in Changing
            /\ \E rest : Taken(rest, toCothread) /\ Added(toCothread', rest, Applying(call))
         \/ ~Brings(call) /\ Taken(toCothread', toCothread)
      /\ toCothread' \in Seq(ToCothread)
  <2> HIDE DEF call
  <2>1. CASE Brings(call)
    <3>1. call.message \in Responses /\ call.message.what = "delta"
      BY <1>2, <2>1, CallIs DEF Brings
    <3>2. call.message.data \in Changing
      BY <3>1 DEF Responses
    <3>3. Applying(call) \in ToCothread
      BY <3>2 DEF Applying, ToCothread
    <3>4. toCothread' = Append(Tail(toCothread), Applying(call))
      BY <1>2, <1>4, <2>1, <3>3, AppendIsConcat
    <3>5. toCothread' \in Seq(ToCothread) /\ Added(toCothread', Tail(toCothread), Applying(call))
      BY <1>2, <3>3, <3>4, AppendItems, AddedIs
    <3> QED BY <1>2, <2>1, <3>2, <3>3, <3>5
  <2>2. CASE ~Brings(call)
    <3>1. Tail(toCothread) \o << >> = Tail(toCothread)
      BY <1>2
    <3> QED BY <1>2, <1>4, <2>2, <3>1
  <2> QED BY <2>1, <2>2
<1>6. ASSUME call.do = "connected" PROVE RunsConnected
  <2>1. items' = Append(items, call) /\ UNCHANGED <<state, lookup, answer, proxy, shadow>>
    BY <1>6 DEF RunCothread, PutItem
  <2>2. Added(items', items, call)
    BY <1>2, <1>6, <2>1, ItemAdded
  <2> QED BY <1>6, <2>1, <2>2 DEF RunsConnected
<1>7. ASSUME call.do = "fault" PROVE RunsFault
  <2>1. ReportFault(call) /\ shadow' = shadow
    BY <1>7 DEF RunCothread
  <2>2. MayFault => /\ answer' \in [Puts -> {"none", "waiting", "failed"} \cup Puts]
                    /\ proxy' = proxy \/ (proxy = "waiting" /\ proxy' = "done")
    BY <2>1 DEF ReportFault, Fail, Types, ClientTypes
  <2>3. MayFault => items' = Append(items, call)
    BY <2>1 DEF ReportFault, PutItem
  <2>4. MayFault => Added(items', items, call)
    BY <1>2, <1>7, <2>3, ItemAdded
  <2> QED BY <1>7, <2>1, <2>2, <2>3, <2>4 DEF RunsFault, ReportFault
<1>8. ASSUME call.do = "response" PROVE RunsResponse
  <2>1. call.request \in Sending /\ call.message \in Responses
    BY <1>2, <1>8, CallIs
  <2>2. HandleResponse(call.request, call.message) /\ UNCHANGED <<state, items, lookup, shadow>>
    BY <1>8 DEF RunCothread
  <2> HIDE DEF call
  <2>3. call.message.what = "return" => call.message.data \in Puts
    BY <2>1 DEF Responses
  <2>4. /\ answer' \in [Puts -> {"none", "waiting", "failed"} \cup Puts]
        /\ proxy' = proxy \/ proxy' = "done"
    BY <2>2, <2>3 DEF HandleResponse, Answered, Types, ClientTypes
  <2> QED BY <1>8, <2>2, <2>4 DEF RunsResponse, call
<1>9. ASSUME call.do = "apply" PROVE RunsApply
  BY <1>2, <1>9, CallIs DEF RunCothread, RunsApply
<1> HIDE DEF call
<1>10. call.do \in {"connected", "fault", "response", "apply"}
  BY <1>2, CallIs
<1>11. RunsConnected \/ RunsFault \/ RunsResponse \/ RunsApply
  BY <1>6, <1>7, <1>8, <1>9, <1>10
<1> QED BY <1>1, <1>2, <1>3, <1>5, <1>11 DEF call

LEMMA RunCothreadKeepsTypes ==
  ASSUME Types, RunCothread
  PROVE  Types'
<1>1. /\ toCothread' \in Seq(ToCothread)
      /\ UNCHANGED <<link, up, down, owed, remote, subs, changes, waits, conn, dialing, loops,
                     nextId, toTornado, stale>>
  BY RunCothreadDoes
<1>2. ServerTypes'
  BY <1>1 DEF Types, ServerTypes
<1>3. ASSUME Head(toCothread).do \in {"connected", "fault"}
      PROVE  Append(items, Head(toCothread)) \in Seq([do : {"connected", "fault"}, conn : Conns])
  <2>1. Head(toCothread) \in [do : {"connected", "fault"}, conn : Conns]
    BY <1>3, CallIs, RunCothreadDoes
  <2> QED BY <2>1, AppendItems DEF Types, ClientTypes
<1>4. CASE RunsConnected
  BY <1>1, <1>2, <1>3, <1>4 DEF RunsConnected, Types, ClientTypes
<1>5. CASE RunsFault
  <2>1. DOMAIN << >> = {}
    OBVIOUS
  <2>2. /\ state' \in {"Disabled", "Resetting", "Ready", "Disabling", "Fault"}
        /\ items' \in Seq([do : {"connected", "fault"}, conn : Conns])
        /\ DOMAIN lookup' \in SUBSET (1 .. nextId - 1) /\ \A i \in DOMAIN lookup' : lookup'[i] \in Sending
        /\ answer' \in [Puts -> {"none", "waiting", "failed"} \cup Puts]
        /\ proxy' \in {"none", "waiting", "done"} /\ shadow' = shadow
    BY <1>3, <1>5, <2>1 DEF RunsFault, Types, ClientTypes
  <2> QED BY <1>1, <1>2, <2>2 DEF Types, ClientTypes
<1>6. CASE RunsResponse
  BY <1>1, <1>2, <1>6 DEF RunsResponse, Types, ClientTypes
<1>7. CASE RunsApply
  <2>1. shadow' \in Partial
    BY <1>7, HandleKeeps DEF RunsApply, Types, ClientTypes
  <2> QED BY <1>1, <1>2, <1>7, <2>1 DEF RunsApply, Types, ClientTypes
<1> QED BY <1>4, <1>5, <1>6, <1>7, RunCothreadDoes

\* Every step
LEMMA StepIs ==
  ASSUME ClientNext \/ UNCHANGED vars
  PROVE  \/ (BlockChanges \/ ServerStep) /\ UNCHANGED clientVars
         \/ StartClient \/ StopClient \/ ClientStarted \/ ClientStopped \/ WaitTimesOut \/ SyncProxy
         \/ \E p \in Puts : SendPut(p)
         \/ RunTornado \/ Connect
         \/ \E c \in Conns : ReadMessage(c) \/ ReadNone(c)
         \/ RunCothread \/ Lose
         \/ UNCHANGED vars
BY DEF ClientNext, Work, Call, ClientStep

LEMMA TypesKept ==
  ASSUME Types, AsksOnce, ClientNext \/ UNCHANGED vars PROVE Types'
<1>1. CASE UNCHANGED vars
  BY <1>1 DEF vars, serverVars, clientVars, Types, ServerTypes, ClientTypes
<1> QED BY <1>1, StepIs, ServerKeepsTypes, CothreadKeepsTypes, SendPutKeepsTypes,
           RunTornadoKeepsTypes, ConnectKeepsTypes, ReadMessageKeepsTypes, ReadNoneKeepsTypes,
           RunCothreadKeepsTypes, LoseKeepsTypes

--------------------------------------------------------------------------------
(***************************************************************************)
(* Connections are made in their order.                                    *)
(***************************************************************************)
LEMMA NothingIs ==
  ASSUME NEW S, NEW s \in Seq(S) PROVE s = << >> <=> Len(s) = 0
OBVIOUS

LEMMA GrowsMeets ==
  ASSUME Types, AreMet, NEW rs, Grows(rs), NEW c \in Conns, link[c] = "new"
  PROVE  down'[c] = << >>
<1>1. down[c] \in Seq(Responses) /\ down[c] = << >> /\ Len(down[c]) = 0 /\ down'[c] \in Seq(Responses)
  BY DEF Types, ServerTypes, AreMet, Grows
<1>2. \A i \in 1 .. Len(down'[c]) : i \in 1 .. Len(down[c])
  BY DEF Grows
<1>3. Len(down'[c]) \in Nat /\ (Len(down'[c]) # 0 => 1 \in 1 .. Len(down'[c]))
  BY <1>1
<1>4. 1 \notin 1 .. Len(down[c])
  BY <1>1
<1> QED BY <1>1, <1>2, <1>3, <1>4, NothingIs

LEMMA ServerMeets ==
  ASSUME Types, AsksOnce, AreMet, BlockChanges \/ ServerStep, UNCHANGED clientVars
  PROVE  AreMet'
<1>1. toTornado' = toTornado /\ conn' = conn /\ loops' = loops
  BY DEF clientVars
<1>2. ASSUME NEW rs, Grows(rs) PROVE \A c \in Conns : link[c] = "new" => down'[c] = << >>
  BY <1>2, GrowsMeets
<1>3. CASE BlockChanges
  <2>1. PICK change : Grows(DeltasOf(change)) /\ UNCHANGED <<link, up, owed, subs>>
    BY <1>3, BlockChangesDoes
  <2> QED BY <1>1, <1>2, <2>1 DEF AreMet
<1>4. ASSUME NEW c \in Conns, Handle(c) PROVE AreMet'
  <2>1. /\ up[c] # << >> /\ Head(up[c]) \in Asking /\ link' = link
        /\ up' = [up EXCEPT ![c] = Tail(up[c])]
    BY <1>4, HandleTakes
  <2>2. link[c] # "new"
    BY <2>1 DEF AreMet
  <2>3. \A d \in Conns : link[d] = "new" => up'[d] = << >>
    BY <2>1, <2>2 DEF AreMet, Types, ServerTypes
  <2>4. CASE Subscribe(c, Head(up[c]))
    <3>0. /\ subs' = subs \cup {Subscription(c, Head(up[c]).id, Head(up[c]).what)}
          /\ down' = down \/ \E rs : Grows(rs)
      BY <2>1, <2>4, SubscribeDoes
    <3>1. \A s \in subs' : s \in subs \/ s.conn = c
      BY <3>0 DEF Subscription
    <3>2. \A s \in subs' : link[s.conn] # "new"
      BY <2>2, <3>1 DEF AreMet
    <3>3. \A d \in Conns : link[d] = "new" => down'[d] = << >>
      BY <1>2, <3>0 DEF AreMet
    <3> QED BY <1>1, <2>1, <2>3, <3>2, <3>3 DEF AreMet
  <2>5. CASE Put(c, Head(up[c]))
    <3>1. subs' = subs /\ \E rs : Grows(rs)
      BY <2>1, <2>5, PutDoes
    <3>2. \A d \in Conns : link[d] = "new" => down'[d] = << >>
      BY <1>2, <3>1
    <3> QED BY <1>1, <2>1, <2>3, <3>1, <3>2 DEF AreMet
  <2> QED BY <1>4, <2>4, <2>5 DEF Handle
<1>5. CASE Answer
  <2>1. PICK r \in owed : Grows({r}) /\ UNCHANGED <<link, up, remote, subs, changes>>
    BY <1>5, AnswerDoes
  <2> QED BY <1>1, <1>2, <2>1 DEF AreMet
<1>6. CASE Forget
  <2>1. PICK s \in subs : subs' = subs \ {s}
    BY <1>6 DEF Forget
  <2>2. UNCHANGED <<link, up, down, owed, remote, changes>>
    BY <1>6 DEF Forget
  <2> QED BY <1>1, <2>1, <2>2 DEF AreMet
<1> QED BY <1>3, <1>4, <1>5, <1>6 DEF ServerStep

\* A connection that was there is closed.
LEMMA ClosesMeets ==
  ASSUME Types, AreMet, NEW c \in Conns, link[c] # "new", Closes(c),
         \A d \in Conns : up'[d] = up[d] \/ up'[d] = << >>
  PROVE  /\ \A d \in Conns : link'[d] = "new" <=> link[d] = "new"
         /\ \A d, e \in Conns : link'[d] = "new" /\ d <= e => link'[e] = "new"
         /\ \A d \in Conns : link'[d] = "new" => up'[d] = << >> /\ down'[d] = << >>
<1>1. \A d \in Conns : link'[d] = "new" <=> link[d] = "new"
  BY ClosesDoes DEF Types, ServerTypes
<1>2. \A d \in Conns : link[d] = "new" => down'[d] = down[d]
  BY ClosesDoes
<1> QED BY <1>1, <1>2 DEF AreMet

LEMMA TornadoMeets ==
  ASSUME Types, AreMet, RunTornado
  PROVE  AreMet'
<1>1. /\ toTornado # << >> /\ toTornado' = Tail(toTornado) /\ toTornado \in Seq(ToTornado)
      /\ (RunsRecv \/ RunsClose \/ RunsSend)
      /\ UNCHANGED <<subs, conn, loops>>
  BY RunTornadoDoes DEF Types, ClientTypes
<1>2. Head(toTornado) = toTornado[1] /\ 1 \in 1 .. Len(toTornado)
      /\ \A i \in 1 .. Len(toTornado') : i + 1 \in 1 .. Len(toTornado) /\ toTornado'[i] = toTornado[i + 1]
  BY <1>1, TailItems
<1>3. \A i \in 1 .. Len(toTornado') : toTornado'[i].do = "close" => link[toTornado'[i].conn] # "new"
                                      /\ toTornado'[i].conn \in Conns
  BY <1>2 DEF AreMet
<1>4. CASE RunsRecv
  BY <1>1, <1>3, <1>4 DEF RunsRecv, AreMet
<1>5. CASE RunsClose
  <2>1. link[Head(toTornado).conn] # "new"
    BY <1>2, <1>5 DEF RunsClose, AreMet
  <2>2. /\ \A d \in Conns : link'[d] = "new" <=> link[d] = "new"
        /\ \A d, e \in Conns : link'[d] = "new" /\ d <= e => link'[e] = "new"
        /\ \A d \in Conns : link'[d] = "new" => up'[d] = << >> /\ down'[d] = << >>
    BY <1>5, <2>1, ClosesMeets DEF RunsClose
  <2> QED BY <1>1, <1>3, <2>2 DEF AreMet, Types, ServerTypes, ClientTypes, Subscriptions
<1>6. CASE RunsSend
  <2>1. /\ link' = link /\ down' = down
        /\ \/ up' = up
           \/ conn \in Conns /\ \A d \in Conns : d # conn => up'[d] = up[d]
    BY <1>6, SendDoes DEF RunsSend
  <2>2. conn \in Conns => conn # None /\ link[conn] # "new"
    BY NamesDiffer DEF AreMet
  <2>3. \A d \in Conns : link[d] = "new" => up'[d] = up[d]
    BY <2>1, <2>2
  <2> QED BY <1>1, <1>3, <2>1, <2>3 DEF AreMet
<1> QED BY <1>1, <1>4, <1>5, <1>6

LEMMA TornadoAdded ==
  ASSUME Types, NEW call \in ToTornado, CallTornado(call)
  PROVE  Added(toTornado', toTornado, call)
<1>1. toTornado \in Seq(ToTornado) /\ toTornado' = Append(toTornado, call)
  BY DEF Types, ClientTypes, CallTornado
<1> QED BY <1>1, AddedIs

LEMMA ItemTaken ==
  ASSUME Types, items # << >>, items' = Tail(items)
  PROVE  Taken(items', items) /\ Head(items) = items[1]
<1>1. items \in Seq([do : {"connected", "fault"}, conn : Conns])
  BY DEF Types, ClientTypes
<1> QED BY <1>1, TailItems, TakenIs

\* What cothreads that begin, end or wait do
LEMMA StartDoes ==
  ASSUME Types, StartClient
  PROVE  /\ state \in {"Disabled", "Fault"} /\ "start" \notin waits
         /\ \/ /\ conn = None /\ state' = "Resetting" /\ waits' = waits \cup {"start"}
               /\ Added(toTornado', toTornado, [do |-> "recv"])
            \/ conn # None /\ state' = "Ready" /\ UNCHANGED <<waits, toTornado>>
         /\ UNCHANGED <<link, up, down, owed, remote, subs, changes, items, conn, dialing, loops, lookup,
                        nextId, toCothread, answer, proxy, shadow, stale>>
<1>1. [do |-> "recv"] \in ToTornado
  BY DEF ToTornado
<1>2. CallTornado([do |-> "recv"]) => Added(toTornado', toTornado, [do |-> "recv"])
  BY <1>1, TornadoAdded
<1> QED BY <1>2 DEF StartClient, serverVars

LEMMA StopDoes ==
  ASSUME Types, StopClient
  PROVE  /\ state \in {"Resetting", "Ready", "Fault"} /\ "stop" \notin waits
         /\ \/ conn = None /\ state' = "Disabled" /\ UNCHANGED <<waits, toTornado>>
            \/ /\ conn \in Conns /\ state' = "Disabling" /\ waits' = waits \cup {"stop"}
               /\ Added(toTornado', toTornado, [do |-> "close", conn |-> conn])
         /\ UNCHANGED <<link, up, down, owed, remote, subs, changes, items, conn, dialing, loops, lookup,
                        nextId, toCothread, answer, proxy, shadow, stale>>
<1>1. conn # None => conn \in Conns /\ [do |-> "close", conn |-> conn] \in ToTornado
  BY DEF ToTornado, Types, ClientTypes
<1>2. conn # None /\ CallTornado([do |-> "close", conn |-> conn]) =>
        Added(toTornado', toTornado, [do |-> "close", conn |-> conn])
  BY <1>1, TornadoAdded
<1> QED BY <1>1, <1>2 DEF StopClient, serverVars

LEMMA StartedDoes ==
  ASSUME Types, ClientStarted
  PROVE  /\ GetItem("start", "connected") /\ Taken(items', items) /\ Head(items) = items[1]
         /\ Added(toTornado', toTornado, Send(Blocks))
         /\ state' = IF state = "Resetting" THEN "Ready" ELSE ErrorState
         /\ UNCHANGED <<link, up, down, owed, remote, subs, changes, conn, dialing, loops, lookup,
                        nextId, toCothread, answer, proxy, shadow>>
<1>1. Added(toTornado', toTornado, Send(Blocks))
  BY SendIs, TornadoAdded DEF ClientStarted
<1>2. Taken(items', items) /\ Head(items) = items[1]
  BY ItemTaken DEF ClientStarted, GetItem
<1> QED BY <1>1, <1>2 DEF ClientStarted, serverVars

LEMMA StoppedDoes ==
  ASSUME Types, ClientStopped
  PROVE  /\ GetItem("stop", "fault") /\ Taken(items', items) /\ Head(items) = items[1]
         /\ conn' = None
         /\ state' = IF state = "Disabling" THEN "Disabled" ELSE ErrorState
         /\ UNCHANGED <<link, up, down, owed, remote, subs, changes, dialing, loops, lookup,
                        nextId, toTornado, toCothread, answer, proxy, shadow>>
<1>1. Taken(items', items) /\ Head(items) = items[1]
  BY ItemTaken DEF ClientStopped, GetItem
<1> QED BY <1>1 DEF ClientStopped, serverVars

LEMMA TimesOutDoes ==
  ASSUME Types, WaitTimesOut
  PROVE  /\ items = << >> /\ ~Coming /\ state' = ErrorState
         /\ \E who \in waits : waits' = waits \ {who}
         /\ UNCHANGED <<link, up, down, owed, remote, subs, changes, items, conn, dialing, loops, lookup,
                        nextId, toTornado, toCothread, answer, proxy, shadow, stale>>
BY DEF WaitTimesOut, serverVars

LEMMA SyncDoes ==
  ASSUME Types, SyncProxy
  PROVE  /\ proxy = "none" /\ state = "Ready" /\ proxy' = "waiting"
         /\ Added(toTornado', toTornado, Send([what |-> "block"]))
         /\ UNCHANGED <<link, up, down, owed, remote, subs, changes, state, waits, items, conn, dialing,
                        loops, lookup, nextId, toCothread, answer, shadow, stale>>
<1>1. Added(toTornado', toTornado, Send([what |-> "block"]))
  BY SendIs, TornadoAdded DEF SyncProxy
<1> QED BY <1>1 DEF SyncProxy, serverVars

LEMMA SendPutDoes ==
  ASSUME Types, NEW p \in Puts, SendPut(p)
  PROVE  /\ \E f \in Known : Added(toTornado', toTornado, Send([what |-> "put", field |-> f, by |-> p]))
         /\ UNCHANGED <<link, up, down, owed, remote, subs, changes, state, waits, items, conn, dialing,
                        loops, lookup, nextId, toCothread, proxy, shadow, stale>>
<1>1. PICK f \in DOMAIN shadow : CallTornado(Send([what |-> "put", field |-> f, by |-> p]))
  BY DEF SendPut
<1>2. f \in Known
  BY DEF Types, ClientTypes, Partial
<1>3. Added(toTornado', toTornado, Send([what |-> "put", field |-> f, by |-> p]))
  BY <1>1, <1>2, SendIs, TornadoAdded
<1> QED BY <1>2, <1>3 DEF SendPut, serverVars

--------------------------------------------------------------------------------
LEMMA CothreadMeets ==
  ASSUME Types, AreMet, StartClient \/ StopClient \/ ClientStarted \/ ClientStopped
                          \/ WaitTimesOut \/ SyncProxy
  PROVE  AreMet'
<1>1. ASSUME NEW call, Added(toTornado', toTornado, call), call.do # "close" \/ call.conn = conn,
             conn \in Conns \/ call.do # "close", UNCHANGED <<link, up, down, subs, conn, loops>>
      PROVE  AreMet'
  <2>1. \A i \in 1 .. Len(toTornado') : toTornado'[i].do = "close" =>
          toTornado'[i].conn \in Conns /\ link[toTornado'[i].conn] # "new"
    BY <1>1, NamesDiffer DEF AreMet, Added
  <2> QED BY <1>1, <2>1 DEF AreMet
<1>2. ASSUME UNCHANGED <<link, up, down, subs, loops, toTornado>>, conn' = conn \/ conn' = None
      PROVE  AreMet'
  BY <1>2 DEF AreMet
<1>3. CASE StartClient
  BY <1>1, <1>2, <1>3, StartDoes
<1>4. CASE StopClient
  BY <1>1, <1>2, <1>4, StopDoes
<1>5. CASE ClientStarted
  <2>1. Send(Blocks).do # "close"
    BY DEF Send
  <2> QED BY <1>1, <1>5, <2>1, StartedDoes
<1>6. CASE ClientStopped
  BY <1>2, <1>6, StoppedDoes
<1>7. CASE WaitTimesOut
  BY <1>2, <1>7, TimesOutDoes
<1>8. CASE SyncProxy
  <2>1. Send([what |-> "block"]).do # "close"
    BY DEF Send
  <2> QED BY <1>1, <1>8, <2>1, SyncDoes
<1> QED BY <1>3, <1>4, <1>5, <1>6, <1>7, <1>8

LEMMA SendPutMeets ==
  ASSUME Types, AreMet, NEW p \in Puts, SendPut(p)
  PROVE  AreMet'
<1>1. PICK f \in Known : Added(toTornado', toTornado, Send([what |-> "put", field |-> f, by |-> p]))
  BY SendPutDoes
<1>2. UNCHANGED <<link, up, down, subs, conn, loops>>
  BY SendPutDoes
<1>3. Send([what |-> "put", field |-> f, by |-> p]).do # "close"
  BY DEF Send
<1>4. \A i \in 1 .. Len(toTornado') : toTornado'[i].do = "close" =>
        toTornado'[i].conn \in Conns /\ link[toTornado'[i].conn] # "new"
  BY <1>1, <1>3 DEF AreMet, Added
<1> QED BY <1>2, <1>4 DEF AreMet

LEMMA ConnectMeets ==
  ASSUME Types, AreMet, Connect
  PROVE  AreMet'
<1>1. UNCHANGED <<up, down, subs, toTornado>>
  BY ConnectDoes
<1>2. ASSUME NEW c \in Conns, Makes(c) PROVE AreMet'
  <2>1. /\ \A d \in Conns : link[d] = "new" <=> d >= c
        /\ link' = [link EXCEPT ![c] = "open"] /\ conn' = c /\ loops' = loops \cup {c}
    BY <1>2, MakesDoes
  <2>2. \A d \in Conns : link'[d] = "new" <=> link[d] = "new" /\ d # c
    BY <2>1 DEF Types, ServerTypes
  <2>3. \A d, e \in Conns : link'[d] = "new" /\ d <= e => link'[e] = "new"
    BY <2>1, <2>2, NamesDiffer
  <2>4. \A s \in subs : s.conn \in Conns
    BY DEF Types, ServerTypes, Subscriptions
  <2>5. loops \in SUBSET Conns
    BY DEF Types, ClientTypes
  <2> QED BY <1>1, <2>1, <2>2, <2>3, <2>4, <2>5 DEF AreMet
<1>3. CASE UNCHANGED <<link, conn, loops, toCothread>>
  BY <1>1, <1>3 DEF AreMet
<1> QED BY <1>2, <1>3, ConnectDoes

LEMMA ReadMessageMeets ==
  ASSUME Types, AreMet, NEW c \in Conns, ReadMessage(c)
  PROVE  AreMet'
<1>1. /\ down[c] # << >> /\ \A d \in Conns : d # c => down'[d] = down[d]
      /\ loops' \in SUBSET loops
      /\ UNCHANGED <<link, up, subs, conn, toTornado>>
  BY ReadMessageDoes
<1> QED BY <1>1 DEF AreMet

LEMMA ReadNoneMeets ==
  ASSUME Types, AreMet, NEW c \in Conns, ReadNone(c)
  PROVE  AreMet'
<1>1. conn' = None /\ loops' \in SUBSET loops /\ UNCHANGED <<link, up, down, subs, toTornado>>
  BY ReadNoneDoes
<1> QED BY <1>1 DEF AreMet

LEMMA LoseMeets ==
  ASSUME Types, AreMet, Lose
  PROVE  AreMet'
<1>1. PICK c \in Conns :
        /\ link[c] = "open" /\ Closes(c) /\ up' = [up EXCEPT ![c] = << >>]
        /\ UNCHANGED <<subs, conn, loops, toTornado>>
  BY LoseDoes
<1>2. \A d \in Conns : up'[d] = up[d] \/ up'[d] = << >>
  BY <1>1 DEF Types, ServerTypes
<1>3. /\ \A d \in Conns : link'[d] = "new" <=> link[d] = "new"
      /\ \A d, e \in Conns : link'[d] = "new" /\ d <= e => link'[e] = "new"
      /\ \A d \in Conns : link'[d] = "new" => up'[d] = << >> /\ down'[d] = << >>
  BY <1>1, <1>2, ClosesMeets
<1> QED BY <1>1, <1>3 DEF AreMet, Types, ServerTypes, ClientTypes, Subscriptions

LEMMA MetKept ==
  ASSUME Types, AsksOnce, AreMet, ClientNext \/ UNCHANGED vars PROVE AreMet'
<1>1. CASE UNCHANGED vars
  BY <1>1 DEF vars, serverVars, clientVars, AreMet
<1>2. CASE RunCothread
  <2>1. UNCHANGED <<link, up, down, subs, conn, loops, toTornado>>
    BY <1>2, RunCothreadDoes
  <2> QED BY <2>1 DEF AreMet
<1> QED BY <1>1, <1>2, StepIs, ServerMeets, CothreadMeets, SendPutMeets,
           TornadoMeets, ConnectMeets, ReadMessageMeets, ReadNoneMeets, LoseMeets

--------------------------------------------------------------------------------
(***************************************************************************)
(* The proxy asks once.                                                    *)
(***************************************************************************)
LEMMA AsksLess ==
  ASSUME AsksOnce, proxy' = "none" => proxy = "none", NoneSent => NoneSent', NoneAsked => NoneAsked',
         NoneServed => NoneServed', NoneServed /\ NothingTold => NothingTold',
         SentOnce', AskedOnce', ServedOnce'
  PROVE  AsksOnce'
BY DEF AsksOnce

LEMMA SentTaken ==
  ASSUME AsksOnce, Taken(toTornado', toTornado)
  PROVE  (NoneSent => NoneSent') /\ SentOnce' /\ (SendsBlock(toTornado[1]) => NoneSent')
<1>1. NoneSent => NoneSent'
  BY DEF NoneSent, Taken
<1>2. SentOnce'
  <2> SUFFICES ASSUME NEW i \in 1 .. Len(toTornado'), NEW j \in 1 .. Len(toTornado'),
                      SendsBlock(toTornado'[i]), SendsBlock(toTornado'[j])
               PROVE  i = j
    BY DEF SentOnce, SendsBlock
  <2>1. i + 1 \in 1 .. Len(toTornado) /\ j + 1 \in 1 .. Len(toTornado)
        /\ SendsBlock(toTornado[i + 1]) /\ SendsBlock(toTornado[j + 1])
    BY DEF Taken
  <2>2. i + 1 = j + 1
    BY <2>1 DEF AsksOnce, SentOnce
  <2>3. i \in Nat /\ j \in Nat
    OBVIOUS
  <2> QED BY <2>2, <2>3
<1>3. ASSUME SendsBlock(toTornado[1]) PROVE NoneSent'
  <2> SUFFICES ASSUME NEW i \in 1 .. Len(toTornado'), SendsBlock(toTornado'[i]) PROVE FALSE
    BY DEF NoneSent, SendsBlock
  <2>1. i + 1 \in 1 .. Len(toTornado) /\ 1 \in 1 .. Len(toTornado) /\ SendsBlock(toTornado[i + 1])
    BY DEF Taken
  <2>2. i + 1 = 1
    BY <1>3, <2>1 DEF AsksOnce, SentOnce
  <2> QED BY <2>2
<1> QED BY <1>1, <1>2, <1>3

LEMMA SentAdded ==
  ASSUME AsksOnce, NEW call, Added(toTornado', toTornado, call), ~SendsBlock(call) \/ NoneSent
  PROVE  (~SendsBlock(call) /\ NoneSent => NoneSent') /\ SentOnce'
<1>1. ASSUME NEW i \in 1 .. Len(toTornado'), SendsBlock(toTornado'[i])
      PROVE  \/ i \in 1 .. Len(toTornado) /\ SendsBlock(toTornado[i])
             \/ i = Len(toTornado) + 1 /\ SendsBlock(call)
  BY <1>1 DEF Added
<1>2. ~SendsBlock(call) /\ NoneSent => NoneSent'
  BY <1>1 DEF NoneSent, SendsBlock
<1>3. SentOnce'
  <2> SUFFICES ASSUME NEW i \in 1 .. Len(toTornado'), NEW j \in 1 .. Len(toTornado'),
                      SendsBlock(toTornado'[i]), SendsBlock(toTornado'[j])
               PROVE  i = j
    BY DEF SentOnce, SendsBlock
  <2> QED BY <1>1 DEF AsksOnce, SentOnce, NoneSent
<1> QED BY <1>2, <1>3

LEMMA SentSame ==
  ASSUME AsksOnce, toTornado' = toTornado
  PROVE  (NoneSent => NoneSent') /\ SentOnce'
BY DEF AsksOnce, NoneSent, SentOnce, SendsBlock

\* Requests on a connection: the same, none, one taken, or one more
LEMMA AskedSame ==
  ASSUME AsksOnce, up' = up
  PROVE  (NoneAsked => NoneAsked') /\ AskedOnce'
BY DEF AsksOnce, NoneAsked, AskedOnce

LEMMA AskedLess ==
  ASSUME AsksOnce, NEW c \in Conns, Taken(up'[c], up[c]) \/ Len(up'[c]) = 0,
         \A d \in Conns : d # c => up'[d] = up[d]
  PROVE  /\ (NoneAsked => NoneAsked') /\ AskedOnce'
         /\ Taken(up'[c], up[c]) /\ up[c][1].what = "block" => NoneAsked'
<1> DEFINE shift(d) == IF d = c THEN 1 ELSE 0
<1>1. ASSUME NEW d \in Conns, NEW i \in 1 .. Len(up'[d])
      PROVE  i + shift(d) \in 1 .. Len(up[d]) /\ up'[d][i] = up[d][i + shift(d)] /\ i \in Nat
  <2>1. CASE d = c /\ Len(up'[c]) = 0
    BY <2>1
  <2>2. CASE d = c /\ Taken(up'[c], up[c])
    BY <2>2 DEF Taken
  <2>3. CASE d # c
    BY <2>3
  <2> QED BY <2>1, <2>2, <2>3
<1>2. \A d \in Conns : shift(d) \in {0, 1} /\ shift(c) = 1
  OBVIOUS
<1> HIDE DEF shift
<1>3. NoneAsked => NoneAsked'
  BY <1>1 DEF NoneAsked
<1>4. AskedOnce'
  <2> SUFFICES ASSUME NEW d \in Conns, NEW e \in Conns, NEW i \in 1 .. Len(up'[d]), NEW j \in 1 .. Len(up'[e]),
                      up'[d][i].what = "block", up'[e][j].what = "block"
               PROVE  d = e /\ i = j
    BY DEF AskedOnce
  <2>1. /\ i + shift(d) \in 1 .. Len(up[d]) /\ j + shift(e) \in 1 .. Len(up[e])
        /\ up[d][i + shift(d)].what = "block" /\ up[e][j + shift(e)].what = "block"
        /\ i \in Nat /\ j \in Nat
    BY <1>1
  <2>2. d = e /\ i + shift(d) = j + shift(e)
    BY <2>1 DEF AsksOnce, AskedOnce
  <2> QED BY <1>2, <2>1, <2>2
<1>5. ASSUME Taken(up'[c], up[c]), up[c][1].what = "block" PROVE NoneAsked'
  <2> SUFFICES ASSUME NEW d \in Conns, NEW i \in 1 .. Len(up'[d]), up'[d][i].what = "block" PROVE FALSE
    BY DEF NoneAsked
  <2>1. i + shift(d) \in 1 .. Len(up[d]) /\ up[d][i + shift(d)].what = "block" /\ i \in Nat /\ i # 0
    BY <1>1
  <2>2. 1 \in 1 .. Len(up[c])
    BY <1>5 DEF Taken
  <2>3. d = c /\ i + shift(d) = 1
    BY <1>5, <2>1, <2>2 DEF AsksOnce, AskedOnce
  <2> QED BY <1>2, <2>1, <2>3
<1> QED BY <1>3, <1>4, <1>5

LEMMA AskedMore ==
  ASSUME AsksOnce, NEW c \in Conns, NEW q, Added(up'[c], up[c], q),
         \A d \in Conns : d # c => up'[d] = up[d], q.what # "block" \/ NoneAsked
  PROVE  (q.what # "block" /\ NoneAsked => NoneAsked') /\ AskedOnce'
<1>1. ASSUME NEW d \in Conns, NEW i \in 1 .. Len(up'[d]), up'[d][i].what = "block"
      PROVE  \/ i \in 1 .. Len(up[d]) /\ up[d][i].what = "block"
             \/ d = c /\ i = Len(up[c]) + 1 /\ q.what = "block"
  <2>1. CASE d = c
    BY <1>1, <2>1 DEF Added
  <2>2. CASE d # c
    BY <1>1, <2>2
  <2> QED BY <2>1, <2>2
<1>2. q.what # "block" /\ NoneAsked => NoneAsked'
  BY <1>1 DEF NoneAsked
<1>3. AskedOnce'
  <2> SUFFICES ASSUME NEW d \in Conns, NEW e \in Conns, NEW i \in 1 .. Len(up'[d]), NEW j \in 1 .. Len(up'[e]),
                      up'[d][i].what = "block", up'[e][j].what = "block"
               PROVE  d = e /\ i = j
    BY DEF AskedOnce
  <2> QED BY <1>1 DEF AsksOnce, AskedOnce, NoneAsked
<1> QED BY <1>2, <1>3

LEMMA ServedLess ==
  ASSUME AsksOnce, subs' \in SUBSET subs
  PROVE  (NoneServed => NoneServed') /\ ServedOnce'
BY DEF AsksOnce, NoneServed, ServedOnce

\* Of what is told there is no Delta unless somebody is served.
LEMMA ToldGrows ==
  ASSUME NothingTold, NEW rs, Grows(rs), \A r \in rs : r.what # "delta", UNCHANGED <<toCothread, shadow>>
  PROVE  NothingTold'
<1>1. ASSUME NEW c \in Conns, NEW i \in 1 .. Len(down'[c]) PROVE down'[c][i].what # "delta"
  BY <1>1 DEF Grows, NothingTold
<1> QED BY <1>1 DEF NothingTold, Brings, Applies

LEMMA ToldLess ==
  ASSUME NothingTold, UNCHANGED <<toCothread, shadow>>,
         \A c \in Conns : \A i \in 1 .. Len(down'[c]) :
           \E j \in 1 .. Len(down[c]) : down'[c][i] = down[c][j]
  PROVE  NothingTold'
<1>1. ASSUME NEW c \in Conns, NEW i \in 1 .. Len(down'[c]) PROVE down'[c][i].what # "delta"
  BY <1>1 DEF NothingTold
<1> QED BY <1>1 DEF NothingTold, Brings, Applies

LEMMA DeltasSilent ==
  ASSUME NoneServed, NEW change PROVE DeltasOf(change) = {}
BY DEF NoneServed, DeltasOf

LEMMA ServerAsks ==
  ASSUME Types, AsksOnce, BlockChanges \/ ServerStep, UNCHANGED clientVars
  PROVE  AsksOnce'
<1>1. proxy' = proxy /\ UNCHANGED <<toCothread, shadow>> /\ toTornado' = toTornado
  BY DEF clientVars
<1>2. (NoneSent => NoneSent') /\ SentOnce'
  BY <1>1, SentSame
<1>3. ASSUME NEW change, Grows(DeltasOf(change)) PROVE NoneServed /\ NothingTold => NothingTold'
  BY <1>1, <1>3, DeltasSilent, ToldGrows
<1>4. CASE BlockChanges
  <2>1. PICK change : Grows(DeltasOf(change)) /\ UNCHANGED <<link, up, owed, subs>>
    BY <1>4, BlockChangesDoes
  <2> QED BY <1>1, <1>2, <1>3, <2>1, AskedSame, ServedLess, AsksLess
<1>5. ASSUME NEW c \in Conns, Handle(c) PROVE AsksOnce'
  <2> DEFINE r == Head(up[c])
  <2>1. /\ r \in Asking /\ r = up[c][1] /\ Taken(up'[c], up[c]) /\ \A d \in Conns : d # c => up'[d] = up[d]
        /\ link' = link
    BY <1>5, HandleTakes
  <2> HIDE DEF r
  <2>2. /\ (NoneAsked => NoneAsked') /\ AskedOnce' /\ (r.what = "block" => NoneAsked')
    BY <2>1, AskedLess
  <2>3. CASE Subscribe(c, r)
    <3>1. /\ r.what \in {"blocks", "block"}
          /\ subs' = subs \cup {Subscription(c, r.id, r.what)}
          /\ r.what = "blocks" => down' = down
      BY <2>1, <2>3, SubscribeDoes
    <3>2. Subscription(c, r.id, r.what).of = r.what
      BY DEF Subscription
    <3>3. CASE r.what = "blocks"
      <4>1. (NoneServed => NoneServed') /\ ServedOnce'
        BY <3>1, <3>2, <3>3 DEF AsksOnce, NoneServed, ServedOnce
      <4>2. NothingTold => NothingTold'
        BY <1>1, <3>1, <3>3 DEF NothingTold, Brings, Applies
      <4> QED BY <1>1, <1>2, <2>2, <4>1, <4>2, AsksLess
    <3>4. CASE r.what = "block"
      <4>1. ~NoneAsked
        <5>1. 1 \in 1 .. Len(up[c])
          BY <2>1 DEF Taken
        <5> QED BY <2>1, <3>4, <5>1 DEF NoneAsked
      <4>2. proxy # "none" /\ NoneSent /\ NoneServed
        BY <4>1 DEF AsksOnce
      <4>3. ServedOnce'
        BY <3>1, <3>2, <4>2 DEF NoneServed, ServedOnce
      <4> QED BY <1>1, <1>2, <2>2, <3>4, <4>2, <4>3 DEF AsksOnce
    <3> QED BY <3>1, <3>3, <3>4
  <2>4. CASE Put(c, r)
    <3>1. /\ subs' = subs
          /\ \E change : Grows(DeltasOf(change)) \/ Grows(DeltasOf(change) \cup {ReturnOf(c, r)})
      BY <2>1, <2>4, PutDoes
    <3>2. NoneServed /\ NothingTold => NothingTold'
      <4>1. \A q \in {ReturnOf(c, r)} : q.what # "delta"
        BY DEF ReturnOf, Response
      <4>2. ASSUME NEW change, NoneServed PROVE DeltasOf(change) \cup {ReturnOf(c, r)} = {ReturnOf(c, r)}
        BY <4>2, DeltasSilent
      <4>3. Grows({ReturnOf(c, r)}) /\ NothingTold => NothingTold'
        BY <1>1, <4>1, ToldGrows
      <4> QED BY <1>3, <3>1, <4>2, <4>3
    <3> QED BY <1>1, <1>2, <2>2, <3>1, <3>2, ServedLess, AsksLess
  <2> QED BY <1>5, <2>3, <2>4 DEF Handle, r
<1>6. CASE Answer
  <2>1. PICK r \in owed : r.what = "return" /\ Grows({r}) /\ UNCHANGED <<link, up, remote, subs, changes>>
    BY <1>6, AnswerDoes
  <2>2. NothingTold => NothingTold'
    BY <1>1, <2>1, ToldGrows
  <2> QED BY <1>1, <1>2, <2>1, <2>2, AskedSame, ServedLess, AsksLess
<1>7. CASE Forget
  <2>1. subs' \in SUBSET subs /\ UNCHANGED <<link, up, down, owed, remote, changes>>
    BY <1>7 DEF Forget
  <2>2. NothingTold => NothingTold'
    BY <1>1, <2>1 DEF NothingTold, Brings, Applies
  <2> QED BY <1>1, <1>2, <2>1, <2>2, AskedSame, ServedLess, AsksLess
<1> QED BY <1>4, <1>5, <1>6, <1>7 DEF ServerStep

LEMMA ToldSame ==
  ASSUME UNCHANGED <<down, toCothread, shadow>>
  PROVE  NothingTold => NothingTold'
BY DEF NothingTold, Brings, Applies

LEMMA CothreadAsks ==
  ASSUME Types, AsksOnce, \/ StartClient \/ StopClient \/ ClientStarted \/ ClientStopped
                          \/ WaitTimesOut \/ \E p \in Puts : SendPut(p)
  PROVE  AsksOnce'
<1>1. /\ proxy' = proxy /\ UNCHANGED <<up, subs, down, toCothread, shadow>>
      /\ \/ toTornado' = toTornado
         \/ \E call : Added(toTornado', toTornado, call) /\ ~SendsBlock(call)
  <2>1. ~SendsBlock([do |-> "recv"])
    BY DEF SendsBlock
  <2>2. ~SendsBlock([do |-> "close", conn |-> conn])
    BY DEF SendsBlock
  <2>3. ~SendsBlock(Send(Blocks))
    BY DEF SendsBlock, Send, Blocks
  <2>4. \A f, p : ~SendsBlock(Send([what |-> "put", field |-> f, by |-> p]))
    BY DEF SendsBlock, Send
  <2>5. CASE StartClient
    BY <2>1, <2>5, StartDoes
  <2>6. CASE StopClient
    BY <2>2, <2>6, StopDoes
  <2>7. CASE ClientStarted
    BY <2>3, <2>7, StartedDoes
  <2>8. CASE ClientStopped
    BY <2>8, StoppedDoes
  <2>9. CASE WaitTimesOut
    BY <2>9, TimesOutDoes
  <2>10. CASE \E p \in Puts : SendPut(p)
    BY <2>4, <2>10, SendPutDoes
  <2> QED BY <2>5, <2>6, <2>7, <2>8, <2>9, <2>10
<1>2. (NoneSent => NoneSent') /\ SentOnce'
  BY <1>1, SentSame, SentAdded
<1> QED BY <1>1, <1>2, AskedSame, ServedLess, ToldSame, AsksLess

LEMMA SyncAsks ==
  ASSUME Types, AsksOnce, SyncProxy
  PROVE  AsksOnce'
<1>1. /\ proxy = "none" /\ proxy' = "waiting"
      /\ Added(toTornado', toTornado, Send([what |-> "block"]))
      /\ UNCHANGED <<up, subs, down, toCothread, shadow>>
  BY SyncDoes
<1>2. NoneSent /\ NoneAsked /\ NoneServed /\ NothingTold
  BY <1>1 DEF AsksOnce
<1>3. SentOnce'
  BY <1>1, <1>2, SentAdded
<1>4. NoneAsked' /\ AskedOnce' /\ NoneServed' /\ ServedOnce' /\ NothingTold'
  BY <1>1, <1>2, AskedSame, ServedLess, ToldSame
<1> QED BY <1>1, <1>3, <1>4 DEF AsksOnce

LEMMA ToldClosed ==
  ASSUME Types, NEW c \in Conns, Closes(c), UNCHANGED <<toCothread, shadow>>
  PROVE  NothingTold => NothingTold'
<1>1. \A d \in Conns : \A i \in 1 .. Len(down'[d]) : \E j \in 1 .. Len(down[d]) : down'[d][i] = down[d][j]
  BY ClosesDoes
<1> QED BY <1>1, ToldLess

LEMMA TornadoAsks ==
  ASSUME Types, AsksOnce, RunTornado
  PROVE  AsksOnce'
<1>1. /\ Head(toTornado) = toTornado[1] /\ Taken(toTornado', toTornado)
      /\ (RunsRecv \/ RunsClose \/ RunsSend)
      /\ UNCHANGED <<subs, toCothread, proxy, shadow>>
  BY RunTornadoDoes
<1>2. (NoneSent => NoneSent') /\ SentOnce' /\ (SendsBlock(toTornado[1]) => NoneSent')
  BY <1>1, SentTaken
<1>3. CASE RunsRecv
  BY <1>1, <1>2, <1>3, AskedSame, ServedLess, ToldSame, AsksLess DEF RunsRecv
<1>4. CASE RunsClose
  <2>1. up' = up /\ \E c \in Conns : Closes(c)
    BY <1>4 DEF RunsClose
  <2> QED BY <1>1, <1>2, <2>1, AskedSame, ServedLess, ToldClosed, AsksLess
<1>5. CASE RunsSend
  <2> DEFINE request == Head(toTornado).request
  <2>1. Head(toTornado).do = "send" /\ request \in Sending /\ SendRequest(request)
    BY <1>5 DEF RunsSend
  <2>2. request.what = "block" => SendsBlock(toTornado[1])
    BY <1>1, <2>1 DEF SendsBlock
  <2> HIDE DEF request
  <2>3. /\ down' = down
        /\ \/ up' = up
           \/ /\ conn \in Conns /\ WithId(request) \in Asking
              /\ Added(up'[conn], up[conn], WithId(request))
              /\ \A d \in Conns : d # conn => up'[d] = up[d]
    BY <2>1, SendDoes
  <2>4. WithId(request).what = request.what
    BY <2>1, RequestIs DEF Types, ClientTypes
  <2>5. (NoneServed => NoneServed') /\ ServedOnce' /\ (NothingTold => NothingTold')
    BY <1>1, <2>3, ServedLess, ToldSame
  <2>6. CASE request.what # "block"
    <3>1. (NoneAsked => NoneAsked') /\ AskedOnce'
      BY <2>3, <2>4, <2>6, AskedSame, AskedMore
    <3> QED BY <1>1, <1>2, <2>5, <3>1, AsksLess
  <2>7. CASE request.what = "block"
    <3>1. 1 \in 1 .. Len(toTornado)
      BY <1>1 DEF Taken
    <3>2. ~NoneSent
      BY <2>2, <2>7, <3>1 DEF NoneSent
    <3>3. proxy # "none" /\ NoneAsked /\ NoneServed /\ NothingTold
      BY <3>2 DEF AsksOnce
    <3>4. AskedOnce'
      BY <2>3, <3>3, AskedSame, AskedMore
    <3> QED BY <1>1, <1>2, <2>2, <2>5, <2>7, <3>3, <3>4 DEF AsksOnce
  <2> QED BY <2>6, <2>7
<1> QED BY <1>1, <1>3, <1>4, <1>5

LEMMA ConnectAsks ==
  ASSUME Types, AsksOnce, Connect
  PROVE  AsksOnce'
<1>1. /\ UNCHANGED <<up, down, subs, toTornado, proxy, shadow>>
      /\ toCothread' = toCothread \/ \E c : Added(toCothread', toCothread, [do |-> "connected", conn |-> c])
  BY ConnectDoes, MakesDoes
<1>2. NothingTold => NothingTold'
  <2>1. \A c : LET call == [do |-> "connected", conn |-> c] IN ~Brings(call) /\ ~Applies(call)
    BY DEF Brings, Applies
  <2>2. ASSUME NothingTold, NEW i \in 1 .. Len(toCothread') PROVE ~Brings(toCothread'[i]) /\ ~Applies(toCothread'[i])
    BY <1>1, <2>1, <2>2 DEF NothingTold, Added
  <2> QED BY <1>1, <2>2 DEF NothingTold, Brings, Applies
<1> QED BY <1>1, <1>2, SentSame, AskedSame, ServedLess, AsksLess

LEMMA ReadMessageAsks ==
  ASSUME Types, AsksOnce, NEW c \in Conns, ReadMessage(c)
  PROVE  AsksOnce'
<1> DEFINE m == down[c][1]
<1>1. /\ Taken(down'[c], down[c]) /\ \A d \in Conns : d # c => down'[d] = down[d]
      /\ \/ toCothread' = toCothread
         \/ \E q : Added(toCothread', toCothread, [do |-> "response", request |-> q, message |-> m])
      /\ UNCHANGED <<up, subs, toTornado, proxy, shadow>>
  BY ReadMessageDoes
<1> HIDE DEF m
<1>2. NothingTold => NothingTold'
  <2> SUFFICES ASSUME NothingTold PROVE NothingTold'
    OBVIOUS
  <2>1. m.what # "delta"
    BY <1>1 DEF NothingTold, Taken, m
  <2>2. \A q : LET call == [do |-> "response", request |-> q, message |-> m]
               IN  ~Brings(call) /\ ~Applies(call)
    BY <2>1 DEF Brings, Applies
  <2>3. ASSUME NEW i \in 1 .. Len(toCothread') PROVE ~Brings(toCothread'[i]) /\ ~Applies(toCothread'[i])
    BY <1>1, <2>2 DEF NothingTold, Added
  <2>4. ASSUME NEW d \in Conns, NEW i \in 1 .. Len(down'[d]) PROVE down'[d][i].what # "delta"
    <3>1. CASE d = c
      BY <1>1, <3>1 DEF NothingTold, Taken
    <3>2. CASE d # c
      BY <1>1, <3>2 DEF NothingTold
    <3> QED BY <3>1, <3>2
  <2> QED BY <1>1, <2>3, <2>4 DEF NothingTold, Brings, Applies
<1> QED BY <1>1, <1>2, SentSame, AskedSame, ServedLess, AsksLess

LEMMA ReadNoneAsks ==
  ASSUME Types, AsksOnce, NEW c \in Conns, ReadNone(c)
  PROVE  AsksOnce'
<1>1. /\ Added(toCothread', toCothread, [do |-> "fault", conn |-> c])
      /\ UNCHANGED <<up, down, subs, toTornado, proxy, shadow>>
  BY ReadNoneDoes
<1>2. NothingTold => NothingTold'
  <2>1. ~Brings([do |-> "fault", conn |-> c]) /\ ~Applies([do |-> "fault", conn |-> c])
    BY DEF Brings, Applies
  <2>2. ASSUME NothingTold, NEW i \in 1 .. Len(toCothread') PROVE ~Brings(toCothread'[i]) /\ ~Applies(toCothread'[i])
    BY <1>1, <2>1, <2>2 DEF NothingTold, Added
  <2> QED BY <1>1, <2>2 DEF NothingTold, Brings, Applies
<1> QED BY <1>1, <1>2, SentSame, AskedSame, ServedLess, AsksLess

LEMMA RunCothreadAsks ==
  ASSUME Types, AsksOnce, RunCothread
  PROVE  AsksOnce'
<1>1. /\ Head(toCothread) = toCothread[1]
      /\ \/ Brings(Head(toCothread)) /\ \E rest : Taken(rest, toCothread)
         \/ Taken(toCothread', toCothread)
      /\ (RunsConnected \/ RunsFault \/ RunsResponse \/ RunsApply)
      /\ UNCHANGED <<up, down, subs, toTornado>>
  BY RunCothreadDoes
<1>2. proxy' = "none" => proxy = "none"
  BY <1>1 DEF RunsConnected, RunsFault, RunsResponse, RunsApply
<1>3. NothingTold => NothingTold'
  <2> SUFFICES ASSUME NothingTold PROVE NothingTold'
    OBVIOUS
  <2>1. 1 \in 1 .. Len(toCothread)
    BY <1>1 DEF Taken
  <2>2. ~Brings(Head(toCothread)) /\ ~Applies(Head(toCothread))
    BY <1>1, <2>1 DEF NothingTold
  <2>3. Taken(toCothread', toCothread)
    BY <1>1, <2>2
  <2>4. shadow' = shadow
    BY <1>1, <2>2 DEF RunsConnected, RunsFault, RunsResponse, RunsApply, Applies
  <2>5. ASSUME NEW i \in 1 .. Len(toCothread') PROVE ~Brings(toCothread'[i]) /\ ~Applies(toCothread'[i])
    BY <2>3 DEF NothingTold, Taken
  <2> QED BY <1>1, <2>4, <2>5 DEF NothingTold, Brings, Applies
<1> QED BY <1>1, <1>2, <1>3, SentSame, AskedSame, ServedLess, AsksLess

LEMMA LoseAsks ==
  ASSUME Types, AsksOnce, Lose
  PROVE  AsksOnce'
<1>1. PICK c \in Conns :
        /\ Closes(c) /\ up' = [up EXCEPT ![c] = << >>]
        /\ UNCHANGED <<subs, toTornado, toCothread, proxy, shadow>>
  BY LoseDoes
<1>2. Len(up'[c]) = 0 /\ \A d \in Conns : d # c => up'[d] = up[d]
  BY <1>1 DEF Types, ServerTypes
<1> QED BY <1>1, <1>2, SentSame, AskedLess, ServedLess, ToldClosed, AsksLess

LEMMA AskedKept ==
  ASSUME Types, AsksOnce, ClientNext \/ UNCHANGED vars PROVE AsksOnce'
<1>1. CASE UNCHANGED vars
  <2>1. UNCHANGED <<up, down, subs, toTornado, toCothread, proxy, shadow>>
    BY <1>1 DEF vars, serverVars, clientVars
  <2> QED BY <2>1, SentSame, AskedSame, ServedLess, ToldSame, AsksLess
<1> QED BY <1>1, StepIs, ServerAsks, CothreadAsks, SyncAsks, TornadoAsks, ConnectAsks,
           ReadMessageAsks, ReadNoneAsks, RunCothreadAsks, LoseAsks

--------------------------------------------------------------------------------
(***************************************************************************)
(* Ids differ.                                                             *)
(***************************************************************************)
LEMMA IdsLess ==
  ASSUME IdsDiffer, nextId' = nextId,
         \A id \in Nat : (OfBlock(id)' => OfBlock(id)) /\ (OfPut(id)' => OfPut(id))
  PROVE  IdsDiffer'
<1> SUFFICES ASSUME NEW id \in Nat
             PROVE  (OfBlock(id)' \/ OfPut(id)' => id < nextId') /\ ~(OfBlock(id)' /\ OfPut(id)')
  BY DEF IdsDiffer
<1>1. (OfBlock(id) \/ OfPut(id) => id < nextId) /\ ~(OfBlock(id) /\ OfPut(id))
  BY DEF IdsDiffer
<1>2. (OfBlock(id)' => OfBlock(id)) /\ (OfPut(id)' => OfPut(id))
  OBVIOUS
<1> QED BY <1>1, <1>2

\* On each connection there is nothing that was not there before.
From(new, old) == \A c \in Conns : \A i \in 1 .. Len(new[c]) : \E j \in 1 .. Len(old[c]) : new[c][i] = old[c][j]

LEMMA FromTaken ==
  ASSUME NEW c \in Conns, NEW new, NEW old, Taken(new[c], old[c]),
         \A d \in Conns : d # c => new[d] = old[d]
  PROVE  From(new, old)
<1> SUFFICES ASSUME NEW d \in Conns, NEW i \in 1 .. Len(new[d])
             PROVE  \E j \in 1 .. Len(old[d]) : new[d][i] = old[d][j]
  BY DEF From
<1>1. CASE d = c
  BY <1>1 DEF Taken
<1>2. CASE d # c
  BY <1>2
<1> QED BY <1>1, <1>2

LEMMA PutNames ==
  ASSUME NEW id, \A r \in owed' : r.id = id => OfPut(id), From(up', up),
         \A c \in Conns : \A i \in 1 .. Len(down'[c]) :
           down'[c][i].what = "return" /\ down'[c][i].id = id => OfPut(id)
  PROVE  OfPut(id)' => OfPut(id)
<1>1. ASSUME NEW c \in Conns, NEW i \in 1 .. Len(up'[c]), up'[c][i].what = "put", up'[c][i].id = id
      PROVE  OfPut(id)
  BY <1>1 DEF From, OfPut
<1>2. OfPut(id)' <=>
        \/ \E r \in owed' : r.id = id
        \/ \E c \in Conns : \E i \in 1 .. Len(up'[c]) : up'[c][i].what = "put" /\ up'[c][i].id = id
        \/ \E c \in Conns : \E i \in 1 .. Len(down'[c]) : down'[c][i].what = "return" /\ down'[c][i].id = id
  BY DEF OfPut
<1> HIDE DEF OfPut
<1> QED BY <1>1, <1>2

LEMMA ServerNames ==
  ASSUME Types, AsksOnce, IdsDiffer, BlockChanges \/ ServerStep, UNCHANGED clientVars
  PROVE  IdsDiffer'
<1>1. nextId' = nextId
  BY DEF clientVars
<1> SUFFICES ASSUME NEW id \in Nat PROVE (OfBlock(id)' => OfBlock(id)) /\ (OfPut(id)' => OfPut(id))
  BY <1>1, IdsLess
<1>2. ASSUME NEW rs, Grows(rs), \A r \in rs : r.what = "return" /\ r.id = id => OfPut(id)
      PROVE  \A c \in Conns : \A i \in 1 .. Len(down'[c]) :
               down'[c][i].what = "return" /\ down'[c][i].id = id => OfPut(id)
  BY <1>2 DEF Grows, OfPut
<1>3. \A change : \A r \in DeltasOf(change) : r.what # "return"
  BY DEF DeltasOf, Response
<1>4. CASE BlockChanges
  <2>1. PICK change : Grows(DeltasOf(change)) /\ UNCHANGED <<link, up, owed, subs>>
    BY <1>4, BlockChangesDoes
  <2>2. \A c \in Conns : \A i \in 1 .. Len(down'[c]) :
          down'[c][i].what = "return" /\ down'[c][i].id = id => OfPut(id)
    BY <1>2, <1>3, <2>1
  <2> QED BY <2>1, <2>2 DEF OfBlock, OfPut
<1>5. ASSUME NEW c \in Conns, Handle(c) PROVE (OfBlock(id)' => OfBlock(id)) /\ (OfPut(id)' => OfPut(id))
  <2> DEFINE r == Head(up[c])
  <2>1. /\ r \in Asking /\ r = up[c][1] /\ Taken(up'[c], up[c]) /\ \A d \in Conns : d # c => up'[d] = up[d]
        /\ 1 \in 1 .. Len(up[c])
    BY <1>5, HandleTakes
  <2> HIDE DEF r
  <2>2. From(up', up)
    BY <2>1, FromTaken
  <2>3. r.what = "block" => OfBlock(r.id)
    BY <2>1 DEF OfBlock
  <2>4. r.what = "put" => OfPut(r.id)
    BY <2>1 DEF OfPut
  <2>5. CASE Subscribe(c, r)
    <3>1. /\ subs' = subs \cup {Subscription(c, r.id, r.what)} /\ owed' = owed
          /\ r.what \in {"blocks", "block"} /\ (r.what = "blocks" => down' = down)
          /\ r.what = "block" => Grows({Response(c, "delta", r.id, Change("block", None, remote))})
      BY <2>1, <2>5, SubscribeDoes
    <3>2. Subscription(c, r.id, r.what).of = r.what /\ Subscription(c, r.id, r.what).id = r.id
      BY DEF Subscription
    <3>3. OfBlock(id)' => OfBlock(id)
      BY <2>2, <2>3, <3>1, <3>2 DEF OfBlock, From
    <3>4. Response(c, "delta", r.id, Change("block", None, remote)).what # "return"
      BY DEF Response
    <3>5. \A d \in Conns : \A i \in 1 .. Len(down'[d]) :
            down'[d][i].what = "return" /\ down'[d][i].id = id => OfPut(id)
      BY <1>2, <3>1, <3>4 DEF OfPut
    <3>6. OfPut(id)' => OfPut(id)
      <4>1. \A q \in owed' : q.id = id => OfPut(id)
        BY <3>1 DEF OfPut
      <4> QED BY <2>2, <3>5, <4>1, PutNames
    <3> QED BY <3>3, <3>6
  <2>6. CASE Put(c, r)
    <3>1. /\ r.what = "put" /\ subs' = subs
          /\ \E change :
               \/ Grows(DeltasOf(change) \cup {ReturnOf(c, r)}) /\ owed' = owed
               \/ Grows(DeltasOf(change)) /\ owed' = owed \cup {ReturnOf(c, r)}
      BY <2>1, <2>6, PutDoes
    <3>2. ReturnOf(c, r).id = r.id
      BY DEF ReturnOf, Response
    <3>3. \A d \in Conns : \A i \in 1 .. Len(down'[d]) :
            down'[d][i].what = "return" /\ down'[d][i].id = id => OfPut(id)
      BY <1>2, <1>3, <2>4, <3>1, <3>2
    <3>4. OfPut(id)' => OfPut(id)
      <4>1. \A q \in owed : q.id = id => OfPut(id)
        BY DEF OfPut
      <4>2. \A q \in owed' : q.id = id => OfPut(id)
        BY <2>4, <3>1, <3>2, <4>1
      <4> QED BY <2>2, <3>3, <4>2, PutNames
    <3>5. OfBlock(id)' => OfBlock(id)
      BY <2>2, <3>1 DEF OfBlock, From
    <3> QED BY <3>4, <3>5
  <2> QED BY <1>5, <2>5, <2>6 DEF Handle, r
<1>6. CASE Answer
  <2>1. PICK r \in owed : owed' = owed \ {r} /\ Grows({r}) /\ UNCHANGED <<link, up, remote, subs, changes>>
    BY <1>6, AnswerDoes
  <2>2. r.id = id => OfPut(id)
    BY DEF OfPut
  <2>3. \A d \in Conns : \A i \in 1 .. Len(down'[d]) :
          down'[d][i].what = "return" /\ down'[d][i].id = id => OfPut(id)
    BY <1>2, <2>1, <2>2
  <2> QED BY <2>1, <2>3 DEF OfBlock, OfPut
<1>7. CASE Forget
  <2>1. subs' \in SUBSET subs /\ UNCHANGED <<link, up, down, owed, remote, changes>>
    BY <1>7 DEF Forget
  <2> QED BY <2>1 DEF OfBlock, OfPut
<1> QED BY <1>4, <1>5, <1>6, <1>7 DEF ServerStep

LEMMA ClosesNames ==
  ASSUME Types, NEW c \in Conns, Closes(c), UNCHANGED <<subs, owed>>,
         up' = up \/ up' = [up EXCEPT ![c] = << >>]
  PROVE  \A id \in Nat : (OfBlock(id)' => OfBlock(id)) /\ (OfPut(id)' => OfPut(id))
<1>1. \A d \in Conns : \A i \in 1 .. Len(down'[d]) : i \in 1 .. Len(down[d]) /\ down'[d][i] = down[d][i]
  BY ClosesDoes
<1>2. \A d \in Conns : \A i \in 1 .. Len(up'[d]) : i \in 1 .. Len(up[d]) /\ up'[d][i] = up[d][i]
  <2>1. \A d \in Conns : up'[d] = up[d] \/ up'[d] = << >>
    BY DEF Types, ServerTypes
  <2>2. Len(<< >>) = 0 /\ 1 .. 0 = {}
    OBVIOUS
  <2> QED BY <2>1, <2>2
<1> QED BY <1>1, <1>2 DEF OfBlock, OfPut

LEMMA SendNames ==
  ASSUME Types, IdsDiffer, NEW request \in Sending, SendRequest(request), UNCHANGED <<subs, owed>>
  PROVE  IdsDiffer'
<1>1. /\ nextId' = nextId + 1 /\ nextId \in Nat /\ down' = down
      /\ \/ up' = up
         \/ /\ conn \in Conns /\ Added(up'[conn], up[conn], WithId(request))
            /\ \A d \in Conns : d # conn => up'[d] = up[d]
  BY SendDoes DEF Types, ClientTypes
<1>2. WithId(request).id = nextId /\ WithId(request).what = request.what
  BY <1>1, RequestIs
<1>3. ASSUME NEW d \in Conns, NEW i \in 1 .. Len(up'[d])
      PROVE  (i \in 1 .. Len(up[d]) /\ up'[d][i] = up[d][i]) \/ up'[d][i] = WithId(request)
  BY <1>1 DEF Added
<1> SUFFICES ASSUME NEW id \in Nat
             PROVE  (OfBlock(id)' \/ OfPut(id)' => id < nextId') /\ ~(OfBlock(id)' /\ OfPut(id)')
  BY DEF IdsDiffer
<1>4. OfBlock(id)' => OfBlock(id) \/ (id = nextId /\ request.what = "block")
  BY <1>1, <1>2, <1>3 DEF OfBlock
<1>5. OfPut(id)' => OfPut(id) \/ (id = nextId /\ request.what = "put")
  BY <1>1, <1>2, <1>3 DEF OfPut
<1>6. (OfBlock(id) \/ OfPut(id) => id < nextId) /\ ~(OfBlock(id) /\ OfPut(id))
  BY DEF IdsDiffer
<1> QED BY <1>1, <1>4, <1>5, <1>6

LEMMA NamedKept ==
  ASSUME Types, AsksOnce, IdsDiffer, ClientNext \/ UNCHANGED vars PROVE IdsDiffer'
<1>1. ASSUME UNCHANGED <<up, down, owed, subs, nextId>> PROVE IdsDiffer'
  <2>1. \A id \in Nat : (OfBlock(id)' => OfBlock(id)) /\ (OfPut(id)' => OfPut(id))
    BY <1>1 DEF OfBlock, OfPut
  <2> QED BY <1>1, <2>1, IdsLess
<1>2. CASE UNCHANGED vars
  BY <1>1, <1>2 DEF vars, serverVars, clientVars
<1>3. CASE \/ StartClient \/ StopClient \/ ClientStarted \/ ClientStopped \/ WaitTimesOut \/ SyncProxy
           \/ \E p \in Puts : SendPut(p)
  BY <1>1, <1>3, StartDoes, StopDoes, StartedDoes, StoppedDoes, TimesOutDoes, SyncDoes, SendPutDoes
<1>4. CASE RunTornado
  <2>1. UNCHANGED <<owed, subs>> /\ (RunsRecv \/ RunsClose \/ RunsSend)
    BY <1>4, RunTornadoDoes
  <2>2. CASE RunsRecv
    BY <1>1, <2>1, <2>2 DEF RunsRecv
  <2>3. CASE RunsClose
    <3>1. up' = up /\ nextId' = nextId /\ \E c \in Conns : Closes(c)
      BY <2>3 DEF RunsClose
    <3>2. \A id \in Nat : (OfBlock(id)' => OfBlock(id)) /\ (OfPut(id)' => OfPut(id))
      BY <2>1, <3>1, ClosesNames
    <3> QED BY <3>1, <3>2, IdsLess
  <2>4. CASE RunsSend
    BY <2>1, <2>4, SendNames DEF RunsSend
  <2> QED BY <2>1, <2>2, <2>3, <2>4
<1>5. CASE Connect
  BY <1>1, <1>5, ConnectDoes
<1>6. ASSUME NEW c \in Conns, ReadMessage(c) PROVE IdsDiffer'
  <2>1. /\ Taken(down'[c], down[c]) /\ \A d \in Conns : d # c => down'[d] = down[d]
        /\ UNCHANGED <<up, owed, subs, nextId>>
    BY <1>6, ReadMessageDoes
  <2>2. From(down', down)
    BY <2>1, FromTaken
  <2>3. ASSUME NEW id \in Nat PROVE (OfBlock(id)' => OfBlock(id)) /\ (OfPut(id)' => OfPut(id))
    <3>1. OfBlock(id)' => OfBlock(id)
      BY <2>1 DEF OfBlock
    <3>2. \A r \in owed' : r.id = id => OfPut(id)
      BY <2>1 DEF OfPut
    <3>3. From(up', up)
      BY <2>1 DEF From
    <3>4. \A d \in Conns : \A i \in 1 .. Len(down'[d]) :
            down'[d][i].what = "return" /\ down'[d][i].id = id => OfPut(id)
      BY <2>2 DEF From, OfPut
    <3> QED BY <3>1, <3>2, <3>3, <3>4, PutNames
  <2> QED BY <2>1, <2>3, IdsLess
<1>7. ASSUME NEW c \in Conns, ReadNone(c) PROVE IdsDiffer'
  BY <1>1, <1>7, ReadNoneDoes
<1>8. CASE RunCothread
  BY <1>1, <1>8, RunCothreadDoes
<1>9. CASE Lose
  <2>1. PICK c \in Conns : Closes(c) /\ up' = [up EXCEPT ![c] = << >>] /\ UNCHANGED <<owed, subs, nextId>>
    BY <1>9, LoseDoes
  <2>2. \A id \in Nat : (OfBlock(id)' => OfBlock(id)) /\ (OfPut(id)' => OfPut(id))
    BY <2>1, ClosesNames
  <2> QED BY <2>1, <2>2, IdsLess
<1> QED BY <1>2, <1>3, <1>4, <1>5, <1>6, <1>7, <1>8, <1>9, StepIs, ServerNames

--------------------------------------------------------------------------------
(***************************************************************************)
(* One connection at a time                                                *)
(***************************************************************************)
LEMMA NoTaken ==
  ASSUME NEW new, NEW old, Taken(new, old), NEW do
  PROVE  /\ No(old, do) => No(new, do)
         /\ old[1].do # do => (No(new, do) <=> No(old, do))
         /\ old[1].do = do => ~No(old, do)
         /\ AtMostOne(old, do) => AtMostOne(new, do)
         /\ AtMostOne(old, do) /\ old[1].do = do => No(new, do)
<1>1. No(old, do) => No(new, do)
  BY DEF No, Taken
<1>2. ASSUME old[1].do # do, No(new, do) PROVE No(old, do)
  <2> SUFFICES ASSUME NEW i \in 1 .. Len(old) PROVE old[i].do # do
    BY DEF No
  <2>1. CASE i = 1
    BY <1>2, <2>1
  <2>2. CASE i # 1
    BY <1>2, <2>2 DEF No, Taken
  <2> QED BY <2>1, <2>2
<1>3. old[1].do = do => ~No(old, do)
  BY DEF No, Taken
<1>4. ASSUME AtMostOne(old, do) PROVE AtMostOne(new, do)
  <2> SUFFICES ASSUME NEW i \in 1 .. Len(new), NEW j \in 1 .. Len(new), new[i].do = do, new[j].do = do
               PROVE  i = j
    BY DEF AtMostOne
  <2>1. i + 1 = j + 1
    BY <1>4 DEF AtMostOne, Taken
  <2>2. i \in Nat /\ j \in Nat
    OBVIOUS
  <2> QED BY <2>1, <2>2
<1>5. ASSUME AtMostOne(old, do), old[1].do = do PROVE No(new, do)
  <2> SUFFICES ASSUME NEW i \in 1 .. Len(new), new[i].do = do PROVE FALSE
    BY DEF No
  <2>1. i + 1 = 1
    BY <1>5 DEF AtMostOne, Taken
  <2> QED BY <2>1
<1> QED BY <1>1, <1>2, <1>3, <1>4, <1>5

LEMMA NoAdded ==
  ASSUME NEW new, NEW old, NEW call, Added(new, old, call), NEW do
  PROVE  /\ call.do # do => (No(new, do) <=> No(old, do))
         /\ call.do # do /\ AtMostOne(old, do) => AtMostOne(new, do)
         /\ call.do = do => ~No(new, do)
         /\ ~No(old, do) => ~No(new, do)
         /\ No(old, do) => AtMostOne(new, do)
<1>1. call.do # do => (No(new, do) <=> No(old, do))
  BY DEF No, Added
<1>2. call.do # do /\ AtMostOne(old, do) => AtMostOne(new, do)
  BY DEF AtMostOne, Added
<1>3. call.do = do => ~No(new, do)
  BY DEF No, Added
<1>4. ~No(old, do) => ~No(new, do)
  BY DEF No, Added
<1>5. No(old, do) => AtMostOne(new, do)
  BY DEF No, AtMostOne, Added
<1> QED BY <1>1, <1>2, <1>3, <1>4, <1>5

\* Faults stay old while nobody connects.
LEMMA FaultsSame ==
  ASSUME NEW a, NEW b \in {a, None}, NEW links, NEW after, \A c \in Conns : links[c] # "new" => after[c] # "new",
         NEW old, OldFaults(old, a, links)
  PROVE  OldFaults(old, b, after)
BY NamesDiffer DEF OldFaults

LEMMA FaultsTaken ==
  ASSUME NEW a, NEW b \in {a, None}, NEW links, NEW after, \A c \in Conns : links[c] # "new" => after[c] # "new",
         NEW new, NEW old, OldFaults(old, a, links), Taken(new, old)
  PROVE  OldFaults(new, b, after)
<1>1. OldFaults(old, b, after)
  BY FaultsSame
<1> QED BY <1>1 DEF OldFaults, Taken

LEMMA FaultsAdded ==
  ASSUME NEW a, NEW b \in {a, None}, NEW links, NEW after, \A c \in Conns : links[c] # "new" => after[c] # "new",
         NEW new, NEW old, OldFaults(old, a, links), NEW call, Added(new, old, call),
         call.do = "fault" => call.conn \in Conns \ {b} /\ after[call.conn] # "new"
  PROVE  OldFaults(new, b, after)
<1>1. OldFaults(old, b, after)
  BY FaultsSame
<1> QED BY <1>1 DEF OldFaults, Added

LEMMA NewestIs ==
  ASSUME Types, AreMet, conn # None, \A c \in Conns : link[c] # "new" => c <= conn
  PROVE  Newest = conn
<1>1. conn \in Conns /\ conn \in 0 .. MaxConns /\ MaxConns \in Nat
  BY ServerAssumption DEF Types, ClientTypes, Conns
<1> DEFINE P(n) == \A c \in Conns : link[c] # "new" <=> c <= n
<1>2. P(conn)
  BY <1>1 DEF AreMet
<1>3. ASSUME NEW n \in 0 .. MaxConns, P(n) PROVE n = conn
  <2>1. conn <= n
    BY <1>1, <1>3 DEF AreMet
  <2>2. n \in Conns
    BY <1>1, <2>1 DEF Conns
  <2>3. n <= conn
    BY <1>3, <2>2
  <2> QED BY <1>1, <2>1, <2>3
<1> HIDE DEF P
<1>4. \E n \in 0 .. MaxConns : P(n)
  BY <1>1, <1>2
<1>5. Newest = CHOOSE n \in 0 .. MaxConns : P(n)
  BY DEF Newest, P
<1> QED BY <1>3, <1>4, <1>5

\* Conn is as before, or there is none any more.
LEMMA StartFits ==
  ASSUME Types, ConnFits, StartClient
  PROVE  ConnFits'
<1> USE DEF ConnFits
<1>1. /\ state \in {"Disabled", "Fault"} /\ "start" \notin waits
      /\ UNCHANGED <<link, up, subs, items, conn, dialing, loops, toCothread>>
  BY StartDoes
<1>2. (Dials' /\ conn = None /\ OneStarts') \/ UNCHANGED <<waits, toTornado>>
  <2>1. CASE conn # None
    BY <2>1, StartDoes
  <2>2. CASE conn = None
    <3>1. waits' = waits \cup {"start"} /\ Added(toTornado', toTornado, [do |-> "recv"])
      BY <2>2, StartDoes
    <3>2. ~Dials /\ ~Tells
      BY <1>1 DEF OneConnection, OneStarts
    <3>3. No(toTornado, "recv") /\ dialing = 0 /\ No(toCothread, "connected") /\ No(items, "connected")
      BY <3>2 DEF Dials, Tells, Types, ClientTypes
    <3>4. ~No(toTornado', "recv") /\ AtMostOne(toTornado', "recv")
      BY <3>1, <3>3, NoAdded
    <3> QED BY <1>1, <2>2, <3>1, <3>3, <3>4 DEF OneConnection, OneStarts, Dials, Tells
  <2> QED BY <2>1, <2>2
<1>3. Tells' <=> Tells
  BY <1>1 DEF Tells
<1>4. OneConnection'
  BY <1>1, <1>2, <1>3 DEF OneConnection, OneStarts, Dials
<1>5. ReadyFits'
  <2>1. CASE conn # None
    <3>1. UNCHANGED waits
      BY <2>1, StartDoes
    <3> QED BY <1>1, <2>1, <3>1 DEF ReadyFits
  <2>2. CASE conn = None
    <3>1. state' = "Resetting" /\ ~Tells
      BY <1>1, <2>2, StartDoes DEF OneConnection, OneStarts
    <3> QED BY <1>3, <3>1 DEF ReadyFits
  <2> QED BY <2>1, <2>2
<1>6. BlocksAsked'
  <2>1. conn # None => toTornado' = toTornado
    BY StartDoes
  <2> QED BY <1>1, <1>3, <2>1 DEF BlocksAsked
<1> QED BY <1>4, <1>5, <1>6

\* A call is added that does not begin a connection.
LEMMA CallFits ==
  ASSUME Types, OneConnection, BlocksAsked, NEW call, Added(toTornado', toTornado, call), call.do # "recv",
         UNCHANGED <<link, up, subs, items, conn, dialing, loops, toCothread>>,
         "start" \in waits => "start" \in waits'
  PROVE  OneConnection' /\ BlocksAsked' /\ (Tells' <=> Tells)
<1>1. (No(toTornado', "recv") <=> No(toTornado, "recv")) /\ AtMostOne(toTornado', "recv")
  BY NoAdded DEF OneConnection, OneStarts
<1>2. (Dials' <=> Dials) /\ (Tells' <=> Tells)
  BY <1>1 DEF Dials, Tells
<1>3. OneConnection'
  BY <1>1, <1>2 DEF OneConnection, OneStarts
<1>4. \A i \in 1 .. Len(toTornado) : i \in 1 .. Len(toTornado') /\ toTornado'[i] = toTornado[i]
  BY DEF Added
<1>5. (\E i \in 1 .. Len(toTornado) : SendsBlocks(toTornado[i])) =>
      (\E i \in 1 .. Len(toTornado') : SendsBlocks(toTornado'[i]))
  BY <1>4 DEF SendsBlocks
<1>6. BlocksAsked'
  BY <1>2, <1>5 DEF BlocksAsked, SendsBlocks
<1> QED BY <1>2, <1>3, <1>6

\* Nothing happens to a connection.
LEMMA IdleFits ==
  ASSUME OneConnection, BlocksAsked,
         UNCHANGED <<link, up, subs, items, conn, dialing, loops, toTornado, toCothread>>,
         "start" \in waits => "start" \in waits'
  PROVE  OneConnection' /\ BlocksAsked' /\ (Tells' <=> Tells)
<1>1. (Dials' <=> Dials) /\ (Tells' <=> Tells)
  BY DEF Dials, Tells
<1> QED BY <1>1 DEF OneConnection, OneStarts, BlocksAsked, SendsBlocks

LEMMA StopFits ==
  ASSUME Types, ConnFits, StopClient
  PROVE  ConnFits'
<1>1. /\ state' \in {"Disabled", "Disabling"} /\ ("start" \in waits => "start" \in waits')
      /\ UNCHANGED <<link, up, subs, items, conn, dialing, loops, toCothread>>
      /\ \/ UNCHANGED toTornado
         \/ Added(toTornado', toTornado, [do |-> "close", conn |-> conn])
  BY StopDoes
<1>2. OneConnection' /\ BlocksAsked'
  <2>1. [do |-> "close", conn |-> conn].do # "recv"
    OBVIOUS
  <2> QED BY <1>1, <2>1, CallFits, IdleFits DEF ConnFits
<1>3. ReadyFits'
  BY <1>1 DEF ReadyFits
<1> QED BY <1>2, <1>3 DEF ConnFits

LEMMA SentFitsConn ==
  ASSUME Types, ConnFits, SyncProxy \/ \E p \in Puts : SendPut(p)
  PROVE  ConnFits'
<1>1. /\ \E request : Added(toTornado', toTornado, Send(request))
      /\ UNCHANGED <<link, up, subs, state, waits, items, conn, dialing, loops, toCothread>>
  BY SyncDoes, SendPutDoes
<1>2. \A request : Send(request).do # "recv"
  BY DEF Send
<1>3. OneConnection' /\ BlocksAsked' /\ (Tells' <=> Tells)
  BY <1>1, <1>2, CallFits DEF ConnFits
<1>4. ReadyFits'
  BY <1>1, <1>3 DEF ReadyFits, ConnFits
<1> QED BY <1>3, <1>4 DEF ConnFits

LEMMA TimeoutFits ==
  ASSUME Types, ConnFits, WaitTimesOut
  PROVE  ConnFits'
<1>1. /\ items = << >> /\ ~Coming /\ state' = ErrorState
      /\ waits' \in SUBSET waits
      /\ UNCHANGED <<link, up, subs, items, conn, dialing, loops, toTornado, toCothread>>
  BY TimesOutDoes
<1>2. DOMAIN toTornado = 1 .. Len(toTornado) /\ DOMAIN toCothread = 1 .. Len(toCothread) /\ Len(items) = 0
  BY <1>1 DEF Types, ClientTypes
<1>3. No(toTornado, "recv") /\ dialing = 0 /\ No(toCothread, "connected")
  BY <1>1, <1>2 DEF Coming, No, Types, ClientTypes
<1>4. No(items, "connected")
  BY <1>2 DEF No
<1>5. ~Dials /\ ~Tells
  BY <1>3, <1>4 DEF Dials, Tells
<1>6. (Dials' <=> Dials) /\ (Tells' <=> Tells)
  BY <1>1 DEF Dials, Tells
<1>7. OneConnection' /\ BlocksAsked'
  BY <1>1, <1>5, <1>6 DEF ConnFits, OneConnection, OneStarts, BlocksAsked, SendsBlocks
<1>8. state' \in {"Fault", "Disabled"}
  BY <1>1 DEF ErrorState, MayFault, Types, ClientTypes
<1> QED BY <1>7, <1>8 DEF ConnFits, ReadyFits

\* Who waits for a connection is told of the present one.
LEMMA StartedFits ==
  ASSUME Types, AreMet, ConnFits, ClientStarted, ~stale'
  PROVE  ConnFits'
<1>1. /\ Taken(items', items) /\ Head(items) = items[1] /\ "start" \in waits
      /\ Head(items) = [do |-> "connected", conn |-> Newest]
      /\ waits' = waits \ {"start"}
      /\ Added(toTornado', toTornado, Send(Blocks))
      /\ state' = IF state = "Resetting" THEN "Ready" ELSE ErrorState
      /\ UNCHANGED <<link, up, subs, conn, dialing, loops, toCothread>>
  BY StartedDoes DEF GetItem
<1>2. items[1].do = "connected"
  BY <1>1
<1>3. ~No(items, "connected") /\ AtMostOne(items, "connected")
  BY <1>1, <1>2, NoTaken DEF ConnFits, OneConnection, OneStarts
<1>4. Tells /\ ~Dials /\ No(toCothread, "connected")
  BY <1>3 DEF ConnFits, OneConnection, OneStarts, Tells
<1>5. No(items', "connected") /\ AtMostOne(items', "connected")
  BY <1>1, <1>2, <1>3, NoTaken
<1>6. Send(Blocks).do # "recv" /\ SendsBlocks(Send(Blocks))
  BY DEF Send, Blocks, SendsBlocks
<1>7. (No(toTornado', "recv") <=> No(toTornado, "recv")) /\ AtMostOne(toTornado', "recv")
  BY <1>1, <1>6, NoAdded DEF ConnFits, OneConnection, OneStarts
<1>8. ~Tells' /\ ~Dials'
  BY <1>1, <1>4, <1>5, <1>7 DEF Tells, Dials
<1>9. OldFaults(items', conn', link')
  <2>1. OldFaults(items, conn, link)
    BY DEF ConnFits, OneConnection
  <2> QED BY <1>1, <2>1, FaultsTaken
<1>10. OneConnection'
  BY <1>1, <1>4, <1>5, <1>7, <1>8, <1>9 DEF ConnFits, OneConnection, OneStarts
<1>11. ReadyFits'
  <2>1. "start" \notin waits'
    BY <1>1
  <2>2. state # "Ready"
    BY <1>1 DEF ConnFits, ReadyFits
  <2>3. state' = "Ready" => state = "Resetting"
    BY <1>1, <2>2 DEF ErrorState
  <2> QED BY <1>1, <1>4, <1>8, <2>1, <2>3 DEF ConnFits, ReadyFits
<1>12. BlocksAsked'
  <2>1. \E i \in 1 .. Len(toTornado') : SendsBlocks(toTornado'[i])
    BY <1>1, <1>6 DEF Added
  <2> QED BY <2>1 DEF BlocksAsked, SendsBlocks
<1> QED BY <1>10, <1>11, <1>12 DEF ConnFits

\* Who waits for the end of a connection is told of it when it has ended.
LEMMA EndedBefore ==
  ASSUME Types, AreMet, ConnFits, ClientStopped, ~stale'
  PROVE  conn = None
<1> SUFFICES ASSUME conn # None PROVE FALSE
  OBVIOUS
<1>1. /\ Taken(items', items) /\ Head(items) = items[1]
      /\ Head(items) = [do |-> "fault", conn |-> Newest]
  BY StoppedDoes DEF GetItem
<1>2. Newest = conn
  BY NewestIs DEF ConnFits, OneConnection
<1>3. items[1].do = "fault" /\ items[1].conn = conn /\ 1 \in 1 .. Len(items)
  BY <1>1, <1>2 DEF Taken
<1> QED BY <1>3 DEF ConnFits, OneConnection, OldFaults

LEMMA StoppedFits ==
  ASSUME Types, AreMet, ConnFits, ClientStopped, ~stale'
  PROVE  ConnFits'
<1>1. /\ Taken(items', items) /\ Head(items) = items[1]
      /\ Head(items) = [do |-> "fault", conn |-> Newest]
      /\ waits' = waits \ {"stop"} /\ conn' = None
      /\ state' = IF state = "Disabling" THEN "Disabled" ELSE ErrorState
      /\ UNCHANGED <<link, up, subs, dialing, loops, toTornado, toCothread>>
  BY StoppedDoes DEF GetItem
<1>2. conn = None
  BY EndedBefore
<1>3. items[1].do # "connected"
  BY <1>1
<1>4. (No(items', "connected") <=> No(items, "connected")) /\ AtMostOne(items', "connected")
  BY <1>1, <1>3, NoTaken DEF ConnFits, OneConnection, OneStarts
<1>5. (Tells' <=> Tells) /\ (Dials' <=> Dials)
  BY <1>1, <1>4 DEF Tells, Dials
<1>6. OldFaults(items', conn', link')
  <2>1. OldFaults(items, conn, link)
    BY DEF ConnFits, OneConnection
  <2> QED BY <1>1, <2>1, FaultsTaken
<1>7. OneConnection'
  BY <1>1, <1>2, <1>4, <1>5, <1>6 DEF ConnFits, OneConnection, OneStarts
<1>8. state' \in {"Fault", "Disabled"}
  BY <1>1 DEF ErrorState, MayFault, Types, ClientTypes
<1>9. ReadyFits' /\ BlocksAsked'
  BY <1>1, <1>8 DEF ReadyFits, BlocksAsked
<1> QED BY <1>7, <1>9 DEF ConnFits

\* What is asked over a connection while others close
LEMMA StillAsked ==
  ASSUME BlocksAsked, conn' = conn, Tells' <=> Tells,
         conn # None /\ link[conn] = "closed" => link'[conn] = "closed",
         conn # None /\ link'[conn] # "closed" =>
           /\ \A i \in 1 .. Len(toTornado) : SendsBlocks(toTornado[i]) =>
                \/ \E j \in 1 .. Len(toTornado') : toTornado'[j] = toTornado[i]
                \/ \E j \in 1 .. Len(up'[conn]) : up'[conn][j].what = "blocks"
           /\ \A i \in 1 .. Len(up[conn]) : up[conn][i].what = "blocks" =>
                \/ \E j \in 1 .. Len(up'[conn]) : up'[conn][j] = up[conn][i]
                \/ \E s \in subs' : s.conn = conn /\ s.of = "blocks"
           /\ \A s \in subs : s.conn = conn => s \in subs'
  PROVE  BlocksAsked'
<1> SUFFICES ASSUME conn # None, link'[conn] # "closed", ~Tells'
             PROVE  \/ \E i \in 1 .. Len(toTornado') : SendsBlocks(toTornado'[i])
                    \/ \E i \in 1 .. Len(up'[conn]) : up'[conn][i].what = "blocks"
                    \/ \E s \in subs' : s.conn = conn /\ s.of = "blocks"
  BY DEF BlocksAsked, SendsBlocks
<1>1. CASE \E i \in 1 .. Len(toTornado) : SendsBlocks(toTornado[i])
  BY <1>1
<1>2. CASE \E i \in 1 .. Len(up[conn]) : up[conn][i].what = "blocks"
  BY <1>2
<1>3. CASE \E s \in subs : s.conn = conn /\ s.of = "blocks"
  BY <1>3
<1> QED BY <1>1, <1>2, <1>3 DEF BlocksAsked

LEMMA LinksClose ==
  ASSUME Types, AreMet, NEW c \in Conns, link[c] # "new", Closes(c)
  PROVE  /\ \A d \in Conns : link'[d] = "new" <=> link[d] = "new"
         /\ \A d \in Conns : link[d] = "closed" => link'[d] = "closed"
         /\ \A d \in Conns : d # c => link'[d] = link[d]
         /\ link'[c] = "closed"
BY ClosesDoes DEF Types, ServerTypes

\* Tornado's thread runs a call.
LEMMA TornadoFits ==
  ASSUME Types, AreMet, ConnFits, RunTornado
  PROVE  ConnFits'
<1>1. /\ Head(toTornado) = toTornado[1] /\ Taken(toTornado', toTornado)
      /\ (RunsRecv \/ RunsClose \/ RunsSend)
      /\ UNCHANGED <<subs, state, waits, items, conn, loops, toCothread>>
  BY RunTornadoDoes
<1>2. /\ AtMostOne(toTornado', "recv")
      /\ Head(toTornado).do # "recv" => (No(toTornado', "recv") <=> No(toTornado, "recv"))
      /\ Head(toTornado).do = "recv" => No(toTornado', "recv") /\ ~No(toTornado, "recv")
  BY <1>1, NoTaken DEF ConnFits, OneConnection, OneStarts
<1>3. Tells' <=> Tells
  BY <1>1 DEF Tells
<1>4. ReadyFits'
  BY <1>1, <1>3 DEF ConnFits, ReadyFits
<1>5. ASSUME \A c \in Conns : link'[c] = "new" <=> link[c] = "new", Dials' <=> Dials, dialing' <= 1,
             No(toTornado', "recv") \/ dialing' = 0
      PROVE  OneConnection'
  <2>1. OldFaults(toCothread, conn, link') /\ OldFaults(items, conn, link')
    BY <1>5, FaultsSame DEF ConnFits, OneConnection
  <2> QED BY <1>1, <1>2, <1>3, <1>5, <2>1 DEF ConnFits, OneConnection, OneStarts
<1>6. ~SendsBlocks(toTornado[1]) =>
        \A i \in 1 .. Len(toTornado) : SendsBlocks(toTornado[i]) =>
          \E j \in 1 .. Len(toTornado') : toTornado'[j] = toTornado[i]
  BY <1>1 DEF Taken
<1>7. CASE RunsRecv
  <2>1. dialing = 0
    BY <1>2, <1>7 DEF RunsRecv, ConnFits, OneConnection, OneStarts
  <2>2. dialing' = 1 /\ Dials /\ Dials'
    BY <1>2, <1>7, <2>1 DEF RunsRecv, Dials
  <2>3. OneConnection'
    BY <1>2, <1>5, <1>7, <2>2 DEF RunsRecv
  <2>4. BlocksAsked'
    BY <1>1, <2>2 DEF ConnFits, OneConnection, OneStarts, BlocksAsked
  <2> QED BY <1>4, <2>3, <2>4 DEF ConnFits
<1>8. CASE RunsClose
  <2>1. PICK c \in Conns : c = Head(toTornado).conn /\ Closes(c) /\ up' = up /\ dialing' = dialing
    BY <1>8 DEF RunsClose
  <2>2. link[c] # "new"
    BY <1>1, <1>8, <2>1 DEF RunsClose, AreMet, Taken
  <2>3. /\ \A d \in Conns : link'[d] = "new" <=> link[d] = "new"
        /\ \A d \in Conns : link[d] = "closed" => link'[d] = "closed"
    BY <2>1, <2>2, LinksClose
  <2>4. Dials' <=> Dials
    BY <1>2, <1>8, <2>1 DEF RunsClose, Dials
  <2>5. OneConnection'
    BY <1>2, <1>5, <1>8, <2>1, <2>3, <2>4 DEF RunsClose, ConnFits, OneConnection, OneStarts
  <2>6. ~SendsBlocks(toTornado[1])
    BY <1>1, <1>8 DEF RunsClose, SendsBlocks
  <2>7. conn # None => conn \in Conns
    BY DEF Types, ClientTypes
  <2>8. BlocksAsked /\ conn' = conn /\ subs' = subs
    BY <1>1 DEF ConnFits
  <2>9. BlocksAsked'
    BY <1>3, <1>6, <2>1, <2>3, <2>6, <2>7, <2>8, StillAsked
  <2> QED BY <1>4, <2>5, <2>9 DEF ConnFits
<1>9. CASE RunsSend
  <2> DEFINE request == Head(toTornado).request
  <2>1. Head(toTornado).do = "send" /\ request \in Sending /\ SendRequest(request)
    BY <1>9 DEF RunsSend
  <2>2. SendsBlocks(toTornado[1]) <=> request.what = "blocks"
    BY <1>1, <2>1 DEF SendsBlocks
  <2> HIDE DEF request
  <2>3. /\ link' = link /\ dialing' = dialing
        /\ \/ up' = up /\ (conn = None \/ link[conn] = "closed")
           \/ Added(up'[conn], up[conn], WithId(request))
    BY <2>1, SendDoes
  <2>4. WithId(request).what = request.what
    BY <2>1, RequestIs DEF Types, ClientTypes
  <2>5. Dials' <=> Dials
    BY <1>2, <2>1, <2>3 DEF Dials
  <2>6. OneConnection'
    BY <1>2, <1>5, <2>1, <2>3, <2>5 DEF ConnFits, OneConnection, OneStarts
  <2>7. ASSUME conn # None, link[conn] # "closed"
        PROVE  /\ \A i \in 1 .. Len(toTornado) : SendsBlocks(toTornado[i]) =>
                    \/ \E j \in 1 .. Len(toTornado') : toTornado'[j] = toTornado[i]
                    \/ \E j \in 1 .. Len(up'[conn]) : up'[conn][j].what = "blocks"
               /\ \A i \in 1 .. Len(up[conn]) : \E j \in 1 .. Len(up'[conn]) : up'[conn][j] = up[conn][i]
    <3>1. Added(up'[conn], up[conn], WithId(request))
      BY <2>3, <2>7
    <3>2. \A i \in 1 .. Len(up[conn]) : \E j \in 1 .. Len(up'[conn]) : up'[conn][j] = up[conn][i]
      BY <3>1 DEF Added
    <3>3. request.what = "blocks" => \E j \in 1 .. Len(up'[conn]) : up'[conn][j].what = "blocks"
      BY <2>4, <3>1 DEF Added
    <3> QED BY <1>6, <2>2, <3>2, <3>3
  <2>8. BlocksAsked /\ conn' = conn /\ subs' = subs
    BY <1>1 DEF ConnFits
  <2>9. BlocksAsked'
    BY <1>3, <2>3, <2>7, <2>8, StillAsked
  <2> QED BY <1>4, <2>6, <2>9 DEF ConnFits
<1> QED BY <1>1, <1>7, <1>8, <1>9

LEMMA ConnectFits ==
  ASSUME Types, AreMet, ConnFits, Connect
  PROVE  ConnFits'
<1>1. /\ dialing > 0 /\ dialing' = dialing - 1
      /\ UNCHANGED <<up, subs, state, waits, items, toTornado>>
  BY ConnectDoes
<1>2. Dials /\ ~Tells /\ conn = None /\ "start" \in waits /\ dialing = 1 /\ No(toTornado, "recv")
  <2>1. Dials /\ dialing \in Nat /\ dialing # 0
    BY <1>1 DEF Dials, Types, ClientTypes
  <2> QED BY <2>1 DEF ConnFits, OneConnection, OneStarts
<1>3. dialing' = 0 /\ ~Dials'
  BY <1>1, <1>2 DEF Dials
<1>4. No(toCothread, "connected") /\ No(items, "connected")
  BY <1>2 DEF Tells
<1>5. ASSUME NEW c \in Conns, Makes(c) PROVE ConnFits'
  <2> DEFINE call == [do |-> "connected", conn |-> c]
  <2>1. /\ \A d \in Conns : link[d] = "new" <=> d >= c
        /\ link' = [link EXCEPT ![c] = "open"] /\ conn' = c /\ loops' = loops \cup {c}
        /\ Added(toCothread', toCothread, call)
    BY <1>5, MakesDoes
  <2>2. call.do = "connected" /\ call.do # "fault"
    OBVIOUS
  <2> HIDE DEF call
  <2>3. /\ \A d \in Conns : link'[d] = "new" <=> link[d] = "new" /\ d # c
        /\ \A d \in Conns : link'[d] # "new" => d <= c
    <3>1. \A d \in Conns : link'[d] = "new" <=> link[d] = "new" /\ d # c
      BY <2>1 DEF Types, ServerTypes
    <3> QED BY <2>1, <3>1, NamesDiffer
  <2>4. AtMostOne(toCothread', "connected") /\ ~No(toCothread', "connected")
    BY <1>4, <2>1, <2>2, NoAdded
  <2>5. Tells'
    BY <2>4 DEF Tells
  <2>6. link[c] = "new"
    BY <2>1, NamesDiffer
  <2>7. OldFaults(toCothread', c, link') /\ OldFaults(items, c, link')
    <3>1. OldFaults(toCothread, c, link') /\ OldFaults(items, c, link')
      BY <2>3, <2>6 DEF ConnFits, OneConnection, OldFaults
    <3> QED BY <2>1, <2>2, <3>1, FaultsAdded
  <2>8. loops' = {c}
    BY <1>2, <2>1 DEF ConnFits, OneConnection
  <2>9. OneConnection'
    BY <1>1, <1>2, <1>3, <1>4, <2>1, <2>3, <2>4, <2>7, <2>8, NamesDiffer DEF ConnFits, OneConnection, OneStarts
  <2>10. ReadyFits'
    BY <1>1, <2>1, NamesDiffer DEF ConnFits, ReadyFits
  <2>11. BlocksAsked'
    BY <2>5 DEF BlocksAsked
  <2> QED BY <2>9, <2>10, <2>11 DEF ConnFits
<1>6. CASE UNCHANGED <<link, conn, loops, toCothread>>
  <2>1. Tells' <=> Tells
    BY <1>1, <1>6 DEF Tells
  <2>2. OneConnection'
    BY <1>1, <1>2, <1>3, <1>6, <2>1 DEF ConnFits, OneConnection, OneStarts
  <2>3. ReadyFits' /\ BlocksAsked'
    BY <1>1, <1>2, <1>6, <2>1 DEF ConnFits, ReadyFits, BlocksAsked
  <2> QED BY <2>2, <2>3 DEF ConnFits
<1> QED BY <1>5, <1>6, ConnectDoes

\* A call comes to cothreads that neither begins nor ends a connection.
LEMMA ReadMessageFits ==
  ASSUME Types, ConnFits, NEW c \in Conns, ReadMessage(c)
  PROVE  ConnFits'
<1>1. /\ c \in loops /\ loops' = (IF conn = c THEN loops ELSE loops \ {c})
      /\ \/ toCothread' = toCothread
         \/ \E q, m : Added(toCothread', toCothread, [do |-> "response", request |-> q, message |-> m])
      /\ UNCHANGED <<link, up, subs, state, waits, items, conn, dialing, toTornado>>
  BY ReadMessageDoes
<1>2. conn = c /\ loops' = loops
  BY <1>1 DEF ConnFits, OneConnection
<1>3. /\ No(toCothread', "connected") <=> No(toCothread, "connected")
      /\ AtMostOne(toCothread', "connected")
      /\ ~No(toCothread, "fault") => ~No(toCothread', "fault")
      /\ OldFaults(toCothread', conn, link)
  <2>1. CASE toCothread' = toCothread
    BY <2>1 DEF ConnFits, OneConnection, OneStarts
  <2>2. ASSUME NEW call, Added(toCothread', toCothread, call), call.do = "response" PROVE <1>3!:
    BY <2>2, NoAdded, FaultsAdded DEF ConnFits, OneConnection, OneStarts
  <2> QED BY <1>1, <2>1, <2>2
<1>4. (Tells' <=> Tells) /\ (Dials' <=> Dials)
  BY <1>1, <1>3 DEF Tells, Dials
<1>5. OneConnection'
  BY <1>1, <1>2, <1>3, <1>4 DEF ConnFits, OneConnection, OneStarts
<1>6. ReadyFits' /\ BlocksAsked'
  BY <1>1, <1>3, <1>4 DEF ConnFits, ReadyFits, BlocksAsked, SendsBlocks
<1> QED BY <1>5, <1>6 DEF ConnFits

LEMMA ReadNoneFits ==
  ASSUME Types, AreMet, ConnFits, NEW c \in Conns, ReadNone(c)
  PROVE  ConnFits'
<1> DEFINE call == [do |-> "fault", conn |-> c]
<1>1. /\ c \in loops /\ conn' = None /\ loops' = loops \ {c} /\ link[c] = "closed"
      /\ Added(toCothread', toCothread, call)
      /\ UNCHANGED <<link, up, subs, state, waits, items, dialing, toTornado>>
  BY ReadNoneDoes
<1>2. call.do = "fault" /\ call.conn = c
  OBVIOUS
<1> HIDE DEF call
<1>3. conn = c /\ loops' = {} /\ conn # None
  BY <1>1, NamesDiffer DEF ConnFits, OneConnection
<1>4. /\ No(toCothread', "connected") <=> No(toCothread, "connected")
      /\ AtMostOne(toCothread', "connected") /\ ~No(toCothread', "fault")
  BY <1>1, <1>2, NoAdded DEF ConnFits, OneConnection, OneStarts
<1>5. (Tells' <=> Tells) /\ (Dials' <=> Dials)
  BY <1>1, <1>4 DEF Tells, Dials
<1>6. OldFaults(toCothread', None, link) /\ OldFaults(items, None, link)
  <2>1. OldFaults(toCothread, conn, link) /\ OldFaults(items, conn, link)
    BY DEF ConnFits, OneConnection
  <2>2. call.conn \in Conns \ {None} /\ link[call.conn] # "new"
    BY <1>1, <1>2, NamesDiffer
  <2> QED BY <1>1, <2>1, <2>2, FaultsAdded, FaultsSame
<1>7. OneConnection'
  BY <1>1, <1>3, <1>4, <1>5, <1>6 DEF ConnFits, OneConnection, OneStarts
<1>8. ReadyFits' /\ BlocksAsked'
  BY <1>1, <1>4 DEF ConnFits, ReadyFits, BlocksAsked
<1> QED BY <1>7, <1>8 DEF ConnFits

\* The queue of cothreads, one call on
LEMMA CothreadQueue ==
  ASSUME Types, ConnFits, RunCothread
  PROVE  /\ AtMostOne(toCothread', "connected") /\ OldFaults(toCothread', conn, link)
         /\ toCothread[1].do = "connected" =>
              No(toCothread', "connected") /\ ~No(toCothread, "connected")
         /\ toCothread[1].do # "connected" =>
              (No(toCothread', "connected") <=> No(toCothread, "connected"))
         /\ toCothread[1].do # "fault" => (No(toCothread', "fault") <=> No(toCothread, "fault"))
<1>1. /\ Head(toCothread) = toCothread[1]
      /\ \/ /\ Brings(Head(toCothread))
            /\ \E rest : Taken(rest, toCothread) /\ Added(toCothread', rest, Applying(Head(toCothread)))
         \/ Taken(toCothread', toCothread)
  BY RunCothreadDoes
<1>2. AtMostOne(toCothread, "connected") /\ OldFaults(toCothread, conn, link)
  BY DEF ConnFits, OneConnection, OneStarts
<1>3. ASSUME NEW rest, Taken(rest, toCothread)
      PROVE  /\ AtMostOne(rest, "connected") /\ OldFaults(rest, conn, link)
             /\ toCothread[1].do = "connected" => No(rest, "connected") /\ ~No(toCothread, "connected")
             /\ toCothread[1].do # "connected" => (No(rest, "connected") <=> No(toCothread, "connected"))
             /\ toCothread[1].do # "fault" => (No(rest, "fault") <=> No(toCothread, "fault"))
  <2>1. OldFaults(rest, conn, link)
    BY <1>2, <1>3, FaultsTaken
  <2> QED BY <1>2, <1>3, <2>1, NoTaken
<1>4. CASE Taken(toCothread', toCothread)
  BY <1>3, <1>4
<1>5. ASSUME Brings(toCothread[1]), NEW rest, Taken(rest, toCothread),
             Added(toCothread', rest, Applying(toCothread[1]))
      PROVE  /\ AtMostOne(toCothread', "connected") /\ OldFaults(toCothread', conn, link)
             /\ No(toCothread', "connected") <=> No(toCothread, "connected")
             /\ No(toCothread', "fault") <=> No(toCothread, "fault")
  <2>1. toCothread[1].do = "response"
    BY <1>5 DEF Brings
  <2>2. Applying(toCothread[1]).do = "apply"
    BY DEF Applying
  <2>3. /\ AtMostOne(rest, "connected") /\ OldFaults(rest, conn, link)
        /\ No(rest, "connected") <=> No(toCothread, "connected")
        /\ No(rest, "fault") <=> No(toCothread, "fault")
    BY <1>3, <1>5, <2>1
  <2>4. /\ AtMostOne(toCothread', "connected")
        /\ No(toCothread', "connected") <=> No(rest, "connected")
        /\ No(toCothread', "fault") <=> No(rest, "fault")
    BY <1>5, <2>2, <2>3, NoAdded
  <2>5. OldFaults(toCothread', conn, link)
    BY <1>5, <2>2, <2>3, FaultsAdded
  <2> QED BY <2>3, <2>4, <2>5
<1>6. Brings(toCothread[1]) => toCothread[1].do = "response"
  BY DEF Brings
<1> QED BY <1>1, <1>4, <1>5, <1>6

\* Cothreads run a call.
LEMMA RunCothreadFits ==
  ASSUME Types, AreMet, ConnFits, RunCothread
  PROVE  ConnFits'
<1> DEFINE call == toCothread[1]
<1>1. /\ AtMostOne(toCothread', "connected") /\ OldFaults(toCothread', conn, link)
      /\ call.do = "connected" => No(toCothread', "connected") /\ ~No(toCothread, "connected")
      /\ call.do # "connected" => (No(toCothread', "connected") <=> No(toCothread, "connected"))
      /\ call.do # "fault" => (No(toCothread', "fault") <=> No(toCothread, "fault"))
  BY CothreadQueue
<1>2. /\ Head(toCothread) = call /\ toCothread # << >> /\ toCothread \in Seq(ToCothread)
      /\ (RunsConnected \/ RunsFault \/ RunsResponse \/ RunsApply)
      /\ UNCHANGED <<link, up, subs, waits, conn, dialing, loops, toTornado>>
  BY RunCothreadDoes
<1>3. 1 \in 1 .. Len(toCothread)
  BY <1>2, TailItems
<1>4. OldFaults(toCothread, conn, link) /\ OldFaults(items, conn, link)
  BY DEF ConnFits, OneConnection
<1> HIDE DEF call
<1>5. Dials' <=> Dials
  BY <1>2 DEF Dials
<1>6. ASSUME Tells' <=> Tells, AtMostOne(items', "connected"), OldFaults(items', conn, link),
             No(toCothread', "connected") \/ No(items', "connected"), ReadyFits'
      PROVE  ConnFits'
  <2>1. OneConnection'
    BY <1>1, <1>2, <1>5, <1>6 DEF ConnFits, OneConnection, OneStarts
  <2>2. BlocksAsked'
    BY <1>2, <1>6 DEF ConnFits, BlocksAsked, SendsBlocks
  <2> QED BY <1>6, <2>1, <2>2 DEF ConnFits
<1>7. CASE RunsConnected
  <2>1. call.do = "connected" /\ Added(items', items, call) /\ state' = state
    BY <1>2, <1>7 DEF RunsConnected
  <2>2. No(toCothread', "connected") /\ ~No(toCothread, "connected")
    BY <1>1, <2>1
  <2>3. No(items, "connected")
    BY <2>2 DEF ConnFits, OneConnection, OneStarts
  <2>4. AtMostOne(items', "connected") /\ ~No(items', "connected")
    BY <2>1, <2>3, NoAdded
  <2>5. Tells' <=> Tells
    BY <2>2, <2>4 DEF Tells
  <2>6. OldFaults(items', conn, link)
    BY <1>4, <2>1, FaultsAdded
  <2>7. ReadyFits'
    BY <1>1, <1>2, <2>1, <2>5 DEF ConnFits, ReadyFits
  <2> QED BY <1>6, <2>2, <2>4, <2>5, <2>6, <2>7
<1>8. CASE RunsFault
  <2>1. /\ call.do = "fault" /\ state' \in {"Disabling", "Fault", "Disabled"}
        /\ items' = items \/ Added(items', items, call)
    BY <1>2, <1>8 DEF RunsFault, MayFault, Types, ClientTypes
  <2>2. ReadyFits'
    BY <2>1 DEF ReadyFits
  <2>3. (No(items', "connected") <=> No(items, "connected")) /\ AtMostOne(items', "connected")
    BY <2>1, NoAdded DEF ConnFits, OneConnection, OneStarts
  <2>4. Tells' <=> Tells
    BY <1>1, <2>1, <2>3 DEF Tells
  <2>5. call.conn \in Conns \ {conn} /\ link[call.conn] # "new"
    BY <1>3, <1>4, <2>1 DEF OldFaults, call
  <2>6. OldFaults(items', conn, link)
    BY <1>4, <2>1, <2>5, FaultsAdded
  <2>7. No(toCothread', "connected") \/ No(items', "connected")
    BY <1>1, <2>1, <2>3 DEF ConnFits, OneConnection, OneStarts
  <2> QED BY <1>6, <2>2, <2>3, <2>4, <2>6, <2>7
<1>9. CASE RunsResponse \/ RunsApply
  <2>1. call.do \in {"response", "apply"} /\ state' = state /\ items' = items
    BY <1>2, <1>9 DEF RunsResponse, RunsApply
  <2>2. Tells' <=> Tells
    BY <1>1, <2>1 DEF Tells
  <2>3. ReadyFits'
    BY <1>1, <1>2, <2>1, <2>2 DEF ConnFits, ReadyFits
  <2>4. AtMostOne(items, "connected") /\ (No(toCothread', "connected") \/ No(items, "connected"))
    BY <1>1, <2>1 DEF ConnFits, OneConnection, OneStarts
  <2> QED BY <1>4, <1>6, <2>1, <2>2, <2>3, <2>4
<1> QED BY <1>2, <1>7, <1>8, <1>9

\* Of what cothreads, tornado's thread and its connections do, nothing changes.
LEMMA OthersFit ==
  ASSUME ConnFits, \A c \in Conns : link'[c] = "new" <=> link[c] = "new", BlocksAsked',
         UNCHANGED <<state, waits, items, conn, dialing, loops, toTornado, toCothread>>
  PROVE  ConnFits'
<1>1. (Dials' <=> Dials) /\ (Tells' <=> Tells)
  BY DEF Dials, Tells
<1>2. OldFaults(toCothread, conn, link') /\ OldFaults(items, conn, link')
  BY FaultsSame DEF ConnFits, OneConnection
<1>3. OneConnection'
  BY <1>1, <1>2 DEF ConnFits, OneConnection, OneStarts
<1>4. ReadyFits'
  BY <1>1 DEF ConnFits, ReadyFits
<1> QED BY <1>3, <1>4 DEF ConnFits

LEMMA LoseFits ==
  ASSUME Types, AreMet, ConnFits, Lose
  PROVE  ConnFits'
<1>1. PICK c \in Conns :
        /\ link[c] = "open" /\ Closes(c) /\ up' = [up EXCEPT ![c] = << >>]
        /\ UNCHANGED <<subs, state, waits, items, conn, dialing, loops, toTornado, toCothread>>
  BY LoseDoes
<1>2. /\ \A d \in Conns : link'[d] = "new" <=> link[d] = "new"
      /\ \A d \in Conns : link[d] = "closed" => link'[d] = "closed"
      /\ link'[c] = "closed"
  BY <1>1, LinksClose
<1>3. \A d \in Conns : d # c => up'[d] = up[d]
  BY <1>1 DEF Types, ServerTypes
<1>4. conn # None => conn \in Conns
  BY DEF Types, ClientTypes
<1>5. Tells' <=> Tells
  BY <1>1 DEF Tells
<1>6. BlocksAsked'
  <2>1. BlocksAsked
    BY DEF ConnFits
  <2>2. conn # None /\ link'[conn] # "closed" => up'[conn] = up[conn]
    BY <1>2, <1>3, <1>4
  <2> QED BY <1>1, <1>2, <1>4, <1>5, <2>1, <2>2, StillAsked
<1> QED BY <1>1, <1>2, <1>6, OthersFit

\* The server takes a request to the list of blocks for a subscription to it.
LEMMA ServerFits ==
  ASSUME Types, AsksOnce, AreMet, ConnFits, BlockChanges \/ ServerStep, UNCHANGED clientVars
  PROVE  ConnFits'
<1>1. UNCHANGED <<state, waits, items, conn, dialing, loops, toTornado, toCothread>>
  BY DEF clientVars
<1>2. conn # None => conn \in Conns
  BY DEF Types, ClientTypes
<1>3. Tells' <=> Tells
  BY <1>1 DEF Tells
<1>4. BlocksAsked
  BY DEF ConnFits
<1>5. ASSUME UNCHANGED <<link, up, subs>> PROVE ConnFits'
  <2>1. BlocksAsked'
    BY <1>1, <1>3, <1>4, <1>5 DEF BlocksAsked, SendsBlocks
  <2> QED BY <1>1, <1>5, <2>1, OthersFit
<1>6. CASE BlockChanges
  BY <1>5, <1>6, BlockChangesDoes
<1>7. ASSUME NEW c \in Conns, Handle(c) PROVE ConnFits'
  <2> DEFINE r == Head(up[c])
  <2>1. /\ r \in Asking /\ r = up[c][1] /\ Taken(up'[c], up[c]) /\ \A d \in Conns : d # c => up'[d] = up[d]
        /\ link' = link
    BY <1>7, HandleTakes
  <2> HIDE DEF r
  <2>2. /\ \A s \in subs : s \in subs'
        /\ r.what = "blocks" => \E s \in subs' : s.conn = c /\ s.of = "blocks"
    <3>1. CASE Subscribe(c, r)
      <4>1. subs' = subs \cup {Subscription(c, r.id, r.what)}
        BY <2>1, <3>1, SubscribeDoes
      <4>2. Subscription(c, r.id, r.what).conn = c /\ Subscription(c, r.id, r.what).of = r.what
        BY DEF Subscription
      <4> QED BY <4>1, <4>2
    <3>2. CASE Put(c, r)
      BY <2>1, <3>2, PutDoes
    <3> QED BY <1>7, <3>1, <3>2 DEF Handle, r
  <2>3. ASSUME NEW d \in Conns, NEW i \in 1 .. Len(up[d]), up[d][i].what = "blocks"
        PROVE  \/ \E j \in 1 .. Len(up'[d]) : up'[d][j] = up[d][i]
               \/ \E s \in subs' : s.conn = d /\ s.of = "blocks"
    <3>1. CASE d = c /\ i = 1
      BY <2>1, <2>2, <2>3, <3>1
    <3>2. CASE d = c /\ i # 1
      BY <2>1, <3>2 DEF Taken
    <3>3. CASE d # c
      BY <2>1, <3>3
    <3> QED BY <3>1, <3>2, <3>3
  <2>4. BlocksAsked'
    BY <1>1, <1>2, <1>3, <1>4, <2>1, <2>2, <2>3, StillAsked
  <2> QED BY <1>1, <2>1, <2>4, OthersFit
<1>8. CASE Answer
  BY <1>5, <1>8, AnswerDoes
<1>9. CASE Forget
  <2>1. PICK s \in subs : link[s.conn] = "closed" /\ subs' = subs \ {s}
    BY <1>9 DEF Forget
  <2>2. UNCHANGED <<link, up>>
    BY <1>9 DEF Forget
  <2>3. BlocksAsked'
    BY <1>1, <1>3, <1>4, <2>1, <2>2, StillAsked
  <2> QED BY <1>1, <2>2, <2>3, OthersFit
<1> QED BY <1>6, <1>7, <1>8, <1>9 DEF ServerStep

\* What is stale stays so.
LEMMA StaleStays ==
  ASSUME Types, ClientNext \/ UNCHANGED vars, stale PROVE stale'
<1>1. CASE UNCHANGED vars
  BY <1>1 DEF vars, clientVars
<1>2. CASE (BlockChanges \/ ServerStep) /\ UNCHANGED clientVars
  BY <1>2 DEF clientVars
<1>3. CASE ClientStarted \/ ClientStopped
  BY <1>3 DEF ClientStarted, ClientStopped, GetItem
<1> QED BY <1>1, <1>2, <1>3, StepIs, StartDoes, StopDoes, TimesOutDoes, SyncDoes, SendPutDoes,
           RunTornadoDoes, ConnectDoes, ReadMessageDoes, ReadNoneDoes, RunCothreadDoes, LoseDoes

LEMMA ConnKept ==
  ASSUME Types, AsksOnce, AreMet, ConnInv, ClientNext \/ UNCHANGED vars PROVE ConnInv'
<1> SUFFICES ASSUME ~stale' PROVE ConnFits'
  BY DEF ConnInv
<1>1. ConnFits
  BY StaleStays DEF ConnInv
<1>2. CASE UNCHANGED vars
  <2>1. UNCHANGED <<link, up, subs, state, waits, items, conn, dialing, loops, toTornado, toCothread>>
    BY <1>2 DEF vars, serverVars, clientVars
  <2>2. Tells' <=> Tells
    BY <2>1 DEF Tells
  <2>3. BlocksAsked'
    BY <1>1, <2>1, <2>2 DEF ConnFits, BlocksAsked, SendsBlocks
  <2> QED BY <1>1, <2>1, <2>3, OthersFit
<1> QED BY <1>1, <1>2, StepIs, ServerFits, StartFits, StopFits, StartedFits, StoppedFits, TimeoutFits,
           SentFitsConn, TornadoFits, ConnectFits, ReadMessageFits, ReadNoneFits, RunCothreadFits, LoseFits

--------------------------------------------------------------------------------
(***************************************************************************)
(* A comms block that is Ready is connected.                               *)
(***************************************************************************)
LEMMA InitFits ==
  ASSUME Init PROVE Types /\ AreMet /\ AsksOnce /\ IdsDiffer /\ ConnInv
<1>1. /\ link = [c \in Conns |-> "new"] /\ up = [c \in Conns |-> << >>] /\ down = [c \in Conns |-> << >>]
      /\ owed = {} /\ remote = [f \in Own |-> 0] /\ subs = {} /\ changes = 0
      /\ state = "Disabled" /\ waits = {} /\ loops = {} /\ items = << >> /\ dialing = 0
      /\ conn = None /\ lookup = << >> /\ nextId = 1 /\ toTornado = << >> /\ toCothread = << >>
      /\ answer = [p \in Puts |-> "none"] /\ proxy = "none" /\ shadow = << >> /\ stale = FALSE
  BY DEF Init, ServerInit
<1>2. Len(<< >>) = 0 /\ 1 .. 0 = {} /\ DOMAIN << >> = {}
  OBVIOUS
<1>3. ServerTypes
  <2>1. \A f \in DOMAIN remote : remote[f] <= changes
    BY <1>1
  <2>2. remote \in Whole
    BY <1>1, OwnIsWhole
  <2>3. \A S : << >> \in Seq(S)
    OBVIOUS
  <2>4. /\ link \in [Conns -> {"new", "open", "closed"}]
        /\ up \in [Conns -> Seq(Asking)] /\ down \in [Conns -> Seq(Responses)]
    BY <1>1, <2>3
  <2> QED BY <1>1, <2>1, <2>2, <2>4 DEF ServerTypes
<1>4. ClientTypes
  <2>1. << >> \in [{} -> Nat] /\ {} \in SUBSET Known
    BY <1>2
  <2>2. shadow \in Partial
    BY <1>1, <2>1 DEF Partial
  <2>3. DOMAIN lookup = {}
    BY <1>1, <1>2
  <2>4. items \in Seq([do : {"connected", "fault"}, conn : Conns])
        /\ toTornado \in Seq(ToTornado) /\ toCothread \in Seq(ToCothread)
    BY <1>1
  <2>5. answer \in [Puts -> {"none", "waiting", "failed"} \cup Puts]
    BY <1>1
  <2>6. DOMAIN lookup \in SUBSET (1 .. nextId - 1) /\ \A i \in DOMAIN lookup : lookup[i] \in Sending
    BY <2>3
  <2>7. /\ state \in {"Disabled", "Resetting", "Ready", "Disabling", "Fault"}
        /\ waits \in SUBSET {"start", "stop"} /\ conn \in Conns \cup {None}
        /\ dialing \in Nat /\ nextId \in Nat \ {0} /\ loops \in SUBSET Conns
        /\ proxy \in {"none", "waiting", "done"} /\ stale \in BOOLEAN
    <3>1. /\ state = "Disabled" /\ waits = {} /\ loops = {} /\ dialing = 0 /\ conn = None /\ nextId = 1
          /\ proxy = "none" /\ stale = FALSE
      BY <1>1
    <3>2. stale \in BOOLEAN
      BY <3>1
    <3>3. dialing \in Nat /\ nextId \in Nat \ {0}
      BY <3>1
    <3> QED BY <3>1, <3>2, <3>3, Zenon
  <2> QED BY <2>2, <2>4, <2>5, <2>6, <2>7 DEF ClientTypes
<1>5. AreMet
  BY <1>1, <1>2 DEF AreMet
<1>6. AsksOnce
  BY <1>1, <1>2 DEF AsksOnce, NoneSent, NoneAsked, NoneServed, NothingTold, SentOnce, AskedOnce, ServedOnce
<1>7. IdsDiffer
  BY <1>1, <1>2 DEF IdsDiffer, OfBlock, OfPut
<1>8. ConnInv
  <2>1. \A do : No(<< >>, do) /\ AtMostOne(<< >>, do)
    BY <1>2 DEF No, AtMostOne
  <2>2. ~Dials /\ ~Tells
    BY <1>1, <2>1 DEF Dials, Tells
  <2>3. OldFaults(<< >>, conn, link)
    BY <1>2 DEF OldFaults
  <2> QED BY <1>1, <2>1, <2>2, <2>3 DEF ConnInv, ConnFits, OneConnection, OneStarts, ReadyFits, BlocksAsked
<1> QED BY <1>3, <1>4, <1>5, <1>6, <1>7, <1>8 DEF Types

LEMMA TypesSuffice ==
  ASSUME Types PROVE TypeOK
<1>1. \E fs \in SUBSET Fields : Own \subseteq fs /\ remote \in [fs -> 0 .. changes]
  <2>1. PICK fs \in SUBSET Known : Own \subseteq fs /\ remote \in [fs -> Nat]
    BY DEF Types, ServerTypes, Whole
  <2>2. changes \in Nat /\ \A f \in fs : remote[f] \in Nat /\ remote[f] <= changes
    BY <2>1 DEF Types, ServerTypes
  <2>3. \A f \in fs : remote[f] \in 0 .. changes
    BY <2>2
  <2>4. remote \in [fs -> 0 .. changes] /\ fs \in SUBSET Fields
    BY <2>1, <2>3, NamesDiffer
  <2> QED BY <2>1, <2>4
<1>2. (\A r \in owed : r.conn \in Conns) /\ (\A s \in subs : s.conn \in Conns)
  BY DEF Types, ServerTypes, Responses, Subscriptions
<1>3. ServerTypeOK
  BY <1>1, <1>2 DEF Types, ServerTypes, ServerTypeOK
<1>4. DOMAIN shadow \subseteq Fields
  BY NamesDiffer DEF Types, ClientTypes, Partial
<1> QED BY <1>3, <1>4 DEF Types, ClientTypes, TypeOK

LEMMA FitsSuffices ==
  ASSUME Types, ConnInv PROVE ReadyIsConnected
<1> SUFFICES ASSUME Quiet, state = "Ready", ~stale
             PROVE  Connected /\ \E s \in subs : s.conn = conn /\ s.of = "blocks"
  BY TypesSuffice DEF ReadyIsConnected
<1>1. OneConnection /\ ReadyFits /\ BlocksAsked
  BY DEF ConnInv, ConnFits
<1>2. Len(toTornado) = 0 /\ Len(toCothread) = 0 /\ 1 .. 0 = {}
  BY DEF Quiet
<1>3. No(toCothread, "fault")
  BY <1>2 DEF No
<1>4. conn # None
  BY <1>1, <1>3 DEF ReadyFits
<1>5. loops = {conn} /\ conn \in Conns
  BY <1>1, <1>4 DEF OneConnection, Types, ClientTypes
<1>6. Connected
  BY <1>4, <1>5 DEF Connected, Quiet
<1>7. ~Tells
  BY <1>1 DEF OneConnection, OneStarts, Quiet
<1>8. Len(up[conn]) = 0
  BY <1>5 DEF Quiet
<1>9. \E s \in subs : s.conn = conn /\ s.of = "blocks"
  BY <1>1, <1>2, <1>4, <1>6, <1>7, <1>8 DEF BlocksAsked, Connected
<1> QED BY <1>6, <1>9

\* A comms block that is Ready when all is said has a connection that is read from and
\* over which it is told of the server's blocks: _stop_client() and _start_client() of
\* websocketclientcomms.py, unless a wait was cut short by an item that an earlier loss
\* had left.
THEOREM ReadyIsConnectedHolds == ClientSpec => []ReadyIsConnected
<1>1. Init => Types /\ AreMet /\ AsksOnce /\ IdsDiffer /\ ConnInv
  BY InitFits
<1>2. Types /\ AreMet /\ AsksOnce /\ IdsDiffer /\ ConnInv /\ [ClientNext]_vars =>
        (Types /\ AreMet /\ AsksOnce /\ IdsDiffer /\ ConnInv)'
  BY TypesKept, MetKept, AskedKept, NamedKept, ConnKept
<1>3. Types /\ ConnInv => ReadyIsConnected
  BY FitsSuffices
<1> QED BY <1>1, <1>2, <1>3, PTL DEF ClientSpec

--------------------------------------------------------------------------------
(***************************************************************************)
(* A request of the proxy is sent over a connection that was made before.  *)
(***************************************************************************)
Follows == SentFits /\ LookedUp

LEMMA FollowedTaken ==
  ASSUME NEW new, NEW old, Taken(new, old), Followed(old)
  PROVE  Followed(new)
<1> SUFFICES ASSUME NEW i \in 1 .. Len(new), new[i].do = "fault"
             PROVE  \E j \in 1 .. Len(new) : new[j].do = "connected" /\ i < j
  BY DEF Followed
<1>1. i \in Nat /\ i + 1 \in 1 .. Len(old) /\ old[i + 1].do = "fault"
  BY DEF Taken
<1>2. PICK j \in 1 .. Len(old) : old[j].do = "connected" /\ i + 1 < j
  BY <1>1 DEF Followed
<1>3. j # 1 /\ j \in Int
  BY <1>1, <1>2
<1>4. j - 1 \in 1 .. Len(new) /\ new[j - 1].do = "connected"
  BY <1>2, <1>3 DEF Taken
<1>5. i < j - 1
  BY <1>1, <1>2, <1>3
<1> QED BY <1>4, <1>5

LEMMA FollowedAdded ==
  ASSUME NEW new, NEW old, NEW call, Added(new, old, call), call.do # "fault",
         Followed(old) \/ call.do = "connected"
  PROVE  Followed(new)
<1> SUFFICES ASSUME NEW i \in 1 .. Len(new), new[i].do = "fault"
             PROVE  \E j \in 1 .. Len(new) : new[j].do = "connected" /\ i < j
  BY DEF Followed
<1>1. i \in 1 .. Len(old) /\ old[i].do = "fault" /\ Len(old) \in Nat
  BY DEF Added
<1>2. CASE call.do = "connected"
  <2>1. i < Len(old) + 1
    BY <1>1
  <2> QED BY <1>2, <2>1 DEF Added
<1>3. CASE Followed(old)
  <2>1. PICK j \in 1 .. Len(old) : old[j].do = "connected" /\ i < j
    BY <1>1, <1>3 DEF Followed
  <2>2. j \in 1 .. Len(new) /\ new[j] = old[j]
    BY DEF Added
  <2> QED BY <2>1, <2>2
<1> QED BY <1>2, <1>3

LEMMA BeforeTaken ==
  ASSUME NEW new, NEW old, Taken(new, old), SentBefore(old)
  PROVE  SentBefore(new)
<1> SUFFICES ASSUME NEW i \in 1 .. Len(new), NEW j \in 1 .. Len(new), new[i].do = "recv", SendsBlock(new[j])
             PROVE  j < i
  BY DEF SentBefore
<1>1. i + 1 \in 1 .. Len(old) /\ j + 1 \in 1 .. Len(old) /\ new[i] = old[i + 1] /\ new[j] = old[j + 1]
  BY DEF Taken
<1>2. j + 1 < i + 1
  BY <1>1 DEF SentBefore
<1>3. i \in Nat /\ j \in Nat
  OBVIOUS
<1> QED BY <1>2, <1>3

LEMMA BeforeAdded ==
  ASSUME NEW new, NEW old, NEW call, Added(new, old, call), ~SendsBlock(call) \/ No(old, "recv"),
         call.do # "recv" \/ ~SendsBlock(call), SentBefore(old)
  PROVE  SentBefore(new)
<1> SUFFICES ASSUME NEW i \in 1 .. Len(new), NEW j \in 1 .. Len(new), new[i].do = "recv", SendsBlock(new[j])
             PROVE  j < i
  BY DEF SentBefore
<1>1. Len(old) \in Nat /\ i \in Nat /\ j \in Nat
  BY DEF Added
<1>2. \/ i \in 1 .. Len(old) /\ new[i] = old[i]
      \/ i = Len(old) + 1 /\ new[i] = call
  BY DEF Added
<1>3. \/ j \in 1 .. Len(old) /\ new[j] = old[j]
      \/ j = Len(old) + 1 /\ new[j] = call
  BY DEF Added
<1>4. CASE i \in 1 .. Len(old) /\ new[i] = old[i] /\ j \in 1 .. Len(old) /\ new[j] = old[j]
  BY <1>4 DEF SentBefore
<1>5. CASE i = Len(old) + 1 /\ new[i] = call /\ j \in 1 .. Len(old)
  BY <1>1, <1>5
<1>6. CASE j = Len(old) + 1 /\ new[j] = call
  <2>1. No(old, "recv") /\ call.do # "recv"
    BY <1>6
  <2> QED BY <1>2, <2>1 DEF No
<1> QED BY <1>2, <1>3, <1>4, <1>5, <1>6

\* Nothing is asked or served on the present connection that was not before.
LEMMA LooksUp ==
  ASSUME LookedUp, conn' = conn, No(toCothread, "fault") => No(toCothread', "fault"),
         \A id \in Nat : (IsAsked(id)' => IsAsked(id) \/ IsServed(id)) /\ (IsServed(id)' => IsAsked(id) \/ IsServed(id)),
         \A id \in Nat : conn # None /\ (IsAsked(id) \/ IsServed(id)) /\ id \in DOMAIN lookup /\ lookup[id].what = "block" =>
           id \in DOMAIN lookup' /\ lookup'[id].what = "block"
  PROVE  LookedUp'
<1> SUFFICES ASSUME NEW id \in Nat, conn # None, IsAsked(id)' \/ IsServed(id)'
             PROVE  No(toCothread', "fault") /\ id \in DOMAIN lookup' /\ lookup'[id].what = "block"
  BY DEF LookedUp, No
<1>1. IsAsked(id) \/ IsServed(id)
  OBVIOUS
<1>2. No(toCothread, "fault") /\ id \in DOMAIN lookup /\ lookup[id].what = "block"
  BY <1>1 DEF LookedUp
<1> QED BY <1>1, <1>2

LEMMA AskedStill ==
  ASSUME UNCHANGED <<up, subs, conn>>, NEW id
  PROVE  (IsAsked(id)' <=> IsAsked(id)) /\ (IsServed(id)' <=> IsServed(id))
BY DEF IsAsked, IsServed

\* Cothreads leave connections and what is asked over them alone.
LEMMA CothreadsLookUp ==
  ASSUME Follows, conn' = conn, UNCHANGED <<up, subs, lookup, toCothread>>
  PROVE  LookedUp' /\ (conn' # None => Followed(toCothread'))
<1>1. \A id \in Nat : (IsAsked(id)' <=> IsAsked(id)) /\ (IsServed(id)' <=> IsServed(id))
  BY AskedStill
<1>2. LookedUp'
  BY <1>1, LooksUp DEF Follows
<1> QED BY <1>2 DEF Follows, SentFits

LEMMA CothreadsFollow ==
  ASSUME Types, AreMet, AsksOnce, ConnFits, Follows, ~stale',
         \/ StartClient \/ StopClient \/ ClientStarted \/ ClientStopped \/ WaitTimesOut \/ SyncProxy
         \/ \E p \in Puts : SendPut(p)
  PROVE  Follows'
<1>1. /\ conn' = conn /\ UNCHANGED <<up, subs, lookup, toCothread, dialing>>
      /\ Tells' => Tells
  <2>1. CASE StartClient
    BY <2>1, StartDoes DEF Tells
  <2>2. CASE StopClient
    BY <2>2, StopDoes DEF Tells
  <2>3. CASE ClientStarted
    <3>1. Taken(items', items) /\ UNCHANGED <<up, subs, lookup, toCothread, dialing, conn>>
      BY <2>3, StartedDoes
    <3> QED BY <3>1, NoTaken DEF Tells
  <2>4. CASE ClientStopped
    <3>1. Taken(items', items) /\ UNCHANGED <<up, subs, lookup, toCothread, dialing>> /\ conn' = None
      BY <2>4, StoppedDoes
    <3>2. conn = None
      BY <2>4, EndedBefore
    <3> QED BY <3>1, <3>2, NoTaken DEF Tells
  <2>5. CASE WaitTimesOut
    BY <2>5, TimesOutDoes DEF Tells
  <2>6. CASE SyncProxy
    BY <2>6, SyncDoes DEF Tells
  <2>7. CASE \E p \in Puts : SendPut(p)
    BY <2>7, SendPutDoes DEF Tells
  <2> QED BY <2>1, <2>2, <2>3, <2>4, <2>5, <2>6, <2>7
<1>2. LookedUp' /\ (conn' # None => Followed(toCothread'))
  BY <1>1, CothreadsLookUp
<1>3. (dialing > 0 \/ Tells => NoneSent) /\ SentBefore(toTornado)
  BY DEF Follows, SentFits
<1>4. (dialing' > 0 \/ Tells' => NoneSent') /\ SentBefore(toTornado')
  <2>1. ASSUME NEW call, Added(toTornado', toTornado, call), ~SendsBlock(call)
        PROVE  <1>4!:
    <3>1. (NoneSent => NoneSent') /\ SentBefore(toTornado')
      BY <1>3, <2>1, SentAdded, BeforeAdded
    <3> QED BY <1>1, <1>3, <3>1
  <2>2. ASSUME toTornado' = toTornado
        PROVE  <1>4!:
    <3>1. NoneSent => NoneSent'
      BY <2>2, SentSame
    <3> QED BY <1>1, <1>3, <2>2, <3>1
  <2>3. CASE SyncProxy
    <3>1. state = "Ready" /\ Added(toTornado', toTornado, Send([what |-> "block"]))
      BY <2>3, SyncDoes
    <3>2. ~Dials /\ ~Tells
      BY <3>1 DEF ConnFits, OneConnection, OneStarts, ReadyFits
    <3>3. No(toTornado, "recv") /\ ~(dialing > 0)
      BY <3>2 DEF Dials
    <3>4. Send([what |-> "block"]).do # "recv"
      BY DEF Send
    <3>5. SentBefore(toTornado')
      BY <1>3, <3>1, <3>3, <3>4, BeforeAdded
    <3> QED BY <1>1, <3>2, <3>3, <3>5
  <2>4. CASE StartClient
    <3>1. ~SendsBlock([do |-> "recv"])
      BY DEF SendsBlock
    <3> QED BY <2>1, <2>2, <2>4, <3>1, StartDoes
  <2>5. CASE StopClient
    <3>1. ~SendsBlock([do |-> "close", conn |-> conn])
      BY DEF SendsBlock
    <3> QED BY <2>1, <2>2, <2>5, <3>1, StopDoes
  <2>6. CASE ClientStarted
    <3>1. ~SendsBlock(Send(Blocks))
      BY DEF SendsBlock, Send, Blocks
    <3> QED BY <2>1, <2>6, <3>1, StartedDoes
  <2>7. CASE ClientStopped \/ WaitTimesOut
    BY <2>2, <2>7, StoppedDoes, TimesOutDoes
  <2>8. CASE \E p \in Puts : SendPut(p)
    <3>1. \A f, p : ~SendsBlock(Send([what |-> "put", field |-> f, by |-> p]))
      BY DEF SendsBlock, Send
    <3> QED BY <2>1, <2>8, <3>1, SendPutDoes
  <2> QED BY <2>3, <2>4, <2>5, <2>6, <2>7, <2>8
<1> QED BY <1>2, <1>4 DEF Follows, SentFits

LEMMA TornadoFollows ==
  ASSUME Types, AreMet, AsksOnce, ConnFits, Follows, RunTornado
  PROVE  Follows'
<1>1. /\ Head(toTornado) = toTornado[1] /\ Taken(toTornado', toTornado)
      /\ (RunsRecv \/ RunsClose \/ RunsSend)
      /\ UNCHANGED <<subs, items, conn, toCothread>>
  BY RunTornadoDoes
<1>2. (NoneSent => NoneSent') /\ SentBefore(toTornado')
  BY <1>1, SentTaken, BeforeTaken DEF Follows, SentFits
<1>3. Tells' <=> Tells
  BY <1>1 DEF Tells
<1>4. ASSUME dialing' = dialing \/ NoneSent, LookedUp' PROVE Follows'
  BY <1>1, <1>2, <1>3, <1>4 DEF Follows, SentFits
<1>5. CASE RunsRecv
  <2>1. NoneSent
    <3> SUFFICES ASSUME NEW i \in 1 .. Len(toTornado), SendsBlock(toTornado[i]) PROVE FALSE
      BY DEF NoneSent
    <3>1. 1 \in 1 .. Len(toTornado) /\ toTornado[1].do = "recv"
      BY <1>1, <1>5 DEF RunsRecv, Taken
    <3>2. i < 1
      BY <3>1 DEF Follows, SentFits, SentBefore
    <3>3. i \in Nat /\ i >= 1
      OBVIOUS
    <3> QED BY <3>2, <3>3
  <2>2. LookedUp'
    BY <1>1, <1>5, CothreadsLookUp DEF RunsRecv
  <2> QED BY <1>4, <2>1, <2>2
<1>6. CASE RunsClose
  <2>1. LookedUp'
    BY <1>1, <1>6, CothreadsLookUp DEF RunsClose
  <2> QED BY <1>4, <1>6, <2>1 DEF RunsClose
<1>7. CASE RunsSend
  <2> DEFINE request == Head(toTornado).request
  <2>1. Head(toTornado).do = "send" /\ request \in Sending /\ SendRequest(request)
    BY <1>7 DEF RunsSend
  <2>2. request.what = "block" => SendsBlock(toTornado[1])
    BY <1>1, <2>1 DEF SendsBlock
  <2> HIDE DEF request
  <2>3. /\ dialing' = dialing /\ nextId \notin DOMAIN lookup
        /\ DOMAIN lookup' = DOMAIN lookup \cup {nextId} /\ lookup'[nextId] = request
        /\ \A i \in DOMAIN lookup : lookup'[i] = lookup[i]
        /\ \/ up' = up
           \/ /\ conn \in Conns /\ WithId(request) \in Asking
              /\ Added(up'[conn], up[conn], WithId(request))
    BY <2>1, SendDoes
  <2>4. WithId(request).what = request.what /\ WithId(request).id = nextId
    BY <2>1, RequestIs DEF Types, ClientTypes
  <2>5. ASSUME NEW id \in Nat, conn # None, IsAsked(id)' \/ IsServed(id)'
        PROVE  IsAsked(id) \/ IsServed(id) \/ (id = nextId /\ request.what = "block")
    <3>1. CASE IsServed(id)'
      BY <1>1, <3>1 DEF IsServed
    <3>2. CASE IsAsked(id)'
      <4>1. PICK i \in 1 .. Len(up'[conn]) : up'[conn][i].what = "block" /\ up'[conn][i].id = id
        BY <1>1, <3>2 DEF IsAsked
      <4>2. up'[conn][i] = WithId(request) \/ (i \in 1 .. Len(up[conn]) /\ up'[conn][i] = up[conn][i])
        BY <2>3 DEF Added
      <4> QED BY <2>4, <4>1, <4>2 DEF IsAsked
    <3> QED BY <2>5, <3>1, <3>2
  <2>6. request.what = "block" /\ conn # None => No(toCothread, "fault")
    <3> SUFFICES ASSUME request.what = "block", conn # None,
                        NEW i \in 1 .. Len(toCothread), toCothread[i].do = "fault"
                 PROVE  FALSE
      BY DEF No
    <3>1. ~No(toCothread, "connected")
      BY DEF Follows, SentFits, Followed, No
    <3>2. NoneSent
      BY <3>1 DEF Follows, SentFits, Tells
    <3>3. 1 \in 1 .. Len(toTornado)
      BY <1>1 DEF Taken
    <3> QED BY <2>2, <3>2, <3>3 DEF NoneSent
  <2>7. LookedUp'
    <3> SUFFICES ASSUME NEW id \in Nat, conn # None, IsAsked(id)' \/ IsServed(id)'
                 PROVE  No(toCothread, "fault") /\ id \in DOMAIN lookup' /\ lookup'[id].what = "block"
      BY <1>1 DEF LookedUp, No
    <3>1. CASE IsAsked(id) \/ IsServed(id)
      BY <2>3, <3>1 DEF Follows, LookedUp
    <3>2. CASE id = nextId /\ request.what = "block"
      BY <2>3, <2>6, <3>2
    <3> QED BY <2>5, <3>1, <3>2
  <2> QED BY <1>4, <2>3, <2>7
<1> QED BY <1>1, <1>5, <1>6, <1>7

LEMMA ConnectFollows ==
  ASSUME Types, AreMet, AsksOnce, ConnFits, Follows, Connect
  PROVE  Follows'
<1>1. /\ dialing > 0 /\ dialing' = dialing - 1
      /\ UNCHANGED <<up, subs, lookup, items, toTornado>>
  BY ConnectDoes
<1>2. NoneSent /\ NoneSent' /\ SentBefore(toTornado)
  <2>1. NoneSent
    BY <1>1 DEF Follows, SentFits
  <2> QED BY <1>1, <2>1, SentSame DEF Follows, SentFits
<1>3. SentFits' /\ LookedUp'
  <2>1. ASSUME NEW c \in Conns, Makes(c) PROVE SentFits' /\ LookedUp'
    <3> DEFINE call == [do |-> "connected", conn |-> c]
    <3>1. /\ \A d \in Conns : link[d] = "new" <=> d >= c
          /\ conn' = c /\ Added(toCothread', toCothread, call)
      BY <2>1, MakesDoes
    <3>2. call.do = "connected" /\ call.do # "fault"
      OBVIOUS
    <3> HIDE DEF call
    <3>3. Followed(toCothread')
      BY <3>1, <3>2, FollowedAdded
    <3>4. up[c] = << >> /\ \A s \in subs : s.conn # c
      BY <3>1, NamesDiffer DEF AreMet
    <3>5. \A id \in Nat : ~IsAsked(id)' /\ ~IsServed(id)'
      <4>1. Len(up[c]) = 0 /\ 1 .. 0 = {}
        BY <3>4
      <4> QED BY <1>1, <3>1, <3>4, <4>1 DEF IsAsked, IsServed
    <3>6. LookedUp'
      BY <3>5 DEF LookedUp
    <3> QED BY <1>1, <1>2, <3>3, <3>6 DEF SentFits
  <2>2. CASE UNCHANGED <<link, conn, loops, toCothread>>
    <3>1. LookedUp' /\ (conn' # None => Followed(toCothread'))
      BY <1>1, <2>2, CothreadsLookUp
    <3> QED BY <1>1, <1>2, <3>1 DEF SentFits
  <2> QED BY <2>1, <2>2, ConnectDoes
<1> QED BY <1>3 DEF Follows

\* An answer to a put ends the request of no block.
LEMMA ReadMessageFollows ==
  ASSUME Types, AsksOnce, IdsDiffer, ConnFits, Follows, NEW c \in Conns, ReadMessage(c)
  PROVE  Follows'
<1> DEFINE m == down[c][1]
<1>1. /\ c \in loops /\ m \in Responses /\ 1 \in 1 .. Len(down[c])
      /\ \/ toCothread' = toCothread
         \/ \E q : Added(toCothread', toCothread, [do |-> "response", request |-> q, message |-> m])
      /\ \/ lookup' = lookup
         \/ /\ m.what = "return"
            /\ DOMAIN lookup' = DOMAIN lookup \ {m.id}
            /\ \A i \in DOMAIN lookup' : lookup'[i] = lookup[i]
      /\ UNCHANGED <<up, subs, items, conn, dialing, toTornado>>
  BY ReadMessageDoes
<1>2. m.id \in Nat
  BY <1>1 DEF Responses
<1>3. m.what = "return" => OfPut(m.id)
  BY <1>1 DEF OfPut
<1> HIDE DEF m
<1>4. /\ No(toCothread, "fault") => No(toCothread', "fault")
      /\ No(toCothread', "connected") <=> No(toCothread, "connected")
      /\ Followed(toCothread) => Followed(toCothread')
  <2>1. CASE toCothread' = toCothread
    BY <2>1
  <2>2. ASSUME NEW q, Added(toCothread', toCothread, [do |-> "response", request |-> q, message |-> m])
        PROVE  <1>4!:
    <3> DEFINE call == [do |-> "response", request |-> q, message |-> m]
    <3>1. call.do # "fault" /\ call.do # "connected" /\ Added(toCothread', toCothread, call)
      BY <2>2
    <3> HIDE DEF call
    <3> QED BY <3>1, NoAdded, FollowedAdded
  <2> QED BY <1>1, <2>1, <2>2
<1>5. Tells' <=> Tells
  BY <1>1, <1>4 DEF Tells
<1>6. NoneSent => NoneSent'
  BY <1>1, SentSame
<1>7. SentFits'
  BY <1>1, <1>4, <1>5, <1>6 DEF Follows, SentFits
<1>8. \A id \in Nat : (IsAsked(id)' <=> IsAsked(id)) /\ (IsServed(id)' <=> IsServed(id))
  BY <1>1, AskedStill
<1>9. conn \in Conns
  BY <1>1, NamesDiffer DEF ConnFits, OneConnection
<1>10. ASSUME NEW id \in Nat, IsAsked(id) \/ IsServed(id), id \in DOMAIN lookup, lookup[id].what = "block"
       PROVE  id \in DOMAIN lookup' /\ lookup'[id].what = "block"
  <2>1. OfBlock(id)
    BY <1>9, <1>10 DEF OfBlock, IsAsked, IsServed
  <2>2. m.what = "return" => id # m.id
    BY <1>2, <1>3, <2>1 DEF IdsDiffer
  <2> QED BY <1>1, <1>10, <2>2
<1>11. LookedUp'
  BY <1>1, <1>4, <1>8, <1>10, LooksUp DEF Follows
<1> QED BY <1>7, <1>11 DEF Follows

LEMMA ReadNoneFollows ==
  ASSUME Types, AsksOnce, Follows, NEW c \in Conns, ReadNone(c)
  PROVE  Follows'
<1>1. /\ conn' = None /\ Added(toCothread', toCothread, [do |-> "fault", conn |-> c])
      /\ UNCHANGED <<items, dialing, toTornado>>
  BY ReadNoneDoes
<1>2. No(toCothread', "connected") <=> No(toCothread, "connected")
  <2> DEFINE call == [do |-> "fault", conn |-> c]
  <2>1. call.do # "connected" /\ Added(toCothread', toCothread, call)
    BY <1>1
  <2> HIDE DEF call
  <2> QED BY <2>1, NoAdded
<1>3. (Tells' <=> Tells) /\ (NoneSent => NoneSent')
  BY <1>1, <1>2, SentSame DEF Tells
<1> QED BY <1>1, <1>3 DEF Follows, SentFits, LookedUp

\* Who takes all requests for lost has been told before the proxy has asked.
LEMMA RunCothreadFollows ==
  ASSUME Types, AsksOnce, ConnFits, Follows, RunCothread
  PROVE  Follows'
<1> DEFINE call == toCothread[1]
<1>1. /\ call.do = "connected" => No(toCothread', "connected") /\ ~No(toCothread, "connected")
      /\ call.do # "connected" => (No(toCothread', "connected") <=> No(toCothread, "connected"))
      /\ call.do # "fault" => (No(toCothread', "fault") <=> No(toCothread, "fault"))
  BY CothreadQueue
<1>2. /\ Head(toCothread) = call /\ toCothread # << >> /\ toCothread \in Seq(ToCothread)
      /\ (RunsConnected \/ RunsFault \/ RunsResponse \/ RunsApply)
      /\ \/ /\ Brings(call)
            /\ \E rest : Taken(rest, toCothread) /\ Added(toCothread', rest, Applying(call))
         \/ Taken(toCothread', toCothread)
      /\ UNCHANGED <<up, subs, conn, dialing, toTornado>>
  BY RunCothreadDoes
<1>3. 1 \in 1 .. Len(toCothread)
  BY <1>2, TailItems
<1> HIDE DEF call
<1>4. Followed(toCothread) => Followed(toCothread')
  <2>1. Applying(call).do # "fault"
    BY DEF Applying
  <2> QED BY <1>2, <2>1, FollowedTaken, FollowedAdded
<1>5. Tells' => Tells
  <2>1. CASE call.do = "connected"
    BY <1>1, <2>1 DEF Tells
  <2>2. CASE call.do # "connected"
    <3>1. items' = items \/ (call.do = "fault" /\ Added(items', items, call))
      BY <1>2, <2>2 DEF RunsConnected, RunsFault, RunsResponse, RunsApply
    <3>2. No(items, "connected") => No(items', "connected")
      BY <2>2, <3>1, NoAdded
    <3> QED BY <1>1, <2>2, <3>2 DEF Tells
  <2> QED BY <2>1, <2>2
<1>6. SentFits'
  <2>1. NoneSent => NoneSent'
    BY <1>2, SentSame
  <2> QED BY <1>2, <1>4, <1>5, <2>1 DEF Follows, SentFits
<1>7. LookedUp'
  <2>1. \A id \in Nat : (IsAsked(id)' <=> IsAsked(id)) /\ (IsServed(id)' <=> IsServed(id))
    BY <1>2, AskedStill
  <2>2. CASE call.do = "fault"
    <3>1. ~No(toCothread, "fault")
      BY <1>3, <2>2 DEF No, call
    <3>2. conn # None => \A id \in Nat : ~IsAsked(id) /\ ~IsServed(id)
      BY <3>1 DEF Follows, LookedUp
    <3> QED BY <1>2, <2>1, <3>2 DEF LookedUp
  <2>3. CASE call.do # "fault"
    <3>1. lookup' = lookup
      BY <1>2, <2>3 DEF RunsConnected, RunsFault, RunsResponse, RunsApply
    <3> QED BY <1>1, <1>2, <2>1, <2>3, <3>1, LooksUp DEF Follows
  <2> QED BY <2>2, <2>3
<1> QED BY <1>6, <1>7 DEF Follows

LEMMA LoseFollows ==
  ASSUME Types, AsksOnce, Follows, Lose
  PROVE  Follows'
<1>1. PICK c \in Conns :
        /\ up' = [up EXCEPT ![c] = << >>]
        /\ UNCHANGED <<subs, items, conn, dialing, lookup, toTornado, toCothread>>
  BY LoseDoes
<1>2. conn # None => conn \in Conns
  BY DEF Types, ClientTypes
<1>3. conn # None => up'[conn] = up[conn] \/ Len(up'[conn]) = 0
  BY <1>1, <1>2 DEF Types, ServerTypes
<1>4. \A id \in Nat : conn # None => (IsAsked(id)' => IsAsked(id)) /\ (IsServed(id)' => IsServed(id))
  <2>1. 1 .. 0 = {}
    OBVIOUS
  <2> QED BY <1>1, <1>3, <2>1 DEF IsAsked, IsServed
<1>5. LookedUp'
  BY <1>1, <1>4 DEF Follows, LookedUp, No
<1>6. (Tells' <=> Tells) /\ (NoneSent => NoneSent')
  BY <1>1, SentSame DEF Tells
<1> QED BY <1>1, <1>5, <1>6 DEF Follows, SentFits

\* What the server has been asked for it is asked no more.
LEMMA ServerFollows ==
  ASSUME Types, AsksOnce, Follows, BlockChanges \/ ServerStep, UNCHANGED clientVars
  PROVE  Follows'
<1>1. UNCHANGED <<items, conn, dialing, lookup, toTornado, toCothread>>
  BY DEF clientVars
<1>2. (Tells' <=> Tells) /\ (NoneSent => NoneSent')
  BY <1>1, SentSame DEF Tells
<1>3. conn # None => conn \in Conns
  BY DEF Types, ClientTypes
<1>4. ASSUME \A id \in Nat : conn # None =>
               /\ IsAsked(id)' => IsAsked(id) \/ IsServed(id)
               /\ IsServed(id)' => IsAsked(id) \/ IsServed(id)
      PROVE  Follows'
  <2>1. LookedUp'
    BY <1>1, <1>4 DEF Follows, LookedUp, No
  <2> QED BY <1>1, <1>2, <2>1 DEF Follows, SentFits
<1>5. ASSUME up' = up, subs' \in SUBSET subs PROVE Follows'
  <2>1. \A id \in Nat : (IsAsked(id)' => IsAsked(id)) /\ (IsServed(id)' => IsServed(id))
    BY <1>1, <1>5 DEF IsAsked, IsServed
  <2> QED BY <1>4, <2>1
<1>6. CASE BlockChanges
  BY <1>5, <1>6, BlockChangesDoes
<1>7. ASSUME NEW c \in Conns, Handle(c) PROVE Follows'
  <2> DEFINE r == Head(up[c])
  <2>1. /\ r \in Asking /\ r = up[c][1] /\ Taken(up'[c], up[c]) /\ \A d \in Conns : d # c => up'[d] = up[d]
        /\ 1 \in 1 .. Len(up[c])
    BY <1>7, HandleTakes
  <2> HIDE DEF r
  <2>2. From(up', up)
    BY <2>1, FromTaken
  <2>3. \A id \in Nat : conn # None /\ IsAsked(id)' => IsAsked(id)
    BY <1>1, <1>3, <2>2 DEF From, IsAsked
  <2>4. \A s \in subs' : s \in subs \/ (s.conn = c /\ s.of = r.what /\ s.id = r.id)
    <3>1. CASE Subscribe(c, r)
      <4>1. subs' = subs \cup {Subscription(c, r.id, r.what)}
        BY <2>1, <3>1, SubscribeDoes
      <4>2. Subscription(c, r.id, r.what).conn = c /\ Subscription(c, r.id, r.what).of = r.what
            /\ Subscription(c, r.id, r.what).id = r.id
        BY DEF Subscription
      <4> QED BY <4>1, <4>2
    <3>2. CASE Put(c, r)
      BY <2>1, <3>2, PutDoes
    <3> QED BY <1>7, <3>1, <3>2 DEF Handle, r
  <2>5. \A id \in Nat : IsServed(id)' => IsAsked(id) \/ IsServed(id)
    BY <1>1, <2>1, <2>4 DEF IsServed, IsAsked
  <2> QED BY <1>4, <2>3, <2>5
<1>8. CASE Answer
  BY <1>5, <1>8, AnswerDoes
<1>9. CASE Forget
  BY <1>5, <1>9 DEF Forget
<1> QED BY <1>6, <1>7, <1>8, <1>9 DEF ServerStep

LEMMA FollowsKept ==
  ASSUME Types, AreMet, AsksOnce, IdsDiffer, ConnFits, Follows, ~stale',
         ClientNext \/ UNCHANGED vars
  PROVE  Follows'
<1>1. CASE UNCHANGED vars
  <2>1. UNCHANGED <<up, subs, items, conn, dialing, lookup, toTornado, toCothread>>
    BY <1>1 DEF vars, serverVars, clientVars
  <2>2. (Tells' <=> Tells) /\ (NoneSent => NoneSent')
    BY <2>1, SentSame DEF Tells
  <2>3. LookedUp'
    BY <2>1, CothreadsLookUp
  <2> QED BY <2>1, <2>2, <2>3 DEF Follows, SentFits
<1> QED BY <1>1, StepIs, ServerFollows, CothreadsFollow, TornadoFollows, ConnectFollows,
           ReadMessageFollows, ReadNoneFollows, RunCothreadFollows, LoseFollows

--------------------------------------------------------------------------------
(***************************************************************************)
(* What is told of a field comes in its order.                             *)
(***************************************************************************)
LEMMA PlaceIs ==
  /\ \A p \in Places : p[1] \in {1, 2, 3} /\ p[2] \in Nat \ {0} /\ p = <<p[1], p[2]>>
  /\ \A k \in {1, 2, 3}, n \in Nat \ {0} :
       <<k, n>> \in Places /\ <<k, n>>[1] = k /\ <<k, n>>[2] = n
BY DEF Places

\* What a change that is pending says
LEMMA PendingSays ==
  ASSUME Types, ~FieldsChange, conn \in Conns, NEW p \in Places, NEW f \in Own, Pending(p, f)
  PROVE  At(p) \in Changing /\ Says(At(p), f) \in Nat /\ remote[f] \in Nat
<1>1. p[1] \in {1, 2, 3} /\ p[2] \in Nat \ {0}
  BY PlaceIs
<1>2. toCothread \in Seq(ToCothread) /\ down[conn] \in Seq(Responses)
  BY DEF Types, ServerTypes, ClientTypes
<1>3. At(p) \in Changing
  <2>1. CASE p[1] = 1
    <3>1. toCothread[p[2]] \in ToCothread /\ toCothread[p[2]].do = "apply" /\ At(p) = toCothread[p[2]].change
      BY <1>1, <1>2, <2>1 DEF Pending, Pends, At, Applies
    <3> QED BY <3>1, CallIs
  <2>2. CASE p[1] = 2
    <3>1. /\ toCothread[p[2]] \in ToCothread /\ toCothread[p[2]].do = "response"
          /\ toCothread[p[2]].message.what = "delta" /\ At(p) = toCothread[p[2]].message.data
      BY <1>1, <1>2, <2>2 DEF Pending, Pends, At, Brings
    <3>2. toCothread[p[2]].message \in Responses
      BY <3>1, CallIs
    <3> QED BY <3>1, <3>2 DEF Responses
  <2>3. CASE p[1] = 3
    <3>1. down[conn][p[2]] \in Responses /\ down[conn][p[2]].what = "delta" /\ At(p) = down[conn][p[2]].data
      BY <1>1, <1>2, <2>3 DEF Pending, Pends, At
    <3> QED BY <3>1 DEF Responses
  <2> QED BY <1>1, <2>1, <2>2, <2>3
<1>4. \A b \in Whole : b[f] \in Nat
  BY DEF Whole
<1>5. Speaks(At(p), f)
  BY DEF Pending
<1>6. Says(At(p), f) \in Nat
  BY <1>3, <1>4, <1>5, ChangeIs, NamesDiffer DEF Speaks, Says
<1>7. remote[f] \in Nat
  BY <1>4 DEF Types, ServerTypes
<1> QED BY <1>3, <1>6, <1>7

\* The changes that are pending after a step come from some before, in their order.
Come(f, came) ==
  /\ \A p \in Places : Pending(p, f)' => came[p] \in Places /\ Pending(came[p], f) /\ At(p)' = At(came[p])
  /\ \A p, q \in Places : Pending(p, f)' /\ Pending(q, f)' /\ Sooner(p, q) => Sooner(came[p], came[q])

\* All of them do.
LEMMA ToldMoves ==
  ASSUME NEW f, FieldTold(f), NEW came, Come(f, came), shadow' = shadow, remote'[f] = remote[f],
         \A p \in Places : Pending(p, f) => \E q \in Places : Pending(q, f)' /\ At(q)' = At(p)
  PROVE  FieldTold(f)'
<1>1. (f \in DOMAIN shadow => shadow[f] <= remote[f])'
  BY DEF FieldTold
<1>2. ASSUME NEW p \in Places, Pending(p, f)'
      PROVE  Says(At(p)', f) <= remote[f] /\ (f \in DOMAIN shadow => shadow[f] <= Says(At(p)', f))
  BY <1>2 DEF FieldTold, Come
<1>3. ASSUME NEW p \in Places, NEW q \in Places, Pending(p, f)', Pending(q, f)', Sooner(p, q)
      PROVE  Says(At(p)', f) <= Says(At(q)', f)
  BY <1>3 DEF FieldTold, Come
<1>4. \/ f \in DOMAIN shadow /\ shadow[f] = remote[f]
      \/ \E p \in Places : Pending(p, f)' /\ Says(At(p)', f) = remote[f]
  BY DEF FieldTold
<1>5. \A p : Says(At(p), f)' = Says(At(p)', f)
  BY DEF Says
<1> QED BY <1>1, <1>2, <1>3, <1>4, <1>5 DEF FieldTold

\* A block after a change that is not of a field as a whole
LEMMA HandleIs ==
  ASSUME ~FieldsChange, NEW b, NEW ch \in Changing, NEW f \in Own
  PROVE  /\ Speaks(ch, f) => f \in DOMAIN HandleChange(b, ch) /\ HandleChange(b, ch)[f] = Says(ch, f)
         /\ ~Speaks(ch, f) => /\ f \in DOMAIN HandleChange(b, ch) => f \in DOMAIN b
                              /\ f \in DOMAIN b => f \in DOMAIN HandleChange(b, ch)
                              /\ HandleChange(b, ch)[f] = b[f] \/ f \notin DOMAIN b
<1>1. CASE ch.depth = "block"
  <2>1. HandleChange(b, ch) = ch.data /\ ch.data \in Whole
    BY <1>1, ChangeIs DEF HandleChange, Changed
  <2>2. f \in DOMAIN ch.data
    BY <2>1 DEF Whole
  <2> QED BY <1>1, <2>1, <2>2 DEF Speaks, Says
<1>2. CASE ch.depth = "value"
  <2>1. PICK g \in Known, n \in Nat : g = ch.field /\ n = ch.data
    BY <1>2, ChangeIs
  <2>2. ch = Change("value", g, n)
    BY <1>2, <2>1 DEF Changing, Change
  <2>3. HandleChange(b, ch) = Assigned(b, g, n)
    <3>1. Changed(b, Change("value", g, n)) = Assigned(b, g, n)
      BY SetIs
    <3> QED BY <1>2, <2>2, <3>1 DEF HandleChange
  <2>4. /\ DOMAIN HandleChange(b, ch) = DOMAIN b \cup {g}
        /\ \A h \in DOMAIN b \cup {g} : HandleChange(b, ch)[h] = IF h = g THEN n ELSE b[h]
    BY <2>3 DEF Assigned
  <2> QED BY <1>2, <2>1, <2>4 DEF Speaks, Says
<1> QED BY <1>1, <1>2, ChangeIs

\* The first is applied, and the others come from those after it.
LEMMA ToldApplied ==
  ASSUME Types, ~FieldsChange, conn \in Conns, NEW f \in Own, FieldTold(f), NEW came, Come(f, came),
         NEW first \in Places, Pends(first), At(first) \in Changing,
         shadow' = HandleChange(shadow, At(first)), remote' = remote,
         \A p \in Places : Pending(p, f)' => Sooner(first, came[p]),
         \A p \in Places : Pending(p, f) => p = first \/ \E q \in Places : Pending(q, f)' /\ At(q)' = At(p)
  PROVE  FieldTold(f)'
<1>1. Pending(first, f) <=> Speaks(At(first), f)
  BY DEF Pending
<1>2. \A p : Says(At(p), f)' = Says(At(p)', f)
  BY DEF Says
<1>3. ASSUME NEW p \in Places, Pending(p, f)'
      PROVE  /\ Pending(came[p], f) /\ came[p] \in Places /\ At(p)' = At(came[p])
             /\ Says(At(p)', f) <= remote[f]
             /\ f \in DOMAIN shadow => shadow[f] <= Says(At(p)', f)
             /\ Pending(first, f) => Says(At(first), f) <= Says(At(p)', f)
  BY <1>3 DEF FieldTold, Come
<1>4. ASSUME NEW p \in Places, NEW q \in Places, Pending(p, f)', Pending(q, f)', Sooner(p, q)
      PROVE  Says(At(p)', f) <= Says(At(q)', f)
  BY <1>4 DEF FieldTold, Come
<1>5. CASE ~Speaks(At(first), f)
  <2>1. /\ f \in DOMAIN shadow' <=> f \in DOMAIN shadow
        /\ f \in DOMAIN shadow => shadow'[f] = shadow[f]
    BY <1>5, HandleIs
  <2>2. f \in DOMAIN shadow' => shadow'[f] <= remote[f]
    BY <2>1 DEF FieldTold
  <2>3. \/ f \in DOMAIN shadow' /\ shadow'[f] = remote[f]
        \/ \E p \in Places : Pending(p, f)' /\ Says(At(p)', f) = remote[f]
    BY <1>1, <1>5, <2>1 DEF FieldTold
  <2> QED BY <1>2, <1>3, <1>4, <2>1, <2>2, <2>3 DEF FieldTold
<1>6. CASE Speaks(At(first), f)
  <2>1. f \in DOMAIN shadow' /\ shadow'[f] = Says(At(first), f)
    BY <1>6, HandleIs
  <2>2. Pending(first, f) /\ Says(At(first), f) \in Nat /\ remote[f] \in Nat
    BY <1>1, <1>6, PendingSays
  <2>3. shadow'[f] <= remote[f]
    BY <2>1, <2>2 DEF FieldTold
  <2>4. \/ shadow'[f] = remote[f]
        \/ \E p \in Places : Pending(p, f)' /\ Says(At(p)', f) = remote[f]
    <3>1. CASE f \in DOMAIN shadow /\ shadow[f] = remote[f]
      <4>1. remote[f] <= Says(At(first), f) /\ Says(At(first), f) <= remote[f]
        BY <2>2, <3>1 DEF FieldTold
      <4> QED BY <2>1, <2>2, <4>1
    <3>2. CASE \E p \in Places : Pending(p, f) /\ Says(At(p), f) = remote[f]
      BY <2>1, <3>2
    <3> QED BY <3>1, <3>2 DEF FieldTold
  <2> QED BY <1>2, <1>3, <1>4, <2>1, <2>2, <2>3, <2>4 DEF FieldTold
<1> QED BY <1>5, <1>6

\* A field has changed: what is told of it goes to the end of what is under way.
LEMMA ToldAnew ==
  ASSUME Types, ~FieldsChange, conn \in Conns, NEW f \in Own, FieldTold(f),
         UNCHANGED <<toCothread, shadow, conn>>, NEW n \in Nat, remote'[f] = n, remote[f] <= n,
         Len(down[conn]) \in Nat, \A i \in 1 .. Len(down[conn]) : down'[conn][i] = down[conn][i],
         Len(down[conn]) + 1 \in 1 .. Len(down'[conn]),
         \A i \in 1 .. Len(down'[conn]) :
           \/ i \in 1 .. Len(down[conn])
           \/ down'[conn][i].what # "delta" \/ down'[conn][i].data = Change("value", f, n),
         down'[conn][Len(down[conn]) + 1].what = "delta",
         down'[conn][Len(down[conn]) + 1].data = Change("value", f, n)
  PROVE  FieldTold(f)'
<1> DEFINE change == Change("value", f, n)
<1>0. PICK last \in Places : last[1] = 3 /\ last[2] = Len(down[conn]) + 1
  <2>1. Len(down[conn]) + 1 \in Nat \ {0}
    OBVIOUS
  <2> QED BY <2>1, PlaceIs
<1>1. Speaks(change, f) /\ Says(change, f) = n
  BY DEF Speaks, Says, Change
<1>2. ASSUME NEW p \in Places, Pending(p, f)'
      PROVE  \/ Pending(p, f) /\ At(p)' = At(p)
             \/ At(p)' = change /\ p[1] = 3 /\ p[2] > Len(down[conn])
  <2>1. p[1] \in {1, 2, 3} /\ p[2] \in Nat \ {0}
    BY PlaceIs
  <2>2. CASE p[1] = 1
    BY <1>2, <2>1, <2>2 DEF Pending, Pends, At, Applies
  <2>3. CASE p[1] = 2
    BY <1>2, <2>1, <2>3 DEF Pending, Pends, At, Brings
  <2>4. CASE p[1] = 3
    <3>1. p[2] \in 1 .. Len(down'[conn]) /\ down'[conn][p[2]].what = "delta" /\ At(p)' = down'[conn][p[2]].data
      BY <1>2, <2>1, <2>4 DEF Pending, Pends, At
    <3>2. CASE p[2] \in 1 .. Len(down[conn])
      <4>1. Pends(p) /\ At(p)' = At(p)
        BY <2>1, <2>4, <3>1, <3>2 DEF Pends, At
      <4>2. Speaks(At(p)', f)
        BY <1>2 DEF Pending, Speaks
      <4> QED BY <4>1, <4>2 DEF Pending
    <3>3. CASE p[2] \notin 1 .. Len(down[conn])
      BY <2>1, <2>4, <3>1, <3>3
    <3> QED BY <3>2, <3>3
  <2> QED BY <2>1, <2>2, <2>3, <2>4
<1>3. Pending(last, f)' /\ At(last)' = change
  <2>1. Len(down[conn]) + 1 <= Len(down'[conn])
    OBVIOUS
  <2>2. Pends(last)' /\ At(last)' = change
    BY <1>0, <2>1 DEF Pends, At
  <2>3. Speaks(At(last), f)'
    BY <1>1, <2>2 DEF Speaks
  <2> QED BY <2>2, <2>3 DEF Pending
<1> HIDE DEF change
<1>4. \A p : Says(At(p), f)' = Says(At(p)', f)
  BY DEF Says
<1>5. f \in DOMAIN shadow => shadow[f] <= n /\ shadow[f] \in Nat
  <2>1. remote[f] \in Nat /\ (f \in DOMAIN shadow => shadow[f] \in Nat)
    BY DEF Types, ServerTypes, ClientTypes, Whole, Partial
  <2> QED BY <2>1 DEF FieldTold
<1>6. ASSUME NEW p \in Places, Pending(p, f)
      PROVE  Says(At(p), f) <= n /\ Says(At(p), f) \in Nat /\ (f \in DOMAIN shadow => shadow[f] <= Says(At(p), f))
  <2>1. Says(At(p), f) \in Nat /\ remote[f] \in Nat
    BY <1>6, PendingSays
  <2>2. Says(At(p), f) <= remote[f] /\ (f \in DOMAIN shadow => shadow[f] <= Says(At(p), f))
    BY <1>6 DEF FieldTold
  <2> QED BY <2>1, <2>2
<1>7. ASSUME NEW p \in Places, Pending(p, f)'
      PROVE  Says(At(p)', f) <= n /\ (f \in DOMAIN shadow => shadow[f] <= Says(At(p)', f))
  BY <1>1, <1>2, <1>5, <1>6, <1>7
<1>8. ASSUME NEW p \in Places, NEW q \in Places, Pending(p, f)', Pending(q, f)', Sooner(p, q)
      PROVE  Says(At(p)', f) <= Says(At(q)', f)
  <2>1. CASE At(q)' = change
    BY <1>1, <1>7, <1>8, <2>1
  <2>2. CASE Pending(q, f) /\ At(q)' = At(q) /\ At(q)' # change
    <3>1. q[1] \in {1, 2, 3} /\ p[1] \in {1, 2, 3} /\ q[2] \in Nat /\ p[2] \in Nat
      BY PlaceIs
    <3>2. q[1] # 3 \/ q[2] <= Len(down[conn])
      BY <2>2 DEF Pending, Pends
    <3>3. ~(p[1] = 3 /\ p[2] > Len(down[conn]))
      BY <1>8, <3>1, <3>2 DEF Sooner
    <3>4. Pending(p, f) /\ At(p)' = At(p)
      BY <1>2, <1>8, <3>3
    <3> QED BY <1>8, <2>2, <3>4 DEF FieldTold
  <2> QED BY <1>2, <1>8, <2>1, <2>2
<1>9. \E p \in Places : Pending(p, f)' /\ Says(At(p)', f) = n
  BY <1>1, <1>3
<1> QED BY <1>4, <1>5, <1>7, <1>8, <1>9 DEF FieldTold

\* A Delta goes from what is under way to those that wait to be handled.
LEMMA DeltaMoves ==
  ASSUME NEW f, conn' = conn, Taken(down'[conn], down[conn]), down[conn][1].what = "delta",
         NEW call, Added(toCothread', toCothread, call), Brings(call), ~Applies(call),
         call.message = down[conn][1]
  PROVE  \E came : /\ Come(f, came)
                   /\ \A p \in Places : Pending(p, f) =>
                        \E q \in Places : Pending(q, f)' /\ At(q)' = At(p)
<1>1. PICK n \in Nat : n = Len(toCothread)
  BY DEF Added
<1> DEFINE to(p) == IF p[1] = 3 THEN <<3, p[2] + 1>>
                    ELSE IF p[1] = 2 /\ p[2] = n + 1 THEN <<3, 1>> ELSE p
           came == [p \in Places |-> to(p)]
<1>2. \A i \in 1 .. Len(toCothread') :
        \/ i \in 1 .. n /\ toCothread'[i] = toCothread[i]
        \/ i = n + 1 /\ Brings(toCothread'[i]) /\ ~Applies(toCothread'[i]) /\ toCothread'[i].message = down[conn][1]
  BY <1>1 DEF Added
<1>3. ASSUME NEW p \in Places
      PROVE  to(p) \in Places /\ p[1] \in {1, 2, 3} /\ p[2] \in Nat \ {0} /\ came[p] = to(p)
             /\ (p[1] = 3 => to(p)[1] = 3 /\ to(p)[2] = p[2] + 1)
             /\ (p[1] = 2 /\ p[2] = n + 1 => to(p)[1] = 3 /\ to(p)[2] = 1)
             /\ (p[1] = 1 \/ (p[1] = 2 /\ p[2] # n + 1) => to(p) = p)
  <2>1. p[1] \in {1, 2, 3} /\ p[2] \in Nat \ {0}
    BY PlaceIs
  <2>2. p[2] + 1 \in Nat \ {0} /\ 1 \in Nat \ {0}
    BY <2>1
  <2> QED BY <2>1, <2>2, PlaceIs
<1> HIDE DEF to, came
<1>4. ASSUME NEW p \in Places, Pending(p, f)'
      PROVE  Pending(to(p), f) /\ At(p)' = At(to(p)) /\ (p[1] = 2 => p[2] <= n + 1)
  <2>1. Speaks(At(p)', f)
    BY <1>4 DEF Pending, Speaks
  <2>2. CASE p[1] = 1
    <3>1. p[2] \in 1 .. Len(toCothread') /\ Applies(toCothread'[p[2]])
      BY <1>3, <1>4, <2>2 DEF Pending, Pends, Applies
    <3>2. p[2] \in 1 .. n /\ toCothread'[p[2]] = toCothread[p[2]]
      BY <1>2, <3>1
    <3>3. Pends(p) /\ At(p)' = At(p)
      BY <1>1, <1>3, <2>2, <3>1, <3>2 DEF Pends, At, Applies
    <3> QED BY <1>3, <2>1, <2>2, <3>3 DEF Pending
  <2>3. CASE p[1] = 2
    <3>1. p[2] \in 1 .. Len(toCothread') /\ Brings(toCothread'[p[2]]) /\ At(p)' = toCothread'[p[2]].message.data
      BY <1>3, <1>4, <2>3 DEF Pending, Pends, Brings, At
    <3>2. CASE p[2] \in 1 .. n /\ toCothread'[p[2]] = toCothread[p[2]]
      <4>1. Pends(p) /\ At(p)' = At(p) /\ p[2] # n + 1 /\ p[2] <= n + 1
        BY <1>1, <1>3, <2>3, <3>1, <3>2 DEF Pends, At, Brings
      <4> QED BY <1>3, <2>1, <2>3, <4>1 DEF Pending
    <3>3. CASE p[2] = n + 1 /\ toCothread'[p[2]].message = down[conn][1]
      <4>1. to(p)[1] = 3 /\ to(p)[2] = 1 /\ 1 <= Len(down[conn])
        BY <1>3, <2>3, <3>3 DEF Taken
      <4>2. Pends(to(p)) /\ At(p)' = At(to(p))
        BY <3>1, <3>3, <4>1 DEF Pends, At
      <4> QED BY <2>1, <3>3, <4>2 DEF Pending
    <3> QED BY <1>2, <3>1, <3>2, <3>3
  <2>4. CASE p[1] = 3
    <3>1. p[2] \in 1 .. Len(down'[conn]) /\ down'[conn][p[2]].what = "delta" /\ At(p)' = down'[conn][p[2]].data
      BY <1>3, <1>4, <2>4 DEF Pending, Pends, At
    <3>2. p[2] + 1 \in 1 .. Len(down[conn]) /\ down'[conn][p[2]] = down[conn][p[2] + 1]
      BY <3>1 DEF Taken
    <3>3. Pends(to(p)) /\ At(p)' = At(to(p))
      BY <1>3, <2>4, <3>1, <3>2 DEF Pends, At
    <3> QED BY <2>1, <2>4, <3>3 DEF Pending
  <2> QED BY <1>3, <2>2, <2>3, <2>4
<1>5. ASSUME NEW p \in Places, NEW q \in Places, Pending(p, f)', Pending(q, f)', Sooner(p, q)
      PROVE  Sooner(to(p), to(q))
  <2>1. (p[1] = 2 => p[2] <= n + 1) /\ (q[1] = 2 => q[2] <= n + 1)
    BY <1>4, <1>5
  <2> QED BY <1>3, <1>5, <2>1 DEF Sooner
<1>6. Come(f, came)
  BY <1>3, <1>4, <1>5 DEF Come
<1>7. ASSUME NEW p \in Places, Pending(p, f) PROVE \E q \in Places : Pending(q, f)' /\ At(q)' = At(p)
  <2>1. Speaks(At(p), f) /\ Pends(p)
    BY <1>7 DEF Pending
  <2>2. ASSUME NEW q \in Places, Pends(q)', At(q)' = At(p) PROVE Pending(q, f)'
    BY <2>1, <2>2 DEF Pending, Speaks
  <2>3. CASE p[1] = 1 \/ p[1] = 2
    <3>1. p[2] \in 1 .. n
      BY <1>1, <1>3, <2>1, <2>3 DEF Pends
    <3>2. p[2] \in 1 .. Len(toCothread') /\ toCothread'[p[2]] = toCothread[p[2]]
      BY <1>1, <3>1 DEF Added
    <3>3. Pends(p)' /\ At(p)' = At(p)
      BY <2>1, <2>3, <3>2 DEF Pends, At, Applies, Brings
    <3> QED BY <2>2, <3>3
  <2>4. CASE p[1] = 3 /\ p[2] = 1
    <3>1. PICK q \in Places : q[1] = 2 /\ q[2] = n + 1
      <4>1. n + 1 \in Nat \ {0}
        OBVIOUS
      <4> QED BY <4>1, PlaceIs
    <3>2. n + 1 \in 1 .. Len(toCothread') /\ toCothread'[n + 1] = call
      BY <1>1 DEF Added
    <3>3. Pends(q)' /\ At(q)' = At(p)
      BY <2>4, <3>1, <3>2 DEF Pends, At, Brings
    <3> QED BY <2>2, <3>3
  <2>5. CASE p[1] = 3 /\ p[2] # 1
    <3>1. p[2] \in 1 .. Len(down[conn]) /\ down[conn][p[2]].what = "delta"
      BY <1>3, <2>1, <2>5 DEF Pends
    <3>2. p[2] - 1 \in 1 .. Len(down'[conn]) /\ down'[conn][p[2] - 1] = down[conn][p[2]]
      BY <2>5, <3>1 DEF Taken
    <3>3. PICK q \in Places : q[1] = 3 /\ q[2] = p[2] - 1
      <4>1. p[2] - 1 \in Nat \ {0}
        BY <1>3, <2>5
      <4> QED BY <4>1, PlaceIs
    <3>4. Pends(q)' /\ At(q)' = At(p)
      BY <2>5, <3>1, <3>2, <3>3 DEF Pends, At
    <3> QED BY <2>2, <3>4
  <2> QED BY <1>3, <2>3, <2>4, <2>5
<1> QED BY <1>6, <1>7

\* Nothing that waits moves, and what comes is not of the field.
LEMMA ToldKept ==
  ASSUME NEW f, FieldTold(f), UNCHANGED <<toCothread, shadow, conn>>, remote'[f] = remote[f],
         Len(down[conn]) \in Nat, Len(down'[conn]) \in Nat, Len(down[conn]) <= Len(down'[conn]),
         \A i \in 1 .. Len(down[conn]) : down'[conn][i] = down[conn][i],
         \A i \in 1 .. Len(down'[conn]) :
           \/ i \in 1 .. Len(down[conn])
           \/ down'[conn][i].what # "delta" \/ ~Speaks(down'[conn][i].data, f)
  PROVE  FieldTold(f)'
<1> DEFINE came == [p \in Places |-> p]
<1>1. \A p \in Places : came[p] = p /\ p[1] \in {1, 2, 3} /\ p[2] \in Nat \ {0}
  BY PlaceIs
<1> HIDE DEF came
<1>2. ASSUME NEW p \in Places, Pending(p, f)' PROVE Pending(p, f) /\ At(p)' = At(p)
  <2>1. Speaks(At(p)', f)
    BY <1>2 DEF Pending, Speaks
  <2>2. CASE p[1] = 1 \/ p[1] = 2
    BY <1>2, <2>2 DEF Pending, Pends, At, Applies, Brings, Speaks
  <2>3. CASE p[1] = 3
    <3>1. p[2] \in 1 .. Len(down'[conn]) /\ down'[conn][p[2]].what = "delta" /\ At(p)' = down'[conn][p[2]].data
      BY <1>1, <1>2, <2>3 DEF Pending, Pends, At
    <3>2. p[2] \in 1 .. Len(down[conn]) /\ down'[conn][p[2]] = down[conn][p[2]]
      BY <2>1, <3>1
    <3>3. Pends(p) /\ At(p)' = At(p)
      BY <2>3, <3>1, <3>2 DEF Pends, At
    <3> QED BY <2>1, <3>3 DEF Pending
  <2> QED BY <1>1, <2>2, <2>3
<1>3. Come(f, came)
  BY <1>1, <1>2 DEF Come
<1>4. ASSUME NEW p \in Places, Pending(p, f) PROVE Pending(p, f)' /\ At(p)' = At(p)
  <2>1. Pends(p) /\ Speaks(At(p), f)
    BY <1>4 DEF Pending
  <2>2. Pends(p)' /\ At(p)' = At(p)
    <3>1. CASE p[1] = 1 \/ p[1] = 2
      BY <2>1, <3>1 DEF Pends, At, Applies, Brings
    <3>2. CASE p[1] = 3
      <4>1. p[2] \in 1 .. Len(down[conn]) /\ p[2] <= Len(down'[conn]) /\ down'[conn][p[2]] = down[conn][p[2]]
        BY <1>1, <2>1, <3>2 DEF Pends
      <4> QED BY <2>1, <3>2, <4>1 DEF Pends, At
    <3> QED BY <1>1, <3>1, <3>2
  <2> QED BY <2>1, <2>2 DEF Pending, Speaks
<1> QED BY <1>3, <1>4, ToldMoves

\* Something else than a Delta is read.
LEMMA OtherMoves ==
  ASSUME NEW f, conn' = conn, Taken(down'[conn], down[conn]), down[conn][1].what # "delta",
         \/ toCothread' = toCothread
         \/ \E call : Added(toCothread', toCothread, call) /\ ~Brings(call) /\ ~Applies(call)
  PROVE  \E came : /\ Come(f, came)
                   /\ \A p \in Places : Pending(p, f) =>
                        \E q \in Places : Pending(q, f)' /\ At(q)' = At(p)
<1> DEFINE to(p) == IF p[1] = 3 THEN <<3, p[2] + 1>> ELSE p
           came == [p \in Places |-> to(p)]
<1>1. ASSUME NEW p \in Places
      PROVE  to(p) \in Places /\ p[1] \in {1, 2, 3} /\ p[2] \in Nat \ {0} /\ came[p] = to(p)
             /\ (p[1] = 3 => to(p)[1] = 3 /\ to(p)[2] = p[2] + 1)
             /\ (p[1] # 3 => to(p) = p)
  <2>1. p[1] \in {1, 2, 3} /\ p[2] \in Nat \ {0}
    BY PlaceIs
  <2>2. p[2] + 1 \in Nat \ {0}
    BY <2>1
  <2> QED BY <2>1, <2>2, PlaceIs
<1> HIDE DEF to, came
<1>2. /\ \A i \in 1 .. Len(toCothread') : Brings(toCothread'[i]) \/ Applies(toCothread'[i]) =>
           i \in 1 .. Len(toCothread) /\ toCothread'[i] = toCothread[i]
      /\ \A i \in 1 .. Len(toCothread) : i \in 1 .. Len(toCothread') /\ toCothread'[i] = toCothread[i]
  BY DEF Added
<1>3. ASSUME NEW p \in Places, Pending(p, f)' PROVE Pending(to(p), f) /\ At(p)' = At(to(p))
  <2>1. Speaks(At(p)', f)
    BY <1>3 DEF Pending, Speaks
  <2>2. CASE p[1] = 1 \/ p[1] = 2
    <3>1. /\ p[2] \in 1 .. Len(toCothread')
          /\ p[1] = 1 => Applies(toCothread'[p[2]])
          /\ p[1] = 2 => Brings(toCothread'[p[2]])
      BY <1>1, <1>3, <2>2 DEF Pending, Pends, Applies, Brings
    <3>2. p[2] \in 1 .. Len(toCothread) /\ toCothread'[p[2]] = toCothread[p[2]]
      BY <1>2, <2>2, <3>1
    <3>3. Pends(p) /\ At(p)' = At(p)
      BY <2>2, <3>1, <3>2 DEF Pends, At
    <3> QED BY <1>1, <2>1, <2>2, <3>3 DEF Pending
  <2>3. CASE p[1] = 3
    <3>1. p[2] \in 1 .. Len(down'[conn]) /\ down'[conn][p[2]].what = "delta" /\ At(p)' = down'[conn][p[2]].data
      BY <1>1, <1>3, <2>3 DEF Pending, Pends, At
    <3>2. p[2] + 1 \in 1 .. Len(down[conn]) /\ down'[conn][p[2]] = down[conn][p[2] + 1]
      BY <3>1 DEF Taken
    <3>3. Pends(to(p)) /\ At(p)' = At(to(p))
      BY <1>1, <2>3, <3>1, <3>2 DEF Pends, At
    <3> QED BY <2>1, <3>3 DEF Pending
  <2> QED BY <1>1, <2>2, <2>3
<1>4. ASSUME NEW p \in Places, NEW q \in Places, Sooner(p, q) PROVE Sooner(to(p), to(q))
  BY <1>1, <1>4 DEF Sooner
<1>5. Come(f, came)
  BY <1>1, <1>3, <1>4 DEF Come
<1>6. ASSUME NEW p \in Places, Pending(p, f) PROVE \E q \in Places : Pending(q, f)' /\ At(q)' = At(p)
  <2>1. Speaks(At(p), f) /\ Pends(p)
    BY <1>6 DEF Pending
  <2>2. ASSUME NEW q \in Places, Pends(q)', At(q)' = At(p) PROVE Pending(q, f)'
    BY <2>1, <2>2 DEF Pending, Speaks
  <2>3. CASE p[1] = 1 \/ p[1] = 2
    <3>1. p[2] \in 1 .. Len(toCothread)
      BY <1>1, <2>1, <2>3 DEF Pends
    <3>2. p[2] \in 1 .. Len(toCothread') /\ toCothread'[p[2]] = toCothread[p[2]]
      BY <1>2, <3>1
    <3>3. Pends(p)' /\ At(p)' = At(p)
      BY <2>1, <2>3, <3>2 DEF Pends, At, Applies, Brings
    <3> QED BY <2>2, <3>3
  <2>4. CASE p[1] = 3
    <3>1. p[2] \in 1 .. Len(down[conn]) /\ down[conn][p[2]].what = "delta" /\ p[2] # 1
      BY <1>1, <2>1, <2>4 DEF Pends
    <3>2. p[2] - 1 \in 1 .. Len(down'[conn]) /\ down'[conn][p[2] - 1] = down[conn][p[2]]
      BY <3>1 DEF Taken
    <3>3. PICK q \in Places : q[1] = 3 /\ q[2] = p[2] - 1
      <4>1. p[2] - 1 \in Nat \ {0}
        BY <1>1, <3>1
      <4> QED BY <4>1, PlaceIs
    <3>4. Pends(q)' /\ At(q)' = At(p)
      BY <2>4, <3>1, <3>2, <3>3 DEF Pends, At
    <3> QED BY <2>2, <3>4
  <2> QED BY <1>1, <2>3, <2>4
<1> QED BY <1>5, <1>6

\* Cothreads run a call: of a Delta, the change goes from the first place to the end of
\* those that wait to be applied.
LEMMA QueueMoves ==
  ASSUME NEW f, conn' = conn, down' = down,
         \/ /\ Brings(toCothread[1])
            /\ \E rest : Taken(rest, toCothread) /\ Added(toCothread', rest, Applying(toCothread[1]))
         \/ ~Brings(toCothread[1]) /\ Taken(toCothread', toCothread)
  PROVE  \E came : /\ Come(f, came)
                   /\ \A p \in Places : Pending(p, f)' => came[p][1] # 1 \/ came[p][2] # 1
                   /\ \A p \in Places : Pending(p, f) /\ ~(p[1] = 1 /\ p[2] = 1) =>
                        \E q \in Places : Pending(q, f)' /\ At(q)' = At(p)
<1>0. PICK n \in Nat : n = Len(toCothread)
  BY DEF Taken
<1>1. /\ 1 \in 1 .. n
      /\ \A i \in 1 .. Len(toCothread') :
           \/ i + 1 \in 1 .. n /\ toCothread'[i] = toCothread[i + 1]
           \/ i = n /\ Brings(toCothread[1]) /\ toCothread'[i] = Applying(toCothread[1])
      /\ \A i \in 1 .. n : i # 1 => i - 1 \in 1 .. Len(toCothread') /\ toCothread'[i - 1] = toCothread[i]
      /\ Brings(toCothread[1]) => n \in 1 .. Len(toCothread') /\ toCothread'[n] = Applying(toCothread[1])
  <2>1. CASE ~Brings(toCothread[1]) /\ Taken(toCothread', toCothread)
    BY <1>0, <2>1 DEF Taken
  <2>2. ASSUME Brings(toCothread[1]), NEW rest, Taken(rest, toCothread),
               Added(toCothread', rest, Applying(toCothread[1]))
        PROVE  <1>1!:
    <3>1. Len(rest) = n - 1 /\ n - 1 \in Nat /\ Len(toCothread') = n /\ 1 \in 1 .. n
      BY <1>0, <2>2 DEF Taken, Added
    <3>2. toCothread'[n] = Applying(toCothread[1])
      BY <2>2, <3>1 DEF Added
    <3>3. \A i \in 1 .. n - 1 : toCothread'[i] = rest[i] /\ i + 1 \in 1 .. n /\ rest[i] = toCothread[i + 1]
      BY <1>0, <2>2, <3>1 DEF Taken, Added
    <3>4. \A i \in 1 .. n : i # 1 => i - 1 \in 1 .. n - 1 /\ (i - 1) + 1 = i
      BY <3>1
    <3>5. \A i \in 1 .. n : i # 1 => toCothread'[i - 1] = toCothread[i]
      BY <3>3, <3>4
    <3>6. \A i \in 1 .. n : i = n \/ i \in 1 .. n - 1
      BY <3>1
    <3> QED BY <2>2, <3>1, <3>2, <3>3, <3>4, <3>5, <3>6
  <2> QED BY <2>1, <2>2
<1> DEFINE moved(p) == p[1] = 1 /\ p[2] = n /\ Brings(toCothread[1])
           to(p) == IF p[1] = 3 THEN p ELSE IF moved(p) THEN <<2, 1>> ELSE <<p[1], p[2] + 1>>
           came == [p \in Places |-> to(p)]
<1>2. ASSUME NEW p \in Places
      PROVE  to(p) \in Places /\ p[1] \in {1, 2, 3} /\ p[2] \in Nat \ {0} /\ came[p] = to(p)
             /\ (p[1] = 3 => to(p) = p)
             /\ (moved(p) => to(p)[1] = 2 /\ to(p)[2] = 1)
             /\ (p[1] # 3 /\ ~moved(p) => to(p)[1] = p[1] /\ to(p)[2] = p[2] + 1)
  <2>1. p[1] \in {1, 2, 3} /\ p[2] \in Nat \ {0}
    BY PlaceIs
  <2>2. p[2] + 1 \in Nat \ {0} /\ 1 \in Nat \ {0}
    BY <2>1
  <2> QED BY <2>1, <2>2, PlaceIs
<1> HIDE DEF to, came
<1>3. ~Brings(Applying(toCothread[1])) /\ Applies(Applying(toCothread[1]))
      /\ Applying(toCothread[1]).change = toCothread[1].message.data
      /\ (Brings(toCothread[1]) => ~Applies(toCothread[1]))
  BY DEF Brings, Applies, Applying
<1>4. ASSUME NEW p \in Places, Pending(p, f)'
      PROVE  Pending(to(p), f) /\ At(p)' = At(to(p)) /\ (p[1] = 1 /\ Brings(toCothread[1]) => p[2] <= n)
  <2>1. Speaks(At(p)', f)
    BY <1>4 DEF Pending, Speaks
  <2>2. CASE p[1] = 1
    <3>1. p[2] \in 1 .. Len(toCothread') /\ Applies(toCothread'[p[2]]) /\ At(p)' = toCothread'[p[2]].change
      BY <1>2, <1>4, <2>2 DEF Pending, Pends, Applies, At
    <3>2. CASE moved(p)
      <4>1. to(p)[1] = 2 /\ to(p)[2] = 1 /\ 1 <= Len(toCothread) /\ Brings(toCothread[1])
        BY <1>0, <1>1, <1>2, <3>2
      <4>2. toCothread'[p[2]] = Applying(toCothread[1])
        BY <1>1, <3>2
      <4>3. Pends(to(p)) /\ At(p)' = At(to(p))
        BY <1>3, <3>1, <4>1, <4>2 DEF Pends, At
      <4> QED BY <1>1, <2>1, <3>2, <4>3 DEF Pending
    <3>3. CASE ~moved(p)
      <4>1. p[2] + 1 \in 1 .. n /\ toCothread'[p[2]] = toCothread[p[2] + 1]
        BY <1>1, <2>2, <3>1, <3>3
      <4>2. Pends(to(p)) /\ At(p)' = At(to(p))
        BY <1>0, <1>2, <2>2, <3>1, <3>3, <4>1 DEF Pends, At
      <4> QED BY <1>2, <2>1, <4>1, <4>2 DEF Pending
    <3> QED BY <3>2, <3>3
  <2>3. CASE p[1] = 2
    <3>1. p[2] \in 1 .. Len(toCothread') /\ Brings(toCothread'[p[2]]) /\ At(p)' = toCothread'[p[2]].message.data
      BY <1>2, <1>4, <2>3 DEF Pending, Pends, Brings, At
    <3>2. p[2] + 1 \in 1 .. n /\ toCothread'[p[2]] = toCothread[p[2] + 1]
      BY <1>1, <1>3, <3>1
    <3>3. Pends(to(p)) /\ At(p)' = At(to(p))
      BY <1>0, <1>2, <2>3, <3>1, <3>2 DEF Pends, At
    <3> QED BY <2>1, <2>3, <3>3 DEF Pending
  <2>4. CASE p[1] = 3
    <3>1. Pends(p) /\ At(p)' = At(p)
      BY <1>4, <2>4 DEF Pending, Pends, At
    <3> QED BY <1>2, <2>1, <2>4, <3>1 DEF Pending
  <2> QED BY <1>2, <2>2, <2>3, <2>4
<1>5. ASSUME NEW p \in Places, NEW q \in Places, Pending(p, f)', Pending(q, f)', Sooner(p, q)
      PROVE  Sooner(to(p), to(q))
  <2>1. /\ p[1] = 1 /\ Brings(toCothread[1]) => p[2] <= n
        /\ q[1] = 1 /\ Brings(toCothread[1]) => q[2] <= n
    BY <1>4, <1>5
  <2>2. /\ to(p)[1] = p[1] \/ (p[1] = 1 /\ p[2] = n /\ to(p)[1] = 2 /\ to(p)[2] = 1 /\ Brings(toCothread[1]))
        /\ to(q)[1] = q[1] \/ (q[1] = 1 /\ q[2] = n /\ to(q)[1] = 2 /\ to(q)[2] = 1 /\ Brings(toCothread[1]))
        /\ to(p)[1] = p[1] /\ p[1] # 3 => to(p)[2] = p[2] + 1
        /\ to(q)[1] = q[1] /\ q[1] # 3 => to(q)[2] = q[2] + 1
    BY <1>2
  <2>3. p[1] \in {1, 2, 3} /\ q[1] \in {1, 2, 3} /\ p[2] \in Nat \ {0} /\ q[2] \in Nat \ {0}
        /\ (p[1] = 3 => to(p)[2] = p[2]) /\ (q[1] = 3 => to(q)[2] = q[2])
    BY <1>2
  <2> QED BY <1>5, <2>1, <2>2, <2>3 DEF Sooner
<1>6. Come(f, came)
  BY <1>2, <1>4, <1>5 DEF Come
<1>7. \A p \in Places : Pending(p, f)' => came[p][1] # 1 \/ came[p][2] # 1
  BY <1>2
<1>8. ASSUME NEW p \in Places, Pending(p, f), ~(p[1] = 1 /\ p[2] = 1)
      PROVE  \E q \in Places : Pending(q, f)' /\ At(q)' = At(p)
  <2>1. Speaks(At(p), f) /\ Pends(p)
    BY <1>8 DEF Pending
  <2>2. ASSUME NEW q \in Places, Pends(q)', At(q)' = At(p) PROVE Pending(q, f)'
    BY <2>1, <2>2 DEF Pending, Speaks
  <2>3. CASE p[1] = 3
    <3>1. Pends(p)' /\ At(p)' = At(p)
      BY <2>1, <2>3 DEF Pends, At
    <3> QED BY <2>2, <3>1
  <2>4. CASE p[1] # 3 /\ p[2] # 1
    <3>1. p[2] \in 1 .. n
      BY <1>0, <1>2, <2>1, <2>4 DEF Pends
    <3>2. p[2] - 1 \in 1 .. Len(toCothread') /\ toCothread'[p[2] - 1] = toCothread[p[2]]
      BY <1>1, <2>4, <3>1
    <3>3. PICK q \in Places : q[1] = p[1] /\ q[2] = p[2] - 1
      <4>1. p[2] - 1 \in Nat \ {0}
        BY <1>2, <2>4
      <4> QED BY <1>2, <4>1, PlaceIs
    <3>4. Pends(q)' /\ At(q)' = At(p)
      BY <1>2, <2>1, <2>4, <3>2, <3>3 DEF Pends, At, Brings, Applies
    <3> QED BY <2>2, <3>4
  <2>5. CASE p[1] = 2 /\ p[2] = 1
    <3>1. Brings(toCothread[1]) /\ At(p) = toCothread[1].message.data
      BY <2>1, <2>5 DEF Pends, At
    <3>2. PICK q \in Places : q[1] = 1 /\ q[2] = n
      <4>1. n \in Nat \ {0}
        BY <1>1
      <4> QED BY <4>1, PlaceIs
    <3>3. n <= Len(toCothread') /\ toCothread'[n] = Applying(toCothread[1])
      BY <1>1, <3>1
    <3>4. Pends(q)' /\ At(q)' = At(p)
      <4>1. Applies(toCothread'[n]) /\ toCothread'[n].change = At(p)
        BY <1>3, <3>1, <3>3
      <4> QED BY <3>2, <3>3, <4>1 DEF Pends, At, Applies
    <3> QED BY <2>2, <3>4
  <2> QED BY <1>2, <1>8, <2>3, <2>4, <2>5
<1> QED BY <1>6, <1>7, <1>8

--------------------------------------------------------------------------------
(***************************************************************************)
(* The proxy has been told, or will be.                                    *)
(***************************************************************************)
\* What has been told and is pending for the proxy that a subscription is for
Told(s) ==
  /\ \A i \in 1 .. Len(down[conn]) : down[conn][i].what = "delta" => down[conn][i].id = s.id
  /\ \A f \in Own : FieldTold(f)

LEMMA ToldIs ==
  ProxyTold <=> \A s \in subs : s.of = "block" /\ s.conn = conn /\ link[conn] = "open" => Told(s)
BY DEF ProxyTold, Told

LEMMA RunCothreadTold ==
  ASSUME Types, ~FieldsChange, Follows, ProxyTold, RunCothread
  PROVE  ProxyTold'
<1>1. /\ toCothread # << >> /\ toCothread \in Seq(ToCothread) /\ Head(toCothread) = toCothread[1]
      /\ \/ /\ Brings(toCothread[1])
            /\ \E rest : Taken(rest, toCothread) /\ Added(toCothread', rest, Applying(toCothread[1]))
         \/ ~Brings(toCothread[1]) /\ Taken(toCothread', toCothread)
      /\ (RunsConnected \/ RunsFault \/ RunsResponse \/ RunsApply)
      /\ UNCHANGED <<link, down, remote, subs, conn>>
  BY RunCothreadDoes
<1> SUFFICES ASSUME NEW s \in subs, s.of = "block", s.conn = conn, link[conn] = "open", NEW f \in Own
             PROVE  /\ \A i \in 1 .. Len(down[conn]) : down[conn][i].what = "delta" => down[conn][i].id = s.id
                    /\ FieldTold(f)'
  BY <1>1 DEF ProxyTold
<1>2. Told(s) /\ FieldTold(f)
  BY ToldIs DEF Told
<1>3. conn \in Conns /\ conn # None /\ s.id \in Nat
  BY NamesDiffer DEF Types, ServerTypes, Subscriptions
<1>4. toCothread[1].do # "fault" /\ 1 <= Len(toCothread)
  <2>1. IsServed(s.id)
    BY DEF IsServed
  <2>2. No(toCothread, "fault")
    BY <1>3, <2>1 DEF Follows, LookedUp
  <2>3. 1 \in 1 .. Len(toCothread)
    BY <1>1, TailItems
  <2> QED BY <2>2, <2>3 DEF No
<1>5. PICK came : /\ Come(f, came)
                  /\ \A p \in Places : Pending(p, f)' => came[p][1] # 1 \/ came[p][2] # 1
                  /\ \A p \in Places : Pending(p, f) /\ ~(p[1] = 1 /\ p[2] = 1) =>
                       \E q \in Places : Pending(q, f)' /\ At(q)' = At(p)
  BY <1>1, QueueMoves
<1>a. PICK first \in Places : first[1] = 1 /\ first[2] = 1
  <2>1. 1 \in Nat \ {0}
    OBVIOUS
  <2> QED BY <2>1, PlaceIs
<1>6. first[1] = 1 /\ first[2] = 1 /\ \A p \in Places : p[1] = 1 /\ p[2] = 1 => p = first
  <2>1. first = <<1, 1>>
    BY <1>a, PlaceIs
  <2>2. ASSUME NEW p \in Places, p[1] = 1, p[2] = 1 PROVE p = <<1, 1>>
    BY <2>2, PlaceIs
  <2> QED BY <1>a, <2>1, <2>2
<1>7. CASE toCothread[1].do = "apply"
  <2>1. toCothread[1].change \in Changing /\ shadow' = HandleChange(shadow, toCothread[1].change)
    BY <1>1, <1>7 DEF RunsConnected, RunsFault, RunsResponse, RunsApply
  <2>2. Pends(first) /\ At(first) = toCothread[1].change
    BY <1>4, <1>6, <1>7 DEF Pends, At, Applies
  <2>3. ASSUME NEW p \in Places, Pending(p, f)' PROVE Sooner(first, came[p])
    <3>1. came[p] \in Places /\ (came[p][1] # 1 \/ came[p][2] # 1)
      BY <1>5, <2>3 DEF Come
    <3>2. came[p][1] \in {1, 2, 3} /\ came[p][2] \in Nat \ {0}
      BY <3>1, PlaceIs
    <3> QED BY <1>6, <3>1, <3>2 DEF Sooner
  <2>4. \A p \in Places : Pending(p, f) => p = first \/ \E q \in Places : Pending(q, f)' /\ At(q)' = At(p)
    BY <1>5, <1>6
  <2>5. At(first) \in Changing /\ shadow' = HandleChange(shadow, At(first)) /\ remote' = remote
    BY <1>1, <2>1, <2>2
  <2>6. FieldTold(f)'
    BY <1>2, <1>3, <1>5, <2>2, <2>3, <2>4, <2>5, ToldApplied
  <2> QED BY <1>2, <2>6 DEF Told
<1>8. CASE toCothread[1].do # "apply"
  <2>1. shadow' = shadow
    BY <1>1, <1>4, <1>8 DEF RunsConnected, RunsFault, RunsResponse, RunsApply
  <2>2. \A p \in Places : Pending(p, f) => ~(p[1] = 1 /\ p[2] = 1)
    BY <1>8 DEF Pending, Pends, Applies
  <2>3. remote'[f] = remote[f]
    BY <1>1
  <2>4. FieldTold(f)'
    BY <1>2, <1>5, <2>1, <2>2, <2>3, ToldMoves
  <2> QED BY <1>2, <2>4 DEF Told
<1> QED BY <1>7, <1>8

LEMMA ReadMessageTold ==
  ASSUME Types, ~FieldsChange, ConnFits, Follows, ProxyTold, NEW c \in Conns, ReadMessage(c)
  PROVE  ProxyTold'
<1> DEFINE m == down[c][1]
<1>1. /\ c \in loops /\ 1 \in 1 .. Len(down[c]) /\ Taken(down'[c], down[c])
      /\ \/ m.id \in DOMAIN lookup /\ Added(toCothread', toCothread,
                                            [do |-> "response", request |-> lookup[m.id], message |-> m])
         \/ m.id \notin DOMAIN lookup /\ toCothread' = toCothread
      /\ UNCHANGED <<link, remote, subs, conn, shadow>>
  BY ReadMessageDoes
<1>2. c = conn
  BY <1>1, NamesDiffer DEF ConnFits, OneConnection
<1>0. link' = link /\ subs' = subs /\ conn' = conn
  BY <1>1
<1> HIDE DEF m
<1> SUFFICES ASSUME NEW s \in subs, s.of = "block", s.conn = conn, link[conn] = "open", NEW f \in Own
             PROVE  /\ \A i \in 1 .. Len(down'[conn]) : down'[conn][i].what = "delta" => down'[conn][i].id = s.id
                    /\ FieldTold(f)'
  BY <1>0, NamesDiffer DEF ProxyTold
<1> USE DEF m
<1>3. Told(s) /\ FieldTold(f)
  BY ToldIs DEF Told
<1>4. s.id \in Nat /\ IsServed(s.id) /\ conn # None
  BY <1>2, NamesDiffer DEF Types, ServerTypes, Subscriptions, IsServed
<1>5. s.id \in DOMAIN lookup /\ lookup[s.id].what = "block"
  BY <1>4 DEF Follows, LookedUp
<1>6. \A i \in 1 .. Len(down'[conn]) : down'[conn][i].what = "delta" => down'[conn][i].id = s.id
  BY <1>1, <1>2, <1>3 DEF Told, Taken
<1>7. shadow' = shadow /\ remote'[f] = remote[f] /\ conn' = conn /\ Taken(down'[conn], down[conn])
  BY <1>1, <1>2
<1>8. CASE m.what = "delta"
  <2>1. m.id = s.id
    BY <1>1, <1>2, <1>3, <1>8 DEF Told
  <2> DEFINE call == [do |-> "response", request |-> lookup[m.id], message |-> m]
  <2>2. Added(toCothread', toCothread, call)
    BY <1>1, <1>5, <2>1
  <2>3. Brings(call) /\ ~Applies(call) /\ call.message = m
    BY <1>5, <1>8, <2>1 DEF Brings, Applies
  <2> HIDE DEF call
  <2>4. PICK came : /\ Come(f, came)
                    /\ \A p \in Places : Pending(p, f) => \E q \in Places : Pending(q, f)' /\ At(q)' = At(p)
    <3>1. down[conn][1].what = "delta" /\ call.message = down[conn][1]
      BY <1>2, <1>8, <2>3
    <3> HIDE DEF m
    <3> QED BY <1>7, <2>2, <2>3, <3>1, DeltaMoves
  <2> QED BY <1>3, <1>6, <1>7, <2>4, ToldMoves
<1>9. CASE m.what # "delta"
  <2>1. \A q : ~Brings([do |-> "response", request |-> q, message |-> m])
               /\ ~Applies([do |-> "response", request |-> q, message |-> m])
    BY <1>9 DEF Brings, Applies
  <2>2. \/ toCothread' = toCothread
        \/ \E call : Added(toCothread', toCothread, call) /\ ~Brings(call) /\ ~Applies(call)
    BY <1>1, <2>1
  <2>3. PICK came : /\ Come(f, came)
                    /\ \A p \in Places : Pending(p, f) => \E q \in Places : Pending(q, f)' /\ At(q)' = At(p)
    <3>1. down[conn][1].what # "delta"
      BY <1>2, <1>9
    <3> HIDE DEF m
    <3> QED BY <1>7, <2>2, <3>1, OtherMoves
  <2> QED BY <1>3, <1>6, <1>7, <2>3, ToldMoves
<1> QED BY <1>8, <1>9

\* What the proxy has and what waits for it stay.
LEMMA ToldStill ==
  ASSUME Types, ProxyTold, UNCHANGED <<toCothread, shadow, conn, remote>>, subs' \in SUBSET subs,
         conn \in Conns /\ link'[conn] = "open" => link[conn] = "open" /\ down'[conn] = down[conn]
  PROVE  ProxyTold'
<1>0. conn' = conn /\ remote' = remote /\ toCothread' = toCothread /\ shadow' = shadow
  OBVIOUS
<1> SUFFICES ASSUME NEW s \in subs, s.of = "block", s.conn = conn, link'[conn] = "open", NEW f \in Own
             PROVE  /\ \A i \in 1 .. Len(down'[conn]) : down'[conn][i].what = "delta" => down'[conn][i].id = s.id
                    /\ FieldTold(f)'
  BY <1>0, NamesDiffer DEF ProxyTold
<1>1. conn \in Conns
  BY DEF Types, ServerTypes, Subscriptions
<1>2. link[conn] = "open" /\ down'[conn] = down[conn]
  BY <1>1
<1>3. Told(s) /\ FieldTold(f)
  BY <1>2, ToldIs DEF Told
<1>4. Len(down[conn]) \in Nat /\ Len(down'[conn]) \in Nat /\ Len(down[conn]) <= Len(down'[conn])
      /\ remote'[f] = remote[f]
  BY <1>0, <1>1, <1>2 DEF Types, ServerTypes
<1>5. FieldTold(f)'
  <2>1. \A i \in 1 .. Len(down[conn]) : down'[conn][i] = down[conn][i]
    BY <1>2
  <2>2. \A i \in 1 .. Len(down'[conn]) : i \in 1 .. Len(down[conn])
    BY <1>2
  <2> QED BY <1>3, <1>4, <2>1, <2>2, ToldKept
<1> QED BY <1>2, <1>3, <1>5 DEF Told

\* The proxy is not told over the connection that there is now.
LEMMA ToldNot ==
  ASSUME \A s \in subs' : s.conn # conn'
  PROVE  ProxyTold'
BY DEF ProxyTold

LEMMA CothreadsTold ==
  ASSUME Types, ProxyTold,
         \/ StartClient \/ StopClient \/ ClientStarted \/ ClientStopped \/ WaitTimesOut \/ SyncProxy
         \/ \E p \in Puts : SendPut(p)
  PROVE  ProxyTold'
<1>1. CASE ClientStopped
  <2>1. conn' = None /\ subs' = subs
    BY <1>1, StoppedDoes
  <2>2. \A s \in subs : s.conn # None
    BY NamesDiffer DEF Types, ServerTypes, Subscriptions
  <2> QED BY <2>1, <2>2, ToldNot
<1>2. CASE ~ClientStopped
  <2>1. UNCHANGED <<link, down, subs, remote, toCothread, shadow, conn>>
    BY <1>2, StartDoes, StopDoes, StartedDoes, TimesOutDoes, SyncDoes, SendPutDoes
  <2> QED BY <2>1, ToldStill
<1> QED BY <1>1, <1>2

LEMMA TornadoTold ==
  ASSUME Types, ProxyTold, RunTornado
  PROVE  ProxyTold'
<1>1. /\ (RunsRecv \/ RunsClose \/ RunsSend)
      /\ UNCHANGED <<toCothread, shadow, conn, remote>> /\ subs' \in SUBSET subs
  BY RunTornadoDoes
<1>2. CASE RunsRecv \/ RunsSend
  <2>1. link' = link /\ down' = down
    BY <1>2, SendDoes DEF RunsRecv, RunsSend
  <2> QED BY <1>1, <2>1, ToldStill
<1>3. CASE RunsClose
  <2>1. PICK c \in Conns : Closes(c)
    BY <1>3 DEF RunsClose
  <2>2. link' = [link EXCEPT ![c] = "closed"] /\ \A d \in Conns : d # c => down'[d] = down[d]
    BY <2>1, ClosesDoes
  <2>3. conn \in Conns /\ link'[conn] = "open" => link[conn] = "open" /\ down'[conn] = down[conn]
    BY <2>2 DEF Types, ServerTypes
  <2> QED BY <1>1, <2>3, ToldStill
<1> QED BY <1>1, <1>2, <1>3

LEMMA LoseTold ==
  ASSUME Types, ProxyTold, Lose
  PROVE  ProxyTold'
<1>1. PICK c \in Conns :
        /\ Closes(c)
        /\ UNCHANGED <<toCothread, shadow, conn, remote>> /\ subs' \in SUBSET subs
  BY LoseDoes
<1>2. link' = [link EXCEPT ![c] = "closed"] /\ \A d \in Conns : d # c => down'[d] = down[d]
  BY <1>1, ClosesDoes
<1>3. conn \in Conns /\ link'[conn] = "open" => link[conn] = "open" /\ down'[conn] = down[conn]
  BY <1>2 DEF Types, ServerTypes
<1> QED BY <1>1, <1>3, ToldStill

\* Over a new connection nobody is told of anything.
LEMMA ConnectTold ==
  ASSUME Types, AreMet, ProxyTold, Connect
  PROVE  ProxyTold'
<1>1. /\ (\E c \in Conns : Makes(c)) \/ UNCHANGED <<link, conn, loops, toCothread>>
      /\ UNCHANGED <<down, remote, subs, shadow>>
  BY ConnectDoes
<1>2. ASSUME NEW c \in Conns, Makes(c) PROVE ProxyTold'
  <2>1. link[c] = "new" /\ conn' = c
    <3>1. c >= c
      BY NamesDiffer
    <3> QED BY <1>2, <3>1, MakesDoes
  <2>2. \A s \in subs' : s.conn # conn'
    BY <1>1, <2>1 DEF AreMet
  <2> QED BY <2>2, ToldNot
<1>3. CASE UNCHANGED <<link, conn, loops, toCothread>>
  BY <1>1, <1>3, ToldStill
<1> QED BY <1>1, <1>2, <1>3

LEMMA ReadNoneTold ==
  ASSUME Types, ProxyTold, NEW c \in Conns, ReadNone(c)
  PROVE  ProxyTold'
<1>1. conn' = None /\ subs' = subs
  BY ReadNoneDoes
<1>2. \A s \in subs : s.conn # None
  BY NamesDiffer DEF Types, ServerTypes, Subscriptions
<1> QED BY <1>1, <1>2, ToldNot

\* The server tells of something else.
LEMMA OtherTold ==
  ASSUME Types, ProxyTold, NEW rs, Grows(rs), \A r \in rs : r.what # "delta",
         \A s \in subs' : s.of = "block" => s \in subs, link' = link,
         UNCHANGED <<toCothread, shadow, conn, remote>>
  PROVE  ProxyTold'
<1>0. conn' = conn /\ remote' = remote /\ toCothread' = toCothread /\ shadow' = shadow
  OBVIOUS
<1> SUFFICES ASSUME NEW s \in subs, s.of = "block", s.conn = conn, link[conn] = "open", NEW f \in Own
             PROVE  /\ \A i \in 1 .. Len(down'[conn]) : down'[conn][i].what = "delta" => down'[conn][i].id = s.id
                    /\ FieldTold(f)'
  BY <1>0, NamesDiffer DEF ProxyTold
<1>1. conn \in Conns
  BY DEF Types, ServerTypes, Subscriptions
<1>2. Told(s) /\ FieldTold(f)
  BY ToldIs DEF Told
<1>3. /\ Len(down[conn]) \in Nat /\ Len(down'[conn]) \in Nat /\ Len(down[conn]) <= Len(down'[conn])
      /\ \A i \in 1 .. Len(down[conn]) : down'[conn][i] = down[conn][i]
      /\ \A i \in 1 .. Len(down'[conn]) : i \in 1 .. Len(down[conn]) \/ down'[conn][i].what # "delta"
  BY <1>1 DEF Grows, Types, ServerTypes
<1>4. FieldTold(f)'
  <2>1. \A i \in 1 .. Len(down'[conn]) :
          \/ i \in 1 .. Len(down[conn])
          \/ down'[conn][i].what # "delta" \/ ~Speaks(down'[conn][i].data, f)
    BY <1>3
  <2>2. remote'[f] = remote[f]
    BY <1>0
  <2> QED BY <1>2, <1>3, <2>1, <2>2, ToldKept
<1> QED BY <1>2, <1>3, <1>4 DEF Told

\* The block changes: the Delta goes to the end of what the proxy is told.
LEMMA ChangeTold ==
  ASSUME Types, AsksOnce, ~FieldsChange, ProxyTold, NEW change, Alters(change),
         NEW others, \A r \in others : r.what # "delta", Grows(DeltasOf(change) \cup others),
         link' = link, subs' = subs, UNCHANGED <<toCothread, shadow, conn>>
  PROVE  ProxyTold'
<1>0. conn' = conn /\ toCothread' = toCothread /\ shadow' = shadow
  OBVIOUS
<1> SUFFICES ASSUME NEW s \in subs, s.of = "block", s.conn = conn, link[conn] = "open", NEW f \in Own
             PROVE  /\ \A i \in 1 .. Len(down'[conn]) : down'[conn][i].what = "delta" => down'[conn][i].id = s.id
                    /\ FieldTold(f)'
  BY <1>0, NamesDiffer DEF ProxyTold
<1>1. conn \in Conns
  BY DEF Types, ServerTypes, Subscriptions
<1>2. Told(s) /\ FieldTold(f)
  BY ToldIs DEF Told
<1>3. PICK n \in Nat : n = changes'
  BY RemoteIs DEF Alters
<1>4. PICK g \in Known : change = Change("value", g, n)
  BY <1>3 DEF Alters
<1> DEFINE r == Response(s.conn, "delta", s.id, change)
<1>5. r.conn = conn /\ r.what = "delta" /\ r.id = s.id /\ r.data = change
  BY DEF Response
<1>6. \A q \in DeltasOf(change) \cup others : q.what = "delta" => q = r
  BY DEF DeltasOf, AsksOnce, ServedOnce
<1>7. r \in DeltasOf(change)
  BY DEF DeltasOf
<1> HIDE DEF r
<1>8. /\ Len(down[conn]) \in Nat /\ Len(down'[conn]) \in Nat /\ Len(down[conn]) <= Len(down'[conn])
      /\ \A i \in 1 .. Len(down[conn]) : down'[conn][i] = down[conn][i]
      /\ \A i \in 1 .. Len(down'[conn]) :
           \/ i \in 1 .. Len(down[conn])
           \/ down'[conn][i].what # "delta" \/ down'[conn][i] = r
      /\ Len(down[conn]) + 1 \in 1 .. Len(down'[conn]) /\ down'[conn][Len(down[conn]) + 1] = r
  <2>1. Len(down[conn]) \in Nat /\ Len(down'[conn]) \in Nat
    BY <1>1 DEF Grows, Types, ServerTypes
  <2>2. /\ Len(down[conn]) <= Len(down'[conn])
        /\ \A i \in 1 .. Len(down[conn]) : down'[conn][i] = down[conn][i]
        /\ \A i \in 1 .. Len(down'[conn]) : i \in 1 .. Len(down[conn]) \/ down'[conn][i] \in DeltasOf(change) \cup others
    BY <1>1 DEF Grows
  <2>3. Len(down[conn]) + 1 <= Len(down'[conn]) /\ down'[conn][Len(down[conn]) + 1] = r
    BY <1>1, <1>5, <1>7 DEF Grows
  <2> QED BY <1>6, <2>1, <2>2, <2>3
<1>9. \A i \in 1 .. Len(down'[conn]) : down'[conn][i].what = "delta" => down'[conn][i].id = s.id
  BY <1>2, <1>5, <1>8 DEF Told
<1>10. remote' = Assigned(remote, g, n)
  <2>1. Changed(remote, Change("value", g, n)) = Assigned(remote, g, n)
    BY SetIs
  <2> QED BY <1>4, <2>1 DEF Alters
<1>11. f \in DOMAIN remote /\ remote[f] \in Nat /\ remote[f] <= n
  <2>1. f \in DOMAIN remote /\ remote[f] \in Nat
    BY DEF Types, ServerTypes, Whole
  <2> QED BY <1>3, <2>1, RemoteIs DEF Alters
<1>12. CASE f = g
  <2>1. remote'[f] = n
    BY <1>10, <1>12 DEF Assigned
  <2>2. \A i \in 1 .. Len(down'[conn]) :
          \/ i \in 1 .. Len(down[conn])
          \/ down'[conn][i].what # "delta" \/ down'[conn][i].data = Change("value", f, n)
    BY <1>4, <1>5, <1>8, <1>12
  <2>3. down'[conn][Len(down[conn]) + 1].what = "delta"
        /\ down'[conn][Len(down[conn]) + 1].data = Change("value", f, n)
    BY <1>4, <1>5, <1>8, <1>12
  <2>4. FieldTold(f)'
    BY <1>1, <1>2, <1>8, <1>11, <2>1, <2>2, <2>3, ToldAnew
  <2> QED BY <1>9, <2>4
<1>13. CASE f # g
  <2>1. remote'[f] = remote[f]
    BY <1>10, <1>11, <1>13 DEF Assigned
  <2>2. ~Speaks(change, f)
    BY <1>4, <1>13 DEF Speaks, Change
  <2>3. \A i \in 1 .. Len(down'[conn]) :
          \/ i \in 1 .. Len(down[conn])
          \/ down'[conn][i].what # "delta" \/ ~Speaks(down'[conn][i].data, f)
    BY <1>5, <1>8, <2>2
  <2>4. FieldTold(f)'
    BY <1>2, <1>8, <2>1, <2>3, ToldKept
  <2> QED BY <1>9, <2>4
<1> QED BY <1>12, <1>13

\* The proxy's subscription: it is told of the whole block, and has been told of nothing.
LEMMA SubscribeTold ==
  ASSUME Types, ~FieldsChange, NoneServed, NothingTold, NEW c \in Conns, NEW id \in Nat,
         Grows({Response(c, "delta", id, Change("block", None, remote))}),
         subs' = subs \cup {Subscription(c, id, "block")},
         link' = link, UNCHANGED <<toCothread, shadow, conn, remote>>
  PROVE  ProxyTold'
<1>0. conn' = conn /\ remote' = remote /\ toCothread' = toCothread /\ shadow' = shadow
  OBVIOUS
<1> SUFFICES ASSUME NEW s \in subs', s.of = "block", s.conn = conn, link[conn] = "open", NEW f \in Own
             PROVE  /\ \A i \in 1 .. Len(down'[conn]) : down'[conn][i].what = "delta" => down'[conn][i].id = s.id
                    /\ FieldTold(f)'
  BY <1>0, NamesDiffer DEF ProxyTold
<1>1. c = conn /\ s.id = id /\ conn \in Conns
  BY DEF NoneServed, Subscription
<1> DEFINE change == Change("block", None, remote)
           r == Response(c, "delta", id, change)
<1>2. r.conn = conn /\ r.what = "delta" /\ r.id = s.id /\ r.data = change
  BY <1>1 DEF Response
<1>3. Speaks(change, f) /\ Says(change, f) = remote[f]
  BY DEF Change, Speaks, Says
<1>4. remote[f] \in Nat
  BY DEF Types, ServerTypes, Whole
<1> HIDE DEF change, r
<1>5. /\ \A i \in 1 .. Len(down'[conn]) : down'[conn][i].what = "delta" => down'[conn][i] = r
      /\ Len(down[conn]) + 1 \in Nat \ {0}
      /\ Len(down[conn]) + 1 <= Len(down'[conn]) /\ down'[conn][Len(down[conn]) + 1] = r
  <2>1. Len(down[conn]) \in Nat
    BY <1>1 DEF Types, ServerTypes
  <2>2. Grows({r})
    BY DEF r, change
  <2>3. \A i \in 1 .. Len(down'[conn]) : down'[conn][i].what = "delta" => down'[conn][i] = r
    BY <1>1, <2>2 DEF Grows, NothingTold
  <2>4. Len(down[conn]) + 1 <= Len(down'[conn]) /\ down'[conn][Len(down[conn]) + 1] = r
    BY <1>1, <1>2, <2>2 DEF Grows
  <2> QED BY <2>1, <2>3, <2>4
<1>6. ASSUME NEW p \in Places, Pending(p, f)' PROVE At(p)' = change
  <2>1. p[1] \in {1, 2, 3} /\ p[2] \in Nat \ {0}
    BY PlaceIs
  <2>2. p[1] = 3
    <3>1. CASE p[1] = 1
      <4>1. p[2] \in 1 .. Len(toCothread) /\ Applies(toCothread[p[2]])
        BY <1>0, <1>6, <2>1, <3>1 DEF Pending, Pends, Applies
      <4> QED BY <4>1 DEF NothingTold
    <3>2. CASE p[1] = 2
      <4>1. p[2] \in 1 .. Len(toCothread) /\ Brings(toCothread[p[2]])
        BY <1>0, <1>6, <2>1, <3>2 DEF Pending, Pends, Brings
      <4> QED BY <4>1 DEF NothingTold
    <3> QED BY <2>1, <3>1, <3>2
  <2>3. p[2] \in 1 .. Len(down'[conn]) /\ down'[conn][p[2]].what = "delta" /\ At(p)' = down'[conn][p[2]].data
    BY <1>0, <1>6, <2>1, <2>2 DEF Pending, Pends, At
  <2> QED BY <1>2, <1>5, <2>3
<1>7. \E p \in Places : Pending(p, f)' /\ At(p)' = change
  <2>1. PICK p \in Places : p[1] = 3 /\ p[2] = Len(down[conn]) + 1
    BY <1>5, PlaceIs
  <2>2. Pends(p)' /\ At(p)' = change
    BY <1>0, <1>2, <1>5, <2>1 DEF Pends, At
  <2>3. Speaks(At(p), f)'
    BY <1>3, <2>2 DEF Speaks
  <2> QED BY <2>2, <2>3 DEF Pending
<1>8. \A p : Says(At(p), f)' = Says(At(p)', f)
  BY DEF Says
<1>9. DOMAIN shadow' = {}
  BY <1>0 DEF NothingTold
<1>10. FieldTold(f)'
  BY <1>0, <1>3, <1>4, <1>6, <1>7, <1>8, <1>9 DEF FieldTold
<1> QED BY <1>2, <1>5, <1>10

LEMMA ServerTold ==
  ASSUME Types, AsksOnce, ~FieldsChange, ProxyTold, BlockChanges \/ ServerStep, UNCHANGED clientVars
  PROVE  ProxyTold'
<1>1. UNCHANGED <<toCothread, shadow, conn>>
  BY DEF clientVars
<1>2. CASE BlockChanges
  <2>1. PICK change : Alters(change) /\ Grows(DeltasOf(change)) /\ UNCHANGED <<link, up, owed, subs>>
    BY <1>2, BlockChangesDoes
  <2>2. PICK others : others = {}
    OBVIOUS
  <2>3. DeltasOf(change) \cup others = DeltasOf(change) /\ \A r \in others : r.what # "delta"
    BY <2>2
  <2>4. Grows(DeltasOf(change) \cup others) /\ link' = link /\ subs' = subs
    BY <2>1, <2>3
  <2> QED BY <1>1, <2>1, <2>3, <2>4, ChangeTold
<1>3. ASSUME NEW c \in Conns, Handle(c) PROVE ProxyTold'
  <2> DEFINE r == Head(up[c])
  <2>1. r \in Asking /\ r = up[c][1] /\ 1 \in 1 .. Len(up[c]) /\ link' = link
    BY <1>3, HandleTakes
  <2> HIDE DEF r
  <2>2. CASE Subscribe(c, r)
    <3>1. /\ r.what \in {"blocks", "block"}
          /\ subs' = subs \cup {Subscription(c, r.id, r.what)}
          /\ r.what = "blocks" => down' = down
          /\ r.what = "block" => Grows({Response(c, "delta", r.id, Change("block", None, remote))})
          /\ UNCHANGED <<owed, remote, changes>>
      BY <2>1, <2>2, SubscribeDoes
    <3>2. CASE r.what = "blocks"
      <4>1. Grows({})
        BY <3>1, <3>2, GrowsNone
      <4>2. \A s \in subs' : s.of = "block" => s \in subs
        BY <3>1, <3>2 DEF Subscription
      <4>3. UNCHANGED <<toCothread, shadow, conn, remote>>
        BY <1>1, <3>1
      <4> QED BY <2>1, <4>1, <4>2, <4>3, OtherTold
    <3>3. CASE r.what = "block"
      <4>1. ~NoneAsked
        BY <2>1, <3>3 DEF NoneAsked
      <4>2. NoneServed /\ NothingTold
        BY <4>1 DEF AsksOnce
      <4>3. r.id \in Nat
        BY <2>1 DEF Asking
      <4>4. UNCHANGED <<toCothread, shadow, conn, remote>>
        BY <1>1, <3>1
      <4> QED BY <2>1, <3>1, <3>3, <4>2, <4>3, <4>4, SubscribeTold
    <3> QED BY <3>1, <3>2, <3>3
  <2>3. CASE Put(c, r)
    <3>1. /\ subs' = subs
          /\ \E change : Alters(change) /\ (Grows(DeltasOf(change)) \/ Grows(DeltasOf(change) \cup {ReturnOf(c, r)}))
      BY <2>1, <2>3, PutDoes
    <3>2. PICK change : Alters(change) /\ (Grows(DeltasOf(change)) \/ Grows(DeltasOf(change) \cup {ReturnOf(c, r)}))
      BY <3>1
    <3>3. ASSUME NEW others, Grows(DeltasOf(change) \cup others), \A q \in others : q.what # "delta"
          PROVE  ProxyTold'
      BY <1>1, <2>1, <3>1, <3>2, <3>3, ChangeTold
    <3>4. CASE Grows(DeltasOf(change))
      <4>1. PICK others : others = {}
        OBVIOUS
      <4>2. DeltasOf(change) \cup others = DeltasOf(change) /\ \A q \in others : q.what # "delta"
        BY <4>1
      <4>3. Grows(DeltasOf(change) \cup others)
        BY <3>4, <4>2
      <4> QED BY <3>3, <4>2, <4>3
    <3>5. CASE Grows(DeltasOf(change) \cup {ReturnOf(c, r)})
      <4>1. PICK others : others = {ReturnOf(c, r)}
        OBVIOUS
      <4>2. \A q \in others : q.what # "delta"
        BY <4>1 DEF ReturnOf, Response
      <4>3. Grows(DeltasOf(change) \cup others)
        BY <3>5, <4>1
      <4> QED BY <3>3, <4>2, <4>3
    <3> QED BY <3>2, <3>4, <3>5
  <2> QED BY <1>3, <2>2, <2>3 DEF Handle, r
<1>4. CASE Answer
  <2>1. PICK r \in owed : r.what = "return" /\ Grows({r}) /\ UNCHANGED <<link, up, remote, subs, changes>>
    BY <1>4, AnswerDoes
  <2>2. (\A q \in {r} : q.what # "delta") /\ (\A s \in subs' : s.of = "block" => s \in subs) /\ link' = link
    BY <2>1
  <2>3. UNCHANGED <<toCothread, shadow, conn, remote>>
    BY <1>1, <2>1
  <2> QED BY <2>1, <2>2, <2>3, OtherTold
<1>5. CASE Forget
  <2>1. subs' \in SUBSET subs /\ UNCHANGED <<link, up, down, owed, remote, changes>>
    BY <1>5 DEF Forget
  <2>2. UNCHANGED <<toCothread, shadow, conn, remote>> /\ link' = link /\ down' = down
    BY <1>1, <2>1
  <2> QED BY <2>1, <2>2, ToldStill
<1> QED BY <1>2, <1>3, <1>4, <1>5 DEF ServerStep

LEMMA ToldStays ==
  ASSUME Types, AreMet, AsksOnce, ConnFits, Follows, ~FieldsChange, ProxyTold, ClientNext \/ UNCHANGED vars
  PROVE  ProxyTold'
<1>1. CASE UNCHANGED vars
  <2>1. UNCHANGED <<toCothread, shadow, conn, remote>> /\ subs' = subs /\ link' = link /\ down' = down
    BY <1>1 DEF vars, serverVars, clientVars
  <2> QED BY <2>1, ToldStill
<1> QED BY <1>1, StepIs, ServerTold, CothreadsTold, TornadoTold, ConnectTold, ReadMessageTold, ReadNoneTold,
           RunCothreadTold, LoseTold

--------------------------------------------------------------------------------
(***************************************************************************)
(* The proxy follows its block.                                            *)
(***************************************************************************)
LEMMA ProxyKept ==
  ASSUME Types, AreMet, AsksOnce, IdsDiffer, ConnInv, ProxyInv, ClientNext \/ UNCHANGED vars
  PROVE  ProxyInv'
<1> SUFFICES ASSUME ~stale', ~FieldsChange PROVE Follows' /\ ProxyTold'
  BY DEF ProxyInv, Follows
<1>1. ~stale
  BY StaleStays
<1>2. ConnFits /\ Follows /\ ProxyTold
  BY <1>1 DEF ConnInv, ProxyInv, Follows
<1> QED BY <1>2, FollowsKept, ToldStays

LEMMA InitFollows ==
  ASSUME Init PROVE ProxyInv
<1>1. /\ subs = {} /\ items = << >> /\ dialing = 0 /\ conn = None
      /\ toTornado = << >> /\ toCothread = << >>
  BY DEF Init, ServerInit
<1>2. Len(<< >>) = 0 /\ 1 .. 0 = {}
  OBVIOUS
<1>3. \A do : No(<< >>, do)
  BY <1>2 DEF No
<1>4. ~Tells
  BY <1>1, <1>3 DEF Tells
<1>5. SentFits
  BY <1>1, <1>2, <1>4 DEF SentFits, SentBefore, Followed
<1>6. LookedUp /\ ProxyTold
  BY <1>1 DEF LookedUp, ProxyTold
<1> QED BY <1>5, <1>6 DEF ProxyInv

LEMMA ToldSuffices ==
  ASSUME Types, ProxyInv, ~FieldsChange PROVE ProxyInStep
<1> SUFFICES ASSUME Quiet, ~stale, Connected, NEW s \in subs, s.conn = conn, s.of = "block"
             PROVE  shadow = remote
  BY DEF ProxyInStep
<1>1. \A f \in Own : FieldTold(f)
  <2>1. ProxyTold /\ link[conn] = "open"
    BY DEF ProxyInv, Connected
  <2> QED BY <2>1, ToldIs DEF Told
<1>2. Len(toCothread) = 0 /\ Len(down[conn]) = 0
  <2>1. toCothread = << >> /\ down[conn] = << >>
    BY DEF Quiet, Connected
  <2> QED BY <2>1
<1>3. \A p \in Places : ~Pends(p)
  <2>1. \A p \in Places : p[2] \in Nat \ {0}
    BY PlaceIs
  <2> QED BY <1>2, <2>1 DEF Pends
<1>4. \A f \in Own : f \in DOMAIN shadow /\ shadow[f] = remote[f]
  BY <1>1, <1>3 DEF FieldTold, Pending
<1>5. Known = Own
  BY DEF Known
<1>6. remote \in [Own -> Nat]
  BY <1>5 DEF Types, ServerTypes, Whole
<1>7. PICK fs \in SUBSET Own : shadow \in [fs -> Nat]
  BY <1>5 DEF Types, ClientTypes, Partial
<1>8. fs = Own
  BY <1>4, <1>7
<1> QED BY <1>4, <1>6, <1>7, <1>8

\* What holds of the client in all states.
THEOREM ClientInvariant == ClientSpec => []IInv
<1>1. Init => IInv
  BY InitFits, InitFollows DEF IInv
<1>2. IInv /\ [ClientNext]_vars => IInv'
  BY TypesKept, MetKept, AskedKept, NamedKept, ConnKept, ProxyKept DEF IInv
<1> QED BY <1>1, <1>2, PTL DEF ClientSpec

\* Once all has been told, a proxy that is subscribed over a connection that is read from
\* has the fields and values of the server's block: _handle_update() and _handle_change()
\* of websocketclientcomms.py, for a block whose fields stay, unless a wait was cut short.
THEOREM ProxyInStepHolds == ~FieldsChange => (ClientSpec => []ProxyInStep)
<1> SUFFICES ASSUME ~FieldsChange PROVE ClientSpec => []ProxyInStep
  OBVIOUS
<1>1. IInv => ProxyInStep
  BY ToldSuffices DEF IInv
<1> QED BY <1>1, ClientInvariant, PTL

================================================================================
