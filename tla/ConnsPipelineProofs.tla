------------------------ MODULE ConnsPipelineProofs ------------------------
(***************************************************************************)
(* Proofs about ConnsPipeline for any number of connections, any ring and  *)
(* any queue: what the user interface shows has no gap, and is what the    *)
(* native side sent once the queue is empty; and the updates thread leaves *)
(* nothing behind.                                                         *)
(*                                                                         *)
(* While the capture thread is in the native code the invariants of        *)
(* PdConnsProofs hold; after that the queue only shrinks, or gets          *)
(* termination requests.  So the queue is n batches with requests behind   *)
(* them (Plain), there are numbers at which each batch begins (Lined), the *)
(* ring ends where the first one begins (ShownTo), and what was sent of a  *)
(* connection is what the last item about it in the queue says, or what    *)
(* the ring shows if there is none (LastWord, ShownLatest).                *)
(*                                                                         *)
(* With the traffic, which only grows on its way (Growing, DataAhead), the *)
(* parts are proved to behave in the whole as they do alone: the register  *)
(* gets what ConnectionsRegister expects, the queue is that of PdConns.    *)
(***************************************************************************)
EXTENDS ConnsPipeline, PdConnsProofs, FiniteSetTheorems

(* The lemmas about the register, which hold for every register and batch.  *)
RP == INSTANCE ConnectionsRegisterProofs WITH
  MaxId <- MaxConns, MaxBatch <- MaxConns, MaxUpdates <- MaxConns, UserResets <- FALSE,
  next_id <- Cardinality(Given), recent <- Ring,
  received <- reg.mUntrackedItems + reg.mCurItems, stats_cut <- FALSE

LEMMA RegisterAssumed == RP!RegisterAssumption
  BY PipelineAssumption, PdConnsAssumption DEF RP!RegisterAssumption, Ids

(* They speak of the same operators.                                        *)
LEMMA SameReset ==
  /\ \A r : Register!reset(r) = RP!reset(r)
  /\ Register!Empty = RP!Empty
  BY DEF Register!reset, RP!reset, Register!Empty, RP!Empty, Register!NoItem, RP!NoItem,
         Register!NoStats, RP!NoStats

LEMMA SameConns == \A r, i : Register!getConn(r, i) = RP!getConn(r, i)
  BY DEF Register!getConn, RP!getConn, Register!firstPos, RP!firstPos

LEMMA SameNewConnections ==
  ASSUME NEW r, NEW items
  PROVE  Register!newConnections(r, items) = RP!newConnections(r, items)
  BY DEF Register!newConnections, RP!newConnections, Register!addAll, RP!addAll,
         Register!add, RP!add, Register!put, RP!put, Register!Conn, RP!Conn,
         Register!calculateMaxBytes, RP!calculateMaxBytes, Register!Total, RP!Total,
         Register!getConn, RP!getConn, Register!firstPos, RP!firstPos,
         Register!Bit, RP!Bit, Register!NoItem, RP!NoItem,
         Register!Max, RP!Max, Register!Min, RP!Min

LEMMA SameUpdates ==
  ASSUME NEW r, NEW items
  PROVE  Register!connectionsUpdates(r, items) = RP!connectionsUpdates(r, items)
  BY DEF Register!connectionsUpdates, RP!connectionsUpdates, Register!update, RP!update,
         Register!put, RP!put, Register!Conn, RP!Conn, Register!firstPos, RP!firstPos,
         Register!lastPos, RP!lastPos, Register!Bit, RP!Bit, Register!NoItem, RP!NoItem,
         Register!Max, RP!Max

LEMMA SameHandle == \A r, batch : Register!handle(r, batch) = RP!handle(r, batch)
  BY SameNewConnections, SameUpdates DEF Register!handle, RP!handle

-----------------------------------------------------------------------------
(* The queue: n batches, and termination requests behind them.              *)
Plain(q, n) ==
  /\ q \in Seq(Batches \cup {Termination}) /\ n \in 0 .. Len(q)
  /\ \A b \in 1 .. n : q[b] \in Batches
  /\ \A b \in (n + 1) .. Len(q) : q[b] = Termination

(* A batch goes on where the connections before it end, and updates only    *)
(* those.                                                                   *)
GoesOn(batch, first, next) ==
  /\ next = first + Len(batch.new)
  /\ \A i \in 1 .. Len(batch.new) : batch.new[i].id = first + i - 1
  /\ \A i \in 1 .. Len(batch.updates) : batch.updates[i].id < first
  /\ \A i, j \in 1 .. Len(batch.updates) : batch.updates[i].id = batch.updates[j].id => i = j

(* Batch b begins at at[b].                                                 *)
Lined(q, n, at) ==
  /\ at \in [1 .. (n + 1) -> 0 .. MaxConns]
  /\ \A b \in 1 .. n : GoesOn(q[b], at[b], at[b + 1])

Said(batch) == ToSet(batch.new) \cup ToSet(batch.updates)
Mentions(batch, c) == \E item \in Said(batch) : item.id = c
Unsaid(q, from, n, c) == \A b \in from .. n : ~Mentions(q[b], c)

(* The last item about a connection is what was sent of it.                 *)
LastWord(q, n, s) ==
  \A b \in 1 .. n : \A item \in Said(q[b]) :
    Unsaid(q, b + 1, n, item.id) => s[item.id] = item.view

(* So is what the register shows, if no item about it is on the way.        *)
Agrees(c, view) == c.bytes = view.bytes /\ c.block_accounted = view.blocked

ShownLatest(q, n, s, r) ==
  \A i \in 1 .. Len(RP!Conns(r)) :
    LET c == RP!Conns(r)[i] IN Unsaid(q, 1, n, c.id) => Agrees(c, s[c.id])

ShownTo(r, next) ==
  /\ RP!Shape(r)
  /\ RP!EndsAt(RP!Conns(r), next) /\ Len(RP!Conns(r)) <= next

Told(q, n, s, r) ==
  \E at \in [1 .. (n + 1) -> 0 .. MaxConns] :
    /\ Lined(q, n, at) /\ ShownTo(r, at[1]) /\ KnownBelow(s, at[n + 1])
    /\ LastWord(q, n, s) /\ ShownLatest(q, n, s, r)

PInv ==
  /\ capture = "native" => IInv /\ IdsKept /\ updater = "working"
  /\ \E n \in 0 .. Len(mPendingUpdates) :
       /\ Plain(mPendingUpdates, n)
       /\ capture = "native" => n = Len(mPendingUpdates)
       /\ updater = "exited" => n = 0
       /\ ~failed => Told(mPendingUpdates, n, sent, reg)
-----------------------------------------------------------------------------
(* The register takes a batch.                                              *)
ShownItems(items) == [i \in DOMAIN items |-> Shown(items[i])]
ShownBatch(batch) == [new |-> ShownItems(batch.new), updates |-> ShownItems(batch.updates)]

LEMMA BatchIs ==
  ASSUME NEW batch \in Batches
  PROVE  /\ batch.new \in Seq(Items) /\ batch.updates \in Seq(Items)
         /\ \A i \in 1 .. Len(batch.new) : batch.new[i] \in Items /\ batch.new[i] \in Said(batch)
         /\ \A i \in 1 .. Len(batch.updates) :
              batch.updates[i] \in Items /\ batch.updates[i] \in Said(batch)
         /\ \A item \in Said(batch) :
              \/ \E i \in 1 .. Len(batch.new) : batch.new[i] = item
              \/ \E i \in 1 .. Len(batch.updates) : batch.updates[i] = item
         /\ Said(batch) \subseteq Items
  BY DEF Batches, Said, ToSet

LEMMA ShownItemsAre ==
  ASSUME NEW items \in Seq(Items)
  PROVE  /\ ShownItems(items) \in Seq(RP!Items) /\ Len(ShownItems(items)) = Len(items)
         /\ \A i \in 1 .. Len(items) :
              /\ ShownItems(items)[i].id = items[i].id
              /\ RP!Conn(ShownItems(items)[i]).id = items[i].id
              /\ Agrees(RP!Conn(ShownItems(items)[i]), items[i].view)
<1>1. /\ DOMAIN items = 1 .. Len(items) /\ Len(items) \in Nat
      /\ \A i \in 1 .. Len(items) : items[i] \in Items
  OBVIOUS
<1>2. ASSUME NEW i \in 1 .. Len(items)
      PROVE  /\ Shown(items[i]) \in RP!Items /\ Shown(items[i]).id = items[i].id
             /\ RP!Conn(Shown(items[i])).id = items[i].id
             /\ Agrees(RP!Conn(Shown(items[i])), items[i].view)
  <2>1. items[i].id \in 0 .. (MaxConns - 1) /\ items[i].view \in Views
    BY <1>1 DEF Items, Ids
  <2> QED BY <2>1 DEF Shown, RP!Items, RP!Views, Views, RP!Conn, Agrees
<1>3. ShownItems(items) = [i \in 1 .. Len(items) |-> Shown(items[i])]
  BY <1>1 DEF ShownItems
<1>4. ShownItems(items) \in [1 .. Len(items) -> RP!Items]
  BY <1>2, <1>3
<1>5. ShownItems(items) \in Seq(RP!Items) /\ Len(ShownItems(items)) = Len(items)
  BY <1>1, <1>4, RP!FunctionIsSeq, RegisterAssumed
<1> QED
  BY <1>2, <1>3, <1>5

LEMMA ShownFollows ==
  ASSUME NEW batch \in Batches, NEW first \in Nat, NEW next \in Nat, GoesOn(batch, first, next)
  PROVE  RP!Follows(ShownBatch(batch), first)
<1> DEFINE new == ShownItems(batch.new)
           updates == ShownItems(batch.updates)
<1>1. /\ new \in Seq(RP!Items) /\ updates \in Seq(RP!Items)
      /\ Len(new) = Len(batch.new) /\ Len(updates) = Len(batch.updates)
      /\ \A i \in 1 .. Len(batch.new) : new[i].id = batch.new[i].id
      /\ \A i \in 1 .. Len(batch.updates) : updates[i].id = batch.updates[i].id
  BY BatchIs, ShownItemsAre
<1>2. ShownBatch(batch).new = new /\ ShownBatch(batch).updates = updates
  BY DEF ShownBatch
<1> HIDE DEF new, updates
<1> QED
  BY <1>1, <1>2 DEF GoesOn, RP!Follows, RP!Distinct
(* What the ring shows afterwards is what the batch says of it, or what it  *)
(* showed before.                                                           *)
FromBatch(batch, c) == \E item \in Said(batch) : item.id = c.id /\ Agrees(c, item.view)

LEMMA HandleShows ==
  ASSUME NEW r, NEW batch \in Batches, NEW first \in Nat, NEW next \in Nat,
         GoesOn(batch, first, next), ShownTo(r, first)
  PROVE  LET after == RP!handle(r, ShownBatch(batch))
         IN  /\ ShownTo(after, next)
             /\ \A i \in 1 .. Len(RP!Conns(after)) :
                  LET c == RP!Conns(after)[i]
                  IN  \/ FromBatch(batch, c)
                      \/ /\ ~Mentions(batch, c.id)
                         /\ \E k \in 1 .. Len(RP!Conns(r)) : c = RP!Conns(r)[k]
<1> DEFINE shown == ShownBatch(batch)
           after == RP!handle(r, shown)
           conns == RP!Conns(r)
           m == Len(batch.new)
           new == RP!NewConns(shown.new, Len(shown.new))
           all == conns \o new
           latest == RP!Updated(conns, shown.updates) \o new
<1>1. /\ batch.new \in Seq(Items) /\ batch.updates \in Seq(Items) /\ m \in Nat
      /\ \A i \in 1 .. m : batch.new[i] \in Items /\ batch.new[i] \in Said(batch)
      /\ \A i \in 1 .. Len(batch.updates) :
           batch.updates[i] \in Items /\ batch.updates[i] \in Said(batch)
      /\ \A item \in Said(batch) :
           \/ \E i \in 1 .. Len(batch.new) : batch.new[i] = item
           \/ \E i \in 1 .. Len(batch.updates) : batch.updates[i] = item
  BY BatchIs
<1>2. RP!Follows(shown, first)
  BY ShownFollows
<1>3. shown.new = ShownItems(batch.new) /\ shown.updates = ShownItems(batch.updates)
  BY DEF ShownBatch
<1>4. /\ shown.new \in Seq(RP!Items) /\ Len(shown.new) = m
      /\ \A i \in 1 .. m :
           /\ RP!Conn(shown.new[i]).id = batch.new[i].id
           /\ Agrees(RP!Conn(shown.new[i]), batch.new[i].view)
      /\ shown.updates \in Seq(RP!Items) /\ Len(shown.updates) = Len(batch.updates)
      /\ \A i \in 1 .. Len(batch.updates) :
           /\ shown.updates[i].id = batch.updates[i].id
           /\ RP!Conn(shown.updates[i]).id = batch.updates[i].id
           /\ Agrees(RP!Conn(shown.updates[i]), batch.updates[i].view)
  BY <1>1, <1>3, ShownItemsAre
<1>5. RP!Shape(r) /\ RP!EndsAt(conns, first) /\ Len(conns) <= first
  BY DEF ShownTo
<1>6. conns \in Seq(RP!Slots) /\ Len(conns) \in Nat
  BY <1>5, RP!ConnsAre, RegisterAssumed
<1> HIDE DEF shown, conns
<1>7. /\ new \in Seq(RP!Slots) /\ Len(new) = m
      /\ \A i \in 1 .. m : new[i] = RP!Conn(shown.new[i])
  <2>1. shown.new \in Seq(RP!Items) /\ Len(shown.new) \in 0 .. Len(shown.new) /\ Len(shown.new) = m
    BY <1>1, <1>4
  <2> QED BY <2>1, RP!NewConnsAre, RegisterAssumed
<1>8. /\ RP!Shape(after)
      /\ RP!Conns(after) = RP!LastOf(latest)
      /\ RP!EndsAt(RP!Conns(after), first + m) /\ Len(RP!Conns(after)) <= first + m
  BY <1>2, <1>4, <1>5, RP!HandleIs, RegisterAssumed DEF conns
<1>9. /\ all \in Seq(RP!Slots) /\ latest \in Seq(RP!Slots) /\ Len(latest) = Len(all)
      /\ \A i \in 1 .. Len(all) :
           /\ latest[i].id = all[i].id
           /\ \A j \in 1 .. Len(shown.updates) :
                shown.updates[j].id = all[i].id => latest[i] = RP!Conn(shown.updates[j])
           /\ (\A j \in 1 .. Len(shown.updates) : shown.updates[j].id # all[i].id)
                => latest[i] = all[i]
  <2>1. /\ first \in Nat /\ RP!Follows(shown, first)
        /\ conns \in Seq(RP!Slots) /\ RP!EndsAt(conns, first)
    BY <1>2, <1>5, <1>6
  <2>2. RP!Overwrites(all, shown.updates, latest)
    BY <2>1, RP!UpdatedConcat, RegisterAssumed
  <2> QED BY <2>2 DEF RP!Overwrites
<1> HIDE DEF new, after
<1>10. Len(all) = Len(conns) + m /\ \A i \in 1 .. Len(all) :
         all[i] = IF i <= Len(conns) THEN conns[i] ELSE new[i - Len(conns)]
  <2>1. conns \in Seq(RP!Slots) /\ new \in Seq(RP!Slots) /\ Len(new) = m
    BY <1>6, <1>7
  <2> HIDE DEF m
  <2> QED BY <2>1
<1> HIDE DEF all, latest
<1>11. ASSUME NEW i \in 1 .. Len(all)
       PROVE  \/ FromBatch(batch, latest[i])
              \/ /\ ~Mentions(batch, latest[i].id)
                 /\ \E k \in 1 .. Len(conns) : latest[i] = conns[k]
  <2>1. CASE i <= Len(conns)
    <3>1. all[i] = conns[i] /\ i \in 1 .. Len(conns)
      BY <1>6, <1>10, <2>1
    <3>2. conns[i].id = first - Len(conns) + i - 1
      BY <1>5, <3>1 DEF RP!EndsAt
    <3>3. conns[i].id < first
      BY <1>6, <3>1, <3>2
    <3>4. \A j \in 1 .. m : batch.new[j].id # conns[i].id
      <4> SUFFICES ASSUME NEW j \in 1 .. m PROVE batch.new[j].id # conns[i].id
        OBVIOUS
      <4>1. batch.new[j].id = first + j - 1
        BY DEF GoesOn
      <4> QED BY <1>6, <3>1, <3>2, <4>1
    <3>5. CASE \E j \in 1 .. Len(batch.updates) : batch.updates[j].id = conns[i].id
      <4>1. PICK j \in 1 .. Len(batch.updates) : batch.updates[j].id = conns[i].id
        BY <3>5
      <4>2. latest[i] = RP!Conn(shown.updates[j]) /\ latest[i].id = batch.updates[j].id
        BY <1>4, <1>9, <3>1, <4>1
      <4>3. Agrees(latest[i], batch.updates[j].view)
        BY <1>4, <4>1, <4>2
      <4> QED BY <1>1, <4>1, <4>2, <4>3 DEF FromBatch
    <3>6. CASE ~ \E j \in 1 .. Len(batch.updates) : batch.updates[j].id = conns[i].id
      <4>1. \A j \in 1 .. Len(shown.updates) : shown.updates[j].id # conns[i].id
        BY <1>4, <3>6
      <4>2. \A j \in 1 .. Len(shown.updates) : shown.updates[j].id # all[i].id
        BY <3>1, <4>1
      <4>3. latest[i] = all[i]
        BY <1>9, <4>2
      <4>4. latest[i] = conns[i]
        BY <3>1, <4>3
      <4>5. ~Mentions(batch, conns[i].id)
        BY <1>1, <3>4, <3>6 DEF Mentions
      <4> QED BY <3>1, <4>4, <4>5
    <3> QED BY <3>5, <3>6
  <2>2. CASE i > Len(conns)
    <3> DEFINE j == i - Len(conns)
    <3>1. j \in 1 .. m /\ all[i] = new[j]
      BY <1>1, <1>6, <1>10, <2>2
    <3> HIDE DEF j
    <3>2. all[i] = RP!Conn(shown.new[j]) /\ all[i].id = first + j - 1
      <4>1. batch.new[j].id = first + j - 1
        BY <3>1 DEF GoesOn
      <4> QED BY <1>4, <1>7, <3>1, <4>1
    <3>3. \A l \in 1 .. Len(shown.updates) : shown.updates[l].id # all[i].id
      <4> SUFFICES ASSUME NEW l \in 1 .. Len(shown.updates) PROVE shown.updates[l].id # all[i].id
        OBVIOUS
      <4>1. batch.updates[l].id < first /\ shown.updates[l].id = batch.updates[l].id
        BY <1>4 DEF GoesOn
      <4>2. batch.updates[l].id \in Int
        BY <1>1, <1>4 DEF Items, Ids
      <4> QED BY <1>1, <3>1, <3>2, <4>1, <4>2
    <3>4. latest[i] = RP!Conn(shown.new[j])
      BY <1>9, <3>2, <3>3
    <3>5. latest[i].id = batch.new[j].id /\ Agrees(latest[i], batch.new[j].view)
      BY <1>4, <3>1, <3>4
    <3> QED BY <1>1, <3>1, <3>5 DEF FromBatch
  <2> QED BY <1>6, <1>10, <2>1, <2>2
<1>12. ASSUME NEW i \in 1 .. Len(RP!Conns(after))
       PROVE  \E j \in 1 .. Len(all) : RP!Conns(after)[i] = latest[j]
  <2> DEFINE d == IF Len(latest) > Size THEN Len(latest) - Size ELSE 0
  <2>1. /\ d \in Nat /\ Len(RP!Conns(after)) = Len(latest) - d
        /\ \A l \in 1 .. (Len(latest) - d) : RP!Conns(after)[l] = latest[l + d]
    BY <1>8, <1>9, RP!LastOfIs, RegisterAssumed
  <2> HIDE DEF d
  <2>2. Len(latest) \in Nat /\ Len(all) = Len(latest)
    BY <1>9
  <2>3. i + d \in 1 .. Len(all)
    BY <2>1, <2>2
  <2> QED BY <2>1, <2>3
<1>13. next = first + m
  BY DEF GoesOn
<1>14. ShownTo(after, next)
  BY <1>8, <1>13 DEF ShownTo
<1> QED
  BY <1>11, <1>12, <1>14 DEF after, conns, shown
-----------------------------------------------------------------------------
(* The ids of the ring.                                                     *)
LEMMA ShownIds ==
  ASSUME NEW r, NEW next \in 0 .. MaxConns, ShownTo(r, next)
  PROVE  /\ RP!Conns(r) \in Seq(RP!Slots)
         /\ Len(RP!Conns(r)) \in Nat /\ Len(RP!Conns(r)) = r.mCurItems
         /\ \A i \in 1 .. Len(RP!Conns(r)) :
              /\ RP!Conns(r)[i].id = next - Len(RP!Conns(r)) + i - 1
              /\ RP!Conns(r)[i].id \in Ids
<1> DEFINE conns == RP!Conns(r)
<1>1. conns \in Seq(RP!Slots) /\ Len(conns) = r.mCurItems
  BY RP!ConnsAre, RegisterAssumed DEF ShownTo
<1> HIDE DEF conns
<1>2. Len(conns) \in Nat /\ Len(conns) <= next
  BY <1>1 DEF ShownTo, conns
<1>3. \A i \in 1 .. Len(conns) : conns[i].id = next - Len(conns) + i - 1
  BY DEF ShownTo, RP!EndsAt, conns
<1>4. \A i \in 1 .. Len(conns) : conns[i].id \in Ids
  <2> SUFFICES ASSUME NEW i \in 1 .. Len(conns) PROVE conns[i].id \in Ids
    OBVIOUS
  <2>1. conns[i].id = next - Len(conns) + i - 1
    BY <1>3
  <2> HIDE DEF conns
  <2>2. next - Len(conns) + i - 1 \in 0 .. (MaxConns - 1)
    BY <1>2, PdConnsAssumption
  <2> QED BY <2>1, <2>2 DEF Ids
<1> QED
  BY <1>1, <1>2, <1>3, <1>4 DEF conns

LEMMA PlainTail ==
  ASSUME NEW q, NEW n, Plain(q, n), q # <<>>, Head(q) # Termination
  PROVE  /\ n \in Nat /\ n >= 1 /\ Head(q) = q[1] /\ q[1] \in Batches
         /\ Plain(Tail(q), n - 1)
         /\ \A b \in 1 .. (n - 1) : Tail(q)[b] = q[b + 1]
<1>1. /\ q \in Seq(Batches \cup {Termination}) /\ Len(q) \in Nat /\ n \in 0 .. Len(q)
      /\ Len(q) >= 1 /\ Head(q) = q[1]
  BY DEF Plain
<1>2. n >= 1
  BY <1>1 DEF Plain
<1>3. /\ Tail(q) \in Seq(Batches \cup {Termination}) /\ Len(Tail(q)) = Len(q) - 1
      /\ \A b \in 1 .. (Len(q) - 1) : Tail(q)[b] = q[b + 1]
  BY <1>1
<1>4. \A b \in 1 .. (n - 1) : b \in 1 .. (Len(q) - 1) /\ b + 1 \in 1 .. n
  BY <1>1, <1>2
<1>5. \A b \in ((n - 1) + 1) .. Len(Tail(q)) :
        b \in 1 .. (Len(q) - 1) /\ b + 1 \in (n + 1) .. Len(q)
  BY <1>1, <1>2, <1>3
<1>6. \A b \in 1 .. (n - 1) : Tail(q)[b] \in Batches
  BY <1>3, <1>4 DEF Plain
<1>7. \A b \in ((n - 1) + 1) .. Len(Tail(q)) : Tail(q)[b] = Termination
  BY <1>3, <1>5 DEF Plain
<1>8. n - 1 \in 0 .. Len(Tail(q))
  BY <1>1, <1>2, <1>3
<1>9. q[1] \in Batches
  BY <1>1, <1>2 DEF Plain
<1> QED
  BY <1>1, <1>2, <1>3, <1>4, <1>6, <1>7, <1>8, <1>9 DEF Plain

(* mConnUpdateThread has taken the first batch.                             *)
LEMMA ToldTaken ==
  ASSUME NEW q, NEW n, Plain(q, n), q # <<>>, Head(q) # Termination, NEW s, NEW r, NEW after,
         NEW at \in [1 .. (n + 1) -> 0 .. MaxConns], Lined(q, n, at), KnownBelow(s, at[n + 1]),
         LastWord(q, n, s), ShownLatest(q, n, s, r), ShownTo(after, at[2]),
         \A i \in 1 .. Len(RP!Conns(after)) :
           LET c == RP!Conns(after)[i]
           IN  \/ FromBatch(q[1], c)
               \/ ~Mentions(q[1], c.id) /\ \E k \in 1 .. Len(RP!Conns(r)) : c = RP!Conns(r)[k]
  PROVE  Told(Tail(q), n - 1, s, after)
<1> DEFINE t == Tail(q)
           left == [b \in 1 .. n |-> at[b + 1]]
<1>1. n \in Nat /\ n >= 1 /\ \A b \in 1 .. (n - 1) : t[b] = q[b + 1]
  BY PlainTail
<1> HIDE DEF t
<1>2. /\ left \in [1 .. ((n - 1) + 1) -> 0 .. MaxConns]
      /\ left[1] = at[2] /\ left[(n - 1) + 1] = at[n + 1]
  <2>1. (n - 1) + 1 = n /\ 1 \in 1 .. n /\ n \in 1 .. n /\ \A b \in 1 .. n : b + 1 \in 1 .. (n + 1)
    BY <1>1
  <2> QED BY <2>1
<1>3. ASSUME NEW f \in Nat \ {0}, NEW c, Unsaid(t, f, n - 1, c) PROVE Unsaid(q, f + 1, n, c)
  <2> SUFFICES ASSUME NEW b \in (f + 1) .. n PROVE ~Mentions(q[b], c)
    BY DEF Unsaid
  <2>1. b - 1 \in f .. (n - 1) /\ b - 1 \in 1 .. (n - 1) /\ (b - 1) + 1 = b
    BY <1>1
  <2> QED BY <1>1, <1>3, <2>1 DEF Unsaid
<1>4. Lined(t, n - 1, left)
  <2> SUFFICES ASSUME NEW b \in 1 .. (n - 1) PROVE GoesOn(t[b], left[b], left[b + 1])
    BY <1>2 DEF Lined
  <2>1. b \in 1 .. n /\ b + 1 \in 1 .. n
    BY <1>1
  <2>2. GoesOn(q[b + 1], at[b + 1], at[(b + 1) + 1])
    BY <2>1 DEF Lined
  <2> QED BY <1>1, <2>1, <2>2
<1>5. LastWord(t, n - 1, s)
  <2> SUFFICES ASSUME NEW b \in 1 .. (n - 1), NEW item \in Said(t[b]),
                      Unsaid(t, b + 1, n - 1, item.id)
               PROVE  s[item.id] = item.view
    BY DEF LastWord
  <2>1. b + 1 \in 1 .. n /\ b + 1 \in Nat \ {0} /\ t[b] = q[b + 1]
    BY <1>1
  <2>2. Unsaid(q, (b + 1) + 1, n, item.id)
    BY <1>3, <2>1
  <2> QED BY <2>1, <2>2 DEF LastWord
<1>6. ShownLatest(t, n - 1, s, after)
  <2> SUFFICES ASSUME NEW i \in 1 .. Len(RP!Conns(after)), NEW c, c = RP!Conns(after)[i],
                      Unsaid(t, 1, n - 1, c.id)
               PROVE  Agrees(c, s[c.id])
    BY DEF ShownLatest
  <2>1. Unsaid(q, 2, n, c.id)
    <3>1. Unsaid(q, 1 + 1, n, c.id)
      BY <1>3
    <3> QED BY <3>1
  <2>2. CASE FromBatch(q[1], c)
    <3>1. PICK item \in Said(q[1]) : item.id = c.id /\ Agrees(c, item.view)
      BY <2>2 DEF FromBatch
    <3>2. Unsaid(q, 1 + 1, n, item.id) /\ 1 \in 1 .. n
      BY <1>1, <2>1, <3>1
    <3>3. s[item.id] = item.view
      BY <3>2 DEF LastWord
    <3> QED BY <3>1, <3>3
  <2>3. CASE ~Mentions(q[1], c.id) /\ \E k \in 1 .. Len(RP!Conns(r)) : c = RP!Conns(r)[k]
    <3>1. PICK k \in 1 .. Len(RP!Conns(r)) : c = RP!Conns(r)[k]
      BY <2>3
    <3>2. Unsaid(q, 1, n, c.id)
      <4>1. \A b \in 1 .. n : b = 1 \/ b \in 2 .. n
        BY <1>1
      <4> QED BY <2>1, <2>3, <4>1 DEF Unsaid
    <3> QED BY <3>1, <3>2 DEF ShownLatest
  <2> QED BY <2>2, <2>3
<1>7. ShownTo(after, left[1]) /\ KnownBelow(s, left[(n - 1) + 1])
  BY <1>2
<1> HIDE DEF left
<1>8. Told(t, n - 1, s, after)
  BY <1>2, <1>4, <1>5, <1>6, <1>7 DEF Told
<1> QED
  BY <1>8 DEF t
LEMMA ToldHandled ==
  ASSUME NEW q, NEW n, Plain(q, n), q # <<>>, Head(q) # Termination, NEW s, NEW r,
         Told(q, n, s, r)
  PROVE  LET after == RP!handle(r, ShownBatch(Head(q)))
         IN  /\ Told(Tail(q), n - 1, s, after)
             /\ Told(Tail(q), n - 1, s, RP!reset(after))
<1> DEFINE after == RP!handle(r, ShownBatch(Head(q)))
           cleared == RP!reset(after)
<1>1. n \in Nat /\ n >= 1 /\ Head(q) = q[1] /\ q[1] \in Batches
  BY PlainTail
<1>2. PICK at \in [1 .. (n + 1) -> 0 .. MaxConns] :
        /\ Lined(q, n, at) /\ ShownTo(r, at[1]) /\ KnownBelow(s, at[n + 1])
        /\ LastWord(q, n, s) /\ ShownLatest(q, n, s, r)
  BY DEF Told
<1>3. 1 \in 1 .. n /\ 1 \in 1 .. (n + 1) /\ 2 \in 1 .. (n + 1) /\ 1 + 1 = 2
  BY <1>1
<1>4. at[1] \in Nat /\ at[2] \in Nat /\ at[2] \in 0 .. MaxConns /\ GoesOn(q[1], at[1], at[2])
  BY <1>2, <1>3, PdConnsAssumption DEF Lined
<1>5. /\ ShownTo(after, at[2])
      /\ \A i \in 1 .. Len(RP!Conns(after)) :
           LET c == RP!Conns(after)[i]
           IN  \/ FromBatch(q[1], c)
               \/ ~Mentions(q[1], c.id) /\ \E k \in 1 .. Len(RP!Conns(r)) : c = RP!Conns(r)[k]
  BY <1>1, <1>2, <1>4, HandleShows
<1> HIDE DEF after
<1>6. Told(Tail(q), n - 1, s, after)
  BY <1>2, <1>5, ToldTaken
<1>7. ShownTo(cleared, at[2]) /\ Len(RP!Conns(cleared)) = 0
  <2>1. after \in RP!Registers
    BY <1>5 DEF ShownTo, RP!Shape
  <2>2. RP!Shape(cleared) /\ cleared.mCurItems = 0
    BY <2>1, RP!ResetIs, RegisterAssumed
  <2>3. Len(RP!Conns(cleared)) = 0
    BY <2>2, RP!ConnsAre, RegisterAssumed
  <2> HIDE DEF cleared
  <2> QED BY <1>4, <2>2, <2>3 DEF ShownTo, RP!EndsAt
<1>8. Told(Tail(q), n - 1, s, cleared)
  <2> HIDE DEF cleared
  <2>1. \A i \in 1 .. Len(RP!Conns(cleared)) : FALSE
    BY <1>7
  <2> QED BY <1>2, <1>7, <2>1, ToldTaken
<1> QED
  BY <1>6, <1>8 DEF after

(* A termination request changes nothing that was told.                     *)
LEMMA PlainAppend ==
  ASSUME NEW q, NEW n, Plain(q, n)
  PROVE  LET more == Append(q, Termination)
         IN  /\ Plain(more, n)
             /\ \A b \in 1 .. n : more[b] = q[b]
<1> DEFINE more == Append(q, Termination)
<1>1. /\ more \in Seq(Batches \cup {Termination}) /\ Len(q) \in Nat /\ Len(more) = Len(q) + 1
      /\ n \in 0 .. Len(q)
      /\ \A b \in 1 .. Len(q) : more[b] = q[b]
      /\ more[Len(q) + 1] = Termination
  BY DEF Plain
<1> HIDE DEF more
<1>2. \A b \in 1 .. n : b \in 1 .. Len(q)
  BY <1>1
<1>3. \A b \in (n + 1) .. Len(more) :
        b = Len(q) + 1 \/ (b \in 1 .. Len(q) /\ b \in (n + 1) .. Len(q))
  <2>1. Len(q) \in Nat /\ Len(more) = Len(q) + 1 /\ n \in Nat
    BY <1>1
  <2> QED BY <2>1
<1>4. Plain(more, n) /\ \A b \in 1 .. n : more[b] = q[b]
  BY <1>1, <1>2, <1>3 DEF Plain
<1> QED
  BY <1>4 DEF more

LEMMA ToldSame ==
  ASSUME NEW q, NEW n, NEW more, \A b \in 1 .. n : more[b] = q[b], n \in Nat,
         NEW s, NEW r, Told(q, n, s, r)
  PROVE  Told(more, n, s, r)
<1>1. PICK at \in [1 .. (n + 1) -> 0 .. MaxConns] :
        /\ Lined(q, n, at) /\ ShownTo(r, at[1]) /\ KnownBelow(s, at[n + 1])
        /\ LastWord(q, n, s) /\ ShownLatest(q, n, s, r)
  BY DEF Told
<1>2. ASSUME NEW f \in Nat \ {0}, NEW c, Unsaid(more, f, n, c) PROVE Unsaid(q, f, n, c)
  <2>1. \A b \in f .. n : b \in 1 .. n
    OBVIOUS
  <2> QED BY <1>2, <2>1 DEF Unsaid
<1>3. Lined(more, n, at)
  BY <1>1 DEF Lined
<1>4. LastWord(more, n, s)
  BY <1>1, <1>2 DEF LastWord
<1>5. ShownLatest(more, n, s, r)
  <2> SUFFICES ASSUME NEW i \in 1 .. Len(RP!Conns(r)), NEW c, c = RP!Conns(r)[i],
                      Unsaid(more, 1, n, c.id)
               PROVE  Agrees(c, s[c.id])
    BY DEF ShownLatest
  <2>1. Unsaid(q, 1, n, c.id)
    BY <1>2
  <2> QED BY <1>1, <2>1 DEF ShownLatest
<1> QED
  BY <1>1, <1>3, <1>4, <1>5 DEF Told

(* updateConnections has put a batch behind the others.                     *)
LEMMA ToldSent ==
  ASSUME NEW q \in Seq(Batches), NEW s, NEW r, Told(q, Len(q), s, r),
         NEW batch \in Batches, NEW k \in 0 .. MaxConns, KnownBelow(s, k),
         NEW next \in 0 .. MaxConns, GoesOn(batch, k, next),
         NEW s2, KnownBelow(s2, next),
         \A item \in Said(batch) : s2[item.id] = item.view,
         \A c \in Ids : ~Mentions(batch, c) => s2[c] = s[c]
  PROVE  Told(Append(q, batch), Len(q) + 1, s2, r)
<1> DEFINE n == Len(q)
           more == Append(q, batch)
<1>1. PICK at \in [1 .. (n + 1) -> 0 .. MaxConns] :
        /\ Lined(q, n, at) /\ ShownTo(r, at[1]) /\ KnownBelow(s, at[n + 1])
        /\ LastWord(q, n, s) /\ ShownLatest(q, n, s, r)
  BY DEF Told
<1>2. /\ n \in Nat /\ \A b \in 1 .. n : more[b] = q[b] /\ q[b] \in Batches
      /\ more[n + 1] = batch
  OBVIOUS
<1> HIDE DEF n, more
<1>3. 1 \in 1 .. (n + 1) /\ n + 1 \in 1 .. (n + 1) /\ at[n + 1] \in 0 .. MaxConns
      /\ at[1] \in 0 .. MaxConns
  BY <1>2
<1>4. k = at[n + 1]
  <2>1. \A c \in Ids : c < k <=> c < at[n + 1]
    BY <1>1 DEF KnownBelow
  <2>2. CASE k < at[n + 1]
    <3>1. k \in Ids
      BY <1>3, <2>2, PdConnsAssumption DEF Ids
    <3> QED BY <2>1, <2>2, <3>1
  <2>3. CASE at[n + 1] < k
    <3>1. at[n + 1] \in Ids
      BY <1>3, <2>3, PdConnsAssumption DEF Ids
    <3> QED BY <1>3, <2>1, <2>3, <3>1
  <2> QED BY <1>3, <2>2, <2>3, PdConnsAssumption
<1> DEFINE longer == [b \in 1 .. ((n + 1) + 1) |-> IF b = (n + 1) + 1 THEN next ELSE at[b]]
<1>5. /\ longer \in [1 .. ((n + 1) + 1) -> 0 .. MaxConns]
      /\ \A b \in 1 .. (n + 1) : longer[b] = at[b]
      /\ longer[(n + 1) + 1] = next
  BY <1>2
<1> HIDE DEF longer
<1>6. Lined(more, n + 1, longer)
  <2> SUFFICES ASSUME NEW b \in 1 .. (n + 1) PROVE GoesOn(more[b], longer[b], longer[b + 1])
    BY <1>5 DEF Lined
  <2>1. CASE b = n + 1
    BY <1>2, <1>3, <1>4, <1>5, <2>1
  <2>2. CASE b \in 1 .. n
    <3>1. b \in 1 .. (n + 1) /\ b + 1 \in 1 .. (n + 1)
      BY <1>2, <2>2
    <3> QED BY <1>1, <1>2, <1>5, <2>2, <3>1 DEF Lined
  <2> QED BY <1>2, <2>1, <2>2
<1>7. ASSUME NEW f \in 1 .. (n + 1), NEW c \in Ids, Unsaid(more, f, n + 1, c)
      PROVE  Unsaid(q, f, n, c) /\ s2[c] = s[c]
  <2>1. \A b \in f .. n : b \in f .. (n + 1) /\ b \in 1 .. n
    BY <1>2
  <2>2. Unsaid(q, f, n, c)
    BY <1>2, <1>7, <2>1 DEF Unsaid
  <2>3. n + 1 \in f .. (n + 1)
    BY <1>2
  <2>4. ~Mentions(batch, c)
    BY <1>2, <1>7, <2>3 DEF Unsaid
  <2> QED BY <2>2, <2>4
<1>8. LastWord(more, n + 1, s2)
  <2> SUFFICES ASSUME NEW b \in 1 .. (n + 1), NEW item \in Said(more[b]),
                      Unsaid(more, b + 1, n + 1, item.id)
               PROVE  s2[item.id] = item.view
    BY DEF LastWord
  <2>1. CASE b = n + 1
    BY <1>2, <2>1
  <2>2. CASE b \in 1 .. n
    <3>1. b + 1 \in 1 .. (n + 1) /\ more[b] = q[b] /\ q[b] \in Batches
      BY <1>2, <2>2
    <3>2. item.id \in Ids
      <4>1. item \in Said(q[b])
        BY <3>1
      <4>2. item \in Items
        BY <3>1, <4>1, BatchIs
      <4> QED BY <4>2 DEF Items
    <3>3. Unsaid(q, b + 1, n, item.id) /\ s2[item.id] = s[item.id]
      BY <1>7, <3>1, <3>2
    <3> QED BY <1>1, <2>2, <3>1, <3>3 DEF LastWord
  <2> QED BY <1>2, <2>1, <2>2
<1>9. ShownLatest(more, n + 1, s2, r)
  <2> SUFFICES ASSUME NEW i \in 1 .. Len(RP!Conns(r)), NEW c, c = RP!Conns(r)[i],
                      Unsaid(more, 1, n + 1, c.id)
               PROVE  Agrees(c, s2[c.id])
    BY DEF ShownLatest
  <2>1. c.id \in Ids
    BY <1>1, <1>3, ShownIds
  <2>2. Unsaid(q, 1, n, c.id) /\ s2[c.id] = s[c.id]
    BY <1>3, <1>7, <2>1
  <2> QED BY <1>1, <2>2 DEF ShownLatest
<1>10. ShownTo(r, longer[1])
  BY <1>1, <1>3, <1>5
<1>11. Told(more, n + 1, s2, r)
  BY <1>5, <1>6, <1>8, <1>9, <1>10 DEF Told
<1> QED
  BY <1>11 DEF n, more
-----------------------------------------------------------------------------
(* The dump that is sent goes on where the last one ended, and says of each *)
(* connection in the arrays what its data says.                             *)
LEMMA BatchGoesOn ==
  ASSUME IInv, NEW k \in 0 .. MaxConns, Ahead(k)
  PROVE  /\ GoesOn(Batch, k, new_conn_id)
         /\ \A item \in Said(Batch) : item.id \in Listed /\ item.view = data[item.id].view
         /\ \A c \in Listed : Mentions(Batch, c)
<1>1. new_conns \in Seq(Ids) /\ conns_updates \in Seq(Ids) /\ k \in Nat
  BY Shapes DEF IInv
<1>2. /\ Len(Batch.new) = Len(new_conns) /\ Len(Batch.updates) = Len(conns_updates)
      /\ DOMAIN Batch.new = 1 .. Len(new_conns)
      /\ DOMAIN Batch.updates = 1 .. Len(conns_updates)
      /\ \A i \in 1 .. Len(new_conns) : Batch.new[i] = Item(new_conns[i])
      /\ \A i \in 1 .. Len(conns_updates) : Batch.updates[i] = Item(conns_updates[i])
  BY <1>1 DEF Batch
<1>3. \A c : Item(c).id = c /\ Item(c).view = data[c].view
  BY DEF Item
<1>4. GoesOn(Batch, k, new_conn_id)
  <2>1. /\ k + Len(new_conns) = new_conn_id
        /\ \A i \in 1 .. Len(new_conns) : new_conns[i] = (k + i) - 1
        /\ \A c \in ToSet(conns_updates) : c < k
    BY DEF Ahead
  <2>2. \A i \in 1 .. Len(Batch.new) : Batch.new[i].id = k + i - 1
    BY <1>2, <1>3, <2>1
  <2>3. \A i \in 1 .. Len(conns_updates) : conns_updates[i] \in ToSet(conns_updates)
    BY <1>1 DEF ToSet
  <2>4. \A i \in 1 .. Len(Batch.updates) : Batch.updates[i].id < k
    BY <1>2, <1>3, <2>1, <2>3
  <2>5. Distinct(conns_updates) /\ DOMAIN conns_updates = 1 .. Len(conns_updates)
    BY <1>1 DEF IInv, Arrays
  <2>6. \A i, j \in 1 .. Len(Batch.updates) :
          Batch.updates[i].id = Batch.updates[j].id => i = j
    BY <1>2, <1>3, <2>5 DEF Distinct
  <2> QED BY <1>2, <2>1, <2>2, <2>4, <2>6 DEF GoesOn
<1>5. Said(Batch) = {Item(new_conns[i]) : i \in 1 .. Len(new_conns)}
                      \cup {Item(conns_updates[i]) : i \in 1 .. Len(conns_updates)}
  BY <1>2 DEF Said, ToSet
<1>6. Listed = {new_conns[i] : i \in 1 .. Len(new_conns)}
                 \cup {conns_updates[i] : i \in 1 .. Len(conns_updates)}
  BY <1>1 DEF Listed, ToSet
<1>7. \A item \in Said(Batch) : item.id \in Listed /\ item.view = data[item.id].view
  BY <1>3, <1>5, <1>6
<1>8. \A c \in Listed : Mentions(Batch, c)
  <2>1. \A c \in Listed : Item(c) \in Said(Batch)
    BY <1>5, <1>6
  <2> QED BY <1>3, <2>1 DEF Mentions
<1> QED
  BY <1>4, <1>7, <1>8

(* What a step of the capture thread does to the queue.                     *)
SendsBatch ==
  /\ ~mQueueFull
  /\ mPendingUpdates' = Append(mPendingUpdates, Batch)
  /\ sent' = [c \in Ids |-> IF c \in Listed THEN data[c].view ELSE sent[c]]
  /\ new_conns' = <<>> /\ conns_updates' = <<>>
  /\ UNCHANGED <<new_conn_id, failed>>

LEMMA DumpSends ==
  ASSUME IInv, NEW free_all \in BOOLEAN, sendConnectionsDump(free_all), UNCHANGED new_conn_id
  PROVE  \/ UNCHANGED <<mPendingUpdates, sent, failed>>
         \/ UNCHANGED <<mPendingUpdates, sent>> /\ failed' = TRUE
         \/ SendsBatch
<1>1. CASE failed' = TRUE /\ UNCHANGED <<mPendingUpdates, sent>>
  BY <1>1
<1>2. CASE /\ updateConnections(Batch) /\ failed' = failed
           /\ new_conns' = <<>> /\ conns_updates' = <<>>
  <2>1. CASE ~mQueueFull /\ Len(mPendingUpdates) < QueueSize
    BY <1>2, <2>1 DEF updateConnections, Listed, SendsBatch
  <2>2. CASE mQueueFull \/ ~(Len(mPendingUpdates) < QueueSize)
    BY <1>2, <2>2 DEF updateConnections
  <2> QED BY <2>1, <2>2
<1> QED
  BY <1>1, <1>2 DEF sendConnectionsDump, conns_clear

LEMMA NativeSends ==
  ASSUME IInv, NativeStep
  PROVE  \/ UNCHANGED <<mPendingUpdates, sent, failed>>
         \/ UNCHANGED <<mPendingUpdates, sent>> /\ failed' = TRUE
         \/ SendsBatch
<1>1. CASE pd_housekeeping
  BY <1>1, DumpSends DEF pd_housekeeping
<1>2. CASE pd_run_end
  BY <1>2, DumpSends DEF pd_run_end
<1>3. CASE UNCHANGED java_vars
  BY <1>3 DEF java_vars
<1> QED
  BY <1>1, <1>2, <1>3
  DEF NativeStep, handle_new_connection, pd_process_packet, connection_closed,
      zdtun_forward_socket_error, check_blocked_conn_cb, stopPacketLoop, zdtun_finalize

LEMMA SentTold ==
  ASSUME IInv, IdsKept, ~failed, SendsBatch, NEW r,
         Told(mPendingUpdates, Len(mPendingUpdates), sent, r)
  PROVE  Told(mPendingUpdates', Len(mPendingUpdates) + 1, sent', r)
<1>1. PICK k \in 0 .. MaxConns : Ordered(k)
  BY DEF IdsKept
<1>2. Ahead(k) /\ KnownBelow(sent, k)
  BY <1>1 DEF Ordered, SendsBatch
<1>3. Ordered(new_conn_id)'
  BY <1>1, SentIds DEF SendsBatch
<1>4. KnownBelow(sent', new_conn_id)
  BY <1>3 DEF Ordered, SendsBatch
<1>5. mPendingUpdates \in Seq(Batches) /\ Batch \in Batches /\ new_conn_id \in 0 .. MaxConns
  BY Shapes, BatchTyped DEF IInv
<1>6. Listed \subseteq Ids
  BY DEF IInv, Arrays, Alive
<1>7. /\ GoesOn(Batch, k, new_conn_id)
      /\ \A item \in Said(Batch) : item.id \in Listed /\ item.view = data[item.id].view
      /\ \A c \in Listed : Mentions(Batch, c)
  BY <1>2, BatchGoesOn
<1>8. \A c \in Ids : sent'[c] = IF c \in Listed THEN data[c].view ELSE sent[c]
  BY DEF SendsBatch
<1>9. \A item \in Said(Batch) : sent'[item.id] = item.view
  BY <1>6, <1>7, <1>8
<1>10. \A c \in Ids : ~Mentions(Batch, c) => sent'[c] = sent[c]
  BY <1>7, <1>8
<1>11. Told(Append(mPendingUpdates, Batch), Len(mPendingUpdates) + 1, sent', r)
  BY <1>2, <1>4, <1>5, <1>7, <1>9, <1>10, ToldSent
<1> QED
  BY <1>11 DEF SendsBatch
-----------------------------------------------------------------------------
(* The steps.                                                               *)
LEMMA AllPlain ==
  ASSUME NEW q \in Seq(Batches)
  PROVE  Plain(q, Len(q)) /\ Len(q) \in Nat
  BY DEF Plain

LEMMA PlainIs ==
  ASSUME NEW q, NEW n, Plain(q, n)
  PROVE  n \in Nat /\ n \in 0 .. Len(q)
  BY DEF Plain

LEMMA InitRegister == PipelineInit => RP!Init
<1> SUFFICES ASSUME PipelineInit PROVE RP!Init
  OBVIOUS
<1>1. reg = RP!Empty
  BY SameReset DEF PipelineInit
<1>2. reg.mCurItems = 0 /\ reg.mUntrackedItems = 0
  BY <1>1 DEF RP!Empty
<1>3. Given = {}
  BY DEF PipelineInit, Init, Given
<1>4. Cardinality(Given) = 0
  BY <1>3, FS_EmptySet
<1>5. Ring = <<>>
  BY <1>2 DEF Ring
<1> QED
  BY <1>1, <1>2, <1>4, <1>5 DEF RP!Init

LEMMA InitPInv == PipelineInit => PInv
<1> SUFFICES ASSUME PipelineInit PROVE PInv
  OBVIOUS
<1>1. Init /\ IInv /\ IdsKept
  BY InitIInv, InitIds DEF PipelineInit
<1>2. mPendingUpdates = <<>> /\ Plain(mPendingUpdates, 0) /\ Len(mPendingUpdates) = 0
  BY <1>1 DEF Init, Plain
<1>3. ShownTo(reg, 0) /\ Len(RP!Conns(reg)) = 0
  <2>1. reg = RP!Empty
    BY SameReset DEF PipelineInit
  <2>3. RP!Init
    BY InitRegister
  <2>4. RP!IInv
    BY <2>3, RP!InitIInv, RegisterAssumed
  <2>5. RP!Shape(reg)
    BY <2>4 DEF RP!IInv, RP!Good
  <2>6. Len(RP!Conns(reg)) = 0
    <3>1. Len(RP!Conns(reg)) = reg.mCurItems
      BY <2>5, RP!ConnsAre, RegisterAssumed
    <3>2. reg.mCurItems = 0
      BY <2>1 DEF RP!Empty
    <3> QED BY <3>1, <3>2
  <2> QED BY <2>5, <2>6 DEF ShownTo, RP!EndsAt
<1>4. Told(mPendingUpdates, 0, sent, reg)
  <2> DEFINE at == [b \in 1 .. (0 + 1) |-> 0]
  <2>1. at \in [1 .. (0 + 1) -> 0 .. MaxConns] /\ at[1] = 0 /\ at[0 + 1] = 0
    BY PdConnsAssumption
  <2> HIDE DEF at
  <2>2. KnownBelow(sent, 0)
    BY <1>1, PdConnsAssumption DEF Init, KnownBelow, Ids
  <2>3. \A b \in 1 .. 0 : FALSE
    OBVIOUS
  <2>4. Lined(mPendingUpdates, 0, at) /\ LastWord(mPendingUpdates, 0, sent)
    BY <2>1, <2>3 DEF Lined, LastWord
  <2>5. ShownLatest(mPendingUpdates, 0, sent, reg)
    BY <1>3, <2>3 DEF ShownLatest
  <2> QED BY <1>3, <2>1, <2>2, <2>4, <2>5 DEF Told
<1>5. updater = "working" /\ capture = "native"
  BY DEF PipelineInit
<1> QED
  BY <1>1, <1>2, <1>4, <1>5 DEF PInv

LEMMA NativePInv == PInv /\ native => PInv'
<1> SUFFICES ASSUME PInv, native PROVE PInv'
  OBVIOUS
<1>1. /\ NativeStep /\ capture = "native" /\ updater = "working"
      /\ UNCHANGED <<reg, updater, capture>>
  BY DEF PInv, native
<1>2. IInv /\ IdsKept /\ IInv' /\ IdsKept'
  <2>1. IInv /\ IdsKept
    BY <1>1 DEF PInv
  <2>2. [Next]_vars
    BY <1>1 DEF Next
  <2> QED BY <2>1, <2>2, NextIInv, NextIds
<1>3. ~failed => Told(mPendingUpdates, Len(mPendingUpdates), sent, reg)
  BY <1>1 DEF PInv
<1>4. mPendingUpdates \in Seq(Batches) /\ mPendingUpdates' \in Seq(Batches)
  BY <1>2 DEF IInv, Typed
<1>5. Plain(mPendingUpdates', Len(mPendingUpdates')) /\ Len(mPendingUpdates') \in Nat
  BY <1>4, AllPlain
<1>6. ~failed' => Told(mPendingUpdates', Len(mPendingUpdates'), sent', reg')
  <2>1. CASE UNCHANGED <<mPendingUpdates, sent, failed>>
    BY <1>1, <1>3, <2>1
  <2>2. CASE failed' = TRUE
    BY <2>2
  <2>3. CASE SendsBatch /\ ~failed
    <3>1. Told(mPendingUpdates', Len(mPendingUpdates) + 1, sent', reg)
      BY <1>2, <1>3, <2>3, SentTold
    <3>2. Len(mPendingUpdates') = Len(mPendingUpdates) + 1
      BY <1>4, <2>3 DEF SendsBatch
    <3> QED BY <1>1, <3>1, <3>2
  <2>4. CASE SendsBatch /\ failed
    BY <2>4 DEF SendsBatch
  <2> QED BY <1>1, <1>2, <2>1, <2>2, <2>3, <2>4, NativeSends
<1>7. Len(mPendingUpdates') \in 0 .. Len(mPendingUpdates')
  BY <1>5
<1> QED
  BY <1>1, <1>2, <1>5, <1>6, <1>7 DEF PInv

(* The capture thread offers a termination request, or does nothing.        *)
LEMMA OfferPInv ==
  ASSUME PInv, offer \/ UNCHANGED mPendingUpdates, capture' # "native",
         UNCHANGED <<sent, failed, reg, updater>>
  PROVE  PInv'
<1>1. PICK n \in 0 .. Len(mPendingUpdates) :
        /\ Plain(mPendingUpdates, n)
        /\ updater = "exited" => n = 0
        /\ ~failed => Told(mPendingUpdates, n, sent, reg)
  BY DEF PInv
<1>2. n \in Nat
  BY <1>1, PlainIs
<1>3. CASE UNCHANGED mPendingUpdates
  BY <1>1, <1>3 DEF PInv
<1>4. CASE mPendingUpdates' = Append(mPendingUpdates, Termination)
  <2>1. Plain(mPendingUpdates', n) /\ \A b \in 1 .. n : mPendingUpdates'[b] = mPendingUpdates[b]
    BY <1>1, <1>4, PlainAppend
  <2>2. n \in 0 .. Len(mPendingUpdates')
    BY <2>1, PlainIs
  <2>3. ~failed' => Told(mPendingUpdates', n, sent', reg')
    BY <1>1, <1>2, <2>1, ToldSame
  <2> QED BY <1>1, <2>1, <2>2, <2>3 DEF PInv
<1> QED
  BY <1>3, <1>4 DEF offer

(* mConnUpdateThread.                                                       *)
LEMMA UpdatePInv == PInv /\ connUpdateWork => PInv'
<1> SUFFICES ASSUME PInv, connUpdateWork PROVE PInv'
  OBVIOUS
<1>1. /\ updater = "working" /\ mPendingUpdates # <<>>
      /\ mPendingUpdates' = Tail(mPendingUpdates)
      /\ UNCHANGED <<native_vars, mQueueFull, sent, failed, capture>>
  BY DEF connUpdateWork
<1>2. PICK n \in 0 .. Len(mPendingUpdates) :
        /\ Plain(mPendingUpdates, n)
        /\ capture = "native" => n = Len(mPendingUpdates)
        /\ ~failed => Told(mPendingUpdates, n, sent, reg)
  BY DEF PInv
<1>3. n \in Nat /\ mPendingUpdates \in Seq(Batches \cup {Termination})
  BY <1>2, PlainIs DEF Plain
<1>4. CASE Head(mPendingUpdates) = Termination
  <2>1. updater' = "exited" /\ reg' = reg
    BY <1>4 DEF connUpdateWork
  <2>2. n = 0
    <3>1. Head(mPendingUpdates) = mPendingUpdates[1]
      BY <1>1, <1>3
    <3>2. 1 \in 1 .. n => mPendingUpdates[1] \in Batches
      BY <1>2 DEF Plain
    <3> QED BY <1>3, <1>4, <3>1, <3>2, PipelineAssumption
  <2>3. capture' # "native"
    <3>1. Len(mPendingUpdates) # 0
      BY <1>1, <1>3
    <3> QED BY <1>1, <1>2, <2>2, <3>1
  <2>4. Plain(mPendingUpdates', 0)
    <3>1. /\ mPendingUpdates' \in Seq(Batches \cup {Termination})
          /\ Len(mPendingUpdates') = Len(mPendingUpdates) - 1 /\ Len(mPendingUpdates) \in Nat
          /\ \A b \in 1 .. (Len(mPendingUpdates) - 1) :
               mPendingUpdates'[b] = mPendingUpdates[b + 1]
      BY <1>1, <1>3
    <3>2. \A b \in 1 .. (Len(mPendingUpdates) - 1) : b + 1 \in (0 + 1) .. Len(mPendingUpdates)
      BY <3>1
    <3>3. \A b \in (0 + 1) .. Len(mPendingUpdates') : mPendingUpdates'[b] = Termination
      BY <1>2, <2>2, <3>1, <3>2 DEF Plain
    <3>4. 0 \in 0 .. Len(mPendingUpdates')
      BY <1>1, <1>3, <3>1
    <3> QED BY <3>1, <3>3, <3>4 DEF Plain
  <2>5. ~failed' => Told(mPendingUpdates', 0, sent', reg')
    <3>1. \A b \in 1 .. 0 : mPendingUpdates'[b] = mPendingUpdates[b]
      OBVIOUS
    <3> QED BY <1>1, <1>2, <2>1, <2>2, <3>1, ToldSame
  <2>6. 0 \in 0 .. Len(mPendingUpdates')
    BY <2>4, PlainIs
  <2> QED BY <2>1, <2>3, <2>4, <2>5, <2>6 DEF PInv
<1>5. CASE Head(mPendingUpdates) # Termination
  <2> DEFINE after == RP!handle(reg, ShownBatch(Head(mPendingUpdates)))
  <2>1. updater' = updater /\ (reg' = after \/ reg' = RP!reset(after))
    <3>1. apply(Head(mPendingUpdates)) = after
      BY SameHandle DEF apply, ShownBatch, ShownItems
    <3>2. Register!reset(apply(Head(mPendingUpdates))) = RP!reset(after)
      BY <3>1, SameReset
    <3> HIDE DEF after
    <3> QED BY <1>5, <3>1, <3>2 DEF connUpdateWork
  <2>2. ~failed => /\ Told(Tail(mPendingUpdates), n - 1, sent, after)
                   /\ Told(Tail(mPendingUpdates), n - 1, sent, RP!reset(after))
    BY <1>1, <1>2, <1>5, ToldHandled
  <2> HIDE DEF after
  <2>3. ~failed' => Told(mPendingUpdates', n - 1, sent', reg')
    BY <1>1, <2>1, <2>2
  <2>4. Plain(mPendingUpdates', n - 1)
    BY <1>1, <1>2, <1>5, PlainTail
  <2>5. n - 1 \in 0 .. Len(mPendingUpdates')
    BY <2>4, PlainIs
  <2>6. capture' = "native" => n - 1 = Len(mPendingUpdates')
    BY <1>1, <1>2, <1>3
  <2>7. capture' = "native" => IInv' /\ IdsKept'
    <3> SUFFICES ASSUME capture = "native" PROVE IInv' /\ IdsKept'
      BY <1>1
    <3>1. IInv /\ IdsKept
      BY DEF PInv
    <3>2. take
      BY <1>1 DEF take
    <3> QED BY <3>1, <3>2, TakeIInv, TakeIds
  <2>8. updater' = "working"
    BY <1>1, <2>1
  <2> QED BY <2>3, <2>4, <2>5, <2>6, <2>7, <2>8 DEF PInv
<1> QED
  BY <1>4, <1>5

LEMMA NextPInv == PInv /\ [PipelineNext]_pipeline_vars => PInv'
<1> SUFFICES ASSUME PInv, [PipelineNext]_pipeline_vars PROVE PInv'
  OBVIOUS
<1>1. CASE native
  BY <1>1, NativePInv
<1>2. CASE signalServicesTermination
  BY <1>2, OfferPInv DEF signalServicesTermination
<1>3. CASE stopAndJoinThreads
  <2>1. offer \/ UNCHANGED mPendingUpdates
    BY <1>3 DEF stopAndJoinThreads, vars, java_vars
  <2>2. capture' # "native" /\ UNCHANGED <<sent, failed, reg, updater>>
    BY <1>3 DEF stopAndJoinThreads, vars, java_vars
  <2> QED BY <2>1, <2>2, OfferPInv
<1>4. CASE UNCHANGED <<vars, reg, updater, capture>>
  <2>1. IInv /\ IdsKept => IInv' /\ IdsKept'
    <3>1. [Next]_vars
      BY <1>4
    <3> QED BY <3>1, NextIInv, NextIds
  <2>2. UNCHANGED <<mPendingUpdates, sent, failed>>
    BY <1>4 DEF vars, java_vars
  <2> QED BY <1>4, <2>1, <2>2 DEF PInv
<1>5. CASE connUpdateWork
  BY <1>5, UpdatePInv
<1> QED
  BY <1>1, <1>2, <1>3, <1>4, <1>5 DEF PipelineNext, onDestroy, pipeline_vars

LEMMA PipelineInvariant == PipelineSpec => []PInv
  BY InitPInv, NextPInv, PTL DEF PipelineSpec

-----------------------------------------------------------------------------
(* signalServicesTermination puts its request behind the batches, and an    *)
(* interrupt of the capture thread may put more: whatever the JVM and the   *)
(* queue do, mConnUpdateThread exits with every batch applied.              *)
THEOREM NothingLeftSafe == PipelineSpec => []NothingLeft
<1>1. PInv => NothingLeft
  <2> SUFFICES ASSUME PInv, updater = "exited" PROVE Queued = {}
    BY DEF NothingLeft
  <2>1. Plain(mPendingUpdates, 0)
    BY DEF PInv
  <2>2. \A b \in 1 .. Len(mPendingUpdates) : mPendingUpdates[b] = Termination
    BY <2>1 DEF Plain
  <2>3. DOMAIN mPendingUpdates = 1 .. Len(mPendingUpdates)
    BY <2>1 DEF Plain
  <2> QED BY <2>2, <2>3 DEF Queued, ToSet
<1> QED BY <1>1, PipelineInvariant, PTL

(* The connections that the user interface shows have no gap in their       *)
(* incr_ids, for any schedule of the two threads, full queue, reset of the  *)
(* register or ring that overflows, until the JVM fails: what               *)
(* getConnPositionById and connectionsUpdates rest on.                      *)
THEOREM NoGapShownSafe == PipelineSpec => []NoGapShown
<1>1. PInv => NoGapShown
  <2> SUFFICES ASSUME PInv, ~failed, NEW i \in 0 .. (reg.mCurItems - 2)
               PROVE  Register!getConn(reg, i + 1).id = Register!getConn(reg, i).id + 1
    BY DEF NoGapShown
  <2>1. PICK n \in 0 .. Len(mPendingUpdates) :
          Plain(mPendingUpdates, n) /\ Told(mPendingUpdates, n, sent, reg)
    BY DEF PInv
  <2>2. PICK next \in 0 .. MaxConns : ShownTo(reg, next)
    <3>1. 1 \in 1 .. (n + 1)
      BY <2>1, PlainIs
    <3> QED BY <2>1, <3>1 DEF Told
  <2> DEFINE conns == RP!Conns(reg)
             m == Len(conns)
  <2>3. /\ m \in Nat /\ m = reg.mCurItems
        /\ \A j \in 1 .. m : conns[j].id = next - m + j - 1
    BY <2>2, ShownIds
  <2>4. \A j \in 1 .. reg.mCurItems : conns[j] = Register!getConn(reg, j - 1)
    BY SameConns DEF RP!Conns
  <2> HIDE DEF conns, m
  <2>5. i + 1 \in 1 .. m /\ i + 2 \in 1 .. m /\ (i + 2) - 1 = i + 1 /\ (i + 1) - 1 = i
    BY <2>3
  <2>6. conns[i + 1].id = next - m + (i + 1) - 1 /\ conns[i + 2].id = next - m + (i + 2) - 1
    BY <2>3, <2>5
  <2>7. /\ Register!getConn(reg, i) = conns[i + 1]
        /\ Register!getConn(reg, i + 1) = conns[i + 2]
    BY <2>3, <2>4, <2>5
  <2>8. next - m + (i + 2) - 1 = (next - m + (i + 1) - 1) + 1
    <3>1. next \in Int /\ m \in Int /\ i \in Int
      BY <2>3, PdConnsAssumption
    <3> QED BY <3>1
  <2> QED BY <2>6, <2>7, <2>8
<1> QED BY <1>1, PipelineInvariant, PTL

(* With an empty queue, the user interface shows of each connection it      *)
(* still has exactly what the native side last sent of it: no update was    *)
(* lost, applied to another connection, or overtaken by an older one.       *)
THEOREM ShownIsSentSafe == PipelineSpec => []ShownIsSent
<1>1. PInv => ShownIsSent
  <2> SUFFICES ASSUME PInv, ~failed, Queued = {}, NEW c \in InRing
               PROVE  c.id >= 0 /\ Agrees(c, sent[c.id])
    BY DEF ShownIsSent, Agrees
  <2>1. PICK n \in 0 .. Len(mPendingUpdates) :
          Plain(mPendingUpdates, n) /\ Told(mPendingUpdates, n, sent, reg)
    BY DEF PInv
  <2>2. n \in Nat /\ n = 0
    <3>1. n \in Nat /\ n \in 0 .. Len(mPendingUpdates)
      BY <2>1, PlainIs
    <3>2. CASE n > 0
      <4>1. mPendingUpdates[1] \in Batches /\ 1 \in DOMAIN mPendingUpdates
        BY <2>1, <3>1, <3>2 DEF Plain
      <4>2. mPendingUpdates[1] \in Queued
        BY <4>1, PipelineAssumption DEF Queued, ToSet
      <4> QED BY <4>2
    <3> QED BY <3>1, <3>2
  <2>3. PICK at \in [1 .. (n + 1) -> 0 .. MaxConns] :
          ShownTo(reg, at[1]) /\ ShownLatest(mPendingUpdates, n, sent, reg)
    BY <2>1 DEF Told
  <2> DEFINE conns == RP!Conns(reg)
             m == Len(conns)
  <2>4. m \in Nat /\ m = reg.mCurItems /\ \A j \in 1 .. m : conns[j].id \in Ids
    <3>1. at[1] \in 0 .. MaxConns
      BY <2>2, <2>3
    <3> QED BY <2>3, <3>1, ShownIds
  <2>5. \A j \in 1 .. reg.mCurItems : conns[j] = Register!getConn(reg, j - 1)
    BY SameConns DEF RP!Conns
  <2>6. \A j \in 1 .. m :
          Unsaid(mPendingUpdates, 1, n, conns[j].id) => Agrees(conns[j], sent[conns[j].id])
    BY <2>3 DEF ShownLatest
  <2> HIDE DEF conns, m
  <2>7. PICK i \in 0 .. (reg.mCurItems - 1) : c = Register!getConn(reg, i)
    BY DEF InRing
  <2>8. i + 1 \in 1 .. m /\ (i + 1) - 1 = i
    BY <2>4
  <2>9. c = conns[i + 1]
    BY <2>4, <2>5, <2>7, <2>8
  <2>10. Unsaid(mPendingUpdates, 1, n, c.id)
    BY <2>2 DEF Unsaid
  <2>11. c.id \in Ids
    BY <2>4, <2>8, <2>9
  <2> QED BY <2>6, <2>8, <2>9, <2>10, <2>11 DEF Ids
<1> QED BY <1>1, PipelineInvariant, PTL

-----------------------------------------------------------------------------
(* The traffic of a connection only grows on its way: an item says no less  *)
(* than the items before it and than the ring, and no more than what was    *)
(* sent; and the data, while Java still takes it, is ahead of that.         *)
ItemsGrow(q, n) ==
  \A b, d \in 1 .. n : b < d => \A item \in Said(q[b]), later \in Said(q[d]) :
    later.id = item.id => item.view.bytes <= later.view.bytes

ShownGrows(q, n, r) ==
  \A i \in 1 .. Len(RP!Conns(r)), b \in 1 .. n : \A item \in Said(q[b]) :
    item.id = RP!Conns(r)[i].id => RP!Conns(r)[i].bytes <= item.view.bytes

SentMost(q, n, s, r) ==
  /\ \A b \in 1 .. n : \A item \in Said(q[b]) : item.view.bytes <= s[item.id].bytes
  /\ \A i \in 1 .. Len(RP!Conns(r)) : RP!Conns(r)[i].bytes <= s[RP!Conns(r)[i].id].bytes

Growing(q, n, s, r) == ItemsGrow(q, n) /\ ShownGrows(q, n, r) /\ SentMost(q, n, s, r)

DataAhead == ~mQueueFull /\ ~failed => \A c \in Alive : sent[c].bytes <= data[c].view.bytes

MInv ==
  /\ PInv
  /\ capture = "native" => DataAhead
  /\ ~failed => /\ RP!IInv
                /\ \A n \in 0 .. Len(mPendingUpdates) :
                     Plain(mPendingUpdates, n) => Growing(mPendingUpdates, n, sent, reg)

-----------------------------------------------------------------------------
(* The register was given the connections before the first batch.           *)
LEMMA PlainOne ==
  ASSUME NEW q, NEW n, NEW m, Plain(q, n), Plain(q, m)
  PROVE  n = m
<1>1. n \in Nat /\ m \in Nat /\ n <= Len(q) /\ m <= Len(q) /\ Len(q) \in Nat
  BY DEF Plain
<1>2. ASSUME NEW k \in Nat, NEW l \in Nat, Plain(q, k), Plain(q, l), k < l PROVE FALSE
  <2>1. Len(q) \in Nat /\ l <= Len(q)
    BY <1>2 DEF Plain
  <2>2. l \in (k + 1) .. Len(q) /\ l \in 1 .. l
    BY <1>2, <2>1
  <2>3. q[l] = Termination /\ q[l] \in Batches
    BY <1>2, <2>2 DEF Plain
  <2> QED BY <2>3, PipelineAssumption
<1>3. ~(n < m) /\ ~(m < n)
  BY <1>1, <1>2
<1> QED
  BY <1>1, <1>3

LEMMA PlaceOf ==
  ASSUME NEW a \in Int, NEW l \in Int, NEW c \in Int, a <= c, c < a + l
  PROVE  c - a + 1 \in 1 .. l /\ a + (c - a + 1) - 1 = c
  OBVIOUS

IsNewIn(q, n, c) == \E b \in 1 .. n : \E i \in 1 .. Len(q[b].new) : q[b].new[i].id = c

LEMMA NewInLine ==
  ASSUME NEW q, NEW n \in Nat, \A b \in 1 .. n : q[b] \in Batches,
         NEW at \in [1 .. (n + 1) -> 0 .. MaxConns], Lined(q, n, at)
  PROVE  /\ at[1] \in Nat /\ at[n + 1] \in Nat /\ at[1] <= at[n + 1]
         /\ \A c \in Int : IsNewIn(q, n, c) <=> at[1] <= c /\ c < at[n + 1]
<1> DEFINE Reached(k) ==
             /\ \A j \in 1 .. (k + 1) : at[j] <= at[k + 1]
             /\ \A c \in Int : at[1] <= c /\ c < at[k + 1] => IsNewIn(q, k, c)
           T == {k \in 0 .. n : Reached(k)}
<1>1. \A b \in 1 .. (n + 1) : at[b] \in Nat
  BY PdConnsAssumption
<1>2. ASSUME NEW b \in 1 .. n
      PROVE  /\ Len(q[b].new) \in Nat /\ at[b] \in Nat /\ at[b + 1] \in Nat
             /\ at[b + 1] = at[b] + Len(q[b].new)
             /\ \A i \in 1 .. Len(q[b].new) : q[b].new[i].id = at[b] + i - 1
  <2>1. b \in 1 .. (n + 1) /\ b + 1 \in 1 .. (n + 1)
    OBVIOUS
  <2>2. GoesOn(q[b], at[b], at[b + 1])
    BY DEF Lined
  <2>3. Len(q[b].new) \in Nat
    BY BatchIs
  <2> QED BY <1>1, <2>1, <2>2, <2>3 DEF GoesOn
<1>3. 0 \in T
  <2>1. \A j \in 1 .. (0 + 1) : j = 1
    OBVIOUS
  <2>2. at[1] \in Nat /\ at[0 + 1] = at[1]
    BY <1>1
  <2>3. \A c \in Int : ~(at[1] <= c /\ c < at[0 + 1])
    BY <2>2
  <2>4. Reached(0)
    BY <2>1, <2>2, <2>3
  <2> QED BY <2>4
<1>4. ASSUME NEW k \in 0 .. (n - 1), k \in T PROVE k + 1 \in T
  <2>1. Reached(k)
    BY <1>4
  <2>2. k + 1 \in 1 .. n /\ (k + 1) + 1 \in 1 .. (n + 1) /\ k \in Nat
    OBVIOUS
  <2>3. /\ at[k + 1] \in Nat /\ at[(k + 1) + 1] \in Nat /\ Len(q[k + 1].new) \in Nat
        /\ at[(k + 1) + 1] = at[k + 1] + Len(q[k + 1].new)
        /\ \A i \in 1 .. Len(q[k + 1].new) : q[k + 1].new[i].id = at[k + 1] + i - 1
    BY <1>2, <2>2
  <2>4. ASSUME NEW j \in 1 .. ((k + 1) + 1) PROVE at[j] <= at[(k + 1) + 1]
    <3>1. CASE j \in 1 .. (k + 1)
      <4>1. at[j] <= at[k + 1] /\ j \in 1 .. (n + 1)
        BY <2>1, <2>2, <3>1
      <4>2. at[j] \in Nat
        BY <1>1, <4>1
      <4> QED BY SMTT(30), <2>3, <4>1, <4>2
    <3>2. CASE j = (k + 1) + 1
      BY <2>3, <3>2
    <3> QED BY <2>2, <3>1, <3>2
  <2>5. ASSUME NEW c \in Int, at[1] <= c, c < at[(k + 1) + 1] PROVE IsNewIn(q, k + 1, c)
    <3>1. CASE c < at[k + 1]
      <4>1. IsNewIn(q, k, c)
        BY <2>1, <2>5, <3>1
      <4>2. \A b \in 1 .. k : b \in 1 .. (k + 1)
        BY <2>2
      <4> QED BY <4>1, <4>2 DEF IsNewIn
    <3>2. CASE ~(c < at[k + 1])
      <4> DEFINE i == c - at[k + 1] + 1
      <4>1. i \in 1 .. Len(q[k + 1].new) /\ at[k + 1] + i - 1 = c
        <5>1. at[k + 1] <= c /\ c < at[k + 1] + Len(q[k + 1].new)
          BY <2>3, <2>5, <3>2
        <5>2. at[k + 1] \in Int /\ Len(q[k + 1].new) \in Int
          BY <2>3
        <5> HIDE DEF Reached, T
        <5> QED BY <5>1, <5>2, PlaceOf, Zenon
      <4> HIDE DEF i
      <4>2. q[k + 1].new[i].id = c
        BY <2>3, <4>1
      <4>3. k + 1 \in 1 .. (k + 1)
        BY <2>2
      <4> QED BY <4>1, <4>2, <4>3 DEF IsNewIn
    <3> QED BY <3>1, <3>2
  <2>6. Reached(k + 1)
    BY <2>4, <2>5
  <2> QED BY <2>2, <2>6
<1>5. \A k \in 0 .. n : Reached(k)
  <2> HIDE DEF T
  <2>1. \A k \in 0 .. n : k \in T
    BY <1>3, <1>4, UpTo
  <2> QED BY <2>1 DEF T
<1> HIDE DEF T
<1>6. n \in 0 .. n /\ 1 \in 1 .. (n + 1)
  OBVIOUS
<1>7. at[1] \in Nat /\ at[n + 1] \in Nat /\ at[1] <= at[n + 1]
  BY <1>1, <1>5, <1>6
<1>8. \A c \in Int : at[1] <= c /\ c < at[n + 1] => IsNewIn(q, n, c)
  BY <1>5, <1>6
<1>9. ASSUME NEW c \in Int, IsNewIn(q, n, c) PROVE at[1] <= c /\ c < at[n + 1]
  <2>1. PICK b \in 1 .. n : \E i \in 1 .. Len(q[b].new) : q[b].new[i].id = c
    BY <1>9 DEF IsNewIn
  <2>2. PICK i \in 1 .. Len(q[b].new) : q[b].new[i].id = c
    BY <2>1
  <2>3. /\ at[b] \in Nat /\ at[b + 1] = at[b] + Len(q[b].new) /\ Len(q[b].new) \in Nat
        /\ c = at[b] + i - 1
    BY <1>2, <2>2
  <2>4. at[1] <= at[b]
    <3>1. b - 1 \in 0 .. n /\ (b - 1) + 1 = b /\ 1 \in 1 .. ((b - 1) + 1)
      OBVIOUS
    <3>2. Reached(b - 1)
      BY <1>5, <3>1
    <3>3. at[1] <= at[(b - 1) + 1]
      BY <3>1, <3>2
    <3> QED BY <3>1, <3>3
  <2>5. at[b + 1] <= at[n + 1]
    <3>1. b + 1 \in 1 .. (n + 1)
      OBVIOUS
    <3> QED BY <1>5, <1>6, <3>1
  <2>6. c < at[b] + Len(q[b].new)
    BY SMTT(30), <2>3
  <2> QED BY <1>7, <2>3, <2>4, <2>5, <2>6
<1> QED
  BY <1>7, <1>8, <1>9

AwaitedIn(q) ==
  {item.id : item \in UNION {ToSet(batch.new) : batch \in ToSet(q) \ {Termination}}}
GivenOf(q, s) == {c \in Ids : s[c] # NotSent} \ AwaitedIn(q)

LEMMA GivenIsOf ==
  /\ Given = GivenOf(mPendingUpdates, sent)
  /\ Given' = GivenOf(mPendingUpdates', sent')
  BY DEF Given, Awaited, GivenOf, AwaitedIn

LEMMA GivenIs ==
  ASSUME NEW q, NEW s, NEW n, Plain(q, n), NEW at \in [1 .. (n + 1) -> 0 .. MaxConns],
         Lined(q, n, at), KnownBelow(s, at[n + 1])
  PROVE  Cardinality(GivenOf(q, s)) = at[1] /\ at[1] \in 0 .. MaxConns
<1>1. /\ n \in Nat /\ n <= Len(q) /\ Len(q) \in Nat /\ DOMAIN q = 1 .. Len(q)
      /\ \A b \in 1 .. n : q[b] \in Batches
      /\ \A b \in (n + 1) .. Len(q) : q[b] = Termination
  BY DEF Plain
<1>2. ToSet(q) \ {Termination} = {q[b] : b \in 1 .. n}
  <2>1. \A b \in 1 .. n : b \in DOMAIN q /\ q[b] # Termination
    BY <1>1, PipelineAssumption
  <2>2. \A b \in DOMAIN q : b \in 1 .. n \/ b \in (n + 1) .. Len(q)
    BY <1>1
  <2> QED BY <1>1, <2>1, <2>2 DEF ToSet
<1>3. \A b \in 1 .. n : ToSet(q[b].new) = {q[b].new[i] : i \in 1 .. Len(q[b].new)}
  <2> SUFFICES ASSUME NEW b \in 1 .. n
               PROVE  ToSet(q[b].new) = {q[b].new[i] : i \in 1 .. Len(q[b].new)}
    OBVIOUS
  <2>1. q[b].new \in Seq(Items)
    BY <1>1, BatchIs
  <2>2. DOMAIN q[b].new = 1 .. Len(q[b].new)
    BY <2>1
  <2> QED BY <2>2 DEF ToSet
<1>4. AwaitedIn(q) = {item.id : item \in UNION {ToSet(batch.new) : batch \in {q[b] : b \in 1 .. n}}}
  BY <1>2 DEF AwaitedIn
<1>5. \A c : c \in AwaitedIn(q) <=> IsNewIn(q, n, c)
  <2> SUFFICES ASSUME NEW c PROVE c \in AwaitedIn(q) <=> IsNewIn(q, n, c)
    OBVIOUS
  <2>1. c \in AwaitedIn(q) <=> \E b \in 1 .. n : \E item \in ToSet(q[b].new) : item.id = c
    BY <1>4
  <2>2. \A b \in 1 .. n : (\E item \in ToSet(q[b].new) : item.id = c)
                            <=> \E i \in 1 .. Len(q[b].new) : q[b].new[i].id = c
    <3> SUFFICES ASSUME NEW b \in 1 .. n
                 PROVE  (\E item \in ToSet(q[b].new) : item.id = c)
                          <=> \E i \in 1 .. Len(q[b].new) : q[b].new[i].id = c
      OBVIOUS
    <3>1. ToSet(q[b].new) = {q[b].new[i] : i \in 1 .. Len(q[b].new)}
      BY <1>3
    <3> QED BY <3>1
  <2> QED BY <2>1, <2>2 DEF IsNewIn
<1>6. /\ at[1] \in Nat /\ at[n + 1] \in Nat /\ at[1] <= at[n + 1]
      /\ \A c \in Int : IsNewIn(q, n, c) <=> at[1] <= c /\ c < at[n + 1]
  BY <1>1, NewInLine
<1>7. at[n + 1] <= MaxConns /\ at[1] \in 0 .. MaxConns
  <2>1. n + 1 \in 1 .. (n + 1) /\ 1 \in 1 .. (n + 1)
    BY <1>1
  <2> QED BY <2>1
<1>8. GivenOf(q, s) = 0 .. (at[1] - 1)
  <2>1. \A c \in Ids : c \in GivenOf(q, s) <=> c < at[n + 1] /\ ~(at[1] <= c /\ c < at[n + 1])
    BY <1>5, <1>6 DEF GivenOf, KnownBelow, Ids
  <2>2. GivenOf(q, s) \subseteq Ids
    BY DEF GivenOf
  <2>3. \A c \in Ids : c \in Int /\ c >= 0
    BY DEF Ids
  <2>4. \A c \in 0 .. (at[1] - 1) : c \in Ids
    BY <1>6, <1>7, PdConnsAssumption DEF Ids
  <2>5. ASSUME NEW c \in GivenOf(q, s) PROVE c \in 0 .. (at[1] - 1)
    <3>1. c \in Ids /\ c < at[n + 1] /\ ~(at[1] <= c /\ c < at[n + 1])
      BY <2>1, <2>2
    <3> QED BY <1>6, <2>3, <3>1
  <2>6. ASSUME NEW c \in 0 .. (at[1] - 1) PROVE c \in GivenOf(q, s)
    <3>1. c < at[n + 1] /\ ~(at[1] <= c)
      BY <1>6
    <3> QED BY <2>1, <2>4, <3>1
  <2> QED BY <2>5, <2>6
<1>9. Cardinality(0 .. (at[1] - 1)) = at[1]
  <2>1. Cardinality(0 .. (at[1] - 1)) = IF 0 > at[1] - 1 THEN 0 ELSE (at[1] - 1) - 0 + 1
    <3>1. 0 \in Int /\ at[1] - 1 \in Int
      BY <1>6
    <3> QED BY <3>1, FS_Interval, Zenon
  <2> QED BY <1>6, <2>1
<1> QED
  BY <1>7, <1>8, <1>9

-----------------------------------------------------------------------------
(* The traffic on its way.                                                  *)
LEMMA GrowingSame ==
  ASSUME NEW q, NEW n \in Nat, NEW more, \A b \in 1 .. n : more[b] = q[b], NEW s, NEW r,
         Growing(q, n, s, r)
  PROVE  Growing(more, n, s, r)
<1>1. ItemsGrow(more, n)
  BY DEF Growing, ItemsGrow
<1>2. ShownGrows(more, n, r)
  BY DEF Growing, ShownGrows
<1>3. SentMost(more, n, s, r)
  BY DEF Growing, SentMost
<1> QED
  BY <1>1, <1>2, <1>3 DEF Growing

(* updateConnections has put a batch behind the others.                     *)
LEMMA GrowingSent ==
  ASSUME NEW q \in Seq(Batches), NEW s \in [Ids -> Views \cup {NotSent}],
         NEW r, NEW first \in 0 .. MaxConns, ShownTo(r, first), Growing(q, Len(q), s, r),
         NEW batch \in Batches, NEW s2,
         \A item \in Said(batch) : s[item.id].bytes <= item.view.bytes,
         \A item \in Said(batch) : s2[item.id] = item.view,
         \A c \in Ids : ~Mentions(batch, c) => s2[c] = s[c]
  PROVE  Growing(Append(q, batch), Len(q) + 1, s2, r)
<1> DEFINE n == Len(q)
           more == Append(q, batch)
           conns == RP!Conns(r)
<1>1. /\ n \in Nat /\ \A b \in 1 .. n : more[b] = q[b] /\ q[b] \in Batches
      /\ more[n + 1] = batch
  OBVIOUS
<1>2. /\ conns \in Seq(RP!Slots) /\ \A i \in 1 .. Len(conns) : conns[i].id \in Ids
  BY ShownIds
<1> HIDE DEF n, more, conns
<1>3. ASSUME NEW i \in 1 .. Len(conns) PROVE conns[i].bytes \in Int
  <2>1. conns[i] \in RP!Slots
    BY <1>2
  <2> QED BY <2>1, PdConnsAssumption DEF RP!Slots
<1>4. \A c \in Ids : s[c].bytes \in Int
  BY PdConnsAssumption DEF Views, NotSent, Unknown
<1>5. ASSUME NEW some \in Batches, NEW item \in Said(some)
      PROVE  item.id \in Ids /\ item.view.bytes \in Int
  <2>1. item \in Items
    BY BatchIs
  <2> QED BY <2>1, PdConnsAssumption DEF Items, Views
(* What was sent does not fall.                                             *)
<1>6. ASSUME NEW c \in Ids PROVE s[c].bytes <= s2[c].bytes /\ s2[c].bytes \in Int
  <2>1. CASE Mentions(batch, c)
    <3>1. PICK item \in Said(batch) : item.id = c
      BY <2>1 DEF Mentions
    <3> QED BY <1>5, <3>1
  <2>2. CASE ~Mentions(batch, c)
    BY <1>4, <2>2
  <2> QED BY <2>1, <2>2
<1>7. \A b \in 1 .. n : \A item \in Said(q[b]) :
        item.id \in Ids /\ item.view.bytes \in Int /\ item.view.bytes <= s[item.id].bytes
  BY <1>1, <1>5 DEF Growing, SentMost, n
<1>8. \A i \in 1 .. Len(conns) : conns[i].bytes <= s[conns[i].id].bytes
  BY DEF Growing, SentMost, conns
<1>9. \A b \in 1 .. (n + 1) : b = n + 1 \/ (b \in 1 .. n /\ b < n + 1)
  BY <1>1
<1>10. ItemsGrow(more, n + 1)
  <2> SUFFICES ASSUME NEW b \in 1 .. (n + 1), NEW d \in 1 .. (n + 1), b < d,
                      NEW item \in Said(more[b]), NEW later \in Said(more[d]),
                      later.id = item.id
               PROVE  item.view.bytes <= later.view.bytes
    BY DEF ItemsGrow
  <2>1. b \in 1 .. n
    BY <1>1
  <2>2. more[b] = q[b]
    BY <1>1, <2>1
  <2>3. CASE d \in 1 .. n
    <3>1. more[d] = q[d]
      BY <1>1, <2>3
    <3> QED BY <2>1, <2>2, <2>3, <3>1 DEF Growing, ItemsGrow, n
  <2>4. CASE d = n + 1
    <3>1. later \in Said(batch)
      BY <1>1, <2>4
    <3>2. s[later.id].bytes <= later.view.bytes /\ later.view.bytes \in Int
      BY <1>5, <3>1
    <3>3. item.id \in Ids /\ item.view.bytes \in Int /\ item.view.bytes <= s[item.id].bytes
      BY <1>7, <2>1, <2>2
    <3>4. s[item.id].bytes \in Int
      BY <1>4, <3>3
    <3> QED BY <3>2, <3>3, <3>4
  <2> QED BY <1>9, <2>3, <2>4
<1>11. ShownGrows(more, n + 1, r)
  <2> SUFFICES ASSUME NEW i \in 1 .. Len(conns), NEW b \in 1 .. (n + 1),
                      NEW item \in Said(more[b]), item.id = conns[i].id
               PROVE  conns[i].bytes <= item.view.bytes
    BY DEF ShownGrows, conns
  <2>1. CASE b \in 1 .. n
    <3>1. more[b] = q[b]
      BY <1>1, <2>1
    <3> QED BY <2>1, <3>1 DEF Growing, ShownGrows, n, conns
  <2>2. CASE b = n + 1
    <3>1. item \in Said(batch)
      BY <1>1, <2>2
    <3>2. s[item.id].bytes <= item.view.bytes /\ item.view.bytes \in Int
      BY <1>5, <3>1
    <3>3. conns[i].bytes <= s[conns[i].id].bytes /\ conns[i].id \in Ids
      BY <1>2, <1>8
    <3>4. s[conns[i].id].bytes \in Int /\ conns[i].bytes \in Int
      BY <1>3, <1>4, <3>3
    <3> QED BY <3>2, <3>3, <3>4
  <2> QED BY <1>9, <2>1, <2>2
<1>12. SentMost(more, n + 1, s2, r)
  <2>1. ASSUME NEW b \in 1 .. (n + 1), NEW item \in Said(more[b])
        PROVE  item.view.bytes <= s2[item.id].bytes
    <3>1. CASE b \in 1 .. n
      <4>1. item.id \in Ids /\ item.view.bytes \in Int /\ item.view.bytes <= s[item.id].bytes
        BY <1>1, <1>7, <3>1
      <4>2. s[item.id].bytes \in Int /\ s2[item.id].bytes \in Int
            /\ s[item.id].bytes <= s2[item.id].bytes
        BY <1>4, <1>6, <4>1
      <4> QED BY <4>1, <4>2
    <3>2. CASE b = n + 1
      <4>1. item \in Said(batch)
        BY <1>1, <3>2
      <4> QED BY <1>5, <4>1
    <3> QED BY <1>9, <3>1, <3>2
  <2>2. ASSUME NEW i \in 1 .. Len(conns) PROVE conns[i].bytes <= s2[conns[i].id].bytes
    <3>1. conns[i].id \in Ids /\ conns[i].bytes \in Int /\ conns[i].bytes <= s[conns[i].id].bytes
      BY <1>2, <1>3, <1>8
    <3>2. s[conns[i].id].bytes \in Int /\ s2[conns[i].id].bytes \in Int
          /\ s[conns[i].id].bytes <= s2[conns[i].id].bytes
      BY <1>4, <1>6, <3>1
    <3> QED BY <3>1, <3>2
  <2> QED BY <2>1, <2>2 DEF SentMost, conns
<1> QED
  BY <1>10, <1>11, <1>12 DEF Growing, n, more

(* mConnUpdateThread has taken the first batch.                             *)
LEMMA GrowingTaken ==
  ASSUME NEW q, NEW n, Plain(q, n), q # <<>>, Head(q) # Termination, NEW s, NEW r, NEW after,
         Growing(q, n, s, r),
         \A i \in 1 .. Len(RP!Conns(after)) :
           LET c == RP!Conns(after)[i]
           IN  \/ FromBatch(q[1], c)
               \/ ~Mentions(q[1], c.id) /\ \E k \in 1 .. Len(RP!Conns(r)) : c = RP!Conns(r)[k]
  PROVE  Growing(Tail(q), n - 1, s, after)
<1> DEFINE t == Tail(q)
<1>1. n \in Nat /\ n >= 1 /\ \A b \in 1 .. (n - 1) : t[b] = q[b + 1]
  BY PlainTail
<1> HIDE DEF t
<1>2. \A b \in 1 .. (n - 1) : b + 1 \in 1 .. n /\ 1 < b + 1
  BY <1>1
<1>3. ItemsGrow(t, n - 1)
  <2> SUFFICES ASSUME NEW b \in 1 .. (n - 1), NEW d \in 1 .. (n - 1), b < d,
                      NEW item \in Said(t[b]), NEW later \in Said(t[d]), later.id = item.id
               PROVE  item.view.bytes <= later.view.bytes
    BY DEF ItemsGrow
  <2>1. b + 1 \in 1 .. n /\ d + 1 \in 1 .. n /\ b + 1 < d + 1
    BY <1>1
  <2>2. t[b] = q[b + 1] /\ t[d] = q[d + 1]
    BY <1>1
  <2> QED BY <2>1, <2>2 DEF Growing, ItemsGrow
<1>4. \A i \in 1 .. Len(RP!Conns(after)) :
        LET c == RP!Conns(after)[i]
        IN  \/ \E item \in Said(q[1]) : item.id = c.id /\ c.bytes = item.view.bytes
            \/ \E k \in 1 .. Len(RP!Conns(r)) : c = RP!Conns(r)[k]
  BY DEF FromBatch, Agrees
<1>5. 1 \in 1 .. n
  BY <1>1
<1>6. ShownGrows(t, n - 1, after)
  <2> SUFFICES ASSUME NEW i \in 1 .. Len(RP!Conns(after)), NEW b \in 1 .. (n - 1),
                      NEW later \in Said(t[b]), NEW c, c = RP!Conns(after)[i], later.id = c.id
               PROVE  c.bytes <= later.view.bytes
    BY DEF ShownGrows
  <2>1. b + 1 \in 1 .. n /\ 1 < b + 1 /\ later \in Said(q[b + 1])
    BY <1>1, <1>2
  <2>2. CASE \E item \in Said(q[1]) : item.id = c.id /\ c.bytes = item.view.bytes
    <3>1. PICK item \in Said(q[1]) : item.id = c.id /\ c.bytes = item.view.bytes
      BY <2>2
    <3>2. item.view.bytes <= later.view.bytes
      BY <1>5, <2>1, <3>1 DEF Growing, ItemsGrow
    <3> QED BY <3>1, <3>2
  <2>3. CASE \E k \in 1 .. Len(RP!Conns(r)) : c = RP!Conns(r)[k]
    BY <2>1, <2>3 DEF Growing, ShownGrows
  <2> QED BY <1>4, <2>2, <2>3
<1>7. SentMost(t, n - 1, s, after)
  <2>1. \A b \in 1 .. (n - 1) : \A item \in Said(t[b]) : item.view.bytes <= s[item.id].bytes
    BY <1>1, <1>2 DEF Growing, SentMost
  <2>2. ASSUME NEW i \in 1 .. Len(RP!Conns(after)), NEW c, c = RP!Conns(after)[i]
        PROVE  c.bytes <= s[c.id].bytes
    <3>1. CASE \E item \in Said(q[1]) : item.id = c.id /\ c.bytes = item.view.bytes
      BY <1>5, <3>1 DEF Growing, SentMost
    <3>2. CASE \E k \in 1 .. Len(RP!Conns(r)) : c = RP!Conns(r)[k]
      BY <3>2 DEF Growing, SentMost
    <3> QED BY <1>4, <2>2, <3>1, <3>2
  <2> QED BY <2>1, <2>2 DEF SentMost
<1> QED
  BY <1>3, <1>6, <1>7 DEF Growing, t

-----------------------------------------------------------------------------
(* The data of a connection is ahead of what was sent of it.                *)
LEMMA DataTyped ==
  ASSUME IInv, NEW c \in Ids
  PROVE  data[c].view.bytes \in Nat /\ sent[c].bytes \in Int
<1>1. data[c] \in Data /\ sent[c] \in Views \cup {NotSent}
  BY Shapes DEF IInv
<1> QED
  BY <1>1, PdConnsAssumption DEF Data, Views, NotSent, Unknown

LEMMA NotifyAhead ==
  ASSUME IInv, DataAhead, NEW c \in Active, NEW view, data[c].view.bytes <= view.bytes,
         view.bytes \in Int, pd_notify_connection_update(c, view), UNCHANGED java_vars
  PROVE  DataAhead'
<1> SUFFICES ASSUME ~mQueueFull, ~failed, NEW d \in Alive' PROVE sent[d].bytes <= data'[d].view.bytes
  BY DEF DataAhead, java_vars
<1>1. data \in [Ids -> Data] /\ c \in Alive /\ c \in Ids /\ d \in Ids
  BY Shapes DEF IInv, Active, Alive
<1>2. data' = [data EXCEPT ![c].pending = TRUE, ![c].view = view]
  BY DEF pd_notify_connection_update
<1>3. d # c => data'[d] = data[d]
  BY <1>1, <1>2
<1>4. data'[c].view = view
  BY <1>1, <1>2 DEF Data
<1>5. CASE d = c
  <2>1. sent[c].bytes <= data[c].view.bytes
    BY <1>1 DEF DataAhead
  <2>2. sent[c].bytes \in Int /\ data[c].view.bytes \in Int
    BY <1>1, DataTyped
  <2> QED BY <1>4, <1>5, <2>1, <2>2
<1>6. CASE d # c
  <2>1. d \in Alive
    BY <1>1, <1>3, <1>6 DEF Alive
  <2> QED BY <1>3, <1>6, <2>1 DEF DataAhead
<1> QED
  BY <1>5, <1>6

LEMMA NewAhead ==
  ASSUME IInv, IdsKept, DataAhead, handle_new_connection
  PROVE  DataAhead'
<1> DEFINE c == new_conn_id
<1> SUFFICES ASSUME ~mQueueFull, ~failed, NEW d \in Alive' PROVE sent[d].bytes <= data'[d].view.bytes
  BY DEF DataAhead, java_vars, handle_new_connection
<1>1. data \in [Ids -> Data] /\ c \in Nat /\ c < MaxConns /\ d \in Ids
  BY Shapes DEF IInv, Alive, handle_new_connection
<1>2. c \in Ids
  BY <1>1, PdConnsAssumption DEF Ids
<1>3. PICK blocked \in Verdicts : data' = [data EXCEPT ![c] =
         [NoData EXCEPT !.mem = "alive", !.pending = TRUE,
                 !.view = [Unknown EXCEPT !.blocked = blocked]]]
  BY DEF handle_new_connection
<1> HIDE DEF c
<1>4. d # c => data'[d] = data[d]
  BY <1>1, <1>3
<1>5. data'[c].view = [Unknown EXCEPT !.blocked = blocked]
  BY <1>1, <1>2, <1>3 DEF NoData
<1>6. data'[c].view.bytes = 0
  BY <1>5 DEF Unknown
<1>7. CASE d = c
  <2>1. PICK k \in 0 .. MaxConns : KnownBelow(sent, k) /\ Ahead(k)
    BY DEF IdsKept, Ordered
  <2>2. k <= c
    <3>1. Len(new_conns) \in Nat /\ k + Len(new_conns) = c
      BY <2>1, Shapes DEF IInv, Ahead, c
    <3> QED BY <1>1, <2>1, <3>1, PdConnsAssumption
  <2>3. sent[c] = NotSent
    BY <1>1, <1>2, <2>1, <2>2, PdConnsAssumption DEF KnownBelow
  <2>4. sent[c].bytes = -1
    BY <2>3 DEF NotSent, Unknown
  <2> QED BY <1>6, <1>7, <2>4
<1>8. CASE d # c
  <2>1. d \in Alive
    BY <1>1, <1>4, <1>8 DEF Alive
  <2> QED BY <1>4, <1>8, <2>1 DEF DataAhead
<1> QED
  BY <1>7, <1>8

LEMMA DumpAhead ==
  ASSUME IInv, DataAhead, NEW free_all \in BOOLEAN, sendConnectionsDump(free_all)
  PROVE  DataAhead'
<1> SUFFICES ASSUME ~mQueueFull', ~failed', NEW d \in Alive'
             PROVE  sent'[d].bytes <= data'[d].view.bytes
  BY DEF DataAhead
<1>1. /\ updateConnections(Batch) /\ failed' = failed
      /\ conns_clear(Seen(Len(new_conns) + Len(conns_updates)), free_all)
  BY DEF sendConnectionsDump
<1>2. Seen(Len(new_conns) + Len(conns_updates)) \subseteq Listed
  BY SeenListed
<1>3. /\ data' \in [Ids -> Data]
      /\ \A c \in Ids :
           LET gone == c \in Listed /\ (free_all \/ data[c].view.closed)
           IN  /\ gone => data'[c].mem = "freed"
               /\ ~gone => data'[c].mem = data[c].mem /\ data'[c].view = data[c].view
  BY <1>1, <1>2, Cleared
<1>4. d \in Ids /\ data'[d].mem = "alive" /\ d \in Alive /\ data'[d].view = data[d].view
  BY <1>3 DEF Alive
<1>5. Typed /\ ~mQueueFull /\ ~failed
  BY <1>1, QueuedIs, Shapes DEF IInv
<1>6. sent'[d] = IF d \in Listed THEN data[d].view ELSE sent[d]
  BY <1>1, <1>4, <1>5, QueuedIs
<1>7. sent[d].bytes <= data[d].view.bytes /\ data[d].view.bytes \in Nat
  BY <1>4, <1>5, DataTyped DEF DataAhead
<1> QED
  BY <1>4, <1>6, <1>7

LEMMA NativeAhead ==
  ASSUME IInv, IdsKept, DataAhead, NativeStep
  PROVE  DataAhead'
<1>1. CASE handle_new_connection
  BY <1>1, NewAhead
<1>2. CASE \E c \in Ids : pd_process_packet(c)
  <2>1. PICK c \in Ids : pd_process_packet(c)
    BY <1>2
  <2>2. PICK bytes \in {data[c].view.bytes, data[c].view.bytes + 1}, found \in Verdicts :
          pd_notify_connection_update(c,
            [data[c].view EXCEPT !.bytes = bytes, !.blocked = data[c].view.blocked \/ found])
    BY <2>1 DEF pd_process_packet
  <2> DEFINE view == [data[c].view EXCEPT !.bytes = bytes,
                                          !.blocked = data[c].view.blocked \/ found]
  <2>3. data[c].view \in Views /\ data[c].view.bytes \in Nat
    BY DataTyped, Shapes DEF IInv, Data
  <2>4. view.bytes = bytes
    BY <2>3 DEF Views
  <2> HIDE DEF view
  <2>5. data[c].view.bytes <= view.bytes /\ view.bytes \in Int
    BY <2>3, <2>4
  <2>6. c \in Active /\ UNCHANGED java_vars
    BY <2>1 DEF pd_process_packet
  <2>7. pd_notify_connection_update(c, view)
    BY <2>2 DEF view
  <2> QED BY <2>5, <2>6, <2>7, NotifyAhead
<1>3. CASE \E c \in Ids : connection_closed(c)
  <2>1. PICK c \in Ids : connection_closed(c)
    BY <1>3
  <2> DEFINE view == [data[c].view EXCEPT !.closed = TRUE]
  <2>2. data[c].view \in Views /\ data[c].view.bytes \in Nat
    BY DataTyped, Shapes DEF IInv, Data
  <2>3. view.bytes = data[c].view.bytes
    BY <2>2 DEF Views
  <2>4. c \in Active /\ UNCHANGED java_vars /\ pd_notify_connection_update(c, view)
    BY <2>1 DEF connection_closed
  <2> HIDE DEF view
  <2>5. data[c].view.bytes <= view.bytes /\ view.bytes \in Int
    BY <2>2, <2>3
  <2> QED BY <2>4, <2>5, NotifyAhead
<1>4. CASE \E c \in Ids : zdtun_forward_socket_error(c)
  <2>1. PICK c \in Ids : zdtun_forward_socket_error(c)
    BY <1>4
  <2>2. data \in [Ids -> Data] /\ data' = [data EXCEPT ![c].lost = TRUE] /\ UNCHANGED java_vars
    BY <2>1, Shapes DEF zdtun_forward_socket_error, IInv
  <2>3. \A d \in Ids : data'[d].mem = data[d].mem /\ data'[d].view = data[d].view
    BY <2>2 DEF Data
  <2> QED BY <2>2, <2>3 DEF DataAhead, Alive, java_vars
<1>5. CASE \E c \in Ids : check_blocked_conn_cb(c)
  <2>1. PICK c \in Ids : check_blocked_conn_cb(c)
    BY <1>5
  <2> DEFINE view == [data[c].view EXCEPT !.blocked = ~data[c].view.blocked]
  <2>2. data[c].view \in Views /\ data[c].view.bytes \in Nat
    BY DataTyped, Shapes DEF IInv, Data
  <2>3. view.bytes = data[c].view.bytes
    BY <2>2 DEF Views
  <2>4. c \in Active /\ UNCHANGED java_vars /\ pd_notify_connection_update(c, view)
    BY <2>1 DEF check_blocked_conn_cb
  <2> HIDE DEF view
  <2>5. data[c].view.bytes <= view.bytes /\ view.bytes \in Int
    BY <2>2, <2>3
  <2> QED BY <2>4, <2>5, NotifyAhead
<1>6. CASE pd_housekeeping
  BY <1>6, DumpAhead DEF pd_housekeeping
<1>7. CASE stopPacketLoop
  BY <1>7 DEF stopPacketLoop, DataAhead, Alive, java_vars
<1>8. CASE zdtun_finalize
  <2>1. PICK c \in Active :
          pd_notify_connection_update(c, [data[c].view EXCEPT !.closed = TRUE])
    BY <1>8 DEF zdtun_finalize
  <2> DEFINE view == [data[c].view EXCEPT !.closed = TRUE]
  <2>2. data[c].view \in Views /\ data[c].view.bytes \in Nat
    BY DataTyped, Shapes DEF IInv, Data, Active, Alive
  <2>3. view.bytes = data[c].view.bytes
    BY <2>2 DEF Views
  <2>4. UNCHANGED java_vars /\ pd_notify_connection_update(c, view)
    BY <1>8, <2>1 DEF zdtun_finalize
  <2> HIDE DEF view
  <2>5. data[c].view.bytes <= view.bytes /\ view.bytes \in Int
    BY <2>2, <2>3
  <2> QED BY <2>4, <2>5, NotifyAhead
<1>9. CASE pd_run_end
  BY <1>9, DumpAhead DEF pd_run_end
<1> QED
  BY <1>1, <1>2, <1>3, <1>4, <1>5, <1>6, <1>7, <1>8, <1>9 DEF NativeStep

-----------------------------------------------------------------------------
(* The register takes a batch as a step of ConnectionsRegister.             *)
LEMMA FewUpdates ==
  ASSUME NEW m \in Nat, NEW k \in Nat, NEW f \in [1 .. k -> 0 .. (m - 1)],
         \A i, j \in 1 .. k : f[i] = f[j] => i = j
  PROVE  k <= m
<1> SUFFICES ASSUME m < k PROVE FALSE
  OBVIOUS
<1>1. IsFiniteSet(1 .. k) /\ Cardinality(1 .. k) = k
  <2>1. 1 \in Int /\ k \in Int
    OBVIOUS
  <2>2. IsFiniteSet(1 .. k) /\ Cardinality(1 .. k) = IF 1 > k THEN 0 ELSE k - 1 + 1
    BY <2>1, FS_Interval, Zenon
  <2> QED BY <2>2
<1>2. IsFiniteSet(0 .. (m - 1)) /\ Cardinality(0 .. (m - 1)) = m
  <2>1. 0 \in Int /\ m - 1 \in Int
    OBVIOUS
  <2>2. /\ IsFiniteSet(0 .. (m - 1))
        /\ Cardinality(0 .. (m - 1)) = IF 0 > m - 1 THEN 0 ELSE (m - 1) - 0 + 1
    BY <2>1, FS_Interval, Zenon
  <2> QED BY <2>2
<1>3. Cardinality(0 .. (m - 1)) < Cardinality(1 .. k)
  BY <1>1, <1>2
<1>4. \E x, y \in 1 .. k : x # y /\ f[x] = f[y]
  <2> DEFINE S == 1 .. k
             T == 0 .. (m - 1)
  <2>1. IsFiniteSet(S) /\ IsFiniteSet(T) /\ Cardinality(T) < Cardinality(S) /\ f \in [S -> T]
    BY <1>1, <1>2, <1>3
  <2> HIDE DEF S, T
  <2>2. \E x, y \in S : x # y /\ f[x] = f[y]
    BY <2>1, FS_PigeonHole
  <2> QED BY <2>2 DEF S
<1> QED
  BY <1>4

LEMMA RingIs == Ring = RP!Conns(reg)
  BY DEF Ring, RP!Conns, RP!getConn, RP!firstPos

LEMMA ShownUpdatesPossible ==
  ASSUME NEW batch \in Batches, NEW first \in 0 .. MaxConns, NEW next,
         GoesOn(batch, first, next), Cardinality(Given) = first,
         \A i \in 1 .. Len(RP!Conns(reg)) : \A item \in Said(batch) :
           item.id = RP!Conns(reg)[i].id => RP!Conns(reg)[i].bytes <= item.view.bytes,
         RP!Conns(reg) \in Seq(RP!Slots)
  PROVE  ShownItems(batch.updates) \in RP!PossibleUpdates
<1> DEFINE k == Len(batch.updates)
           updates == ShownItems(batch.updates)
           conns == RP!Conns(reg)
           Possible == [id: 0 .. (first - 1), view: RP!Views]
<1>1. /\ batch.updates \in Seq(Items) /\ k \in Nat /\ DOMAIN batch.updates = 1 .. k
      /\ \A i \in 1 .. k : batch.updates[i] \in Items /\ batch.updates[i] \in Said(batch)
  BY BatchIs
<1>2. /\ \A i \in 1 .. k : batch.updates[i].id < first
      /\ \A i, j \in 1 .. k : batch.updates[i].id = batch.updates[j].id => i = j
  BY DEF GoesOn
<1>3. first \in Nat /\ first <= MaxConns /\ MaxConns \in Nat
  BY PdConnsAssumption
<1> HIDE DEF k
<1>4. updates = [i \in 1 .. k |-> Shown(batch.updates[i])]
  BY <1>1 DEF ShownItems
<1> HIDE DEF updates, Possible, conns
<1>5. ASSUME NEW i \in 1 .. k
      PROVE  /\ updates[i] = Shown(batch.updates[i]) /\ updates[i].id = batch.updates[i].id
             /\ updates[i].view.bytes = batch.updates[i].view.bytes
             /\ updates[i].id \in 0 .. (first - 1) /\ updates[i] \in Possible
  <2>1. batch.updates[i].id \in 0 .. (MaxConns - 1) /\ batch.updates[i].view \in Views
    BY <1>1 DEF Items, Ids
  <2>2. updates[i] = Shown(batch.updates[i])
    BY <1>4
  <2>3. Shown(batch.updates[i]).view \in RP!Views
    BY <2>1 DEF Shown, Views, RP!Views
  <2>4. batch.updates[i].id \in 0 .. (first - 1)
    BY <1>2, <1>3, <2>1
  <2> QED BY <2>2, <2>3, <2>4 DEF Shown, Possible
<1>6. updates \in [1 .. k -> Possible] /\ DOMAIN updates = 1 .. k
  BY <1>4, <1>5
<1>7. k \in 0 .. MaxConns
  <2> DEFINE f == [i \in 1 .. k |-> updates[i].id]
  <2>1. f \in [1 .. k -> 0 .. (first - 1)]
    BY <1>5
  <2>2. \A i, j \in 1 .. k : f[i] = f[j] => i = j
    BY <1>2, <1>5
  <2> HIDE DEF f
  <2>3. k <= first
    BY <1>1, <1>3, <2>1, <2>2, FewUpdates
  <2> QED BY <1>1, <1>3, <2>3
<1>8. \A i, j \in DOMAIN updates : updates[i].id = updates[j].id => i = j
  BY <1>2, <1>5, <1>6
<1>9. ASSUME NEW item \in ToSet(updates), NEW c \in ToSet(Ring), c.id = item.id
      PROVE  item.view.bytes >= c.bytes
  <2>1. PICK i \in 1 .. k : item = updates[i]
    BY <1>6 DEF ToSet
  <2>2. PICK l \in 1 .. Len(conns) : c = conns[l]
    <3>1. DOMAIN conns = 1 .. Len(conns)
      BY DEF conns
    <3> QED BY <3>1, RingIs DEF ToSet, conns
  <2>3. batch.updates[i] \in Said(batch) /\ batch.updates[i].id = conns[l].id
    BY <1>1, <1>5, <1>9, <2>1, <2>2
  <2>4. conns[l].bytes <= batch.updates[i].view.bytes
    BY <2>3 DEF conns
  <2>5. conns[l].bytes \in Int /\ batch.updates[i].view.bytes \in Int
    <3>1. conns[l] \in RP!Slots /\ batch.updates[i] \in Items
      BY <1>1 DEF conns
    <3> QED BY <3>1, PdConnsAssumption DEF RP!Slots, Items, Views
  <2> QED BY <1>5, <2>1, <2>2, <2>4, <2>5
<1>10. updates \in UNION {[1 .. l -> Possible] : l \in 0 .. MaxConns}
  BY <1>6, <1>7
<1>11. \A item \in RP!ToSet(updates) : \A c \in RP!ToSet(Ring) :
         c.id = item.id => item.view.bytes >= c.bytes
  BY <1>9 DEF RP!ToSet, ToSet
<1> QED
  BY <1>8, <1>10, <1>11 DEF RP!PossibleUpdates, updates, Possible

LEMMA BatchReceived ==
  ASSUME NEW batch \in Batches, NEW first \in 0 .. MaxConns, NEW next \in 0 .. MaxConns,
         GoesOn(batch, first, next), ShownTo(reg, first),
         Cardinality(Given) = first, Cardinality(Given') = next,
         \A i \in 1 .. Len(RP!Conns(reg)) : \A item \in Said(batch) :
           item.id = RP!Conns(reg)[i].id => RP!Conns(reg)[i].bytes <= item.view.bytes,
         NEW after, after = RP!handle(reg, ShownBatch(batch)),
         reg' = IF RP!TooMany(after) THEN RP!reset(after) ELSE after
  PROVE  RP!Receive
<1> DEFINE shown == ShownBatch(batch)
           n == Len(batch.new)
           views == [i \in 1 .. n |-> shown.new[i].view]
<1>1. /\ shown.new \in Seq(RP!Items) /\ Len(shown.new) = n /\ n \in Nat
      /\ \A i \in 1 .. n : shown.new[i].id = first + i - 1
      /\ shown.updates = ShownItems(batch.updates)
      /\ first \in Nat /\ next = first + n /\ next <= MaxConns
  <2>1. batch.new \in Seq(Items) /\ shown.new = ShownItems(batch.new)
        /\ shown.updates = ShownItems(batch.updates) /\ n \in Nat
    BY BatchIs DEF ShownBatch
  <2>2. shown.new \in Seq(RP!Items) /\ Len(shown.new) = n
        /\ \A i \in 1 .. n : shown.new[i].id = batch.new[i].id
    BY <2>1, ShownItemsAre
  <2> HIDE DEF shown
  <2>3. first \in Nat /\ next <= MaxConns
    BY PdConnsAssumption
  <2> QED BY <2>1, <2>2, <2>3 DEF GoesOn
<1>2. RP!Follows(shown, first)
  BY <1>1, ShownFollows, PdConnsAssumption
<1>3. shown = [new |-> shown.new, updates |-> shown.updates]
  BY DEF ShownBatch
<1>4. after = RP!handle(reg, shown)
  OBVIOUS
<1> HIDE DEF shown, n
<1>5. RP!Shape(reg) /\ RP!EndsAt(RP!Conns(reg), first) /\ Len(RP!Conns(reg)) <= first
  BY DEF ShownTo
<1>6. RP!Conns(reg) \in Seq(RP!Slots)
  BY <1>5, RP!ConnsAre, RegisterAssumed
<1>7. /\ RP!Shape(after)
      /\ RP!Conns(after) = RP!LastOf(RP!Updated(RP!Conns(reg), shown.updates)
                                       \o RP!NewConns(shown.new, n))
      /\ after.mUntrackedItems + after.mCurItems = reg.mUntrackedItems + reg.mCurItems + n
  BY <1>1, <1>2, <1>4, <1>5, RP!HandleIs, RegisterAssumed
<1>8. RP!NewConns(shown.new, n) = [i \in DOMAIN shown.new |-> RP!Conn(shown.new[i])]
  <2>1. DOMAIN shown.new = 1 .. n
    BY <1>1
  <2> QED BY <2>1 DEF RP!NewConns
<1>9. RP!TooMany(after) => /\ RP!Conns(RP!reset(after)) = <<>>
                           /\ RP!reset(after).mCurItems = 0 /\ RP!reset(after).mUntrackedItems = 0
  <2>1. after \in RP!Registers
    BY <1>7 DEF RP!Shape
  <2>2. RP!reset(after).mCurItems = 0 /\ RP!reset(after).mUntrackedItems = 0
    BY <2>1, RP!ResetIs, RegisterAssumed
  <2> QED BY <2>2 DEF RP!Conns
<1>10. Ring' = IF RP!TooMany(after) THEN <<>>
               ELSE RP!LastOf(RP!Updated(Ring, shown.updates)
                                \o [i \in DOMAIN shown.new |-> RP!Conn(shown.new[i])])
  <2>1. Ring' = RP!Conns(reg')
    BY DEF Ring, RP!Conns, RP!getConn, RP!firstPos
  <2> QED BY <1>7, <1>8, <1>9, <2>1, RingIs
<1>11. (reg.mUntrackedItems + reg.mCurItems)' =
         IF RP!TooMany(after) THEN 0 ELSE reg.mUntrackedItems + reg.mCurItems + Len(shown.new)
  BY <1>1, <1>7, <1>9
<1>12. RP!connUpdateWork(shown)
  BY <1>1, <1>4, <1>10, <1>11 DEF RP!connUpdateWork
<1>13. shown.updates \in RP!PossibleUpdates
  BY <1>1, <1>6, ShownUpdatesPossible
<1>14. views \in [1 .. n -> RP!Views]
  <2>1. \A i \in 1 .. n : shown.new[i] \in RP!Items
    BY <1>1
  <2>2. \A i \in 1 .. n : shown.new[i].view \in RP!Views
    BY <2>1 DEF RP!Items
  <2> QED BY <2>2
<1>15. [i \in 1 .. n |-> [id |-> first + i - 1, view |-> views[i]]] = shown.new
  <2>1. \A i \in 1 .. n : shown.new[i] = [id |-> first + i - 1, view |-> views[i]]
    <3> SUFFICES ASSUME NEW i \in 1 .. n
                 PROVE  shown.new[i] = [id |-> first + i - 1, view |-> views[i]]
      OBVIOUS
    <3>1. shown.new[i] \in RP!Items /\ shown.new[i].id = first + i - 1
      BY <1>1
    <3> QED BY <3>1 DEF RP!Items
  <2>2. shown.new = [i \in 1 .. n |-> shown.new[i]]
    BY <1>1
  <2> QED BY <2>1, <2>2
<1> HIDE DEF views
<1>16. RP!connUpdateWork([new |-> [i \in 1 .. n |-> [id |-> Cardinality(Given) + i - 1,
                                                    view |-> views[i]]],
                          updates |-> shown.updates])
  BY <1>3, <1>12, <1>15
<1>17. n \in 0 .. MaxConns /\ Cardinality(Given) + n <= MaxConns
  BY <1>1, PdConnsAssumption
<1> QED
  BY <1>13, <1>14, <1>16, <1>17 DEF RP!Receive

-----------------------------------------------------------------------------
(* The steps of the register are those of its instance in the model.        *)
LEMMA SameReceive ==
  /\ RP!Receive => Register!Receive
  /\ RP!Init => Register!Init
<1>1. Register!PossibleUpdates = RP!PossibleUpdates /\ Register!Views = RP!Views
  BY DEF Register!PossibleUpdates, RP!PossibleUpdates, Register!Views, RP!Views,
         Register!ToSet, RP!ToSet
<1>2. ASSUME NEW batch, RP!connUpdateWork(batch) PROVE Register!connUpdateWork(batch)
  <2>1. Register!handle(reg, batch) = RP!handle(reg, batch)
    BY SameHandle
  <2>2. \A r : Register!TooMany(r) = RP!TooMany(r)
    BY DEF Register!TooMany, RP!TooMany
  <2>3. \A item : Register!Conn(item) = RP!Conn(item)
    BY DEF Register!Conn, RP!Conn
  <2>4. \A conns, items : Register!Updated(conns, items) = RP!Updated(conns, items)
    BY DEF Register!Updated, RP!Updated, Register!Conn, RP!Conn, Register!ToSet, RP!ToSet
  <2>5. \A s : Register!LastOf(s) = RP!LastOf(s)
    BY DEF Register!LastOf, RP!LastOf, Register!Max, RP!Max
  <2> QED BY <1>2, <2>1, <2>2, <2>3, <2>4, <2>5, SameReset
          DEF Register!connUpdateWork, RP!connUpdateWork
<1>3. RP!Receive => Register!Receive
  BY <1>1, <1>2 DEF Register!Receive, RP!Receive
<1>4. RP!Init => Register!Init
  BY SameReset DEF Register!Init, RP!Init
<1> QED
  BY <1>3, <1>4

LEMMA SameCounters == RP!CountersShown => Register!CountersShown
<1>1. \A values : Register!Total(values) = RP!Total(values)
  BY DEF Register!Total, RP!Total
<1>2. \A b : Register!Bit(b) = RP!Bit(b)
  BY DEF Register!Bit, RP!Bit
<1>3. \A S : Register!Max(S) = RP!Max(S)
  BY DEF Register!Max, RP!Max
<1>4. Register!Conns(reg) = RP!Conns(reg)
  BY DEF Register!Conns, RP!Conns, Register!getConn, RP!getConn, Register!firstPos, RP!firstPos
<1>5. Register!Range(RP!Conns(reg)) = RP!Range(RP!Conns(reg))
  BY DEF Register!Range, RP!Range
<1>6. RP!NothingUncounted => Register!NothingUncounted
  BY DEF RP!NothingUncounted, Register!NothingUncounted
<1>7. RP!MaxBytesShown => Register!MaxBytesShown
  BY <1>3, <1>4, <1>5 DEF RP!MaxBytesShown, Register!MaxBytesShown
<1>8. \A conns : Register!Alerted(conns) = RP!Alerted(conns)
  BY <1>1, <1>2 DEF RP!Alerted, Register!Alerted
<1>9. RP!MaliciousShown => Register!MaliciousShown
  BY <1>4, <1>8 DEF RP!MaliciousShown, Register!MaliciousShown
<1>10. \A u, conns : /\ Register!BytesOf(u, conns) = RP!BytesOf(u, conns)
                     /\ Register!BlockedOf(u, conns) = RP!BlockedOf(u, conns)
                     /\ Register!NumberOf(u, conns) = RP!NumberOf(u, conns)
  BY <1>1, <1>2 DEF RP!BytesOf, Register!BytesOf, RP!BlockedOf, Register!BlockedOf,
       RP!NumberOf, Register!NumberOf, RP!OfUid, Register!OfUid
<1>11. RP!StatsCoverShown => Register!StatsCoverShown
  BY <1>4, <1>10 DEF RP!StatsCoverShown, Register!StatsCoverShown
<1> QED
  BY <1>6, <1>7, <1>9, <1>11 DEF RP!CountersShown, Register!CountersShown

(* What the register was given does not change while no batch is taken.     *)
LEMMA GivenSame ==
  ASSUME ToSet(mPendingUpdates') \ {Termination} = ToSet(mPendingUpdates) \ {Termination},
         UNCHANGED sent
  PROVE  Given' = Given
  BY DEF Given, Awaited

LEMMA RegisterSame ==
  ASSUME UNCHANGED reg, Given' = Given
  PROVE  UNCHANGED RP!vars
<1>1. Ring' = Ring
  BY DEF Ring
<1> QED
  BY <1>1 DEF RP!vars

LEMMA AppendedSet ==
  ASSUME NEW S, NEW q \in Seq(S), NEW x \in S
  PROVE  ToSet(Append(q, x)) = ToSet(q) \cup {x}
  BY AppendSet

LEMMA GivenSent ==
  ASSUME IInv, NEW k \in 0 .. MaxConns, Ordered(k), SendsBatch
  PROVE  Given' = Given
<1>1. /\ mPendingUpdates \in Seq(Batches) /\ Batch \in Batches
      /\ new_conns \in Seq(Ids) /\ conns_updates \in Seq(Ids)
  BY Shapes, BatchTyped DEF IInv
<1>2. Ahead(k) /\ KnownBelow(sent, k)
  BY DEF Ordered, SendsBatch
<1>3. ToSet(mPendingUpdates') = ToSet(mPendingUpdates) \cup {Batch} /\ Batch # Termination
  BY <1>1, AppendedSet, PipelineAssumption DEF SendsBatch
<1>4. {item.id : item \in ToSet(Batch.new)} = ToSet(new_conns)
  <2>1. /\ DOMAIN Batch.new = DOMAIN new_conns
        /\ \A i \in DOMAIN new_conns : Batch.new[i] = Item(new_conns[i])
    BY DEF Batch
  <2>2. ToSet(Batch.new) = {Item(new_conns[i]) : i \in DOMAIN new_conns}
    BY <2>1 DEF ToSet
  <2>3. \A c : Item(c).id = c
    BY DEF Item
  <2> QED BY <2>2, <2>3 DEF ToSet
<1>5. Awaited' = Awaited \cup ToSet(new_conns)
  <2>1. ToSet(mPendingUpdates') \ {Termination} = (ToSet(mPendingUpdates) \ {Termination}) \cup {Batch}
    BY <1>3
  <2> DEFINE old == ToSet(mPendingUpdates) \ {Termination}
             Ids_of(S) == {item.id : item \in UNION {ToSet(batch.new) : batch \in S}}
  <2>2. Awaited = Ids_of(old)
    BY DEF Awaited
  <2>3. Awaited' = Ids_of(old \cup {Batch})
    BY <2>1 DEF Awaited
  <2> HIDE DEF old
  <2>4. Ids_of(old \cup {Batch}) = Ids_of(old) \cup {item.id : item \in ToSet(Batch.new)}
    OBVIOUS
  <2> QED BY <1>4, <2>2, <2>3, <2>4
<1>6. ASSUME NEW c \in ToSet(new_conns) PROVE c \in Ids /\ sent[c] = NotSent
  <2>1. PICK i \in 1 .. Len(new_conns) : c = new_conns[i]
    BY <1>1 DEF ToSet
  <2>2. c \in Ids /\ c = (k + i) - 1
    BY <1>1, <1>2, <2>1 DEF Ahead
  <2>3. ~(c < k)
    BY <2>2, PdConnsAssumption
  <2> QED BY <1>2, <2>2, <2>3 DEF KnownBelow
<1>7. ASSUME NEW c \in ToSet(conns_updates) PROVE c \in Ids /\ sent[c] # NotSent
  <2>1. c \in Ids
    BY <1>1 DEF ToSet
  <2> QED BY <1>2, <2>1 DEF Ahead, KnownBelow
<1>8. ASSUME NEW c \in Ids
      PROVE  sent'[c] # NotSent <=> sent[c] # NotSent \/ c \in ToSet(new_conns)
  <2>1. sent'[c] = IF c \in Listed THEN data[c].view ELSE sent[c]
    BY DEF SendsBatch
  <2>2. data[c].view # NotSent
    <3>1. data[c].view.bytes \in Nat
      BY DataTyped
    <3> QED BY <3>1 DEF NotSent, Unknown
  <2> QED BY <1>7, <2>1, <2>2 DEF Listed
<1> QED
  BY <1>5, <1>6, <1>8 DEF Given

-----------------------------------------------------------------------------
(* The whole, with the traffic.                                             *)
LEMMA InitMInv == PipelineInit => MInv
<1> SUFFICES ASSUME PipelineInit PROVE MInv
  OBVIOUS
<1>1. PInv /\ RP!IInv
  BY InitPInv, InitRegister, RP!InitIInv, RegisterAssumed
<1>2. DataAhead
  BY DEF PipelineInit, Init, DataAhead, Alive, NoData
<1>3. mPendingUpdates = <<>> /\ Len(mPendingUpdates) = 0
  BY DEF PipelineInit, Init
<1>4. reg.mCurItems = 0
  BY SameReset DEF PipelineInit, RP!Empty
<1>5. \A i \in 1 .. Len(RP!Conns(reg)) : FALSE
  BY <1>4 DEF RP!Conns
<1>6. Growing(mPendingUpdates, 0, sent, reg)
  <2>1. \A b \in 1 .. 0 : FALSE
    OBVIOUS
  <2> QED BY <1>5, <2>1 DEF Growing, ItemsGrow, ShownGrows, SentMost
<1>7. \A n \in 0 .. Len(mPendingUpdates) : n = 0
  BY <1>3
<1> QED
  BY <1>1, <1>2, <1>6, <1>7 DEF MInv

(* What the steps show of the register.                                     *)
Fed == ~failed' =>
  /\ ~failed
  /\ RP!Receive \/ UNCHANGED RP!vars
  /\ \A n \in 0 .. Len(mPendingUpdates') :
       Plain(mPendingUpdates', n) => Growing(mPendingUpdates', n, sent', reg')

LEMMA FedMInv ==
  ASSUME MInv, PInv', Fed, capture' = "native" => DataAhead'
  PROVE  MInv'
<1> SUFFICES ASSUME ~failed' PROVE RP!IInv'
  BY DEF MInv, Fed
<1>1. RP!IInv /\ (RP!Receive \/ UNCHANGED RP!vars)
  BY DEF MInv, Fed
<1>2. [RP!Next]_(RP!vars)
  BY <1>1 DEF RP!Next
<1> QED
  BY <1>1, <1>2, RP!NextIInv, RegisterAssumed

LEMMA NativeFed == MInv /\ native => Fed /\ DataAhead' /\ (~failed => UNCHANGED RP!vars)
<1> SUFFICES ASSUME MInv, native PROVE Fed /\ DataAhead' /\ (~failed => UNCHANGED RP!vars)
  OBVIOUS
<1>1. NativeStep /\ capture = "native" /\ UNCHANGED reg
  BY DEF native
<1>2. IInv /\ IdsKept /\ DataAhead
  BY <1>1 DEF MInv, PInv
<1>3. DataAhead'
  BY <1>1, <1>2, NativeAhead
<1>4. mPendingUpdates \in Seq(Batches)
  BY <1>2 DEF IInv, Typed
<1>5. Plain(mPendingUpdates, Len(mPendingUpdates)) /\ Len(mPendingUpdates) \in Nat
  BY <1>4, AllPlain
<1>6. ~failed => Growing(mPendingUpdates, Len(mPendingUpdates), sent, reg)
  <2>1. Len(mPendingUpdates) \in 0 .. Len(mPendingUpdates)
    BY <1>5
  <2> QED BY <1>5, <2>1 DEF MInv
<1>7. CASE UNCHANGED <<mPendingUpdates, sent>>
  <2>1. Given' = Given
    BY <1>7, GivenSame
  <2>2. UNCHANGED RP!vars
    BY <1>1, <2>1, RegisterSame
  <2>3. ~failed' => ~failed
    BY <1>2, <1>1, NativeSends DEF SendsBatch
  <2>4. ~failed => \A n \in 0 .. Len(mPendingUpdates') :
          Plain(mPendingUpdates', n) => Growing(mPendingUpdates', n, sent', reg')
    BY <1>1, <1>7 DEF MInv
  <2> QED BY <1>3, <2>2, <2>3, <2>4 DEF Fed
<1>8. CASE SendsBatch /\ failed
  BY <1>3, <1>8 DEF SendsBatch, Fed
<1>9. CASE SendsBatch /\ ~failed
  <2>1. PICK k \in 0 .. MaxConns : Ordered(k)
    BY <1>2, <1>9 DEF IdsKept
  <2>2. UNCHANGED RP!vars
    BY <1>1, <1>2, <1>9, <2>1, GivenSent, RegisterSame
  <2>3. PICK at \in [1 .. (Len(mPendingUpdates) + 1) -> 0 .. MaxConns] : ShownTo(reg, at[1])
    BY <1>1, <1>9 DEF MInv, PInv, Told
  <2>4. at[1] \in 0 .. MaxConns
    BY <1>5
  <2>5. Batch \in Batches /\ sent \in [Ids -> Views \cup {NotSent}] /\ Listed \subseteq Alive
        /\ Listed \subseteq Ids
    BY <1>2, BatchTyped, Shapes DEF IInv, Arrays, Alive
  <2>6. /\ \A item \in Said(Batch) : item.id \in Listed /\ item.view = data[item.id].view
        /\ \A c \in Listed : Mentions(Batch, c)
    BY <1>2, <1>9, <2>1, BatchGoesOn DEF Ordered, SendsBatch
  <2>7. \A c \in Ids : sent'[c] = IF c \in Listed THEN data[c].view ELSE sent[c]
    BY <1>9 DEF SendsBatch
  <2>8. \A item \in Said(Batch) : sent[item.id].bytes <= item.view.bytes
    BY <1>2, <1>9, <2>5, <2>6 DEF DataAhead, SendsBatch
  <2>9. \A item \in Said(Batch) : sent'[item.id] = item.view
    BY <2>5, <2>6, <2>7
  <2>10. \A c \in Ids : ~Mentions(Batch, c) => sent'[c] = sent[c]
    BY <2>6, <2>7
  <2>11. Growing(Append(mPendingUpdates, Batch), Len(mPendingUpdates) + 1, sent', reg)
    BY <1>4, <1>6, <1>9, <2>3, <2>4, <2>5, <2>8, <2>9, <2>10, GrowingSent
  <2>12. mPendingUpdates' = Append(mPendingUpdates, Batch) /\ mPendingUpdates' \in Seq(Batches)
         /\ Len(mPendingUpdates') = Len(mPendingUpdates) + 1
    BY <1>4, <1>9, <2>5 DEF SendsBatch
  <2>13. ASSUME NEW n, Plain(mPendingUpdates', n) PROVE Growing(mPendingUpdates', n, sent', reg')
    <3>1. Plain(mPendingUpdates', Len(mPendingUpdates'))
      BY <2>12, AllPlain
    <3>2. n = Len(mPendingUpdates) + 1
      BY <2>12, <2>13, <3>1, PlainOne
    <3> QED BY <1>1, <2>11, <2>12, <3>2
  <2> QED BY <1>3, <1>9, <2>2, <2>13 DEF Fed
<1> QED
  BY <1>1, <1>2, <1>7, <1>8, <1>9, NativeSends

(* The capture thread offers a termination request, or does nothing.        *)
LEMMA OfferFed ==
  ASSUME MInv, offer \/ UNCHANGED mPendingUpdates, UNCHANGED <<sent, failed, reg>>
  PROVE  Fed /\ UNCHANGED RP!vars
<1>1. PICK n \in 0 .. Len(mPendingUpdates) : Plain(mPendingUpdates, n)
  BY DEF MInv, PInv
<1>2. n \in Nat /\ mPendingUpdates \in Seq(Batches \cup {Termination})
  BY <1>1, PlainIs DEF Plain
<1>3. ~failed => Growing(mPendingUpdates, n, sent, reg)
  BY <1>1 DEF MInv
<1>4. CASE UNCHANGED mPendingUpdates
  <2>1. UNCHANGED RP!vars
    BY <1>4, GivenSame, RegisterSame
  <2> QED BY <1>4, <2>1 DEF Fed, MInv
<1>5. CASE mPendingUpdates' = Append(mPendingUpdates, Termination)
  <2>1. ToSet(mPendingUpdates') = ToSet(mPendingUpdates) \cup {Termination}
    <3>1. Termination \in Batches \cup {Termination}
      OBVIOUS
    <3> QED BY <1>2, <1>5, <3>1, AppendedSet
  <2>2. UNCHANGED RP!vars
    BY <2>1, GivenSame, RegisterSame
  <2>3. Plain(mPendingUpdates', n) /\ \A b \in 1 .. n : mPendingUpdates'[b] = mPendingUpdates[b]
    BY <1>1, <1>5, PlainAppend
  <2>4. ~failed => Growing(mPendingUpdates', n, sent', reg')
    BY <1>2, <1>3, <2>3, GrowingSame
  <2>5. ASSUME NEW m, Plain(mPendingUpdates', m), ~failed
        PROVE  Growing(mPendingUpdates', m, sent', reg')
    <3>1. m = n
      BY <2>3, <2>5, PlainOne
    <3> QED BY <2>4, <2>5, <3>1
  <2> QED BY <2>2, <2>5 DEF Fed
<1> QED
  BY <1>4, <1>5 DEF offer

(* mConnUpdateThread.                                                       *)
LEMMA UpdateFed == MInv /\ connUpdateWork => Fed
<1> SUFFICES ASSUME MInv, connUpdateWork, ~failed PROVE Fed
  BY DEF connUpdateWork, Fed
<1>1. /\ mPendingUpdates # <<>> /\ mPendingUpdates' = Tail(mPendingUpdates)
      /\ UNCHANGED <<sent, failed>>
  BY DEF connUpdateWork
<1>2. PICK n \in 0 .. Len(mPendingUpdates) :
        Plain(mPendingUpdates, n) /\ Told(mPendingUpdates, n, sent, reg)
  BY DEF MInv, PInv
<1>3. n \in Nat /\ mPendingUpdates \in Seq(Batches \cup {Termination})
      /\ Growing(mPendingUpdates, n, sent, reg)
  BY <1>2, PlainIs DEF Plain, MInv
<1>4. CASE Head(mPendingUpdates) = Termination
  <2>1. reg' = reg
    BY <1>4 DEF connUpdateWork
  <2>2. n = 0
    <3>1. Head(mPendingUpdates) = mPendingUpdates[1]
      BY <1>1, <1>3
    <3>2. 1 \in 1 .. n => mPendingUpdates[1] \in Batches
      BY <1>2 DEF Plain
    <3> QED BY <1>3, <1>4, <3>1, <3>2, PipelineAssumption
  <2>3. /\ Len(mPendingUpdates) \in Nat /\ Len(mPendingUpdates') = Len(mPendingUpdates) - 1
        /\ DOMAIN mPendingUpdates = 1 .. Len(mPendingUpdates)
        /\ DOMAIN mPendingUpdates' = 1 .. (Len(mPendingUpdates) - 1)
        /\ \A b \in 1 .. (Len(mPendingUpdates) - 1) :
             mPendingUpdates'[b] = mPendingUpdates[b + 1]
    BY <1>1, <1>3
  <2>4. \A b \in 1 .. Len(mPendingUpdates) : mPendingUpdates[b] = Termination
    BY <1>2, <2>2 DEF Plain
  <2>5. \A b \in 1 .. (Len(mPendingUpdates) - 1) : b + 1 \in 1 .. Len(mPendingUpdates)
    BY <2>3
  <2>6. \A b \in DOMAIN mPendingUpdates' : mPendingUpdates'[b] = Termination
    BY <2>3, <2>4, <2>5
  <2>7. ToSet(mPendingUpdates) \ {Termination} = {} /\ ToSet(mPendingUpdates') \ {Termination} = {}
    BY <2>3, <2>4, <2>6 DEF ToSet
  <2>8. UNCHANGED RP!vars
    BY <1>1, <2>1, <2>7, GivenSame, RegisterSame
  <2>9. Growing(mPendingUpdates', 0, sent', reg')
    <3>1. \A b \in 1 .. 0 : mPendingUpdates'[b] = mPendingUpdates[b]
      OBVIOUS
    <3>2. 0 \in Nat /\ Growing(mPendingUpdates, 0, sent, reg)
      BY <1>3, <2>2
    <3> QED BY <1>1, <2>1, <3>1, <3>2, GrowingSame
  <2>10. ASSUME NEW m, Plain(mPendingUpdates', m) PROVE m = 0
    <3>1. m \in Nat /\ m <= Len(mPendingUpdates') /\ \A b \in 1 .. m : mPendingUpdates'[b] \in Batches
      BY <2>10, <2>3 DEF Plain
    <3>2. CASE m > 0
      <4>1. 1 \in 1 .. m /\ 1 \in DOMAIN mPendingUpdates'
        BY <2>3, <3>1, <3>2
      <4> QED BY <2>6, <3>1, <4>1, PipelineAssumption
    <3> QED BY <3>1, <3>2
  <2> QED BY <2>8, <2>9, <2>10 DEF Fed
<1>5. CASE Head(mPendingUpdates) # Termination
  <2> DEFINE q == mPendingUpdates
             after == RP!handle(reg, ShownBatch(q[1]))
  <2>1. Head(q) = q[1] /\ q[1] \in Batches /\ n >= 1 /\ Plain(Tail(q), n - 1)
    BY <1>1, <1>2, <1>5, PlainTail
  <2>2. reg' = IF RP!TooMany(after) THEN RP!reset(after) ELSE after
    <3>1. apply(Head(q)) = after
      BY <2>1, SameHandle DEF apply, ShownBatch, ShownItems
    <3>2. Register!reset(apply(Head(q))) = RP!reset(after)
      BY <3>1, SameReset
    <3>3. Register!TooMany(apply(Head(q))) <=> RP!TooMany(after)
      BY <3>1 DEF Register!TooMany, RP!TooMany
    <3> HIDE DEF after
    <3> QED BY <1>5, <3>1, <3>2, <3>3 DEF connUpdateWork
  <2>3. PICK at \in [1 .. (n + 1) -> 0 .. MaxConns] :
          /\ Lined(q, n, at) /\ ShownTo(reg, at[1]) /\ KnownBelow(sent, at[n + 1])
          /\ LastWord(q, n, sent) /\ ShownLatest(q, n, sent, reg)
    BY <1>2 DEF Told
  <2>4. 1 \in 1 .. n /\ 1 \in 1 .. (n + 1) /\ 2 \in 1 .. (n + 1) /\ 1 + 1 = 2
    BY <1>3, <2>1
  <2>5. /\ at[1] \in 0 .. MaxConns /\ at[2] \in 0 .. MaxConns /\ GoesOn(q[1], at[1], at[2])
        /\ at[1] \in Nat /\ at[2] \in Nat
    BY <2>3, <2>4, PdConnsAssumption DEF Lined
  <2>6. Cardinality(Given) = at[1]
    BY <1>2, <2>3, GivenIs, GivenIsOf
  <2> HIDE DEF q
  <2>7. /\ ShownTo(after, at[2])
        /\ \A i \in 1 .. Len(RP!Conns(after)) :
             LET c == RP!Conns(after)[i]
             IN  \/ FromBatch(q[1], c)
                 \/ ~Mentions(q[1], c.id) /\ \E k \in 1 .. Len(RP!Conns(reg)) : c = RP!Conns(reg)[k]
    BY <2>1, <2>3, <2>5, HandleShows
  <2> HIDE DEF after
  <2>8. /\ Growing(Tail(q), n - 1, sent, after)
        /\ Growing(Tail(q), n - 1, sent, RP!reset(after))
    <3>1. Plain(q, n) /\ q # <<>> /\ Head(q) # Termination /\ Growing(q, n, sent, reg)
      BY <1>1, <1>2, <1>3, <1>5 DEF q
    <3>2. Growing(Tail(q), n - 1, sent, after)
      BY <2>7, <3>1, GrowingTaken
    <3>3. \A i \in 1 .. Len(RP!Conns(RP!reset(after))) : FALSE
      <4>1. after \in RP!Registers
        BY <2>7 DEF ShownTo, RP!Shape
      <4>2. RP!reset(after).mCurItems = 0
        BY <4>1, RP!ResetIs, RegisterAssumed
      <4> QED BY <4>2 DEF RP!Conns
    <3>4. Growing(Tail(q), n - 1, sent, RP!reset(after))
      BY <3>1, <3>3, GrowingTaken
    <3> QED BY <3>2, <3>4
  <2>9. Growing(mPendingUpdates', n - 1, sent', reg')
    BY <1>1, <2>2, <2>8 DEF q
  <2>10. \A m : Plain(mPendingUpdates', m) => m = n - 1
    BY <1>1, <2>1, PlainOne DEF q
  <2>11. Cardinality(Given') = at[2]
    <3> DEFINE left == [b \in 1 .. n |-> at[b + 1]]
    <3>1. /\ left \in [1 .. ((n - 1) + 1) -> 0 .. MaxConns]
          /\ left[1] = at[2] /\ left[(n - 1) + 1] = at[n + 1]
      <4>1. (n - 1) + 1 = n /\ 1 \in 1 .. n /\ n \in 1 .. n
            /\ \A b \in 1 .. n : b + 1 \in 1 .. (n + 1)
        BY <1>3, <2>1
      <4> QED BY <4>1
    <3>2. Lined(Tail(q), n - 1, left)
      <4> SUFFICES ASSUME NEW b \in 1 .. (n - 1) PROVE GoesOn(Tail(q)[b], left[b], left[b + 1])
        BY <3>1 DEF Lined
      <4>1. b \in 1 .. n /\ b + 1 \in 1 .. n
        BY <1>3
      <4>2. GoesOn(q[b + 1], at[b + 1], at[(b + 1) + 1])
        BY <2>3, <4>1 DEF Lined
      <4>3. Tail(q)[b] = q[b + 1]
        BY <1>1, <1>2, <1>5, PlainTail DEF q
      <4> QED BY <4>1, <4>2, <4>3
    <3> HIDE DEF left
    <3>3. Plain(mPendingUpdates', n - 1) /\ Lined(mPendingUpdates', n - 1, left)
          /\ KnownBelow(sent', left[(n - 1) + 1])
      BY <1>1, <2>1, <2>3, <3>1, <3>2 DEF q
    <3>4. Cardinality(GivenOf(mPendingUpdates', sent')) = left[1]
      BY <3>1, <3>3, GivenIs
    <3> QED BY <3>1, <3>4, GivenIsOf
  <2>12. \A i \in 1 .. Len(RP!Conns(reg)) : \A item \in Said(q[1]) :
           item.id = RP!Conns(reg)[i].id => RP!Conns(reg)[i].bytes <= item.view.bytes
    BY <1>3, <2>4 DEF Growing, ShownGrows, q
  <2>13. RP!Receive
    <3>1. after = RP!handle(reg, ShownBatch(q[1]))
      BY DEF after
    <3> QED BY <2>1, <2>2, <2>3, <2>5, <2>6, <2>11, <2>12, <3>1, BatchReceived
  <2> QED BY <2>9, <2>10, <2>13 DEF Fed
<1> QED
  BY <1>4, <1>5

-----------------------------------------------------------------------------
LEMMA NextMInv ==
  ASSUME MInv, [PipelineNext]_pipeline_vars
  PROVE  MInv' /\ (RP!Receive \/ UNCHANGED RP!vars \/ failed)
<1>1. PInv'
  BY NextPInv DEF MInv
<1>2. CASE native
  BY <1>1, <1>2, NativeFed, FedMInv
<1>3. ASSUME offer \/ UNCHANGED mPendingUpdates, UNCHANGED <<sent, failed, reg>>,
             capture' # "native"
      PROVE  MInv' /\ UNCHANGED RP!vars
  BY <1>1, <1>3, OfferFed, FedMInv
<1>4. CASE signalServicesTermination
  <2>1. offer /\ capture' # "native" /\ UNCHANGED <<sent, failed, reg>>
    BY <1>4 DEF signalServicesTermination
  <2> QED BY <1>3, <2>1
<1>5. CASE stopAndJoinThreads
  <2>1. offer \/ UNCHANGED mPendingUpdates
    BY <1>5 DEF stopAndJoinThreads, vars, java_vars
  <2>2. capture' # "native" /\ UNCHANGED <<sent, failed, reg>>
    BY <1>5 DEF stopAndJoinThreads, vars, java_vars
  <2> QED BY <1>3, <2>1, <2>2
<1>6. CASE UNCHANGED <<vars, reg, updater, capture>>
  <2>1. UNCHANGED <<mPendingUpdates, sent, failed, reg, capture>>
    BY <1>6 DEF vars, java_vars
  <2>2. Fed /\ UNCHANGED RP!vars
    BY <2>1, OfferFed
  <2>3. DataAhead => DataAhead'
    BY <1>6 DEF DataAhead, Alive, vars, native_vars, java_vars
  <2>4. capture' = "native" => DataAhead'
    BY <2>1, <2>3 DEF MInv
  <2> QED BY <1>1, <2>2, <2>4, FedMInv
<1>7. CASE connUpdateWork
  <2>1. Fed
    BY <1>7, UpdateFed
  <2>2. UNCHANGED <<data, mQueueFull, sent, failed, capture>>
    BY <1>7 DEF connUpdateWork, native_vars
  <2>3. DataAhead => DataAhead'
    BY <2>2 DEF DataAhead, Alive
  <2>4. MInv'
    BY <1>1, <2>1, <2>2, <2>3, FedMInv DEF MInv
  <2> QED BY <2>1, <2>2, <2>4 DEF Fed
<1> QED
  BY <1>2, <1>4, <1>5, <1>6, <1>7 DEF PipelineNext, onDestroy, pipeline_vars

LEMMA TrafficInvariant == PipelineSpec => []MInv
<1>1. MInv /\ [PipelineNext]_pipeline_vars => MInv'
  BY NextMInv
<1> QED BY InitMInv, <1>1, PTL DEF PipelineSpec

(* Until the JVM fails, what ConnectionsRegister assumes of the batches it  *)
(* gets is what the native side, the queue and the updates thread give it:  *)
(* the new connections go on where those before ended, an update is of one  *)
(* that came before, once in a batch, and takes no traffic back.  So what   *)
(* is proved of ConnectionsRegister holds in the app.                       *)
THEOREM RegisterFedSafe == PipelineSpec => RegisterFed
<1>1. PipelineInit => Register!Init
  BY InitRegister, SameReceive
<1>2. UNCHANGED RP!vars => UNCHANGED Register!vars
  BY DEF RP!vars, Register!vars
<1>3. MInv /\ [PipelineNext]_pipeline_vars => [failed \/ Register!Next]_(Register!vars)
  BY <1>2, NextMInv, SameReceive DEF Register!Next
<1> QED BY <1>1, <1>3, TrafficInvariant, PTL DEF PipelineSpec, RegisterFed

(* In the whole, too: the bytes, the counters and the statistics that the   *)
(* user interface shows are those of the connections that it shows, until   *)
(* the JVM fails.                                                           *)
THEOREM CountersAgreeSafe == PipelineSpec => []CountersAgree
<1>1. MInv => CountersAgree
  BY RP!CountersAre, RegisterAssumed, SameCounters DEF MInv, CountersAgree
<1> QED BY <1>1, TrafficInvariant, PTL

-----------------------------------------------------------------------------
(* The queue of PdConns in the whole.                                       *)
BatchedOf(q) == [b \in {b \in DOMAIN q : q[b] # Termination} |-> q[b]]

LEMMA BatchedIsOf ==
  /\ Batched = BatchedOf(mPendingUpdates)
  /\ Batched' = BatchedOf(mPendingUpdates')
  BY DEF Batched, BatchedOf

LEMMA BatchedIs ==
  ASSUME NEW q, NEW n, Plain(q, n)
  PROVE  BatchedOf(q) = [b \in 1 .. n |-> q[b]]
<1>1. n \in Nat /\ n <= Len(q) /\ Len(q) \in Nat /\ DOMAIN q = 1 .. Len(q)
  BY DEF Plain
<1>2. {b \in DOMAIN q : q[b] # Termination} = 1 .. n
  <2>1. \A b \in 1 .. n : b \in DOMAIN q /\ q[b] # Termination
    BY <1>1, PipelineAssumption DEF Plain
  <2>2. \A b \in DOMAIN q : b \in 1 .. n \/ q[b] = Termination
    BY <1>1 DEF Plain
  <2> QED BY <2>1, <2>2
<1> QED
  BY <1>2 DEF BatchedOf

LEMMA BatchedAll ==
  ASSUME NEW q, Plain(q, Len(q))
  PROVE  BatchedOf(q) = q
<1>1. q \in Seq(Batches \cup {Termination}) /\ BatchedOf(q) = [b \in 1 .. Len(q) |-> q[b]]
  BY BatchedIs DEF Plain
<1> QED
  BY <1>1

LEMMA BatchedSame ==
  ASSUME NEW q, NEW r, NEW n, Plain(q, n), Plain(r, n), \A b \in 1 .. n : r[b] = q[b]
  PROVE  BatchedOf(r) = BatchedOf(q)
<1>1. BatchedOf(q) = [b \in 1 .. n |-> q[b]] /\ BatchedOf(r) = [b \in 1 .. n |-> r[b]]
  BY BatchedIs
<1> QED
  BY <1>1

LEMMA BatchedTail ==
  ASSUME NEW q, NEW n \in Nat \ {0}, Plain(q, n), Plain(Tail(q), n - 1), q # <<>>
  PROVE  BatchedOf(q) # <<>> /\ BatchedOf(Tail(q)) = Tail(BatchedOf(q))
<1> DEFINE s == [b \in 1 .. n |-> q[b]]
<1>1. BatchedOf(q) = s /\ BatchedOf(Tail(q)) = [b \in 1 .. (n - 1) |-> Tail(q)[b]]
  BY BatchedIs
<1>2. /\ n <= Len(q) /\ Len(q) \in Nat
      /\ \A b \in 1 .. (Len(q) - 1) : Tail(q)[b] = q[b + 1]
  BY DEF Plain
<1>3. \A b \in 1 .. (n - 1) : Tail(q)[b] = s[b + 1]
  BY <1>2
<1>4. s \in [1 .. n -> Batches] /\ DOMAIN s = 1 .. n
  BY DEF Plain
<1> HIDE DEF s
<1>5. s \in Seq(Batches) /\ Len(s) = n
  BY <1>4
<1>6. s # <<>> /\ Tail(s) = [b \in 1 .. (n - 1) |-> s[b + 1]]
  <2>1. s # <<>> /\ n >= 1
    BY <1>5
  <2>2. /\ Tail(s) \in Seq(Batches) /\ Len(Tail(s)) = n - 1
        /\ \A b \in 1 .. (n - 1) : Tail(s)[b] = s[b + 1]
    BY <1>5, <2>1
  <2>3. Tail(s) = [b \in 1 .. (n - 1) |-> Tail(s)[b]]
    <3> DEFINE t == Tail(s)
               m == n - 1
    <3>1. t \in Seq(Batches) /\ Len(t) = m
      BY <2>2
    <3> HIDE DEF t, m
    <3>2. t \in [1 .. m -> Batches]
      BY <3>1
    <3>3. t = [b \in 1 .. m |-> t[b]]
      BY <3>2
    <3> QED BY <3>3 DEF t, m
  <2> QED BY <2>1, <2>2, <2>3
<1>7. [b \in 1 .. (n - 1) |-> Tail(q)[b]] = [b \in 1 .. (n - 1) |-> s[b + 1]]
  BY <1>3
<1> QED
  BY <1>1, <1>6, <1>7

LEMMA NativeSteps ==
  ASSUME NativeStep, Batched = mPendingUpdates, Batched' = mPendingUpdates'
  PROVE  Native!Next
<1>1. CASE handle_new_connection
  <2>1. Native!handle_new_connection
    BY <1>1 DEF handle_new_connection, Native!handle_new_connection, Native!NoData,
       Native!Unknown, Native!Verdicts, NoData, Unknown, Verdicts, java_vars, Native!java_vars
  <2> QED BY <2>1 DEF Native!Next, Native!NativeStep
<1>2. ASSUME NEW c \in Ids, pd_process_packet(c) PROVE Native!pd_process_packet(c)
  BY <1>2 DEF pd_process_packet, Native!pd_process_packet, pd_notify_connection_update,
     Native!pd_notify_connection_update, Native!Active, Active, Native!Alive, Alive, Native!Ids,
     Ids, Native!Verdicts, Verdicts, java_vars, Native!java_vars
<1>3. ASSUME NEW c \in Ids, connection_closed(c) PROVE Native!connection_closed(c)
  BY <1>3 DEF connection_closed, Native!connection_closed, pd_notify_connection_update,
     Native!pd_notify_connection_update, Native!Active, Active, Native!Alive, Alive, Native!Ids,
     Ids, java_vars, Native!java_vars
<1>4. ASSUME NEW c \in Ids, zdtun_forward_socket_error(c)
      PROVE  Native!zdtun_forward_socket_error(c)
  BY <1>4 DEF zdtun_forward_socket_error, Native!zdtun_forward_socket_error,
     Native!Active, Active, Native!Alive, Alive, Native!Ids, Ids, java_vars, Native!java_vars
<1>5. ASSUME NEW c \in Ids, check_blocked_conn_cb(c) PROVE Native!check_blocked_conn_cb(c)
  BY <1>5 DEF check_blocked_conn_cb, Native!check_blocked_conn_cb, pd_notify_connection_update,
     Native!pd_notify_connection_update, Native!Active, Active, Native!Alive, Alive, Native!Ids,
     Ids, java_vars, Native!java_vars
<1>6. \A free_all : sendConnectionsDump(free_all) => Native!sendConnectionsDump(free_all)
  <2>1. Native!Batch = Batch
    BY DEF Native!Batch, Batch, Native!Item, Item
  <2>2. \A batch : updateConnections(batch) => Native!updateConnections(batch)
    BY DEF updateConnections, Native!updateConnections, Native!ToSet, ToSet, Native!Ids, Ids
  <2>3. \A n : Native!Seen(n) = Seen(n)
    BY DEF Native!Seen, Seen, Native!ToSet, ToSet
  <2>4. \A seen, free_all : conns_clear(seen, free_all) => Native!conns_clear(seen, free_all)
    BY DEF conns_clear, Native!conns_clear, Native!ToSet, ToSet, Native!Ids, Ids,
       Native!NoData, NoData, Native!Unknown, Unknown
  <2> QED BY <2>1, <2>2, <2>3, <2>4 DEF sendConnectionsDump, Native!sendConnectionsDump
<1>7. pd_housekeeping => Native!pd_housekeeping
  BY <1>6 DEF pd_housekeeping, Native!pd_housekeeping
<1>8. stopPacketLoop => Native!stopPacketLoop
  BY DEF stopPacketLoop, Native!stopPacketLoop, java_vars, Native!java_vars
<1>9. zdtun_finalize => Native!zdtun_finalize
  BY DEF zdtun_finalize, Native!zdtun_finalize, pd_notify_connection_update,
     Native!pd_notify_connection_update, Native!Active, Active, Native!Alive, Alive, Native!Ids,
     Ids, java_vars, Native!java_vars
<1>10. pd_run_end => Native!pd_run_end
  BY <1>6 DEF pd_run_end, Native!pd_run_end, Native!Active, Active, Native!Alive, Alive,
     Native!Ids, Ids
<1>11. Native!Ids = Ids
  BY DEF Native!Ids, Ids
<1> QED
  BY <1>1, <1>2, <1>3, <1>4, <1>5, <1>7, <1>8, <1>9, <1>10, <1>11
     DEF NativeStep, Native!Next, Native!NativeStep

LEMMA NextNative ==
  ASSUME PInv, PInv', [PipelineNext]_pipeline_vars
  PROVE  [Native!Next]_(Native!vars)
<1>1. PICK n \in 0 .. Len(mPendingUpdates) :
        /\ Plain(mPendingUpdates, n)
        /\ capture = "native" => n = Len(mPendingUpdates)
  BY DEF PInv
<1>2. ASSUME UNCHANGED <<native_vars, mQueueFull, sent, failed>>, Batched' = Batched
      PROVE  UNCHANGED Native!vars
  BY <1>2 DEF Native!vars, Native!native_vars, Native!java_vars, native_vars
<1>3. CASE native
  <2>1. NativeStep /\ capture = "native" /\ capture' = "native"
    BY <1>3 DEF native
  <2>2. Batched = mPendingUpdates
    BY <1>1, <2>1, BatchedAll, BatchedIsOf
  <2>3. Plain(mPendingUpdates', Len(mPendingUpdates'))
    BY <2>1 DEF PInv
  <2>4. Batched' = mPendingUpdates'
    BY <2>3, BatchedAll, BatchedIsOf
  <2> QED BY <2>1, <2>2, <2>4, NativeSteps
<1>4. ASSUME offer, UNCHANGED <<native_vars, mQueueFull, sent, failed>>
      PROVE  UNCHANGED Native!vars
  <2>1. Batched' = Batched
    <3>1. CASE mPendingUpdates' = Append(mPendingUpdates, Termination)
      <4>1. Plain(mPendingUpdates', n) /\ \A b \in 1 .. n : mPendingUpdates'[b] = mPendingUpdates[b]
        BY <1>1, <3>1, PlainAppend
      <4> QED BY <1>1, <4>1, BatchedSame, BatchedIsOf
    <3>2. CASE UNCHANGED mPendingUpdates
      BY <3>2, BatchedIsOf
    <3> QED BY <1>4, <3>1, <3>2 DEF offer
  <2> QED BY <1>2, <1>4, <2>1
<1>5. ASSUME UNCHANGED vars PROVE UNCHANGED Native!vars
  <2>1. UNCHANGED <<native_vars, mQueueFull, sent, failed, mPendingUpdates>>
    BY <1>5 DEF vars, java_vars
  <2> QED BY <1>2, <2>1, BatchedIsOf
<1>6. CASE connUpdateWork
  <2>1. /\ mPendingUpdates # <<>> /\ mPendingUpdates' = Tail(mPendingUpdates)
        /\ UNCHANGED <<native_vars, mQueueFull, sent, failed>>
    BY <1>6 DEF connUpdateWork
  <2>2. CASE Head(mPendingUpdates) = Termination
    <3>1. n = 0
      <4>1. n \in Nat /\ Head(mPendingUpdates) = mPendingUpdates[1]
        BY <1>1, <2>1, PlainIs DEF Plain
      <4>2. 1 \in 1 .. n => mPendingUpdates[1] \in Batches
        BY <1>1 DEF Plain
      <4> QED BY <2>2, <4>1, <4>2, PipelineAssumption
    <3>2. Plain(Tail(mPendingUpdates), 0)
      <4>1. /\ Len(mPendingUpdates) \in Nat
            /\ mPendingUpdates \in Seq(Batches \cup {Termination})
            /\ \A b \in 1 .. Len(mPendingUpdates) : mPendingUpdates[b] = Termination
        BY <1>1, <3>1 DEF Plain
      <4>2. /\ Tail(mPendingUpdates) \in Seq(Batches \cup {Termination})
            /\ Len(Tail(mPendingUpdates)) = Len(mPendingUpdates) - 1
            /\ \A b \in 1 .. (Len(mPendingUpdates) - 1) :
                 Tail(mPendingUpdates)[b] = mPendingUpdates[b + 1]
            /\ Len(mPendingUpdates) >= 1
        BY <2>1, <4>1
      <4>3. \A b \in 1 .. (Len(mPendingUpdates) - 1) : Tail(mPendingUpdates)[b] = Termination
        BY <4>1, <4>2
      <4> QED BY <4>1, <4>2, <4>3 DEF Plain
    <3>3. \A b \in 1 .. 0 : Tail(mPendingUpdates)[b] = mPendingUpdates[b]
      OBVIOUS
    <3>4. Batched' = Batched
      BY <1>1, <2>1, <3>1, <3>2, <3>3, BatchedSame, BatchedIsOf
    <3> QED BY <1>2, <2>1, <3>4
  <2>3. CASE Head(mPendingUpdates) # Termination
    <3>1. n \in Nat /\ n >= 1 /\ Plain(Tail(mPendingUpdates), n - 1)
      BY <1>1, <2>1, <2>3, PlainTail, PlainIs
    <3>2. Batched # <<>> /\ Batched' = Tail(Batched)
      BY <1>1, <2>1, <3>1, BatchedTail, BatchedIsOf
    <3> QED BY <2>1, <3>2 DEF Native!Next, Native!take, Native!native_vars, native_vars
  <2> QED BY <2>2, <2>3
<1>7. CASE signalServicesTermination
  BY <1>4, <1>7 DEF signalServicesTermination
<1>8. CASE stopAndJoinThreads
  BY <1>4, <1>5, <1>8 DEF stopAndJoinThreads
<1> QED
  BY <1>3, <1>5, <1>6, <1>7, <1>8 DEF PipelineNext, onDestroy, pipeline_vars

(* The whole implements PdConns: with the batches of the queue for its      *)
(* queue, neither the register, the termination requests nor the end of the *)
(* capture thread does anything to the native data, the queue or the        *)
(* history that PdConns does not allow, even when the JVM fails; so what is *)
(* proved of PdConns holds in the app.                                      *)
THEOREM NativeKeptSafe == PipelineSpec => NativeKept
<1>1. PipelineInit => Native!Init
  <2> SUFFICES ASSUME PipelineInit PROVE Native!Init
    OBVIOUS
  <2>1. mPendingUpdates = <<>>
    BY DEF PipelineInit, Init
  <2>2. Plain(mPendingUpdates, Len(mPendingUpdates))
    <3>1. mPendingUpdates \in Seq(Batches)
      BY <2>1
    <3> QED BY <3>1, AllPlain
  <2>3. Batched = <<>>
    BY <2>1, <2>2, BatchedAll, BatchedIsOf
  <2> QED BY <2>3 DEF PipelineInit, Init, Native!Init, Native!Ids, Ids, Native!NoData, NoData,
             Native!Unknown, Unknown, Native!NotSent, NotSent
<1>2. PInv /\ PInv' /\ [PipelineNext]_pipeline_vars => [Native!Next]_(Native!vars)
  BY NextNative
<1> QED BY <1>1, <1>2, PipelineInvariant, PTL DEF PipelineSpec, NativeKept, Native!Spec
=============================================================================
