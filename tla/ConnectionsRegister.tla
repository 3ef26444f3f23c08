------------------------ MODULE ConnectionsRegister ------------------------
(***************************************************************************)
(* ConnectionsRegister.java: the ring of the most recent connections that  *)
(* the user interface shows, with its counters.  Every method is           *)
(* synchronized, so each is one step; the register is one record and each  *)
(* method an operator from the register before to the register after.      *)
(*                                                                         *)
(* Here the batches come straight from the environment, with the incr_ids  *)
(* in order; ConnsPipeline puts the native side in front of it.            *)
(***************************************************************************)
EXTENDS Integers, Sequences, FiniteSets, SequencesExt, FiniteSetsExt

CONSTANTS
  Size,       \* mSize (8192)
  ResetAbove, \* connUpdateWork resets the register above this count (5000)
  Uids,
  Uid,        \* the uid of each incr_id
  MaxId,      \* bound: incr_ids 0 .. MaxId - 1
  MaxBatch,   \* bound: new connections of a batch
  MaxUpdates, \* bound: updates of a batch
  MaxBytes,   \* bound: traffic of a connection
  UserResets  \* the user may clear the log or the statistics of the apps

ASSUME RegisterAssumption ==
  /\ Size \in Nat \ {0} /\ ResetAbove \in Nat
  /\ MaxId \in Nat /\ MaxBatch \in Nat /\ MaxUpdates \in Nat /\ MaxBytes \in Nat
  /\ Uid \in [0 .. (MaxId - 1) -> Uids]
  /\ UserResets \in BOOLEAN

VARIABLES
  reg,     \* the fields of the register
  next_id, \* the next incr_id of the native side
  recent,  \* history: the last Size connections since the last reset, as last updated
  received, \* history: the connections received since the last reset
  stats_cut \* history: the statistics were cleared while connections were shown

vars == <<reg, next_id, recent, received, stats_cut>>

-----------------------------------------------------------------------------
NoItem == [id |-> -1, bytes |-> 0, alerted |-> FALSE, block_accounted |-> FALSE]
NoStats == [numConnections |-> 0, bytes |-> 0, numBlocked |-> 0]

Empty ==
  [mItemsRing |-> [p \in 0 .. (Size - 1) |-> NoItem],
   mTail |-> 0, mCurItems |-> 0, mUntrackedItems |-> 0,
   mNumMalicious |-> 0, mNumBlocked |-> 0, mMaxBytes |-> 0,
   mAppsStats |-> [u \in Uids |-> NoStats]]

Bit(b) == IF b THEN 1 ELSE 0

Total(values) ==
  LET sum[i \in 0 .. Len(values)] == IF i = 0 THEN 0 ELSE sum[i - 1] + values[i]
  IN  sum[Len(values)]

firstPos_zero(r) == 0

firstPos(r) == IF r.mCurItems < Size THEN 0 ELSE r.mTail
lastPos_tail(r) == r.mTail

lastPos(r) == (r.mTail - 1 + Size) % Size

getConn(r, i) == r.mItemsRing[(firstPos(r) + i) % Size]

(* The connections of the register, oldest first.                           *)
Conns(r) == [i \in 1 .. r.mCurItems |-> getConn(r, i - 1)]

(* What the register keeps of an item of a batch: processUpdate, and the    *)
(* marks that processConnectionStatus leaves.                               *)
Conn(item) ==
  [id |-> item.id, bytes |-> item.view.bytes, alerted |-> item.view.blacklisted,
   block_accounted |-> item.view.blocked]

put_overwriting(r, pos, conn, new) ==
  LET old == r.mItemsRing[pos]
      blocked == Bit(conn.block_accounted) - Bit(old.block_accounted)
      u == Uid[conn.id]
      s == r.mAppsStats[u]
  IN  [r EXCEPT
         !.mItemsRing[pos] = conn,
         !.mMaxBytes = Max({r.mMaxBytes, conn.bytes}),
         !.mAppsStats[u] = [numConnections |-> s.numConnections + Bit(new),
                            bytes |-> s.bytes + conn.bytes - old.bytes,
                            numBlocked |-> s.numBlocked + blocked]]

put_alerted_for_ever(r, pos, conn, new) ==
  LET old == IF new THEN NoItem ELSE r.mItemsRing[pos]
  IN  [r EXCEPT
         !.mItemsRing[pos] = conn,
         !.mNumMalicious = r.mNumMalicious + Bit(conn.alerted /\ ~old.alerted)]

(* The register when the connection at pos becomes conn and its uid counts  *)
(* one more of it: the counters change by the difference to what was there. *)
put(r, pos, conn, new) ==
  LET old == IF new THEN NoItem ELSE r.mItemsRing[pos]
      blocked == Bit(conn.block_accounted) - Bit(old.block_accounted)
      u == Uid[conn.id]
      s == r.mAppsStats[u]
  IN  [r EXCEPT
         !.mItemsRing[pos] = conn,
         !.mNumMalicious = r.mNumMalicious + Bit(conn.alerted) - Bit(old.alerted),
         !.mNumBlocked = r.mNumBlocked + blocked,
         !.mMaxBytes = Max({r.mMaxBytes, conn.bytes}),
         !.mAppsStats[u] = [numConnections |-> s.numConnections + Bit(new),
                            bytes |-> s.bytes + conn.bytes - old.bytes,
                            numBlocked |-> s.numBlocked + blocked]]

add(r, item) ==
  [put(r, r.mTail, Conn(item), TRUE) EXCEPT
     !.mTail = (r.mTail + 1) % Size,
     !.mCurItems = Min({r.mCurItems + 1, Size})]

addAll(r, items) ==
  LET after[k \in 0 .. Len(items)] == IF k = 0 THEN r ELSE add(after[k - 1], items[k])
  IN  after[Len(items)]

calculateMaxBytes(r) == Max({0} \cup {r.mItemsRing[p].bytes : p \in 0 .. (r.mCurItems - 1)})

newConnections_gone_alerted(r, items) ==
  LET skipped == Max({Len(items) - Size, 0})
      kept == SubSeq(items, skipped + 1, Len(items))
      out == Len(kept) - Min({Size - r.mCurItems, Len(kept)})
  IN  [addAll(r, kept) EXCEPT !.mUntrackedItems = r.mUntrackedItems + skipped + out]

newConnections_all_gone(r, items) ==
  LET kept == SubSeq(items, Max({Len(items) - Size, 0}) + 1, Len(items))
      out == Len(kept) - Min({Size - r.mCurItems, Len(kept)})
  IN  addAll([r EXCEPT !.mUntrackedItems = r.mUntrackedItems + out,
                       !.mNumMalicious = r.mNumMalicious - out], kept)

(* A batch that does not fit takes the place of the oldest connections; one *)
(* larger than the ring loses its own oldest.                               *)
newConnections(r, items) ==
  LET skipped == Max({Len(items) - Size, 0})
      kept == SubSeq(items, skipped + 1, Len(items))
      out == Len(kept) - Min({Size - r.mCurItems, Len(kept)})
      removed == [i \in 1 .. out |-> getConn(r, i - 1)]
      alerts == Total([i \in 1 .. out |-> Bit(removed[i].alerted)])
      after == addAll([r EXCEPT !.mNumMalicious = r.mNumMalicious - alerts], kept)
      recalc == /\ after.mMaxBytes = r.mMaxBytes
                /\ \E i \in 1 .. out : removed[i].bytes = r.mMaxBytes
  IN  [after EXCEPT
         !.mUntrackedItems = r.mUntrackedItems + skipped + out,
         !.mMaxBytes = IF recalc THEN calculateMaxBytes(after) ELSE after.mMaxBytes]

(* Updates of connections that left the ring are ignored.                   *)
update(r, item) ==
  LET first == r.mItemsRing[firstPos(r)].id
      last == r.mItemsRing[lastPos(r)].id
  IN  IF item.id \in first .. last
      THEN put(r, (item.id - first + firstPos(r)) % Size, Conn(item), FALSE)
      ELSE r

connectionsUpdates(r, items) ==
  LET after[k \in 0 .. Len(items)] == IF k = 0 THEN r ELSE update(after[k - 1], items[k])
  IN  IF r.mCurItems = 0 THEN r ELSE after[Len(items)]

reset_tail(r) ==
  [Empty EXCEPT !.mTail = r.mTail, !.mNumMalicious = r.mNumMalicious,
                !.mNumBlocked = r.mNumBlocked, !.mMaxBytes = r.mMaxBytes]

reset_untracked(r) ==
  [Empty EXCEPT !.mNumMalicious = r.mNumMalicious, !.mNumBlocked = r.mNumBlocked,
                !.mMaxBytes = r.mMaxBytes, !.mUntrackedItems = r.mUntrackedItems]

(* mNumMalicious, mNumBlocked and mMaxBytes stay as they are.               *)
reset(r) ==
  [Empty EXCEPT !.mNumMalicious = r.mNumMalicious, !.mNumBlocked = r.mNumBlocked,
                !.mMaxBytes = r.mMaxBytes]

(* One batch of connUpdateWork.                                             *)
handle(r, batch) == connectionsUpdates(newConnections(r, batch.new), batch.updates)

TooMany(r) == r.mCurItems > ResetAbove

getConnPositionById(r, id) ==
  LET first == r.mItemsRing[firstPos(r)].id
      last == r.mItemsRing[lastPos(r)].id
  IN  IF r.mCurItems = 0 \/ id < first \/ id > last THEN -1 ELSE id - first

-----------------------------------------------------------------------------
Init ==
  /\ reg = Empty
  /\ next_id = 0 /\ recent = <<>> /\ received = 0 /\ stats_cut = FALSE

Views == [bytes: 0 .. MaxBytes, blocked: BOOLEAN, blacklisted: BOOLEAN]

LastOf(s) == SubSeq(s, Max({Len(s) - Size, 0}) + 1, Len(s))

Updated(conns, items) ==
  [i \in DOMAIN conns |->
     IF \E item \in ToSet(items) : item.id = conns[i].id
     THEN Conn(CHOOSE item \in ToSet(items) : item.id = conns[i].id)
     ELSE conns[i]]

connUpdateWork(batch) ==
  LET after == handle(reg, batch)
      conns == Updated(recent, batch.updates)
                 \o [i \in DOMAIN batch.new |-> Conn(batch.new[i])]
  IN  /\ reg' = IF TooMany(after) THEN reset(after) ELSE after
      /\ recent' = IF TooMany(after) THEN <<>> ELSE LastOf(conns)
      /\ received' = IF TooMany(after) THEN 0 ELSE received + Len(batch.new)
      /\ stats_cut' = (stats_cut /\ ~TooMany(after))
      /\ next_id' = next_id + Len(batch.new)

(* A connection is updated once in a batch at most, and an update does not  *)
(* take traffic back.                                                       *)
PossibleUpdates ==
  {updates \in UNION {[1 .. k -> [id: 0 .. (next_id - 1), view: Views]] : k \in 0 .. MaxUpdates} :
     /\ \A i, j \in DOMAIN updates : updates[i].id = updates[j].id => i = j
     /\ \A item \in ToSet(updates) : \A c \in ToSet(recent) :
          c.id = item.id => item.view.bytes >= c.bytes}

Receive ==
  \E n \in 0 .. MaxBatch, updates \in PossibleUpdates :
    /\ next_id + n <= MaxId
    /\ \E views \in [1 .. n -> Views] :
         connUpdateWork([new |-> [i \in 1 .. n |-> [id |-> next_id + i - 1, view |-> views[i]]],
                         updates |-> updates])

(* The user clears the log (ConnectionsFragment), or the statistics         *)
(* (AppsFragment).                                                          *)
UserReset ==
  /\ UserResets
  /\ reg' = reset(reg) /\ recent' = <<>> /\ received' = 0 /\ stats_cut' = FALSE
  /\ UNCHANGED next_id

resetAppsStats ==
  /\ UserResets
  /\ reg' = [reg EXCEPT !.mAppsStats = [u \in Uids |-> NoStats]]
  /\ stats_cut' = (stats_cut \/ reg.mCurItems > 0)
  /\ UNCHANGED <<next_id, recent, received>>

Next == Receive \/ UserReset \/ resetAppsStats

Spec == Init /\ [][Next]_vars

-----------------------------------------------------------------------------
TypeOK ==
  /\ reg.mItemsRing \in
       [0 .. (Size - 1) -> [id: -1 .. (MaxId - 1), bytes: 0 .. MaxBytes, alerted: BOOLEAN,
                            block_accounted: BOOLEAN]]
  /\ reg.mTail \in 0 .. (Size - 1) /\ reg.mCurItems \in 0 .. Size
  /\ reg.mUntrackedItems \in Nat /\ reg.mNumMalicious \in Nat /\ reg.mNumBlocked \in Nat

(* What the register shows, oldest first, are the most recent connections,  *)
(* each with its last update: in a full ring, after any batch, also one     *)
(* larger than the ring.                                                    *)
ShowsRecent == Conns(reg) = recent

(* A connection is found by its incr_id exactly when it is shown, and at    *)
(* its place: "assert(conn.incr_id == id)" of connectionsUpdates.           *)
FoundById ==
  \A id \in 0 .. (next_id - 1) :
    LET pos == getConnPositionById(reg, id)
    IN  IF pos < 0 THEN \A c \in Range(Conns(reg)) : c.id # id
        ELSE getConn(reg, pos).id = id

(* Every connection received is shown or counted as untracked.              *)
NothingUncounted == reg.mUntrackedItems + reg.mCurItems = received

(* mMaxBytes, the upper end of the size filter, and mNumMalicious are those *)
(* of the connections shown, as long as nothing was reset.                  *)
MaxBytesShown ==
  next_id = received =>
    reg.mMaxBytes = Max({0} \cup {c.bytes : c \in Range(Conns(reg))})

Alerted(conns) == Total([i \in DOMAIN conns |-> Bit(conns[i].alerted)])

MaliciousShown ==
  /\ reg.mNumMalicious >= Alerted(Conns(reg))
  /\ next_id = received => reg.mNumMalicious = Alerted(Conns(reg))

(* The statistics of an app never fall behind what is shown of it: traffic  *)
(* and blocked connections of the ones that left the ring stay counted.     *)
(* (Unless the user cleared the statistics and kept the connections.)       *)
OfUid(u, c, n) == IF Uid[c.id] = u THEN n ELSE 0

BytesOf(u, conns) == Total([i \in DOMAIN conns |-> OfUid(u, conns[i], conns[i].bytes)])
BlockedOf(u, conns) ==
  Total([i \in DOMAIN conns |-> OfUid(u, conns[i], Bit(conns[i].block_accounted))])
NumberOf(u, conns) == Total([i \in DOMAIN conns |-> OfUid(u, conns[i], 1)])

StatsCoverShown ==
  ~stats_cut => \A u \in Uids :
    /\ reg.mAppsStats[u].bytes >= BytesOf(u, Conns(reg))
    /\ reg.mAppsStats[u].numBlocked >= BlockedOf(u, Conns(reg))
    /\ reg.mAppsStats[u].numConnections >= NumberOf(u, Conns(reg))

(* The counters agree with what is shown and with what was received, over   *)
(* rollovers, updates that change a verdict, and resets.                    *)
CountersShown ==
  NothingUncounted /\ MaxBytesShown /\ MaliciousShown /\ StatsCoverShown
=============================================================================
