--------------------- MODULE ConnectionsRegisterProofs ---------------------
(***************************************************************************)
(* Proofs about ConnectionsRegister, for any size of the ring, any batches *)
(* and any resets.                                                         *)
(***************************************************************************)
EXTENDS ConnectionsRegister, SequenceTheorems, WellFoundedInduction, TLAPS

-----------------------------------------------------------------------------
(* Induction over the numbers up to n, with a set for the predicate.        *)
LEMMA Least ==
  ASSUME NEW T \in SUBSET Nat, T # {}
  PROVE  \E x \in T : \A y \in T : x <= y
<1>1. \A x, y \in Nat : y < x => <<y, x>> \in OpToRel(<, Nat)
  BY DEF OpToRel
<1>2. \E R : IsWellFoundedOn(R, Nat) /\ \A x, y \in Nat : y < x => <<y, x>> \in R
  BY <1>1, NatLessThanWellFounded, Zenon
<1>3. PICK R : IsWellFoundedOn(R, Nat) /\ \A x, y \in Nat : y < x => <<y, x>> \in R
  BY <1>2
<1>4. T \subseteq Nat
  OBVIOUS
<1>5. PICK x \in T : \A y \in T : ~ (<<y, x>> \in R)
  BY <1>3, <1>4, WFMin, Zenon
<1>6. \A y \in T : ~ (y < x)
  BY <1>3, <1>4, <1>5
<1> QED
  BY <1>4, <1>6

LEMMA UpTo ==
  ASSUME NEW n \in Nat, NEW T, 0 \in T,
         \A k \in 0 .. (n - 1) : k \in T => k + 1 \in T
  PROVE  \A k \in 0 .. n : k \in T
<1> SUFFICES ASSUME NEW l \in 0 .. n, l \notin T PROVE FALSE
  OBVIOUS
<1> DEFINE U == {k \in 0 .. n : k \notin T}
<1>1. U \in SUBSET Nat /\ l \in U
  OBVIOUS
<1>2. PICK k \in U : \A j \in U : k <= j
  <2> HIDE DEF U
  <2> QED BY <1>1, Least
<1>3. k # 0 /\ k - 1 \in 0 .. (n - 1) /\ k - 1 \notin U
  BY <1>2
<1> QED
  BY <1>3

-----------------------------------------------------------------------------
(* Sums.                                                                    *)
Sums(values, n, sum) ==
  sum = [i \in 0 .. n |-> IF i = 0 THEN 0 ELSE sum[i - 1] + values[i]]

LEMMA SumsExist ==
  ASSUME NEW values, NEW n \in Nat
  PROVE  \E sum : Sums(values, n, sum)
<1> DEFINE T == {k \in Nat : \E sum : Sums(values, k, sum)}
<1>1. 0 \in T
  <2>1. Sums(values, 0, [i \in 0 .. 0 |-> 0])
    BY DEF Sums
  <2> QED BY <2>1
<1>2. ASSUME NEW k \in 0 .. (n - 1), k \in T PROVE k + 1 \in T
  <2>1. PICK sum : Sums(values, k, sum)
    BY <1>2
  <2> DEFINE more == [i \in 0 .. (k + 1) |->
                        IF i = k + 1 THEN sum[k] + values[k + 1] ELSE sum[i]]
  <2>2. \A i \in 0 .. k : sum[i] = IF i = 0 THEN 0 ELSE sum[i - 1] + values[i]
    BY <2>1 DEF Sums
  <2>3. \A i \in 0 .. (k + 1) : more[i] = IF i = 0 THEN 0 ELSE more[i - 1] + values[i]
    BY <2>2
  <2>4. Sums(values, k + 1, more)
    BY <2>3 DEF Sums
  <2> HIDE DEF more
  <2> QED BY <2>4
<1> HIDE DEF T
<1>3. n \in T
  BY <1>1, <1>2, UpTo
<1> QED
  BY <1>3 DEF T

SumsUp(values, sum) ==
  /\ Total(values) = sum[Len(values)]
  /\ sum[0] = 0
  /\ \A i \in 1 .. Len(values) : sum[i] = sum[i - 1] + values[i]

LEMMA TotalIs ==
  ASSUME NEW values, Len(values) \in Nat
  PROVE  \E sum : SumsUp(values, sum)
<1>1. PICK some : Sums(values, Len(values), some)
  BY SumsExist
<1> DEFINE sum == CHOOSE s : Sums(values, Len(values), s)
<1>2. Sums(values, Len(values), sum)
  BY <1>1
<1>3. Total(values) = sum[Len(values)]
  BY DEF Total, Sums
<1> HIDE DEF sum
<1>4. sum[0] = 0 /\ \A i \in 1 .. Len(values) : sum[i] = sum[i - 1] + values[i]
  BY <1>2 DEF Sums
<1> QED
  BY <1>3, <1>4 DEF SumsUp

LEMMA SumsTyped ==
  ASSUME NEW S \in {Int, Nat}, NEW s \in Seq(S), NEW sum, SumsUp(s, sum)
  PROVE  \A k \in 0 .. Len(s) : sum[k] \in S
<1> DEFINE T == {k \in Nat : sum[k] \in S}
<1>1. Len(s) \in Nat /\ \A i \in 1 .. Len(s) : s[i] \in S
  OBVIOUS
<1>2. 0 \in T
  BY DEF SumsUp
<1>3. ASSUME NEW k \in 0 .. (Len(s) - 1), k \in T PROVE k + 1 \in T
  <2>1. sum[k + 1] = sum[k] + s[k + 1] /\ s[k + 1] \in S
    BY <1>1 DEF SumsUp
  <2> QED BY <1>3, <2>1
<1>4. \A k \in 0 .. Len(s) : k \in T
  <2> HIDE DEF T
  <2> QED BY <1>1, <1>2, <1>3, UpTo
<1> QED
  BY <1>4

LEMMA TotalTyped ==
  ASSUME NEW S \in {Int, Nat}, NEW s \in Seq(S)
  PROVE  Total(s) \in S
<1>1. Len(s) \in Nat
  OBVIOUS
<1>2. PICK sum : SumsUp(s, sum)
  BY <1>1, TotalIs
<1>3. sum[Len(s)] \in S
  BY <1>1, <1>2, SumsTyped
<1> QED
  BY <1>2, <1>3 DEF SumsUp

(* Where the values agree, the sums do.                                     *)
LEMMA SameSums ==
  ASSUME NEW s \in Seq(Int), NEW t \in Seq(Int), NEW f, SumsUp(s, f),
         NEW g, SumsUp(t, g), Len(s) <= Len(t),
         \A i \in 1 .. Len(s) : t[i] = s[i]
  PROVE  g[Len(s)] = f[Len(s)]
<1> DEFINE T == {k \in Nat : g[k] = f[k]}
<1>1. Len(s) \in Nat /\ Len(t) \in Nat
  OBVIOUS
<1>2. 0 \in T
  BY DEF SumsUp
<1>3. ASSUME NEW k \in 0 .. (Len(s) - 1), k \in T PROVE k + 1 \in T
  <2>1. f[k + 1] = f[k] + s[k + 1] /\ g[k + 1] = g[k] + t[k + 1]
    BY <1>1 DEF SumsUp
  <2>2. t[k + 1] = s[k + 1]
    BY <1>1
  <2> QED BY <1>3, <2>1, <2>2
<1>4. Len(s) \in T
  <2> HIDE DEF T
  <2>1. \A k \in 0 .. Len(s) : k \in T
    BY <1>1, <1>2, <1>3, UpTo
  <2> QED BY <1>1, <2>1
<1> QED
  BY <1>4

LEMMA TotalConcat ==
  ASSUME NEW s \in Seq(Int), NEW t \in Seq(Int)
  PROVE  Total(s \o t) = Total(s) + Total(t)
<1> DEFINE u == s \o t
<1>1. /\ u \in Seq(Int) /\ Len(u) = Len(s) + Len(t)
      /\ Len(s) \in Nat /\ Len(t) \in Nat /\ Len(u) \in Nat
      /\ \A i \in 1 .. Len(s) : u[i] = s[i]
      /\ \A i \in 1 .. Len(t) : u[Len(s) + i] = t[i]
  OBVIOUS
<1> HIDE DEF u
<1>2. PICK f : SumsUp(s, f)
  BY <1>1, TotalIs
<1>3. PICK g : SumsUp(t, g)
  BY <1>1, TotalIs
<1>4. PICK h : SumsUp(u, h)
  BY <1>1, TotalIs
<1>5. h[Len(s)] = f[Len(s)]
  <2>1. Len(s) <= Len(u)
    BY <1>1
  <2>2. u \in Seq(Int)
    BY <1>1
  <2>3. \A i \in 1 .. Len(s) : u[i] = s[i]
    BY <1>1
  <2> QED BY <1>2, <1>4, <2>1, <2>2, <2>3, SameSums
<1>6. Total(s) \in Int /\ Total(s) = f[Len(s)]
  BY <1>2, TotalTyped DEF SumsUp
<1>7. \A k \in 0 .. Len(t) : g[k] \in Int
  BY <1>3, SumsTyped
<1> DEFINE T == {k \in Nat : h[Len(s) + k] = Total(s) + g[k]}
<1>8. 0 \in T
  BY <1>1, <1>3, <1>5, <1>6 DEF SumsUp
<1>9. ASSUME NEW k \in 0 .. (Len(t) - 1), k \in T PROVE k + 1 \in T
  <2>1. g[k + 1] = g[k] + t[k + 1] /\ t[k + 1] \in Int
    BY <1>1, <1>3 DEF SumsUp
  <2>2. Len(s) + (k + 1) \in 1 .. Len(u) /\ u[Len(s) + (k + 1)] = t[k + 1]
    BY <1>1
  <2>3. h[Len(s) + (k + 1)] = h[Len(s) + (k + 1) - 1] + t[k + 1]
    BY <1>4, <2>2 DEF SumsUp
  <2>4. Len(s) + (k + 1) - 1 = Len(s) + k /\ g[k] \in Int
    BY <1>1, <1>7
  <2>5. h[Len(s) + (k + 1)] = Total(s) + g[k] + t[k + 1]
    BY <1>9, <2>3, <2>4
  <2> QED BY <1>6, <2>1, <2>4, <2>5
<1>10. Len(t) \in T
  <2> HIDE DEF T
  <2>1. Len(t) \in Nat
    BY <1>1
  <2>2. \A k \in 0 .. Len(t) : k \in T
    BY <2>1, <1>8, <1>9, UpTo
  <2> QED BY <2>1, <2>2
<1>11. h[Len(u)] = Total(s) + g[Len(t)]
  BY <1>1, <1>10
<1> QED
  BY <1>3, <1>4, <1>11 DEF u, SumsUp

LEMMA TotalOne ==
  /\ Total(<<>>) = 0
  /\ \A x \in Int : Total(<<x>>) = x
<1>1. Total(<<>>) = 0
  <2>1. PICK sum : SumsUp(<<>>, sum)
    BY TotalIs
  <2> QED BY <2>1 DEF SumsUp
<1>2. ASSUME NEW x \in Int PROVE Total(<<x>>) = x
  <2>1. Len(<<x>>) = 1 /\ <<x>>[1] = x
    OBVIOUS
  <2>2. PICK sum : SumsUp(<<x>>, sum)
    BY <2>1, TotalIs
  <2>3. sum[1] = sum[1 - 1] + x
    BY <2>1, <2>2 DEF SumsUp
  <2> QED BY <2>1, <2>2, <2>3 DEF SumsUp
<1> QED
  BY <1>1, <1>2

LEMMA AddInts ==
  ASSUME NEW a \in Int, NEW b \in Int, NEW c \in Int
  PROVE  a + (b + c) = (a + b) + c
  OBVIOUS

LEMMA TotalReplace ==
  ASSUME NEW s \in Seq(Int), NEW t \in Seq(Int), Len(t) = Len(s),
         NEW p \in 1 .. Len(s), \A i \in 1 .. Len(s) : i # p => t[i] = s[i]
  PROVE  Total(t) = Total(s) + t[p] - s[p]
<1>1. Len(s) \in Nat /\ \A i \in 1 .. Len(s) : s[i] \in Int /\ t[i] \in Int
  OBVIOUS
<1>2. PICK f : SumsUp(s, f)
  BY <1>1, TotalIs
<1>3. PICK g : SumsUp(t, g)
  BY <1>1, TotalIs
<1>4. \A k \in 0 .. Len(s) : f[k] \in Int
  BY <1>2, SumsTyped
<1> DEFINE d == t[p] - s[p]
           T == {k \in Nat : g[k] = f[k] + (IF k < p THEN 0 ELSE d)}
<1>5. d \in Int
  BY <1>1
<1>6. 0 \in T
  BY <1>2, <1>3 DEF SumsUp
<1>7. ASSUME NEW k \in 0 .. (Len(s) - 1), k \in T PROVE k + 1 \in T
  <2>0. k + 1 \in 1 .. Len(s) /\ k + 1 \in 1 .. Len(t) /\ (k + 1) - 1 = k
    BY <1>1
  <2>1. f[k + 1] = f[k] + s[k + 1] /\ g[k + 1] = g[k] + t[k + 1]
    BY <1>2, <1>3, <2>0 DEF SumsUp
  <2>2. t[k + 1] = s[k + 1] + (IF k + 1 = p THEN d ELSE 0)
    BY <1>1, <2>0
  <2>3. g[k] = f[k] + (IF k < p THEN 0 ELSE d)
    BY <1>7
  <2>4. f[k] \in Int /\ s[k + 1] \in Int
    BY <1>1, <1>4
  <2>5. k + 1 \in Nat /\ (k < p <=> k + 1 < p \/ k + 1 = p) /\ (k + 1 = p => ~(k + 1 < p))
    BY <1>1
  <2> HIDE DEF d
  <2>6. g[k + 1] = f[k + 1] + (IF k + 1 < p THEN 0 ELSE d)
    <3>1. CASE k + 1 < p
      BY <2>1, <2>2, <2>3, <2>4, <2>5, <3>1
    <3>2. CASE k + 1 = p
      <4>1. k < p /\ ~(k + 1 < p)
        BY <2>5, <3>2
      <4>2. t[k + 1] = s[k + 1] + d /\ g[k] = f[k]
        BY <2>2, <2>3, <2>4, <3>2, <4>1
      <4>3. g[k + 1] = f[k] + (s[k + 1] + d)
        BY <2>1, <4>2
      <4>4. f[k] + (s[k + 1] + d) = (f[k] + s[k + 1]) + d
        BY <1>5, <2>4, AddInts, Zenon
      <4> QED BY <2>1, <4>1, <4>3, <4>4
    <3>3. CASE ~(k + 1 < p) /\ k + 1 # p
      <4>1. ~(k < p)
        BY <2>5, <3>3
      <4>2. t[k + 1] = s[k + 1] + 0 /\ g[k] = f[k] + d
        BY <2>2, <2>3, <3>3, <4>1
      <4>3. g[k + 1] = f[k + 1] + d
        BY <1>5, <2>1, <2>4, <4>2
      <4> QED BY <3>3, <4>3
    <3> QED BY <3>1, <3>2, <3>3
  <2> QED BY <2>5, <2>6
<1>8. Len(s) \in T
  <2> HIDE DEF T
  <2>1. Len(s) \in Nat
    BY <1>1
  <2>2. \A k \in 0 .. Len(s) : k \in T
    BY <2>1, <1>6, <1>7, UpTo
  <2> QED BY <2>1, <2>2
<1> QED
  BY <1>1, <1>2, <1>3, <1>8 DEF SumsUp
-----------------------------------------------------------------------------
(* The ring as the sequence Conns.                                          *)
Items == [id: 0 .. (MaxId - 1), view: Views]
Slots == [id: -1 .. (MaxId - 1), bytes: 0 .. MaxBytes, alerted: BOOLEAN,
          block_accounted: BOOLEAN]

Registers ==
  [mItemsRing: [0 .. (Size - 1) -> Slots], mTail: 0 .. (Size - 1), mCurItems: 0 .. Size,
   mUntrackedItems: Nat, mNumMalicious: Int, mNumBlocked: Int, mMaxBytes: Nat,
   mAppsStats: [Uids -> [numConnections: Int, bytes: Int, numBlocked: Int]]]

(* Until the ring is full the connections start at its first slot.          *)
Shape(r) == r \in Registers /\ (r.mCurItems < Size => r.mTail = r.mCurItems)

LEMMA Mod ==
  ASSUME NEW x \in 0 .. (2 * Size - 1)
  PROVE  x % Size = IF x < Size THEN x ELSE x - Size
<1>1. ASSUME NEW N \in Nat \ {0}, NEW y \in 0 .. (2 * N - 1)
      PROVE  y % N = IF y < N THEN y ELSE y - N
  OBVIOUS
<1> QED
  BY <1>1, RegisterAssumption

LEMMA NoItemIs == NoItem \in Slots
  BY RegisterAssumption DEF NoItem, Slots

LEMMA BitIs == \A b \in BOOLEAN : Bit(b) \in 0 .. 1
  BY DEF Bit

LEMMA ConnIs ==
  ASSUME NEW item \in Items
  PROVE  Conn(item) \in Slots /\ Conn(item).id = item.id /\ item.id \in 0 .. (MaxId - 1)
  BY DEF Items, Views, Conn, Slots

LEMMA MaxOfTwo ==
  ASSUME NEW a \in Int, NEW b \in Int
  PROVE  Max({a, b}) = IF a >= b THEN a ELSE b
<1> DEFINE m == IF a >= b THEN a ELSE b
<1>1. m \in {a, b} /\ \A y \in {a, b} : m >= y
  OBVIOUS
<1>2. \A x \in {a, b} : (\A y \in {a, b} : x >= y) => x = m
  OBVIOUS
<1> HIDE DEF m
<1>3. Max({a, b}) = m
  BY <1>1, <1>2 DEF Max
<1> QED
  BY <1>3 DEF m

LEMMA MinOfTwo ==
  ASSUME NEW a \in Int, NEW b \in Int
  PROVE  Min({a, b}) = IF a <= b THEN a ELSE b
<1> DEFINE m == IF a <= b THEN a ELSE b
<1>1. m \in {a, b} /\ \A y \in {a, b} : m <= y
  OBVIOUS
<1>2. \A x \in {a, b} : (\A y \in {a, b} : x <= y) => x = m
  OBVIOUS
<1> HIDE DEF m
<1>3. Min({a, b}) = m
  BY <1>1, <1>2 DEF Min
<1> QED
  BY <1>3 DEF m

(* Where the i-th of the connections is.                                    *)
At(r, i) == LET p == firstPos(r) + i IN IF p < Size THEN p ELSE p - Size

LEMMA AtFrom ==
  ASSUME NEW r, NEW first, firstPos(r) = first, NEW i
  PROVE  At(r, i) = IF first + i < Size THEN first + i ELSE (first + i) - Size
  BY DEF At

LEMMA AtIs ==
  ASSUME NEW r, Shape(r), NEW i \in 0 .. (Size - 1)
  PROVE  /\ At(r, i) \in 0 .. (Size - 1)
         /\ getConn(r, i) = r.mItemsRing[At(r, i)]
         /\ getConn(r, i) \in Slots
<1>1. firstPos(r) \in 0 .. (Size - 1) /\ r.mItemsRing \in [0 .. (Size - 1) -> Slots]
  BY RegisterAssumption DEF Shape, Registers, firstPos
<1>2. (firstPos(r) + i) % Size = At(r, i) /\ At(r, i) \in 0 .. (Size - 1)
  <2> DEFINE p == firstPos(r) + i
  <2>1. p \in 0 .. (2 * Size - 1) /\ At(r, i) = IF p < Size THEN p ELSE p - Size
    BY <1>1, RegisterAssumption DEF At
  <2> HIDE DEF p
  <2>2. p % Size = IF p < Size THEN p ELSE p - Size
    BY <2>1, Mod
  <2> QED BY <2>1, <2>2, RegisterAssumption DEF p
<1> QED
  BY <1>1, <1>2 DEF getConn

LEMMA ConnsAre ==
  ASSUME NEW r, Shape(r)
  PROVE  /\ Conns(r) \in Seq(Slots) /\ Len(Conns(r)) = r.mCurItems
         /\ r.mCurItems \in 0 .. Size
         /\ \A i \in 1 .. r.mCurItems :
              /\ At(r, i - 1) \in 0 .. (Size - 1)
              /\ Conns(r)[i] = r.mItemsRing[At(r, i - 1)]
<1>1. r.mCurItems \in 0 .. Size /\ r.mCurItems \in Nat
  BY RegisterAssumption DEF Shape, Registers
<1>2. \A i \in 1 .. r.mCurItems :
        /\ At(r, i - 1) \in 0 .. (Size - 1)
        /\ getConn(r, i - 1) = r.mItemsRing[At(r, i - 1)]
        /\ getConn(r, i - 1) \in Slots
  <2>1. \A i \in 1 .. r.mCurItems : i - 1 \in 0 .. (Size - 1)
    BY <1>1, RegisterAssumption
  <2> QED BY <2>1, AtIs
<1>3. Conns(r) \in [1 .. r.mCurItems -> Slots]
  BY <1>2 DEF Conns
<1> QED
  BY <1>1, <1>2, <1>3 DEF Conns
Stats == [numConnections: Int, bytes: Int, numBlocked: Int]

(* What put does, old being what it takes the place of and more the number  *)
(* of new connections.                                                      *)
Put(r, after, pos, conn, old, more) ==
  LET u == Uid[conn.id]
      s == r.mAppsStats[u]
      blocked == Bit(conn.block_accounted) - Bit(old.block_accounted)
  IN  /\ after \in Registers
      /\ after.mItemsRing = [r.mItemsRing EXCEPT ![pos] = conn]
      /\ after.mTail = r.mTail /\ after.mCurItems = r.mCurItems
      /\ after.mUntrackedItems = r.mUntrackedItems
      /\ after.mNumMalicious = r.mNumMalicious + Bit(conn.alerted) - Bit(old.alerted)
      /\ after.mNumBlocked = r.mNumBlocked + blocked
      /\ after.mMaxBytes = IF r.mMaxBytes >= conn.bytes THEN r.mMaxBytes ELSE conn.bytes
      /\ u \in Uids
      /\ after.mAppsStats =
           [r.mAppsStats EXCEPT ![u] = [numConnections |-> s.numConnections + more,
                                        bytes |-> s.bytes + conn.bytes - old.bytes,
                                        numBlocked |-> s.numBlocked + blocked]]

LEMMA PutIs ==
  ASSUME NEW r \in Registers, NEW pos \in 0 .. (Size - 1), NEW conn \in Slots,
         conn.id >= 0, NEW new \in BOOLEAN
  PROVE  Put(r, put(r, pos, conn, new), pos, conn,
             IF new THEN NoItem ELSE r.mItemsRing[pos], Bit(new))
<1> DEFINE old == IF new THEN NoItem ELSE r.mItemsRing[pos]
           u == Uid[conn.id]
           s == r.mAppsStats[u]
           blocked == Bit(conn.block_accounted) - Bit(old.block_accounted)
           alerts == r.mNumMalicious + Bit(conn.alerted) - Bit(old.alerted)
           most == Max({r.mMaxBytes, conn.bytes})
           one == [numConnections |-> s.numConnections + Bit(new),
                   bytes |-> s.bytes + conn.bytes - old.bytes,
                   numBlocked |-> s.numBlocked + blocked]
           after == [r EXCEPT !.mItemsRing[pos] = conn, !.mNumMalicious = alerts,
                              !.mNumBlocked = r.mNumBlocked + blocked,
                              !.mMaxBytes = most, !.mAppsStats[u] = one]
<1>1. old \in Slots
  BY NoItemIs DEF Registers
<1>2. /\ Bit(conn.alerted) \in 0 .. 1 /\ Bit(old.alerted) \in 0 .. 1 /\ Bit(new) \in 0 .. 1
      /\ Bit(conn.block_accounted) \in 0 .. 1 /\ Bit(old.block_accounted) \in 0 .. 1
  BY <1>1, BitIs DEF Slots
<1>3. conn.bytes \in Nat /\ old.bytes \in Nat
  BY <1>1, RegisterAssumption DEF Slots
<1>4. u \in Uids /\ s \in Stats
  <2>1. conn.id \in 0 .. (MaxId - 1)
    BY RegisterAssumption DEF Slots
  <2>2. u \in Uids
    BY <2>1, RegisterAssumption
  <2>3. r.mAppsStats \in [Uids -> Stats]
    BY DEF Registers, Stats
  <2> HIDE DEF u
  <2> QED BY <2>2, <2>3
<1>5. /\ most = IF r.mMaxBytes >= conn.bytes THEN r.mMaxBytes ELSE conn.bytes
      /\ most \in Nat
  <2>1. r.mMaxBytes \in Nat /\ conn.bytes \in Nat
    BY <1>3 DEF Registers
  <2> QED BY <2>1, MaxOfTwo
<1>6. put(r, pos, conn, new) = after
  BY DEF put
<1> HIDE DEF old
<1>7. blocked \in Int /\ alerts \in Int /\ r.mNumBlocked + blocked \in Int
  BY <1>2 DEF Registers
<1>8. one \in Stats
  BY <1>2, <1>3, <1>4 DEF Stats
<1> HIDE DEF alerts, blocked, most, one, u, s
<1>9. /\ after \in Registers
      /\ after.mItemsRing = [r.mItemsRing EXCEPT ![pos] = conn]
      /\ after.mTail = r.mTail /\ after.mCurItems = r.mCurItems
      /\ after.mUntrackedItems = r.mUntrackedItems
      /\ after.mNumMalicious = alerts /\ after.mNumBlocked = r.mNumBlocked + blocked
      /\ after.mMaxBytes = most
      /\ after.mAppsStats = [r.mAppsStats EXCEPT ![u] = one]
  BY <1>4, <1>5, <1>7, <1>8 DEF Registers, Stats
<1> HIDE DEF after
<1>10. Put(r, after, pos, conn, old, Bit(new))
  BY <1>4, <1>5, <1>9 DEF Put, alerts, blocked, one, u, s
<1> QED
  BY <1>6, <1>10 DEF old
(* A new connection takes the place of the oldest one of a full ring.       *)
Pushed(conns, conn) ==
  IF Len(conns) < Size THEN Append(conns, conn) ELSE Tail(Append(conns, conn))

LEMMA AddIs ==
  ASSUME NEW r, Shape(r), NEW item \in Items
  PROVE  LET after == add(r, item)
             conn == Conn(item)
         IN  /\ Shape(after)
             /\ Conns(after) = Pushed(Conns(r), conn)
             /\ after.mUntrackedItems = r.mUntrackedItems
             /\ after.mMaxBytes = IF r.mMaxBytes >= conn.bytes THEN r.mMaxBytes ELSE conn.bytes
<1> DEFINE conn == Conn(item)
           p == put(r, r.mTail, conn, TRUE)
           tail == (r.mTail + 1) % Size
           cur == Min({r.mCurItems + 1, Size})
           after == [p EXCEPT !.mTail = tail, !.mCurItems = cur]
<1>1. conn \in Slots /\ conn.id >= 0
  BY ConnIs
<1>2. /\ r \in Registers /\ r.mTail \in 0 .. (Size - 1) /\ r.mCurItems \in 0 .. Size
      /\ r.mCurItems < Size => r.mTail = r.mCurItems
      /\ r.mItemsRing \in [0 .. (Size - 1) -> Slots]
  BY DEF Shape, Registers
<1> HIDE DEF conn
<1>4. Put(r, p, r.mTail, conn, NoItem, Bit(TRUE))
  BY <1>1, <1>2, PutIs
<1>5. add(r, item) = after
  BY DEF add, conn
<1>6. tail = IF r.mTail + 1 < Size THEN r.mTail + 1 ELSE 0
  <2> DEFINE x == r.mTail + 1
  <2>1. x \in 0 .. (2 * Size - 1) /\ x <= Size
    BY <1>2, RegisterAssumption
  <2> HIDE DEF x
  <2>2. x % Size = IF x < Size THEN x ELSE x - Size
    BY <2>1, Mod
  <2>3. tail = x % Size
    BY DEF x
  <2> HIDE DEF tail
  <2>4. tail = IF x < Size THEN x ELSE 0
    BY <2>1, <2>2, <2>3, RegisterAssumption
  <2> QED BY <2>4 DEF x
<1>7. cur = IF r.mCurItems < Size THEN r.mCurItems + 1 ELSE Size
  <2>1. r.mCurItems + 1 \in Int /\ Size \in Int
    BY <1>2, RegisterAssumption
  <2>2. cur = IF r.mCurItems + 1 <= Size THEN r.mCurItems + 1 ELSE Size
    BY <2>1, MinOfTwo
  <2> QED BY <1>2, <2>2, RegisterAssumption
<1> HIDE DEF p, tail, cur
<1>8. /\ after.mTail = tail /\ after.mCurItems = cur
      /\ after.mItemsRing = p.mItemsRing /\ after.mUntrackedItems = p.mUntrackedItems
      /\ after.mMaxBytes = p.mMaxBytes /\ after \in Registers
  <2>1. p \in Registers
    BY <1>4 DEF Put
  <2>2. tail \in 0 .. (Size - 1) /\ cur \in 0 .. Size
    BY <1>2, <1>6, <1>7, RegisterAssumption
  <2> QED BY <2>1, <2>2 DEF Registers
<1> HIDE DEF after
<1>9. Shape(after)
  BY <1>2, <1>6, <1>7, <1>8, RegisterAssumption DEF Shape
<1>10. after.mItemsRing = [r.mItemsRing EXCEPT ![r.mTail] = conn]
  BY <1>4, <1>8 DEF Put
<1>11. Conns(after) = Pushed(Conns(r), conn)
  <2> DEFINE new == Pushed(Conns(r), conn)
  <2>1. /\ Conns(r) \in Seq(Slots) /\ Len(Conns(r)) = r.mCurItems
        /\ \A i \in 1 .. r.mCurItems :
             At(r, i - 1) \in 0 .. (Size - 1) /\ Conns(r)[i] = r.mItemsRing[At(r, i - 1)]
    BY ConnsAre
  <2>2. /\ Conns(after) \in Seq(Slots) /\ Len(Conns(after)) = cur
        /\ \A i \in 1 .. cur :
             /\ At(after, i - 1) \in 0 .. (Size - 1)
             /\ Conns(after)[i] = after.mItemsRing[At(after, i - 1)]
    BY <1>8, <1>9, ConnsAre
  <2>3. CASE r.mCurItems < Size
    <3>1. /\ new \in Seq(Slots) /\ Len(new) = r.mCurItems + 1
          /\ \A i \in 1 .. r.mCurItems : new[i] = Conns(r)[i]
          /\ new[r.mCurItems + 1] = conn
      BY <1>1, <1>2, <2>1, <2>3 DEF Pushed
    <3> HIDE DEF new
    <3>2. \A i \in 1 .. r.mCurItems + 1 : At(after, i - 1) = i - 1
      BY <1>2, <1>6, <1>7, <1>8, <2>3, RegisterAssumption DEF At, firstPos
    <3>3. \A i \in 1 .. r.mCurItems : At(r, i - 1) = i - 1
      BY <1>2, <2>3, RegisterAssumption DEF At, firstPos
    <3>4. \A i \in 1 .. cur : Conns(after)[i] = new[i]
      <4> SUFFICES ASSUME NEW i \in 1 .. (r.mCurItems + 1)
                   PROVE  Conns(after)[i] = new[i]
        BY <1>7, <2>3
      <4>1. Conns(after)[i] = [r.mItemsRing EXCEPT ![r.mTail] = conn][i - 1]
        BY <1>7, <1>10, <2>2, <2>3, <3>2
      <4>2. CASE i = r.mCurItems + 1
        <5>1. i - 1 = r.mTail /\ new[i] = conn
          BY <1>2, <2>3, <3>1, <4>2
        <5>2. [r.mItemsRing EXCEPT ![r.mTail] = conn][r.mTail] = conn
          BY <1>2
        <5> QED BY <4>1, <5>1, <5>2
      <4>3. CASE i \in 1 .. r.mCurItems
        <5>1. i - 1 # r.mTail
          BY <1>2, <2>3, <4>3
        <5>2. Conns(after)[i] = r.mItemsRing[i - 1]
          BY <1>2, <2>3, <4>1, <4>3, <5>1
        <5> QED BY <2>1, <3>1, <3>3, <4>3, <5>2
      <4> QED BY <1>2, <4>2, <4>3
    <3>5. Len(Conns(after)) = cur /\ Len(new) = cur
      BY <1>7, <2>2, <2>3, <3>1
    <3>6. Conns(after) \in Seq(Slots) /\ new \in Seq(Slots)
      BY <2>2, <3>1
    <3>7. Conns(after) = new
      BY <3>4, <3>5, <3>6, SeqEqual
    <3> QED BY <3>7 DEF new
  <2>4. CASE r.mCurItems = Size
    <3>1. /\ new \in Seq(Slots) /\ Len(new) = Size
          /\ \A i \in 1 .. (Size - 1) : new[i] = Conns(r)[i + 1]
          /\ new[Size] = conn
      <4> DEFINE all == Append(Conns(r), conn)
      <4>1. /\ all \in Seq(Slots) /\ Len(all) = Size + 1 /\ all[Size + 1] = conn
            /\ \A i \in 1 .. Size : all[i] = Conns(r)[i]
        BY <1>1, <2>1, <2>4, RegisterAssumption
      <4>2. new = Tail(all)
        BY <2>1, <2>4, RegisterAssumption DEF Pushed
      <4> HIDE DEF all, new
      <4>3. Len(new) = Size /\ new \in Seq(Slots)
        BY <4>1, <4>2, RegisterAssumption
      <4>4. \A i \in 1 .. Size : new[i] = all[i + 1]
        BY <4>1, <4>2, RegisterAssumption
      <4> QED BY <4>1, <4>3, <4>4, RegisterAssumption
    <3> HIDE DEF new
    <3>2. cur = Size
      BY <1>7, <2>4, RegisterAssumption
    <3>21. firstPos(after) = tail /\ firstPos(r) = r.mTail
      BY <1>8, <2>4, <3>2, RegisterAssumption DEF firstPos
    <3>3. \A i \in 1 .. (Size - 1) : At(after, i - 1) = At(r, i)
                                     /\ At(after, i - 1) # r.mTail
      <4> SUFFICES ASSUME NEW i \in 1 .. (Size - 1)
                   PROVE  At(after, i - 1) = At(r, i) /\ At(after, i - 1) # r.mTail
        OBVIOUS
      <4>1. /\ At(after, i - 1) = IF tail + (i - 1) < Size THEN tail + (i - 1)
                                 ELSE (tail + (i - 1)) - Size
            /\ At(r, i) = IF r.mTail + i < Size THEN r.mTail + i ELSE (r.mTail + i) - Size
        BY <3>21, AtFrom
      <4>2. r.mTail \in 0 .. (Size - 1) /\ Size \in Nat
        BY <1>2, RegisterAssumption
      <4>3. CASE r.mTail + 1 < Size
        <5>1. tail = r.mTail + 1
          BY <1>6, <4>3
        <5> QED BY <4>1, <4>2, <5>1
      <4>4. CASE ~(r.mTail + 1 < Size)
        <5>1. tail = 0 /\ r.mTail = Size - 1
          BY <1>6, <4>2, <4>4
        <5> QED BY <4>1, <4>2, <5>1
      <4> QED BY <4>3, <4>4
    <3>4. At(after, Size - 1) = r.mTail
      <4>1. At(after, Size - 1) = IF tail + (Size - 1) < Size THEN tail + (Size - 1)
                                  ELSE (tail + (Size - 1)) - Size
        BY <3>21, AtFrom
      <4>2. r.mTail \in 0 .. (Size - 1) /\ Size \in Nat
        BY <1>2, RegisterAssumption
      <4> QED BY <1>6, <4>1, <4>2
    <3>5. ASSUME NEW i \in 1 .. Size PROVE Conns(after)[i] = new[i]
      <4>1. Conns(after)[i] = [r.mItemsRing EXCEPT ![r.mTail] = conn][At(after, i - 1)]
        BY <1>10, <2>2, <3>2
      <4>2. CASE i = Size
        BY <1>2, <3>1, <3>4, <4>1, <4>2
      <4>3. CASE i \in 1 .. (Size - 1)
        <5>1. At(after, i - 1) \in 0 .. (Size - 1)
          BY <2>2, <3>2
        <5>2. Conns(after)[i] = r.mItemsRing[At(r, i)]
          BY <1>2, <3>3, <4>1, <4>3, <5>1
        <5>3. i + 1 \in 1 .. r.mCurItems /\ (i + 1) - 1 = i
          BY <2>4, <4>3, RegisterAssumption
        <5>4. Conns(r)[i + 1] = r.mItemsRing[At(r, i)]
          BY <2>1, <5>3
        <5> QED BY <3>1, <4>3, <5>2, <5>4
      <4> QED BY <4>2, <4>3, RegisterAssumption
    <3>6. /\ Conns(after) \in Seq(Slots) /\ new \in Seq(Slots)
          /\ Len(Conns(after)) = Size /\ Len(new) = Size
      BY <2>2, <3>1, <3>2
    <3>7. Conns(after) = new
      BY <3>5, <3>6, SeqEqual
    <3> QED BY <3>7 DEF new
  <2> QED BY <1>2, <2>3, <2>4, RegisterAssumption
<1>12. /\ after.mUntrackedItems = r.mUntrackedItems
       /\ after.mMaxBytes = IF r.mMaxBytes >= conn.bytes THEN r.mMaxBytes ELSE conn.bytes
  BY <1>4, <1>8 DEF Put
<1>13. after = add(r, item)
  BY <1>5
<1> QED
  BY <1>9, <1>11, <1>12, <1>13 DEF conn

-----------------------------------------------------------------------------
(* The ids of the connections have no gap.                                  *)
InOrder(conns) ==
  \A i \in 1 .. Len(conns) : conns[i].id >= 0 /\ conns[i].id = conns[1].id + i - 1

Replaced(conns, conn) == [i \in DOMAIN conns |-> IF conns[i].id = conn.id THEN conn ELSE conns[i]]

LEMMA ReplacedIs ==
  ASSUME NEW conns \in Seq(Slots), NEW conn \in Slots
  PROVE  /\ Replaced(conns, conn) \in Seq(Slots)
         /\ Len(Replaced(conns, conn)) = Len(conns)
         /\ \A i \in 1 .. Len(conns) :
              Replaced(conns, conn)[i] = IF conns[i].id = conn.id THEN conn ELSE conns[i]
<1>1. Len(conns) \in Nat /\ DOMAIN conns = 1 .. Len(conns) /\ \A i \in 1 .. Len(conns) : conns[i] \in Slots
  OBVIOUS
<1>2. Replaced(conns, conn) \in [1 .. Len(conns) -> Slots]
  BY <1>1 DEF Replaced
<1> QED
  BY <1>1, <1>2 DEF Replaced

(* The newest connection is in front of the tail.                           *)
LEMMA LastIs ==
  ASSUME NEW r, Shape(r), r.mCurItems > 0
  PROVE  /\ lastPos(r) = At(r, r.mCurItems - 1)
         /\ r.mItemsRing[lastPos(r)] = Conns(r)[r.mCurItems]
         /\ r.mItemsRing[firstPos(r)] = Conns(r)[1]
<1>1. /\ r.mTail \in 0 .. (Size - 1) /\ r.mCurItems \in 1 .. Size
      /\ r.mCurItems < Size => r.mTail = r.mCurItems
  BY RegisterAssumption DEF Shape, Registers
<1>2. lastPos(r) = IF r.mTail = 0 THEN Size - 1 ELSE r.mTail - 1
  <2> DEFINE x == r.mTail - 1 + Size
  <2>1. x \in 0 .. (2 * Size - 1)
    BY <1>1, RegisterAssumption
  <2>2. lastPos(r) = x % Size
    BY DEF lastPos
  <2>3. x < Size <=> r.mTail = 0
    BY <1>1, RegisterAssumption
  <2>4. r.mTail = 0 => x = Size - 1
    BY RegisterAssumption
  <2>5. x - Size = r.mTail - 1
    BY <1>1, RegisterAssumption
  <2> HIDE DEF x
  <2> QED BY <2>1, <2>2, <2>3, <2>4, <2>5, Mod
<1>3. lastPos(r) = At(r, r.mCurItems - 1)
  BY <1>1, <1>2, RegisterAssumption DEF At, firstPos
<1>4. firstPos(r) = At(r, 0)
  BY <1>1, RegisterAssumption DEF At, firstPos
<1>5. \A i \in 1 .. r.mCurItems : Conns(r)[i] = r.mItemsRing[At(r, i - 1)]
  BY ConnsAre
<1>6. /\ Conns(r)[r.mCurItems] = r.mItemsRing[At(r, r.mCurItems - 1)]
      /\ Conns(r)[1] = r.mItemsRing[At(r, 1 - 1)]
  BY <1>1, <1>5
<1> QED
  BY <1>3, <1>4, <1>6

LEMMA AtInjective ==
  ASSUME NEW r, Shape(r), NEW i \in 0 .. (Size - 1), NEW j \in 0 .. (Size - 1), At(r, i) = At(r, j)
  PROVE  i = j
<1>1. firstPos(r) \in 0 .. (Size - 1)
  BY RegisterAssumption DEF Shape, Registers, firstPos
<1> QED
  BY <1>1, RegisterAssumption DEF At

LEMMA UpdateIs ==
  ASSUME NEW r, Shape(r), r.mCurItems > 0, InOrder(Conns(r)), NEW item \in Items
  PROVE  LET after == update(r, item)
             conns == Conns(r)
             conn == Conn(item)
         IN  /\ Shape(after) /\ after.mCurItems = r.mCurItems
             /\ Conns(after) = Replaced(conns, conn)
             /\ \/ /\ \A i \in 1 .. Len(conns) : conns[i].id # conn.id
                   /\ after = r
                \/ \E i \in 1 .. Len(conns) :
                     /\ conns[i].id = conn.id
                     /\ Put(r, after, At(r, i - 1), conn, conns[i], 0)
<1> DEFINE conns == Conns(r)
           conn == Conn(item)
           first == conns[1].id
           last == conns[r.mCurItems].id
           after == update(r, item)
<1>1. /\ conns \in Seq(Slots) /\ Len(conns) = r.mCurItems /\ r.mCurItems \in 1 .. Size
      /\ \A i \in 1 .. r.mCurItems :
           At(r, i - 1) \in 0 .. (Size - 1) /\ conns[i] = r.mItemsRing[At(r, i - 1)]
  <2>1. /\ conns \in Seq(Slots) /\ Len(conns) = r.mCurItems /\ r.mCurItems \in 0 .. Size
        /\ \A i \in 1 .. r.mCurItems :
             At(r, i - 1) \in 0 .. (Size - 1) /\ conns[i] = r.mItemsRing[At(r, i - 1)]
    BY ConnsAre
  <2>2. Size \in Nat
    BY RegisterAssumption
  <2> HIDE DEF conns
  <2> QED BY <2>1, <2>2
<1>2. conn \in Slots /\ conn.id = item.id /\ item.id \in 0 .. (MaxId - 1)
  BY ConnIs
<1>3. update(r, item) =
        IF item.id \in first .. last
        THEN put(r, (item.id - first + firstPos(r)) % Size, conn, FALSE) ELSE r
  BY LastIs DEF update
<1>4. first \in Nat /\ last = first + r.mCurItems - 1
      /\ \A i \in 1 .. r.mCurItems : conns[i].id = first + i - 1
  <2> HIDE DEF conns
  <2>1. conns[1] \in Slots /\ 1 \in 1 .. Len(conns) /\ r.mCurItems \in 1 .. Len(conns)
    BY <1>1
  <2>2. InOrder(conns)
    BY DEF conns
  <2>3. first \in Int /\ first >= 0
    BY <2>1, <2>2, RegisterAssumption DEF InOrder, Slots
  <2> QED BY <1>1, <2>1, <2>2, <2>3 DEF InOrder
<1> HIDE DEF conns, conn, first, last
<1>5. CASE item.id \notin first .. last
  <2>1. \A i \in 1 .. Len(conns) : conns[i].id # conn.id
    <3> SUFFICES ASSUME NEW i \in 1 .. r.mCurItems PROVE first + i - 1 # item.id
      BY <1>1, <1>2, <1>4
    <3>1. first + i - 1 \in first .. last
      <4>1. first \in Int /\ r.mCurItems \in Int /\ last = first + r.mCurItems - 1
        BY <1>1, <1>4
      <4> QED BY <4>1
    <3> QED BY <1>5, <3>1
  <2>2. after = r
    BY <1>3, <1>5
  <2>3. Replaced(conns, conn) \in Seq(Slots) /\ Len(Replaced(conns, conn)) = Len(conns)
        /\ \A i \in 1 .. Len(conns) : Replaced(conns, conn)[i] = conns[i]
    BY <1>1, <1>2, <2>1, ReplacedIs
  <2>4. Replaced(conns, conn) = conns
    BY <1>1, <2>3, SeqEqual
  <2> QED BY <2>1, <2>2, <2>4 DEF conns, conn
<1>6. CASE item.id \in first .. last
  <2> DEFINE k == item.id - first + 1
             pos == At(r, k - 1)
  <2>1. k \in 1 .. r.mCurItems /\ k - 1 \in 0 .. (Size - 1) /\ conns[k].id = conn.id
    <3>0. /\ item.id \in Int /\ first \in Int /\ r.mCurItems \in 1 .. Size /\ Size \in Int
          /\ first <= item.id /\ item.id <= last /\ last = first + r.mCurItems - 1
      BY <1>1, <1>2, <1>4, <1>6, RegisterAssumption
    <3>1. k \in 1 .. r.mCurItems /\ k - 1 \in 0 .. (Size - 1) /\ first + k - 1 = item.id
      BY <3>0
    <3> HIDE DEF k
    <3>2. conns[k].id = first + k - 1
      BY <1>4, <3>1
    <3> QED BY <1>2, <3>1, <3>2
  <2>2. pos \in 0 .. (Size - 1) /\ conns[k] = r.mItemsRing[pos]
    BY <1>1, <2>1
  <2>3. (item.id - first + firstPos(r)) % Size = pos
    <3> DEFINE x == firstPos(r) + (k - 1)
    <3>1. firstPos(r) \in 0 .. (Size - 1)
      BY RegisterAssumption DEF Shape, Registers, firstPos
    <3>2. x \in 0 .. (2 * Size - 1) /\ x = item.id - first + firstPos(r)
      <4>1. item.id \in Int /\ first \in Int /\ Size \in Int /\ k - 1 = item.id - first
        BY <1>2, <1>4, RegisterAssumption
      <4>2. k - 1 \in 0 .. (Size - 1)
        BY <2>1
      <4> QED BY <3>1, <4>1, <4>2
    <3>3. pos = IF x < Size THEN x ELSE x - Size
      BY DEF At
    <3> HIDE DEF x, k, pos
    <3> QED BY <3>2, <3>3, Mod
  <2> HIDE DEF k, pos
  <2>4. after = put(r, pos, conn, FALSE)
    BY <1>3, <1>6, <2>3
  <2>5. r \in Registers
    BY DEF Shape
  <2>6. Put(r, after, pos, conn, r.mItemsRing[pos], 0)
    <3>1. conn.id >= 0
      BY <1>2, RegisterAssumption
    <3>2. Put(r, put(r, pos, conn, FALSE), pos, conn,
              IF FALSE THEN NoItem ELSE r.mItemsRing[pos], Bit(FALSE))
      BY <1>2, <2>2, <2>5, <3>1, PutIs
    <3>3. Bit(FALSE) = 0
      BY DEF Bit
    <3> QED BY <2>4, <3>2, <3>3
  <2> HIDE DEF after
  <2>7. Put(r, after, pos, conn, conns[k], 0)
    BY <2>2, <2>6
  <2>8. /\ after \in Registers /\ after.mTail = r.mTail /\ after.mCurItems = r.mCurItems
        /\ after.mItemsRing = [r.mItemsRing EXCEPT ![pos] = conn]
    BY <2>7 DEF Put
  <2>9. Shape(after)
    BY <2>8 DEF Shape
  <2>10. Conns(after) = Replaced(conns, conn)
    <3>1. /\ Conns(after) \in Seq(Slots) /\ Len(Conns(after)) = r.mCurItems
          /\ \A i \in 1 .. r.mCurItems : Conns(after)[i] = after.mItemsRing[At(after, i - 1)]
      BY <2>8, <2>9, ConnsAre
    <3>2. \A i : At(after, i) = At(r, i)
      BY <2>8 DEF At, firstPos
    <3>3. /\ Replaced(conns, conn) \in Seq(Slots)
          /\ Len(Replaced(conns, conn)) = Len(conns)
          /\ \A i \in 1 .. Len(conns) :
               Replaced(conns, conn)[i] = IF conns[i].id = conn.id THEN conn ELSE conns[i]
      BY <1>1, <1>2, ReplacedIs
    <3>4. ASSUME NEW i \in 1 .. r.mCurItems
          PROVE  Conns(after)[i] = Replaced(conns, conn)[i]
      <4>1. At(r, i - 1) \in 0 .. (Size - 1) /\ i - 1 \in 0 .. (Size - 1)
        BY <1>1, RegisterAssumption
      <4>2. Conns(after)[i] = [r.mItemsRing EXCEPT ![pos] = conn][At(r, i - 1)]
        BY <2>8, <3>1, <3>2
      <4>3. r.mItemsRing \in [0 .. (Size - 1) -> Slots]
        BY <2>5 DEF Registers
      <4>4. CASE i = k
        BY <1>1, <2>1, <2>2, <3>3, <4>2, <4>3, <4>4 DEF pos
      <4>5. CASE i # k
        <5>1. At(r, i - 1) # pos
          <6>1. i - 1 # k - 1 /\ k - 1 \in 0 .. (Size - 1) /\ i - 1 \in 0 .. (Size - 1)
            BY <2>1, <4>1, <4>5
          <6>2. \A x, y \in 0 .. (Size - 1) : At(r, x) = At(r, y) => x = y
            BY AtInjective
          <6>3. At(r, i - 1) # At(r, k - 1)
            BY <6>1, <6>2
          <6> QED BY <6>3 DEF pos
        <5>2. conns[i].id # conn.id
          <6>1. conns[i].id = first + i - 1 /\ conn.id = first + k - 1
            BY <1>4, <2>1
          <6>2. i \in Int /\ k \in Int /\ first \in Int
            BY <1>1, <1>4, <2>1
          <6> QED BY <4>5, <6>1, <6>2
        <5>3. Conns(after)[i] = r.mItemsRing[At(r, i - 1)]
          BY <4>1, <4>2, <4>3, <5>1
        <5> QED BY <1>1, <3>3, <5>2, <5>3
      <4> QED BY <4>4, <4>5
    <3>5. Len(Conns(after)) = Len(Replaced(conns, conn))
      BY <1>1, <3>1, <3>3
    <3> QED BY <3>1, <3>3, <3>4, <3>5, SeqEqual
  <2> QED BY <1>1, <2>1, <2>7, <2>8, <2>9, <2>10 DEF conns, conn, after, pos
<1> QED
  BY <1>5, <1>6
-----------------------------------------------------------------------------
(* The loops over a batch.                                                  *)
Adds(r, items, n, after) ==
  after = [k \in 0 .. n |-> IF k = 0 THEN r ELSE add(after[k - 1], items[k])]

Updates(r, items, n, after) ==
  after = [k \in 0 .. n |-> IF k = 0 THEN r ELSE update(after[k - 1], items[k])]

LEMMA AddsExist ==
  ASSUME NEW r, NEW items, NEW n \in Nat
  PROVE  \E after : Adds(r, items, n, after)
<1> DEFINE T == {k \in Nat : \E after : Adds(r, items, k, after)}
<1>1. 0 \in T
  <2>1. Adds(r, items, 0, [i \in 0 .. 0 |-> r])
    BY DEF Adds
  <2> QED BY <2>1
<1>2. ASSUME NEW k \in 0 .. (n - 1), k \in T PROVE k + 1 \in T
  <2>1. PICK after : Adds(r, items, k, after)
    BY <1>2
  <2> DEFINE more == [i \in 0 .. (k + 1) |->
                        IF i = k + 1 THEN add(after[k], items[k + 1]) ELSE after[i]]
  <2>2. \A i \in 0 .. k : after[i] = IF i = 0 THEN r ELSE add(after[i - 1], items[i])
    BY <2>1 DEF Adds
  <2>3. \A i \in 0 .. (k + 1) : more[i] = IF i = 0 THEN r ELSE add(more[i - 1], items[i])
    BY <2>2
  <2>4. Adds(r, items, k + 1, more)
    BY <2>3 DEF Adds
  <2> HIDE DEF more
  <2> QED BY <2>4
<1> HIDE DEF T
<1>3. n \in T
  BY <1>1, <1>2, UpTo
<1> QED
  BY <1>3 DEF T

LEMMA UpdatesExist ==
  ASSUME NEW r, NEW items, NEW n \in Nat
  PROVE  \E after : Updates(r, items, n, after)
<1> DEFINE T == {k \in Nat : \E after : Updates(r, items, k, after)}
<1>1. 0 \in T
  <2>1. Updates(r, items, 0, [i \in 0 .. 0 |-> r])
    BY DEF Updates
  <2> QED BY <2>1
<1>2. ASSUME NEW k \in 0 .. (n - 1), k \in T PROVE k + 1 \in T
  <2>1. PICK after : Updates(r, items, k, after)
    BY <1>2
  <2> DEFINE more == [i \in 0 .. (k + 1) |->
                        IF i = k + 1 THEN update(after[k], items[k + 1]) ELSE after[i]]
  <2>2. \A i \in 0 .. k : after[i] = IF i = 0 THEN r ELSE update(after[i - 1], items[i])
    BY <2>1 DEF Updates
  <2>3. \A i \in 0 .. (k + 1) : more[i] = IF i = 0 THEN r ELSE update(more[i - 1], items[i])
    BY <2>2
  <2>4. Updates(r, items, k + 1, more)
    BY <2>3 DEF Updates
  <2> HIDE DEF more
  <2> QED BY <2>4
<1> HIDE DEF T
<1>3. n \in T
  BY <1>1, <1>2, UpTo
<1> QED
  BY <1>3 DEF T

LEMMA AddAllIs ==
  ASSUME NEW r, NEW items, Len(items) \in Nat
  PROVE  \E after :
           /\ addAll(r, items) = after[Len(items)]
           /\ after[0] = r
           /\ \A k \in 1 .. Len(items) : after[k] = add(after[k - 1], items[k])
<1>1. PICK some : Adds(r, items, Len(items), some)
  BY AddsExist
<1> DEFINE after == CHOOSE s : Adds(r, items, Len(items), s)
<1>2. Adds(r, items, Len(items), after)
  BY <1>1
<1>3. addAll(r, items) = after[Len(items)]
  BY DEF addAll, Adds
<1> HIDE DEF after
<1>4. after[0] = r /\ \A k \in 1 .. Len(items) : after[k] = add(after[k - 1], items[k])
  BY <1>2 DEF Adds
<1> QED
  BY <1>3, <1>4

LEMMA ConnectionsUpdatesIs ==
  ASSUME NEW r, NEW items, Len(items) \in Nat, r.mCurItems # 0
  PROVE  \E after :
           /\ connectionsUpdates(r, items) = after[Len(items)]
           /\ after[0] = r
           /\ \A k \in 1 .. Len(items) : after[k] = update(after[k - 1], items[k])
<1>1. PICK some : Updates(r, items, Len(items), some)
  BY UpdatesExist
<1> DEFINE after == CHOOSE s : Updates(r, items, Len(items), s)
<1>2. Updates(r, items, Len(items), after)
  BY <1>1
<1>3. connectionsUpdates(r, items) = after[Len(items)]
  BY DEF connectionsUpdates, Updates
<1> HIDE DEF after
<1>4. after[0] = r /\ \A k \in 1 .. Len(items) : after[k] = update(after[k - 1], items[k])
  BY <1>2 DEF Updates
<1> QED
  BY <1>3, <1>4

-----------------------------------------------------------------------------
(* Sums over connections.                                                   *)
SumOf(f, conns) == Total([i \in DOMAIN conns |-> f[conns[i]]])

Measures == [Slots -> Nat]

LEMMA ValuesAre ==
  ASSUME NEW f \in Measures, NEW conns \in Seq(Slots)
  PROVE  LET values == [i \in DOMAIN conns |-> f[conns[i]]]
         IN  /\ values \in Seq(Nat) /\ values \in Seq(Int) /\ Len(values) = Len(conns)
             /\ \A i \in 1 .. Len(conns) : values[i] = f[conns[i]] /\ values[i] \in Nat
<1> DEFINE values == [i \in DOMAIN conns |-> f[conns[i]]]
<1>1. /\ Len(conns) \in Nat /\ DOMAIN conns = 1 .. Len(conns)
      /\ \A i \in 1 .. Len(conns) : conns[i] \in Slots
  OBVIOUS
<1>2. \A i \in 1 .. Len(conns) : f[conns[i]] \in Nat
  BY <1>1 DEF Measures
<1>3. values \in [1 .. Len(conns) -> Nat]
  BY <1>1, <1>2
<1>4. values \in [1 .. Len(conns) -> Int]
  BY <1>1, <1>2
<1> QED
  BY <1>1, <1>2, <1>3, <1>4

LEMMA SumOfTyped ==
  ASSUME NEW f \in Measures, NEW conns \in Seq(Slots)
  PROVE  SumOf(f, conns) \in Nat
  BY ValuesAre, TotalTyped DEF SumOf

LEMMA SumOfConcat ==
  ASSUME NEW f \in Measures, NEW s \in Seq(Slots), NEW t \in Seq(Slots)
  PROVE  SumOf(f, s \o t) = SumOf(f, s) + SumOf(f, t)
<1> DEFINE a == [i \in DOMAIN s |-> f[s[i]]]
           b == [i \in DOMAIN t |-> f[t[i]]]
           u == s \o t
           c == [i \in DOMAIN u |-> f[u[i]]]
<1>1. /\ a \in Seq(Int) /\ Len(a) = Len(s) /\ \A i \in 1 .. Len(s) : a[i] = f[s[i]]
      /\ b \in Seq(Int) /\ Len(b) = Len(t) /\ \A i \in 1 .. Len(t) : b[i] = f[t[i]]
  BY ValuesAre
<1>2. /\ u \in Seq(Slots) /\ Len(u) = Len(s) + Len(t)
      /\ Len(s) \in Nat /\ Len(t) \in Nat
      /\ \A i \in 1 .. (Len(s) + Len(t)) : u[i] = IF i <= Len(s) THEN s[i] ELSE t[i - Len(s)]
  BY ConcatProperties
<1> HIDE DEF u
<1>3. c \in Seq(Int) /\ Len(c) = Len(u) /\ \A i \in 1 .. Len(u) : c[i] = f[u[i]]
  BY <1>2, ValuesAre
<1> HIDE DEF a, b, c
<1>4. /\ a \o b \in Seq(Int) /\ Len(a \o b) = Len(s) + Len(t)
      /\ \A i \in 1 .. (Len(s) + Len(t)) :
           (a \o b)[i] = IF i <= Len(s) THEN a[i] ELSE b[i - Len(s)]
  <2>1. a \in Seq(Int) /\ b \in Seq(Int) /\ Len(a) = Len(s) /\ Len(b) = Len(t)
    BY <1>1
  <2>2. /\ a \o b \in Seq(Int) /\ Len(a \o b) = Len(a) + Len(b)
        /\ \A i \in 1 .. (Len(a) + Len(b)) :
             (a \o b)[i] = IF i <= Len(a) THEN a[i] ELSE b[i - Len(a)]
    BY <2>1, ConcatProperties
  <2> QED BY <2>1, <2>2
<1> DEFINE d == a \o b
<1> HIDE DEF d
<1>5. ASSUME NEW i \in 1 .. Len(c) PROVE c[i] = d[i]
  <2>1. i \in 1 .. (Len(s) + Len(t)) /\ c[i] = f[u[i]]
    BY <1>2, <1>3
  <2>2. CASE i <= Len(s)
    <3>1. i \in 1 .. Len(s)
      BY <1>2, <2>1, <2>2
    <3>2. a[i] = f[s[i]]
      BY <1>1, <3>1
    <3>3. d[i] = a[i]
      BY <1>4, <2>1, <2>2 DEF d
    <3>4. u[i] = s[i]
      BY <1>2, <2>1, <2>2
    <3> QED BY <2>1, <3>2, <3>3, <3>4
  <2>3. CASE ~(i <= Len(s))
    <3>1. i - Len(s) \in 1 .. Len(t)
      BY <1>2, <2>1, <2>3
    <3>2. b[i - Len(s)] = f[t[i - Len(s)]]
      BY <1>1, <3>1
    <3>3. d[i] = b[i - Len(s)]
      BY <1>4, <2>1, <2>3 DEF d
    <3>4. u[i] = t[i - Len(s)]
      BY <1>2, <2>1, <2>3
    <3> QED BY <2>1, <3>2, <3>3, <3>4
  <2> QED BY <2>2, <2>3
<1>6. d \in Seq(Int) /\ Len(d) = Len(s) + Len(t) /\ Len(c) = Len(s) + Len(t)
  BY <1>2, <1>3, <1>4 DEF d
<1>7. c = d
  BY <1>3, <1>5, <1>6, SeqEqual
<1>8. Total(c) = Total(a) + Total(b)
  BY <1>1, <1>7, TotalConcat DEF d
<1> QED
  BY <1>8 DEF SumOf, a, b, c, u

LEMMA SumOfReplaced ==
  ASSUME NEW f \in Measures, NEW conns \in Seq(Slots), InOrder(conns), NEW conn \in Slots,
         NEW p \in 1 .. Len(conns), conns[p].id = conn.id
  PROVE  SumOf(f, Replaced(conns, conn)) = SumOf(f, conns) + f[conn] - f[conns[p]]
<1> DEFINE t == Replaced(conns, conn)
           a == [i \in DOMAIN conns |-> f[conns[i]]]
           b == [i \in DOMAIN t |-> f[t[i]]]
<1>1. /\ t \in Seq(Slots) /\ Len(t) = Len(conns)
      /\ \A i \in 1 .. Len(conns) : t[i] = IF conns[i].id = conn.id THEN conn ELSE conns[i]
  BY ReplacedIs
<1> HIDE DEF t
<1>2. /\ a \in Seq(Int) /\ Len(a) = Len(conns)
      /\ \A i \in 1 .. Len(conns) : a[i] = f[conns[i]]
  BY ValuesAre
<1>3. b \in Seq(Int) /\ Len(b) = Len(t) /\ \A i \in 1 .. Len(t) : b[i] = f[t[i]]
  BY <1>1, ValuesAre
<1> HIDE DEF a, b
<1>4. \A i \in 1 .. Len(conns) : i # p => conns[i].id # conn.id
  <2>1. Len(conns) \in Nat /\ 1 \in 1 .. Len(conns)
    OBVIOUS
  <2>2. conns[1] \in Slots
    BY <2>1
  <2>3. conns[1].id \in Int
    BY <2>2, RegisterAssumption DEF Slots
  <2>4. \A i \in 1 .. Len(conns) : conns[i].id = conns[1].id + i - 1
    BY DEF InOrder
  <2>5. conns[p].id = conns[1].id + p - 1
    BY <2>4
  <2> QED BY <2>1, <2>3, <2>4, <2>5
<1>5. ASSUME NEW i \in 1 .. Len(a), i # p PROVE b[i] = a[i]
  <2>1. i \in 1 .. Len(conns) /\ i \in 1 .. Len(t)
    BY <1>1, <1>2
  <2>2. t[i] = conns[i]
    BY <1>1, <1>4, <1>5, <2>1
  <2> QED BY <1>2, <1>3, <2>1, <2>2
<1>6. b[p] = f[conn] /\ a[p] = f[conns[p]]
  BY <1>1, <1>2, <1>3
<1>7. Total(b) = Total(a) + b[p] - a[p]
  BY <1>1, <1>2, <1>3, <1>5, TotalReplace
<1> QED
  BY <1>6, <1>7 DEF SumOf, a, b, t
-----------------------------------------------------------------------------
(* The last Size of a sequence.                                             *)
LEMMA LastOfIs ==
  ASSUME NEW S, NEW s \in Seq(S)
  PROVE  LET d == IF Len(s) > Size THEN Len(s) - Size ELSE 0
         IN  /\ LastOf(s) \in Seq(S) /\ d \in Nat
             /\ Len(LastOf(s)) = Len(s) - d /\ Len(LastOf(s)) \in 0 .. Size
             /\ \A i \in 1 .. (Len(s) - d) : LastOf(s)[i] = s[i + d]
<1> DEFINE d == IF Len(s) > Size THEN Len(s) - Size ELSE 0
<1>1. Len(s) \in Nat /\ Size \in Nat
  BY RegisterAssumption
<1>2. Max({Len(s) - Size, 0}) = d
  <2>1. Len(s) - Size \in Int /\ 0 \in Int
    BY <1>1
  <2>2. Max({Len(s) - Size, 0}) = IF Len(s) - Size >= 0 THEN Len(s) - Size ELSE 0
    BY <2>1, MaxOfTwo
  <2> QED BY <1>1, <2>2
<1>3. d \in 0 .. Len(s) /\ Len(s) - d \in 0 .. Size
  BY <1>1
<1> HIDE DEF d
<1>4. LastOf(s) = SubSeq(s, d + 1, Len(s))
  BY <1>2 DEF LastOf
<1>5. /\ SubSeq(s, d + 1, Len(s)) \in Seq(S)
      /\ Len(SubSeq(s, d + 1, Len(s))) = Len(s) - d
      /\ \A i \in 1 .. (Len(s) - d) : SubSeq(s, d + 1, Len(s))[i] = s[i + d]
  <2>1. d + 1 \in Int /\ Len(s) \in Int
    BY <1>1, <1>3
  <2>2. \A i \in (d + 1) .. Len(s) : s[i] \in S
    <3>1. \A i \in 1 .. Len(s) : s[i] \in S
      OBVIOUS
    <3> QED BY <1>1, <1>3, <3>1
  <2>3. /\ SubSeq(s, d + 1, Len(s)) \in Seq(S)
        /\ Len(SubSeq(s, d + 1, Len(s))) = IF d + 1 <= Len(s) THEN Len(s) - (d + 1) + 1 ELSE 0
        /\ \A i \in 1 .. (Len(s) - (d + 1) + 1) :
             SubSeq(s, d + 1, Len(s))[i] = s[d + 1 + i - 1]
    BY <2>1, <2>2, SubSeqProperties
  <2>4. Len(s) - (d + 1) + 1 = Len(s) - d
    BY <1>1, <1>3
  <2>5. (IF d + 1 <= Len(s) THEN Len(s) - d ELSE 0) = Len(s) - d
    BY <1>1, <1>3
  <2>6. ASSUME NEW i \in 1 .. (Len(s) - d) PROVE SubSeq(s, d + 1, Len(s))[i] = s[i + d]
    <3>1. d + 1 + i - 1 = i + d
      BY <1>3
    <3> QED BY <2>3, <2>4, <3>1
  <2> QED BY <2>3, <2>4, <2>5, <2>6
<1> QED
  BY <1>3, <1>4, <1>5 DEF d

LEMMA PushedLast ==
  ASSUME NEW s \in Seq(Slots), NEW conn \in Slots
  PROVE  Pushed(LastOf(s), conn) = LastOf(Append(s, conn))
<1> DEFINE d == IF Len(s) > Size THEN Len(s) - Size ELSE 0
           l == LastOf(s)
           t == Append(s, conn)
           e == IF Len(t) > Size THEN Len(t) - Size ELSE 0
           m == LastOf(t)
           p == Pushed(l, conn)
<1>1. /\ t \in Seq(Slots) /\ Len(t) = Len(s) + 1 /\ t[Len(s) + 1] = conn
      /\ \A i \in 1 .. Len(s) : t[i] = s[i]
      /\ Len(s) \in Nat /\ Size \in Nat \ {0}
  BY RegisterAssumption
<1>2. /\ l \in Seq(Slots) /\ Len(l) = Len(s) - d /\ \A i \in 1 .. (Len(s) - d) : l[i] = s[i + d]
  BY LastOfIs
<1> HIDE DEF t
<1>3. /\ m \in Seq(Slots) /\ Len(m) = Len(t) - e /\ \A i \in 1 .. (Len(t) - e) : m[i] = t[i + e]
  BY <1>1, LastOfIs
<1> HIDE DEF l, m
<1>4. CASE Len(s) < Size
  <2>1. d = 0 /\ e = 0
    BY <1>1, <1>4
  <2>2. p = Append(l, conn)
    BY <1>1, <1>2, <1>4, <2>1 DEF Pushed
  <2> HIDE DEF p, d, e
  <2>3. /\ p \in Seq(Slots) /\ Len(p) = Len(l) + 1 /\ p[Len(l) + 1] = conn
        /\ \A i \in 1 .. Len(l) : p[i] = l[i]
    BY <1>2, <2>2
  <2>4. Len(l) = Len(s) /\ Len(p) = Len(m) /\ Len(m) = Len(s) + 1
    BY <1>1, <1>2, <1>3, <2>1, <2>3
  <2>5. ASSUME NEW i \in 1 .. Len(p) PROVE p[i] = m[i]
    <3>1. m[i] = t[i]
      BY <1>1, <1>3, <2>1, <2>4
    <3>2. CASE i = Len(s) + 1
      BY <1>1, <2>3, <2>4, <3>1, <3>2
    <3>3. CASE i \in 1 .. Len(s)
      <4>1. p[i] = l[i] /\ l[i] = s[i]
        BY <1>1, <1>2, <2>1, <2>3, <2>4, <3>3
      <4> QED BY <1>1, <3>1, <3>3, <4>1
    <3> QED BY <1>1, <2>4, <3>2, <3>3
  <2>6. p = m
    BY <1>3, <2>3, <2>4, <2>5, SeqEqual
  <2> QED BY <2>6 DEF p, l, m, t
<1>5. CASE Len(s) >= Size
  <2>1. d = Len(s) - Size /\ e = d + 1 /\ Len(s) - d = Size /\ Len(t) - e = Size /\ d \in Nat
    BY <1>1, <1>5
  <2> DEFINE a == Append(l, conn)
  <2>2. p = Tail(a)
    BY <1>1, <1>2, <2>1 DEF Pushed
  <2>3. /\ a \in Seq(Slots) /\ Len(a) = Len(l) + 1 /\ a[Len(l) + 1] = conn
        /\ \A i \in 1 .. Len(l) : a[i] = l[i]
    BY <1>2
  <2> HIDE DEF p, d, e, a
  <2>4. Len(l) = Size /\ Len(m) = Size /\ Len(a) = Size + 1
    BY <1>2, <1>3, <2>1, <2>3
  <2>5. p \in Seq(Slots) /\ Len(p) = Size /\ \A i \in 1 .. Size : p[i] = a[i + 1]
    <3>1. a # << >> /\ a \in Seq(Slots)
      BY <1>1, <2>3, <2>4
    <3>2. /\ Tail(a) \in Seq(Slots) /\ Len(Tail(a)) = Len(a) - 1
          /\ \A i \in 1 .. Len(Tail(a)) : Tail(a)[i] = a[i + 1]
      BY <3>1, HeadTailProperties
    <3> QED BY <1>1, <2>2, <2>4, <3>2
  <2>6. ASSUME NEW i \in 1 .. Len(p) PROVE p[i] = m[i]
    <3>1. i \in 1 .. Size /\ p[i] = a[i + 1]
      BY <2>5
    <3>2. m[i] = t[i + d + 1]
      <4>1. m[i] = t[i + e]
        BY <1>3, <2>1, <3>1
      <4>2. i + e = i + d + 1
        BY <2>1, <3>1
      <4> QED BY <4>1, <4>2
    <3>3. CASE i = Size
      <4>1. i + d + 1 = Len(s) + 1
        BY <1>1, <2>1, <3>3
      <4> QED BY <1>1, <2>3, <2>4, <3>1, <3>2, <3>3, <4>1
    <3>4. CASE i \in 1 .. (Size - 1)
      <4>1. i + 1 \in 1 .. Size /\ (i + 1) + d = i + d + 1 /\ i + d + 1 \in 1 .. Len(s)
        BY <1>1, <2>1, <3>4
      <4>2. a[i + 1] = l[i + 1] /\ l[i + 1] = s[(i + 1) + d]
        BY <1>2, <2>1, <2>3, <2>4, <4>1
      <4>3. t[i + d + 1] = s[i + d + 1]
        BY <1>1, <4>1
      <4> QED BY <3>1, <3>2, <4>1, <4>2, <4>3
    <3> QED BY <1>1, <3>1, <3>3, <3>4
  <2>7. Len(p) = Len(m)
    BY <2>4, <2>5
  <2>8. p = m
    BY <1>3, <2>5, <2>6, <2>7, SeqEqual
  <2> QED BY <2>8 DEF p, l, m, t
<1> QED
  BY <1>1, <1>4, <1>5
-----------------------------------------------------------------------------
(* The counters that sum over connections, and what a connection adds.      *)
Counters ==
  [kind: {"malicious", "blocked"}]
    \cup [kind: {"bytes", "numBlocked", "numConnections"}, uid: Uids]

Count(r, n) ==
  CASE n.kind = "malicious" -> r.mNumMalicious
    [] n.kind = "blocked" -> r.mNumBlocked
    [] n.kind = "bytes" -> r.mAppsStats[n.uid].bytes
    [] n.kind = "numBlocked" -> r.mAppsStats[n.uid].numBlocked
    [] n.kind = "numConnections" -> r.mAppsStats[n.uid].numConnections

Adding(n, c) ==
  CASE n.kind = "malicious" -> Bit(c.alerted)
    [] n.kind = "blocked" -> Bit(c.block_accounted)
    [] n.kind = "bytes" -> OfUid(n.uid, c, c.bytes)
    [] n.kind = "numBlocked" -> OfUid(n.uid, c, Bit(c.block_accounted))
    [] n.kind = "numConnections" -> OfUid(n.uid, c, 1)

Measure(n) == [c \in Slots |-> Adding(n, c)]

LEMMA MeasureIs ==
  ASSUME NEW n \in Counters
  PROVE  /\ Measure(n) \in Measures
         /\ \A c \in Slots : Measure(n)[c] = Adding(n, c) /\ Adding(n, c) \in Nat
<1> SUFFICES ASSUME NEW c \in Slots PROVE Adding(n, c) \in Nat
  BY DEF Measure, Measures
<1>1. Bit(c.alerted) \in Nat /\ Bit(c.block_accounted) \in Nat /\ c.bytes \in Nat
  BY BitIs, RegisterAssumption DEF Slots
<1>2. /\ OfUid(n.uid, c, c.bytes) \in Nat /\ OfUid(n.uid, c, 1) \in Nat
      /\ OfUid(n.uid, c, Bit(c.block_accounted)) \in Nat
  BY <1>1 DEF OfUid
<1>3. n.kind \in {"malicious", "blocked", "bytes", "numBlocked", "numConnections"}
  BY DEF Counters
<1> QED
  BY <1>1, <1>2, <1>3 DEF Adding

LEMMA CountIs ==
  ASSUME NEW r \in Registers, NEW n \in Counters
  PROVE  Count(r, n) \in Int
<1>1. n.kind \in {"malicious", "blocked"} \/
      (n.kind \in {"bytes", "numBlocked", "numConnections"} /\ n.uid \in Uids)
  BY DEF Counters
<1>2. r.mNumMalicious \in Int /\ r.mNumBlocked \in Int /\ r.mAppsStats \in [Uids -> Stats]
  BY DEF Registers, Stats
<1> QED
  BY <1>1, <1>2 DEF Count, Stats

LEMMA PutCounts ==
  ASSUME NEW r \in Registers, NEW after, NEW pos, NEW conn \in Slots, NEW old \in Slots,
         NEW more \in {0, 1}, Put(r, after, pos, conn, old, more),
         more = 1 => old = NoItem, more = 0 => old.id = conn.id, NEW n \in Counters
  PROVE  Count(after, n) = Count(r, n) + Measure(n)[conn]
                             - (IF more = 1 THEN 0 ELSE Measure(n)[old])
<1> DEFINE u == Uid[conn.id]
           s == r.mAppsStats[u]
           one == [numConnections |-> s.numConnections + more,
                   bytes |-> s.bytes + conn.bytes - old.bytes,
                   numBlocked |-> s.numBlocked + (Bit(conn.block_accounted)
                                                    - Bit(old.block_accounted))]
<1>1. /\ Bit(conn.alerted) \in Int /\ Bit(conn.block_accounted) \in Int /\ conn.bytes \in Int
      /\ Bit(old.alerted) \in Int /\ Bit(old.block_accounted) \in Int /\ old.bytes \in Int
  BY BitIs, RegisterAssumption DEF Slots
<1>2. more = 1 => Bit(old.alerted) = 0 /\ Bit(old.block_accounted) = 0 /\ old.bytes = 0
  BY DEF NoItem, Bit
<1>3. /\ after.mNumMalicious = r.mNumMalicious + Bit(conn.alerted) - Bit(old.alerted)
      /\ after.mNumBlocked = r.mNumBlocked + (Bit(conn.block_accounted) - Bit(old.block_accounted))
      /\ after.mAppsStats = [r.mAppsStats EXCEPT ![u] = one]
  BY DEF Put
<1>4. u \in Uids /\ r.mAppsStats \in [Uids -> Stats] /\ r.mNumMalicious \in Int /\ r.mNumBlocked \in Int
  BY DEF Put, Registers, Stats
<1>5. Measure(n)[conn] = Adding(n, conn) /\ Measure(n)[old] = Adding(n, old)
  BY MeasureIs
<1> SUFFICES Count(after, n) = Count(r, n) + Adding(n, conn) - (IF more = 1 THEN 0 ELSE Adding(n, old))
  BY <1>5
<1>6. CASE n.kind = "malicious"
  BY <1>1, <1>2, <1>3, <1>4, <1>6 DEF Count, Adding
<1>7. CASE n.kind = "blocked"
  BY <1>1, <1>2, <1>3, <1>4, <1>7 DEF Count, Adding
<1>8. CASE n.kind \in {"bytes", "numBlocked", "numConnections"} /\ n.uid # u
  <2>1. n.uid \in Uids
    BY <1>8 DEF Counters
  <2>2. after.mAppsStats[n.uid] = r.mAppsStats[n.uid] /\ r.mAppsStats[n.uid] \in Stats
    <3> HIDE DEF u, one
    <3> QED BY <1>3, <1>4, <1>8, <2>1
  <2>3. Adding(n, conn) = 0
    BY <1>8 DEF Adding, OfUid
  <2>4. more = 0 => Adding(n, old) = 0
    <3>1. more = 0 => Uid[old.id] = u
      OBVIOUS
    <3> QED BY <1>8, <3>1 DEF Adding, OfUid
  <2>5. Count(after, n) = Count(r, n) /\ Count(r, n) \in Int
    BY <1>8, <2>2 DEF Count, Stats
  <2> QED BY <2>3, <2>4, <2>5
<1>9. CASE n.kind \in {"bytes", "numBlocked", "numConnections"} /\ n.uid = u
  <2>1. s \in Stats /\ after.mAppsStats[u] = one
    <3> HIDE DEF u, one
    <3> QED BY <1>3, <1>4
  <2>2. more = 0 => Uid[old.id] = u
    OBVIOUS
  <2>3. /\ s.numConnections \in Int /\ s.bytes \in Int /\ s.numBlocked \in Int
        /\ one.numConnections = s.numConnections + more
        /\ one.bytes = s.bytes + conn.bytes - old.bytes
        /\ one.numBlocked = s.numBlocked + (Bit(conn.block_accounted) - Bit(old.block_accounted))
    BY <2>1 DEF Stats
  <2>4. OfUid(u, conn, conn.bytes) = conn.bytes /\ OfUid(u, conn, 1) = 1
        /\ OfUid(u, conn, Bit(conn.block_accounted)) = Bit(conn.block_accounted)
    BY DEF OfUid
  <2>5. more = 0 => OfUid(u, old, old.bytes) = old.bytes /\ OfUid(u, old, 1) = 1
                /\ OfUid(u, old, Bit(old.block_accounted)) = Bit(old.block_accounted)
    BY <2>2 DEF OfUid
  <2> HIDE DEF u, s, one
  <2>6. CASE n.kind = "bytes"
    BY <1>1, <1>2, <1>9, <2>1, <2>3, <2>4, <2>5, <2>6 DEF Count, Adding, s
  <2>7. CASE n.kind = "numBlocked"
    BY <1>1, <1>2, <1>9, <2>1, <2>3, <2>4, <2>5, <2>7 DEF Count, Adding, s
  <2>8. CASE n.kind = "numConnections"
    BY <1>1, <1>2, <1>9, <2>1, <2>3, <2>4, <2>5, <2>8 DEF Count, Adding, s
  <2> QED BY <1>9, <2>6, <2>7, <2>8
<1>10. n.kind \in {"malicious", "blocked", "bytes", "numBlocked", "numConnections"}
  BY DEF Counters
<1> QED
  BY <1>6, <1>7, <1>8, <1>9, <1>10
LEMMA AddCounts ==
  ASSUME NEW r, Shape(r), NEW item \in Items, NEW n \in Counters
  PROVE  Count(add(r, item), n) = Count(r, n) + Measure(n)[Conn(item)]
<1> DEFINE conn == Conn(item)
           p == put(r, r.mTail, conn, TRUE)
           after == [p EXCEPT !.mTail = (r.mTail + 1) % Size,
                              !.mCurItems = Min({r.mCurItems + 1, Size})]
<1>1. conn \in Slots /\ conn.id >= 0 /\ r \in Registers /\ r.mTail \in 0 .. (Size - 1)
  BY ConnIs DEF Shape, Registers
<1>2. add(r, item) = after
  BY DEF add
<1> HIDE DEF conn
<1>3. Put(r, p, r.mTail, conn, NoItem, 1)
  <2>1. Put(r, p, r.mTail, conn, NoItem, Bit(TRUE)) /\ Bit(TRUE) = 1
    BY <1>1, PutIs DEF Bit
  <2> QED BY <2>1
<1> HIDE DEF p
<1>4. /\ after.mNumMalicious = p.mNumMalicious /\ after.mNumBlocked = p.mNumBlocked
      /\ after.mAppsStats = p.mAppsStats
  BY <1>3 DEF Put, Registers
<1>5. Count(after, n) = Count(p, n)
  BY <1>4 DEF Count
<1>6. Count(p, n) = Count(r, n) + Measure(n)[conn] - 0
  BY <1>1, <1>3, NoItemIs, PutCounts
<1>7. Count(r, n) \in Int /\ Measure(n)[conn] \in Int
  BY <1>1, CountIs, MeasureIs
<1> QED
  BY <1>2, <1>5, <1>6, <1>7 DEF conn

-----------------------------------------------------------------------------
(* The connections of the first items.                                      *)
NewConns(items, k) == [i \in 1 .. k |-> Conn(items[i])]

(* mMaxBytes is the most of the connections.                                *)
Bounds(most, conns) == \A i \in 1 .. Len(conns) : conns[i].bytes <= most
Occurs(most, conns) == \E i \in 1 .. Len(conns) : conns[i].bytes = most

IsMost(most, conns) == Bounds(most, conns) /\ (most = 0 \/ Occurs(most, conns))

LEMMA NewConnsAre ==
  ASSUME NEW items \in Seq(Items), NEW k \in 0 .. Len(items)
  PROVE  /\ NewConns(items, k) \in Seq(Slots) /\ Len(NewConns(items, k)) = k
         /\ \A i \in 1 .. k : NewConns(items, k)[i] = Conn(items[i])
<1>1. \A i \in 1 .. k : items[i] \in Items
  OBVIOUS
<1>2. \A i \in 1 .. k : Conn(items[i]) \in Slots
  BY <1>1, ConnIs
<1>3. NewConns(items, k) \in [1 .. k -> Slots] /\ k \in Nat
  BY <1>2 DEF NewConns
<1> QED
  BY <1>3 DEF NewConns

LEMMA NewConnsGrow ==
  ASSUME NEW items \in Seq(Items), NEW k \in 0 .. (Len(items) - 1)
  PROVE  NewConns(items, k + 1) = Append(NewConns(items, k), Conn(items[k + 1]))
<1> DEFINE a == NewConns(items, k)
           c == Conn(items[k + 1])
           b == NewConns(items, k + 1)
<1>1. items[k + 1] \in Items /\ k \in 0 .. Len(items) /\ k + 1 \in 0 .. Len(items)
  OBVIOUS
<1>2. /\ a \in Seq(Slots) /\ Len(a) = k /\ \A i \in 1 .. k : a[i] = Conn(items[i])
      /\ b \in Seq(Slots) /\ Len(b) = k + 1 /\ \A i \in 1 .. (k + 1) : b[i] = Conn(items[i])
      /\ c \in Slots
  BY <1>1, NewConnsAre, ConnIs
<1> HIDE DEF a, b
<1>3. /\ Append(a, c) \in Seq(Slots) /\ Len(Append(a, c)) = k + 1 /\ Append(a, c)[k + 1] = c
      /\ \A i \in 1 .. k : Append(a, c)[i] = a[i]
  <2> HIDE DEF c
  <2> QED BY <1>2
<1>4. ASSUME NEW i \in 1 .. (k + 1) PROVE b[i] = Append(a, c)[i]
  <2>1. b[i] = Conn(items[i]) /\ (i = k + 1 \/ i \in 1 .. k)
    BY <1>2
  <2> QED BY <1>2, <1>3, <2>1
<1>5. b = Append(a, c)
  <2> HIDE DEF c
  <2> QED BY <1>2, <1>3, <1>4, SeqEqual
<1> QED
  BY <1>5 DEF a, b
(* What addAll has done after k items.                                      *)
Added(r, items, k, after) ==
  LET new == NewConns(items, k)
  IN  /\ Shape(after)
      /\ Conns(after) = LastOf(Conns(r) \o new)
      /\ after.mUntrackedItems = r.mUntrackedItems
      /\ \A n \in Counters : Count(after, n) = Count(r, n) + SumOf(Measure(n), new)
      /\ r.mMaxBytes <= after.mMaxBytes
      /\ \A i \in 1 .. k : new[i].bytes <= after.mMaxBytes
      /\ after.mMaxBytes = r.mMaxBytes \/ \E i \in 1 .. k : new[i].bytes = after.mMaxBytes

LEMMA SumOfOne ==
  ASSUME NEW f \in Measures
  PROVE  SumOf(f, <<>>) = 0 /\ \A c \in Slots : SumOf(f, <<c>>) = f[c]
<1>1. SumOf(f, <<>>) = 0
  <2> DEFINE v == [i \in DOMAIN <<>> |-> f[<<>>[i]]]
  <2>1. v = <<>>
    OBVIOUS
  <2> HIDE DEF v
  <2>2. Total(v) = 0
    BY <2>1, TotalOne
  <2> QED BY <2>2 DEF SumOf, v
<1>2. ASSUME NEW c \in Slots PROVE SumOf(f, <<c>>) = f[c]
  <2> DEFINE s == <<c>>
             v == [i \in DOMAIN s |-> f[s[i]]]
  <2>1. s \in Seq(Slots) /\ Len(s) = 1 /\ s[1] = c
    OBVIOUS
  <2> HIDE DEF s
  <2>2. v \in Seq(Nat) /\ Len(v) = 1 /\ v[1] = f[c]
    <3>1. v \in Seq(Nat) /\ Len(v) = Len(s) /\ \A i \in 1 .. Len(s) : v[i] = f[s[i]]
      BY <2>1, ValuesAre
    <3> QED BY <2>1, <3>1
  <2> HIDE DEF v
  <2>3. f[c] \in Nat
    BY DEF Measures
  <2>4. v = <<f[c]>>
    BY <2>2, <2>3
  <2>5. Total(v) = f[c]
    BY <2>3, <2>4, TotalOne
  <2> QED BY <2>5 DEF SumOf, v, s
<1> QED
  BY <1>1, <1>2

LEMMA AppendConcat ==
  ASSUME NEW s \in Seq(Slots), NEW t \in Seq(Slots), NEW c \in Slots
  PROVE  Append(s \o t, c) = s \o Append(t, c)
<1>1. s \o t \in Seq(Slots) /\ <<c>> \in Seq(Slots)
  OBVIOUS
<1>2. Append(s \o t, c) = (s \o t) \o <<c>> /\ Append(t, c) = t \o <<c>>
  BY <1>1, AppendIsConcat
<1> QED
  BY <1>1, <1>2, ConcatAssociative

LEMMA SumOfAppend ==
  ASSUME NEW f \in Measures, NEW s \in Seq(Slots), NEW c \in Slots
  PROVE  SumOf(f, Append(s, c)) = SumOf(f, s) + f[c]
<1>1. Append(s, c) = s \o <<c>> /\ <<c>> \in Seq(Slots)
  OBVIOUS
<1>2. SumOf(f, s \o <<c>>) = SumOf(f, s) + SumOf(f, <<c>>)
  BY <1>1, SumOfConcat
<1>3. SumOf(f, <<c>>) = f[c]
  BY SumOfOne
<1> QED
  BY <1>1, <1>2, <1>3

LEMMA LastOfShort ==
  ASSUME NEW S, NEW s \in Seq(S), Len(s) <= Size
  PROVE  LastOf(s) = s
<1>1. Len(s) \in Nat /\ Size \in Nat
  BY RegisterAssumption
<1>2. /\ LastOf(s) \in Seq(S) /\ Len(LastOf(s)) = Len(s) - 0
      /\ \A i \in 1 .. (Len(s) - 0) : LastOf(s)[i] = s[i + 0]
  BY <1>1, LastOfIs
<1>3. \A i \in 1 .. Len(LastOf(s)) : LastOf(s)[i] = s[i]
  BY <1>1, <1>2
<1>4. Len(LastOf(s)) = Len(s)
  BY <1>1, <1>2
<1> QED
  BY <1>2, <1>3, <1>4, SeqEqual

LEMMA AddedStart ==
  ASSUME NEW r, Shape(r), NEW items \in Seq(Items)
  PROVE  Added(r, items, 0, r)
<1>1. NewConns(items, 0) = <<>>
  BY DEF NewConns
<1>2. Conns(r) \in Seq(Slots) /\ Len(Conns(r)) <= Size
  BY ConnsAre, RegisterAssumption
<1>3. LastOf(Conns(r) \o <<>>) = Conns(r)
  <2>1. Conns(r) \o <<>> = Conns(r)
    BY <1>2
  <2> QED BY <1>2, <2>1, LastOfShort
<1>4. ASSUME NEW n \in Counters PROVE Count(r, n) = Count(r, n) + SumOf(Measure(n), <<>>)
  <2>1. Count(r, n) \in Int /\ SumOf(Measure(n), <<>>) = 0
    BY CountIs, MeasureIs, SumOfOne DEF Shape
  <2> QED BY <2>1
<1>5. r.mMaxBytes \in Nat
  BY DEF Shape, Registers
<1> QED
  <2> DEFINE new == NewConns(items, 0)
  <2>1. \A i \in 1 .. 0 : new[i].bytes <= r.mMaxBytes
    OBVIOUS
  <2>2. \A n \in Counters : Count(r, n) = Count(r, n) + SumOf(Measure(n), new)
    BY <1>1, <1>4
  <2>3. Conns(r) = LastOf(Conns(r) \o new)
    BY <1>1, <1>3
  <2>4. r.mMaxBytes <= r.mMaxBytes
    BY <1>5
  <2> HIDE DEF new
  <2> QED BY <2>1, <2>2, <2>3, <2>4 DEF Added, new

LEMMA AddedNext ==
  ASSUME NEW r, Shape(r), NEW items \in Seq(Items), NEW k \in 0 .. (Len(items) - 1),
         NEW before, Added(r, items, k, before)
  PROVE  Added(r, items, k + 1, add(before, items[k + 1]))
<1> DEFINE item == items[k + 1]
           conn == Conn(item)
           new == NewConns(items, k)
           next == NewConns(items, k + 1)
           after == add(before, item)
           all == Conns(r) \o new
<1>1. item \in Items /\ k \in 0 .. Len(items) /\ k + 1 \in 0 .. Len(items)
  OBVIOUS
<1> HIDE DEF item
<1>2. conn \in Slots
  BY <1>1, ConnIs
<1>3. new \in Seq(Slots) /\ Len(new) = k
  BY <1>1, NewConnsAre
<1>4. next = Append(new, conn)
  BY NewConnsGrow DEF item
<1>5. /\ Shape(before) /\ Conns(before) = LastOf(all)
      /\ before.mUntrackedItems = r.mUntrackedItems
      /\ \A n \in Counters : Count(before, n) = Count(r, n) + SumOf(Measure(n), new)
      /\ r.mMaxBytes <= before.mMaxBytes
      /\ \A i \in 1 .. k : new[i].bytes <= before.mMaxBytes
      /\ before.mMaxBytes = r.mMaxBytes \/ \E i \in 1 .. k : new[i].bytes = before.mMaxBytes
  BY DEF Added
<1>6. /\ Shape(after) /\ Conns(after) = Pushed(Conns(before), conn)
      /\ after.mUntrackedItems = before.mUntrackedItems
      /\ after.mMaxBytes = IF before.mMaxBytes >= conn.bytes THEN before.mMaxBytes ELSE conn.bytes
  BY <1>1, <1>5, AddIs
<1>7. \A n \in Counters : Count(after, n) = Count(before, n) + Measure(n)[conn]
  BY <1>1, <1>5, AddCounts
<1> HIDE DEF conn, new, next, after
<1>8. Conns(after) = LastOf(Conns(r) \o next)
  <2>1. Conns(r) \in Seq(Slots)
    BY ConnsAre
  <2>2. all \in Seq(Slots)
    BY <1>3, <2>1
  <2>20. Append(all, conn) = Conns(r) \o next
    BY <1>2, <1>3, <1>4, <2>1, AppendConcat
  <2> HIDE DEF all
  <2>3. Pushed(LastOf(all), conn) = LastOf(Append(all, conn))
    BY <1>2, <2>2, PushedLast
  <2> QED BY <1>5, <1>6, <2>20, <2>3
<1>9. ASSUME NEW n \in Counters
      PROVE  Count(after, n) = Count(r, n) + SumOf(Measure(n), next)
  <2>1. Measure(n) \in Measures /\ Measure(n)[conn] \in Nat
    BY <1>2, MeasureIs DEF Measures
  <2>2. SumOf(Measure(n), next) = SumOf(Measure(n), new) + Measure(n)[conn]
    BY <1>2, <1>3, <1>4, <2>1, SumOfAppend
  <2>3. SumOf(Measure(n), new) \in Nat
    BY <1>3, <2>1, SumOfTyped
  <2>4. Count(r, n) \in Int
    BY CountIs DEF Shape
  <2> QED BY <1>5, <1>7, <2>1, <2>2, <2>3, <2>4
<1>10. /\ \A i \in 1 .. k : next[i] = new[i]
       /\ next[k + 1] = conn
  BY <1>2, <1>3, <1>4
<1>11. /\ r.mMaxBytes \in Nat /\ before.mMaxBytes \in Nat /\ conn.bytes \in Nat
       /\ \A i \in 1 .. k : new[i].bytes \in Nat
  <2>1. \A i \in 1 .. k : new[i] \in Slots
    BY <1>3
  <2>2. \A c \in Slots : c.bytes \in Nat
    BY RegisterAssumption DEF Slots
  <2>3. r.mMaxBytes \in Nat /\ before.mMaxBytes \in Nat
    BY <1>5 DEF Shape, Registers
  <2> QED BY <1>2, <2>1, <2>2, <2>3
<1>12. /\ r.mMaxBytes <= after.mMaxBytes
       /\ before.mMaxBytes <= after.mMaxBytes /\ conn.bytes <= after.mMaxBytes
       /\ after.mMaxBytes = before.mMaxBytes \/ after.mMaxBytes = conn.bytes
       /\ after.mMaxBytes \in Nat
  BY <1>5, <1>6, <1>11
<1>13. \A i \in 1 .. (k + 1) : i = k + 1 \/ i \in 1 .. k
  OBVIOUS
<1>14. ASSUME NEW i \in 1 .. (k + 1) PROVE next[i].bytes <= after.mMaxBytes
  <2>1. CASE i = k + 1
    BY <1>10, <1>12, <2>1
  <2>2. CASE i \in 1 .. k
    BY <1>5, <1>10, <1>11, <1>12, <2>2
  <2> QED BY <1>13, <2>1, <2>2
<1>15. after.mMaxBytes = r.mMaxBytes \/ \E i \in 1 .. (k + 1) : next[i].bytes = after.mMaxBytes
  <2>1. CASE after.mMaxBytes = conn.bytes
    <3>1. k + 1 \in 1 .. (k + 1)
      OBVIOUS
    <3> QED BY <1>10, <2>1, <3>1
  <2>2. CASE after.mMaxBytes = before.mMaxBytes
    <3>1. \A i \in 1 .. k : i \in 1 .. (k + 1)
      OBVIOUS
    <3> QED BY <1>5, <1>10, <2>2, <3>1
  <2> QED BY <1>12, <2>1, <2>2
<1>16. after.mUntrackedItems = r.mUntrackedItems
  BY <1>5, <1>6
<1>17. Added(r, items, k + 1, after)
  BY <1>6, <1>8, <1>9, <1>12, <1>14, <1>15, <1>16 DEF Added, next
<1> QED
  BY <1>17 DEF after, item

LEMMA AddAllDoes ==
  ASSUME NEW r, Shape(r), NEW items \in Seq(Items)
  PROVE  Added(r, items, Len(items), addAll(r, items))
<1>1. Len(items) \in Nat
  OBVIOUS
<1>2. PICK after :
        /\ addAll(r, items) = after[Len(items)]
        /\ after[0] = r
        /\ \A k \in 1 .. Len(items) : after[k] = add(after[k - 1], items[k])
  BY <1>1, AddAllIs
<1> DEFINE T == {k \in Nat : Added(r, items, k, after[k])}
<1>3. 0 \in T
  BY <1>2, AddedStart
<1>4. ASSUME NEW k \in 0 .. (Len(items) - 1), k \in T PROVE k + 1 \in T
  <2>1. Added(r, items, k + 1, add(after[k], items[k + 1]))
    BY <1>4, AddedNext
  <2>2. k + 1 \in 1 .. Len(items) /\ (k + 1) - 1 = k
    BY <1>1
  <2>3. after[k + 1] = add(after[k], items[k + 1])
    BY <1>2, <2>2
  <2> QED BY <2>1, <2>3
<1>5. Len(items) \in T
  <2> HIDE DEF T
  <2>1. \A k \in 0 .. Len(items) : k \in T
    BY <1>1, <1>3, <1>4, UpTo
  <2> QED BY <1>1, <2>1
<1> QED
  BY <1>2, <1>5
-----------------------------------------------------------------------------
(* The greatest of a bounded set, and of the traffic of the connections.    *)
LEMMA MaxIs ==
  ASSUME NEW B \in Nat, NEW S \in SUBSET (0 .. B), S # {}
  PROVE  Max(S) \in S /\ \A x \in S : x <= Max(S)
<1> DEFINE T == {B - x : x \in S}
<1>0. \A x \in S : x \in 0 .. B
  OBVIOUS
<1>1. T \in SUBSET Nat /\ T # {}
  <2>1. \A x \in S : B - x \in Nat
    BY <1>0
  <2> QED BY <2>1
<1>2. PICK t \in T : \A y \in T : t <= y
  <2> HIDE DEF T
  <2> QED BY <1>1, Least
<1>3. PICK m \in S : t = B - m
  BY <1>2
<1>4. \A x \in S : m >= x
  <2> SUFFICES ASSUME NEW x \in S PROVE m >= x
    OBVIOUS
  <2>1. B - m <= B - x
    BY <1>2, <1>3
  <2>2. m \in Int /\ x \in Int
    OBVIOUS
  <2> QED BY <2>1, <2>2
<1> DEFINE P(x) == \A y \in S : x >= y
<1>5. \E x \in S : P(x)
  BY <1>4
<1>6. Max(S) = CHOOSE x \in S : P(x)
  BY DEF Max
<1>7. Max(S) \in S /\ P(Max(S))
  <2> HIDE DEF P
  <2> QED BY <1>5, <1>6
<1> QED
  BY <1>7

(* IsMost determines its number, which MaxBytesShown calls a maximum.       *)
LEMMA MostIs ==
  ASSUME NEW conns \in Seq(Slots), NEW most \in Nat
  PROVE  IsMost(most, conns) <=> most = Max({0} \cup {c.bytes : c \in Range(conns)})
<1> DEFINE S == {0} \cup {c.bytes : c \in Range(conns)}
<1>1. /\ DOMAIN conns = 1 .. Len(conns)
      /\ \A i \in 1 .. Len(conns) : conns[i] \in Slots
  OBVIOUS
<1>2. \A x : x \in S <=> x = 0 \/ \E i \in 1 .. Len(conns) : x = conns[i].bytes
  BY <1>1 DEF Range
<1>3. \A i \in 1 .. Len(conns) : conns[i].bytes \in 0 .. MaxBytes
  BY <1>1 DEF Slots
<1> HIDE DEF S
<1>4. S \in SUBSET (0 .. MaxBytes) /\ S # {} /\ MaxBytes \in Nat
  <2>1. MaxBytes \in Nat /\ 0 \in 0 .. MaxBytes
    BY RegisterAssumption
  <2>2. \A x \in S : x \in 0 .. MaxBytes
    BY <1>2, <1>3, <2>1
  <2>3. 0 \in S
    BY <1>2
  <2> QED BY <2>1, <2>2, <2>3
<1>5. Max(S) \in S /\ \A x \in S : x <= Max(S)
  BY <1>4, MaxIs
<1>6. ASSUME IsMost(most, conns) PROVE most = Max(S)
  <2>1. most \in S
    BY <1>2, <1>6 DEF IsMost, Bounds, Occurs
  <2>2. \A x \in S : x <= most
    BY <1>2, <1>6 DEF IsMost, Bounds, Occurs
  <2>3. most <= Max(S) /\ Max(S) <= most
    BY <1>5, <2>1, <2>2
  <2>4. Max(S) \in Int
    <3>1. Max(S) \in 0 .. MaxBytes
      BY <1>4, <1>5, Zenon
    <3> QED BY <1>4, <3>1
  <2> QED BY <2>3, <2>4
<1>7. ASSUME most = Max(S) PROVE IsMost(most, conns)
  <2>1. \A i \in 1 .. Len(conns) : conns[i].bytes <= most
    BY <1>2, <1>5, <1>7
  <2>2. most = 0 \/ \E i \in 1 .. Len(conns) : most = conns[i].bytes
    BY <1>2, <1>5, <1>7
  <2> QED BY <2>1, <2>2 DEF IsMost, Bounds, Occurs
<1> QED
  BY <1>6, <1>7 DEF S

LEMMA CalculateMaxBytesIs ==
  ASSUME NEW r, Shape(r)
  PROVE  IsMost(calculateMaxBytes(r), Conns(r)) /\ calculateMaxBytes(r) \in Nat
<1> DEFINE n == r.mCurItems
           ring == r.mItemsRing
           S == {0} \cup {ring[p].bytes : p \in 0 .. (n - 1)}
           conns == Conns(r)
<1>1. /\ n \in 0 .. Size /\ r.mTail \in 0 .. (Size - 1) /\ ring \in [0 .. (Size - 1) -> Slots]
      /\ n < Size => r.mTail = n
  BY DEF Shape, Registers
<1>2. /\ Len(conns) = n
      /\ \A i \in 1 .. n : At(r, i - 1) \in 0 .. (Size - 1) /\ conns[i] = ring[At(r, i - 1)]
  BY ConnsAre
<1> HIDE DEF conns
<1>3. \A p \in 0 .. (n - 1) : \E i \in 1 .. n : At(r, i - 1) = p
  <2> SUFFICES ASSUME NEW p \in 0 .. (n - 1) PROVE \E i \in 1 .. n : At(r, i - 1) = p
    OBVIOUS
  <2>1. CASE n < Size
    <3>1. At(r, (p + 1) - 1) = p /\ p + 1 \in 1 .. n
      BY <1>1, <2>1, RegisterAssumption DEF At, firstPos
    <3> QED BY <3>1
  <2>2. CASE n = Size
    <3>1. firstPos(r) = r.mTail
      BY <2>2, RegisterAssumption DEF firstPos
    <3>2. CASE p >= r.mTail
      <4>1. At(r, (p - r.mTail + 1) - 1) = p /\ p - r.mTail + 1 \in 1 .. n
        BY <1>1, <2>2, <3>1, <3>2, RegisterAssumption DEF At
      <4> QED BY <4>1
    <3>3. CASE p < r.mTail
      <4>1. At(r, (p - r.mTail + Size + 1) - 1) = p /\ p - r.mTail + Size + 1 \in 1 .. n
        BY <1>1, <2>2, <3>1, <3>3, RegisterAssumption DEF At
      <4> QED BY <4>1
    <3> QED BY <1>1, <3>2, <3>3
  <2> QED BY <1>1, <2>1, <2>2, RegisterAssumption
<1>4. \A i \in 1 .. n : At(r, i - 1) \in 0 .. (n - 1)
  BY <1>1, <1>2, RegisterAssumption DEF At, firstPos
<1>5. \A p \in 0 .. (n - 1) : ring[p].bytes \in 0 .. MaxBytes
  <2>1. \A p \in 0 .. (n - 1) : ring[p] \in Slots
    BY <1>1, RegisterAssumption
  <2> QED BY <2>1 DEF Slots
<1>6. S \in SUBSET (0 .. MaxBytes) /\ S # {} /\ MaxBytes \in Nat
  BY <1>5, RegisterAssumption
<1>7. calculateMaxBytes(r) = Max(S)
  BY DEF calculateMaxBytes
<1>8. \A x : x \in S <=> x = 0 \/ \E p \in 0 .. (n - 1) : x = ring[p].bytes
  OBVIOUS
<1> HIDE DEF S, n
<1>9. Max(S) \in S /\ \A x \in S : x <= Max(S)
  BY <1>6, MaxIs
<1>10. \A i \in 1 .. Len(conns) : conns[i].bytes \in S
  BY <1>2, <1>4, <1>8
<1>11. Max(S) = 0 \/ \E i \in 1 .. Len(conns) : conns[i].bytes = Max(S)
  BY <1>2, <1>3, <1>8, <1>9
<1>12. IsMost(Max(S), conns)
  BY <1>9, <1>10, <1>11 DEF IsMost, Bounds, Occurs
<1>13. Max(S) \in Nat
  <2>1. Max(S) \in 0 .. MaxBytes
    BY <1>6, <1>9, Zenon
  <2> QED BY <1>6, <2>1
<1> QED
  BY <1>7, <1>12, <1>13 DEF conns
-----------------------------------------------------------------------------
(* newConnections.                                                          *)
First(conns, n) == [i \in 1 .. n |-> conns[i]]
After(conns, n) == [i \in 1 .. (Len(conns) - n) |-> conns[i + n]]

LEMMA ConcatIs ==
  ASSUME NEW S, NEW s \in Seq(S), NEW t \in Seq(S)
  PROVE  /\ s \o t \in Seq(S) /\ Len(s \o t) = Len(s) + Len(t)
         /\ \A i \in 1 .. (Len(s) + Len(t)) :
              (s \o t)[i] = IF i <= Len(s) THEN s[i] ELSE t[i - Len(s)]
  BY ConcatProperties

LEMMA FunctionIsSeq ==
  ASSUME NEW S, NEW n \in Nat, NEW f \in [1 .. n -> S]
  PROVE  f \in Seq(S) /\ Len(f) = n
  OBVIOUS

LEMMA CutIs ==
  ASSUME NEW conns \in Seq(Slots), NEW n \in 0 .. Len(conns)
  PROVE  LET a == First(conns, n)
             b == After(conns, n)
         IN  /\ a \in Seq(Slots) /\ Len(a) = n /\ \A i \in 1 .. n : a[i] = conns[i]
             /\ b \in Seq(Slots) /\ Len(b) = Len(conns) - n
             /\ \A i \in 1 .. (Len(conns) - n) : b[i] = conns[i + n]
             /\ conns = a \o b
<1> DEFINE a == First(conns, n)
           b == After(conns, n)
           m == Len(conns) - n
           c == a \o b
<1>1. Len(conns) \in Nat /\ n \in Nat /\ m \in Nat /\ Len(conns) = n + m
      /\ \A i \in 1 .. Len(conns) : conns[i] \in Slots
  OBVIOUS
<1>2. a \in [1 .. n -> Slots] /\ \A i \in 1 .. n : a[i] = conns[i]
  BY <1>1 DEF First
<1>3. b \in [1 .. m -> Slots] /\ \A i \in 1 .. m : b[i] = conns[i + n]
  <2>1. \A i \in 1 .. m : i + n \in 1 .. Len(conns)
    BY <1>1
  <2> QED BY <1>1, <2>1 DEF After
<1>4. a \in Seq(Slots) /\ Len(a) = n /\ b \in Seq(Slots) /\ Len(b) = m
  <2>1. n \in Nat /\ m \in Nat
    BY <1>1
  <2>2. a \in [1 .. n -> Slots] /\ b \in [1 .. m -> Slots]
    BY <1>2, <1>3
  <2> HIDE DEF a, b, m
  <2> QED BY <2>1, <2>2, FunctionIsSeq
<1> HIDE DEF a, b, m
<1>5. /\ c \in Seq(Slots) /\ Len(c) = n + m
      /\ \A i \in 1 .. (n + m) : c[i] = IF i <= n THEN a[i] ELSE b[i - n]
  <2>1. /\ c \in Seq(Slots) /\ Len(c) = Len(a) + Len(b)
        /\ \A i \in 1 .. (Len(a) + Len(b)) : c[i] = IF i <= Len(a) THEN a[i] ELSE b[i - Len(a)]
    BY <1>4, ConcatProperties
  <2> QED BY <1>4, <2>1
<1> HIDE DEF c
<1>6. ASSUME NEW i \in 1 .. Len(conns) PROVE conns[i] = c[i]
  <2>1. i \in 1 .. (n + m)
    BY <1>1
  <2>2. CASE i <= n
    <3>1. i \in 1 .. n
      BY <1>1, <2>2
    <3> QED BY <1>2, <1>5, <2>1, <2>2, <3>1
  <2>3. CASE ~(i <= n)
    <3>1. i - n \in 1 .. m /\ (i - n) + n = i
      BY <1>1, <2>1, <2>3
    <3>2. b[i - n] = conns[i]
      BY <1>3, <3>1
    <3> QED BY <1>5, <2>1, <2>3, <3>2
  <2> QED BY <2>2, <2>3
<1>7. conns = c
  BY <1>1, <1>5, <1>6, SeqEqual
<1> QED
  BY <1>2, <1>3, <1>4, <1>7 DEF a, b, m, c

(* What a full ring shows after a batch is a cut of what it was sent.       *)
LEMMA LastOfCut ==
  ASSUME NEW conns \in Seq(Slots), NEW new \in Seq(Slots),
         NEW out \in 0 .. Len(conns), NEW skipped \in 0 .. Len(new),
         out + skipped = IF Len(conns) + Len(new) > Size
                         THEN Len(conns) + Len(new) - Size ELSE 0,
         skipped > 0 => out = Len(conns)
  PROVE  LastOf(conns \o new) = After(conns, out) \o After(new, skipped)
<1> DEFINE all == conns \o new
           a == After(conns, out)
           b == After(new, skipped)
           last == LastOf(all)
           ab == a \o b
           d == out + skipped
           n == Len(conns) - out
           m == Len(new) - skipped
<1>1. /\ Len(conns) \in Nat /\ Len(new) \in Nat /\ out \in Nat /\ skipped \in Nat
      /\ n \in Nat /\ m \in Nat /\ d \in Nat /\ n + m = Len(conns) + Len(new) - d
  OBVIOUS
<1>2. /\ all \in Seq(Slots) /\ Len(all) = Len(conns) + Len(new)
      /\ \A i \in 1 .. (Len(conns) + Len(new)) :
           all[i] = IF i <= Len(conns) THEN conns[i] ELSE new[i - Len(conns)]
  BY ConcatProperties
<1>3. a \in Seq(Slots) /\ Len(a) = n /\ \A i \in 1 .. n : a[i] = conns[i + out]
  BY CutIs
<1>4. b \in Seq(Slots) /\ Len(b) = m /\ \A i \in 1 .. m : b[i] = new[i + skipped]
  BY CutIs
<1> HIDE DEF all, a, b, last, n, m
<1>5. /\ ab \in Seq(Slots) /\ Len(ab) = n + m
      /\ \A i \in 1 .. (n + m) : ab[i] = IF i <= n THEN a[i] ELSE b[i - n]
  <2>1. /\ ab \in Seq(Slots) /\ Len(ab) = Len(a) + Len(b)
        /\ \A i \in 1 .. (Len(a) + Len(b)) : ab[i] = IF i <= Len(a) THEN a[i] ELSE b[i - Len(a)]
    <3>1. a \in Seq(Slots) /\ b \in Seq(Slots)
      BY <1>3, <1>4
    <3> QED BY <3>1, ConcatProperties
  <2>2. Len(a) = n /\ Len(b) = m
    BY <1>3, <1>4
  <2> QED BY <2>1, <2>2
<1>6. d = IF Len(all) > Size THEN Len(all) - Size ELSE 0
  <2>1. Len(all) = Len(conns) + Len(new)
    BY <1>2
  <2>2. d = IF Len(conns) + Len(new) > Size THEN Len(conns) + Len(new) - Size ELSE 0
    OBVIOUS
  <2> HIDE DEF d
  <2> QED BY <1>1, <2>1, <2>2, RegisterAssumption
<1> HIDE DEF ab, d
<1>7. last \in Seq(Slots) /\ Len(last) = n + m /\ \A i \in 1 .. (n + m) : last[i] = all[i + d]
  <2>1. /\ last \in Seq(Slots) /\ Len(last) = Len(all) - d
        /\ \A i \in 1 .. (Len(all) - d) : last[i] = all[i + d]
    BY <1>2, <1>6, LastOfIs DEF last
  <2>2. Len(all) - d = n + m
    BY <1>1, <1>2
  <2>3. \A i \in 1 .. (n + m) : i \in 1 .. (Len(all) - d)
    BY <2>2
  <2> QED BY <2>1, <2>2, <2>3
<1>8. ASSUME NEW i \in 1 .. (n + m) PROVE last[i] = ab[i]
  <2>1. i + d \in 1 .. (Len(conns) + Len(new))
    BY <1>1
  <2>2. last[i] = IF i + d <= Len(conns) THEN conns[i + d] ELSE new[(i + d) - Len(conns)]
    <3>1. last[i] = all[i + d]
      BY <1>7
    <3>2. all[i + d] = IF i + d <= Len(conns) THEN conns[i + d] ELSE new[(i + d) - Len(conns)]
      <4> DEFINE j == i + d
      <4> HIDE DEF j
      <4>1. all[j] = IF j <= Len(conns) THEN conns[j] ELSE new[j - Len(conns)]
        BY <1>2, <2>1 DEF j
      <4> QED BY <4>1 DEF j
    <3> QED BY <3>1, <3>2
  <2>3. CASE i <= n
    <3>1. skipped = 0
      BY <1>1, <2>3 DEF n
    <3>2. d = out /\ i \in 1 .. n /\ i + d <= Len(conns)
      BY <1>1, <2>3, <3>1 DEF n, d
    <3> QED BY <1>3, <1>5, <2>2, <2>3, <3>2
  <2>4. CASE ~(i <= n)
    <3>1. i - n \in 1 .. m
      BY <1>1, <2>4
    <3>2. ~(i + d <= Len(conns)) /\ (i + d) - Len(conns) = (i - n) + skipped
      BY <1>1, <2>4 DEF n, d
    <3>3. last[i] = new[(i - n) + skipped] /\ ab[i] = b[i - n]
      BY <1>5, <2>2, <2>4, <3>2
    <3>4. b[i - n] = new[(i - n) + skipped]
      BY <1>4, <3>1
    <3> QED BY <3>3, <3>4
  <2> QED BY <2>3, <2>4
<1>9. Len(last) = Len(ab) /\ \A i \in 1 .. Len(last) : last[i] = ab[i]
  BY <1>5, <1>7, <1>8
<1>10. last = ab
  BY <1>5, <1>7, <1>9, SeqEqual
<1> QED
  BY <1>10 DEF last, ab, all, a, b
Skipped(items) == IF Len(items) > Size THEN Len(items) - Size ELSE 0

LEMMA KeptIs ==
  ASSUME NEW items \in Seq(Items)
  PROVE  LET kept == LastOf(items)
         IN  /\ kept \in Seq(Items) /\ Len(kept) = Len(items) - Skipped(items)
             /\ Len(kept) \in 0 .. Size /\ Skipped(items) \in 0 .. Len(items)
             /\ NewConns(kept, Len(kept)) = After(NewConns(items, Len(items)), Skipped(items))
<1> DEFINE kept == LastOf(items)
           d == Skipped(items)
           n == Len(items) - d
           new == NewConns(items, Len(items))
           a == NewConns(kept, n)
           b == After(new, d)
<1>1. /\ Len(items) \in Nat /\ d \in 0 .. Len(items) /\ d \in Nat /\ n \in Nat
      /\ d = IF Len(items) > Size THEN Len(items) - Size ELSE 0
  BY RegisterAssumption DEF Skipped
<1>2. /\ kept \in Seq(Items) /\ Len(kept) = n /\ Len(kept) \in 0 .. Size
      /\ \A i \in 1 .. n : kept[i] = items[i + d]
  BY LastOfIs DEF Skipped
<1> HIDE DEF kept, d
<1>3. /\ new \in Seq(Slots) /\ Len(new) = Len(items)
      /\ \A i \in 1 .. Len(items) : new[i] = Conn(items[i])
  <2>1. Len(items) \in 0 .. Len(items)
    BY <1>1
  <2> QED BY <2>1, NewConnsAre
<1>4. a \in Seq(Slots) /\ Len(a) = n /\ \A i \in 1 .. n : a[i] = Conn(kept[i])
  <2>1. n \in 0 .. Len(kept)
    BY <1>1, <1>2
  <2> HIDE DEF n
  <2> QED BY <1>2, <2>1, NewConnsAre
<1> HIDE DEF new, a
<1>5. /\ b \in Seq(Slots) /\ Len(b) = Len(new) - d
      /\ \A i \in 1 .. (Len(new) - d) : b[i] = new[i + d]
  <2>1. d \in 0 .. Len(new)
    BY <1>1, <1>3
  <2> QED BY <1>3, <2>1, CutIs
<1> HIDE DEF b
<1>6. ASSUME NEW i \in 1 .. Len(a) PROVE a[i] = b[i]
  <2>1. i \in 1 .. n /\ i \in 1 .. (Len(new) - d) /\ i + d \in 1 .. Len(items)
    BY <1>1, <1>3, <1>4
  <2> HIDE DEF n
  <2>2. a[i] = Conn(kept[i]) /\ kept[i] = items[i + d]
    BY <1>2, <1>4, <2>1
  <2>3. b[i] = new[i + d]
    BY <1>5, <2>1
  <2>4. new[i + d] = Conn(items[i + d])
    BY <1>3, <2>1
  <2> QED BY <2>2, <2>3, <2>4
<1>7. Len(a) = Len(b)
  BY <1>3, <1>4, <1>5
<1>8. a = b
  BY <1>4, <1>5, <1>6, <1>7, SeqEqual
<1> QED
  BY <1>1, <1>2, <1>8 DEF kept, d, new, a, b

(* The counters go on covering the connections: nothing is taken back that  *)
(* was not counted, and the alerts are those of the connections shown.      *)
Carries(r, after) ==
  \A n \in Counters :
    LET over == Count(r, n) - SumOf(Measure(n), Conns(r))
        left == Count(after, n) - SumOf(Measure(n), Conns(after))
    IN  left >= over /\ (n.kind = "malicious" => left = over)

(* newConnections, before mUntrackedItems and mMaxBytes are set.            *)
Out(r, items) ==
  IF r.mCurItems + Len(LastOf(items)) > Size
  THEN r.mCurItems + Len(LastOf(items)) - Size ELSE 0

Alerts(r, items) == Total([i \in 1 .. Out(r, items) |-> Bit(getConn(r, i - 1).alerted)])

Room(r, items) ==
  addAll([r EXCEPT !.mNumMalicious = r.mNumMalicious - Alerts(r, items)], LastOf(items))

LEMMA NewConnectionsSteps ==
  ASSUME NEW r, Shape(r), NEW items \in Seq(Items)
  PROVE  LET after == Room(r, items)
             out == Out(r, items)
             recalc == /\ after.mMaxBytes = r.mMaxBytes
                       /\ \E i \in 1 .. out : Conns(r)[i].bytes = r.mMaxBytes
         IN  /\ out \in 0 .. Len(Conns(r))
             /\ newConnections(r, items) =
                  [after EXCEPT
                     !.mUntrackedItems = r.mUntrackedItems + Skipped(items) + out,
                     !.mMaxBytes = IF recalc THEN calculateMaxBytes(after) ELSE after.mMaxBytes]
<1> DEFINE skipped == Max({Len(items) - Size, 0})
           kept == LastOf(items)
           o == Len(kept) - Min({Size - r.mCurItems, Len(kept)})
           removed == [i \in 1 .. o |-> getConn(r, i - 1)]
           alerts == Total([i \in 1 .. o |-> Bit(removed[i].alerted)])
           full == addAll([r EXCEPT !.mNumMalicious = r.mNumMalicious - alerts], kept)
           recalc == /\ full.mMaxBytes = r.mMaxBytes
                     /\ \E i \in 1 .. o : removed[i].bytes = r.mMaxBytes
           out == Out(r, items)
           after == Room(r, items)
           again == /\ after.mMaxBytes = r.mMaxBytes
                    /\ \E i \in 1 .. out : Conns(r)[i].bytes = r.mMaxBytes
<1>1. newConnections(r, items) =
        [full EXCEPT !.mUntrackedItems = r.mUntrackedItems + skipped + o,
                    !.mMaxBytes = IF recalc THEN calculateMaxBytes(full) ELSE full.mMaxBytes]
  BY DEF newConnections, LastOf
<1>2. Len(items) \in Nat /\ Size \in Nat /\ Len(kept) \in 0 .. Size /\ r.mCurItems \in 0 .. Size
  BY KeptIs, ConnsAre, RegisterAssumption
<1>3. skipped = Skipped(items)
  <2>1. Len(items) - Size \in Int
    BY <1>2
  <2>2. skipped = IF Len(items) - Size >= 0 THEN Len(items) - Size ELSE 0
    BY <2>1, MaxOfTwo
  <2> QED BY <1>2, <2>2 DEF Skipped
<1>4. o = out /\ out \in 0 .. r.mCurItems
  <2> HIDE DEF kept
  <2>1. Size - r.mCurItems \in Int /\ Len(kept) \in Int
    BY <1>2
  <2>2. Min({Size - r.mCurItems, Len(kept)})
          = IF Size - r.mCurItems <= Len(kept) THEN Size - r.mCurItems ELSE Len(kept)
    BY <2>1, MinOfTwo
  <2>3. out = IF r.mCurItems + Len(kept) > Size THEN r.mCurItems + Len(kept) - Size ELSE 0
    BY DEF Out, kept
  <2> HIDE DEF out
  <2> QED BY <1>2, <2>2, <2>3
<1> HIDE DEF o, out, skipped
<1>5. Len(Conns(r)) = r.mCurItems /\ \A i \in 1 .. out : Conns(r)[i] = removed[i]
  <2>1. Len(Conns(r)) = r.mCurItems
    BY ConnsAre
  <2>2. \A i \in 1 .. out : i \in 1 .. r.mCurItems
    BY <1>2, <1>4
  <2> QED BY <1>4, <2>1, <2>2 DEF Conns
<1>6. alerts = Alerts(r, items)
  <2>1. [i \in 1 .. o |-> Bit(removed[i].alerted)]
          = [i \in 1 .. out |-> Bit(getConn(r, i - 1).alerted)]
    BY <1>4
  <2> QED BY <2>1 DEF Alerts, out
<1>7. full = after
  BY <1>6 DEF Room
<1> HIDE DEF full, after, removed
<1>8. recalc <=> again
  BY <1>4, <1>5, <1>7
<1> QED
  BY <1>1, <1>3, <1>4, <1>5, <1>7, <1>8 DEF out, after
LEMMA AlertsIs ==
  ASSUME NEW r, Shape(r), NEW items \in Seq(Items), NEW n \in Counters, n.kind = "malicious",
         Out(r, items) \in 0 .. Len(Conns(r))
  PROVE  Alerts(r, items) = SumOf(Measure(n), First(Conns(r), Out(r, items)))
<1> DEFINE out == Out(r, items)
           gone == First(Conns(r), out)
           f == Measure(n)
<1>1. /\ Conns(r) \in Seq(Slots) /\ Len(Conns(r)) = r.mCurItems /\ Len(Conns(r)) \in Nat
      /\ r.mCurItems \in 0 .. Size
  BY ConnsAre
<1> HIDE DEF out
<1>2. gone \in Seq(Slots) /\ Len(gone) = out /\ \A i \in 1 .. out : gone[i] = Conns(r)[i]
  BY <1>1, CutIs DEF out
<1>3. \A i \in 1 .. out : gone[i] \in Slots /\ i \in 1 .. r.mCurItems
  BY <1>1, <1>2 DEF out
<1> HIDE DEF gone
<1>4. \A i \in 1 .. out : f[gone[i]] = Bit(getConn(r, i - 1).alerted)
  <2> SUFFICES ASSUME NEW i \in 1 .. out PROVE f[gone[i]] = Bit(getConn(r, i - 1).alerted)
    OBVIOUS
  <2>1. gone[i] = getConn(r, i - 1)
    BY <1>2, <1>3 DEF Conns
  <2>2. f[gone[i]] = Adding(n, gone[i]) /\ Adding(n, gone[i]) = Bit(gone[i].alerted)
    BY <1>3, MeasureIs DEF Adding
  <2> QED BY <2>1, <2>2
<1>5. DOMAIN gone = 1 .. out
  BY <1>2
<1>6. [i \in DOMAIN gone |-> f[gone[i]]] = [i \in 1 .. out |-> Bit(getConn(r, i - 1).alerted)]
  BY <1>4, <1>5
<1> QED
  BY <1>6 DEF SumOf, Alerts, out, gone, f

(* What Room does.                                                          *)
LEMMA RoomIs ==
  ASSUME NEW r, Shape(r), NEW items \in Seq(Items)
  PROVE  LET after == Room(r, items)
             rest == After(Conns(r), Out(r, items))
             new == NewConns(LastOf(items), Len(LastOf(items)))
         IN  /\ Shape(after)
             /\ rest \in Seq(Slots) /\ new \in Seq(Slots)
             /\ Conns(after) = rest \o new
             /\ Conns(after) = LastOf(Conns(r) \o NewConns(items, Len(items)))
             /\ Carries(r, after)
             /\ r.mMaxBytes <= after.mMaxBytes
             /\ Bounds(after.mMaxBytes, new)
             /\ after.mMaxBytes = r.mMaxBytes \/ Occurs(after.mMaxBytes, new)
<1> DEFINE kept == LastOf(items)
           conns == Conns(r)
           out == Out(r, items)
           skipped == Skipped(items)
           gone == First(conns, out)
           rest == After(conns, out)
           all == NewConns(items, Len(items))
           new == NewConns(kept, Len(kept))
           alerts == Alerts(r, items)
           start == [r EXCEPT !.mNumMalicious = r.mNumMalicious - alerts]
           after == Room(r, items)
<1>1. /\ Len(items) \in Nat /\ kept \in Seq(Items) /\ Len(kept) = Len(items) - skipped
      /\ Len(kept) \in 0 .. Size /\ skipped \in 0 .. Len(items) /\ new = After(all, skipped)
      /\ skipped = IF Len(items) > Size THEN Len(items) - Size ELSE 0
  BY KeptIs DEF Skipped
<1>2. /\ conns \in Seq(Slots) /\ Len(conns) = r.mCurItems /\ r.mCurItems \in 0 .. Size
      /\ Size \in Nat
  BY ConnsAre, RegisterAssumption
<1>3. /\ out \in 0 .. Len(conns)
      /\ out = IF Len(conns) + Len(kept) > Size THEN Len(conns) + Len(kept) - Size ELSE 0
  BY <1>2, NewConnectionsSteps DEF Out
<1>4. /\ gone \in Seq(Slots) /\ rest \in Seq(Slots) /\ conns = gone \o rest
  BY <1>2, <1>3, CutIs
<1>5. \A n \in Counters : n.kind = "malicious" => alerts = SumOf(Measure(n), gone)
  BY <1>3, AlertsIs
<1>6. /\ all \in Seq(Slots) /\ Len(all) = Len(items)
      /\ new \in Seq(Slots) /\ Len(new) = Len(kept)
  <2>1. Len(items) \in 0 .. Len(items) /\ Len(kept) \in 0 .. Len(kept)
    BY <1>1
  <2> QED BY <1>1, <2>1, NewConnsAre
<1>7. alerts \in Int
  <2> DEFINE n == [kind |-> "malicious"]
  <2>1. n \in Counters /\ n.kind = "malicious"
    BY DEF Counters
  <2> HIDE DEF n
  <2>2. SumOf(Measure(n), gone) \in Nat
    BY <1>4, <2>1, MeasureIs, SumOfTyped
  <2> QED BY <1>5, <2>1, <2>2
<1> HIDE DEF kept, out, skipped, gone, rest, all, new, alerts
<1>8. /\ Shape(start) /\ Conns(start) = conns /\ start.mMaxBytes = r.mMaxBytes
      /\ start.mNumMalicious = r.mNumMalicious - alerts
      /\ start.mNumBlocked = r.mNumBlocked /\ start.mAppsStats = r.mAppsStats
  <2>1. /\ start \in Registers /\ start.mItemsRing = r.mItemsRing /\ start.mTail = r.mTail
        /\ start.mCurItems = r.mCurItems /\ start.mMaxBytes = r.mMaxBytes
        /\ start.mNumMalicious = r.mNumMalicious - alerts
        /\ start.mNumBlocked = r.mNumBlocked /\ start.mAppsStats = r.mAppsStats
    <3>1. r \in Registers /\ r.mNumMalicious - alerts \in Int
      BY <1>7 DEF Shape, Registers
    <3> QED BY <3>1 DEF Registers
  <2> HIDE DEF start
  <2>2. Conns(start) = Conns(r)
    BY <2>1 DEF Conns, getConn, firstPos
  <2> QED BY <2>1, <2>2 DEF Shape
<1>9. after = addAll(start, kept)
  BY DEF Room, kept, alerts
<1> HIDE DEF start, after, conns
<1>10. Added(start, kept, Len(kept), after)
  BY <1>1, <1>8, <1>9, AddAllDoes
<1>11. /\ Shape(after) /\ Conns(after) = LastOf(conns \o new)
       /\ \A n \in Counters : Count(after, n) = Count(start, n) + SumOf(Measure(n), new)
       /\ r.mMaxBytes <= after.mMaxBytes
       /\ Bounds(after.mMaxBytes, new)
       /\ after.mMaxBytes = r.mMaxBytes \/ Occurs(after.mMaxBytes, new)
  <2>1. Conns(start) = conns /\ start.mMaxBytes = r.mMaxBytes /\ Len(new) = Len(kept)
    BY <1>6, <1>8
  <2> QED BY <1>10, <2>1 DEF Added, new, Bounds, Occurs
<1>12. LastOf(conns \o new) = rest \o new
  <2>1. 0 \in 0 .. Len(new) /\ ~(0 > 0)
    BY <1>1, <1>6
  <2>2. out + 0 = IF Len(conns) + Len(new) > Size THEN Len(conns) + Len(new) - Size ELSE 0
    <3>1. out + 0 = out /\ Len(new) = Len(kept)
      BY <1>2, <1>3, <1>6
    <3> QED BY <1>3, <3>1
  <2>3. LastOf(conns \o new) = After(conns, out) \o After(new, 0)
    BY <1>2, <1>3, <1>6, <2>1, <2>2, LastOfCut
  <2>4. After(new, 0) = new
    <3>1. /\ After(new, 0) \in Seq(Slots) /\ Len(After(new, 0)) = Len(new) - 0
          /\ \A i \in 1 .. (Len(new) - 0) : After(new, 0)[i] = new[i + 0]
      BY <1>6, <2>1, CutIs
    <3>2. Len(new) \in Nat
      BY <1>6
    <3>3. Len(After(new, 0)) = Len(new) /\ \A i \in 1 .. Len(After(new, 0)) : After(new, 0)[i] = new[i]
      BY <3>1, <3>2
    <3> QED BY <1>6, <3>1, <3>3, SeqEqual
  <2> QED BY <2>3, <2>4 DEF rest
<1>13. LastOf(conns \o all) = rest \o new
  <2>1. out + skipped = IF Len(conns) + Len(all) > Size THEN Len(conns) + Len(all) - Size ELSE 0
    <3>1. Len(all) = Len(items) /\ Len(conns) \in Nat
      BY <1>2, <1>6
    <3>2. CASE Len(items) > Size
      <4>1. skipped = Len(items) - Size /\ Len(kept) = Size
        BY <1>1, <1>2, <3>2
      <4>2. out = Len(conns)
        BY <1>2, <1>3, <3>1, <4>1
      <4> QED BY <1>1, <1>2, <3>1, <3>2, <4>1, <4>2
    <3>3. CASE ~(Len(items) > Size)
      <4>1. skipped = 0 /\ Len(kept) = Len(items)
        BY <1>1, <1>2, <3>3
      <4> QED BY <1>1, <1>2, <1>3, <3>1, <4>1
    <3> QED BY <3>2, <3>3
  <2>2. skipped > 0 => out = Len(conns)
    BY <1>1, <1>2, <1>3, <1>6
  <2>3. skipped \in 0 .. Len(all)
    BY <1>1, <1>6
  <2>4. LastOf(conns \o all) = After(conns, out) \o After(all, skipped)
    BY <1>2, <1>3, <1>6, <2>1, <2>2, <2>3, LastOfCut
  <2> QED BY <1>1, <2>4 DEF rest
<1>14. Carries(r, after)
  <2> SUFFICES ASSUME NEW n \in Counters
               PROVE  LET over == Count(r, n) - SumOf(Measure(n), conns)
                          left == Count(after, n) - SumOf(Measure(n), rest \o new)
                      IN  left >= over /\ (n.kind = "malicious" => left = over)
    BY <1>11, <1>12 DEF Carries, conns
  <2>1. Measure(n) \in Measures
    BY MeasureIs
  <2>2. SumOf(Measure(n), rest \o new) = SumOf(Measure(n), rest) + SumOf(Measure(n), new)
    BY <1>4, <1>6, <2>1, SumOfConcat
  <2>3. SumOf(Measure(n), conns) = SumOf(Measure(n), gone) + SumOf(Measure(n), rest)
    BY <1>4, <2>1, SumOfConcat
  <2>4. /\ SumOf(Measure(n), rest) \in Nat /\ SumOf(Measure(n), new) \in Nat
        /\ SumOf(Measure(n), gone) \in Nat
    BY <1>4, <1>6, <2>1, SumOfTyped
  <2>5. Count(start, n) = IF n.kind = "malicious" THEN Count(r, n) - alerts ELSE Count(r, n)
    <3>1. n.kind \in {"malicious", "blocked", "bytes", "numBlocked", "numConnections"}
      BY DEF Counters
    <3> QED BY <1>8, <3>1 DEF Count
  <2>6. Count(r, n) \in Int
    BY CountIs DEF Shape
  <2>7. Count(after, n) = Count(start, n) + SumOf(Measure(n), new)
    BY <1>11
  <2>8. CASE n.kind = "malicious"
    BY <1>5, <2>2, <2>3, <2>4, <2>5, <2>6, <2>7, <2>8
  <2>9. CASE n.kind # "malicious"
    BY <2>2, <2>3, <2>4, <2>5, <2>6, <2>7, <2>9
  <2> QED BY <2>8, <2>9
<1> QED
  BY <1>4, <1>6, <1>11, <1>12, <1>13, <1>14 DEF after, rest, new, kept, out, conns, all
LEMMA IsMostConcat ==
  ASSUME NEW s \in Seq(Slots), NEW t \in Seq(Slots), NEW most
  PROVE  /\ Bounds(most, s \o t) <=> Bounds(most, s) /\ Bounds(most, t)
         /\ Occurs(most, s \o t) <=> Occurs(most, s) \/ Occurs(most, t)
<1> DEFINE u == s \o t
           n == Len(s)
           m == Len(t)
<1>1. /\ Len(u) = n + m /\ n \in Nat /\ m \in Nat
      /\ \A i \in 1 .. (n + m) : u[i] = IF i <= n THEN s[i] ELSE t[i - n]
  BY ConcatProperties
<1> HIDE DEF u, n, m
<1>2. \A i \in 1 .. n : i \in 1 .. Len(u) /\ u[i] = s[i]
  BY <1>1
<1>3. \A i \in 1 .. m : n + i \in 1 .. Len(u) /\ u[n + i] = t[i]
  <2> SUFFICES ASSUME NEW i \in 1 .. m PROVE n + i \in 1 .. Len(u) /\ u[n + i] = t[i]
    OBVIOUS
  <2>1. n + i \in 1 .. (n + m) /\ ~(n + i <= n) /\ (n + i) - n = i
    BY <1>1
  <2>2. u[n + i] = IF n + i <= n THEN s[n + i] ELSE t[(n + i) - n]
    BY <1>1, <2>1
  <2> QED BY <1>1, <2>1, <2>2
<1>4. \A i \in 1 .. Len(u) : (i \in 1 .. n /\ u[i] = s[i])
                               \/ \E j \in 1 .. m : u[i] = t[j]
  <2> SUFFICES ASSUME NEW i \in 1 .. Len(u), i \notin 1 .. n
               PROVE  \E j \in 1 .. m : u[i] = t[j]
    BY <1>2
  <2>1. i - n \in 1 .. m /\ ~(i <= n) /\ i \in 1 .. (n + m)
    BY <1>1
  <2> QED BY <1>1, <2>1
<1>5. (\A i \in 1 .. Len(u) : u[i].bytes <= most)
        <=> (\A i \in 1 .. n : s[i].bytes <= most) /\ (\A i \in 1 .. m : t[i].bytes <= most)
  <2>1. ASSUME \A i \in 1 .. Len(u) : u[i].bytes <= most
        PROVE  (\A i \in 1 .. n : s[i].bytes <= most) /\ (\A i \in 1 .. m : t[i].bytes <= most)
    <3>1. \A i \in 1 .. n : s[i].bytes <= most
      BY <1>2, <2>1
    <3>2. \A i \in 1 .. m : t[i].bytes <= most
      BY <1>3, <2>1
    <3> QED BY <3>1, <3>2
  <2>2. ASSUME \A i \in 1 .. n : s[i].bytes <= most, \A i \in 1 .. m : t[i].bytes <= most,
               NEW i \in 1 .. Len(u)
        PROVE  u[i].bytes <= most
    BY <1>4, <2>2
  <2> QED BY <2>1, <2>2
<1>6. (\E i \in 1 .. Len(u) : u[i].bytes = most)
        <=> (\E i \in 1 .. n : s[i].bytes = most) \/ (\E i \in 1 .. m : t[i].bytes = most)
  <2>1. ASSUME NEW i \in 1 .. Len(u), u[i].bytes = most
        PROVE  (\E j \in 1 .. n : s[j].bytes = most) \/ (\E j \in 1 .. m : t[j].bytes = most)
    BY <1>4, <2>1
  <2>2. ASSUME NEW i \in 1 .. n, s[i].bytes = most PROVE \E j \in 1 .. Len(u) : u[j].bytes = most
    BY <1>2, <2>2
  <2>3. ASSUME NEW i \in 1 .. m, t[i].bytes = most PROVE \E j \in 1 .. Len(u) : u[j].bytes = most
    BY <1>3, <2>3
  <2> QED BY <2>1, <2>2, <2>3
<1> QED
  BY <1>5, <1>6 DEF u, n, m, Bounds, Occurs

(* newConnections: what it shows, and that its counters go on.              *)
LEMMA NewConnectionsIs ==
  ASSUME NEW r, Shape(r), NEW items \in Seq(Items)
  PROVE  LET after == newConnections(r, items)
         IN  /\ Shape(after)
             /\ Conns(after) = LastOf(Conns(r) \o NewConns(items, Len(items)))
             /\ after.mUntrackedItems + after.mCurItems
                  = r.mUntrackedItems + r.mCurItems + Len(items)
             /\ Carries(r, after)
             /\ IsMost(r.mMaxBytes, Conns(r)) => IsMost(after.mMaxBytes, Conns(after))
<1> DEFINE conns == Conns(r)
           out == Out(r, items)
           room == Room(r, items)
           gone == First(conns, out)
           rest == After(conns, out)
           new == NewConns(LastOf(items), Len(LastOf(items)))
           recalc == room.mMaxBytes = r.mMaxBytes /\ \E i \in 1 .. out : conns[i].bytes = r.mMaxBytes
           most == IF recalc THEN calculateMaxBytes(room) ELSE room.mMaxBytes
           untracked == r.mUntrackedItems + Skipped(items) + out
           after == [room EXCEPT !.mUntrackedItems = untracked, !.mMaxBytes = most]
<1>1. newConnections(r, items) = after /\ out \in 0 .. Len(conns)
  BY NewConnectionsSteps
<1>2. /\ Shape(room) /\ rest \in Seq(Slots) /\ new \in Seq(Slots)
      /\ Conns(room) = rest \o new
      /\ Conns(room) = LastOf(conns \o NewConns(items, Len(items)))
      /\ Carries(r, room)
      /\ r.mMaxBytes <= room.mMaxBytes
      /\ Bounds(room.mMaxBytes, new)
      /\ room.mMaxBytes = r.mMaxBytes \/ Occurs(room.mMaxBytes, new)
  BY RoomIs
<1>3. /\ conns \in Seq(Slots) /\ Len(conns) = r.mCurItems /\ r.mCurItems \in 0 .. Size
      /\ r.mUntrackedItems \in Nat /\ r.mMaxBytes \in Nat /\ Size \in Nat
  BY ConnsAre, RegisterAssumption DEF Shape, Registers
<1>4. /\ gone \in Seq(Slots) /\ Len(gone) = out /\ conns = gone \o rest
      /\ \A i \in 1 .. out : gone[i] = conns[i]
      /\ Len(rest) = Len(conns) - out
  BY <1>1, <1>3, CutIs
<1>5. /\ Len(items) \in Nat /\ Skipped(items) \in 0 .. Len(items)
      /\ Len(LastOf(items)) = Len(items) - Skipped(items) /\ Len(LastOf(items)) \in Nat
      /\ LastOf(items) \in Seq(Items)
  BY KeptIs
<1>6. Len(new) = Len(items) - Skipped(items)
  <2>1. Len(LastOf(items)) \in 0 .. Len(LastOf(items))
    BY <1>5
  <2>2. Len(new) = Len(LastOf(items))
    BY <1>5, <2>1, NewConnsAre
  <2> QED BY <1>5, <2>2
<1>7. untracked \in Nat
  BY <1>1, <1>3, <1>5
<1>8. most \in Nat
  <2>1. calculateMaxBytes(room) \in Nat /\ room.mMaxBytes \in Nat
    BY <1>2, CalculateMaxBytesIs DEF Shape, Registers
  <2> QED BY <2>1
<1>9. IsMost(r.mMaxBytes, conns) => IsMost(most, Conns(room))
  <2> SUFFICES ASSUME IsMost(r.mMaxBytes, conns) PROVE IsMost(most, Conns(room))
    OBVIOUS
  <2>1. CASE recalc
    <3>1. IsMost(calculateMaxBytes(room), Conns(room)) /\ most = calculateMaxBytes(room)
      BY <1>2, <2>1, CalculateMaxBytesIs
    <3> QED BY <3>1
  <2>2. CASE ~recalc
    <3> HIDE DEF gone, rest, new, room, conns, out
    <3>1. most = room.mMaxBytes /\ room.mMaxBytes \in Nat
      BY <1>2, <2>2 DEF Shape, Registers
    <3>2. Bounds(r.mMaxBytes, rest)
      BY <1>2, <1>4, IsMostConcat DEF IsMost
    <3>3. Bounds(room.mMaxBytes, rest)
      <4>1. \A i \in 1 .. Len(rest) : rest[i].bytes \in Int
        <5>1. \A i \in 1 .. Len(rest) : rest[i] \in Slots
          BY <1>2
        <5> QED BY <5>1, RegisterAssumption DEF Slots
      <4> QED BY <1>2, <1>3, <3>1, <3>2, <4>1 DEF Bounds
    <3>4. Bounds(room.mMaxBytes, rest \o new)
      BY <1>2, <3>3, IsMostConcat
    <3>5. CASE room.mMaxBytes = r.mMaxBytes
      <4>1. ~Occurs(r.mMaxBytes, gone)
        BY <1>4, <2>2, <3>5 DEF Occurs
      <4>2. r.mMaxBytes = 0 \/ Occurs(r.mMaxBytes, gone \o rest)
        BY <1>4 DEF IsMost
      <4>3. r.mMaxBytes = 0 \/ Occurs(r.mMaxBytes, rest \o new)
        BY <1>2, <1>4, <4>1, <4>2, IsMostConcat
      <4> QED BY <1>2, <3>1, <3>4, <3>5, <4>3 DEF IsMost
    <3>6. CASE Occurs(room.mMaxBytes, new)
      <4> HIDE DEF most
      <4>1. Occurs(room.mMaxBytes, rest \o new)
        BY <1>2, <3>6, IsMostConcat
      <4> QED BY <1>2, <3>1, <3>4, <4>1 DEF IsMost
    <3> QED BY <1>2, <3>5, <3>6
  <2> QED BY <2>1, <2>2
<1> HIDE DEF most, untracked, room
<1>10. /\ after.mItemsRing = room.mItemsRing /\ after.mTail = room.mTail
       /\ after.mCurItems = room.mCurItems /\ after.mUntrackedItems = untracked
       /\ after.mMaxBytes = most /\ after.mNumMalicious = room.mNumMalicious
       /\ after.mNumBlocked = room.mNumBlocked /\ after.mAppsStats = room.mAppsStats
       /\ after \in Registers
  BY <1>2, <1>7, <1>8 DEF Shape, Registers
<1> HIDE DEF after
<1>11. Shape(after) /\ Conns(after) = Conns(room)
  <2>1. Conns(after) = Conns(room)
    BY <1>10 DEF Conns, getConn, firstPos
  <2> QED BY <1>2, <1>10, <2>1 DEF Shape
<1>12. Carries(r, after)
  <2>1. \A n : Count(after, n) = Count(room, n)
    BY <1>10 DEF Count
  <2> QED BY <1>2, <1>11, <2>1 DEF Carries
<1>13. after.mUntrackedItems + after.mCurItems = r.mUntrackedItems + r.mCurItems + Len(items)
  <2>1. after.mCurItems = Len(rest \o new)
    BY <1>2, <1>10, ConnsAre
  <2>2. Len(rest \o new) = Len(rest) + Len(new)
    BY <1>2, ConcatProperties
  <2>3. after.mCurItems = (r.mCurItems - out) + (Len(items) - Skipped(items))
    BY <1>3, <1>4, <1>6, <2>1, <2>2
  <2>4. out \in Int /\ Skipped(items) \in Int /\ Len(items) \in Int
        /\ r.mUntrackedItems \in Int /\ r.mCurItems \in Int
    BY <1>1, <1>3, <1>5
  <2>5. after.mUntrackedItems = r.mUntrackedItems + Skipped(items) + out
    BY <1>10 DEF untracked
  <2> HIDE DEF out
  <2> QED BY <2>3, <2>4, <2>5
<1> QED
  BY <1>1, <1>2, <1>9, <1>10, <1>11, <1>12, <1>13
-----------------------------------------------------------------------------
(* connectionsUpdates.                                                      *)
LEMMA UpdateCarries ==
  ASSUME NEW r, Shape(r), r.mCurItems > 0, InOrder(Conns(r)), NEW item \in Items
  PROVE  Carries(r, update(r, item))
<1> DEFINE conns == Conns(r)
           conn == Conn(item)
           after == update(r, item)
<1>1. /\ Shape(after) /\ Conns(after) = Replaced(conns, conn)
      /\ \/ /\ \A i \in 1 .. Len(conns) : conns[i].id # conn.id
            /\ after = r
         \/ \E i \in 1 .. Len(conns) :
              /\ conns[i].id = conn.id
              /\ Put(r, after, At(r, i - 1), conn, conns[i], 0)
  BY UpdateIs
<1>2. conn \in Slots /\ conns \in Seq(Slots) /\ r \in Registers
  BY ConnIs, ConnsAre DEF Shape
<1>3. InOrder(conns)
  OBVIOUS
<1> HIDE DEF conns, conn, after
<1>4. ASSUME NEW n \in Counters
      PROVE  Count(r, n) \in Int /\ SumOf(Measure(n), conns) \in Int
  BY <1>2, CountIs, MeasureIs, SumOfTyped
<1>5. CASE after = r
  <2>1. \A n \in Counters : Count(r, n) - SumOf(Measure(n), Conns(r)) \in Int
    BY <1>4 DEF conns
  <2>2. Carries(r, r)
    BY <2>1 DEF Carries
  <2> QED BY <1>5, <2>2 DEF after
<1>6. ASSUME NEW i \in 1 .. Len(conns), conns[i].id = conn.id,
             Put(r, after, At(r, i - 1), conn, conns[i], 0)
      PROVE  Carries(r, after)
  <2> SUFFICES ASSUME NEW n \in Counters
               PROVE  Count(after, n) - SumOf(Measure(n), Conns(after))
                        = Count(r, n) - SumOf(Measure(n), conns)
    <3> DEFINE over(n) == Count(r, n) - SumOf(Measure(n), conns)
    <3>1. \A n \in Counters : over(n) \in Int
      BY <1>4
    <3>2. \A n \in Counters : Count(after, n) - SumOf(Measure(n), Conns(after)) = over(n)
      OBVIOUS
    <3> HIDE DEF over
    <3>3. \A n \in Counters : over(n) >= over(n)
      BY <3>1
    <3> QED BY <3>2, <3>3 DEF Carries, over, conns
  <2>1. conns[i] \in Slots
    BY <1>2
  <2>2. Count(after, n) = Count(r, n) + Measure(n)[conn] - Measure(n)[conns[i]]
    BY <1>2, <1>6, <2>1, PutCounts
  <2>3. SumOf(Measure(n), Conns(after))
          = SumOf(Measure(n), conns) + Measure(n)[conn] - Measure(n)[conns[i]]
    BY <1>1, <1>2, <1>3, <1>6, MeasureIs, SumOfReplaced
  <2>4. Measure(n)[conn] \in Int /\ Measure(n)[conns[i]] \in Int
    BY <1>2, <2>1, MeasureIs
  <2> QED BY <1>4, <2>2, <2>3, <2>4
<1> QED
  BY <1>1, <1>5, <1>6 DEF after

(* A connection whose traffic grows.                                        *)
LEMMA UpdateMost ==
  ASSUME NEW r, Shape(r), r.mCurItems > 0, InOrder(Conns(r)), NEW item \in Items,
         \A i \in 1 .. Len(Conns(r)) :
           Conns(r)[i].id = item.id => item.view.bytes >= Conns(r)[i].bytes,
         IsMost(r.mMaxBytes, Conns(r))
  PROVE  IsMost(update(r, item).mMaxBytes, Conns(update(r, item)))
<1> DEFINE conns == Conns(r)
           conn == Conn(item)
           after == update(r, item)
           t == Replaced(conns, conn)
<1>1. /\ Conns(after) = t
      /\ \/ after = r /\ \A i \in 1 .. Len(conns) : conns[i].id # conn.id
         \/ \E i \in 1 .. Len(conns) :
              /\ conns[i].id = conn.id
              /\ Put(r, after, At(r, i - 1), conn, conns[i], 0)
  BY UpdateIs
<1>2. conn \in Slots /\ conn.id = item.id /\ conn.bytes = item.view.bytes
  BY ConnIs DEF Conn
<1>3. conns \in Seq(Slots) /\ InOrder(conns)
  BY ConnsAre
<1>4. /\ t \in Seq(Slots) /\ Len(t) = Len(conns)
      /\ \A i \in 1 .. Len(conns) : t[i] = IF conns[i].id = conn.id THEN conn ELSE conns[i]
  BY <1>2, <1>3, ReplacedIs
<1>5. IsMost(r.mMaxBytes, conns) /\ r.mMaxBytes \in Nat /\ conn.bytes \in Nat
      /\ \A i \in 1 .. Len(conns) : conns[i].bytes \in Nat
  <2>1. \A i \in 1 .. Len(conns) : conns[i] \in Slots
    BY <1>3
  <2>2. \A c \in Slots : c.bytes \in Nat
    BY RegisterAssumption DEF Slots
  <2> QED BY <1>2, <2>1, <2>2 DEF Shape, Registers
<1>6. \A i \in 1 .. Len(conns) : conns[i].id = conn.id => conn.bytes >= conns[i].bytes
  BY <1>2
<1> HIDE DEF conns, conn, after, t
<1>7. CASE after = r
  BY <1>5, <1>7 DEF conns, after
<1>8. ASSUME NEW p \in 1 .. Len(conns), conns[p].id = conn.id,
             Put(r, after, At(r, p - 1), conn, conns[p], 0)
      PROVE  IsMost(after.mMaxBytes, t)
  <2>1. after.mMaxBytes = IF r.mMaxBytes >= conn.bytes THEN r.mMaxBytes ELSE conn.bytes
    BY <1>8 DEF Put
  <2>2. r.mMaxBytes <= after.mMaxBytes /\ conn.bytes <= after.mMaxBytes /\ after.mMaxBytes \in Nat
    BY <1>5, <2>1
  <2>3. \A i \in 1 .. Len(conns) : conns[i].bytes <= r.mMaxBytes
    BY <1>5 DEF IsMost, Bounds
  <2>4. ASSUME NEW i \in 1 .. Len(t) PROVE t[i].bytes <= after.mMaxBytes
    <3>1. i \in 1 .. Len(conns)
      BY <1>4
    <3>2. CASE conns[i].id = conn.id
      BY <1>4, <2>2, <3>1, <3>2
    <3>3. CASE conns[i].id # conn.id
      <4>1. t[i].bytes = conns[i].bytes
        BY <1>4, <3>1, <3>3
      <4> QED BY <1>5, <2>2, <2>3, <3>1, <4>1
    <3> QED BY <3>2, <3>3
  <2>5. CASE r.mMaxBytes <= conn.bytes
    <3>1. after.mMaxBytes = conn.bytes /\ t[p] = conn /\ p \in 1 .. Len(t)
      BY <1>4, <1>5, <1>8, <2>1, <2>5
    <3> QED BY <2>4, <3>1 DEF IsMost, Bounds, Occurs
  <2>6. CASE ~(r.mMaxBytes <= conn.bytes)
    <3>1. after.mMaxBytes = r.mMaxBytes /\ r.mMaxBytes # 0
      BY <1>5, <2>1, <2>6
    <3>2. PICK i \in 1 .. Len(conns) : conns[i].bytes = r.mMaxBytes
      BY <1>5, <3>1 DEF IsMost, Occurs
    <3>3. conns[i].id # conn.id
      BY <1>5, <1>6, <2>6, <3>2
    <3>4. t[i].bytes = after.mMaxBytes /\ i \in 1 .. Len(t)
      BY <1>4, <3>1, <3>2, <3>3
    <3> QED BY <2>4, <3>4 DEF IsMost, Bounds, Occurs
  <2> QED BY <2>5, <2>6
<1> QED
  BY <1>1, <1>7, <1>8 DEF after
LEMMA CarriesOn ==
  ASSUME NEW r, Shape(r), NEW s, Shape(s), NEW t, Shape(t), Carries(r, s), Carries(s, t)
  PROVE  Carries(r, t)
<1>1. \A n \in Counters : /\ Count(r, n) \in Int /\ SumOf(Measure(n), Conns(r)) \in Int
                          /\ Count(s, n) \in Int /\ SumOf(Measure(n), Conns(s)) \in Int
                          /\ Count(t, n) \in Int /\ SumOf(Measure(n), Conns(t)) \in Int
  BY ConnsAre, CountIs, MeasureIs, SumOfTyped DEF Shape
<1> SUFFICES ASSUME NEW n \in Counters
             PROVE  LET over == Count(r, n) - SumOf(Measure(n), Conns(r))
                        left == Count(t, n) - SumOf(Measure(n), Conns(t))
                    IN  left >= over /\ (n.kind = "malicious" => left = over)
  BY DEF Carries
<1> DEFINE a == Count(r, n) - SumOf(Measure(n), Conns(r))
           b == Count(s, n) - SumOf(Measure(n), Conns(s))
           c == Count(t, n) - SumOf(Measure(n), Conns(t))
<1>2. a \in Int /\ b \in Int /\ c \in Int
  BY <1>1
<1>3. /\ b >= a /\ (n.kind = "malicious" => b = a)
      /\ c >= b /\ (n.kind = "malicious" => c = b)
  BY DEF Carries
<1> HIDE DEF a, b, c
<1>4. c >= a /\ (n.kind = "malicious" => c = a)
  BY <1>2, <1>3
<1> QED
  BY <1>4 DEF a, c

(* One update for each connection, and none that takes traffic back.        *)
Distinct(items) == \A i, j \in 1 .. Len(items) : items[i].id = items[j].id => i = j
Grows(conns, items) ==
  \A i \in 1 .. Len(conns), j \in 1 .. Len(items) :
    items[j].id = conns[i].id => items[j].view.bytes >= conns[i].bytes

(* What connectionsUpdates has done after k items: the last item about a    *)
(* connection counts.                                                       *)
Applied(r, items, k, after) ==
  LET conns == Conns(r)
  IN  /\ Shape(after) /\ after.mCurItems = r.mCurItems
      /\ after.mUntrackedItems = r.mUntrackedItems
      /\ Carries(r, after)
      /\ \A i \in 1 .. Len(conns) :
           /\ Conns(after)[i].id = conns[i].id
           /\ \A j \in 1 .. k :
                /\ items[j].id = conns[i].id
                /\ \A l \in (j + 1) .. k : items[l].id # conns[i].id
                => Conns(after)[i] = Conn(items[j])
           /\ (\A j \in 1 .. k : items[j].id # conns[i].id) => Conns(after)[i] = conns[i]
      /\ Distinct(items) /\ Grows(conns, items) /\ IsMost(r.mMaxBytes, conns)
           => IsMost(after.mMaxBytes, Conns(after))

LEMMA AppliedStart ==
  ASSUME NEW r, Shape(r), NEW items
  PROVE  Applied(r, items, 0, r)
<1>1. ASSUME NEW n \in Counters PROVE Count(r, n) - SumOf(Measure(n), Conns(r)) \in Int
  BY ConnsAre, CountIs, MeasureIs, SumOfTyped DEF Shape
<1>2. Carries(r, r)
  BY <1>1 DEF Carries
<1>3. \A j \in 1 .. 0 : FALSE
  OBVIOUS
<1> QED
  BY <1>2, <1>3 DEF Applied

LEMMA AppliedNext ==
  ASSUME NEW r, Shape(r), r.mCurItems > 0, InOrder(Conns(r)), NEW items \in Seq(Items),
         NEW k \in 0 .. (Len(items) - 1), NEW before, Applied(r, items, k, before)
  PROVE  Applied(r, items, k + 1, update(before, items[k + 1]))
<1> DEFINE item == items[k + 1]
           conn == Conn(item)
           conns == Conns(r)
           old == Conns(before)
           after == update(before, item)
           new == Conns(after)
<1>1. item \in Items /\ k + 1 \in 1 .. Len(items) /\ conn.id = item.id
      /\ k \in Nat /\ Len(items) \in Nat /\ k < Len(items)
  BY ConnIs
<1>2. conns \in Seq(Slots) /\ Len(conns) = r.mCurItems /\ Len(conns) \in Nat
  BY ConnsAre, RegisterAssumption
<1>3. /\ Shape(before) /\ before.mCurItems = r.mCurItems
      /\ before.mUntrackedItems = r.mUntrackedItems
      /\ Carries(r, before)
      /\ \A i \in 1 .. Len(conns) :
           /\ old[i].id = conns[i].id
           /\ \A j \in 1 .. k :
                /\ items[j].id = conns[i].id
                /\ \A l \in (j + 1) .. k : items[l].id # conns[i].id
                => old[i] = Conn(items[j])
           /\ (\A j \in 1 .. k : items[j].id # conns[i].id) => old[i] = conns[i]
      /\ Distinct(items) /\ Grows(conns, items) /\ IsMost(r.mMaxBytes, conns)
           => IsMost(before.mMaxBytes, old)
  BY DEF Applied
<1>4. old \in Seq(Slots) /\ Len(old) = Len(conns)
  BY <1>2, <1>3, ConnsAre
<1>5. InOrder(old)
  <2> HIDE DEF old, conns
  <2>1. InOrder(conns)
    BY DEF conns
  <2>2. CASE Len(conns) = 0
    BY <1>4, <2>2 DEF InOrder
  <2>3. CASE Len(conns) # 0
    <3>1. 1 \in 1 .. Len(conns)
      BY <1>2, <2>3
    <3>2. old[1].id = conns[1].id
      BY <1>3, <3>1
    <3> QED BY <1>3, <1>4, <2>1, <3>2 DEF InOrder
  <2> QED BY <2>2, <2>3
<1>6. /\ Shape(after) /\ after.mCurItems = before.mCurItems /\ new = Replaced(old, conn)
      /\ \/ after = before
         \/ \E i \in 1 .. Len(old) : Put(before, after, At(before, i - 1), conn, old[i], 0)
  BY <1>1, <1>3, <1>5, UpdateIs
<1>7. Carries(before, after)
  BY <1>1, <1>3, <1>5, UpdateCarries
<1> HIDE DEF conns, old, conn, after, new
<1>8. \A i \in 1 .. Len(conns) : new[i] = IF conns[i].id = item.id THEN conn ELSE old[i]
  <2>1. conn \in Slots
    BY <1>1, ConnIs DEF conn
  <2>2. \A i \in 1 .. Len(old) : new[i] = IF old[i].id = conn.id THEN conn ELSE old[i]
    BY <1>4, <1>6, <2>1, ReplacedIs
  <2> QED BY <1>1, <1>3, <1>4, <2>2
<1>9. after.mUntrackedItems = r.mUntrackedItems
  BY <1>3, <1>6 DEF Put
<1>10. Carries(r, after)
  BY <1>3, <1>6, <1>7, CarriesOn
<1>11. ASSUME NEW i \in 1 .. Len(conns)
       PROVE  /\ new[i].id = conns[i].id
              /\ \A j \in 1 .. (k + 1) :
                   /\ items[j].id = conns[i].id
                   /\ \A l \in (j + 1) .. (k + 1) : items[l].id # conns[i].id
                   => new[i] = Conn(items[j])
              /\ (\A j \in 1 .. (k + 1) : items[j].id # conns[i].id) => new[i] = conns[i]
  <2>1. new[i].id = conns[i].id
    BY <1>1, <1>3, <1>8
  <2>2. ASSUME NEW j \in 1 .. (k + 1), items[j].id = conns[i].id,
               \A l \in (j + 1) .. (k + 1) : items[l].id # conns[i].id
        PROVE  new[i] = Conn(items[j])
    <3>1. CASE j = k + 1
      BY <1>8, <2>2, <3>1 DEF conn
    <3>2. CASE j # k + 1
      <4>1. j \in 1 .. k /\ k + 1 \in (j + 1) .. (k + 1)
        BY <1>1, <3>2
      <4>2. \A l \in (j + 1) .. k : l \in (j + 1) .. (k + 1)
        BY <1>1
      <4>3. old[i] = Conn(items[j])
        BY <1>3, <2>2, <4>1, <4>2
      <4>4. conns[i].id # item.id
        BY <2>2, <4>1
      <4> QED BY <1>8, <4>3, <4>4
    <3> QED BY <3>1, <3>2
  <2>3. ASSUME \A j \in 1 .. (k + 1) : items[j].id # conns[i].id PROVE new[i] = conns[i]
    <3>1. k + 1 \in 1 .. (k + 1) /\ \A j \in 1 .. k : j \in 1 .. (k + 1)
      BY <1>1
    <3> QED BY <1>3, <1>8, <2>3, <3>1
  <2> QED BY <2>1, <2>2, <2>3
<1>12. ASSUME Distinct(items), Grows(conns, items), IsMost(r.mMaxBytes, conns)
       PROVE  IsMost(after.mMaxBytes, new)
  <2>1. ASSUME NEW i \in 1 .. Len(old), old[i].id = item.id
        PROVE  item.view.bytes >= old[i].bytes
    <3>1. i \in 1 .. Len(conns) /\ conns[i].id = item.id
      BY <1>3, <1>4, <2>1
    <3>2. \A j \in 1 .. k : items[j].id # conns[i].id
      <4>1. \A j \in 1 .. k : j \in 1 .. Len(items) /\ j # k + 1
        BY <1>1
      <4> QED BY <1>1, <1>12, <3>1, <4>1 DEF Distinct
    <3>3. old[i] = conns[i]
      BY <1>3, <3>1, <3>2
    <3> QED BY <1>1, <1>12, <3>1, <3>3 DEF Grows
  <2>2. IsMost(before.mMaxBytes, old)
    BY <1>3, <1>12
  <2>3. before.mCurItems > 0
    BY <1>3
  <2> QED BY <1>1, <1>3, <1>5, <2>1, <2>2, <2>3, UpdateMost DEF old, after, new
<1>13. Applied(r, items, k + 1, after)
  <2>1. Shape(after) /\ after.mCurItems = r.mCurItems
    BY <1>3, <1>6
  <2> QED BY <1>9, <1>10, <1>11, <1>12, <2>1 DEF Applied, conns, new
<1> QED
  BY <1>13 DEF after

LEMMA UpdatesDo ==
  ASSUME NEW r, Shape(r), InOrder(Conns(r)), NEW items \in Seq(Items)
  PROVE  Applied(r, items, Len(items), connectionsUpdates(r, items))
<1>1. Len(items) \in Nat /\ r.mCurItems \in Nat
  BY RegisterAssumption DEF Shape, Registers
<1>2. CASE r.mCurItems = 0
  <2>1. connectionsUpdates(r, items) = r
    BY <1>2 DEF connectionsUpdates
  <2>2. Applied(r, items, 0, r) /\ Len(Conns(r)) = 0
    BY <1>2, AppliedStart, ConnsAre
  <2>3. \A i \in 1 .. Len(Conns(r)) : FALSE
    BY <2>2
  <2> QED BY <2>1, <2>2, <2>3 DEF Applied
<1>3. CASE r.mCurItems # 0
  <2>1. PICK after :
          /\ connectionsUpdates(r, items) = after[Len(items)]
          /\ after[0] = r
          /\ \A k \in 1 .. Len(items) : after[k] = update(after[k - 1], items[k])
    BY <1>1, <1>3, ConnectionsUpdatesIs
  <2> DEFINE T == {k \in Nat : Applied(r, items, k, after[k])}
  <2>2. 0 \in T
    BY <2>1, AppliedStart
  <2>3. ASSUME NEW k \in 0 .. (Len(items) - 1), k \in T PROVE k + 1 \in T
    <3>1. r.mCurItems > 0
      BY <1>1, <1>3
    <3>2. Applied(r, items, k + 1, update(after[k], items[k + 1]))
      BY <2>3, <3>1, AppliedNext
    <3>3. k + 1 \in 1 .. Len(items) /\ (k + 1) - 1 = k
      BY <1>1
    <3>4. after[k + 1] = update(after[k], items[k + 1])
      BY <2>1, <3>3
    <3> QED BY <3>2, <3>4
  <2>4. Len(items) \in T
    <3> HIDE DEF T
    <3>1. \A k \in 0 .. Len(items) : k \in T
      BY <1>1, <2>2, <2>3, UpTo
    <3> QED BY <1>1, <3>1
  <2> QED BY <2>1, <2>4
<1> QED
  BY <1>2, <1>3
-----------------------------------------------------------------------------
(* A batch.                                                                 *)

(* The ids of the connections have no gap and end before next.              *)
EndsAt(conns, next) ==
  \A i \in 1 .. Len(conns) : conns[i].id = next - Len(conns) + i - 1

LEMMA EndsInOrder ==
  ASSUME NEW conns \in Seq(Slots), NEW next \in Nat, Len(conns) <= next, EndsAt(conns, next)
  PROVE  InOrder(conns)
<1>1. Len(conns) \in Nat
  OBVIOUS
<1>2. \A i \in 1 .. Len(conns) : conns[i].id >= 0
  BY <1>1 DEF EndsAt
<1>3. ASSUME NEW i \in 1 .. Len(conns) PROVE conns[i].id = conns[1].id + i - 1
  <2>1. 1 \in 1 .. Len(conns)
    BY <1>1
  <2>2. conns[1].id = next - Len(conns) + 1 - 1 /\ conns[i].id = next - Len(conns) + i - 1
    BY <2>1 DEF EndsAt
  <2> QED BY <1>1, <2>2
<1> QED
  BY <1>2, <1>3 DEF InOrder

LEMMA UpdatedIs ==
  ASSUME NEW conns \in Seq(Slots), NEW items \in Seq(Items), Distinct(items)
  PROVE  /\ Updated(conns, items) \in Seq(Slots) /\ Len(Updated(conns, items)) = Len(conns)
         /\ \A i \in 1 .. Len(conns) :
              LET new == Updated(conns, items)[i]
              IN  /\ new.id = conns[i].id
                  /\ \A j \in 1 .. Len(items) : items[j].id = conns[i].id => new = Conn(items[j])
                  /\ (\A j \in 1 .. Len(items) : items[j].id # conns[i].id) => new = conns[i]
<1> DEFINE u == Updated(conns, items)
           about(i) == {item \in ToSet(items) : item.id = conns[i].id}
<1>1. /\ DOMAIN conns = 1 .. Len(conns) /\ Len(conns) \in Nat
      /\ \A i \in 1 .. Len(conns) : conns[i] \in Slots
      /\ DOMAIN items = 1 .. Len(items) /\ \A j \in 1 .. Len(items) : items[j] \in Items
  OBVIOUS
<1>2. \A x : x \in ToSet(items) <=> \E j \in 1 .. Len(items) : x = items[j]
  BY <1>1 DEF ToSet
<1>3. ASSUME NEW i \in 1 .. Len(conns)
      PROVE  /\ u[i] \in Slots /\ u[i].id = conns[i].id
             /\ \A j \in 1 .. Len(items) : items[j].id = conns[i].id => u[i] = Conn(items[j])
             /\ (\A j \in 1 .. Len(items) : items[j].id # conns[i].id) => u[i] = conns[i]
  <2>1. u[i] = IF \E item \in ToSet(items) : item.id = conns[i].id
               THEN Conn(CHOOSE item \in ToSet(items) : item.id = conns[i].id)
               ELSE conns[i]
    BY <1>1 DEF Updated
  <2>2. CASE \A j \in 1 .. Len(items) : items[j].id # conns[i].id
    <3>1. u[i] = conns[i]
      BY <1>2, <2>1, <2>2
    <3> QED BY <1>1, <2>2, <3>1
  <2>3. ASSUME NEW j \in 1 .. Len(items), items[j].id = conns[i].id
        PROVE  u[i] = Conn(items[j])
    <3>1. \A item \in ToSet(items) : item.id = conns[i].id => item = items[j]
      BY <1>2, <2>3 DEF Distinct
    <3>2. items[j] \in ToSet(items)
      BY <1>2
    <3>3. (CHOOSE item \in ToSet(items) : item.id = conns[i].id) = items[j]
      BY <2>3, <3>1, <3>2
    <3> QED BY <2>1, <2>3, <3>2, <3>3
  <2>4. ASSUME NEW j \in 1 .. Len(items), items[j].id = conns[i].id
        PROVE  u[i] \in Slots /\ u[i].id = conns[i].id
    BY <1>1, <2>3, <2>4, ConnIs
  <2> QED BY <1>1, <2>2, <2>3, <2>4
<1>4. DOMAIN u = 1 .. Len(conns)
  BY <1>1 DEF Updated
<1>5. u \in [1 .. Len(conns) -> Slots]
  <2>1. u = [i \in 1 .. Len(conns) |-> u[i]]
    BY <1>1 DEF Updated
  <2> HIDE DEF u
  <2> QED BY <1>3, <2>1
<1> HIDE DEF u
<1>6. u \in Seq(Slots) /\ Len(u) = Len(conns)
  BY <1>1, <1>5, FunctionIsSeq
<1> QED
  BY <1>3, <1>6 DEF u

(* The batches that follow next: new connections in order, and updates of   *)
(* older ones.                                                              *)
Follows(batch, next) ==
  /\ batch.new \in Seq(Items) /\ batch.updates \in Seq(Items)
  /\ \A i \in 1 .. Len(batch.new) : batch.new[i].id = next + i - 1
  /\ \A j \in 1 .. Len(batch.updates) : batch.updates[j].id < next
  /\ Distinct(batch.updates)

LEMMA EndsAtLast ==
  ASSUME NEW conns \in Seq(Slots), NEW next \in Nat, EndsAt(conns, next),
         NEW items \in Seq(Items), \A i \in 1 .. Len(items) : items[i].id = next + i - 1
  PROVE  LET new == NewConns(items, Len(items))
         IN  EndsAt(conns \o new, next + Len(items))
             /\ EndsAt(LastOf(conns \o new), next + Len(items))
<1> DEFINE new == NewConns(items, Len(items))
           n == Len(items)
           m == Len(conns)
           all == conns \o new
           d == IF Len(all) > Size THEN Len(all) - Size ELSE 0
           last == LastOf(all)
<1>1. n \in Nat /\ m \in Nat /\ n \in 0 .. n
  OBVIOUS
<1>2. new \in Seq(Slots) /\ Len(new) = n /\ \A i \in 1 .. n : new[i] = Conn(items[i])
  BY <1>1, NewConnsAre
<1> HIDE DEF new, n, m
<1>3. /\ all \in Seq(Slots) /\ Len(all) = m + n
      /\ \A i \in 1 .. (m + n) : all[i] = IF i <= m THEN conns[i] ELSE new[i - m]
  <2>1. /\ all \in Seq(Slots) /\ Len(all) = Len(conns) + Len(new)
        /\ \A i \in 1 .. (Len(conns) + Len(new)) :
             all[i] = IF i <= Len(conns) THEN conns[i] ELSE new[i - Len(conns)]
    BY <1>2, ConcatIs, Zenon
  <2> QED BY <1>2, <2>1 DEF m
<1> HIDE DEF all
<1>4. ASSUME NEW i \in 1 .. (m + n) PROVE all[i].id = (next - m) + (i - 1)
  <2>1. CASE i <= m
    <3>1. i \in 1 .. m
      BY <1>1, <2>1
    <3>2. conns[i].id = next - m + i - 1
      BY <3>1 DEF EndsAt, m
    <3> QED BY <1>1, <1>3, <2>1, <3>2
  <2>2. CASE ~(i <= m)
    <3>1. i - m \in 1 .. n
      BY <1>1, <2>2
    <3>2. items[i - m] \in Items
      BY <3>1 DEF n
    <3>3. new[i - m] = Conn(items[i - m]) /\ items[i - m].id = next + (i - m) - 1
      BY <1>2, <3>1 DEF n
    <3>4. all[i].id = next + (i - m) - 1
      BY <1>3, <2>2, <3>2, <3>3, ConnIs
    <3> QED BY <1>1, <3>4
  <2> QED BY <2>1, <2>2
<1>5. EndsAt(all, next + n)
  <2> SUFFICES ASSUME NEW i \in 1 .. (m + n)
               PROVE  all[i].id = (next + n) - (m + n) + i - 1
    BY <1>3 DEF EndsAt
  <2> QED BY <1>1, <1>4
<1>6. /\ Len(last) = (m + n) - d /\ d \in Nat /\ Len(last) \in Nat
      /\ \A i \in 1 .. ((m + n) - d) : last[i] = all[i + d]
  BY <1>3, LastOfIs
<1> HIDE DEF d, last
<1>7. EndsAt(last, next + n)
  <2> SUFFICES ASSUME NEW i \in 1 .. ((m + n) - d)
               PROVE  last[i].id = (next + n) - ((m + n) - d) + i - 1
    BY <1>6 DEF EndsAt
  <2>1. i + d \in 1 .. (m + n)
    BY <1>1, <1>6
  <2>2. last[i].id = (next - m) + ((i + d) - 1)
    BY <1>4, <1>6, <2>1
  <2> QED BY <1>1, <1>6, <2>2
<1> QED
  BY <1>5, <1>7 DEF last, all, new, n

(* new is old, overwritten by the items about the connections of old.       *)
Overwrites(old, items, new) ==
  /\ old \in Seq(Slots) /\ new \in Seq(Slots) /\ Len(new) = Len(old)
  /\ \A i \in 1 .. Len(old) :
       /\ new[i] \in Slots /\ new[i].id = old[i].id
       /\ \A j \in 1 .. Len(items) : items[j].id = old[i].id => new[i] = Conn(items[j])
       /\ (\A j \in 1 .. Len(items) : items[j].id # old[i].id) => new[i] = old[i]

(* Updates reach only the connections before the new ones.                  *)
LEMMA UpdatedConcat ==
  ASSUME NEW conns \in Seq(Slots), NEW next \in Nat, EndsAt(conns, next),
         NEW batch, Follows(batch, next)
  PROVE  LET new == NewConns(batch.new, Len(batch.new))
             all == conns \o new
             latest == Updated(conns, batch.updates) \o new
         IN  /\ Overwrites(all, batch.updates, latest)
             /\ Grows(conns, batch.updates) => Grows(all, batch.updates)
<1> DEFINE items == batch.updates
           n == Len(batch.new)
           m == Len(conns)
           new == NewConns(batch.new, Len(batch.new))
           all == conns \o new
           u == Updated(conns, items)
           latest == u \o new
<1>1. /\ batch.new \in Seq(Items) /\ items \in Seq(Items) /\ Distinct(items)
      /\ \A i \in 1 .. n : batch.new[i].id = next + i - 1
      /\ \A j \in 1 .. Len(items) : items[j].id < next
      /\ n \in Nat /\ m \in Nat /\ n \in 0 .. n
  BY DEF Follows
<1>2. new \in Seq(Slots) /\ Len(new) = n /\ \A i \in 1 .. n : new[i] = Conn(batch.new[i])
  BY <1>1, NewConnsAre
<1>3. /\ u \in Seq(Slots) /\ Len(u) = m
      /\ \A i \in 1 .. m :
           /\ u[i].id = conns[i].id
           /\ \A j \in 1 .. Len(items) : items[j].id = conns[i].id => u[i] = Conn(items[j])
           /\ (\A j \in 1 .. Len(items) : items[j].id # conns[i].id) => u[i] = conns[i]
  BY <1>1, UpdatedIs
<1> HIDE DEF new, u, items
<1>4. /\ all \in Seq(Slots) /\ Len(all) = m + n
      /\ \A i \in 1 .. (m + n) : all[i] = IF i <= m THEN conns[i] ELSE new[i - m]
  <2>0. new \in Seq(Slots)
    BY <1>2
  <2>1. /\ all \in Seq(Slots) /\ Len(all) = Len(conns) + Len(new)
        /\ \A i \in 1 .. (Len(conns) + Len(new)) :
             all[i] = IF i <= Len(conns) THEN conns[i] ELSE new[i - Len(conns)]
    BY <2>0, ConcatIs
  <2> QED BY <1>2, <2>1
<1>5. /\ latest \in Seq(Slots) /\ Len(latest) = m + n
      /\ \A i \in 1 .. (m + n) : latest[i] = IF i <= m THEN u[i] ELSE new[i - m]
  <2>1. /\ latest \in Seq(Slots) /\ Len(latest) = Len(u) + Len(new)
        /\ \A i \in 1 .. (Len(u) + Len(new)) :
             latest[i] = IF i <= Len(u) THEN u[i] ELSE new[i - Len(u)]
    <3>1. u \in Seq(Slots) /\ new \in Seq(Slots)
      BY <1>2, <1>3
    <3> QED BY <3>1, ConcatProperties
  <2> QED BY <1>2, <1>3, <2>1
<1> HIDE DEF all, latest, n, m
<1>6. ASSUME NEW i \in 1 .. (m + n), ~(i <= m), NEW j \in 1 .. Len(items)
      PROVE  items[j].id # all[i].id
  <2>1. i - m \in 1 .. n
    BY <1>1, <1>6
  <2>2. batch.new[i - m] \in Items
    BY <1>1, <2>1 DEF n
  <2>3. all[i].id = next + (i - m) - 1
    BY <1>1, <1>2, <1>4, <1>6, <2>1, <2>2, ConnIs
  <2>4. items[j].id < next /\ items[j] \in Items
    BY <1>1
  <2>5. items[j].id \in Int
    BY <2>4 DEF Items
  <2> QED BY <1>1, <2>1, <2>3, <2>4, <2>5
<1>7. ASSUME NEW i \in 1 .. (m + n)
      PROVE  /\ latest[i] \in Slots /\ latest[i].id = all[i].id
             /\ \A j \in 1 .. Len(items) : items[j].id = all[i].id => latest[i] = Conn(items[j])
             /\ (\A j \in 1 .. Len(items) : items[j].id # all[i].id) => latest[i] = all[i]
  <2>1. latest[i] \in Slots
    BY <1>5
  <2>2. CASE i <= m
    <3>1. i \in 1 .. m
      BY <1>1, <2>2
    <3>2. latest[i] = u[i] /\ all[i] = conns[i]
      BY <1>4, <1>5, <2>2
    <3> QED BY <1>3, <2>1, <3>1, <3>2
  <2>3. CASE ~(i <= m)
    <3>1. latest[i] = all[i]
      BY <1>4, <1>5, <2>3
    <3> QED BY <1>6, <2>1, <2>3, <3>1
  <2> QED BY <2>2, <2>3
<1>8. ASSUME Grows(conns, items) PROVE Grows(all, items)
  <2> SUFFICES ASSUME NEW i \in 1 .. (m + n), NEW j \in 1 .. Len(items), items[j].id = all[i].id
               PROVE  items[j].view.bytes >= all[i].bytes
    BY <1>4 DEF Grows
  <2>1. i <= m
    BY <1>6
  <2>2. i \in 1 .. m /\ all[i] = conns[i]
    BY <1>1, <1>4, <2>1
  <2> QED BY <1>8, <2>2 DEF Grows, m
<1> QED
  BY <1>4, <1>5, <1>7, <1>8 DEF Overwrites, items, new, all, latest, u

(* A batch of connUpdateWork: the register then shows the last Size of what *)
(* was shown, updated, and the new connections.                             *)
LEMMA HandleIs ==
  ASSUME NEW r, Shape(r), NEW next \in Nat, EndsAt(Conns(r), next), Len(Conns(r)) <= next,
         NEW batch, Follows(batch, next)
  PROVE  LET after == handle(r, batch)
             n == Len(batch.new)
         IN  /\ Shape(after)
             /\ Conns(after) = LastOf(Updated(Conns(r), batch.updates) \o NewConns(batch.new, n))
             /\ EndsAt(Conns(after), next + n) /\ Len(Conns(after)) <= next + n
             /\ after.mUntrackedItems + after.mCurItems = r.mUntrackedItems + r.mCurItems + n
             /\ Carries(r, after)
             /\ Grows(Conns(r), batch.updates) /\ IsMost(r.mMaxBytes, Conns(r))
                  => IsMost(after.mMaxBytes, Conns(after))
<1> DEFINE items == batch.updates
           n == Len(batch.new)
           conns == Conns(r)
           new == NewConns(batch.new, Len(batch.new))
           all == conns \o new
           latest == Updated(conns, items) \o new
           between == newConnections(r, batch.new)
           shown == Conns(between)
           after == connectionsUpdates(between, items)
           last == Conns(after)
<1>1. /\ batch.new \in Seq(Items) /\ items \in Seq(Items) /\ Distinct(items)
      /\ \A i \in 1 .. n : batch.new[i].id = next + i - 1
      /\ n \in Nat
  BY DEF Follows
<1>2. conns \in Seq(Slots) /\ EndsAt(conns, next) /\ Len(conns) <= next /\ Len(conns) \in Nat
  BY ConnsAre
<1>3. /\ Shape(between) /\ shown = LastOf(all)
      /\ between.mUntrackedItems + between.mCurItems = r.mUntrackedItems + r.mCurItems + n
      /\ Carries(r, between)
      /\ IsMost(r.mMaxBytes, conns) => IsMost(between.mMaxBytes, shown)
  BY <1>1, NewConnectionsIs
<1> HIDE DEF conns, between, shown
<1>4. EndsAt(LastOf(all), next + n)
  BY <1>1, <1>2, EndsAtLast
<1>5. /\ all \in Seq(Slots) /\ latest \in Seq(Slots) /\ Len(latest) = Len(all)
      /\ \A i \in 1 .. Len(all) :
           /\ latest[i] \in Slots /\ latest[i].id = all[i].id
           /\ \A j \in 1 .. Len(items) : items[j].id = all[i].id => latest[i] = Conn(items[j])
           /\ (\A j \in 1 .. Len(items) : items[j].id # all[i].id) => latest[i] = all[i]
      /\ Grows(conns, items) => Grows(all, items)
  <2>1. Overwrites(all, items, latest) /\ (Grows(conns, items) => Grows(all, items))
    BY <1>2, UpdatedConcat
  <2> HIDE DEF all, latest, items
  <2> QED BY <2>1 DEF Overwrites
<1>6. Len(all) = Len(conns) + n
  <2>1. n \in 0 .. n
    BY <1>1
  <2>2. new \in Seq(Slots) /\ Len(new) = n
    BY <1>1, <2>1, NewConnsAre
  <2> HIDE DEF new, n
  <2>3. Len(conns \o new) = Len(conns) + Len(new)
    BY <1>2, <2>2, ConcatProperties
  <2> QED BY <2>2, <2>3
<1> HIDE DEF new, all, latest, items, n
<1> DEFINE d == IF Len(all) > Size THEN Len(all) - Size ELSE 0
<1>7. /\ shown \in Seq(Slots) /\ Len(shown) = Len(all) - d /\ d \in Nat /\ Len(shown) \in Nat
      /\ Len(shown) <= Len(all) /\ Len(all) \in Nat
      /\ \A i \in 1 .. Len(shown) : shown[i] = all[i + d] /\ i + d \in 1 .. Len(all)
  <2>1. /\ LastOf(all) \in Seq(Slots) /\ Len(LastOf(all)) = Len(all) - d
        /\ \A i \in 1 .. (Len(all) - d) : LastOf(all)[i] = all[i + d]
    BY <1>5, LastOfIs
  <2>2. Len(all) \in Nat /\ Size \in Nat
    BY <1>5, RegisterAssumption
  <2>3. d \in Nat /\ d <= Len(all)
    BY <2>2
  <2> HIDE DEF d
  <2>4. Len(all) - d \in Nat /\ Len(all) - d <= Len(all)
        /\ \A i \in 1 .. (Len(all) - d) : i + d \in 1 .. Len(all)
    BY <2>2, <2>3
  <2> QED BY <1>3, <2>1, <2>2, <2>3, <2>4
<1>8. /\ LastOf(latest) \in Seq(Slots) /\ Len(LastOf(latest)) = Len(shown)
      /\ \A i \in 1 .. Len(shown) : LastOf(latest)[i] = latest[i + d]
  <2>1. /\ LastOf(latest) \in Seq(Slots) /\ Len(LastOf(latest)) = Len(all) - d
        /\ \A i \in 1 .. (Len(all) - d) : LastOf(latest)[i] = latest[i + d]
    BY <1>5, LastOfIs
  <2> QED BY <1>7, <2>1
<1> HIDE DEF d
<1>9. InOrder(shown)
  <2>1. next + n \in Nat /\ Len(shown) <= next + n
    BY <1>1, <1>2, <1>6, <1>7
  <2> QED BY <1>3, <1>4, <1>7, <2>1, EndsInOrder
<1>10. Applied(between, items, Len(items), after)
  BY <1>1, <1>3, <1>9, UpdatesDo DEF shown
<1> HIDE DEF after, last
<1>11. /\ Shape(after) /\ after.mCurItems = between.mCurItems
       /\ after.mUntrackedItems = between.mUntrackedItems
       /\ Carries(between, after)
       /\ \A i \in 1 .. Len(shown) :
            /\ last[i].id = shown[i].id
            /\ \A j \in 1 .. Len(items) :
                 /\ items[j].id = shown[i].id
                 /\ \A l \in (j + 1) .. Len(items) : items[l].id # shown[i].id
                 => last[i] = Conn(items[j])
            /\ (\A j \in 1 .. Len(items) : items[j].id # shown[i].id) => last[i] = shown[i]
       /\ Grows(shown, items) /\ IsMost(between.mMaxBytes, shown)
            => IsMost(after.mMaxBytes, last)
  BY <1>1, <1>10 DEF Applied, shown, last
<1>12. last \in Seq(Slots) /\ Len(last) = Len(shown)
  BY <1>3, <1>11, ConnsAre DEF last, shown
<1>13. ASSUME NEW i \in 1 .. Len(shown) PROVE last[i] = LastOf(latest)[i]
  <2>1. i + d \in 1 .. Len(all) /\ shown[i] = all[i + d] /\ LastOf(latest)[i] = latest[i + d]
    BY <1>7, <1>8
  <2>2. CASE \A j \in 1 .. Len(items) : items[j].id # shown[i].id
    BY <1>5, <1>11, <2>1, <2>2
  <2>3. ASSUME NEW j \in 1 .. Len(items), items[j].id = shown[i].id
        PROVE  last[i] = LastOf(latest)[i]
    <3>1. \A l \in (j + 1) .. Len(items) : items[l].id # shown[i].id
      <4>1. \A l \in (j + 1) .. Len(items) : l \in 1 .. Len(items) /\ l # j
        BY <1>1
      <4> QED BY <1>1, <2>3, <4>1 DEF Distinct
    <3>2. last[i] = Conn(items[j])
      BY <1>11, <2>3, <3>1
    <3>3. latest[i + d] = Conn(items[j])
      BY <1>5, <2>1, <2>3
    <3> QED BY <2>1, <3>2, <3>3
  <2> QED BY <2>2, <2>3
<1>14. last = LastOf(latest)
  BY <1>8, <1>12, <1>13, SeqEqual
<1>15. EndsAt(last, next + n) /\ Len(last) <= next + n
  <2>1. EndsAt(last, next + n)
    BY <1>3, <1>4, <1>11, <1>12 DEF EndsAt
  <2> QED BY <1>1, <1>2, <1>6, <1>7, <1>12, <2>1
<1>16. Carries(r, after)
  BY <1>3, <1>11, CarriesOn
<1>17. ASSUME Grows(conns, items), IsMost(r.mMaxBytes, conns)
       PROVE  IsMost(after.mMaxBytes, last)
  <2>1. Grows(shown, items)
    BY <1>5, <1>7, <1>17 DEF Grows
  <2> QED BY <1>3, <1>11, <1>17, <2>1
<1>18. after = handle(r, batch)
  BY DEF after, handle, between, items
<1> QED
  BY <1>3, <1>11, <1>14, <1>15, <1>16, <1>17, <1>18
     DEF last, latest, new, items, n, conns
-----------------------------------------------------------------------------
(* The inductive invariant.                                                 *)
Malicious == [kind |-> "malicious"]

(* The counters whose number goes on when the user clears the statistics.   *)
Kept(n) == n.kind \in {"malicious", "blocked"}

(* No counter falls behind what is shown.                                   *)
Covered(r, cut) ==
  \A n \in Counters :
    Kept(n) \/ ~cut => Count(r, n) >= SumOf(Measure(n), Conns(r))

(* The two numbers that follow what is shown exactly.                       *)
Exact(r) ==
  /\ Count(r, Malicious) = SumOf(Measure(Malicious), Conns(r))
  /\ IsMost(r.mMaxBytes, Conns(r))

(* A register that has shown the connections up to next, count of them      *)
(* since the last reset.                                                    *)
Good(r, next, count, cut) ==
  /\ Shape(r)
  /\ next \in 0 .. MaxId /\ count \in 0 .. next
  /\ EndsAt(Conns(r), next) /\ Len(Conns(r)) <= next
  /\ r.mUntrackedItems + r.mCurItems = count
  /\ Covered(r, cut)
  /\ next = count => Exact(r)

IInv ==
  /\ recent = Conns(reg) /\ stats_cut \in BOOLEAN
  /\ Good(reg, next_id, received, stats_cut)

(* An empty register, whatever its counters.                                *)
LEMMA EmptyIs ==
  ASSUME NEW r, r \in Registers, r.mCurItems = 0
  PROVE  /\ Conns(r) \in Seq(Slots) /\ Conns(r) = <<>> /\ Len(Conns(r)) = 0
         /\ \A n \in Counters : SumOf(Measure(n), Conns(r)) = 0
<1>1. Conns(r) = <<>>
  BY DEF Conns
<1>2. Conns(r) \in Seq(Slots) /\ Len(Conns(r)) = 0
  BY <1>1
<1>3. ASSUME NEW n \in Counters PROVE SumOf(Measure(n), Conns(r)) = 0
  BY <1>1, MeasureIs, SumOfOne
<1> QED
  BY <1>1, <1>2, <1>3
LEMMA MaliciousIs == Malicious \in Counters /\ Kept(Malicious)
  BY DEF Malicious, Counters, Kept

LEMMA GoodHandle ==
  ASSUME NEW r, NEW next, NEW count, NEW cut \in BOOLEAN, Good(r, next, count, cut),
         NEW batch, Follows(batch, next), Grows(Conns(r), batch.updates),
         next + Len(batch.new) <= MaxId
  PROVE  Good(handle(r, batch), next + Len(batch.new), count + Len(batch.new), cut)
<1> DEFINE after == handle(r, batch)
           n == Len(batch.new)
<1>1. /\ Shape(r) /\ next \in Nat /\ count \in Nat /\ count <= next /\ MaxId \in Nat
      /\ EndsAt(Conns(r), next) /\ Len(Conns(r)) <= next
  BY RegisterAssumption DEF Good
<1>2. /\ Shape(after)
      /\ EndsAt(Conns(after), next + n) /\ Len(Conns(after)) <= next + n
      /\ after.mUntrackedItems + after.mCurItems = r.mUntrackedItems + r.mCurItems + n
      /\ Carries(r, after)
      /\ Grows(Conns(r), batch.updates) /\ IsMost(r.mMaxBytes, Conns(r))
           => IsMost(after.mMaxBytes, Conns(after))
  BY <1>1, HandleIs
<1>3. n \in Nat /\ next + n <= MaxId
  BY DEF Follows
<1> HIDE DEF after, n
<1>4. next + n \in 0 .. MaxId /\ count + n \in 0 .. (next + n)
  BY <1>1, <1>3
<1>5. after.mUntrackedItems + after.mCurItems = count + n
  BY <1>2 DEF Good
<1>6. ASSUME NEW c \in Counters
      PROVE  /\ Count(r, c) \in Int /\ SumOf(Measure(c), Conns(r)) \in Int
             /\ Count(after, c) \in Int /\ SumOf(Measure(c), Conns(after)) \in Int
             /\ Count(after, c) - SumOf(Measure(c), Conns(after))
                  >= Count(r, c) - SumOf(Measure(c), Conns(r))
             /\ c.kind = "malicious" =>
                  Count(after, c) - SumOf(Measure(c), Conns(after))
                    = Count(r, c) - SumOf(Measure(c), Conns(r))
  <2>1. /\ Count(r, c) \in Int /\ SumOf(Measure(c), Conns(r)) \in Int
        /\ Count(after, c) \in Int /\ SumOf(Measure(c), Conns(after)) \in Int
    BY <1>1, <1>2, ConnsAre, CountIs, MeasureIs, SumOfTyped DEF Shape
  <2> QED BY <1>2, <2>1 DEF Carries
<1>7. Covered(after, cut)
  <2> SUFFICES ASSUME NEW c \in Counters, Kept(c) \/ ~cut
               PROVE  Count(after, c) >= SumOf(Measure(c), Conns(after))
    BY DEF Covered
  <2>1. Count(r, c) >= SumOf(Measure(c), Conns(r))
    BY DEF Good, Covered
  <2> QED BY <1>6, <2>1
<1>8. ASSUME next + n = count + n PROVE Exact(after)
  <2>1. next = count
    BY <1>1, <1>3, <1>8
  <2>2. Exact(r)
    BY <2>1 DEF Good
  <2>3. Count(r, Malicious) = SumOf(Measure(Malicious), Conns(r)) /\ IsMost(r.mMaxBytes, Conns(r))
    BY <2>2 DEF Exact
  <2>4. Count(after, Malicious) = SumOf(Measure(Malicious), Conns(after))
    <3>1. Malicious.kind = "malicious"
      BY DEF Malicious
    <3> QED BY <1>6, <2>3, <3>1, MaliciousIs
  <2> QED BY <1>2, <2>3, <2>4 DEF Exact
<1>9. Good(after, next + n, count + n, cut)
  BY <1>2, <1>4, <1>5, <1>7, <1>8 DEF Good
<1> QED
  BY <1>9 DEF after, n

LEMMA ResetIs ==
  ASSUME NEW r \in Registers
  PROVE  LET after == reset(r)
         IN  /\ Shape(after) /\ after.mCurItems = 0 /\ after.mUntrackedItems = 0
             /\ after.mMaxBytes = r.mMaxBytes
             /\ \A n \in Counters : Count(after, n) = IF Kept(n) THEN Count(r, n) ELSE 0
<1> DEFINE after == reset(r)
<1>1. /\ [p \in 0 .. (Size - 1) |-> NoItem] \in [0 .. (Size - 1) -> Slots]
      /\ [u \in Uids |-> NoStats] \in [Uids -> Stats]
  BY NoItemIs DEF NoStats, Stats
<1>2. 0 \in 0 .. (Size - 1) /\ 0 \in 0 .. Size /\ 0 \in Nat
  BY RegisterAssumption
<1>3. /\ after.mItemsRing = [p \in 0 .. (Size - 1) |-> NoItem]
      /\ after.mTail = 0 /\ after.mCurItems = 0 /\ after.mUntrackedItems = 0
      /\ after.mNumMalicious = r.mNumMalicious /\ after.mNumBlocked = r.mNumBlocked
      /\ after.mMaxBytes = r.mMaxBytes /\ after.mAppsStats = [u \in Uids |-> NoStats]
      /\ after \in Registers
  BY <1>1, <1>2 DEF reset, Empty, Registers, Stats
<1> HIDE DEF after
<1>4. ASSUME NEW n \in Counters PROVE Count(after, n) = IF Kept(n) THEN Count(r, n) ELSE 0
  <2>1. n.kind \in {"malicious", "blocked"} \/
        (n.kind \in {"bytes", "numBlocked", "numConnections"} /\ n.uid \in Uids)
    BY DEF Counters
  <2> QED BY <1>3, <2>1 DEF Count, Kept, NoStats
<1> QED
  BY <1>3, <1>4 DEF Shape, after

LEMMA GoodReset ==
  ASSUME NEW r, NEW next, NEW count, NEW cut \in BOOLEAN, Good(r, next, count, cut)
  PROVE  Good(reset(r), next, 0, FALSE)
<1> DEFINE after == reset(r)
<1>1. /\ Shape(r) /\ r \in Registers /\ next \in Nat /\ next <= MaxId /\ MaxId \in Nat
      /\ count \in 0 .. next
  BY RegisterAssumption DEF Good, Shape
<1>2. /\ Shape(after) /\ after.mCurItems = 0 /\ after.mUntrackedItems = 0
      /\ after.mMaxBytes = r.mMaxBytes
      /\ \A n \in Counters : Count(after, n) = IF Kept(n) THEN Count(r, n) ELSE 0
  BY <1>1, ResetIs
<1> HIDE DEF after
<1>3. /\ Len(Conns(after)) = 0 /\ \A n \in Counters : SumOf(Measure(n), Conns(after)) = 0
  BY <1>2, EmptyIs DEF Shape
<1>4. ASSUME NEW n \in Counters
      PROVE  /\ Count(r, n) \in Int /\ SumOf(Measure(n), Conns(r)) \in Nat
             /\ Kept(n) => Count(r, n) >= 0
  <2>1. Count(r, n) \in Int /\ SumOf(Measure(n), Conns(r)) \in Nat
    BY <1>1, ConnsAre, CountIs, MeasureIs, SumOfTyped
  <2> QED BY <2>1 DEF Good, Covered
<1>5. Covered(after, FALSE)
  <2> SUFFICES ASSUME NEW n \in Counters PROVE Count(after, n) >= SumOf(Measure(n), Conns(after))
    BY DEF Covered
  <2> QED BY <1>2, <1>3, <1>4
<1>6. ASSUME next = 0 PROVE Exact(after)
  <2>1. Exact(r) /\ Len(Conns(r)) = 0
    <3>1. Len(Conns(r)) \in Nat
      BY <1>1, ConnsAre
    <3> QED BY <1>1, <1>6, <3>1 DEF Good
  <2>2. SumOf(Measure(Malicious), Conns(r)) = 0
    <3>1. r.mCurItems = 0
      BY <1>1, <2>1, ConnsAre
    <3> QED BY <1>1, <3>1, MaliciousIs, EmptyIs
  <2>3. Count(after, Malicious) = 0
    BY <1>2, <2>1, <2>2, MaliciousIs DEF Exact
  <2>4. r.mMaxBytes = 0
    <3>1. \A i \in 1 .. Len(Conns(r)) : FALSE
      BY <2>1
    <3> QED BY <2>1, <3>1 DEF Exact, IsMost, Occurs
  <2>5. IsMost(after.mMaxBytes, Conns(after))
    <3>1. \A i \in 1 .. Len(Conns(after)) : FALSE
      BY <1>3
    <3> QED BY <1>2, <2>4, <3>1 DEF IsMost, Bounds
  <2> QED BY <1>3, <2>3, <2>5, MaliciousIs DEF Exact
<1>7. EndsAt(Conns(after), next)
  <2>1. \A i \in 1 .. Len(Conns(after)) : FALSE
    BY <1>3
  <2> QED BY <2>1 DEF EndsAt
<1>8. next \in 0 .. MaxId /\ 0 \in 0 .. next
  BY <1>1
<1>9. Good(after, next, 0, FALSE)
  <2>1. Len(Conns(after)) <= next /\ after.mUntrackedItems + after.mCurItems = 0
    BY <1>1, <1>2, <1>3
  <2> QED BY <1>2, <1>5, <1>6, <1>7, <1>8, <2>1 DEF Good
<1> QED
  BY <1>9 DEF after

(* AppsStats are cleared.                                                   *)
LEMMA GoodClear ==
  ASSUME NEW r, NEW next, NEW count, NEW cut \in BOOLEAN, Good(r, next, count, cut)
  PROVE  LET after == [r EXCEPT !.mAppsStats = [u \in Uids |-> NoStats]]
         IN  Conns(after) = Conns(r) /\ Good(after, next, count, cut \/ r.mCurItems > 0)
<1> DEFINE after == [r EXCEPT !.mAppsStats = [u \in Uids |-> NoStats]]
<1>1. Shape(r) /\ r \in Registers
  BY DEF Good, Shape
<1>2. [u \in Uids |-> NoStats] \in [Uids -> Stats]
  BY DEF NoStats, Stats
<1>3. /\ after \in Registers
      /\ after.mItemsRing = r.mItemsRing /\ after.mTail = r.mTail
      /\ after.mCurItems = r.mCurItems /\ after.mUntrackedItems = r.mUntrackedItems
      /\ after.mMaxBytes = r.mMaxBytes /\ after.mNumMalicious = r.mNumMalicious
      /\ after.mNumBlocked = r.mNumBlocked /\ after.mAppsStats = [u \in Uids |-> NoStats]
  BY <1>1, <1>2 DEF Registers, Stats
<1> HIDE DEF after
<1>4. Shape(after) /\ Conns(after) = Conns(r)
  <2>1. Conns(after) = Conns(r)
    BY <1>3 DEF Conns, getConn, firstPos
  <2> QED BY <1>1, <1>3, <2>1 DEF Shape
<1>5. ASSUME NEW n \in Counters PROVE Count(after, n) = IF Kept(n) THEN Count(r, n) ELSE 0
  <2>1. n.kind \in {"malicious", "blocked"} \/
        (n.kind \in {"bytes", "numBlocked", "numConnections"} /\ n.uid \in Uids)
    BY DEF Counters
  <2> QED BY <1>3, <2>1 DEF Count, Kept, NoStats
<1>6. Covered(after, cut \/ r.mCurItems > 0)
  <2> SUFFICES ASSUME NEW n \in Counters, Kept(n) \/ ~(cut \/ r.mCurItems > 0)
               PROVE  Count(after, n) >= SumOf(Measure(n), Conns(after))
    BY DEF Covered
  <2>1. CASE Kept(n)
    BY <1>4, <1>5, <2>1 DEF Good, Covered
  <2>2. CASE ~Kept(n)
    <3>1. r.mCurItems = 0
      BY <1>1, <2>2, RegisterAssumption DEF Registers
    <3> QED BY <1>1, <1>4, <1>5, <2>2, <3>1, EmptyIs
  <2> QED BY <2>1, <2>2
<1>7. Exact(r) => Exact(after)
  BY <1>3, <1>4, <1>5, MaliciousIs DEF Exact
<1>8. Good(after, next, count, cut \/ r.mCurItems > 0)
  BY <1>3, <1>4, <1>6, <1>7 DEF Good
<1> QED
  BY <1>4, <1>8 DEF after
LEMMA InitIInv == Init => IInv
<1> SUFFICES ASSUME Init PROVE IInv
  OBVIOUS
<1>1. reg = Empty /\ next_id = 0 /\ recent = <<>> /\ received = 0 /\ stats_cut = FALSE
  BY DEF Init
<1>2. Empty \in Registers
  <2>1. /\ [p \in 0 .. (Size - 1) |-> NoItem] \in [0 .. (Size - 1) -> Slots]
        /\ [u \in Uids |-> NoStats] \in [Uids -> Stats]
    BY NoItemIs DEF NoStats, Stats
  <2> QED BY <2>1, RegisterAssumption DEF Empty, Registers, Stats
<1>3. /\ Empty.mCurItems = 0 /\ Empty.mTail = 0 /\ Empty.mUntrackedItems = 0
      /\ Empty.mMaxBytes = 0 /\ Empty.mNumMalicious = 0 /\ Empty.mNumBlocked = 0
      /\ Empty.mAppsStats = [u \in Uids |-> NoStats]
  BY DEF Empty
<1>4. ASSUME NEW n \in Counters PROVE Count(Empty, n) = 0
  <2>1. n.kind \in {"malicious", "blocked"} \/
        (n.kind \in {"bytes", "numBlocked", "numConnections"} /\ n.uid \in Uids)
    BY DEF Counters
  <2> QED BY <1>3, <2>1 DEF Count, NoStats
<1>5. Conns(Empty) = <<>> /\ Len(Conns(Empty)) = 0
      /\ \A n \in Counters : SumOf(Measure(n), Conns(Empty)) = 0
  BY <1>2, <1>3, EmptyIs
<1>6. \A i \in 1 .. Len(Conns(Empty)) : FALSE
  BY <1>5
<1> HIDE DEF Empty
<1>7. Exact(Empty)
  BY <1>3, <1>4, <1>5, <1>6, MaliciousIs DEF Exact, IsMost, Bounds
<1>8. Covered(Empty, FALSE)
  BY <1>4, <1>5 DEF Covered
<1>9. 0 \in 0 .. MaxId /\ 0 \in 0 .. 0
  BY RegisterAssumption
<1>10. Good(Empty, 0, 0, FALSE)
  <2>1. Empty.mUntrackedItems + Empty.mCurItems = 0 /\ EndsAt(Conns(Empty), 0)
    BY <1>3, <1>6 DEF EndsAt
  <2>2. Len(Conns(Empty)) <= 0 /\ Shape(Empty)
    BY <1>2, <1>3, <1>5 DEF Shape
  <2> QED BY <1>7, <1>8, <1>9, <2>1, <2>2 DEF Good
<1> QED
  BY <1>1, <1>5, <1>10 DEF IInv

(* The updates of Receive.                                                  *)
LEMMA UpdatesAre ==
  ASSUME NEW updates \in PossibleUpdates
  PROVE  /\ \E k \in 0 .. MaxUpdates :
              updates \in [1 .. k -> [id: 0 .. (next_id - 1), view: Views]]
         /\ \A i, j \in DOMAIN updates : updates[i].id = updates[j].id => i = j
         /\ \A item \in ToSet(updates) : \A c \in ToSet(recent) :
              c.id = item.id => item.view.bytes >= c.bytes
  BY DEF PossibleUpdates

(* The batches of Receive follow next_id.                                   *)
BatchOf(n, next, views, updates) ==
  [new |-> [i \in 1 .. n |-> [id |-> next + i - 1, view |-> views[i]]], updates |-> updates]

LEMMA ReceivedFollow ==
  ASSUME NEW n \in Nat, NEW next \in Nat, next + n <= MaxId,
         NEW views \in [1 .. n -> Views], NEW k \in Nat,
         NEW updates \in [1 .. k -> [id: 0 .. (next - 1), view: Views]],
         \A i, j \in DOMAIN updates : updates[i].id = updates[j].id => i = j,
         NEW batch, batch = BatchOf(n, next, views, updates)
  PROVE  Follows(batch, next) /\ Len(batch.new) = n
<1> DEFINE new == [i \in 1 .. n |-> [id |-> next + i - 1, view |-> views[i]]]
<1>1. MaxId \in Nat
  BY RegisterAssumption
<1>2. new \in [1 .. n -> Items]
  <2>1. ASSUME NEW i \in 1 .. n PROVE [id |-> next + i - 1, view |-> views[i]] \in Items
    <3>1. next + i - 1 \in 0 .. (MaxId - 1) /\ views[i] \in Views
      BY <1>1
    <3> QED BY <3>1 DEF Items
  <2> QED BY <2>1
<1>3. \A i \in 1 .. n : new[i].id = next + i - 1
  OBVIOUS
<1> HIDE DEF new
<1>4. new \in Seq(Items) /\ Len(new) = n
  BY <1>2
<1>5. /\ updates \in Seq(Items) /\ Len(updates) = k /\ DOMAIN updates = 1 .. k
      /\ \A j \in 1 .. k : updates[j].id < next
  <2>1. ASSUME NEW j \in 1 .. k PROVE updates[j] \in Items /\ updates[j].id < next
    <3>1. updates[j] \in [id: 0 .. (next - 1), view: Views]
      OBVIOUS
    <3>2. updates[j].id \in 0 .. (next - 1)
      BY <3>1
    <3>3. 0 .. (next - 1) \subseteq 0 .. (MaxId - 1) /\ updates[j].id < next
      BY <1>1, <3>2
    <3> QED BY <3>1, <3>3 DEF Items
  <2>2. updates \in [1 .. k -> Items]
    BY <2>1
  <2> QED BY <2>1, <2>2, FunctionIsSeq
<1>6. Distinct(updates)
  BY <1>5 DEF Distinct
<1> QED
  BY <1>3, <1>4, <1>5, <1>6 DEF new, Follows, BatchOf

LEMMA ReceiveIInv == IInv /\ Receive => IInv'
<1> SUFFICES ASSUME IInv, Receive PROVE IInv'
  OBVIOUS
<1>1. /\ Good(reg, next_id, received, stats_cut) /\ stats_cut \in BOOLEAN
      /\ recent = Conns(reg) /\ Shape(reg)
      /\ next_id \in Nat /\ received \in Nat /\ Len(Conns(reg)) <= next_id
      /\ EndsAt(Conns(reg), next_id)
  BY RegisterAssumption DEF IInv, Good
<1>2. PICK n \in 0 .. MaxBatch, updates \in PossibleUpdates :
        /\ next_id + n <= MaxId
        /\ \E views \in [1 .. n -> Views] :
             connUpdateWork([new |-> [i \in 1 .. n |-> [id |-> next_id + i - 1, view |-> views[i]]],
                             updates |-> updates])
  BY DEF Receive
<1>3. PICK views \in [1 .. n -> Views] : connUpdateWork(BatchOf(n, next_id, views, updates))
  BY <1>2 DEF BatchOf
<1> DEFINE batch == BatchOf(n, next_id, views, updates)
           after == handle(reg, batch)
<1>4. n \in Nat
  BY RegisterAssumption
<1>5. PICK k \in 0 .. MaxUpdates :
        updates \in [1 .. k -> [id: 0 .. (next_id - 1), view: Views]]
  BY <1>2, UpdatesAre
<1>6. Follows(batch, next_id) /\ Len(batch.new) = n
  <2>1. k \in Nat /\ next_id \in Nat /\ next_id + n <= MaxId
    BY <1>1, <1>2, RegisterAssumption
  <2>2. \A i, j \in DOMAIN updates : updates[i].id = updates[j].id => i = j
    BY <1>2, UpdatesAre
  <2>3. batch = BatchOf(n, next_id, views, updates) /\ views \in [1 .. n -> Views]
    BY <1>3
  <2> HIDE DEF batch
  <2> QED BY <1>4, <1>5, <2>1, <2>2, <2>3, ReceivedFollow, Zenon
<1>7. Grows(Conns(reg), batch.updates)
  <2>1. batch.updates = updates
    BY DEF BatchOf
  <2> HIDE DEF batch
  <2>2. \A i \in 1 .. Len(Conns(reg)) : Conns(reg)[i] \in ToSet(recent)
    BY <1>1, ConnsAre DEF ToSet
  <2>3. \A j \in 1 .. Len(updates) : updates[j] \in ToSet(updates)
    <3>1. DOMAIN updates = 1 .. Len(updates)
      BY <1>6, <2>1 DEF Follows
    <3> QED BY <3>1 DEF ToSet
  <2>4. \A item \in ToSet(updates) : \A c \in ToSet(recent) :
          c.id = item.id => item.view.bytes >= c.bytes
    BY <1>2, UpdatesAre
  <2> QED BY <2>1, <2>2, <2>3, <2>4 DEF Grows
<1>8. LET conns == Updated(recent, batch.updates)
                     \o [i \in DOMAIN batch.new |-> Conn(batch.new[i])]
      IN  /\ reg' = IF TooMany(after) THEN reset(after) ELSE after
          /\ recent' = IF TooMany(after) THEN <<>> ELSE LastOf(conns)
          /\ received' = IF TooMany(after) THEN 0 ELSE received + Len(batch.new)
          /\ stats_cut' = (stats_cut /\ ~TooMany(after))
          /\ next_id' = next_id + Len(batch.new)
  BY <1>3 DEF connUpdateWork
<1> HIDE DEF batch
<1>9. DOMAIN batch.new = 1 .. Len(batch.new)
  BY <1>6 DEF Follows
<1>10. Good(after, next_id + n, received + n, stats_cut)
  <2>1. next_id + Len(batch.new) <= MaxId
    BY <1>2, <1>6
  <2>2. Good(handle(reg, batch), next_id + Len(batch.new), received + Len(batch.new), stats_cut)
    BY <1>1, <1>6, <1>7, <2>1, GoodHandle
  <2> QED BY <1>6, <2>2
<1>11. Conns(after) = LastOf(Updated(recent, batch.updates)
                               \o [i \in DOMAIN batch.new |-> Conn(batch.new[i])])
  BY <1>1, <1>6, <1>9, HandleIs DEF NewConns
<1> HIDE DEF after
<1>12. CASE TooMany(after)
  <2>1. Good(reset(after), next_id + n, 0, FALSE)
    BY <1>1, <1>10, GoodReset
  <2>2. Conns(reset(after)) = <<>>
    BY <1>10, ResetIs, EmptyIs DEF Good, Shape
  <2> QED BY <1>6, <1>8, <1>12, <2>1, <2>2 DEF IInv
<1>13. CASE ~TooMany(after)
  <2>1. stats_cut' = stats_cut
    BY <1>1, <1>8, <1>13
  <2>2. reg' = after /\ next_id' = next_id + n /\ received' = received + n /\ recent' = Conns(after)
    BY <1>6, <1>8, <1>11, <1>13
  <2> QED BY <1>1, <1>10, <2>1, <2>2 DEF IInv
<1> QED
  BY <1>12, <1>13

LEMMA NextIInv == IInv /\ [Next]_vars => IInv'
<1> SUFFICES ASSUME IInv, [Next]_vars PROVE IInv'
  OBVIOUS
<1>1. Good(reg, next_id, received, stats_cut) /\ stats_cut \in BOOLEAN /\ recent = Conns(reg)
  BY DEF IInv
<1>2. CASE Receive
  BY <1>2, ReceiveIInv
<1>3. CASE UserReset
  <2>1. Good(reset(reg), next_id, 0, FALSE)
    BY <1>1, GoodReset
  <2>2. Conns(reset(reg)) = <<>>
    BY <1>1, ResetIs, EmptyIs DEF Good, Shape
  <2> QED BY <1>3, <2>1, <2>2 DEF UserReset, IInv
<1>4. CASE resetAppsStats
  <2> DEFINE after == [reg EXCEPT !.mAppsStats = [u \in Uids |-> NoStats]]
             cut == stats_cut \/ reg.mCurItems > 0
  <2>1. Conns(after) = Conns(reg) /\ Good(after, next_id, received, cut)
    BY <1>1, GoodClear
  <2>2. /\ reg' = after /\ stats_cut' = cut
        /\ next_id' = next_id /\ recent' = recent /\ received' = received
    BY <1>4 DEF resetAppsStats
  <2>3. cut \in BOOLEAN
    BY <1>1
  <2> HIDE DEF after, cut
  <2> QED BY <1>1, <2>1, <2>2, <2>3 DEF IInv
<1>5. CASE UNCHANGED vars
  BY <1>1, <1>5 DEF vars, IInv
<1> QED
  BY <1>2, <1>3, <1>4, <1>5 DEF Next

THEOREM RegisterInvariant == Spec => []IInv
  BY InitIInv, NextIInv, PTL DEF Spec
-----------------------------------------------------------------------------
(* What the invariant says.                                                 *)

(* Every field of the register stays in its range: the tail in the ring,    *)
(* and the malicious and blocked counters never below zero, although every  *)
(* update may take from them.                                               *)
THEOREM RegisterTypeSafe == Spec => []TypeOK
<1>1. IInv => TypeOK
  <2> SUFFICES ASSUME IInv PROVE TypeOK
    OBVIOUS
  <2>1. Shape(reg) /\ reg \in Registers /\ Covered(reg, stats_cut)
    BY DEF IInv, Good, Shape
  <2>2. ASSUME NEW n \in Counters, Kept(n) PROVE Count(reg, n) \in Nat
    <3>1. Count(reg, n) \in Int /\ SumOf(Measure(n), Conns(reg)) \in Nat
      BY <2>1, CountIs, ConnsAre, MeasureIs, SumOfTyped
    <3>2. Count(reg, n) >= SumOf(Measure(n), Conns(reg))
      BY <2>1, <2>2 DEF Covered
    <3> QED BY <3>1, <3>2
  <2>3. reg.mNumMalicious \in Nat
    <3>1. Count(reg, Malicious) = reg.mNumMalicious
      BY DEF Count, Malicious
    <3> QED BY <2>2, <3>1, MaliciousIs
  <2>4. reg.mNumBlocked \in Nat
    <3> DEFINE b == [kind |-> "blocked"]
    <3>1. b \in Counters /\ Kept(b) /\ Count(reg, b) = reg.mNumBlocked
      BY DEF Count, Counters, Kept
    <3> QED BY <2>2, <3>1
  <2> QED BY <2>1, <2>3, <2>4 DEF TypeOK, Registers, Slots
<1> QED BY <1>1, RegisterInvariant, PTL

(* The ring shows the last Size connections since the last reset, in order, *)
(* each with the last update that came for it: over any rollover, and after *)
(* any batch, also one larger than the ring.                                *)
THEOREM ShowsRecentSafe == Spec => []ShowsRecent
<1>1. IInv => ShowsRecent
  BY DEF IInv, ShowsRecent
<1> QED BY <1>1, RegisterInvariant, PTL

(* getConnPositionById finds a connection exactly when it is shown, where   *)
(* it is: the arithmetic on the ids of the two ends is right because they   *)
(* have no gap.                                                             *)
THEOREM FoundByIdSafe == Spec => []FoundById
<1>1. IInv => FoundById
  <2> SUFFICES ASSUME IInv, NEW id \in 0 .. (next_id - 1)
               PROVE  LET pos == getConnPositionById(reg, id)
                      IN  IF pos < 0 THEN \A c \in Range(Conns(reg)) : c.id # id
                          ELSE getConn(reg, pos).id = id
    BY DEF FoundById
  <2> DEFINE conns == Conns(reg)
             n == reg.mCurItems
             pos == getConnPositionById(reg, id)
  <2>1. /\ Shape(reg) /\ next_id \in Nat
        /\ \A i \in 1 .. Len(conns) : conns[i].id = next_id - Len(conns) + i - 1
        /\ Len(conns) <= next_id
    BY RegisterAssumption DEF IInv, Good, EndsAt
  <2>2. conns \in Seq(Slots) /\ Len(conns) = n /\ n \in 0 .. Size /\ n \in Nat
    BY <2>1, ConnsAre, RegisterAssumption
  <2>3. \A c \in Range(conns) : \E i \in 1 .. n : c = conns[i]
    BY <2>2 DEF Range
  <2>4. \A i \in 1 .. n : getConn(reg, i - 1) = conns[i]
    BY DEF Conns
  <2>5. CASE n = 0
    <3>1. pos = -1
      BY <2>5 DEF getConnPositionById
    <3>2. \A c \in Range(conns) : FALSE
      BY <2>3, <2>5
    <3> HIDE DEF pos, conns
    <3> QED BY <3>1, <3>2 DEF pos, conns
  <2>6. CASE n # 0
    <3>1. /\ reg.mItemsRing[lastPos(reg)] = conns[n]
          /\ reg.mItemsRing[firstPos(reg)] = conns[1]
      BY <2>1, <2>2, <2>6, LastIs
    <3>2. pos = IF id < conns[1].id \/ id > conns[n].id THEN -1 ELSE id - conns[1].id
      BY <2>6, <3>1 DEF getConnPositionById
    <3> HIDE DEF pos, conns, n
    <3>3. conns[1].id = next_id - n /\ conns[n].id = next_id - 1
      <4>1. 1 \in 1 .. n /\ n \in 1 .. n
        BY <2>2, <2>6
      <4>2. conns[1].id = next_id - n + 1 - 1 /\ conns[n].id = next_id - n + n - 1
        BY <2>1, <2>2, <4>1
      <4> QED BY <2>1, <2>2, <4>2
    <3>4. CASE id < next_id - n
      <4>1. pos = -1
        BY <3>2, <3>3, <3>4
      <4>2. \A i \in 1 .. n : conns[i].id # id
        <5> SUFFICES ASSUME NEW i \in 1 .. n PROVE conns[i].id # id
          OBVIOUS
        <5>1. conns[i].id = next_id - n + i - 1
          BY <2>1, <2>2
        <5> QED BY <2>1, <2>2, <3>4, <5>1
      <4>3. \A c \in Range(conns) : c.id # id
        BY <2>3, <4>2
      <4> QED BY <4>1, <4>3 DEF pos, conns
    <3>5. CASE ~(id < next_id - n)
      <4>1. pos = id - (next_id - n) /\ pos + 1 \in 1 .. n /\ ~(pos < 0) /\ pos \in Int
        BY <2>1, <2>2, <3>2, <3>3, <3>5
      <4>2. getConn(reg, (pos + 1) - 1) = conns[pos + 1]
        BY <2>4, <4>1
      <4>3. conns[pos + 1].id = next_id - n + (pos + 1) - 1
        BY <2>1, <2>2, <4>1
      <4>4. (pos + 1) - 1 = pos /\ next_id - n + (pos + 1) - 1 = id
        BY <2>1, <2>2, <4>1
      <4>5. getConn(reg, pos).id = id
        BY <4>2, <4>3, <4>4
      <4> QED BY <4>1, <4>5 DEF pos
    <3> QED BY <3>4, <3>5
  <2> QED BY <2>5, <2>6
<1> QED BY <1>1, RegisterInvariant, PTL

(* The sums of CountersShown.                                               *)
LEMMA SumsShown ==
  ASSUME NEW conns \in Seq(Slots)
  PROVE  /\ Alerted(conns) = SumOf(Measure(Malicious), conns)
         /\ \A u \in Uids :
              /\ BytesOf(u, conns) = SumOf(Measure([kind |-> "bytes", uid |-> u]), conns)
              /\ BlockedOf(u, conns) = SumOf(Measure([kind |-> "numBlocked", uid |-> u]), conns)
              /\ NumberOf(u, conns) = SumOf(Measure([kind |-> "numConnections", uid |-> u]), conns)
<1>1. \A i \in DOMAIN conns : conns[i] \in Slots
  OBVIOUS
<1>2. ASSUME NEW n PROVE \A i \in DOMAIN conns : Measure(n)[conns[i]] = Adding(n, conns[i])
  BY <1>1 DEF Measure
<1>3. Alerted(conns) = SumOf(Measure(Malicious), conns)
  <2>1. \A i \in DOMAIN conns : Adding(Malicious, conns[i]) = Bit(conns[i].alerted)
    BY DEF Adding, Malicious
  <2>2. [i \in DOMAIN conns |-> Bit(conns[i].alerted)]
          = [i \in DOMAIN conns |-> Measure(Malicious)[conns[i]]]
    BY <1>2, <2>1
  <2> QED BY <2>2 DEF Alerted, SumOf
<1>4. ASSUME NEW u \in Uids
      PROVE  /\ BytesOf(u, conns) = SumOf(Measure([kind |-> "bytes", uid |-> u]), conns)
             /\ BlockedOf(u, conns) = SumOf(Measure([kind |-> "numBlocked", uid |-> u]), conns)
             /\ NumberOf(u, conns) = SumOf(Measure([kind |-> "numConnections", uid |-> u]), conns)
  <2> DEFINE a == [kind |-> "bytes", uid |-> u]
             b == [kind |-> "numBlocked", uid |-> u]
             c == [kind |-> "numConnections", uid |-> u]
  <2>1. \A i \in DOMAIN conns :
          /\ Adding(a, conns[i]) = OfUid(u, conns[i], conns[i].bytes)
          /\ Adding(b, conns[i]) = OfUid(u, conns[i], Bit(conns[i].block_accounted))
          /\ Adding(c, conns[i]) = OfUid(u, conns[i], 1)
    BY DEF Adding
  <2> HIDE DEF a, b, c
  <2>2. [i \in DOMAIN conns |-> OfUid(u, conns[i], conns[i].bytes)]
          = [i \in DOMAIN conns |-> Measure(a)[conns[i]]]
    BY <1>2, <2>1
  <2>3. [i \in DOMAIN conns |-> OfUid(u, conns[i], Bit(conns[i].block_accounted))]
          = [i \in DOMAIN conns |-> Measure(b)[conns[i]]]
    BY <1>2, <2>1
  <2>4. [i \in DOMAIN conns |-> OfUid(u, conns[i], 1)]
          = [i \in DOMAIN conns |-> Measure(c)[conns[i]]]
    BY <1>2, <2>1
  <2> QED BY <2>2, <2>3, <2>4 DEF BytesOf, BlockedOf, NumberOf, SumOf, a, b, c
<1> QED
  BY <1>3, <1>4

LEMMA CountersAre == IInv => CountersShown
<1> SUFFICES ASSUME IInv PROVE CountersShown
  OBVIOUS
<1>1. /\ Shape(reg) /\ reg.mUntrackedItems + reg.mCurItems = received
      /\ \A n \in Counters :
           Kept(n) \/ ~stats_cut => Count(reg, n) >= SumOf(Measure(n), Conns(reg))
      /\ next_id = received => Exact(reg)
  BY DEF IInv, Good, Covered
<1>2. Conns(reg) \in Seq(Slots) /\ reg.mMaxBytes \in Nat
  BY <1>1, ConnsAre DEF Shape, Registers
<1>3. NothingUncounted
  BY <1>1 DEF NothingUncounted
<1>4. MaxBytesShown
  BY <1>1, <1>2, MostIs DEF MaxBytesShown, Exact
<1>5. MaliciousShown
  <2>1. Count(reg, Malicious) = reg.mNumMalicious
    BY DEF Count, Malicious
  <2> QED BY <1>1, <1>2, <2>1, MaliciousIs, SumsShown DEF MaliciousShown, Exact
<1>6. StatsCoverShown
  <2> SUFFICES ASSUME ~stats_cut, NEW u \in Uids
               PROVE  /\ reg.mAppsStats[u].bytes >= BytesOf(u, Conns(reg))
                      /\ reg.mAppsStats[u].numBlocked >= BlockedOf(u, Conns(reg))
                      /\ reg.mAppsStats[u].numConnections >= NumberOf(u, Conns(reg))
    BY DEF StatsCoverShown
  <2> DEFINE a == [kind |-> "bytes", uid |-> u]
             b == [kind |-> "numBlocked", uid |-> u]
             c == [kind |-> "numConnections", uid |-> u]
  <2>1. {a, b, c} \subseteq Counters
    BY DEF Counters
  <2>2. /\ Count(reg, a) = reg.mAppsStats[u].bytes
        /\ Count(reg, b) = reg.mAppsStats[u].numBlocked
        /\ Count(reg, c) = reg.mAppsStats[u].numConnections
    BY DEF Count
  <2>3. /\ BytesOf(u, Conns(reg)) = SumOf(Measure(a), Conns(reg))
        /\ BlockedOf(u, Conns(reg)) = SumOf(Measure(b), Conns(reg))
        /\ NumberOf(u, Conns(reg)) = SumOf(Measure(c), Conns(reg))
    BY <1>2, SumsShown
  <2> HIDE DEF a, b, c
  <2> QED BY <1>1, <2>1, <2>2, <2>3
<1> QED BY <1>3, <1>4, <1>5, <1>6 DEF CountersShown

(* The counters agree with what is shown, over rollovers, updates that take *)
(* a verdict back, and resets: nothing received is uncounted, mMaxBytes and *)
(* mNumMalicious are those of the connections shown until the first reset   *)
(* (and mNumMalicious never less), and no app is shown more than it has.    *)
THEOREM CountersShownSafe == Spec => []CountersShown
  BY CountersAre, RegisterInvariant, PTL
=============================================================================
