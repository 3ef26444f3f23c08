--------------------------- MODULE PdConnsProofs ---------------------------
(***************************************************************************)
(* Proofs about PdConns for any number of connections, any queue and any   *)
(* failure of the JVM: the arrays never dangle, no change is forgotten,    *)
(* and what is freed was told.                                             *)
(*                                                                         *)
(* A dump empties both arrays at once, so the invariant speaks of them as  *)
(* of the set Listed: who is in it is alive and pending (Arrays); nobody   *)
(* is before new_conn_id reached it (Fresh); and what is closed is pending *)
(* until it is freed, also when the queue is full and Java is told no more *)
(* (ClosedPending), without which the last dump could leave some behind.   *)
(*                                                                         *)
(* For the order of the incr_ids: there is a number k below which all ids  *)
(* were sent, with which the queued ids end, and from which new_conns goes *)
(* on (Ordered).  The queue is read as one sequence by FlattenSeq, whose   *)
(* laws come first.                                                        *)
(***************************************************************************)
EXTENDS PdConns, SequenceTheorems, WellFoundedInduction, TLAPS

Data == [mem: {"none", "alive", "freed"}, pending: BOOLEAN, lost: BOOLEAN,
         view: Views]

Listed == ToSet(new_conns) \cup ToSet(conns_updates)
Distinct(s) == \A i, j \in DOMAIN s : s[i] = s[j] => i = j

Typed == TypeOK /\ mPendingUpdates \in Seq(Batches)

Fresh == \A c \in Ids : c >= new_conn_id => data[c] = NoData

Arrays ==
  /\ Listed \subseteq {c \in Alive : data[c].pending}
  /\ ToSet(new_conns) \cap ToSet(conns_updates) = {}
  /\ Distinct(new_conns) /\ Distinct(conns_updates)

Kept == ~failed => {c \in Alive : data[c].pending} \subseteq Listed

Changes ==
  ~mQueueFull /\ ~failed => \A c \in Alive : data[c].view # sent[c] => c \in Listed

ClosedPending ==
  ~failed => \A c \in Alive : data[c].view.closed => data[c].pending

IInv ==
  /\ Typed /\ Fresh /\ Arrays /\ Kept /\ Changes /\ ClosedPending /\ FreedTold
  /\ done => ~running

-----------------------------------------------------------------------------
(* FlattenSeq, by induction over the numbers up to n, with a set for the    *)
(* predicate.                                                               *)
LEMMA Least ==
  ASSUME NEW T \in SUBSET Nat, T # {}
  PROVE  \E x \in T : \A y \in T : x <= y
<1>1. \A x, y \in Nat : y < x => <<y, x>> \in OpToRel(<, Nat)
  BY DEF OpToRel
<1>2. \E R : IsWellFoundedOn(R, Nat) /\ \A x, y \in Nat : y < x => <<y, x>> \in R
  BY <1>1, NatLessThanWellFounded, Zenon
<1>3. PICK R : IsWellFoundedOn(R, Nat) /\ \A x, y \in Nat : y < x => <<y, x>> \in R
  BY <1>2
<1>4. T \subseteq Nat
  OBVIOUS
<1>5. PICK x \in T : \A y \in T : ~ (<<y, x>> \in R)
  BY <1>3, <1>4, WFMin, Zenon
<1>6. \A y \in T : ~ (y < x)
  BY <1>3, <1>4, <1>5
<1> QED
  BY <1>4, <1>6

LEMMA UpTo ==
  ASSUME NEW n \in Nat, NEW T, 0 \in T,
         \A k \in 0 .. (n - 1) : k \in T => k + 1 \in T
  PROVE  \A k \in 0 .. n : k \in T
<1> SUFFICES ASSUME NEW l \in 0 .. n, l \notin T PROVE FALSE
  OBVIOUS
<1> DEFINE U == {k \in 0 .. n : k \notin T}
<1>1. U \in SUBSET Nat /\ l \in U
  OBVIOUS
<1>2. PICK k \in U : \A j \in U : k <= j
  <2> HIDE DEF U
  <2> QED BY <1>1, Least
<1>3. k # 0 /\ k - 1 \in 0 .. (n - 1) /\ k - 1 \notin U
  BY <1>2
<1> QED
  BY <1>3

Flattens(ss, n, f) ==
  f = [i \in 1 .. n |-> IF i = 1 THEN ss[i] ELSE f[i - 1] \o ss[i]]

LEMMA FlattensExist ==
  ASSUME NEW ss, NEW n \in Nat
  PROVE  \E f : Flattens(ss, n, f)
<1> DEFINE T == {k \in Nat : \E f : Flattens(ss, k, f)}
<1>1. 0 \in T
  <2> DEFINE none == [i \in 1 .. 0 |-> 0]
  <2>1. Flattens(ss, 0, none)
    BY DEF Flattens
  <2> HIDE DEF none
  <2> QED BY <2>1
<1>2. ASSUME NEW k \in 0 .. (n - 1), k \in T PROVE k + 1 \in T
  <2>1. PICK f : Flattens(ss, k, f)
    BY <1>2
  <2> DEFINE more == [i \in 1 .. (k + 1) |->
                        IF i = k + 1 THEN IF i = 1 THEN ss[i] ELSE f[i - 1] \o ss[i]
                        ELSE f[i]]
  <2>2. \A i \in 1 .. k : f[i] = IF i = 1 THEN ss[i] ELSE f[i - 1] \o ss[i]
    BY <2>1 DEF Flattens
  <2>3. \A i \in 1 .. (k + 1) : more[i] = IF i = 1 THEN ss[i] ELSE more[i - 1] \o ss[i]
    BY <2>2
  <2>4. Flattens(ss, k + 1, more)
    BY <2>3 DEF Flattens
  <2> HIDE DEF more
  <2> QED BY <2>4
<1> HIDE DEF T
<1>3. n \in T
  BY <1>1, <1>2, UpTo
<1> QED
  BY <1>3 DEF T

FlattensTo(ss, f) ==
  /\ FlattenSeq(ss) = f[Len(ss)]
  /\ f[1] = ss[1]
  /\ \A i \in 2 .. Len(ss) : f[i] = f[i - 1] \o ss[i]

LEMMA FlattenIs ==
  ASSUME NEW ss, Len(ss) \in Nat \ {0}
  PROVE  \E f : FlattensTo(ss, f)
<1>1. PICK some : Flattens(ss, Len(ss), some)
  BY FlattensExist
<1> DEFINE f == CHOOSE g : Flattens(ss, Len(ss), g)
<1>2. Flattens(ss, Len(ss), f)
  BY <1>1
<1>3. FlattenSeq(ss) = f[Len(ss)]
  BY DEF FlattenSeq, Flattens
<1> HIDE DEF f
<1>4. \A i \in 1 .. Len(ss) : f[i] = IF i = 1 THEN ss[i] ELSE f[i - 1] \o ss[i]
  BY <1>2 DEF Flattens
<1>5. 1 \in 1 .. Len(ss) /\ \A i \in 2 .. Len(ss) : i \in 1 .. Len(ss) /\ i # 1
  OBVIOUS
<1>6. f[1] = ss[1] /\ \A i \in 2 .. Len(ss) : f[i] = f[i - 1] \o ss[i]
  BY <1>4, <1>5
<1> QED
  BY <1>3, <1>6 DEF FlattensTo

LEMMA FlattenPrefix ==
  ASSUME NEW S, NEW ss \in Seq(Seq(S)), NEW f, ss # <<>>, FlattensTo(ss, f)
  PROVE  \A k \in 1 .. Len(ss) : f[k] \in Seq(S)
<1> DEFINE T == {k \in Nat : f[k + 1] \in Seq(S)}
           n == Len(ss) - 1
<1>1. n \in Nat /\ Len(ss) = n + 1
  OBVIOUS
<1> HIDE DEF n
<1>2. 0 \in T
  BY <1>1 DEF FlattensTo
<1>3. ASSUME NEW k \in 0 .. (n - 1), k \in T PROVE k + 1 \in T
  <2>1. k + 2 \in 2 .. Len(ss) /\ f[k + 1] \in Seq(S)
    BY <1>1, <1>3
  <2>2. f[k + 2] = f[k + 1] \o ss[k + 2]
    <3>1. (k + 2) - 1 = k + 1
      BY <2>1
    <3> QED BY <2>1, <3>1 DEF FlattensTo
  <2>3. ss[k + 2] \in Seq(S)
    BY <2>1
  <2>4. f[k + 2] \in Seq(S)
    BY <2>1, <2>2, <2>3, ConcatProperties
  <2> QED BY <2>4
<1>4. \A k \in 0 .. n : k \in T
  <2> HIDE DEF T
  <2> QED BY <1>1, <1>2, <1>3, UpTo
<1>5. \A k \in 0 .. n : f[k + 1] \in Seq(S)
  BY <1>4
<1>6. \A k \in 1 .. Len(ss) : k - 1 \in 0 .. n /\ (k - 1) + 1 = k
  BY <1>1
<1> QED
  BY <1>5, <1>6

LEMMA FlattenEmpty == FlattenSeq(<<>>) = <<>>
  BY DEF FlattenSeq

LEMMA FlattenTyped ==
  ASSUME NEW S, NEW ss \in Seq(Seq(S))
  PROVE  FlattenSeq(ss) \in Seq(S)
<1>1. CASE ss = <<>>
  <2>1. FlattenSeq(ss) = <<>>
    BY <1>1, FlattenEmpty
  <2> QED BY <2>1
<1>2. CASE ss # <<>>
  <2>1. Len(ss) \in Nat \ {0}
    BY <1>2
  <2>2. PICK f : FlattensTo(ss, f)
    BY <2>1, FlattenIs
  <2>3. f[Len(ss)] \in Seq(S)
    BY <1>2, <2>1, <2>2, FlattenPrefix
  <2> QED BY <2>2, <2>3 DEF FlattensTo
<1> QED
  BY <1>1, <1>2

LEMMA FlattenAppend ==
  ASSUME NEW S, NEW ss \in Seq(Seq(S)), NEW t \in Seq(S)
  PROVE  FlattenSeq(Append(ss, t)) = FlattenSeq(ss) \o t
<1> DEFINE tt == Append(ss, t)
           n == Len(ss)
<1>1. /\ n \in Nat /\ Len(tt) = n + 1 /\ tt[n + 1] = t
      /\ \A i \in 1 .. n : tt[i] = ss[i]
  OBVIOUS
<1> HIDE DEF tt
<1>2. PICK g : FlattensTo(tt, g)
  BY <1>1, FlattenIs
<1>3. CASE ss = <<>>
  <2>1. FlattenSeq(tt) = t
    BY <1>1, <1>2, <1>3 DEF FlattensTo
  <2>2. FlattenSeq(ss) \o t = t
    BY <1>3, FlattenEmpty
  <2> QED BY <2>1, <2>2 DEF tt
<1>4. CASE ss # <<>>
  <2>1. n \in Nat \ {0}
    BY <1>1, <1>4
  <2>2. PICK f : FlattensTo(ss, f)
    BY <2>1, FlattenIs
  <2> DEFINE T == {k \in Nat : g[k + 1] = f[k + 1]}
             m == n - 1
  <2>3. m \in Nat /\ n = m + 1
    BY <2>1
  <2> HIDE DEF m, n
  <2>4. 0 \in T
    <3>1. g[1] = f[1]
      BY <1>1, <1>2, <2>1, <2>2 DEF FlattensTo
    <3> QED BY <3>1
  <2>5. ASSUME NEW k \in 0 .. (m - 1), k \in T PROVE k + 1 \in T
    <3>1. /\ k + 2 \in 2 .. n /\ k + 2 \in 2 .. (n + 1)
          /\ (k + 2) - 1 = k + 1 /\ (k + 1) + 1 = k + 2 /\ k + 2 \in 1 .. n
      BY <2>3, <2>5
    <3>2. f[k + 2] = f[k + 1] \o ss[k + 2]
      BY <2>2, <3>1 DEF FlattensTo, n
    <3>3. g[k + 2] = g[k + 1] \o tt[k + 2]
      BY <1>1, <1>2, <3>1 DEF FlattensTo
    <3>4. g[k + 1] = f[k + 1] /\ tt[k + 2] = ss[k + 2]
      BY <1>1, <2>5, <3>1
    <3>5. g[(k + 1) + 1] = f[(k + 1) + 1]
      BY <3>1, <3>2, <3>3, <3>4
    <3>6. k + 1 \in Nat
      BY <2>5
    <3> QED BY <3>5, <3>6
  <2>6. \A k \in 0 .. m : k \in T
    <3> HIDE DEF T
    <3> QED BY <2>3, <2>4, <2>5, UpTo
  <2>7. g[n] = f[n]
    BY <2>3, <2>6
  <2>8. n + 1 \in 2 .. (n + 1) /\ (n + 1) - 1 = n
    BY <2>1
  <2>9. g[n + 1] = g[n] \o t
    BY <1>1, <1>2, <2>8 DEF FlattensTo
  <2> QED BY <1>1, <1>2, <2>2, <2>7, <2>9 DEF FlattensTo, tt, n
<1> QED
  BY <1>3, <1>4

LEMMA IdsConcat ==
  ASSUME NEW s \in Seq(Ids), NEW t \in Seq(Ids), NEW u \in Seq(Ids)
  PROVE  (s \o t) \o u = s \o (t \o u)
  BY ConcatAssociative

LEMMA FlattenTail ==
  ASSUME NEW ss \in Seq(Seq(Ids)), ss # <<>>
  PROVE  FlattenSeq(ss) = Head(ss) \o FlattenSeq(Tail(ss))
<1> DEFINE tt == Tail(ss)
           n == Len(tt)
<1>1. /\ n \in Nat /\ Len(ss) = n + 1 /\ tt \in Seq(Seq(Ids))
      /\ Head(ss) = ss[1] /\ ss[1] \in Seq(Ids)
      /\ \A i \in 1 .. n : tt[i] = ss[i + 1]
  OBVIOUS
<1> HIDE DEF tt
<1>2. PICK f : FlattensTo(ss, f)
  BY <1>1, FlattenIs
<1>3. CASE tt = <<>>
  <2>1. n = 0 /\ FlattenSeq(tt) = <<>>
    BY <1>3, FlattenEmpty
  <2>2. FlattenSeq(ss) = ss[1]
    BY <1>1, <1>2, <2>1 DEF FlattensTo
  <2>3. ss[1] \o <<>> = ss[1]
    BY <1>1, ConcatEmptySeq
  <2> QED BY <1>1, <2>1, <2>2, <2>3 DEF tt
<1>4. CASE tt # <<>>
  <2>1. n \in Nat \ {0}
    BY <1>1, <1>4
  <2>2. PICK g : FlattensTo(tt, g)
    BY <2>1, FlattenIs
  <2> DEFINE T == {k \in Nat : f[k + 2] = ss[1] \o g[k + 1]}
             m == n - 1
  <2>3. m \in Nat /\ n = m + 1
    BY <2>1
  <2> HIDE DEF m, n
  <2>4. 0 \in T
    <3>1. 2 \in 2 .. Len(ss) /\ 1 \in 1 .. n
      BY <1>1, <2>1
    <3>2. f[2] = ss[1] \o ss[2] /\ g[1] = ss[2]
      <4>1. 2 - 1 = 1 /\ 1 + 1 = 2
        OBVIOUS
      <4>2. f[2] = f[1] \o ss[2] /\ f[1] = ss[1]
        BY <1>2, <3>1, <4>1 DEF FlattensTo
      <4>3. g[1] = tt[1] /\ tt[1] = ss[2]
        BY <1>1, <2>2, <3>1, <4>1 DEF FlattensTo
      <4> QED BY <4>2, <4>3
    <3>3. f[0 + 2] = ss[1] \o g[0 + 1]
      <4>1. 0 + 2 = 2 /\ 0 + 1 = 1
        OBVIOUS
      <4> QED BY <3>2, <4>1
    <3> QED BY <3>3
  <2>5. ASSUME NEW k \in 0 .. (m - 1), k \in T PROVE k + 1 \in T
    <3>1. /\ k + 3 \in 2 .. Len(ss) /\ k + 2 \in 2 .. n
          /\ (k + 3) - 1 = k + 2 /\ (k + 2) - 1 = k + 1 /\ k + 2 \in 1 .. n /\ k + 1 \in 1 .. n
          /\ (k + 1) + 2 = k + 3 /\ (k + 1) + 1 = k + 2 /\ (k + 2) + 1 = k + 3
      BY <1>1, <2>3, <2>5
    <3>2. f[k + 3] = f[k + 2] \o ss[k + 3]
      BY <1>2, <3>1 DEF FlattensTo
    <3>3. g[k + 2] = g[k + 1] \o tt[k + 2]
      BY <2>2, <3>1 DEF FlattensTo, n
    <3>4. f[k + 2] = ss[1] \o g[k + 1] /\ tt[k + 2] = ss[k + 3]
      BY <1>1, <2>5, <3>1
    <3>5. g[k + 1] \in Seq(Ids) /\ tt[k + 2] \in Seq(Ids)
      BY <1>1, <1>4, <2>2, <3>1, FlattenPrefix DEF n
    <3>6. (ss[1] \o g[k + 1]) \o tt[k + 2] = ss[1] \o (g[k + 1] \o tt[k + 2])
      <4>1. ss[1] \in Seq(Ids)
        BY <1>1
      <4> HIDE DEF T
      <4> QED BY <3>5, <4>1, IdsConcat
    <3>7. f[(k + 1) + 2] = ss[1] \o g[(k + 1) + 1]
      <4>1. f[k + 3] = ss[1] \o g[k + 2]
        BY <3>2, <3>3, <3>4, <3>6
      <4> QED BY <3>1, <4>1
    <3>8. k + 1 \in Nat
      BY <2>5
    <3> QED BY <3>7, <3>8
  <2>6. \A k \in 0 .. m : k \in T
    <3> HIDE DEF T
    <3> QED BY <2>3, <2>4, <2>5, UpTo
  <2>7. m \in T /\ m + 2 = n + 1 /\ m + 1 = n
    <3> HIDE DEF T
    <3>1. m \in 0 .. m /\ m + 2 = n + 1 /\ m + 1 = n
      BY <2>3
    <3> QED BY <2>6, <3>1
  <2>8. f[n + 1] = ss[1] \o g[n]
    <3>1. f[m + 2] = ss[1] \o g[m + 1]
      BY <2>7
    <3> QED BY <2>7, <3>1
  <2> QED BY <1>1, <1>2, <2>2, <2>8 DEF FlattensTo, tt, n
<1> QED
  BY <1>3, <1>4

-----------------------------------------------------------------------------
(* Sequences as sets.                                                       *)
LEMMA AppendSet ==
  ASSUME NEW S, NEW s \in Seq(S), NEW x \in S
  PROVE  /\ Append(s, x) \in Seq(S)
         /\ ToSet(Append(s, x)) = ToSet(s) \cup {x}
         /\ Distinct(s) /\ x \notin ToSet(s) => Distinct(Append(s, x))
<1> DEFINE t == Append(s, x)
<1>1. /\ t \in Seq(S) /\ Len(s) \in Nat /\ DOMAIN s = 1 .. Len(s)
      /\ DOMAIN t = 1 .. (Len(s) + 1)
      /\ \A i \in 1 .. Len(s) : t[i] = s[i]
      /\ t[Len(s) + 1] = x
  OBVIOUS
<1> HIDE DEF t
<1>2. ToSet(t) = ToSet(s) \cup {x}
  <2>1. ASSUME NEW y \in ToSet(t) PROVE y \in ToSet(s) \cup {x}
    <3>1. PICK i \in 1 .. (Len(s) + 1) : y = t[i]
      BY <1>1, <2>1 DEF ToSet
    <3> QED
      BY <1>1, <3>1 DEF ToSet
  <2>2. ASSUME NEW y \in ToSet(s) PROVE y \in ToSet(t)
    <3>1. PICK i \in 1 .. Len(s) : y = s[i]
      BY <1>1, <2>2 DEF ToSet
    <3> QED
      BY <1>1, <3>1 DEF ToSet
  <2>3. x \in ToSet(t)
    BY <1>1 DEF ToSet
  <2> QED
    BY <2>1, <2>2, <2>3
<1>3. Distinct(s) /\ x \notin ToSet(s) => Distinct(t)
  BY <1>1 DEF Distinct, ToSet
<1> QED
  BY <1>1, <1>2, <1>3 DEF t

LEMMA ConcatSet ==
  ASSUME NEW S, NEW s \in Seq(S), NEW t \in Seq(S)
  PROVE  /\ s \o t \in Seq(S)
         /\ ToSet(s \o t) = ToSet(s) \cup ToSet(t)
         /\ Distinct(s) /\ Distinct(t) /\ ToSet(s) \cap ToSet(t) = {}
              => Distinct(s \o t)
<1> DEFINE u == s \o t
<1>1. /\ u \in Seq(S) /\ Len(s) \in Nat /\ Len(t) \in Nat
      /\ DOMAIN s = 1 .. Len(s) /\ DOMAIN t = 1 .. Len(t)
      /\ DOMAIN u = 1 .. (Len(s) + Len(t))
      /\ \A i \in 1 .. (Len(s) + Len(t)) :
           u[i] = IF i <= Len(s) THEN s[i] ELSE t[i - Len(s)]
  BY ConcatProperties
<1> HIDE DEF u
<1>2. \A i \in DOMAIN s : i \in DOMAIN u /\ u[i] = s[i]
  BY <1>1
<1>3. \A i \in DOMAIN t : (i + Len(s)) \in DOMAIN u /\ u[i + Len(s)] = t[i]
  BY <1>1
<1>4. \A i \in DOMAIN u :
        \/ i \in DOMAIN s /\ u[i] = s[i]
        \/ (i - Len(s)) \in DOMAIN t /\ u[i] = t[i - Len(s)] /\ i \notin DOMAIN s
  BY <1>1
<1>5. ToSet(u) = ToSet(s) \cup ToSet(t)
  <2>1. ToSet(u) \subseteq ToSet(s) \cup ToSet(t)
    BY <1>4 DEF ToSet
  <2>2. ToSet(s) \subseteq ToSet(u) /\ ToSet(t) \subseteq ToSet(u)
    BY <1>2, <1>3 DEF ToSet
  <2> QED
    BY <2>1, <2>2
<1>6. ASSUME Distinct(s), Distinct(t), ToSet(s) \cap ToSet(t) = {}
      PROVE  Distinct(u)
  <2> SUFFICES ASSUME NEW i \in DOMAIN u, NEW j \in DOMAIN u, u[i] = u[j]
               PROVE  i = j
    BY DEF Distinct
  <2>1. \A k \in DOMAIN s, l \in DOMAIN t : s[k] # t[l]
    BY <1>6 DEF ToSet
  <2>2. CASE i \in DOMAIN s
    BY <1>4, <1>6, <2>1, <2>2 DEF Distinct
  <2>3. CASE i \notin DOMAIN s
    <3>1. j \notin DOMAIN s
      BY <1>4, <2>1, <2>3
    <3>2. i - Len(s) = j - Len(s)
      BY <1>4, <1>6, <2>3, <3>1 DEF Distinct
    <3> QED
      BY <1>1, <3>2
  <2> QED
    BY <2>2, <2>3
<1> QED
  BY <1>1, <1>5, <1>6 DEF u

LEMMA PointersAre ==
  ASSUME Typed, Arrays
  PROVE  Pointers \in Seq(Ids) /\ ToSet(Pointers) = Listed /\ Distinct(Pointers)
  BY ConcatSet DEF Typed, TypeOK, Arrays, Listed, Pointers

(* The invariant says what the properties say.                              *)
LEMMA IInvSays == IInv => TypeOK /\ NoDangling /\ NothingForgotten /\ FreedTold
<1> SUFFICES ASSUME IInv PROVE TypeOK /\ NoDangling /\ NothingForgotten /\ FreedTold
  OBVIOUS
<1>1. ToSet(Pointers) = Listed /\ Distinct(Pointers)
  BY PointersAre DEF IInv
<1>2. NoDangling
  BY <1>1 DEF IInv, Arrays, NoDangling, Distinct
<1>3. NothingForgotten
  BY <1>1 DEF IInv, Kept, Changes, NothingForgotten, PendingKept, ChangesPending
<1> QED
  BY <1>2, <1>3 DEF IInv, Typed

LEMMA NoDataIs ==
  /\ NoData \in Data
  /\ NoData = [mem |-> "none", pending |-> FALSE, lost |-> FALSE,
               view |-> [bytes |-> 0, blocked |-> FALSE, closed |-> FALSE]]
<1>1. [bytes |-> 0, blocked |-> FALSE, closed |-> FALSE] \in Views
  BY PdConnsAssumption DEF Views
<1> QED
  BY <1>1 DEF NoData, Unknown, Data

LEMMA InitIInv == Init => IInv
<1> SUFFICES ASSUME Init PROVE IInv
  OBVIOUS
<1> USE PdConnsAssumption
<1>1. NoData \in Data /\ NoData.mem = "none"
  BY NoDataIs
<1>2. Typed
  <2>1. data \in [Ids -> Data]
    BY <1>1 DEF Init
  <2>2. /\ new_conns \in Seq(Ids) /\ conns_updates \in Seq(Ids)
        /\ mPendingUpdates \in Seq(Batches) /\ Len(mPendingUpdates) = 0
    BY DEF Init
  <2>3. sent \in [Ids -> Views \cup {NotSent}]
    BY DEF Init
  <2>4. new_conn_id \in 0 .. MaxConns /\ 0 <= QueueSize
    BY DEF Init
  <2>5. {running, done, mQueueFull, failed} \subseteq BOOLEAN
    BY DEF Init
  <2> QED
    BY <2>1, <2>2, <2>3, <2>4, <2>5 DEF Typed, TypeOK, Data
<1>3. Alive = {} /\ Listed = {}
  BY <1>1 DEF Init, Alive, Listed, ToSet
<1>4. Arrays
  BY <1>3 DEF Init, Arrays, Distinct, Listed, ToSet
<1>5. Fresh /\ Kept /\ Changes /\ ClosedPending
  BY <1>3 DEF Init, Fresh, Kept, Changes, ClosedPending
<1>6. FreedTold
  BY <1>1, <1>3 DEF Init, FreedTold
<1> QED
  BY <1>2, <1>4, <1>5, <1>6 DEF IInv, Init
-----------------------------------------------------------------------------
LEMMA Shapes ==
  ASSUME Typed
  PROVE  /\ data \in [Ids -> Data]
         /\ new_conns \in Seq(Ids) /\ conns_updates \in Seq(Ids)
         /\ new_conn_id \in 0 .. MaxConns
         /\ mPendingUpdates \in Seq(Batches) /\ Len(mPendingUpdates) <= QueueSize
         /\ sent \in [Ids -> Views \cup {NotSent}]
         /\ {running, done, mQueueFull, failed} \subseteq BOOLEAN
  BY DEF Typed, TypeOK, Data

(* The callbacks of zdtun.                                                  *)
LEMMA NewConnectionIInv == IInv /\ handle_new_connection => IInv'
<1> SUFFICES ASSUME IInv, handle_new_connection PROVE IInv'
  OBVIOUS
<1> USE PdConnsAssumption
<1> DEFINE n == new_conn_id
<1>1. PICK blocked \in Verdicts :
        data' = [data EXCEPT ![n] =
          [NoData EXCEPT !.mem = "alive", !.pending = TRUE,
                  !.view = [Unknown EXCEPT !.blocked = blocked]]]
  BY DEF handle_new_connection
<1> DEFINE d == [NoData EXCEPT !.mem = "alive", !.pending = TRUE,
                      !.view = [Unknown EXCEPT !.blocked = blocked]]
<1>2. d \in Data /\ d.mem = "alive" /\ d.pending /\ ~d.view.closed
  <2>1. blocked \in BOOLEAN
    BY DEF Verdicts
  <2> DEFINE v == [Unknown EXCEPT !.blocked = blocked]
  <2>2. Unknown \in Views /\ ~Unknown.closed
    BY DEF Unknown, Views
  <2>3. v \in Views /\ ~v.closed
    BY <2>1, <2>2 DEF Views
  <2> HIDE DEF v
  <2>4. [NoData EXCEPT !.mem = "alive", !.pending = TRUE, !.view = v] \in Data
    BY <2>3, NoDataIs DEF Data
  <2> QED
    BY <2>3, <2>4, NoDataIs DEF v, Data
<1>3. n \in Ids /\ n < MaxConns /\ running /\ n \in Nat
  BY Shapes DEF handle_new_connection, Ids, IInv
<1>4. data[n].mem = "none" /\ n \notin Alive /\ n \notin Listed
  BY <1>3 DEF IInv, Fresh, NoData, Alive, Arrays
<1>5. /\ data' = [data EXCEPT ![n] = d] /\ data'[n] = d
      /\ \A c \in Ids : c # n => data'[c] = data[c]
  BY <1>1, <1>3, Shapes DEF IInv
<1> HIDE DEF d, n
<1>6. /\ new_conns' \in Seq(Ids) /\ Distinct(new_conns')
      /\ ToSet(new_conns') = ToSet(new_conns) \cup {n}
      /\ conns_updates' = conns_updates
  BY <1>3, <1>4, AppendSet, Shapes DEF IInv, handle_new_connection, Arrays, Listed, n
<1>7. Alive' = Alive \cup {n} /\ Listed' = Listed \cup {n}
  BY <1>2, <1>3, <1>5, <1>6 DEF Alive, Listed
<1>8. UNCHANGED <<mPendingUpdates, mQueueFull, sent, failed, running, done>>
  BY DEF handle_new_connection, java_vars
<1>9. Typed'
  <2>1. data' \in [Ids -> Data] /\ new_conn_id' \in 0 .. MaxConns
    BY <1>2, <1>3, <1>5, Shapes DEF IInv, handle_new_connection, n
  <2> QED
    BY <1>6, <1>8, <2>1, Shapes DEF IInv, Typed, TypeOK, Data
<1>10. Fresh'
  BY <1>3, <1>5 DEF IInv, Fresh, handle_new_connection, n, Ids
<1>11. Arrays'
  BY <1>2, <1>4, <1>5, <1>6, <1>7 DEF IInv, Arrays, Listed, Alive
<1>12. Kept' /\ Changes' /\ ClosedPending'
  BY <1>2, <1>4, <1>5, <1>7, <1>8 DEF IInv, Kept, Changes, ClosedPending, Alive
<1>13. FreedTold'
  BY <1>2, <1>3, <1>5, <1>8 DEF IInv, FreedTold
<1> QED
  BY <1>8, <1>9, <1>10, <1>11, <1>12, <1>13 DEF IInv

(* Whatever becomes of a connection that Java will be told of.              *)
LEMMA NotifyIInv ==
  ASSUME IInv, ~done, NEW c \in Active, NEW view \in Views,
         pd_notify_connection_update(c, view),
         UNCHANGED <<new_conns, new_conn_id, running, done, java_vars>>
  PROVE  IInv'
<1> USE PdConnsAssumption
<1>1. c \in Ids /\ c \in Alive /\ data[c] \in Data
  BY Shapes DEF IInv, Active, Alive
<1> DEFINE d == [data[c] EXCEPT !.pending = TRUE, !.view = view]
<1>2. /\ data' = [data EXCEPT ![c] = d]
      /\ d \in Data /\ d.mem = "alive" /\ d.pending /\ d.view = view
      /\ d.lost = data[c].lost
  BY <1>1, Shapes DEF IInv, pd_notify_connection_update, Data, Alive
<1> HIDE DEF d
<1>3. /\ data'[c] = d /\ \A e \in Ids : e # c => data'[e] = data[e]
      /\ data' \in [Ids -> Data]
  BY <1>1, <1>2, Shapes DEF IInv
<1>4. Alive' = Alive
  BY <1>1, <1>2, <1>3 DEF Alive
<1>5. /\ conns_updates' \in Seq(Ids) /\ Distinct(conns_updates')
      /\ ToSet(conns_updates') =
           ToSet(conns_updates) \cup (IF data[c].pending THEN {} ELSE {c})
  <2>1. CASE data[c].pending
    BY <2>1, Shapes DEF IInv, Arrays, pd_notify_connection_update
  <2>2. CASE ~data[c].pending
    <3>1. c \notin ToSet(conns_updates)
      BY <2>2 DEF IInv, Arrays, Listed
    <3> QED
      BY <1>1, <2>2, <3>1, AppendSet, Shapes
      DEF IInv, Arrays, pd_notify_connection_update
  <2> QED
    BY <2>1, <2>2
<1>6. /\ Listed' = Listed \cup (IF data[c].pending THEN {} ELSE {c})
      /\ ~failed => c \in Listed'
  BY <1>1, <1>5 DEF Listed, IInv, Kept
<1>7. UNCHANGED <<mPendingUpdates, mQueueFull, sent, failed, running, done>>
  BY DEF java_vars
<1>8. Typed'
  BY <1>3, <1>5, <1>7, Shapes DEF IInv, Typed, TypeOK, Data
<1>9. Fresh'
  BY <1>1, <1>3 DEF IInv, Fresh, Alive, NoData
<1>10. Arrays'
  <2>1. Listed' \subseteq {e \in Alive' : data'[e].pending}
    BY <1>1, <1>2, <1>3, <1>4, <1>6 DEF IInv, Arrays
  <2>2. ToSet(new_conns)' \cap ToSet(conns_updates)' = {}
    BY <1>5 DEF IInv, Arrays, Listed
  <2> QED
    BY <1>5, <2>1, <2>2 DEF IInv, Arrays
<1>11. Kept' /\ Changes' /\ ClosedPending'
  BY <1>1, <1>2, <1>3, <1>4, <1>6, <1>7 DEF IInv, Kept, Changes, ClosedPending
<1>12. FreedTold'
  BY <1>1, <1>2, <1>3, <1>7 DEF IInv, FreedTold
<1> QED
  BY <1>7, <1>8, <1>9, <1>10, <1>11, <1>12 DEF IInv

LEMMA PacketIInv == IInv /\ (\E c \in Ids : pd_process_packet(c)) => IInv'
<1> SUFFICES ASSUME IInv, NEW c \in Ids, pd_process_packet(c) PROVE IInv'
  OBVIOUS
<1> USE PdConnsAssumption
<1>1. data[c].view \in Views /\ c \in Active /\ ~done
  BY Shapes DEF IInv, pd_process_packet, Data
<1>2. PICK bytes \in {data[c].view.bytes, data[c].view.bytes + 1}, found \in Verdicts :
        /\ bytes <= MaxBytes
        /\ pd_notify_connection_update(c,
             [data[c].view EXCEPT !.bytes = bytes,
                                  !.blocked = data[c].view.blocked \/ found])
  BY DEF pd_process_packet
<1>3. [data[c].view EXCEPT !.bytes = bytes,
                           !.blocked = data[c].view.blocked \/ found] \in Views
  <2>1. bytes \in 0 .. MaxBytes
    BY <1>1, <1>2 DEF Views
  <2>2. (data[c].view.blocked \/ found) \in BOOLEAN
    OBVIOUS
  <2> QED
    BY <1>1, <2>1, <2>2 DEF Views
<1> QED
  BY <1>1, <1>2, <1>3, NotifyIInv DEF pd_process_packet

LEMMA ClosedIInv == IInv /\ (\E c \in Ids : connection_closed(c)) => IInv'
<1> SUFFICES ASSUME IInv, NEW c \in Ids, connection_closed(c) PROVE IInv'
  OBVIOUS
<1>1. data[c].view \in Views /\ c \in Active /\ ~done
  BY Shapes DEF IInv, connection_closed, Data
<1>2. [data[c].view EXCEPT !.closed = TRUE] \in Views
  BY <1>1 DEF Views
<1> QED
  BY <1>1, <1>2, NotifyIInv DEF connection_closed

LEMMA CheckedIInv == IInv /\ (\E c \in Ids : check_blocked_conn_cb(c)) => IInv'
<1> SUFFICES ASSUME IInv, NEW c \in Ids, check_blocked_conn_cb(c) PROVE IInv'
  OBVIOUS
<1>1. data[c].view \in Views /\ c \in Active /\ ~done
  BY Shapes DEF IInv, check_blocked_conn_cb, Data
<1>2. [data[c].view EXCEPT !.blocked = ~data[c].view.blocked] \in Views
  BY <1>1 DEF Views
<1> QED
  BY <1>1, <1>2, NotifyIInv DEF check_blocked_conn_cb

LEMMA FinalizeIInv == IInv /\ zdtun_finalize => IInv'
<1> SUFFICES ASSUME IInv, zdtun_finalize PROVE IInv'
  OBVIOUS
<1>1. PICK c \in Active :
        pd_notify_connection_update(c, [data[c].view EXCEPT !.closed = TRUE])
  BY DEF zdtun_finalize
<1>2. data[c].view \in Views /\ ~done
  BY <1>1, Shapes DEF IInv, zdtun_finalize, Data, Active, Alive
<1>3. [data[c].view EXCEPT !.closed = TRUE] \in Views
  BY <1>2 DEF Views
<1> QED
  BY <1>1, <1>2, <1>3, NotifyIInv DEF zdtun_finalize

(* zdtun never tells of the close of this one.                              *)
LEMMA SocketErrorIInv ==
  IInv /\ (\E c \in Ids : zdtun_forward_socket_error(c)) => IInv'
<1> SUFFICES ASSUME IInv, NEW c \in Ids, zdtun_forward_socket_error(c) PROVE IInv'
  OBVIOUS
<1> DEFINE d == [data[c] EXCEPT !.lost = TRUE]
<1>1. /\ data' = [data EXCEPT ![c] = d] /\ data[c] \in Data /\ c \in Alive
      /\ ~done
  BY Shapes DEF IInv, zdtun_forward_socket_error, Active
<1>2. d \in Data /\ \A f \in {"mem", "pending", "view"} : d[f] = data[c][f]
  BY <1>1 DEF Data
<1> HIDE DEF d
<1>3. /\ data' \in [Ids -> Data] /\ data'[c] = d
      /\ \A e \in Ids : e # c => data'[e] = data[e]
  BY <1>1, <1>2, Shapes DEF IInv
<1>4. \A e \in Ids : /\ data'[e].mem = data[e].mem
                     /\ data'[e].pending = data[e].pending
                     /\ data'[e].view = data[e].view
                     /\ data[e].lost => data'[e].lost
  BY <1>1, <1>2, <1>3 DEF d
<1>5. UNCHANGED <<new_conns, conns_updates, new_conn_id, running, done,
                  mPendingUpdates, mQueueFull, sent, failed>>
  BY DEF zdtun_forward_socket_error, java_vars
<1>6. Alive' = Alive /\ Listed' = Listed
  BY <1>4, <1>5 DEF Alive, Listed
<1>7. Typed'
  BY <1>3, <1>5, Shapes DEF IInv, Typed, TypeOK, Data
<1>8. Fresh'
  <2> SUFFICES ASSUME NEW e \in Ids, e >= new_conn_id PROVE data'[e] = NoData
    BY <1>5 DEF Fresh
  <2>1. data[e] = NoData
    BY DEF IInv, Fresh
  <2>2. e # c
    BY <1>1, <2>1, NoDataIs DEF Alive
  <2> QED
    BY <1>3, <2>1, <2>2
<1>9. Arrays' /\ Kept' /\ Changes' /\ ClosedPending'
  BY <1>4, <1>5, <1>6 DEF IInv, Arrays, Kept, Changes, ClosedPending, Alive
<1>10. FreedTold'
  BY <1>1, <1>4, <1>5 DEF IInv, FreedTold
<1> QED
  BY <1>5, <1>7, <1>8, <1>9, <1>10 DEF IInv

-----------------------------------------------------------------------------
(* A dump.                                                                  *)
LEMMA SeenListed ==
  ASSUME IInv
  PROVE  /\ \A n \in 0 .. (Len(new_conns) + Len(conns_updates)) : Seen(n) \subseteq Listed
         /\ Seen(Len(new_conns) + Len(conns_updates)) = Listed
<1>1. /\ Pointers \in Seq(Ids) /\ ToSet(Pointers) = Listed
      /\ new_conns \in Seq(Ids) /\ conns_updates \in Seq(Ids)
  BY PointersAre, Shapes DEF IInv
<1>2. Len(Pointers) = Len(new_conns) + Len(conns_updates)
  BY <1>1, ConcatProperties DEF Pointers
<1> DEFINE p == Pointers
<1>3. ASSUME NEW n \in 0 .. Len(p)
      PROVE  /\ ToSet(SubSeq(p, 1, n)) \subseteq ToSet(p)
             /\ n = Len(p) => ToSet(SubSeq(p, 1, n)) = ToSet(p)
  <2>1. p \in Seq(Ids) /\ DOMAIN p = 1 .. Len(p) /\ Len(p) \in Nat
    BY <1>1
  <2> HIDE DEF p
  <2>2. /\ DOMAIN SubSeq(p, 1, n) = 1 .. n
        /\ \A i \in 1 .. n : SubSeq(p, 1, n)[i] = p[i]
    BY <2>1
  <2> DEFINE q == SubSeq(p, 1, n)
  <2> HIDE DEF q
  <2>3. ASSUME NEW y \in ToSet(q) PROVE y \in ToSet(p)
    <3>1. PICK i \in 1 .. n : y = q[i]
      BY <2>2, <2>3 DEF ToSet, q
    <3>2. i \in DOMAIN p /\ y = p[i]
      BY <2>1, <2>2, <3>1 DEF q
    <3> QED
      BY <3>2 DEF ToSet
  <2>4. ASSUME NEW y \in ToSet(p), n = Len(p) PROVE y \in ToSet(q)
    <3>1. PICK i \in 1 .. n : y = p[i]
      BY <2>1, <2>4 DEF ToSet
    <3>2. i \in DOMAIN q /\ y = q[i]
      BY <2>2, <3>1 DEF q
    <3> QED
      BY <3>2 DEF ToSet
  <2> QED
    BY <2>3, <2>4 DEF q
<1> QED
  BY <1>1, <1>2, <1>3 DEF Seen, Pointers

(* What conns_clear leaves of each connection.                              *)
LEMMA Cleared ==
  ASSUME IInv, NEW seen, seen \subseteq Listed, NEW free_all \in BOOLEAN,
         conns_clear(seen, free_all)
  PROVE  /\ data' \in [Ids -> Data]
         /\ new_conns' = <<>> /\ conns_updates' = <<>> /\ Listed' = {}
         /\ \A c \in Ids :
              LET gone == c \in Listed /\ (free_all \/ data[c].view.closed)
              IN  /\ c \notin Listed => data'[c] = data[c]
                  /\ gone => data'[c].mem = "freed"
                  /\ ~gone => /\ data'[c].mem = data[c].mem
                              /\ data'[c].view = data[c].view
                              /\ data'[c].pending = (data[c].pending /\ c \notin seen)
                  /\ data'[c].lost = data[c].lost
<1>1. data \in [Ids -> Data]
  BY Shapes DEF IInv
<1> DEFINE gone(c) == c \in Listed /\ (free_all \/ data[c].view.closed)
           freed(c) == [NoData EXCEPT !.mem = "freed", !.lost = data[c].lost]
           kept(c) == IF c \in seen THEN [data[c] EXCEPT !.pending = FALSE] ELSE data[c]
<1>2. data' = [c \in Ids |-> IF gone(c) THEN freed(c) ELSE kept(c)]
  BY DEF conns_clear, Listed
<1>3. new_conns' = <<>> /\ conns_updates' = <<>>
  BY DEF conns_clear
<1>4. Listed' = {}
  BY <1>3 DEF Listed, ToSet
<1>5. ASSUME NEW c \in Ids
      PROVE  /\ freed(c) \in Data /\ freed(c).mem = "freed"
             /\ freed(c).lost = data[c].lost
  <2>1. data[c].lost \in BOOLEAN
    BY <1>1 DEF Data
  <2> QED
    BY <2>1, NoDataIs DEF Data
<1>6. ASSUME NEW c \in Ids
      PROVE  /\ kept(c) \in Data
             /\ c \notin seen => kept(c) = data[c]
             /\ kept(c).mem = data[c].mem /\ kept(c).view = data[c].view
             /\ kept(c).lost = data[c].lost
             /\ kept(c).pending = (data[c].pending /\ c \notin seen)
  BY <1>1 DEF Data
<1> HIDE DEF freed, kept, gone
<1>7. data' \in [Ids -> Data]
  BY <1>2, <1>5, <1>6
<1>8. \A c \in Ids : data'[c] = IF gone(c) THEN freed(c) ELSE kept(c)
  BY <1>2
<1>9. ASSUME NEW c \in Ids
      PROVE  /\ c \notin Listed => data'[c] = data[c]
             /\ gone(c) => data'[c].mem = "freed"
             /\ ~gone(c) => /\ data'[c].mem = data[c].mem
                            /\ data'[c].view = data[c].view
                            /\ data'[c].pending = (data[c].pending /\ c \notin seen)
             /\ data'[c].lost = data[c].lost
  <2>1. CASE gone(c)
    BY <1>5, <1>8, <2>1 DEF gone
  <2>2. CASE ~gone(c)
    BY <1>6, <1>8, <2>2
  <2> QED
    BY <2>1, <2>2
<1> QED
  BY <1>3, <1>4, <1>7, <1>9 DEF gone

LEMMA BatchTyped == Typed => Batch \in Batches
<1> SUFFICES ASSUME Typed PROVE Batch \in Batches
  OBVIOUS
<1>1. ASSUME NEW s \in Seq(Ids) PROVE [i \in DOMAIN s |-> Item(s[i])] \in Seq(Items)
  <2>1. Len(s) \in Nat /\ DOMAIN s = 1 .. Len(s) /\ \A i \in 1 .. Len(s) : s[i] \in Ids
    OBVIOUS
  <2>2. \A c \in Ids : Item(c) \in Items
    BY Shapes DEF Item, Items, Data
  <2> QED
    BY <2>1, <2>2
<1> QED
  BY <1>1, Shapes DEF Batch, Batches

(* The queue takes the batch, or refuses it and every later one.            *)
LEMMA QueuedIs ==
  ASSUME Typed, updateConnections(Batch)
  PROVE  /\ mPendingUpdates' \in Seq(Batches) /\ Len(mPendingUpdates') <= QueueSize
         /\ mQueueFull' \in BOOLEAN
         /\ sent' \in [Ids -> Views \cup {NotSent}]
         /\ mQueueFull => mQueueFull'
         /\ ~mQueueFull' =>
              \A c \in Ids : sent'[c] = IF c \in Listed THEN data[c].view ELSE sent[c]
<1> USE PdConnsAssumption
<1>1. CASE mQueueFull
  BY <1>1, Shapes DEF updateConnections
<1>2. CASE ~mQueueFull /\ Len(mPendingUpdates) < QueueSize
  <2>1. /\ mPendingUpdates' = Append(mPendingUpdates, Batch) /\ mQueueFull' = mQueueFull
        /\ sent' = [c \in Ids |-> IF c \in Listed THEN data[c].view ELSE sent[c]]
    BY <1>2 DEF updateConnections, Listed
  <2>2. mPendingUpdates' \in Seq(Batches) /\ Len(mPendingUpdates') <= QueueSize
    BY <1>2, <2>1, BatchTyped, Shapes
  <2>3. sent' \in [Ids -> Views \cup {NotSent}]
    BY <2>1, Shapes DEF Data
  <2> QED
    BY <1>2, <2>1, <2>2, <2>3, Shapes
<1>3. CASE ~mQueueFull /\ ~(Len(mPendingUpdates) < QueueSize)
  BY <1>3, Shapes DEF updateConnections
<1> QED
  BY <1>1, <1>2, <1>3

(* The dump of a turn, and the last one.                                    *)
LEMMA DumpIInv ==
  ASSUME IInv, ~done, NEW free_all \in BOOLEAN, sendConnectionsDump(free_all),
         UNCHANGED <<new_conn_id, running>>,
         IF free_all THEN ~running /\ Active = {} /\ done' = TRUE ELSE done' = done
  PROVE  IInv'
<1>1. PICK seen \in SUBSET Listed :
        /\ conns_clear(seen, free_all)
        /\ \/ /\ updateConnections(Batch) /\ seen = Listed /\ failed' = failed
           \/ /\ failed' = TRUE
              /\ UNCHANGED <<mPendingUpdates, mQueueFull, sent>>
  BY SeenListed, Shapes DEF IInv, sendConnectionsDump
<1>2. /\ data' \in [Ids -> Data]
      /\ new_conns' = <<>> /\ conns_updates' = <<>> /\ Listed' = {}
      /\ \A c \in Ids :
           LET gone == c \in Listed /\ (free_all \/ data[c].view.closed)
           IN  /\ c \notin Listed => data'[c] = data[c]
               /\ gone => data'[c].mem = "freed"
               /\ ~gone => /\ data'[c].mem = data[c].mem
                           /\ data'[c].view = data[c].view
                           /\ data'[c].pending = (data[c].pending /\ c \notin seen)
               /\ data'[c].lost = data[c].lost
  BY <1>1, Cleared
<1>3. /\ mPendingUpdates' \in Seq(Batches) /\ Len(mPendingUpdates') <= QueueSize
      /\ {mQueueFull', failed'} \subseteq BOOLEAN
      /\ sent' \in [Ids -> Views \cup {NotSent}]
      /\ mQueueFull => mQueueFull'
      /\ failed => failed'
  <2>1. CASE updateConnections(Batch) /\ failed' = failed
    BY <2>1, QueuedIs, Shapes DEF IInv
  <2>2. CASE failed' = TRUE /\ UNCHANGED <<mPendingUpdates, mQueueFull, sent>>
    BY <2>2, Shapes DEF IInv
  <2> QED
    BY <1>1, <2>1, <2>2
<1>4. ~failed' => seen = Listed /\ updateConnections(Batch) /\ ~failed
  BY <1>1, <1>3
<1>5. ~failed' /\ ~mQueueFull' =>
        \A c \in Ids : sent'[c] = IF c \in Listed THEN data[c].view ELSE sent[c]
  BY <1>4, QueuedIs DEF IInv
<1>6. done' \in BOOLEAN /\ (done' => ~running')
  BY Shapes DEF IInv
<1>7. Typed'
  <2>1. new_conns' \in Seq(Ids) /\ conns_updates' \in Seq(Ids)
    BY <1>2
  <2>2. running' \in BOOLEAN /\ new_conn_id' \in 0 .. MaxConns
    BY Shapes DEF IInv
  <2> QED
    BY <1>2, <1>3, <1>6, <2>1, <2>2 DEF Typed, TypeOK, Data
<1>8. Fresh'
  <2> SUFFICES ASSUME NEW c \in Ids, c >= new_conn_id PROVE data'[c] = NoData
    BY DEF Fresh
  <2>1. data[c] = NoData
    BY DEF IInv, Fresh
  <2>2. c \notin Listed
    BY <2>1, NoDataIs DEF IInv, Arrays, Alive
  <2> QED
    BY <1>2, <2>1, <2>2
<1>9. Arrays'
  BY <1>2 DEF Arrays, Distinct, ToSet
<1>10. Kept'
  <2> SUFFICES ASSUME ~failed', NEW c \in Alive', data'[c].pending PROVE FALSE
    BY DEF Kept
  <2>1. c \in Ids /\ seen = Listed /\ ~failed
    BY <1>4 DEF Alive
  <2>2. c \notin Listed
    BY <1>2, <2>1 DEF Alive
  <2> QED
    BY <1>2, <2>1, <2>2 DEF IInv, Kept, Alive
<1>11. Changes'
  <2> SUFFICES ASSUME ~failed', ~mQueueFull', NEW c \in Alive'
               PROVE  data'[c].view = sent'[c]
    BY DEF Changes
  <2>1. c \in Ids /\ ~failed /\ ~mQueueFull
    BY <1>3 DEF Alive
  <2>2. CASE c \in Listed
    BY <1>2, <1>5, <2>1, <2>2 DEF Alive
  <2>3. CASE c \notin Listed
    BY <1>2, <1>5, <2>1, <2>3 DEF IInv, Changes, Alive
  <2> QED
    BY <2>2, <2>3
<1>12. ASSUME ~failed', NEW c \in Alive' PROVE ~data'[c].view.closed
  <2>1. c \in Ids /\ ~failed
    BY <1>3, <1>12 DEF Alive
  <2>2. CASE c \in Listed
    BY <1>2, <2>1, <2>2 DEF Alive
  <2>3. CASE c \notin Listed
    BY <1>2, <2>1, <2>3 DEF IInv, ClosedPending, Kept, Alive
  <2> QED
    BY <2>2, <2>3
<1>13. ClosedPending'
  BY <1>12 DEF ClosedPending
<1>14. FreedTold'
  <2>1. ASSUME ~failed', ~mQueueFull', NEW c \in Ids, data'[c].mem = "freed"
        PROVE  sent'[c].closed \/ data'[c].lost
    <3>1. ~failed /\ ~mQueueFull
      BY <1>3, <2>1
    <3>2. CASE c \notin Listed
      BY <1>2, <1>5, <2>1, <3>1, <3>2 DEF IInv, FreedTold
    <3>3. CASE c \in Listed
      <4>1. data[c].mem = "alive" /\ sent'[c] = data[c].view
        BY <1>5, <2>1, <3>3 DEF IInv, Arrays, Alive
      <4>2. free_all \/ data[c].view.closed
        BY <1>2, <2>1, <4>1
      <4>3. data[c].lost \/ data[c].view.closed
        BY <4>1, <4>2 DEF Active, Alive
      <4> QED
        BY <1>2, <4>1, <4>3
    <3> QED
      BY <3>2, <3>3
  <2>2. ASSUME ~failed', done', NEW c \in Alive' PROVE data'[c].lost
    <3>1. c \in Ids /\ free_all /\ Active = {}
      BY <2>2 DEF Alive
    <3>2. c \notin Listed /\ data'[c] = data[c] /\ ~data[c].view.closed
      BY <1>2, <1>12, <2>2, <3>1 DEF Alive
    <3>3. c \in Alive
      BY <3>1, <3>2 DEF Alive
    <3> QED
      BY <3>1, <3>2, <3>3 DEF Active
  <2> QED
    BY <2>1, <2>2 DEF FreedTold, Alive
<1> QED
  BY <1>6, <1>7, <1>8, <1>9, <1>10, <1>11, <1>13, <1>14 DEF IInv

-----------------------------------------------------------------------------
LEMMA StopIInv == IInv /\ stopPacketLoop => IInv'
<1> SUFFICES ASSUME IInv, stopPacketLoop PROVE IInv'
  OBVIOUS
<1>1. /\ running' = FALSE
      /\ UNCHANGED <<data, new_conns, conns_updates, new_conn_id, done,
                     mPendingUpdates, mQueueFull, sent, failed>>
  BY DEF stopPacketLoop, java_vars
<1> QED
  BY <1>1 DEF IInv, Typed, TypeOK, Fresh, Arrays, Kept, Changes, ClosedPending,
    FreedTold, Alive, Listed

LEMMA TakeIInv == IInv /\ take => IInv'
<1> SUFFICES ASSUME IInv, take PROVE IInv'
  OBVIOUS
<1>1. UNCHANGED <<data, new_conns, conns_updates, new_conn_id, running, done,
                  mQueueFull, sent, failed>>
  BY DEF take, native_vars
<1>2. /\ mPendingUpdates' \in Seq(Batches)
      /\ Len(mPendingUpdates') <= QueueSize
  <2>1. /\ mPendingUpdates \in Seq(Batches) /\ mPendingUpdates # <<>>
        /\ mPendingUpdates' = Tail(mPendingUpdates)
        /\ Len(mPendingUpdates) <= QueueSize
    BY Shapes DEF IInv, take
  <2> QED
    BY <2>1, PdConnsAssumption
<1> QED
  BY <1>1, <1>2 DEF IInv, Typed, TypeOK, Fresh, Arrays, Kept, Changes,
    ClosedPending, FreedTold, Alive, Listed

LEMMA NextIInv == IInv /\ [Next]_vars => IInv'
<1> SUFFICES ASSUME IInv, [Next]_vars PROVE IInv'
  OBVIOUS
<1>1. CASE pd_housekeeping
  <2>1. ~done
    BY <1>1 DEF IInv, pd_housekeeping
  <2> QED
    BY <1>1, <2>1, DumpIInv DEF pd_housekeeping
<1>2. CASE pd_run_end
  BY <1>2, DumpIInv DEF pd_run_end
<1>3. CASE UNCHANGED vars
  BY <1>3 DEF vars, native_vars, java_vars, IInv, Typed, TypeOK, Fresh, Arrays,
    Kept, Changes, ClosedPending, FreedTold, Alive, Listed
<1> QED
  BY <1>1, <1>2, <1>3, NewConnectionIInv, PacketIInv, ClosedIInv, SocketErrorIInv,
    CheckedIInv, StopIInv, FinalizeIInv, TakeIInv
  DEF Next, NativeStep

LEMMA SpecIInv == Spec => []IInv
  BY InitIInv, NextIInv, PTL DEF Spec

(* The records, the arrays and the queue keep their types and their bounds: *)
(* updateConnections never has more than QueueSize batches waiting.         *)
THEOREM ConnsTypeSafe == Spec => []TypeOK
<1>1. IInv => TypeOK
  BY IInvSays
<1> QED
  BY <1>1, SpecIInv, PTL

(* conns_clear frees no data that an array still has, and none twice, for   *)
(* any order of packets, closes, lists and failures of the JVM.             *)
THEOREM NoDanglingSafe == Spec => []NoDangling
<1>1. IInv => NoDangling
  BY IInvSays
<1> QED
  BY <1>1, SpecIInv, PTL

(* pending_notification and the arrays agree, and what changed is in them.  *)
THEOREM NothingForgottenSafe == Spec => []NothingForgotten
<1>1. IInv => NothingForgotten
  BY IInvSays
<1> QED
  BY <1>1, SpecIInv, PTL

(* What sendConnectionsDump frees was told, and the last dump frees all.    *)
THEOREM FreedToldSafe == Spec => []FreedTold
<1>1. IInv => FreedTold
  BY IInvSays
<1> QED
  BY <1>1, SpecIInv, PTL
-----------------------------------------------------------------------------
(* The incr_ids.  Ordered: the ids that are queued are the last ones that   *)
(* were sent, which are all below k.  Ahead: those that new_conns holds are *)
(* the next ones, and nothing else is updated before it is sent.            *)
IdsOf(batch) == [i \in DOMAIN batch.new |-> batch.new[i].id]
AllIds(q) == [b \in DOMAIN q |-> IdsOf(q[b])]

EndsBelow(ids, k) ==
  /\ Len(ids) <= k
  /\ \A i \in 1 .. Len(ids) : ids[i] = ((k - Len(ids)) + i) - 1

KnownBelow(s, k) == \A c \in Ids : s[c] # NotSent <=> c < k

Ahead(k) ==
  /\ k + Len(new_conns) = new_conn_id
  /\ \A i \in 1 .. Len(new_conns) : new_conns[i] = (k + i) - 1
  /\ \A c \in ToSet(conns_updates) : c < k

Ordered(k) ==
  /\ EndsBelow(NewIds(mPendingUpdates), k) /\ KnownBelow(sent, k)
  /\ ~mQueueFull => Ahead(k)

IdsKept == ~failed => \E k \in 0 .. MaxConns : Ordered(k)

LEMMA IdsOfTyped ==
  ASSUME NEW batch \in Batches
  PROVE  IdsOf(batch) \in Seq(Ids) /\ Len(IdsOf(batch)) = Len(batch.new)
<1>1. batch.new \in Seq(Items)
  BY DEF Batches
<1>2. /\ Len(batch.new) \in Nat /\ DOMAIN batch.new = 1 .. Len(batch.new)
      /\ \A i \in 1 .. Len(batch.new) : batch.new[i] \in Items
  BY <1>1
<1>3. \A i \in 1 .. Len(batch.new) : batch.new[i].id \in Ids
  BY <1>2 DEF Items
<1> QED
  BY <1>2, <1>3 DEF IdsOf

LEMMA AllIdsTyped ==
  ASSUME NEW q \in Seq(Batches)
  PROVE  /\ AllIds(q) \in Seq(Seq(Ids)) /\ Len(AllIds(q)) = Len(q)
         /\ NewIds(q) = FlattenSeq(AllIds(q)) /\ NewIds(q) \in Seq(Ids)
<1>1. /\ Len(q) \in Nat /\ DOMAIN q = 1 .. Len(q)
      /\ \A b \in 1 .. Len(q) : IdsOf(q[b]) \in Seq(Ids)
  BY IdsOfTyped
<1>2. AllIds(q) \in Seq(Seq(Ids)) /\ Len(AllIds(q)) = Len(q)
  BY <1>1 DEF AllIds
<1>3. NewIds(q) = FlattenSeq(AllIds(q))
  BY DEF NewIds, AllIds, IdsOf
<1>4. FlattenSeq(AllIds(q)) \in Seq(Ids)
  BY <1>2, FlattenTyped
<1> QED
  BY <1>2, <1>3, <1>4

LEMMA NewIdsAppend ==
  ASSUME NEW q \in Seq(Batches), NEW batch \in Batches
  PROVE  NewIds(Append(q, batch)) = NewIds(q) \o IdsOf(batch)
<1> DEFINE r == Append(q, batch)
           ids == IdsOf(batch)
           all == AllIds(q)
<1>1. /\ r \in Seq(Batches) /\ Len(q) \in Nat /\ Len(r) = Len(q) + 1
      /\ r[Len(q) + 1] = batch /\ \A b \in 1 .. Len(q) : r[b] = q[b]
      /\ DOMAIN q = 1 .. Len(q) /\ DOMAIN r = 1 .. Len(q) + 1
  OBVIOUS
<1>2. all \in Seq(Seq(Ids)) /\ Len(all) = Len(q) /\ ids \in Seq(Ids)
  BY AllIdsTyped, IdsOfTyped
<1>3. AllIds(r) \in Seq(Seq(Ids)) /\ Len(AllIds(r)) = Len(r)
  BY <1>1, AllIdsTyped
<1> HIDE DEF r
<1>4. Append(all, ids) \in Seq(Seq(Ids)) /\ Len(Append(all, ids)) = Len(q) + 1
  <2> HIDE DEF all, ids
  <2> QED BY <1>2
<1>5. ASSUME NEW b \in 1 .. Len(q) + 1 PROVE AllIds(r)[b] = Append(all, ids)[b]
  <2>1. AllIds(r)[b] = IdsOf(r[b])
    BY <1>1 DEF AllIds
  <2>2. CASE b \in 1 .. Len(q)
    <3>1. all[b] = IdsOf(q[b])
      BY <1>1, <2>2 DEF AllIds
    <3>2. Append(all, ids)[b] = all[b]
      <4> HIDE DEF all, ids
      <4> QED BY <1>2, <2>2
    <3> QED BY <1>1, <2>1, <2>2, <3>1, <3>2
  <2>3. CASE b = Len(q) + 1
    <3>1. Append(all, ids)[b] = ids
      <4> HIDE DEF all, ids
      <4> QED BY <1>2, <2>3
    <3> QED BY <1>1, <2>1, <2>3, <3>1
  <2>4. b \in 1 .. Len(q) \/ b = Len(q) + 1
    BY <1>1
  <2> QED BY <2>2, <2>3, <2>4
<1>6. AllIds(r) = Append(all, ids)
  <2> HIDE DEF all, ids
  <2> QED BY <1>1, <1>3, <1>4, <1>5, SeqEqual
<1>7. FlattenSeq(Append(all, ids)) = FlattenSeq(all) \o ids
  <2> HIDE DEF all, ids
  <2> QED BY <1>2, FlattenAppend
<1>8. NewIds(r) = FlattenSeq(AllIds(r)) /\ NewIds(q) = FlattenSeq(all)
  BY <1>1, AllIdsTyped
<1> QED
  BY <1>6, <1>7, <1>8 DEF r

LEMMA NewIdsTail ==
  ASSUME NEW q \in Seq(Batches), q # <<>>
  PROVE  NewIds(q) = IdsOf(Head(q)) \o NewIds(Tail(q))
<1> DEFINE r == Tail(q)
           all == AllIds(q)
<1>1. /\ r \in Seq(Batches) /\ Len(q) \in Nat /\ Len(r) = Len(q) - 1
      /\ Head(q) = q[1] /\ \A b \in 1 .. Len(r) : r[b] = q[b + 1]
      /\ DOMAIN q = 1 .. Len(q) /\ DOMAIN r = 1 .. Len(r) /\ Len(q) > 0
  OBVIOUS
<1> HIDE DEF r
<1>2. all \in Seq(Seq(Ids)) /\ Len(all) = Len(q) /\ all # <<>>
  BY <1>1, AllIdsTyped
<1>3. AllIds(r) \in Seq(Seq(Ids)) /\ Len(AllIds(r)) = Len(r)
  BY <1>1, AllIdsTyped
<1>4. Head(all) = IdsOf(Head(q))
  BY <1>1, <1>2 DEF AllIds
<1>5. Tail(all) \in Seq(Seq(Ids)) /\ Len(Tail(all)) = Len(r)
  <2> HIDE DEF all
  <2> QED BY <1>1, <1>2
<1>6. ASSUME NEW b \in 1 .. Len(r) PROVE AllIds(r)[b] = Tail(all)[b]
  <2>1. AllIds(r)[b] = IdsOf(q[b + 1])
    BY <1>1 DEF AllIds
  <2>2. all[b + 1] = IdsOf(q[b + 1])
    BY <1>1 DEF AllIds
  <2>3. Tail(all)[b] = all[b + 1]
    <3> HIDE DEF all
    <3> QED BY <1>1, <1>2
  <2> QED BY <2>1, <2>2, <2>3
<1>7. AllIds(r) = Tail(all)
  <2> HIDE DEF all
  <2> QED BY <1>1, <1>3, <1>5, <1>6, SeqEqual
<1>8. FlattenSeq(all) = Head(all) \o FlattenSeq(Tail(all))
  <2> HIDE DEF all
  <2> QED BY <1>2, FlattenTail
<1>9. NewIds(r) = FlattenSeq(AllIds(r)) /\ NewIds(q) = FlattenSeq(all)
  BY <1>1, AllIdsTyped
<1> QED
  BY <1>4, <1>7, <1>8, <1>9 DEF r
(* What is queued behind ends with the new last id; what is left of the     *)
(* queue, with the old one.                                                 *)
LEMMA EndsBelowQueued ==
  ASSUME NEW s \in Seq(Int), NEW t \in Seq(Int), NEW k \in Nat, EndsBelow(s, k),
         \A i \in 1 .. Len(t) : t[i] = (k + i) - 1
  PROVE  EndsBelow(s \o t, k + Len(t))
<1> DEFINE u == s \o t
<1>1. /\ Len(s) \in Nat /\ Len(t) \in Nat /\ Len(u) = Len(s) + Len(t)
      /\ \A i \in 1 .. Len(s) : u[i] = s[i]
      /\ \A i \in 1 .. Len(t) : u[Len(s) + i] = t[i]
  OBVIOUS
<1> HIDE DEF u
<1>2. ASSUME NEW i \in 1 .. Len(u)
      PROVE  u[i] = (((k + Len(t)) - Len(u)) + i) - 1
  <2>1. CASE i <= Len(s)
    <3>1. i \in 1 .. Len(s)
      BY <1>1, <2>1
    <3>2. u[i] = ((k - Len(s)) + i) - 1
      BY <1>1, <3>1 DEF EndsBelow
    <3> QED BY <1>1, <3>2
  <2>2. CASE i > Len(s)
    <3> DEFINE j == i - Len(s)
    <3>1. j \in 1 .. Len(t) /\ i = Len(s) + j
      BY <1>1, <2>2
    <3>2. u[i] = (k + j) - 1
      BY <1>1, <3>1
    <3> QED BY <1>1, <3>2
  <2> QED BY <1>1, <2>1, <2>2
<1>3. Len(u) <= k + Len(t)
  BY <1>1 DEF EndsBelow
<1> QED
  BY <1>2, <1>3 DEF EndsBelow, u

LEMMA EndsBelowLeft ==
  ASSUME NEW s \in Seq(Int), NEW t \in Seq(Int), NEW k \in Nat, EndsBelow(s \o t, k)
  PROVE  EndsBelow(t, k)
<1> DEFINE u == s \o t
<1>1. /\ Len(s) \in Nat /\ Len(t) \in Nat /\ Len(u) = Len(s) + Len(t)
      /\ \A i \in 1 .. Len(t) : u[Len(s) + i] = t[i]
      /\ EndsBelow(u, k)
  OBVIOUS
<1> HIDE DEF u
<1>2. ASSUME NEW i \in 1 .. Len(t)
      PROVE  t[i] = ((k - Len(t)) + i) - 1
  <2>1. Len(s) + i \in 1 .. Len(u)
    BY <1>1
  <2>2. u[Len(s) + i] = ((k - Len(u)) + (Len(s) + i)) - 1
    BY <1>1, <2>1 DEF EndsBelow
  <2> QED BY <1>1, <2>2
<1> QED
  BY <1>1, <1>2 DEF EndsBelow

LEMMA InitIds == Init => IdsKept
<1> SUFFICES ASSUME Init PROVE IdsKept
  OBVIOUS
<1>1. NewIds(mPendingUpdates) = <<>>
  BY FlattenEmpty DEF Init, NewIds
<1>2. KnownBelow(sent, 0)
  BY PdConnsAssumption DEF Init, KnownBelow, Ids
<1>3. Ahead(0)
  BY DEF Init, Ahead, ToSet
<1>4. EndsBelow(<<>>, 0)
  BY DEF EndsBelow
<1>5. Ordered(0) /\ 0 \in 0 .. MaxConns
  BY <1>1, <1>2, <1>3, <1>4, PdConnsAssumption DEF Ordered
<1> QED
  BY <1>5 DEF IdsKept

(* Steps that no array, no queue and no id is about.                        *)
LEMMA OthersIds ==
  ASSUME IdsKept, UNCHANGED <<new_conns, conns_updates, new_conn_id, java_vars>>
  PROVE  IdsKept'
  BY DEF IdsKept, Ordered, Ahead, KnownBelow, java_vars

LEMMA NewConnectionIds == ASSUME IInv, IdsKept, handle_new_connection PROVE IdsKept'
<1> SUFFICES ASSUME ~failed', NEW k \in 0 .. MaxConns, Ordered(k)
             PROVE  \E n \in 0 .. MaxConns : Ordered(n)'
  BY DEF IdsKept, handle_new_connection, java_vars
<1>1. /\ new_conns \in Seq(Ids) /\ new_conn_id \in Nat /\ k \in Nat
      /\ new_conns' = Append(new_conns, new_conn_id)
      /\ new_conn_id' = new_conn_id + 1
      /\ UNCHANGED <<conns_updates, mPendingUpdates, mQueueFull, sent>>
  BY Shapes DEF IInv, handle_new_connection, java_vars
<1>2. ASSUME Ahead(k) PROVE Ahead(k)'
  <2>1. k + Len(new_conns) = new_conn_id /\ Len(new_conns) \in Nat
    BY <1>1, <1>2 DEF Ahead
  <2>2. Len(new_conns') = Len(new_conns) + 1 /\ new_conns'[Len(new_conns) + 1] = new_conn_id
    BY <1>1
  <2>3. ASSUME NEW i \in 1 .. Len(new_conns') PROVE new_conns'[i] = (k + i) - 1
    <3>1. CASE i \in 1 .. Len(new_conns)
      <4>1. new_conns'[i] = new_conns[i]
        BY <1>1, <3>1
      <4> QED BY <1>2, <3>1, <4>1 DEF Ahead
    <3>2. CASE i = Len(new_conns) + 1
      BY <1>1, <2>1, <2>2, <3>2
    <3> QED BY <2>1, <2>2, <3>1, <3>2
  <2>4. k + Len(new_conns') = new_conn_id'
    BY <1>1, <2>1, <2>2
  <2> QED BY <1>1, <1>2, <2>3, <2>4 DEF Ahead
<1>3. Ordered(k)'
  BY <1>1, <1>2 DEF Ordered, KnownBelow
<1> QED
  BY <1>3

(* What is not pending was sent.                                            *)
LEMMA NotifyIds ==
  ASSUME IInv, IdsKept, NEW c \in Active, NEW view, pd_notify_connection_update(c, view),
         UNCHANGED <<new_conns, new_conn_id, java_vars>>
  PROVE  IdsKept'
<1> SUFFICES ASSUME ~failed, NEW k \in 0 .. MaxConns, Ordered(k)
             PROVE  Ordered(k)'
  BY DEF IdsKept, java_vars
<1>1. /\ new_conns \in Seq(Ids) /\ conns_updates \in Seq(Ids)
      /\ new_conn_id \in Nat /\ k \in Nat
      /\ c \in Ids /\ c \in Int /\ c \in Alive
      /\ UNCHANGED <<new_conns, new_conn_id, mPendingUpdates, mQueueFull, sent>>
  BY Shapes DEF IInv, Active, Alive, Ids, java_vars
<1>2. ASSUME Ahead(k) PROVE Ahead(k)'
  <2>1. CASE data[c].pending
    <3>1. UNCHANGED conns_updates
      BY <2>1 DEF pd_notify_connection_update
    <3> QED BY <1>1, <1>2, <3>1 DEF Ahead
  <2>2. CASE ~data[c].pending
    <3>1. ToSet(conns_updates') = ToSet(conns_updates) \cup {c}
      BY <1>1, <2>2, AppendSet DEF pd_notify_connection_update
    <3>2. c \notin ToSet(new_conns)
      BY <2>2 DEF IInv, Arrays, Listed
    <3>3. c < new_conn_id
      BY <1>1 DEF IInv, Fresh, Alive, NoData
    <3>4. c < k
      <4> SUFFICES ASSUME c >= k PROVE FALSE
        BY <1>1
      <4> DEFINE i == (c - k) + 1
      <4>1. Len(new_conns) \in Nat /\ k + Len(new_conns) = new_conn_id
        BY <1>1, <1>2 DEF Ahead
      <4>2. i \in 1 .. Len(new_conns) /\ (k + i) - 1 = c
        BY <1>1, <3>3, <4>1
      <4> HIDE DEF i
      <4>3. new_conns[i] = c
        BY <1>2, <4>2 DEF Ahead
      <4>4. DOMAIN new_conns = 1 .. Len(new_conns)
        BY <1>1
      <4> QED BY <3>2, <4>2, <4>3, <4>4 DEF ToSet
    <3> QED BY <1>1, <1>2, <3>1, <3>4 DEF Ahead
  <2> QED BY <2>1, <2>2
<1> QED
  BY <1>1, <1>2 DEF Ordered, KnownBelow
(* A dump sends exactly what new_conns holds behind what was sent before.   *)
LEMMA BatchIds ==
  ASSUME Typed
  PROVE  IdsOf(Batch) = new_conns
<1>1. new_conns \in Seq(Ids)
  BY Shapes
<1>2. DOMAIN Batch.new = DOMAIN new_conns
      /\ \A i \in DOMAIN new_conns : Batch.new[i].id = new_conns[i]
  BY DEF Batch, Item
<1>3. IdsOf(Batch) = [i \in DOMAIN new_conns |-> new_conns[i]]
  BY <1>2 DEF IdsOf
<1> QED
  BY <1>1, <1>3

LEMMA SentIds ==
  ASSUME IInv, NEW k \in 0 .. MaxConns, Ordered(k), ~mQueueFull,
         mPendingUpdates' = Append(mPendingUpdates, Batch),
         sent' = [c \in Ids |-> IF c \in Listed THEN data[c].view ELSE sent[c]],
         new_conns' = <<>>, conns_updates' = <<>>, UNCHANGED new_conn_id
  PROVE  Ordered(new_conn_id)'
<1>1. /\ mPendingUpdates \in Seq(Batches) /\ Batch \in Batches
      /\ new_conns \in Seq(Ids) /\ new_conn_id \in Nat /\ k \in Nat
      /\ data \in [Ids -> Data] /\ Typed
  BY Shapes, BatchTyped DEF IInv
<1>2. Ahead(k) /\ EndsBelow(NewIds(mPendingUpdates), k) /\ KnownBelow(sent, k)
  BY DEF Ordered
<1>3. /\ Len(new_conns) \in Nat /\ k + Len(new_conns) = new_conn_id
      /\ \A i \in 1 .. Len(new_conns) : new_conns[i] = (k + i) - 1
      /\ DOMAIN new_conns = 1 .. Len(new_conns)
  BY <1>1, <1>2 DEF Ahead
<1>4. EndsBelow(NewIds(mPendingUpdates'), new_conn_id)
  <2>1. NewIds(mPendingUpdates') = NewIds(mPendingUpdates) \o new_conns
    BY <1>1, NewIdsAppend, BatchIds
  <2>2. NewIds(mPendingUpdates) \in Seq(Int) /\ new_conns \in Seq(Int)
    <3>1. NewIds(mPendingUpdates) \in Seq(Ids) /\ \A c \in Ids : c \in Int
      BY <1>1, AllIdsTyped DEF Ids
    <3> QED BY <1>1, <3>1
  <2>3. EndsBelow(NewIds(mPendingUpdates) \o new_conns, k + Len(new_conns))
    BY <1>1, <1>2, <1>3, <2>2, EndsBelowQueued
  <2> QED BY <1>3, <2>1, <2>3
<1>5. KnownBelow(sent', new_conn_id)
  <2> SUFFICES ASSUME NEW c \in Ids PROVE sent'[c] # NotSent <=> c < new_conn_id
    BY DEF KnownBelow
  <2>1. c \in Int
    BY DEF Ids
  <2>2. CASE c \in Listed
    <3>1. c \in Alive
      BY <2>2 DEF IInv, Arrays
    <3>2. c < new_conn_id
      BY <1>1, <2>1, <3>1 DEF IInv, Fresh, Alive, NoData
    <3>3. data[c].view.bytes \in Nat
      BY <1>1, PdConnsAssumption DEF Data, Views
    <3>4. data[c].view # NotSent
      BY <3>3 DEF NotSent, Unknown
    <3> QED BY <2>2, <3>2, <3>4
  <2>3. CASE c \notin Listed
    <3>1. sent'[c] # NotSent <=> c < k
      BY <1>2, <2>3 DEF KnownBelow
    <3>2. ASSUME c >= k, c < new_conn_id PROVE FALSE
      <4> DEFINE i == (c - k) + 1
      <4>1. i \in 1 .. Len(new_conns) /\ (k + i) - 1 = c
        BY <1>1, <1>3, <2>1, <3>2
      <4> HIDE DEF i
      <4>2. new_conns[i] = c
        BY <1>3, <4>1
      <4> QED BY <1>3, <2>3, <4>1, <4>2 DEF Listed, ToSet
    <3>3. k <= new_conn_id
      BY <1>1, <1>3
    <3> QED BY <1>1, <2>1, <3>1, <3>2, <3>3
  <2> QED BY <2>2, <2>3
<1>6. Ahead(new_conn_id)'
  BY <1>1 DEF Ahead, ToSet
<1> QED
  BY <1>4, <1>5, <1>6 DEF Ordered

LEMMA DumpIds ==
  ASSUME IInv, IdsKept, NEW free_all \in BOOLEAN, sendConnectionsDump(free_all),
         UNCHANGED new_conn_id
  PROVE  IdsKept'
<1> SUFFICES ASSUME ~failed' PROVE \E n \in 0 .. MaxConns : Ordered(n)'
  BY DEF IdsKept
<1>1. /\ updateConnections(Batch) /\ failed' = failed
      /\ new_conns' = <<>> /\ conns_updates' = <<>>
  BY DEF sendConnectionsDump, conns_clear
<1>2. PICK k \in 0 .. MaxConns : Ordered(k)
  BY <1>1 DEF IdsKept
<1>3. CASE ~mQueueFull /\ Len(mPendingUpdates) < QueueSize
  <2>1. /\ mPendingUpdates' = Append(mPendingUpdates, Batch)
        /\ sent' = [c \in Ids |-> IF c \in Listed THEN data[c].view ELSE sent[c]]
    BY <1>1, <1>3 DEF updateConnections, Listed
  <2>2. Ordered(new_conn_id)'
    BY <1>1, <1>2, <1>3, <2>1, SentIds
  <2>3. new_conn_id' = new_conn_id /\ new_conn_id \in 0 .. MaxConns
    BY Shapes DEF IInv
  <2> QED BY <2>2, <2>3 DEF Ordered
<1>4. CASE mQueueFull \/ ~(Len(mPendingUpdates) < QueueSize)
  <2>1. UNCHANGED <<mPendingUpdates, sent>> /\ mQueueFull' = TRUE
    BY <1>1, <1>4, Shapes DEF updateConnections, IInv
  <2>2. Ordered(k)'
    BY <1>2, <2>1 DEF Ordered, KnownBelow
  <2> QED BY <2>2
<1> QED
  BY <1>3, <1>4

LEMMA TakeIds == ASSUME IInv, IdsKept, take PROVE IdsKept'
<1> SUFFICES ASSUME ~failed, NEW k \in 0 .. MaxConns, Ordered(k) PROVE Ordered(k)'
  BY DEF IdsKept, take
<1>1. /\ mPendingUpdates \in Seq(Batches) /\ mPendingUpdates # <<>> /\ k \in Nat
      /\ mPendingUpdates' = Tail(mPendingUpdates)
      /\ UNCHANGED <<new_conns, conns_updates, new_conn_id, mQueueFull, sent>>
  BY Shapes DEF IInv, take, native_vars
<1> DEFINE h == IdsOf(Head(mPendingUpdates))
           t == NewIds(Tail(mPendingUpdates))
<1>2. NewIds(mPendingUpdates) = h \o t
  BY <1>1, NewIdsTail
<1>3. h \in Seq(Int) /\ t \in Seq(Int)
  <2>1. Head(mPendingUpdates) \in Batches /\ Tail(mPendingUpdates) \in Seq(Batches)
    BY <1>1
  <2>2. h \in Seq(Ids) /\ t \in Seq(Ids)
    BY <2>1, IdsOfTyped, AllIdsTyped
  <2>3. \A c \in Ids : c \in Int
    BY DEF Ids
  <2> HIDE DEF h, t
  <2> QED BY <2>2, <2>3
<1>4. EndsBelow(h \o t, k)
  BY <1>2 DEF Ordered
<1>5. EndsBelow(t, k)
  <2> HIDE DEF h, t
  <2> QED BY <1>1, <1>3, <1>4, EndsBelowLeft
<1> QED
  BY <1>1, <1>5 DEF Ordered, Ahead, KnownBelow

LEMMA NextIds == ASSUME IInv, IdsKept, [Next]_vars PROVE IdsKept'
<1>1. CASE handle_new_connection
  BY <1>1, NewConnectionIds
<1>2. ASSUME NEW c \in Ids,
             pd_process_packet(c) \/ connection_closed(c) \/ check_blocked_conn_cb(c)
      PROVE  IdsKept'
  <2>1. PICK view : pd_notify_connection_update(c, view)
    BY <1>2 DEF pd_process_packet, connection_closed, check_blocked_conn_cb
  <2>2. c \in Active /\ UNCHANGED <<new_conns, new_conn_id, java_vars>>
    BY <1>2 DEF pd_process_packet, connection_closed, check_blocked_conn_cb
  <2> QED BY <2>1, <2>2, NotifyIds
<1>3. CASE zdtun_finalize
  <2>1. PICK c \in Active :
          pd_notify_connection_update(c, [data[c].view EXCEPT !.closed = TRUE])
    BY <1>3 DEF zdtun_finalize
  <2> QED BY <1>3, <2>1, NotifyIds DEF zdtun_finalize
<1>4. ASSUME NEW c \in Ids, zdtun_forward_socket_error(c) PROVE IdsKept'
  BY <1>4, OthersIds DEF zdtun_forward_socket_error
<1>5. CASE pd_housekeeping
  BY <1>5, DumpIds DEF pd_housekeeping
<1>6. CASE pd_run_end
  BY <1>6, DumpIds DEF pd_run_end
<1>7. CASE stopPacketLoop
  BY <1>7, OthersIds DEF stopPacketLoop
<1>8. CASE take
  BY <1>8, TakeIds
<1>9. CASE UNCHANGED vars
  BY <1>9, OthersIds DEF vars, native_vars
<1> QED
  BY <1>1, <1>2, <1>3, <1>4, <1>5, <1>6, <1>7, <1>8, <1>9 DEF Next, NativeStep

LEMMA IdsSay == IInv /\ IdsKept => IdsInOrder
<1> SUFFICES ASSUME IInv, NEW k \in 0 .. MaxConns, Ordered(k) PROVE InOrder
  BY DEF IdsKept, IdsInOrder
<1> DEFINE queued == NewIds(mPendingUpdates)
           known == {c \in Ids : sent[c] # NotSent}
<1>1. queued \in Seq(Ids) /\ k \in Nat /\ MaxConns \in Nat
  BY Shapes, AllIdsTyped, PdConnsAssumption DEF IInv
<1>2. Len(queued) \in Nat /\ EndsBelow(queued, k)
  BY <1>1 DEF Ordered
<1>3. known = 0 .. (k - 1)
  <2>1. \A c \in Ids : c \in known <=> c < k
    BY DEF Ordered, KnownBelow
  <2>2. \A c \in 0 .. (k - 1) : c \in Ids /\ c < k
    BY <1>1 DEF Ids
  <2>3. \A c \in Ids : c \in Nat
    BY DEF Ids
  <2> QED BY <1>1, <2>1, <2>2, <2>3
<1> HIDE DEF queued, known
<1>4. \A c \in known : 0 .. c \subseteq known
  BY <1>1, <1>3
<1>5. \A i \in 1 .. (Len(queued) - 1) : queued[i + 1] = queued[i] + 1
  BY <1>1, <1>2 DEF EndsBelow
<1>6. queued # <<>> => known = 0 .. Last(queued)
  <2> SUFFICES ASSUME queued # <<>> PROVE known = 0 .. Last(queued)
    OBVIOUS
  <2>1. Len(queued) \in 1 .. Len(queued)
    BY <1>1
  <2>2. queued[Len(queued)] = ((k - Len(queued)) + Len(queued)) - 1
    BY <1>2, <2>1 DEF EndsBelow
  <2>3. Last(queued) = k - 1
    BY <1>1, <1>2, <2>2 DEF Last
  <2> QED BY <1>3, <2>3
<1>7. ~mQueueFull => ToSet(conns_updates) \subseteq known
  <2> SUFFICES ASSUME ~mQueueFull, NEW c \in ToSet(conns_updates) PROVE c \in known
    OBVIOUS
  <2>1. conns_updates \in Seq(Ids)
    BY Shapes DEF IInv
  <2>2. c \in Ids /\ c < k
    BY <2>1 DEF Ordered, Ahead, ToSet
  <2> QED BY <1>1, <1>3, <2>2 DEF Ids
<1> QED
  BY <1>4, <1>5, <1>6, <1>7 DEF InOrder, queued, known

(* The incr_ids reach Java in order and without a gap, and no update comes  *)
(* before its connection, for any queue and any order of events: "stop      *)
(* receiving updates to avoid inconsistent incr_ids".                       *)
THEOREM IdsInOrderSafe == Spec => []IdsInOrder
<1>1. Init => IInv /\ IdsKept
  BY InitIInv, InitIds
<1>2. (IInv /\ IdsKept) /\ [Next]_vars => (IInv /\ IdsKept)'
  BY NextIInv, NextIds
<1> QED
  BY <1>1, <1>2, IdsSay, PTL DEF Spec
=============================================================================
