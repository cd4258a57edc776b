--------------------------- MODULE DmStateProofs ---------------------------
(***************************************************************************)
(* What one call does to the state a client of the direct message library  *)
(* keeps: the cache of verified records, and an inbox's window of gift     *)
(* wraps against the log of all it processed.                              *)
(***************************************************************************)
EXTENDS DmLibrary, TLAPS, FiniteSetTheorems

\* A leaf is tried with Zenon, which is soon done, and then with SMT, unless it
\* names its prover.
USE ZenonT(10), SMTT(20)


(***************************************************************************)
(* The window.                                                             *)
(***************************************************************************)
News(log, i) == log[i].result # "duplicate"

\* The ids the inbox handed over after the entry i and up to j.
Later(log, i, j) == {log[k].id : k \in {n \in (i + 1)..j : News(log, n)}}

Expired(log, i, j) == \E k \in (i + 1)..j : log[k].at >= log[i].at + DedupTtl

Displaced(log, i, j) == Cardinality(Later(log, i, j)) >= DedupCapacity

\* The entry i of the log is in the window, with later ones only behind it.
Remembered(order, log, i) ==
    \E x \in DOMAIN order :
        /\ order[x].id = log[i].id /\ order[x].at = log[i].at
        /\ \A y \in (x + 1)..Len(order) : order[y].id \in Later(log, i, Len(log))

Logged ==
    [id: {w.id : w \in Wraps}, at: Nat, rumor: Said, session: {"open"},
     result: {"duplicate", "blocked", "message"}]

Stamp == [id: {w.id : w \in Wraps}, at: Nat]

Window(order, log) ==
    /\ order \in Seq(Stamp)
    /\ log \in Seq(Logged)
    /\ \A x, y \in DOMAIN order : order[x].id = order[y].id => x = y
    /\ \A i \in DOMAIN log : News(log, i) =>
          \/ Remembered(order, log, i)
          \/ Expired(log, i, Len(log))
          \/ Displaced(log, i, Len(log))
    /\ \A i, j \in DOMAIN log :
          i < j /\ News(log, i) /\ News(log, j) /\ log[i].id = log[j].id =>
              Expired(log, i, j) \/ Displaced(log, i, j - 1)

\* Entries with different ids are as many as their places.
LEMMA Distinct ==
    ASSUME NEW order, NEW m \in Nat, NEW x \in 0..m,
           \A y, z \in 1..m : order[y].id = order[z].id => y = z
    PROVE  LET ids == {order[y].id : y \in (x + 1)..m}
           IN IsFiniteSet(ids) /\ Cardinality(ids) = m - x
<1> DEFINE ids == {order[y].id : y \in (x + 1)..m}
           g == [y \in (x + 1)..m |-> order[y].id]
<1>1. g \in Bijection((x + 1)..m, ids)
  BY SMTT(20) DEF Bijection, Injection, Surjection, IsInjective
<1>2. IsFiniteSet((x + 1)..m) /\ Cardinality((x + 1)..m) = m - x
  <2>1. x + 1 \in Int /\ m \in Int
    OBVIOUS
  <2> HIDE DEF g, ids
  <2>2. /\ IsFiniteSet((x + 1)..m)
        /\ Cardinality((x + 1)..m) = IF x + 1 > m THEN 0 ELSE m - (x + 1) + 1
    BY <2>1, FS_Interval
  <2> QED
    BY <2>2
<1>3. ExistsBijection((x + 1)..m, ids)
  BY <1>1 DEF ExistsBijection
<1> QED
  BY <1>2, <1>3, FS_Bijection

\* The ids handed over within a stretch of the log are finitely many.
LEMMA LaterFinite ==
    ASSUME NEW log, NEW i \in Nat, NEW j \in Nat
    PROVE  IsFiniteSet(Later(log, i, j))
<1> DEFINE S == {n \in (i + 1)..j : News(log, n)}
           g == [k \in S |-> log[k].id]
<1>1. IsFiniteSet(S)
  <2>1. i + 1 \in Int /\ j \in Int /\ S \in SUBSET ((i + 1)..j)
    OBVIOUS
  <2>2. IsFiniteSet((i + 1)..j)
    BY <2>1, FS_Interval
  <2> HIDE DEF S, g
  <2> QED
    BY <2>1, <2>2, FS_Subset
<1>2. g \in Surjection(S, Later(log, i, j))
  BY DEF Surjection, Later
<1> QED
  BY <1>1, <1>2, FS_Surjection

\* A longer log keeps what was found out about its entries.
LEMMA LongerLog ==
    ASSUME NEW log \in Seq(Logged), NEW e \in Logged, NEW i \in DOMAIN log, NEW j \in i..Len(log)
    PROVE  LET more == Append(log, e)
           IN /\ Later(more, i, j) = Later(log, i, j)
              /\ Later(log, i, j) \subseteq Later(more, i, Len(more))
              /\ e.result # "duplicate" => e.id \in Later(more, i, Len(more))
              /\ Expired(log, i, j) => Expired(more, i, j) /\ Expired(more, i, Len(more))
              /\ Displaced(log, i, j) => Displaced(more, i, j) /\ Displaced(more, i, Len(more))
<1> DEFINE more == Append(log, e)
<1>1. /\ Len(more) = Len(log) + 1 /\ more[Len(log) + 1] = e /\ Len(log) \in Nat
      /\ \A k \in 1..Len(log) : more[k] = log[k]
      /\ i \in 1..Len(log)
  OBVIOUS
<1> HIDE DEF more
<1>2. \A k \in (i + 1)..j : more[k] = log[k]
  BY <1>1
<1>3. Later(more, i, j) = Later(log, i, j)
  BY <1>2 DEF Later, News
<1>4. Later(more, i, j) \subseteq Later(more, i, Len(more))
  BY <1>1, SMTT(20) DEF Later
<1>5. e.result # "duplicate" => e.id \in Later(more, i, Len(more))
  BY <1>1, SMTT(20) DEF Later, News
<1>6. Expired(log, i, j) => Expired(more, i, j) /\ Expired(more, i, Len(more))
  BY <1>1, <1>2 DEF Expired
<1>7. IsFiniteSet(Later(more, i, Len(more)))
  BY <1>1, LaterFinite
<1>8. Cardinality(Later(log, i, j)) <= Cardinality(Later(more, i, Len(more)))
  BY <1>3, <1>4, <1>7, FS_Subset
<1>9. /\ Cardinality(Later(log, i, j)) \in Nat /\ Cardinality(Later(more, i, Len(more))) \in Nat
      /\ DedupCapacity \in Nat
  BY <1>1, <1>7, LaterFinite, FS_CardinalityType, InboxAssumption, SMTT(20)
<1>10. Displaced(log, i, j) => Displaced(more, i, j) /\ Displaced(more, i, Len(more))
  BY <1>3, <1>8, <1>9 DEF Displaced
<1> QED
  BY <1>3, <1>4, <1>5, <1>6, <1>10 DEF more

\* A nonempty set of naturals has a least element.
LEMMA LeastNat ==
    ASSUME NEW T \in SUBSET Nat, T # {}
    PROVE  \E x \in T : \A y \in T : x <= y
<1>1. \E x \in T : \A y \in T : ~(<<y, x>> \in OpToRel(<, Nat))
  BY WFMin, NatLessThanWellFounded
<1>2. PICK x \in T : \A y \in T : ~(<<y, x>> \in OpToRel(<, Nat))
  BY <1>1
<1>3. \A y \in T : ~(y < x)
  BY <1>2 DEF OpToRel
<1> QED
  BY <1>3, SMTT(20)

\* The window afterwards: g entries expired, and those up to h made room.
LEMMA RememberForm ==
    ASSUME now \in Nat, NEW order \in Seq(Stamp), NEW id
    PROVE  LET r == Remember(order, id)
               n == Len(order)
           IN \E g \in 0..n : \E h \in g..n :
                 /\ \A x \in 1..g : now >= order[x].at + DedupTtl
                 /\ \/ h = g /\ r = [fresh |-> FALSE, order |-> SubSeq(order, g + 1, n)]
                    \/ /\ r = [fresh |-> TRUE,
                               order |-> Append(SubSeq(order, h + 1, n), [id |-> id, at |-> now])]
                       /\ \A x \in (g + 1)..n : order[x].id # id
                       /\ \A x \in (g + 1)..h : n - x + 1 >= DedupCapacity
<1> DEFINE n == Len(order)
           live(i) == Minus(now, order[i].at) < DedupTtl
           gone == {k \in 0..n : (\A i \in 1..k : ~live(i)) /\ (k < n => live(k + 1))}
           g == CHOOSE k \in gone : TRUE
           kept == SubSeq(order, g + 1, n)
           room == SubSeq(kept, Len(kept) + 2 - Least(Len(kept) + 1, DedupCapacity), Len(kept))
<1>0. n \in Nat /\ DedupCapacity \in Nat /\ DedupCapacity > 0 /\ DedupTtl \in Nat /\ DedupTtl > 0
      /\ \A x \in 1..n : order[x].at \in Nat
  <2>1. \A x \in 1..n : order[x] \in Stamp
    OBVIOUS
  <2>2. \A s \in Stamp : s.at \in Nat
    BY DEF Stamp
  <2> QED
    BY <2>1, <2>2, InboxAssumption
<1>1. gone # {}
  <2> DEFINE T == {k \in 0..n : k < n => live(k + 1)}
  <2> HIDE DEF live
  <2>1. T \in SUBSET Nat /\ n \in T
    BY <1>0
  <2>2. PICK k \in T : \A y \in T : k <= y
    BY <2>1, LeastNat
  <2>3. \A i \in 1..k : ~live(i)
    <3> SUFFICES ASSUME NEW i \in 1..k, live(i) PROVE FALSE
      OBVIOUS
    <3>1. i - 1 \in T /\ k \in Nat
      BY <1>0, <2>2
    <3> HIDE DEF T
    <3>2. k <= i - 1
      BY <2>2, <3>1
    <3> QED
      BY <3>1, <3>2
  <2>4. k \in gone
    BY <2>2, <2>3
  <2> QED
    BY <2>4
<1>2. g \in gone
  BY <1>1
<1> HIDE DEF g
<1>3. g \in 0..n /\ \A x \in 1..g : now >= order[x].at + DedupTtl
  <2>1. g \in 0..n /\ \A x \in 1..g : ~live(x)
    BY <1>2
  <2> QED
    <3> SUFFICES ASSUME NEW x \in 1..g PROVE now >= order[x].at + DedupTtl
      BY <2>1
    <3>1. order[x].at \in Nat /\ ~live(x)
      BY <1>0, <2>1
    <3> QED
      BY <1>0, <3>1 DEF Minus
<1>4. /\ kept \in Seq(Stamp) /\ Len(kept) = n - g
      /\ \A x \in 1..(n - g) : kept[x] = order[g + x]
  BY <1>0, <1>3
<1> HIDE DEF kept
<1>5. Remember(order, id) = IF \E i \in DOMAIN kept : kept[i].id = id
                            THEN [fresh |-> FALSE, order |-> kept]
                            ELSE [fresh |-> TRUE, order |-> Append(room, [id |-> id, at |-> now])]
  BY DEF Remember, g, kept
<1>6. CASE \E i \in DOMAIN kept : kept[i].id = id
  <2>1. g \in g..n
    BY <1>0, <1>3
  <2>2. Remember(order, id) = [fresh |-> FALSE, order |-> SubSeq(order, g + 1, n)]
    BY <1>5, <1>6 DEF kept
  <2> QED
    BY <1>3, <2>1, <2>2
<1>7. CASE \A i \in DOMAIN kept : kept[i].id # id
  <2> DEFINE s == IF Len(kept) + 1 <= DedupCapacity THEN 0 ELSE Len(kept) + 1 - DedupCapacity
             h == g + s
  <2>1. s \in 0..Len(kept) /\ Len(kept) + 2 - Least(Len(kept) + 1, DedupCapacity) = s + 1
    BY <1>0, <1>3, <1>4 DEF Least
  <2>2. h \in g..n /\ \A x \in (g + 1)..h : n - x + 1 >= DedupCapacity
    BY <1>0, <1>3, <1>4
  <2>3. room = SubSeq(order, h + 1, n)
    <3> HIDE DEF s
    <3>1. room = SubSeq(kept, s + 1, Len(kept))
      BY <2>1
    <3> HIDE DEF room
    <3>2. /\ room \in Seq(Stamp) /\ Len(room) = Len(kept) - s
          /\ \A x \in 1..(Len(kept) - s) : room[x] = kept[s + x]
      BY <1>4, <2>1, <3>1, <1>0, SMTT(20)
    <3>3. /\ SubSeq(order, h + 1, n) \in Seq(Stamp) /\ Len(SubSeq(order, h + 1, n)) = n - h
          /\ \A x \in 1..(n - h) : SubSeq(order, h + 1, n)[x] = order[h + x]
      <4>1. h \in 0..n
        BY <1>0, <1>3, <2>2
      <4> HIDE DEF h
      <4> QED
        BY <1>0, <4>1
    <3>4. n - h = Len(kept) - s /\ Len(kept) - s \in Nat
      BY <1>0, <1>3, <1>4, <2>1
    <3>5. ASSUME NEW x \in 1..(n - h) PROVE room[x] = order[h + x]
      <4>1. x \in 1..(Len(kept) - s) /\ s + x \in 1..(n - g) /\ g + (s + x) = h + x
        BY <1>0, <1>3, <1>4, <2>1, <3>4
      <4> HIDE DEF h, n
      <4> QED
        BY <1>4, <3>2, <4>1
    <3> QED
      BY <3>2, <3>3, <3>4, <3>5
  <2>4. \A x \in (g + 1)..n : order[x].id # id
    <3> SUFFICES ASSUME NEW x \in (g + 1)..n PROVE order[x].id # id
      OBVIOUS
    <3>1. x - g \in 1..(n - g) /\ x - g \in DOMAIN kept
      BY <1>0, <1>3, <1>4
    <3>2. kept[x - g] = order[g + (x - g)] /\ g + (x - g) = x
      BY <1>0, <1>3, <1>4, <3>1
    <3> QED
      BY <1>7, <3>1, <3>2
  <2>5. Remember(order, id) = [fresh |-> TRUE,
                               order |-> Append(SubSeq(order, h + 1, n), [id |-> id, at |-> now])]
    BY <1>5, <1>7, <2>3
  <2> QED
    BY <1>3, <2>2, <2>4, <2>5
<1> QED
  BY <1>6, <1>7

\* The window order of n entries becomes q of k entries when a gift wrap id is
\* remembered: g entries expired, and the ones up to h made room.
Moved(order, n, q, k, g, h, id, at, fresh) ==
    /\ n \in Nat /\ k \in Nat /\ g \in Nat /\ h \in Nat /\ g <= h /\ h <= n
    /\ \A x \in 1..g : at >= order[x].at + DedupTtl
    /\ \A x \in 1..(n - h) : q[x] = order[h + x]
    /\ IF fresh
       THEN /\ k = n - h + 1 /\ q[k].id = id /\ q[k].at = at
            /\ \A x \in (g + 1)..n : order[x].id # id
            /\ \A x \in (g + 1)..h : n - x + 1 >= DedupCapacity
       ELSE k = n - h /\ h = g

\* A window that is moved still holds every id once.
LEMMA MovedDistinct ==
    ASSUME NEW order, NEW n, NEW q, NEW k, NEW g, NEW h, NEW id, NEW at, NEW fresh,
           Moved(order, n, q, k, g, h, id, at, fresh),
           \A x, y \in 1..n : order[x].id = order[y].id => x = y,
           NEW x \in 1..k, NEW y \in 1..k, q[x].id = q[y].id
    PROVE  x = y
<1>1. ASSUME NEW z \in 1..(n - h) PROVE h + z \in (g + 1)..n /\ h + z \in 1..n /\ q[z] = order[h + z]
  BY SMTT(20) DEF Moved
<1>2. CASE x \in 1..(n - h) /\ y \in 1..(n - h)
  <2>1. h + x = h + y
    BY <1>1, <1>2, SMTT(20)
  <2> QED
    BY <1>2, <2>1, SMTT(20) DEF Moved
<1>3. ASSUME NEW z \in 1..(n - h), fresh PROVE q[z].id # q[k].id
  BY <1>1, <1>3, SMTT(20) DEF Moved
<1>4. \A z \in 1..k : z \in 1..(n - h) \/ (fresh /\ z = k)
  BY SMTT(20) DEF Moved
<1>5. CASE fresh /\ x = k
  BY <1>3, <1>4, <1>5
<1>6. CASE fresh /\ y = k
  BY <1>3, <1>4, <1>6
<1> QED
  BY <1>2, <1>4, <1>5, <1>6

\* What becomes of the entry at x, when the ids behind it are those of Old and
\* the ids handed over since then are those of New.
LEMMA MovedEntry ==
    ASSUME NEW order, NEW n, NEW q, NEW k, NEW g, NEW h, NEW id, NEW at, NEW fresh,
           Moved(order, n, q, k, g, h, id, at, fresh),
           \A x, y \in 1..n : order[x].id = order[y].id => x = y,
           NEW x \in 1..n, NEW New, IsFiniteSet(New),
           \A y \in (x + 1)..n : order[y].id \in New,
           fresh => id \in New
    PROVE  \/ at >= order[x].at + DedupTtl
           \/ fresh /\ order[x].id # id /\ Cardinality(New) >= DedupCapacity
           \/ /\ fresh => order[x].id # id
              /\ \E z \in 1..k : q[z] = order[x] /\ \A y \in (z + 1)..k : q[y].id \in New
<1>1. CASE x <= g
  BY <1>1, SMTT(20) DEF Moved
<1>2. CASE x > g /\ x <= h
  <2>1. fresh /\ x \in (g + 1)..h /\ x \in (g + 1)..n
    BY <1>2, SMTT(20) DEF Moved
  <2>2. order[x].id # id /\ n - x + 1 >= DedupCapacity /\ \A y \in (x + 1)..n : order[y].id # id
    BY <2>1, SMTT(20) DEF Moved
  <2> DEFINE ids == {order[y].id : y \in (x + 1)..n}
  <2>3. IsFiniteSet(ids) /\ Cardinality(ids) = n - x
    <3>1. n \in Nat /\ x \in 0..n
      BY SMTT(20) DEF Moved
    <3> QED
      BY <3>1, Distinct
  <2>4. id \notin ids /\ ids \cup {id} \in SUBSET New
    BY <2>1, <2>2
  <2> HIDE DEF ids
  <2>5. Cardinality(ids \cup {id}) = n - x + 1
    BY <2>3, <2>4, FS_AddElement
  <2>6. Cardinality(ids \cup {id}) <= Cardinality(New)
    BY <2>4, FS_Subset
  <2>7. Cardinality(New) \in Nat /\ n \in Nat /\ DedupCapacity \in Nat
    BY FS_CardinalityType, InboxAssumption DEF Moved
  <2>8. Cardinality(New) >= DedupCapacity
    BY <2>2, <2>5, <2>6, <2>7, SMTT(20)
  <2> QED
    BY <2>1, <2>2, <2>8
<1>3. CASE x > h
  <2>1. x - h \in 1..(n - h) /\ h + (x - h) = x /\ x \in (g + 1)..n /\ x - h \in 1..k
    BY <1>3, SMTT(20) DEF Moved
  <2>2. q[x - h] = order[x] /\ (fresh => order[x].id # id)
    BY <2>1 DEF Moved
  <2>3. ASSUME NEW y \in ((x - h) + 1)..k PROVE q[y].id \in New
    <3>1. CASE y \in 1..(n - h)
      <4>1. h + y \in (x + 1)..n /\ q[y] = order[h + y]
        BY <1>3, <2>3, <3>1, SMTT(20) DEF Moved
      <4> QED
        BY <4>1
    <3>2. CASE y \notin 1..(n - h)
      <4>1. fresh /\ y = k /\ q[y].id = id
        BY <1>3, <2>1, <2>3, <3>2, SMTT(20) DEF Moved
      <4> QED
        BY <4>1
    <3> QED
      BY <3>1, <3>2
  <2> QED
    BY <2>1, <2>2, <2>3
<1> QED
  BY <1>1, <1>2, <1>3, SMTT(20) DEF Moved

\* The window a gift wrap leaves is the old one, moved.
LEMMA RememberMoves ==
    ASSUME now \in Nat, NEW order \in Seq(Stamp), NEW id \in {w.id : w \in Wraps}
    PROVE  LET r == Remember(order, id)
           IN /\ r.order \in Seq(Stamp)
              /\ \E g, h : Moved(order, Len(order), r.order, Len(r.order), g, h, id, now, r.fresh)
<1> DEFINE r == Remember(order, id)
           n == Len(order)
           stamp == [id |-> id, at |-> now]
<1>1. n \in Nat /\ stamp \in Stamp
  BY DEF Stamp
<1>2. PICK g \in 0..n : \E h \in g..n :
                 /\ \A x \in 1..g : now >= order[x].at + DedupTtl
                 /\ \/ h = g /\ r = [fresh |-> FALSE, order |-> SubSeq(order, g + 1, n)]
                    \/ /\ r = [fresh |-> TRUE, order |-> Append(SubSeq(order, h + 1, n), stamp)]
                       /\ \A x \in (g + 1)..n : order[x].id # id
                       /\ \A x \in (g + 1)..h : n - x + 1 >= DedupCapacity
  BY RememberForm
<1>3. PICK h \in g..n :
                 /\ \A x \in 1..g : now >= order[x].at + DedupTtl
                 /\ \/ h = g /\ r = [fresh |-> FALSE, order |-> SubSeq(order, g + 1, n)]
                    \/ /\ r = [fresh |-> TRUE, order |-> Append(SubSeq(order, h + 1, n), stamp)]
                       /\ \A x \in (g + 1)..n : order[x].id # id
                       /\ \A x \in (g + 1)..h : n - x + 1 >= DedupCapacity
  BY <1>2
<1> DEFINE front == SubSeq(order, h + 1, n)
<1> HIDE DEF r
<1>4. front \in Seq(Stamp) /\ Len(front) = n - h /\ \A x \in 1..(n - h) : front[x] = order[h + x]
  BY <1>1
<1> HIDE DEF front
<1>5. CASE h = g /\ r = [fresh |-> FALSE, order |-> SubSeq(order, g + 1, n)]
  <2>1. r.order = front /\ r.fresh = FALSE
    BY <1>5 DEF front
  <2>2. r.order \in Seq(Stamp) /\ Len(r.order) = n - h /\ \A x \in 1..(n - h) : r.order[x] = order[h + x]
    BY <1>4, <2>1
  <2> HIDE DEF n
  <2>3. Moved(order, n, r.order, Len(r.order), g, h, id, now, r.fresh)
    BY <1>1, <1>3, <1>5, <2>1, <2>2 DEF Moved
  <2> QED
    BY <2>2, <2>3 DEF r, n
<1>6. CASE /\ r = [fresh |-> TRUE, order |-> Append(SubSeq(order, h + 1, n), stamp)]
           /\ \A x \in (g + 1)..n : order[x].id # id
           /\ \A x \in (g + 1)..h : n - x + 1 >= DedupCapacity
  <2>1. r.order = Append(front, stamp) /\ r.fresh = TRUE
    BY <1>6 DEF front
  <2> DEFINE m == Len(front)
  <2>2. /\ Append(front, stamp) \in Seq(Stamp) /\ Len(Append(front, stamp)) = m + 1
        /\ Append(front, stamp)[m + 1] = stamp
        /\ \A x \in 1..m : Append(front, stamp)[x] = front[x]
    <3> HIDE DEF stamp
    <3> QED
      BY <1>1, <1>4
  <2> HIDE DEF n, m
  <2>3. m = n - h
    BY <1>4 DEF m
  <2>4. /\ r.order \in Seq(Stamp) /\ Len(r.order) = n - h + 1
        /\ r.order[n - h + 1] = stamp /\ \A x \in 1..(n - h) : r.order[x] = order[h + x]
    BY <1>4, <2>1, <2>2, <2>3
  <2>5. Moved(order, n, r.order, Len(r.order), g, h, id, now, r.fresh)
    BY <1>1, <1>3, <1>6, <2>1, <2>4, SMTT(20) DEF Moved
  <2> QED
    BY <2>4, <2>5 DEF r, n
<1> QED
  BY <1>3, <1>5, <1>6

\* The places of a log with one more entry.
LEMMA OneMore ==
    ASSUME NEW log \in Seq(Logged), NEW e \in Logged, NEW i \in DOMAIN log
    PROVE  LET more == Append(log, e)
               m == Len(log)
           IN /\ Len(more) = m + 1 /\ more[m + 1] = e
              /\ m \in Nat /\ m + 1 \in Nat /\ i \in Nat /\ i \in 1..m
              /\ m \in i..m /\ m + 1 \in (i + 1)..(m + 1)
              /\ \A k \in 1..m : more[k] = log[k]
OBVIOUS

\* What is known of an entry of the log after one more gift wrap.
LEMMA EntryStep ==
    ASSUME NEW order, NEW log \in Seq(Logged), NEW e \in Logged, NEW q, NEW g, NEW h, NEW fresh,
           Moved(order, Len(order), q, Len(q), g, h, e.id, e.at, fresh),
           fresh <=> e.result # "duplicate",
           DOMAIN order = 1..Len(order), DOMAIN q = 1..Len(q),
           \A x, y \in 1..Len(order) : order[x].id = order[y].id => x = y,
           NEW i \in DOMAIN log,
           \/ Remembered(order, log, i)
           \/ Expired(log, i, Len(log)) \/ Displaced(log, i, Len(log))
    PROVE  LET more == Append(log, e)
           IN /\ \/ Remembered(q, more, i)
                 \/ Expired(more, i, Len(more)) \/ Displaced(more, i, Len(more))
              /\ e.result # "duplicate" /\ e.id = log[i].id =>
                    Expired(more, i, Len(more)) \/ Displaced(more, i, Len(log))
<1> DEFINE more == Append(log, e)
           New == Later(more, i, Len(more))
           m == Len(log)
<1>1. /\ Len(more) = m + 1 /\ more[m + 1] = e
      /\ m \in Nat /\ m + 1 \in Nat /\ i \in Nat /\ i \in 1..m
      /\ m \in i..m /\ m + 1 \in (i + 1)..(m + 1)
      /\ \A k \in 1..m : more[k] = log[k]
  BY OneMore
<1>2. /\ Later(log, i, m) \subseteq New
      /\ e.result # "duplicate" => e.id \in New
      /\ Expired(log, i, m) => Expired(more, i, Len(more))
      /\ Displaced(log, i, m) => Displaced(more, i, m) /\ Displaced(more, i, Len(more))
  BY <1>1, LongerLog
<1> HIDE DEF more
<1>3. IsFiniteSet(New)
  BY <1>1, LaterFinite
<1>4. CASE Expired(log, i, m) \/ Displaced(log, i, m)
  BY <1>2, <1>4 DEF more
<1>5. CASE Remembered(order, log, i)
  <2>1. PICK x \in 1..Len(order) :
            /\ order[x].id = log[i].id /\ order[x].at = log[i].at
            /\ \A y \in (x + 1)..Len(order) : order[y].id \in Later(log, i, m)
    BY <1>5 DEF Remembered
  <2>2. \A y \in (x + 1)..Len(order) : order[y].id \in New
    BY <1>2, <2>1, ZenonT(30)
  <2> HIDE DEF New
  <2>3. \/ e.at >= order[x].at + DedupTtl
        \/ /\ fresh /\ order[x].id # e.id /\ Cardinality(New) >= DedupCapacity
        \/ /\ fresh => order[x].id # e.id
           /\ \E z \in 1..Len(q) : q[z] = order[x] /\ \A y \in (z + 1)..Len(q) : q[y].id \in New
    <3>1. /\ Moved(order, Len(order), q, Len(q), g, h, e.id, e.at, fresh)
          /\ \A y, z \in 1..Len(order) : order[y].id = order[z].id => y = z
          /\ x \in 1..Len(order) /\ (fresh => e.id \in New)
      BY <1>2
    <3> QED
      BY ONLY <1>3, <2>2, <3>1, MovedEntry, SMTT(20)
  <2>4. CASE e.at >= order[x].at + DedupTtl
    <3>1. more[m + 1].at >= more[i].at + DedupTtl /\ m + 1 \in (i + 1)..(m + 1)
      BY <1>1, <2>1, <2>4
    <3>2. Expired(more, i, Len(more))
      BY <1>1, <3>1 DEF Expired
    <3> QED
      BY <3>2 DEF more
  <2>5. CASE fresh /\ order[x].id # e.id /\ Cardinality(New) >= DedupCapacity
    <3>1. Displaced(more, i, Len(more)) /\ e.id # log[i].id
      BY <2>1, <2>5 DEF Displaced, New
    <3> QED
      BY <3>1 DEF more
  <2>6. CASE /\ fresh => order[x].id # e.id
             /\ \E z \in 1..Len(q) : q[z] = order[x] /\ \A y \in (z + 1)..Len(q) : q[y].id \in New
    <3>1. PICK z \in 1..Len(q) : q[z] = order[x] /\ \A y \in (z + 1)..Len(q) : q[y].id \in New
      BY <2>6
    <3>2. q[z].id = more[i].id /\ q[z].at = more[i].at
      BY <1>1, <2>1, <3>1
    <3>3. Remembered(q, more, i)
      BY <3>1, <3>2 DEF Remembered, New
    <3> QED
      BY <2>1, <2>6, <3>3 DEF more
  <2> QED
    BY <2>3, <2>4, <2>5, <2>6
<1> QED
  BY <1>4, <1>5

\* A gift wrap that is received leaves the window in order.
LEMMA WindowStep ==
    ASSUME now \in Nat, NEW order, NEW log, Window(order, log),
           NEW e \in Logged, e.at = now,
           Remember(order, e.id).fresh <=> e.result # "duplicate"
    PROVE  Window(Remember(order, e.id).order, Append(log, e))
<1> DEFINE r == Remember(order, e.id)
           q == r.order
           fresh == r.fresh
           more == Append(log, e)
           m == Len(log)
<1>1. order \in Seq(Stamp) /\ log \in Seq(Logged) /\ e.id \in {w.id : w \in Wraps}
  BY DEF Window, Logged
<1>2. q \in Seq(Stamp) /\ \E g, h : Moved(order, Len(order), q, Len(q), g, h, e.id, e.at, fresh)
  BY <1>1, RememberMoves
<1> HIDE DEF r, q, fresh
<1>3. PICK g, h : Moved(order, Len(order), q, Len(q), g, h, e.id, e.at, fresh)
  BY <1>2
<1>4. /\ DOMAIN order = 1..Len(order) /\ DOMAIN q = 1..Len(q) /\ DOMAIN log = 1..m /\ m \in Nat
      /\ more \in Seq(Logged) /\ Len(more) = m + 1 /\ more[m + 1] = e /\ DOMAIN more = 1..(m + 1)
      /\ \A k \in 1..m : more[k] = log[k]
  BY <1>1, <1>2
<1>5. fresh <=> e.result # "duplicate"
  BY DEF fresh, r
<1>6. /\ \A x, y \in 1..Len(order) : order[x].id = order[y].id => x = y
      /\ \A i \in 1..m : News(log, i) =>
            Remembered(order, log, i) \/ Expired(log, i, m) \/ Displaced(log, i, m)
      /\ \A i, j \in 1..m :
            i < j /\ News(log, i) /\ News(log, j) /\ log[i].id = log[j].id =>
                Expired(log, i, j) \/ Displaced(log, i, j - 1)
  BY <1>4 DEF Window
<1>7. \A x, y \in DOMAIN q : q[x].id = q[y].id => x = y
  <2>1. \A x, y \in 1..Len(q) : q[x].id = q[y].id => x = y
    BY ONLY <1>3, <1>6, MovedDistinct, SMTT(20)
  <2> QED
    BY ONLY <1>4, <2>1, ZenonT(20)
<1>8. ASSUME NEW i \in 1..m, News(log, i)
      PROVE  /\ \/ Remembered(q, more, i)
                \/ Expired(more, i, Len(more)) \/ Displaced(more, i, Len(more))
             /\ fresh /\ e.id = log[i].id => Expired(more, i, Len(more)) \/ Displaced(more, i, m)
  <2>1. /\ i \in DOMAIN log
        /\ Remembered(order, log, i) \/ Expired(log, i, Len(log)) \/ Displaced(log, i, Len(log))
    BY <1>4, <1>6, <1>8
  <2>2. /\ log \in Seq(Logged) /\ e \in Logged
        /\ DOMAIN order = 1..Len(order) /\ DOMAIN q = 1..Len(q)
        /\ \A x, y \in 1..Len(order) : order[x].id = order[y].id => x = y
    BY <1>1, <1>4, <1>6
  <2>3. /\ \/ Remembered(q, Append(log, e), i)
           \/ Expired(Append(log, e), i, Len(Append(log, e)))
           \/ Displaced(Append(log, e), i, Len(Append(log, e)))
        /\ e.result # "duplicate" /\ e.id = log[i].id =>
              \/ Expired(Append(log, e), i, Len(Append(log, e)))
              \/ Displaced(Append(log, e), i, Len(log))
    BY ONLY <1>3, <1>5, <2>1, <2>2, EntryStep, ZenonT(20)
  <2> QED
    BY <1>5, <2>3
<1>9. /\ \A i \in 1..m : (News(more, i) <=> News(log, i))
      /\ News(more, m + 1) <=> fresh
  BY <1>4, <1>5 DEF News
<1>10. fresh => Remembered(q, more, m + 1)
  <2> SUFFICES ASSUME fresh PROVE Remembered(q, more, m + 1)
    OBVIOUS
  <2>1. Len(q) \in 1..Len(q) /\ q[Len(q)].id = e.id /\ q[Len(q)].at = e.at /\ Len(q) \in Nat
    BY <1>3, SMTT(20) DEF Moved
  <2>2. (Len(q) + 1)..Len(q) = {}
    BY <2>1
  <2> QED
    BY <1>4, <2>1, <2>2 DEF Remembered
<1>11. \A i \in DOMAIN more : News(more, i) =>
           Remembered(q, more, i) \/ Expired(more, i, Len(more)) \/ Displaced(more, i, Len(more))
  BY <1>4, <1>8, <1>9, <1>10
<1>12. ASSUME NEW i \in 1..(m + 1), NEW j \in 1..(m + 1),
              i < j, News(more, i), News(more, j), more[i].id = more[j].id
       PROVE  Expired(more, i, j) \/ Displaced(more, i, j - 1)
  <2>1. i \in 1..m /\ i \in Nat /\ News(log, i) /\ more[i] = log[i]
    BY <1>4, <1>9, <1>12, SMTT(20)
  <2>2. CASE j = m + 1
    <3>1. fresh /\ e.id = log[i].id /\ j = Len(more) /\ j - 1 = m
      BY <1>4, <1>9, <1>12, <2>1, <2>2
    <3> QED
      BY <1>8, <2>1, <3>1
  <2>3. CASE j # m + 1
    <3>0. j \in 1..m
      BY <1>4, <2>3, SMTT(20)
    <3>1. j \in 1..m /\ News(log, j) /\ log[i].id = log[j].id
      BY <1>4, <1>9, <1>12, <2>1, <3>0
    <3>2. Expired(log, i, j) \/ Displaced(log, i, j - 1)
      BY <1>6, <1>12, <2>1, <3>1
    <3>3. j \in i..Len(log) /\ j - 1 \in i..Len(log) /\ i \in DOMAIN log
      BY <1>4, <1>12, <2>1, <3>1, SMTT(20)
    <3>4. ASSUME NEW k \in i..Len(log) PROVE Expired(log, i, k) => Expired(more, i, k)
      BY <1>1, <3>3, LongerLog
    <3>5. ASSUME NEW k \in i..Len(log) PROVE Displaced(log, i, k) => Displaced(more, i, k)
      BY <1>1, <3>3, LongerLog
    <3> QED
      BY <3>2, <3>3, <3>4, <3>5
  <2> QED
    BY <2>2, <2>3
<1>13. Window(q, more)
  BY <1>2, <1>4, <1>7, <1>11, <1>12 DEF Window
<1> QED
  BY <1>13 DEF q, r

(***************************************************************************)
(* Records.                                                                *)
(***************************************************************************)
\* The endpoints an event lists under the tag name, in their canonical form.
Listed(e, name) == {Url[t[2]].canon : t \in {x \in Range(e.tags) : x[1] = name}}

\* The records of author a that the event e gives when it is verified at v.
Made(k, e, a, v) ==
    CASE k = "dm_relays" -> UNION {DmRecord(i, v) : i \in VerifyDmInbox(e, a, v, v)}
      [] k = "relays" -> {Record(e, {r.url : r \in l.relays}, v) :
                              l \in ParseList(e, v, "relays", MaxListRelays)}
      [] k = "profile" -> {Record(p.ev, {}, v) : p \in VerifyProfile(e, a, v)}

Kept(k, r, a) ==
    /\ r \in Made(k, r.ev, a, r.verified_at)
    /\ r.ev.pubkey = a /\ r.ev.created_at \in Nat /\ r.verified_at \in Nat
    /\ r.ev.created_at <= r.verified_at

\* Every record is one that its own event gives, and there is room for all.
CacheOk(c, k) ==
    /\ c = [a \in Authors |-> c[a]]
    /\ \A a \in Authors : c[a] = NoRecord \/ (c[a].there = TRUE /\ Kept(k, c[a], a))
    /\ IsFiniteSet(Cached(c)) /\ Cardinality(Cached(c)) <= MaxRecords
    /\ Cached(c) # {} => Fits(c)

\* Verification depends on the time only through the future.
LEMMA VerifyLater ==
    ASSUME NEW e, e.created_at \in Nat, NEW v \in Nat, NEW n \in Nat, v <= n, Verify(e, v)
    PROVE  Verify(e, n)
<1>1. MaxFuture \in Nat
  BY EventAssumption
<1> QED
  BY <1>1 DEF Verify

\* A list that verifies at two times reads the same at both.
LEMMA ParseSame ==
    ASSUME NEW e, NEW v, NEW n, NEW k, NEW max, Verify(e, v), Verify(e, n)
    PROVE  ParseList(e, v, k, max) = ParseList(e, n, k, max)
BY DEF ParseList

\* What is read from a list.
LEMMA ParseFacts ==
    ASSUME NEW e, NEW n, NEW k, NEW max, NEW l \in ParseList(e, n, k, max),
           NEW name, name = IF k = "relays" THEN "r" ELSE "relay"
    PROVE  /\ Verify(e, n) /\ e.kind = k
           /\ l.public_key = e.pubkey /\ l.created_at = e.created_at
           /\ {r.url : r \in l.relays} = Listed(e, name)
           /\ Listed(e, name) \subseteq DOMAIN Url
           /\ \A u \in Listed(e, name) : Url[u].canon = u
           /\ ParseList(e, n, k, max) = {l}
<1> DEFINE own == IF k = "relays" THEN "r" ELSE "relay"
           entries == {t \in Range(e.tags) : t[1] = own}
           urls == {Url[t[2]].canon : t \in entries}
           of(u) == {t \in entries : Url[t[2]].canon = u}
           for(u, use) == \E t \in of(u) : Len(t) = 2 \/ t[3] = use
           usable(u) ==
            /\ u \in DOMAIN Url /\ Url[u].scheme \in {"ws", "wss"}
            /\ ~Url[u].user /\ ~Url[u].query /\ ~Url[u].fragment
           relay(u) == [url |-> u, read |-> for(u, "read"), write |-> for(u, "write")]
           rec == [public_key |-> e.pubkey, created_at |-> e.created_at,
                   relays |-> {relay(u) : u \in urls}]
<1>1. Verify(e, n) /\ e.kind = k /\ (\A t \in entries : usable(t[2])) /\ ParseList(e, n, k, max) = {rec}
  BY DEF ParseList
<1>2. l = rec
  BY <1>1
<1>3. urls = Listed(e, name)
  <2>1. own = name
    OBVIOUS
  <2> HIDE DEF own
  <2> QED
    BY <2>1 DEF Listed
<1> HIDE DEF for, of
<1>4. l.public_key = e.pubkey /\ l.created_at = e.created_at /\ {r.url : r \in l.relays} = urls
  <2> HIDE DEF urls, entries, own
  <2>1. \A u : relay(u).url = u
    OBVIOUS
  <2> HIDE DEF relay
  <2>2. l.public_key = e.pubkey /\ l.created_at = e.created_at /\ l.relays = {relay(u) : u \in urls}
    BY <1>2
  <2> QED
    BY <2>1, <2>2, SMTT(20)
<1> HIDE DEF rec, relay
<1>5. \A t \in entries : t[2] \in DOMAIN Url
  BY <1>1
<1>6. \A u \in DOMAIN Url : Url[u].canon \in DOMAIN Url /\ Url[Url[u].canon].canon = Url[u].canon
  BY UrlAssumption DEF ParsedUrl
<1> HIDE DEF entries
<1>7. urls \subseteq DOMAIN Url /\ \A u \in urls : Url[u].canon = u
  BY <1>5, <1>6
<1> HIDE DEF urls
<1> QED
  BY <1>1, <1>2, <1>3, <1>4, <1>7

\* What is known of a verified inbox.
LEMMA InboxFacts ==
    ASSUME NEW e, NEW a, NEW n, NEW age, NEW i \in VerifyDmInbox(e, a, n, age)
    PROVE  /\ e.pubkey = a /\ Verify(e, n) /\ e.created_at <= n /\ n - e.created_at <= age
           /\ i.ev = e /\ i.recipient = a /\ i.relays = Listed(e, "relay")
           /\ Listed(e, "relay") \subseteq DOMAIN Url
           /\ \A u \in Listed(e, "relay") : Url[u].canon = u
           /\ VerifyDmInbox(e, a, n, age) = {i}
<1>1. PICK l \in ParseList(e, n, "dm_relays", MaxDmRelays) :
            /\ l.public_key = a /\ l.created_at <= n /\ n - l.created_at <= age
            /\ \A x \in l.relays : SecureOrLoopback(x.url)
            /\ i = [recipient |-> a, relays |-> {x.url : x \in l.relays}, ev |-> e]
  BY DEF VerifyDmInbox
<1>2. /\ Verify(e, n) /\ l.public_key = e.pubkey /\ l.created_at = e.created_at
      /\ {x.url : x \in l.relays} = Listed(e, "relay") /\ Listed(e, "relay") \subseteq DOMAIN Url
      /\ \A u \in Listed(e, "relay") : Url[u].canon = u
      /\ ParseList(e, n, "dm_relays", MaxDmRelays) = {l}
  BY ParseFacts, SMTT(20)
<1>3. i.ev = e /\ i.recipient = a /\ i.relays = Listed(e, "relay")
  BY <1>1, <1>2
<1>4. VerifyDmInbox(e, a, n, age) = {i}
  BY <1>1, <1>2 DEF VerifyDmInbox
<1> QED
  BY <1>1, <1>2, <1>3, <1>4

\* A record of the cache for direct messages holds what the list says.
LEMMA DmMade ==
    ASSUME NEW e, NEW a, NEW v, NEW n, NEW age,
           NEW i \in VerifyDmInbox(e, a, n, age), NEW r \in DmRecord(i, v)
    PROVE  /\ r = Record(e, Listed(e, "relay"), v) /\ Verify(e, n) /\ e.pubkey = a
           /\ e.created_at <= n /\ ~(v < e.created_at) /\ Listed(e, "relay") \subseteq DOMAIN Url
           /\ VerifyDmInbox(e, a, n, age) = {i} /\ DmRecord(i, v) = {r}
<1>1. /\ Verify(e, n) /\ e.pubkey = a /\ e.created_at <= n
      /\ i.ev = e /\ i.relays = Listed(e, "relay") /\ Listed(e, "relay") \subseteq DOMAIN Url
      /\ \A u \in Listed(e, "relay") : Url[u].canon = u
      /\ VerifyDmInbox(e, a, n, age) = {i}
  BY InboxFacts, ZenonT(30)
<1>2. {Url[u].canon : u \in i.relays} = Listed(e, "relay")
  BY <1>1, SMTT(20)
<1>3. DmRecord(i, v) = {Record(e, Listed(e, "relay"), v)} /\ ~(v < i.ev.created_at)
  BY <1>1, <1>2 DEF DmRecord
<1> QED
  BY <1>1, <1>3

\* Every record says whose it is and when it was verified.
LEMMA MadeForm ==
    ASSUME NEW k \in Kinds, NEW e, NEW a, NEW v, NEW r \in Made(k, e, a, v)
    PROVE  /\ r.there = TRUE /\ r.ev = e /\ r.verified_at = v /\ Verify(e, v)
           /\ k = "dm_relays" => r.relays = Listed(e, "relay")
           /\ Made(k, e, a, v) = {r}
<1>1. CASE k = "dm_relays"
  <2>1. PICK i \in VerifyDmInbox(e, a, v, v) : r \in DmRecord(i, v)
    BY <1>1 DEF Made
  <2>2. /\ r = Record(e, Listed(e, "relay"), v) /\ Verify(e, v)
        /\ VerifyDmInbox(e, a, v, v) = {i} /\ DmRecord(i, v) = {r}
    BY <2>1, DmMade, SMTT(20)
  <2>3. Made(k, e, a, v) = {r}
    BY <1>1, <2>2 DEF Made
  <2> QED
    BY <2>2, <2>3 DEF Record
<1>2. CASE k = "relays"
  <2>1. PICK l \in ParseList(e, v, "relays", MaxListRelays) : r = Record(e, {x.url : x \in l.relays}, v)
    BY <1>2 DEF Made
  <2>2. Verify(e, v) /\ ParseList(e, v, "relays", MaxListRelays) = {l}
    BY ParseFacts
  <2>3. Made(k, e, a, v) = {r}
    BY <1>2, <2>1, <2>2 DEF Made
  <2> QED
    BY <1>2, <2>1, <2>2, <2>3 DEF Record
<1>3. CASE k = "profile"
  <2>1. PICK p \in VerifyProfile(e, a, v) : r = Record(p.ev, {}, v)
    BY <1>3 DEF Made
  <2>2. Verify(e, v) /\ VerifyProfile(e, a, v) = {p} /\ p.ev = e
    BY DEF VerifyProfile
  <2>3. Made(k, e, a, v) = {r}
    BY <1>3, <2>1, <2>2 DEF Made
  <2> QED
    BY <1>3, <2>1, <2>2, <2>3 DEF Record
<1> QED
  BY <1>1, <1>2, <1>3 DEF Kinds

\* A record for direct messages holds the endpoints its list names.
LEMMA KeptLists ==
    ASSUME NEW r, NEW a, Kept("dm_relays", r, a)
    PROVE  /\ r.ev.pubkey = a /\ r.relays = Listed(r.ev, "relay") /\ r.ev.created_at \in Nat
           /\ r.relays \subseteq DOMAIN Url
<1>1. PICK i \in VerifyDmInbox(r.ev, a, r.verified_at, r.verified_at) : r \in DmRecord(i, r.verified_at)
  BY DEF Kept, Made
<1>2. r = Record(r.ev, Listed(r.ev, "relay"), r.verified_at) /\ Listed(r.ev, "relay") \subseteq DOMAIN Url
  BY <1>1, DmMade, SMTT(20)
<1>3. r.relays = Listed(r.ev, "relay")
  BY <1>2 DEF Record
<1> QED
  BY <1>2, <1>3 DEF Kept

(***************************************************************************)
(* The saved form.                                                         *)
(***************************************************************************)
\* The cache without the record of a.
Apart(c, a) == [c EXCEPT ![a] = NoRecord]

\* A record that is put back where it was taken out restores the cache.
LEMMA PutBack ==
    ASSUME NEW k, NEW c, CacheOk(c, k), NEW a \in Cached(c)
    PROVE  /\ Apart(c, a)[a].there = FALSE
           /\ Put(Apart(c, a), a, c[a]) = {c}
<1> DEFINE d == Apart(c, a)
<1>1. c = [b \in Authors |-> c[b]] /\ a \in Authors /\ c[a].there /\ IsFiniteSet(Cached(c))
      /\ Cardinality(Cached(c)) <= MaxRecords /\ Fits(c)
  BY DEF CacheOk, Cached
<1>2. d[a] = NoRecord /\ (\A b \in Authors \ {a} : d[b] = c[b]) /\ DOMAIN d = Authors
  BY <1>1 DEF Apart
<1>3. Cached(d) = Cached(c) \ {a}
  BY <1>1, <1>2, SMTT(20) DEF Cached, NoRecord
<1>4. [d EXCEPT ![a] = c[a]] = c
  BY <1>1 DEF Apart
<1> HIDE DEF d
<1>5. Cardinality(Cached(d)) = Cardinality(Cached(c)) - 1 /\ Cardinality(Cached(c)) \in Nat
  BY <1>1, <1>3, FS_RemoveElement, FS_CardinalityType
<1>6. ~(Cardinality(Cached(d)) >= MaxRecords)
  BY <1>1, <1>5, ListAssumption
<1>7. Put(d, a, c[a]) = {c}
  BY <1>1, <1>4, <1>6 DEF Put
<1> QED
  BY <1>2, <1>7 DEF d, NoRecord

\* What one record gives when it is read back.
DmGiven(c, a, n) ==
    UNION {DmInsert(Apart(c, a), r) :
               r \in UNION {DmRecord(i, c[a].verified_at) : i \in VerifyDmInbox(c[a].ev, a, n, n)}}

ProfileGiven(c, a, n) ==
    UNION {ProfileInsert(Apart(c, a), p, c[a].verified_at) : p \in VerifyProfile(c[a].ev, a, n)}

\* from_saved gives the cache back from its saved direct message relay record.
LEMMA DmBack ==
    ASSUME NEW c, CacheOk(c, "dm_relays"), NEW n \in Nat, NEW a \in Cached(c), c[a].verified_at <= n
    PROVE  DmGiven(c, a, n) = {c}
<1> DEFINE e == c[a].ev
           v == c[a].verified_at
<1>1. Kept("dm_relays", c[a], a)
  BY DEF CacheOk, Cached, NoRecord
<1>2. /\ c[a] \in Made("dm_relays", e, a, v) /\ e.pubkey = a
      /\ e.created_at \in Nat /\ v \in Nat /\ e.created_at <= v
  BY <1>1 DEF Kept
<1> HIDE DEF e, v
<1>3. PICK i \in VerifyDmInbox(e, a, v, v) : c[a] \in DmRecord(i, v)
  BY <1>2 DEF Made
<1>4. Verify(e, v) /\ VerifyDmInbox(e, a, v, v) = {i} /\ DmRecord(i, v) = {c[a]}
  BY <1>3, DmMade, SMTT(20)
<1>5. Verify(e, n) /\ e.created_at <= n /\ n - e.created_at <= n /\ v - e.created_at <= v
  BY <1>2, <1>4, VerifyLater, SMTT(20) DEF v
<1>6. VerifyDmInbox(e, a, n, n) = VerifyDmInbox(e, a, v, v)
  <2>1. ParseList(e, n, "dm_relays", MaxDmRelays) = ParseList(e, v, "dm_relays", MaxDmRelays)
    BY <1>4, <1>5, ParseSame, SMTT(20)
  <2>2. \A l \in ParseList(e, v, "dm_relays", MaxDmRelays) : l.created_at = e.created_at
    BY ParseFacts, SMTT(20)
  <2> QED
    BY <1>2, <1>5, <2>1, <2>2 DEF VerifyDmInbox
<1>7. UNION {DmRecord(j, v) : j \in VerifyDmInbox(e, a, n, n)} = {c[a]}
  BY <1>4, <1>6
<1>8. DmInsert(Apart(c, a), c[a]) = {c}
  <2>1. c[a].ev.pubkey = a
    BY <1>2 DEF e
  <2>2. ~Apart(c, a)[a].there /\ Put(Apart(c, a), a, c[a]) = {c}
    BY PutBack
  <2> QED
    BY <2>1, <2>2 DEF DmInsert
<1> QED
  BY <1>7, <1>8 DEF e, v, DmGiven

\* from_saved gives the cache back from its saved relay list.
LEMMA RelayListBack ==
    ASSUME NEW c, CacheOk(c, "relays"), NEW n \in Nat, NEW a \in Cached(c), c[a].verified_at <= n
    PROVE  RelayListInsert(Apart(c, a), c[a].ev, n, c[a].verified_at) = {c}
<1> DEFINE e == c[a].ev
           v == c[a].verified_at
<1>1. Kept("relays", c[a], a)
  BY DEF CacheOk, Cached, NoRecord
<1>2. /\ c[a] \in Made("relays", e, a, v) /\ e.pubkey = a
      /\ e.created_at \in Nat /\ v \in Nat /\ e.created_at <= v
  BY <1>1 DEF Kept
<1> HIDE DEF e, v
<1>3. PICK l \in ParseList(e, v, "relays", MaxListRelays) : c[a] = Record(e, {x.url : x \in l.relays}, v)
  BY <1>2 DEF Made
<1>4. Verify(e, v) /\ ParseList(e, v, "relays", MaxListRelays) = {l}
  BY ParseFacts, ZenonT(30)
<1>5. Verify(e, n)
  BY <1>2, <1>4, VerifyLater DEF v
<1>6. ParseList(e, n, "relays", MaxListRelays) = {l}
  BY <1>4, <1>5, ParseSame, SMTT(20)
<1>7. ~Apart(c, a)[a].there /\ Put(Apart(c, a), a, c[a]) = {c}
  BY PutBack
<1>8. ~(v > n) /\ ~(v < e.created_at)
  BY <1>2 DEF v
<1>9. RelayListInsert(Apart(c, a), e, n, v) = {c}
  BY <1>2, <1>3, <1>6, <1>7, <1>8 DEF RelayListInsert
<1> QED
  BY <1>9 DEF e, v

\* from_saved gives the cache back from its saved profile.
LEMMA ProfileBack ==
    ASSUME NEW c, CacheOk(c, "profile"), NEW n \in Nat, NEW a \in Cached(c), c[a].verified_at <= n
    PROVE  ProfileGiven(c, a, n) = {c}
<1> DEFINE e == c[a].ev
           v == c[a].verified_at
<1>1. Kept("profile", c[a], a)
  BY DEF CacheOk, Cached, NoRecord
<1>2. /\ c[a] \in Made("profile", e, a, v) /\ e.pubkey = a
      /\ e.created_at \in Nat /\ v \in Nat /\ e.created_at <= v
  BY <1>1 DEF Kept
<1> HIDE DEF e, v
<1>3. PICK p \in VerifyProfile(e, a, v) : c[a] = Record(p.ev, {}, v)
  BY <1>2 DEF Made
<1>4. Verify(e, v) /\ VerifyProfile(e, a, v) = {p} /\ p.ev = e /\ p.key = a
  BY DEF VerifyProfile
<1>5. Verify(e, n)
  BY <1>2, <1>4, VerifyLater DEF v
<1>6. VerifyProfile(e, a, n) = {p}
  BY <1>4, <1>5 DEF VerifyProfile
<1>7. ~Apart(c, a)[a].there /\ Put(Apart(c, a), a, c[a]) = {c}
  BY PutBack
<1>8. ~(v < p.ev.created_at)
  BY <1>2, <1>4
<1>9. ProfileInsert(Apart(c, a), p, v) = {c}
  BY <1>3, <1>4, <1>7, <1>8 DEF ProfileInsert
<1> QED
  BY <1>6, <1>9 DEF e, v, ProfileGiven

(***************************************************************************)
(* A record that is inserted.                                              *)
(***************************************************************************)
\* No record is lost or replaced by an older one.
Forward(c, d, k) ==
    \A a \in Cached(c) :
        /\ d[a].there
        /\ \/ d[a].ev.created_at > c[a].ev.created_at
           \/ d[a] = c[a]
           \/ /\ k = "relays" /\ d[a].ev.created_at = c[a].ev.created_at
              /\ IdBefore(d[a].ev.id, c[a].ev.id)

\* A record that fits is put into the cache in good order.
LEMMA PutOk ==
    ASSUME NEW k, NEW c, CacheOk(c, k), NEW a \in Authors, NEW r, r.there = TRUE, Kept(k, r, a),
           NEW d \in Put(c, a, r)
    PROVE  CacheOk(d, k) /\ d = [c EXCEPT ![a] = r]
<1>1. /\ d = [c EXCEPT ![a] = r] /\ Fits(d)
      /\ a \in Cached(c) \/ ~(Cardinality(Cached(c)) >= MaxRecords)
  BY DEF Put
<1>2. /\ c = [b \in Authors |-> c[b]] /\ IsFiniteSet(Cached(c)) /\ Cardinality(Cached(c)) <= MaxRecords
      /\ \A b \in Authors : c[b] = NoRecord \/ (c[b].there = TRUE /\ Kept(k, c[b], b))
  BY DEF CacheOk
<1>3. /\ d[a] = r /\ (\A b \in Authors \ {a} : d[b] = c[b]) /\ d = [b \in Authors |-> d[b]]
  BY <1>1, <1>2
<1>4. Cached(d) = Cached(c) \cup {a}
  BY <1>3 DEF Cached
<1>5. IsFiniteSet(Cached(d)) /\ Cardinality(Cached(d)) <= MaxRecords
  <2>1. MaxRecords \in Nat /\ Cardinality(Cached(c)) \in Nat
    BY <1>2, ListAssumption, FS_CardinalityType
  <2>2. CASE a \in Cached(c)
    <3>1. Cached(d) = Cached(c)
      BY <1>4, <2>2
    <3> QED
      BY <1>2, <3>1
  <2>3. CASE a \notin Cached(c)
    <3>1. IsFiniteSet(Cached(d)) /\ Cardinality(Cached(d)) = Cardinality(Cached(c)) + 1
      BY <1>2, <1>4, <2>3, FS_AddElement
    <3> QED
      BY <1>1, <2>1, <2>3, <3>1
  <2> QED
    BY <2>2, <2>3
<1>6. \A b \in Authors : d[b] = NoRecord \/ (d[b].there = TRUE /\ Kept(k, d[b], b))
  BY <1>2, <1>3
<1>7. CacheOk(d, k)
  BY <1>1, <1>3, <1>5, <1>6 DEF CacheOk
<1> QED
  BY <1>1, <1>7

\* A newer record in the place of the author's own moves the cache forward.
LEMMA PutForward ==
    ASSUME NEW k, NEW c, CacheOk(c, k), NEW a \in Authors, NEW r, r.there = TRUE, Kept(k, r, a),
           NEW d \in Put(c, a, r),
           \/ ~c[a].there \/ r.ev.created_at > c[a].ev.created_at
           \/ /\ k = "relays" /\ r.ev.created_at = c[a].ev.created_at /\ IdBefore(r.ev.id, c[a].ev.id)
    PROVE  CacheOk(d, k) /\ Forward(c, d, k)
<1>0. CacheOk(d, k) /\ d = [c EXCEPT ![a] = r]
  BY PutOk
<1>1. CacheOk(d, k) /\ d[a] = r /\ \A b \in Authors \ {a} : d[b] = c[b]
  BY <1>0 DEF CacheOk
<1>2. SUFFICES ASSUME NEW b \in Cached(c)
               PROVE  /\ d[b].there
                      /\ \/ d[b].ev.created_at > c[b].ev.created_at
                         \/ d[b] = c[b]
                         \/ /\ k = "relays" /\ d[b].ev.created_at = c[b].ev.created_at
                            /\ IdBefore(d[b].ev.id, c[b].ev.id)
  BY <1>1 DEF Forward
<1>3. b \in Authors /\ c[b].there
  BY DEF Cached
<1>4. CASE b = a
  BY <1>1, <1>3, <1>4
<1>5. CASE b # a
  BY <1>1, <1>3, <1>5
<1> QED
  BY <1>4, <1>5

\* A cache that stays as it is has not gone back.
LEMMA SameForward == ASSUME NEW c, NEW k PROVE Forward(c, c, k)
BY DEF Forward, Cached

\* A verified direct message relay list is inserted without going back.
LEMMA StoreDm ==
    ASSUME NEW c, CacheOk(c, "dm_relays"), NEW n \in Nat, NEW a \in Authors, NEW e, e.created_at \in Nat,
           NEW i \in VerifyDmInbox(e, a, n, MaxAge), NEW r \in DmRecord(i, n), NEW d \in DmInsert(c, r)
    PROVE  CacheOk(d, "dm_relays") /\ Forward(c, d, "dm_relays")
<1>1. /\ r = Record(e, Listed(e, "relay"), n) /\ e.pubkey = a /\ Verify(e, n) /\ DmRecord(i, n) = {r}
      /\ e.created_at <= n
  BY DmMade, SMTT(20)
<1>2. r.there = TRUE /\ r.ev = e /\ r.verified_at = n
  BY <1>1 DEF Record
<1>3. i \in VerifyDmInbox(e, a, n, n)
  <2>1. n - e.created_at <= n
    OBVIOUS
  <2>2. \A l \in ParseList(e, n, "dm_relays", MaxDmRelays) : l.created_at = e.created_at
    BY ParseFacts, SMTT(20)
  <2> QED
    BY <2>1, <2>2 DEF VerifyDmInbox
<1>4. Kept("dm_relays", r, a)
  <2>1. r \in Made("dm_relays", e, a, n)
    BY <1>3 DEF Made
  <2> QED
    BY <1>1, <1>2, <2>1 DEF Kept
<1>5. \/ d \in Put(c, a, r) /\ (~c[a].there \/ r.ev.created_at > c[a].ev.created_at)
      \/ d = c
  BY <1>1, <1>2 DEF DmInsert
<1> QED
  BY <1>2, <1>4, <1>5, PutForward, SameForward

\* A verified relay list is inserted without going back.
LEMMA StoreRelayList ==
    ASSUME NEW c, CacheOk(c, "relays"), NEW n \in Nat, NEW e, e.created_at \in Nat, e.pubkey \in Authors,
           \A a \in Cached(c) : c[a].ev.created_at \in Nat,
           NEW d \in RelayListInsert(c, e, n, n)
    PROVE  CacheOk(d, "relays") /\ Forward(c, d, "relays")
<1> DEFINE a == e.pubkey
<1>1. PICK l \in ParseList(e, n, "relays", MaxListRelays) :
          d \in (IF c[a].there /\ e.created_at < c[a].ev.created_at THEN {}
                 ELSE IF /\ c[a].there /\ e.created_at = c[a].ev.created_at
                         /\ ~IdBefore(e.id, c[a].ev.id)
                 THEN {c}
                 ELSE Put(c, a, Record(e, {r.url : r \in l.relays}, n)))
  BY DEF RelayListInsert
<1> DEFINE r == Record(e, {x.url : x \in l.relays}, n)
<1>2. r.there = TRUE /\ r.ev = e /\ r.verified_at = n /\ r \in Made("relays", e, a, n)
  BY DEF Record, Made
<1>3. ~(n < e.created_at)
  BY DEF RelayListInsert
<1>4. Kept("relays", r, a)
  BY <1>2, <1>3 DEF Kept
<1>5. CASE d = c
  BY <1>5, SameForward
<1>6. CASE d # c
  <2> HIDE DEF r
  <2>1. /\ d \in Put(c, a, r)
        /\ ~(c[a].there /\ e.created_at < c[a].ev.created_at)
        /\ ~(c[a].there /\ e.created_at = c[a].ev.created_at /\ ~IdBefore(e.id, c[a].ev.id))
    BY <1>1, <1>6 DEF r
  <2>2. c[a].there => c[a].ev.created_at \in Nat
    BY DEF Cached
  <2>3. \/ ~c[a].there \/ r.ev.created_at > c[a].ev.created_at
        \/ r.ev.created_at = c[a].ev.created_at /\ IdBefore(r.ev.id, c[a].ev.id)
    BY <1>2, <2>1, <2>2
  <2> QED
    BY <1>2, <1>4, <2>1, <2>3, PutForward
<1> QED
  BY <1>5, <1>6

\* A verified profile is inserted without going back.
LEMMA StoreProfile ==
    ASSUME NEW c, CacheOk(c, "profile"), NEW n \in Nat, NEW a \in Authors, NEW e, e.created_at \in Nat,
           NEW p \in VerifyProfile(e, a, n), NEW d \in ProfileInsert(c, p, n)
    PROVE  CacheOk(d, "profile") /\ Forward(c, d, "profile")
<1> DEFINE r == Record(p.ev, {}, n)
<1>1. p.ev = e /\ p.key = a /\ e.pubkey = a
  BY DEF VerifyProfile
<1>2. r.there = TRUE /\ r.ev = e /\ r.verified_at = n /\ r \in Made("profile", e, a, n)
  BY <1>1 DEF Record, Made
<1>3. ~(n < e.created_at)
  BY <1>1 DEF ProfileInsert
<1>4. Kept("profile", r, a)
  BY <1>1, <1>2, <1>3 DEF Kept
<1>5. \/ d \in Put(c, a, r) /\ (~c[a].there \/ r.ev.created_at > c[a].ev.created_at)
      \/ d = c
  BY <1>1, <1>2 DEF ProfileInsert
<1> QED
  BY <1>2, <1>4, <1>5, PutForward, SameForward

(***************************************************************************)
(* The two calls that change the cache.                                    *)
(***************************************************************************)
LEMMA VerifiedTimes ==
    ASSUME NEW c, NEW k, CacheOk(c, k), NEW n \in Nat, NEW a \in Cached(c)
    PROVE  /\ c[a].verified_at \in Nat /\ c[a].ev.created_at \in Nat
           /\ c[a].verified_at > n \/ c[a].verified_at <= n
           /\ c[a].verified_at <= n => ~(c[a].verified_at > n)
<1>1. Kept(k, c[a], a)
  BY DEF CacheOk, Cached, NoRecord
<1> QED
  BY <1>1 DEF Kept

\* The same, of the whole cache.
LEMMA DmReloadSame ==
    ASSUME NEW c, CacheOk(c, "dm_relays"), NEW n \in Nat, \A a \in Cached(c) : c[a].verified_at <= n
    PROVE  DmReload(c, n) = {c}
<1> DEFINE back(a) == DmGiven(c, a, n)
<1>1. ASSUME NEW a \in Cached(c) PROVE back(a) = {c}
  BY DmBack
<1>2. \A a \in Cached(c) : ~(c[a].verified_at > n)
  BY VerifiedTimes
<1> HIDE DEF back
<1>3. DmReload(c, n) =
          IF \E a \in Cached(c) : c[a].verified_at > n \/ back(a) = {} THEN {}
          ELSE {[a \in Authors |-> IF a \in Cached(c) THEN (CHOOSE d \in back(a) : TRUE)[a] ELSE NoRecord]}
  BY DEF DmReload, Reloaded, back, DmGiven, Apart
<1>4. [a \in Authors |-> IF a \in Cached(c) THEN (CHOOSE d \in back(a) : TRUE)[a] ELSE NoRecord] = c
  <2>1. \A a \in Authors : (IF a \in Cached(c) THEN (CHOOSE d \in back(a) : TRUE)[a] ELSE NoRecord) = c[a]
    BY <1>1 DEF CacheOk, Cached
  <2> QED
    BY <2>1 DEF CacheOk
<1> QED
  BY <1>1, <1>2, <1>3, <1>4

\* The saved relay lists are all read back.
LEMMA RelayListReloadSame ==
    ASSUME NEW c, CacheOk(c, "relays"), NEW n \in Nat, \A a \in Cached(c) : c[a].verified_at <= n
    PROVE  RelayListReload(c, n) = {c}
<1> DEFINE back(a) == RelayListInsert(Apart(c, a), c[a].ev, n, c[a].verified_at)
<1>1. ASSUME NEW a \in Cached(c) PROVE back(a) = {c}
  BY RelayListBack
<1>2. \A a \in Cached(c) : ~(c[a].verified_at > n)
  BY VerifiedTimes
<1> HIDE DEF back
<1>3. RelayListReload(c, n) =
          IF \E a \in Cached(c) : c[a].verified_at > n \/ back(a) = {} THEN {}
          ELSE {[a \in Authors |-> IF a \in Cached(c) THEN (CHOOSE d \in back(a) : TRUE)[a] ELSE NoRecord]}
  BY DEF RelayListReload, Reloaded, back, Apart
<1>4. [a \in Authors |-> IF a \in Cached(c) THEN (CHOOSE d \in back(a) : TRUE)[a] ELSE NoRecord] = c
  <2>1. \A a \in Authors : (IF a \in Cached(c) THEN (CHOOSE d \in back(a) : TRUE)[a] ELSE NoRecord) = c[a]
    BY <1>1 DEF CacheOk, Cached
  <2> QED
    BY <2>1 DEF CacheOk
<1> QED
  BY <1>1, <1>2, <1>3, <1>4

\* The saved profiles are all read back.
LEMMA ProfileReloadSame ==
    ASSUME NEW c, CacheOk(c, "profile"), NEW n \in Nat, \A a \in Cached(c) : c[a].verified_at <= n
    PROVE  ProfileReload(c, n) = {c}
<1> DEFINE back(a) == ProfileGiven(c, a, n)
<1>1. ASSUME NEW a \in Cached(c) PROVE back(a) = {c}
  BY ProfileBack
<1>2. \A a \in Cached(c) : ~(c[a].verified_at > n)
  BY VerifiedTimes
<1> HIDE DEF back
<1>3. ProfileReload(c, n) =
          IF \E a \in Cached(c) : c[a].verified_at > n \/ back(a) = {} THEN {}
          ELSE {[a \in Authors |-> IF a \in Cached(c) THEN (CHOOSE d \in back(a) : TRUE)[a] ELSE NoRecord]}
  BY DEF ProfileReload, Reloaded, back, ProfileGiven, Apart
<1>4. [a \in Authors |-> IF a \in Cached(c) THEN (CHOOSE d \in back(a) : TRUE)[a] ELSE NoRecord] = c
  <2>1. \A a \in Authors : (IF a \in Cached(c) THEN (CHOOSE d \in back(a) : TRUE)[a] ELSE NoRecord) = c[a]
    BY <1>1 DEF CacheOk, Cached
  <2> QED
    BY <2>1 DEF CacheOk
<1> QED
  BY <1>1, <1>2, <1>3, <1>4

\* A new cache is in good order.
LEMMA EmptyOk == ASSUME NEW k PROVE CacheOk(EmptyCache, k) /\ Cached(EmptyCache) = {}
<1>1. Cached(EmptyCache) = {}
  BY DEF Cached, EmptyCache, NoRecord
<1>2. IsFiniteSet({}) /\ Cardinality({}) = 0 /\ MaxRecords \in Nat
  BY FS_EmptySet, ListAssumption
<1>3. EmptyCache = [a \in Authors |-> EmptyCache[a]] /\ \A a \in Authors : EmptyCache[a] = NoRecord
  BY DEF EmptyCache
<1> QED
  BY <1>1, <1>2, <1>3 DEF CacheOk

\* A restart gives the cache back, unless the clock is behind a verification.
LEMMA RestartStep ==
    ASSUME kind \in Kinds, now \in Nat, CacheOk(cache, kind), Restart
    PROVE  \/ cache' = cache
           \/ cache' = EmptyCache /\ \E b \in Cached(cache) : cache[b].verified_at > now
<1> DEFINE back == CASE kind = "dm_relays" -> DmReload(cache, now)
                     [] kind = "relays" -> RelayListReload(cache, now)
                     [] kind = "profile" -> ProfileReload(cache, now)
<1>1. cache' = IF back = {} THEN EmptyCache ELSE CHOOSE c \in back : TRUE
  BY DEF Restart
<1>2. CASE \A b \in Cached(cache) : cache[b].verified_at <= now
  <2>1. back = {cache}
    BY <1>2, DmReloadSame, RelayListReloadSame, ProfileReloadSame DEF Kinds
  <2> QED
    BY <1>1, <2>1
<1>3. CASE \E b \in Cached(cache) : ~(cache[b].verified_at <= now)
  <2>1. \E b \in Cached(cache) : cache[b].verified_at > now
    BY <1>3, VerifiedTimes
  <2>2. back = {}
    BY <2>1 DEF Kinds, DmReload, RelayListReload, ProfileReload, Reloaded
  <2> QED
    BY <1>1, <2>1, <2>2
<1> QED
  BY <1>2, <1>3

\* What the caller stores moves the cache forward.
LEMMA StoreStep ==
    ASSUME kind \in Kinds, now \in Nat, CacheOk(cache, kind), StoreFound,
           task.ev.created_at \in Nat, task.author \in Authors,
           kind = "relays" => task.ev.pubkey \in Authors
    PROVE  CacheOk(cache', kind) /\ Forward(cache, cache', kind)
<1> DEFINE e == task.ev
           stored ==
               CASE kind = "dm_relays" ->
                      UNION {DmInsert(cache, r) :
                          r \in UNION {DmRecord(i, now) : i \in VerifyDmInbox(e, task.author, now, MaxAge)}}
                 [] kind = "relays" -> RelayListInsert(cache, e, now, now)
                 [] kind = "profile" ->
                      UNION {ProfileInsert(cache, p, now) : p \in VerifyProfile(e, task.author, now)}
<1>1. cache' = IF stored = {} THEN cache ELSE CHOOSE c \in stored : TRUE
  BY DEF StoreFound
<1>2. ASSUME NEW d \in stored PROVE CacheOk(d, kind) /\ Forward(cache, d, kind)
  <2>1. CASE kind = "dm_relays"
    <3>1. PICK r \in UNION {DmRecord(i, now) : i \in VerifyDmInbox(e, task.author, now, MaxAge)} :
              d \in DmInsert(cache, r)
      BY <1>2, <2>1
    <3>2. PICK i \in VerifyDmInbox(e, task.author, now, MaxAge) : r \in DmRecord(i, now)
      BY <3>1
    <3> QED
      BY <2>1, <3>1, <3>2, StoreDm
  <2>2. CASE kind = "relays"
    <3>1. d \in RelayListInsert(cache, e, now, now)
      BY <1>2, <2>2
    <3>2. \A a \in Cached(cache) : cache[a].ev.created_at \in Nat
      BY VerifiedTimes
    <3> QED
      BY <2>2, <3>1, <3>2, StoreRelayList
  <2>3. CASE kind = "profile"
    <3>1. PICK p \in VerifyProfile(e, task.author, now) : d \in ProfileInsert(cache, p, now)
      BY <1>2, <2>3
    <3> QED
      BY <2>3, <3>1, StoreProfile
  <2> QED
    BY <2>1, <2>2, <2>3 DEF Kinds
<1> HIDE DEF stored
<1>3. cache' = cache \/ cache' \in stored
  BY <1>1
<1> QED
  BY <1>2, <1>3, SameForward

=============================================================================
