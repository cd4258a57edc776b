-------------------------- MODULE HttpFetchProofs --------------------------
(***************************************************************************)
(* What the bounded HTTP fetch computes, however a response is split into  *)
(* reads, and what a handle resolves to.                                   *)
(***************************************************************************)
EXTENDS HttpFetch, TLAPS, WellFoundedInduction

\* A leaf is tried with Zenon, which is soon done, and then with SMT, unless it
\* names its prover.
USE ZenonT(10), SMTT(20)

(***************************************************************************)
(* The fetch.  Joined and DecodeChunked are recursive functions: that each *)
(* has a value is shown by induction, and what it computes by induction on *)
(* the parts of the response.                                              *)
(***************************************************************************)
\* Induction, for a set: there is no least number outside S.
LEMMA Induction ==
    ASSUME NEW S, 0 \in S, \A n \in Nat : n \in S => n + 1 \in S
    PROVE  Nat \subseteq S
<1> DEFINE R == OpToRel(<, Nat)
<1>1. IsWellFoundedOn(R, Nat)
  BY NatLessThanWellFounded
<1>2. \A x, y \in Nat : x < y => <<x, y>> \in R
  BY DEF OpToRel
<1> HIDE DEF R
<1> SUFFICES ASSUME Nat \ S # {} PROVE FALSE
  OBVIOUS
<1>3. PICK x \in Nat \ S : \A y \in Nat \ S : ~(<<y, x>> \in R)
  BY <1>1, WFMin, Nat \ S \subseteq Nat
<1>4. x - 1 \in Nat /\ x - 1 < x /\ (x - 1) + 1 = x
  BY <1>3
<1>5. x - 1 \in S
  BY <1>2, <1>3, <1>4
<1> QED
  BY <1>3, <1>4, <1>5

\* A sequence is a function on the numbers up to its length; two sequences
\* joined, and a part of one.
LEMMA Concat ==
    ASSUME NEW T, NEW s \in Seq(T), NEW t \in Seq(T)
    PROVE  /\ s \o t \in Seq(T) /\ Len(s \o t) = Len(s) + Len(t)
           /\ \A i \in 1..Len(s) : (s \o t)[i] = s[i]
           /\ \A i \in 1..Len(t) : (s \o t)[Len(s) + i] = t[i]
OBVIOUS

LEMMA SeqEq ==
    ASSUME NEW T, NEW s \in Seq(T), NEW t \in Seq(T), Len(s) = Len(t),
           \A i \in 1..Len(s) : s[i] = t[i]
    PROVE  s = t
OBVIOUS

LEMMA Part ==
    ASSUME NEW T, NEW s \in Seq(T), NEW m \in Nat, NEW n \in Nat, n <= Len(s), m <= n
    PROVE  /\ SubSeq(s, m + 1, n) \in Seq(T) /\ Len(SubSeq(s, m + 1, n)) = n - m
           /\ \A i \in 1..(n - m) : SubSeq(s, m + 1, n)[i] = s[m + i]
OBVIOUS

\* The recursive function joins the sequences one by one.
LEMMA JoinedDef ==
    ASSUME NEW ss, Len(ss) \in Nat
    PROVE  Joined(ss) = [i \in 0..Len(ss) |-> IF i = 0 THEN <<>> ELSE Joined(ss)[i - 1] \o ss[i]]
<1> DEFINE Upto(g, n) == DOMAIN g = 0..n /\ g = [i \in 0..n |-> IF i = 0 THEN <<>> ELSE g[i - 1] \o ss[i]]
           S == {n \in Nat : \E g : Upto(g, n)}
<1>1. 0 \in S
  <2> DEFINE g == [i \in 0..0 |-> <<>>]
  <2>1. Upto(g, 0)
    OBVIOUS
  <2> QED
    BY <2>1
<1>2. ASSUME NEW n \in Nat, n \in S PROVE n + 1 \in S
  <2>1. PICK g : Upto(g, n)
    BY <1>2
  <2> DEFINE h == [i \in 0..(n + 1) |-> IF i = n + 1 THEN g[n] \o ss[n + 1] ELSE g[i]]
  <2>2. h[0] = <<>>
    BY <2>1
  <2>3. ASSUME NEW i \in 0..(n + 1), i # 0 PROVE h[i] = h[i - 1] \o ss[i]
    <3>1. i - 1 \in 0..n /\ h[i - 1] = g[i - 1]
      BY <2>3
    <3>2. CASE i = n + 1
      BY <3>1, <3>2
    <3>3. CASE i # n + 1
      <4>1. i \in 0..n /\ h[i] = g[i]
        BY <2>3, <3>3
      <4>2. g[i] = g[i - 1] \o ss[i]
        BY <2>1, <2>3, <4>1
      <4> QED
        BY <3>1, <4>1, <4>2
    <3> QED
      BY <3>2, <3>3
  <2>4. Upto(h, n + 1)
    <3> HIDE DEF h
    <3>1. h = [i \in 0..(n + 1) |-> h[i]] /\ DOMAIN h = 0..(n + 1)
      BY DEF h
    <3> QED
      BY <2>2, <2>3, <3>1
  <2> HIDE DEF h, Upto
  <2>5. \E k : Upto(k, n + 1)
    BY <2>4
  <2> QED
    BY <2>5
<1>3. PICK g : Upto(g, Len(ss))
  <2> HIDE DEF S
  <2>1. Len(ss) \in S
    BY <1>1, <1>2, Induction
  <2> QED
    BY <2>1 DEF S
<1> QED
  BY <1>3 DEF Joined

\* The first i sequences are a sequence, as long as they are together.
LEMMA JoinedSeq ==
    ASSUME NEW T, NEW ss \in Seq(Seq(T))
    PROVE  /\ Joined(ss)[0] = <<>>
           /\ \A i \in 0..Len(ss) : Joined(ss)[i] \in Seq(T)
           /\ \A i \in 1..Len(ss) :
                 /\ Joined(ss)[i] = Joined(ss)[i - 1] \o ss[i]
                 /\ Len(Joined(ss)[i]) = Len(Joined(ss)[i - 1]) + Len(ss[i])
<1> DEFINE J == Joined(ss)
           S == {n \in Nat : n <= Len(ss) => J[n] \in Seq(T)}
<1>0. Len(ss) \in Nat /\ \A i \in 1..Len(ss) : ss[i] \in Seq(T)
  OBVIOUS
<1>1. J = [i \in 0..Len(ss) |-> IF i = 0 THEN <<>> ELSE J[i - 1] \o ss[i]]
  BY <1>0, JoinedDef
<1> HIDE DEF J
<1>2. J[0] = <<>> /\ \A i \in 1..Len(ss) : J[i] = J[i - 1] \o ss[i]
  <2>1. ASSUME NEW i \in 0..Len(ss) PROVE J[i] = IF i = 0 THEN <<>> ELSE J[i - 1] \o ss[i]
    BY <1>1, <2>1
  <2>2. J[0] = <<>>
    BY <1>0, <2>1, 0 \in 0..Len(ss)
  <2>3. ASSUME NEW i \in 1..Len(ss) PROVE J[i] = J[i - 1] \o ss[i]
    BY <1>0, <2>1, i \in 0..Len(ss), i # 0
  <2> QED
    BY <2>2, <2>3
<1>3. ASSUME NEW n \in Nat, n \in S PROVE n + 1 \in S
  <2> SUFFICES ASSUME n + 1 <= Len(ss) PROVE J[n + 1] \in Seq(T)
    OBVIOUS
  <2>1. J[n] \in Seq(T) /\ n + 1 \in 1..Len(ss) /\ (n + 1) - 1 = n
    BY <1>0, <1>3
  <2>2. J[n + 1] = J[n] \o ss[n + 1] /\ ss[n + 1] \in Seq(T)
    BY <1>0, <1>2, <2>1
  <2> QED
    BY <2>1, <2>2, Concat
<1>4. Nat \subseteq S
  <2>1. 0 \in S
    <3>1. J[0] \in Seq(T)
      BY <1>2, <<>> \in Seq(T)
    <3> QED
      BY <3>1
  <2> HIDE DEF S
  <2> QED
    BY <1>3, <2>1, Induction
<1>5. \A i \in 0..Len(ss) : J[i] \in Seq(T)
  BY <1>0, <1>4
<1>6. ASSUME NEW i \in 1..Len(ss) PROVE Len(J[i]) = Len(J[i - 1]) + Len(ss[i])
  <2>1. J[i - 1] \in Seq(T) /\ ss[i] \in Seq(T) /\ J[i] = J[i - 1] \o ss[i]
    BY <1>0, <1>2, <1>5, i - 1 \in 0..Len(ss)
  <2> QED
    BY <2>1, Concat, SMTT(20)
<1> QED
  BY <1>2, <1>5, <1>6 DEF J

\* Joining more sequences leaves the cells of the first ones in place.
LEMMA JoinedPrefix ==
    ASSUME NEW T, NEW ss \in Seq(Seq(T)), NEW i \in 0..Len(ss)
    PROVE  /\ Len(Joined(ss)[i]) \in Nat /\ Len(Joined(ss)[i]) <= Len(Flat(ss))
           /\ \A k \in 1..Len(Joined(ss)[i]) : Flat(ss)[k] = Joined(ss)[i][k]
<1> DEFINE J == Joined(ss)
           S == {n \in Nat : i <= n /\ n <= Len(ss) =>
                    Len(J[i]) <= Len(J[n]) /\ \A k \in 1..Len(J[i]) : J[n][k] = J[i][k]}
<1>0. /\ Len(ss) \in Nat /\ \A m \in 1..Len(ss) : ss[m] \in Seq(T)
      /\ \A m \in 0..Len(ss) : J[m] \in Seq(T) /\ Len(J[m]) \in Nat
      /\ \A m \in 1..Len(ss) : J[m] = J[m - 1] \o ss[m]
  <2>1. \A m \in 0..Len(ss) : J[m] \in Seq(T)
    BY JoinedSeq
  <2>2. \A m \in 1..Len(ss) : J[m] = J[m - 1] \o ss[m]
    BY JoinedSeq
  <2> HIDE DEF J
  <2>3. \A m \in 0..Len(ss) : Len(J[m]) \in Nat
    BY <2>1
  <2>4. Len(ss) \in Nat /\ \A m \in 1..Len(ss) : ss[m] \in Seq(T)
    OBVIOUS
  <2> QED
    BY <2>1, <2>2, <2>3, <2>4
<1> HIDE DEF J
<1>1. 0 \in S
  <2>1. 0 \in Nat /\ (i <= 0 => i = 0) /\ Len(J[i]) <= Len(J[i])
    BY <1>0
  <2> QED
    BY <2>1
<1>2. ASSUME NEW n \in Nat, n \in S PROVE n + 1 \in S
  <2> SUFFICES ASSUME i <= n + 1, n + 1 <= Len(ss)
               PROVE  Len(J[i]) <= Len(J[n + 1]) /\ \A k \in 1..Len(J[i]) : J[n + 1][k] = J[i][k]
    BY SMTT(20)
  <2>1. CASE i = n + 1
    BY <1>0, <2>1
  <2>2. CASE i <= n
    <3>1. n \in 0..Len(ss) /\ n + 1 \in 1..Len(ss) /\ (n + 1) - 1 = n
      BY <1>0
    <3>2. Len(J[i]) <= Len(J[n]) /\ \A k \in 1..Len(J[i]) : J[n][k] = J[i][k]
      BY <1>2, <2>2, <3>1
    <3>3. J[n + 1] = J[n] \o ss[n + 1] /\ J[n] \in Seq(T) /\ ss[n + 1] \in Seq(T)
      BY <1>0, <3>1
    <3> DEFINE a == J[n]
               b == ss[n + 1]
               c == J[n + 1]
    <3>4. Len(J[i]) \in Nat /\ Len(a) \in Nat /\ Len(b) \in Nat
      BY <1>0, <3>1, <3>3
    <3>5. c = a \o b /\ a \in Seq(T) /\ b \in Seq(T)
      BY <3>3
    <3>6. Len(J[i]) <= Len(a) /\ \A k \in 1..Len(J[i]) : a[k] = J[i][k]
      BY <3>2
    <3> HIDE DEF a, b, c
    <3>7. Len(c) = Len(a) + Len(b) /\ \A k \in 1..Len(a) : c[k] = a[k]
      BY <3>5, Concat
    <3>8. \A k \in 1..Len(J[i]) : k \in 1..Len(a)
      BY <3>4, <3>6
    <3>9. Len(J[i]) <= Len(c) /\ \A k \in 1..Len(J[i]) : c[k] = J[i][k]
      BY <3>4, <3>6, <3>7, <3>8
    <3> QED
      BY <3>9 DEF c
  <2> QED
    BY <1>0, <2>1, <2>2
<1>3. Nat \subseteq S
  <2> HIDE DEF S
  <2> QED
    BY <1>1, <1>2, Induction
<1>4. Len(ss) \in S /\ i <= Len(ss)
  BY <1>0, <1>3, SMTT(20)
<1> QED
  BY <1>0, <1>4 DEF J, Flat

\* Where the cells of the j-th sequence are.
LEMMA FlatAt ==
    ASSUME NEW T, NEW ss \in Seq(Seq(T)), NEW j \in 1..Len(ss)
    PROVE  /\ Len(Joined(ss)[j]) = Len(Joined(ss)[j - 1]) + Len(ss[j])
           /\ \A k \in 1..Len(ss[j]) : Flat(ss)[Len(Joined(ss)[j - 1]) + k] = ss[j][k]
<1> DEFINE a == Joined(ss)[j - 1]
           b == ss[j]
           c == Joined(ss)[j]
<1>1. c = a \o b /\ a \in Seq(T) /\ b \in Seq(T) /\ j \in 0..Len(ss)
  <2>1. j - 1 \in 0..Len(ss) /\ j \in 0..Len(ss) /\ b \in Seq(T)
    OBVIOUS
  <2> QED
    BY <2>1, JoinedSeq
<1>2. Len(c) = Len(a) + Len(b)
  BY JoinedSeq
<1>3. \A k \in 1..Len(c) : Flat(ss)[k] = c[k]
  BY <1>1, JoinedPrefix
<1> HIDE DEF a, b, c
<1>4. \A k \in 1..Len(b) : c[Len(a) + k] = b[k]
  BY <1>1, Concat, SMTT(20)
<1>5. Len(a) \in Nat /\ Len(b) \in Nat
  BY <1>1
<1>6. \A k \in 1..Len(b) : Len(a) + k \in 1..Len(c)
  BY <1>2, <1>5
<1>7. \A k \in 1..Len(b) : Flat(ss)[Len(a) + k] = b[k]
  BY <1>3, <1>4, <1>6
<1> QED
  BY <1>2, <1>7 DEF a, b, c

\* The cells of a body of units of T.
Cells(T) == [cell: {"data"}, unit: T] \cup [cell: {"size"}, n: Nat] \cup [cell: {"line_end"}]

\* A chunk on the wire.
LEMMA ChunkCells ==
    ASSUME NEW T, NEW p \in Seq(T)
    PROVE  /\ Chunk(p) \in Seq(Cells(T)) /\ Len(Chunk(p)) = Len(p) + 2
           /\ Chunk(p)[1].cell = "size" /\ Chunk(p)[1].n = Len(p)
           /\ \A k \in 1..Len(p) : Chunk(p)[1 + k].unit = p[k]
           /\ Chunk(p)[Len(p) + 2].cell = "line_end"
<1> DEFINE C == Cells(T)
           a == Size(Len(p))
           b == Data(p)
           e == LineEnd
<1>1. a \in Seq(C) /\ Len(a) = 1 /\ a[1].cell = "size" /\ a[1].n = Len(p)
  BY DEF Size, Cells
<1>2. e \in Seq(C) /\ Len(e) = 1 /\ e[1].cell = "line_end"
  BY DEF LineEnd, Cells
<1>3. b \in Seq(C) /\ Len(b) = Len(p) /\ \A k \in 1..Len(p) : b[k].unit = p[k]
  BY DEF Data, Cells
<1>4. Chunk(p) = (a \o b) \o e /\ Len(p) \in Nat
  BY DEF Chunk
<1> HIDE DEF C, a, b, e
<1>5. /\ a \o b \in Seq(C) /\ Len(a \o b) = 1 + Len(p)
      /\ (a \o b)[1] = a[1] /\ \A k \in 1..Len(p) : (a \o b)[1 + k] = b[k]
  <2>1. /\ a \o b \in Seq(C) /\ Len(a \o b) = Len(a) + Len(b)
        /\ \A i \in 1..Len(a) : (a \o b)[i] = a[i]
        /\ \A i \in 1..Len(b) : (a \o b)[Len(a) + i] = b[i]
    <3>1. a \in Seq(C) /\ b \in Seq(C)
      BY <1>1, <1>3
    <3> QED
      BY <3>1, Concat, SMTT(20)
  <2> QED
    BY <1>1, <1>3, <2>1, SMTT(20)
<1> DEFINE g == a \o b
<1>6. /\ g \in Seq(C) /\ Len(g) = 1 + Len(p) /\ Chunk(p) = g \o e
      /\ g[1] = a[1] /\ \A k \in 1..Len(p) : g[1 + k] = b[k]
  BY <1>4, <1>5
<1> HIDE DEF g
<1>7. /\ g \o e \in Seq(C) /\ Len(g \o e) = Len(p) + 2
      /\ \A k \in 1..(1 + Len(p)) : (g \o e)[k] = g[k]
      /\ (g \o e)[1 + Len(p) + 1] = e[1]
  <2>1. /\ g \o e \in Seq(C) /\ Len(g \o e) = Len(g) + Len(e)
        /\ \A i \in 1..Len(g) : (g \o e)[i] = g[i]
        /\ \A i \in 1..Len(e) : (g \o e)[Len(g) + i] = e[i]
    <3>1. g \in Seq(C) /\ e \in Seq(C)
      BY <1>2, <1>6
    <3> QED
      BY <3>1, Concat, SMTT(20)
  <2> QED
    BY <1>2, <1>4, <1>6, <2>1, SMTT(20)
<1>8. Chunk(p)[1] = a[1] /\ Chunk(p)[Len(p) + 2] = e[1]
  BY <1>4, <1>6, <1>7, SMTT(20)
<1>9. ASSUME NEW k \in 1..Len(p) PROVE Chunk(p)[1 + k] = b[k]
  <2>1. 1 + k \in 1..(1 + Len(p))
    BY <1>4, SMTT(20)
  <2> QED
    BY <1>6, <1>7, <2>1
<1> QED
  BY <1>1, <1>2, <1>3, <1>6, <1>7, <1>8, <1>9 DEF C

\* The chunks of the parts ps, and the cell where the j-th one ends.
Chunks(ps) == [i \in DOMAIN ps |-> Chunk(ps[i])]
Ends(ps, j) == Len(Joined(Chunks(ps))[j])

\* The chunked body, cell by cell.
LEMMA FramedAt ==
    ASSUME NEW T, NEW ps \in Seq(Seq(T))
    PROVE  LET F == Flat(Chunks(ps)) \o Size(0)
           IN /\ F \in Seq(Cells(T)) /\ Len(F) = Ends(ps, Len(ps)) + 1
              /\ F[Ends(ps, Len(ps)) + 1].cell = "size" /\ F[Ends(ps, Len(ps)) + 1].n = 0
              /\ Ends(ps, 0) = 0
              /\ \A j \in 0..Len(ps) : Ends(ps, j) \in Nat /\ Ends(ps, j) <= Ends(ps, Len(ps))
              /\ \A j \in 1..Len(ps) :
                    LET at == Ends(ps, j - 1)
                    IN /\ Ends(ps, j) = at + Len(ps[j]) + 2
                       /\ F[at + 1].cell = "size" /\ F[at + 1].n = Len(ps[j])
                       /\ \A k \in 1..Len(ps[j]) : F[at + 1 + k].unit = ps[j][k]
                       /\ F[Ends(ps, j)].cell = "line_end"
<1> DEFINE ss == Chunks(ps)
           A == Flat(ss)
           z == Size(0)
           F == A \o z
           E(j) == Ends(ps, j)
           m == Len(ps)
           C == Cells(T)
<1>1. m \in Nat /\ \A j \in 1..m : ps[j] \in Seq(T) /\ Len(ps[j]) \in Nat
  OBVIOUS
<1>2. ss \in Seq(Seq(C)) /\ Len(ss) = m /\ \A j \in 1..m : ss[j] = Chunk(ps[j])
  <2>1. DOMAIN ps = 1..m
    OBVIOUS
  <2>2. ss = [j \in 1..m |-> Chunk(ps[j])] /\ \A j \in 1..m : Chunk(ps[j]) \in Seq(C)
    BY <1>1, <2>1, ChunkCells DEF Chunks
  <2> HIDE DEF ss, C, m
  <2> QED
    BY <1>1, <2>2
<1>3. z \in Seq(C) /\ Len(z) = 1 /\ z[1].cell = "size" /\ z[1].n = 0
  BY DEF Size, Cells
<1> HIDE DEF ss, z, C
<1>4. A \in Seq(C) /\ Len(A) = E(m) /\ Joined(ss)[0] = <<>>
  <2>1. m \in 0..Len(ss) /\ Joined(ss)[m] \in Seq(C) /\ Joined(ss)[0] = <<>>
    <3>1. ss \in Seq(Seq(C)) /\ m \in 0..Len(ss)
      BY <1>1, <1>2
    <3> HIDE DEF m
    <3> QED
      BY <3>1, JoinedSeq
  <2>2. A = Joined(ss)[m] /\ E(m) = Len(Joined(ss)[m])
    BY <1>2 DEF Flat, Ends, ss
  <2> QED
    BY <2>1, <2>2
<1>5. \A j \in 0..m : E(j) \in Nat /\ E(j) <= Len(A)
  BY <1>2, JoinedPrefix DEF Ends, ss
<1>6. /\ F \in Seq(C) /\ Len(F) = E(m) + 1
      /\ \A i \in 1..E(m) : F[i] = A[i]
      /\ F[E(m) + 1] = z[1]
  <2> HIDE DEF A, m
  <2>1. /\ A \o z \in Seq(C) /\ Len(A \o z) = Len(A) + Len(z)
        /\ \A i \in 1..Len(A) : (A \o z)[i] = A[i]
        /\ \A i \in 1..Len(z) : (A \o z)[Len(A) + i] = z[i]
    <3>1. A \in Seq(C) /\ z \in Seq(C)
      BY <1>3, <1>4
    <3> QED
      BY <3>1, Concat, SMTT(20)
  <2>2. E(m) \in Nat
    BY <1>4
  <2> QED
    BY <1>3, <1>4, <2>1, <2>2, SMTT(20)
<1>7. E(0) = 0
  BY <1>4 DEF Ends, ss
<1> HIDE DEF m, A, F
<1>8. ASSUME NEW j \in 1..m
      PROVE  /\ E(j) = E(j - 1) + Len(ps[j]) + 2
             /\ F[E(j - 1) + 1].cell = "size" /\ F[E(j - 1) + 1].n = Len(ps[j])
             /\ \A k \in 1..Len(ps[j]) : F[E(j - 1) + 1 + k].unit = ps[j][k]
             /\ F[E(j)].cell = "line_end"
  <2> DEFINE p == ps[j]
             c == ss[j]
             o == E(j - 1)
  <2>1. /\ Len(c) = Len(p) + 2 /\ c[1].cell = "size" /\ c[1].n = Len(p)
        /\ \A k \in 1..Len(p) : c[1 + k].unit = p[k]
        /\ c[Len(p) + 2].cell = "line_end"
    <3>1. p \in Seq(T) /\ c = Chunk(p)
      BY <1>1, <1>2
    <3> HIDE DEF p, c
    <3> QED
      BY <3>1, ChunkCells
  <2>2. E(j) = o + Len(c) /\ \A k \in 1..Len(c) : A[o + k] = c[k]
    BY <1>2, FlatAt DEF Ends, ss, A
  <2>3. o \in Nat /\ Len(p) \in Nat /\ E(j) \in Nat /\ E(m) \in Nat /\ E(j) <= E(m)
    <3>1. j - 1 \in 0..m /\ j \in 0..m /\ m \in 0..m
      BY <1>1
    <3> QED
      BY <1>1, <1>4, <1>5, <3>1
  <2> HIDE DEF p, c, o, E
  <2>4. ASSUME NEW k \in 1..(Len(p) + 2) PROVE F[o + k] = c[k]
    <3>1. o + k \in 1..E(m)
      <4>1. Len(c) = Len(p) + 2 /\ E(j) = o + Len(c)
        BY <2>1, <2>2
      <4> QED
        BY <2>3, <4>1
    <3>2. A[o + k] = c[k]
      BY <2>1, <2>2
    <3> QED
      BY <1>6, <3>1, <3>2
  <2>5. F[o + 1] = c[1] /\ F[o + (Len(p) + 2)] = c[Len(p) + 2]
    BY <2>3, <2>4, SMTT(20)
  <2>6. ASSUME NEW k \in 1..Len(p) PROVE F[o + 1 + k].unit = p[k]
    <3>1. 1 + k \in 1..(Len(p) + 2) /\ o + (1 + k) = o + 1 + k
      BY <2>3
    <3> QED
      BY <2>1, <2>4, <3>1
  <2>7. E(j) = o + Len(p) + 2 /\ o + (Len(p) + 2) = o + Len(p) + 2
    BY <2>1, <2>2, <2>3, SMTT(20)
  <2> QED
    BY <2>1, <2>5, <2>6, <2>7 DEF p, c, o
<1> QED
  BY <1>3, <1>4, <1>5, <1>6, <1>7, <1>8 DEF F, A, m, ss, z, C

\* What the decoder finds from i on, when it finds g[j] from each later j.
Decoded(s, g, i) ==
    IF i > Len(s) THEN More
    ELSE IF s[i].cell # "size" THEN Bad
    ELSE IF s[i].n = 0 THEN Got(<<>>)
    ELSE LET end == i + s[i].n + 1
         IN IF Len(s) < end THEN More
            ELSE IF s[end].cell # "line_end" THEN Bad
            ELSE LET rest == g[end + 1]
                 IN IF rest.state = "body"
                    THEN Got(Units(SubSeq(s, i + 1, end - 1)) \o rest.body)
                    ELSE rest

\* It depends on what is found later only.
LEMMA DecodedLater ==
    ASSUME NEW T, NEW s \in Seq(Cells(T)), NEW i \in 1..(Len(s) + 1), NEW g, NEW h,
           \A k \in 1..(Len(s) + 1) : k > i => g[k] = h[k]
    PROVE  Decoded(s, g, i) = Decoded(s, h, i)
<1>1. Len(s) \in Nat
  OBVIOUS
<1>2. CASE i > Len(s) \/ s[i].cell # "size"
  BY <1>2 DEF Decoded
<1>3. CASE i <= Len(s) /\ s[i].cell = "size"
  <2>1. s[i] \in Cells(T)
    BY <1>1, <1>3
  <2>2. s[i].n \in Nat
    BY <1>3, <2>1 DEF Cells
  <2> DEFINE end == i + s[i].n + 1
  <2>3. CASE Len(s) < end
    BY <2>3 DEF Decoded
  <2>4. CASE end <= Len(s)
    <3>1. end + 1 \in 1..(Len(s) + 1) /\ end + 1 > i
      BY <1>1, <2>2, <2>4
    <3>2. g[end + 1] = h[end + 1]
      <4> HIDE DEF end
      <4> QED
        BY <3>1
    <3> QED
      BY <3>2 DEF Decoded
  <2> QED
    BY <1>1, <2>2, <2>3, <2>4
<1> QED
  BY <1>1, <1>2, <1>3

\* The recursive decoder is a function that finds, from each position, what it
\* should given what it finds later.
LEMMA DecodeDef ==
    ASSUME NEW T, NEW s \in Seq(Cells(T))
    PROVE  DecodeChunked(s) = [i \in 1..(Len(s) + 1) |-> Decoded(s, DecodeChunked(s), i)]
<1> DEFINE L == Len(s) + 1
           Solved(g, n) == /\ g = [i \in 1..L |-> g[i]]
                          /\ \A i \in 1..L : i > L - n => g[i] = Decoded(s, g, i)
           S == {n \in Nat : n <= L => \E g : Solved(g, n)}
<1>0. L \in Nat
  OBVIOUS
<1>1. 0 \in S
  <2> DEFINE g == [i \in 1..L |-> More]
  <2>1. g = [i \in 1..L |-> g[i]]
    OBVIOUS
  <2>2. \A i \in 1..L : ~(i > L - 0)
    BY <1>0
  <2> HIDE DEF g, L
  <2>3. Solved(g, 0)
    BY <2>1, <2>2
  <2> HIDE DEF Solved
  <2>4. \E k : Solved(k, 0)
    BY <2>3
  <2> QED
    BY <2>4
<1>2. ASSUME NEW n \in Nat, n \in S PROVE n + 1 \in S
  <2> SUFFICES ASSUME n + 1 <= L PROVE \E g : Solved(g, n + 1)
    BY SMTT(20)
  <2>1. PICK g : Solved(g, n)
    BY <1>0, <1>2
  <2> DEFINE m == L - n
             d == Decoded(s, g, m)
             h == [i \in 1..L |-> IF i = m THEN d ELSE g[i]]
  <2>2. m \in 1..L /\ \A i \in 1..L : i > L - (n + 1) => i = m \/ i > m
    BY <1>0
  <2>3. h[m] = d /\ \A i \in 1..L : i # m => h[i] = g[i]
    BY <2>2
  <2>4. h = [i \in 1..L |-> h[i]]
    OBVIOUS
  <2>5. \A i \in 1..L : i > m => g[i] = Decoded(s, g, i)
    BY <2>1
  <2> HIDE DEF h, m
  <2>6. ASSUME NEW i \in 1..L, i > L - (n + 1) PROVE h[i] = Decoded(s, h, i)
    <3>1. \A k \in 1..L : k > i => g[k] = h[k]
      <4>1. \A k \in 1..L : k > i => k # m
        BY <1>0, <2>2, <2>6
      <4> QED
        BY <2>3, <4>1
    <3>2. Decoded(s, g, i) = Decoded(s, h, i)
      BY <3>1, DecodedLater
    <3>3. CASE i = m
      BY <2>3, <3>2, <3>3
    <3>4. CASE i # m
      BY <2>2, <2>3, <2>5, <2>6, <3>2, <3>4
    <3> QED
      BY <3>3, <3>4
  <2>7. Solved(h, n + 1)
    BY <2>4, <2>6
  <2> HIDE DEF Solved
  <2> QED
    BY <2>7
<1>3. PICK g : Solved(g, L)
  <2> HIDE DEF S
  <2>1. L \in S
    BY <1>0, <1>1, <1>2, Induction
  <2> QED
    BY <1>0, <2>1 DEF S
<1>4. g = [i \in 1..L |-> Decoded(s, g, i)]
  <2>1. \A i \in 1..L : i > L - L
    BY <1>0
  <2>2. \A i \in 1..L : g[i] = Decoded(s, g, i)
    BY <1>3, <2>1
  <2>3. g = [i \in 1..L |-> g[i]]
    BY <1>3
  <2> QED
    BY <2>2, <2>3
<1>5. \E f : f = [i \in 1..L |-> Decoded(s, f, i)]
  BY <1>4
<1> QED
  BY <1>5 DEF DecodeChunked, Decoded

\* All of the sequences are a sequence.
LEMMA FlatSeq ==
    ASSUME NEW T, NEW ss \in Seq(Seq(T))
    PROVE  Flat(ss) \in Seq(T) /\ Len(Flat(ss)) \in Nat
<1>1. Len(ss) \in 0..Len(ss)
  OBVIOUS
<1>2. Joined(ss)[Len(ss)] \in Seq(T)
  BY <1>1, JoinedSeq
<1>3. Flat(ss) \in Seq(T)
  BY <1>2 DEF Flat
<1> QED
  BY <1>3

\* The units of a part of the cells.
LEMMA UnitsPart ==
    ASSUME NEW T, NEW C, NEW s \in Seq(C), NEW p \in Seq(T), NEW o \in Nat, o + Len(p) <= Len(s),
           \A k \in 1..Len(p) : s[o + k].unit = p[k]
    PROVE  Units(SubSeq(s, o + 1, o + Len(p))) = p
<1> DEFINE t == SubSeq(s, o + 1, o + Len(p))
<1>1. /\ t \in Seq(C) /\ Len(t) = Len(p)
      /\ \A k \in 1..Len(p) : t[k] = s[o + k]
  <2>1. Len(p) \in Nat /\ o + Len(p) \in Nat /\ o <= o + Len(p) /\ (o + Len(p)) - o = Len(p)
    OBVIOUS
  <2> DEFINE e == o + Len(p)
  <2>2. e \in Nat /\ e <= Len(s) /\ o <= e /\ e - o = Len(p) /\ t = SubSeq(s, o + 1, e)
    BY <2>1
  <2> HIDE DEF e, t
  <2> QED
    BY <2>2, Part, SMTT(20)
<1> HIDE DEF t
<1>2. DOMAIN t = 1..Len(p)
  BY <1>1
<1>3. Units(t) = [k \in 1..Len(p) |-> p[k]]
  BY <1>1, <1>2 DEF Units
<1> QED
  BY <1>3, SMTT(20) DEF t

\* The units that follow the first j parts.
After(ps, j) == SubSeq(Flat(ps), Len(Joined(ps)[j]) + 1, Len(Flat(ps)))

\* They are those of the next part, then those that follow it.
LEMMA AfterNext ==
    ASSUME NEW T, NEW ps \in Seq(Seq(T)), NEW j \in 1..Len(ps)
    PROVE  After(ps, j - 1) = ps[j] \o After(ps, j)
<1> DEFINE all == Flat(ps)
           a == Len(Joined(ps)[j - 1])
           p == ps[j]
           b == Len(Joined(ps)[j])
           x == After(ps, j - 1)
           y == After(ps, j)
           L == Len(all)
<1>1. p \in Seq(T) /\ Len(p) \in Nat /\ j - 1 \in 0..Len(ps) /\ j \in 0..Len(ps) /\ Len(ps) \in 0..Len(ps)
  OBVIOUS
<1>2. all \in Seq(T) /\ L \in Nat
  BY FlatSeq
<1>3. b = a + Len(p) /\ \A k \in 1..Len(p) : all[a + k] = p[k]
  BY FlatAt
<1>4. a \in Nat /\ b \in Nat /\ a <= L /\ b <= L
  BY <1>1, JoinedPrefix
<1>5. x = SubSeq(all, a + 1, L) /\ y = SubSeq(all, b + 1, L)
  BY DEF After
<1> HIDE DEF all, a, p, b, x, y, L
<1>6. x \in Seq(T) /\ Len(x) = L - a /\ \A k \in 1..(L - a) : x[k] = all[a + k]
  BY <1>2, <1>4, <1>5, Part, SMTT(20) DEF L
<1>7. y \in Seq(T) /\ Len(y) = L - b /\ \A k \in 1..(L - b) : y[k] = all[b + k]
  BY <1>2, <1>4, <1>5, Part, SMTT(20) DEF L
<1> DEFINE z == p \o y
<1>8. /\ z \in Seq(T) /\ Len(z) = Len(p) + Len(y)
      /\ \A k \in 1..Len(p) : z[k] = p[k]
      /\ \A k \in 1..Len(y) : z[Len(p) + k] = y[k]
  <2>1. p \in Seq(T) /\ y \in Seq(T)
    BY <1>1, <1>7
  <2> QED
    BY <2>1, Concat, SMTT(20)
<1> HIDE DEF z
<1>9. Len(x) = Len(z)
  BY <1>1, <1>2, <1>3, <1>4, <1>6, <1>7, <1>8
<1>10. ASSUME NEW k \in 1..Len(x) PROVE x[k] = z[k]
  <2>1. k \in Nat /\ x[k] = all[a + k]
    BY <1>6
  <2>2. CASE k <= Len(p)
    BY <1>1, <1>3, <1>8, <2>1, <2>2, k \in 1..Len(p)
  <2>3. CASE k > Len(p)
    <3> DEFINE q == k - Len(p)
    <3>1. q \in 1..Len(y) /\ q \in 1..(L - b) /\ a + k = b + q /\ k = Len(p) + q
      BY <1>1, <1>2, <1>3, <1>4, <1>6, <1>7, <2>3
    <3> HIDE DEF q
    <3>2. z[k] = y[q] /\ y[q] = all[b + q]
      BY <1>7, <1>8, <3>1
    <3> QED
      BY <2>1, <3>1, <3>2
  <2> QED
    BY <1>1, <2>1, <2>2, <2>3
<1>11. x = z
  BY <1>6, <1>8, <1>9, <1>10, SeqEq
<1> QED
  BY <1>11 DEF x, z, p, y

\* From the end of the j-th chunk on, the decoder asks for more or finds the
\* units that follow the first j parts.
LEMMA DecodePrefix ==
    ASSUME NEW T, NEW ps \in Seq(Seq(T)), \A j \in DOMAIN ps : ps[j] # <<>>,
           NEW n \in Nat, n <= Len(Flat(Chunks(ps)) \o Size(0)),
           NEW j \in 0..Len(ps), Ends(ps, j) <= n
    PROVE  LET F == Flat(Chunks(ps)) \o Size(0)
               d == DecodeChunked(SubSeq(F, 1, n))[Ends(ps, j) + 1]
           IN (d = More /\ n < Len(F)) \/ d = Got(After(ps, j))
<1> DEFINE F == Flat(Chunks(ps)) \o Size(0)
           C == Cells(T)
           m == Len(ps)
           E(i) == Ends(ps, i)
           s == SubSeq(F, 1, n)
           d == DecodeChunked(s)
           P(i) == (d[E(i) + 1] = More /\ n < Len(F)) \/ d[E(i) + 1] = Got(After(ps, i))
           S == {q \in Nat : q <= m /\ E(m - q) <= n => P(m - q)}
<1>1. m \in Nat /\ \A i \in 1..m : ps[i] \in Seq(T) /\ Len(ps[i]) \in Nat \ {0}
  OBVIOUS
<1>2. /\ F \in Seq(C) /\ Len(F) = E(m) + 1
      /\ F[E(m) + 1].cell = "size" /\ F[E(m) + 1].n = 0
  BY FramedAt
<1>3. \A i \in 0..m : E(i) \in Nat /\ E(i) <= E(m)
  BY FramedAt
<1>4. ASSUME NEW i \in 1..m
      PROVE  /\ E(i) = E(i - 1) + Len(ps[i]) + 2
             /\ F[E(i - 1) + 1].cell = "size" /\ F[E(i - 1) + 1].n = Len(ps[i])
             /\ \A k \in 1..Len(ps[i]) : F[E(i - 1) + 1 + k].unit = ps[i][k]
             /\ F[E(i)].cell = "line_end"
  BY FramedAt
<1> HIDE DEF F, C
<1>5. s \in Seq(C) /\ Len(s) = n /\ \A i \in 1..n : s[i] = F[i]
  <2>1. n <= Len(F) /\ 0 \in Nat /\ 0 <= n /\ 0 + 1 = 1 /\ n - 0 = n
    BY DEF F
  <2>2. SubSeq(F, 0 + 1, n) \in Seq(C) /\ Len(SubSeq(F, 0 + 1, n)) = n - 0
    BY <1>2, <2>1, Part, SMTT(20)
  <2>3. \A i \in 1..(n - 0) : SubSeq(F, 0 + 1, n)[i] = F[0 + i]
    BY <1>2, <2>1, Part, ZenonT(30)
  <2>4. \A i \in 1..n : SubSeq(F, 1, n)[i] = F[0 + i] /\ 0 + i = i
    BY <2>1, <2>3, SMTT(20)
  <2> QED
    BY <2>1, <2>2, <2>4
<1> HIDE DEF s
<1>6. \A i \in 1..(n + 1) : d[i] = Decoded(s, d, i)
  <2>1. d = [i \in 1..(Len(s) + 1) |-> Decoded(s, d, i)]
    BY <1>5, DecodeDef DEF C
  <2> HIDE DEF d
  <2> QED
    BY <1>5, <2>1
<1> HIDE DEF d
<1>7. n <= E(m) + 1 /\ E(m) \in Nat
  BY <1>1, <1>2, <1>3, m \in 0..m DEF F
<1> HIDE DEF m, E
<1>8. ASSUME NEW i \in 0..m, E(i) = n PROVE d[E(i) + 1] = More /\ n < Len(F)
  <2>1. n + 1 \in 1..(n + 1) /\ n + 1 > Len(s) /\ n < E(m) + 1
    BY <1>3, <1>5, <1>7, <1>8
  <2>2. d[n + 1] = More
    BY <1>6, <2>1 DEF Decoded
  <2> QED
    BY <1>2, <1>8, <2>1, <2>2
<1>9. E(m) <= n => P(m)
  <2> SUFFICES ASSUME E(m) <= n PROVE P(m)
    OBVIOUS
  <2>1. CASE E(m) = n
    BY <1>1, <1>8, <2>1, m \in 0..m
  <2>2. CASE E(m) # n
    <3> DEFINE i == E(m) + 1
    <3>1. i = n /\ i \in 1..n /\ i \in 1..(n + 1) /\ ~(i > Len(s))
      BY <1>5, <1>7, <2>2
    <3>2. s[i].cell = "size" /\ s[i].n = 0
      BY <1>2, <1>5, <3>1
    <3> HIDE DEF i
    <3>3. d[i] = Got(<<>>)
      BY <1>6, <3>1, <3>2 DEF Decoded
    <3>4. After(ps, m) = <<>>
      <4>1. Flat(ps) \in Seq(T) /\ Len(Flat(ps)) \in Nat
        BY FlatSeq
      <4>2. After(ps, m) = SubSeq(Flat(ps), Len(Flat(ps)) + 1, Len(Flat(ps)))
        BY DEF After, Flat, m
      <4> QED
        BY <4>1, <4>2
    <3> QED
      BY <3>3, <3>4 DEF i
  <2> QED
    BY <2>1, <2>2
<1>10. ASSUME NEW i \in 1..m, E(i) <= n => P(i), E(i - 1) <= n PROVE P(i - 1)
  <2> DEFINE o == E(i - 1)
             p == ps[i]
             e == E(i)
  <2>1. /\ o \in Nat /\ o <= n /\ e \in Nat /\ e <= E(m) /\ i - 1 \in 0..m
        /\ e = o + Len(p) + 2 /\ p \in Seq(T) /\ Len(p) \in Nat \ {0}
    <3>1. i - 1 \in 0..m /\ i \in 0..m
      BY <1>1
    <3> QED
      BY <1>1, <1>3, <1>4, <1>10, <3>1
  <2>2. /\ F[o + 1].cell = "size" /\ F[o + 1].n = Len(p) /\ F[e].cell = "line_end"
        /\ \A k \in 1..Len(p) : F[o + 1 + k].unit = p[k]
    BY <1>4
  <2>3. CASE o = n
    BY <1>8, <2>1, <2>3
  <2>4. CASE o < n
    <3> HIDE DEF p
    <3>1. e = (o + 1) + Len(p) + 1
      BY <2>1
    <3>2. o + 1 \in 1..n /\ o + 1 \in 1..(n + 1) /\ ~(o + 1 > Len(s))
      BY <1>5, <2>1, <2>4
    <3>3. s[o + 1].cell = "size" /\ s[o + 1].n = Len(p) /\ Len(p) # 0
      BY <1>5, <2>1, <2>2, <3>2
    <3>4. CASE n < e
      <4>1. d[o + 1] = More
        <5> HIDE DEF o, e
        <5>1. Len(s) < (o + 1) + s[o + 1].n + 1
          BY <1>5, <3>1, <3>3, <3>4
        <5> QED
          BY <1>6, <3>2, <3>3, <5>1 DEF Decoded
      <4>2. n < Len(F)
        BY <1>2, <1>7, <2>1, <3>4
      <4> QED
        BY <4>1, <4>2
    <3>5. CASE e <= n
      <4>1. e \in 1..n /\ s[e].cell = "line_end" /\ ~(Len(s) < e)
        BY <1>5, <2>1, <2>2, <3>5, SMTT(20)
      <4> DEFINE rest == d[e + 1]
                 u == Units(SubSeq(s, (o + 1) + 1, e - 1))
      <4>2. d[o + 1] = IF rest.state = "body" THEN Got(u \o rest.body) ELSE rest
        <5> HIDE DEF o, e
        <5>1. e = (o + 1) + s[o + 1].n + 1
          BY <3>1, <3>3
        <5> QED
          BY <1>6, <3>2, <3>3, <4>1, <5>1 DEF Decoded
      <4>3. u = p
        <5> HIDE DEF o, e
        <5> DEFINE w == o + 1
        <5>1. w \in Nat /\ w + Len(p) = e - 1 /\ w + Len(p) <= Len(s)
          BY <1>5, <2>1, <3>5, SMTT(20)
        <5>2. ASSUME NEW k \in 1..Len(p) PROVE s[w + k].unit = p[k]
          <6>1. w + k \in 1..n /\ w + k = o + 1 + k
            BY <1>5, <2>1, <3>5
          <6> QED
            BY <1>5, <2>2, <6>1
        <5>3. s \in Seq(C) /\ p \in Seq(T)
          BY <1>5, <2>1
        <5> HIDE DEF w
        <5>4. Units(SubSeq(s, w + 1, w + Len(p))) = p
          BY <5>1, <5>2, <5>3, UnitsPart
        <5> QED
          BY <5>1, <5>4 DEF w
      <4>4. CASE rest = More /\ n < Len(F)
        BY <4>2, <4>4 DEF More
      <4>5. CASE rest = Got(After(ps, i))
        <5>1. d[o + 1] = Got(p \o After(ps, i))
          <6>1. rest.state = "body" /\ rest.body = After(ps, i)
            BY <4>5 DEF Got
          <6> HIDE DEF rest, u
          <6> QED
            BY <4>2, <4>3, <6>1
        <5>2. After(ps, i - 1) = p \o After(ps, i)
          BY AfterNext DEF m, p
        <5> QED
          BY <5>1, <5>2
      <4> QED
        BY <1>10, <3>5, <4>4, <4>5
    <3> QED
      BY <2>1, <3>4, <3>5
  <2> QED
    BY <2>1, <2>3, <2>4
<1> HIDE DEF P
<1>11. ASSUME NEW q \in Nat, q \in S PROVE q + 1 \in S
  <2> SUFFICES ASSUME q + 1 <= m, E(m - (q + 1)) <= n PROVE P(m - (q + 1))
    OBVIOUS
  <2> DEFINE i == m - q
  <2>1. i \in 1..m /\ i - 1 = m - (q + 1) /\ q <= m
    BY <1>1
  <2>2. E(i) <= n => P(i)
    BY <1>11, <2>1
  <2> HIDE DEF i
  <2> QED
    BY <1>10, <2>1, <2>2
<1>12. 0 \in S
  BY <1>1, <1>9, m - 0 = m
<1>13. Nat \subseteq S
  <2> HIDE DEF S
  <2> QED
    BY <1>11, <1>12, Induction
<1>14. m - j \in Nat /\ m - j <= m /\ m - (m - j) = j
  BY <1>1 DEF m
<1>15. E(j) <= n
  BY DEF E
<1>16. P(j)
  BY <1>13, <1>14, <1>15
<1> QED
  BY <1>16 DEF P, E, d, s, F

\* The chunks are longer than what they carry.
LEMMA ChunksLonger ==
    ASSUME NEW T, NEW ps \in Seq(Seq(T))
    PROVE  Len(Flat(ps)) <= Len(Flat(Chunks(ps)) \o Size(0))
<1> DEFINE m == Len(ps)
           E(i) == Ends(ps, i)
           l(i) == Len(Joined(ps)[i])
           S == {i \in Nat : i <= m => l(i) <= E(i)}
<1>1. m \in Nat /\ \A i \in 1..m : Len(ps[i]) \in Nat
  OBVIOUS
<1>2. Len(Flat(Chunks(ps)) \o Size(0)) = E(m) + 1 /\ E(0) = 0
  BY FramedAt
<1>3. \A i \in 0..m : E(i) \in Nat
  BY FramedAt
<1>4. \A i \in 1..m : E(i) = E(i - 1) + Len(ps[i]) + 2
  BY FramedAt
<1>5. \A i \in 0..m : l(i) \in Nat
  BY JoinedPrefix
<1>6. \A i \in 1..m : l(i) = l(i - 1) + Len(ps[i])
  BY JoinedSeq
<1>7. l(0) = 0 /\ Len(Flat(ps)) = l(m)
  <2>1. Joined(ps)[0] = <<>>
    BY JoinedSeq
  <2> QED
    BY <2>1 DEF Flat
<1> HIDE DEF m, E, l
<1>8. 0 \in S
  BY <1>2, <1>7
<1>9. ASSUME NEW i \in Nat, i \in S PROVE i + 1 \in S
  <2> SUFFICES ASSUME i + 1 <= m PROVE l(i + 1) <= E(i + 1)
    OBVIOUS
  <2>1. i \in 0..m /\ i + 1 \in 1..m /\ (i + 1) - 1 = i /\ l(i) <= E(i)
    BY <1>1, <1>9
  <2>2. E(i + 1) = E(i) + Len(ps[i + 1]) + 2 /\ l(i + 1) = l(i) + Len(ps[i + 1])
    BY <1>4, <1>6, <2>1
  <2>3. E(i) \in Nat /\ l(i) \in Nat /\ Len(ps[i + 1]) \in Nat
    BY <1>1, <1>3, <1>5, <2>1
  <2> QED
    BY <2>1, <2>2, <2>3
<1>10. Nat \subseteq S
  <2> HIDE DEF S
  <2> QED
    BY <1>8, <1>9, Induction
<1>11. l(m) <= E(m) /\ m \in 0..m
  BY <1>1, <1>10
<1>12. l(m) \in Nat /\ E(m) \in Nat
  BY <1>3, <1>5, <1>11
<1> QED
  BY <1>2, <1>7, <1>11, <1>12

\* The units of plain data.
LEMMA DataUnits ==
    ASSUME NEW T, NEW s \in Seq(T)
    PROVE  Data(s) \in Seq(Cells(T)) /\ Len(Data(s)) = Len(s) /\ \A k \in 1..Len(s) : Data(s)[k].unit = s[k]
BY DEF Data, Cells

\* A part of a part from the front.
LEMMA PartOfPart ==
    ASSUME NEW T, NEW s \in Seq(T), NEW k \in Nat, NEW n \in Nat, k <= n, n <= Len(s)
    PROVE  SubSeq(SubSeq(s, 1, n), 1, k) = SubSeq(s, 1, k)
<1>1. SubSeq(s, 1, n) \in Seq(T) /\ Len(SubSeq(s, 1, n)) = n /\ \A i \in 1..n : SubSeq(s, 1, n)[i] = s[i]
  OBVIOUS
<1>2. SubSeq(s, 1, k) \in Seq(T) /\ Len(SubSeq(s, 1, k)) = k /\ \A i \in 1..k : SubSeq(s, 1, k)[i] = s[i]
  OBVIOUS
<1> DEFINE t == SubSeq(s, 1, n)
<1>3. t \in Seq(T) /\ Len(t) = n /\ \A i \in 1..n : t[i] = s[i]
  BY <1>1
<1> HIDE DEF t
<1>4. SubSeq(t, 1, k) \in Seq(T) /\ Len(SubSeq(t, 1, k)) = k /\ \A i \in 1..k : SubSeq(t, 1, k)[i] = t[i]
  BY <1>3
<1> DEFINE x == SubSeq(t, 1, k)
           y == SubSeq(s, 1, k)
<1>5. Len(x) = Len(y) /\ x \in Seq(T) /\ y \in Seq(T) /\ \A i \in 1..Len(x) : x[i] = y[i]
  BY <1>2, <1>3, <1>4
<1> HIDE DEF x, y
<1>6. x = y
  BY <1>5, SeqEq
<1> QED
  BY <1>6 DEF x, y, t

\* A sequence of units of which the first k cells are given.
LEMMA UnitsPrefix ==
    ASSUME NEW T, NEW s \in Seq(T), NEW k \in Nat, k <= Len(s)
    PROVE  Units(SubSeq(Data(s), 1, k)) = SubSeq(s, 1, k)
<1> DEFINE p == SubSeq(s, 1, k)
           D == Data(s)
           C == Cells(T)
<1>1. p \in Seq(T) /\ Len(p) = k /\ \A i \in 1..k : p[i] = s[i]
  OBVIOUS
<1>2. D \in Seq(C) /\ Len(D) = Len(s) /\ Len(s) \in Nat /\ \A i \in 1..Len(s) : D[i].unit = s[i]
  <2>1. Len(s) \in Nat
    OBVIOUS
  <2> QED
    BY <2>1, DataUnits
<1> HIDE DEF p, D, C
<1>3. 0 \in Nat /\ 0 + Len(p) <= Len(D) /\ 0 + 1 = 1 /\ 0 + Len(p) = k
  BY <1>1, <1>2
<1>4. \A i \in 1..Len(p) : D[0 + i].unit = p[i]
  <2>1. \A i \in 1..Len(p) : 0 + i = i /\ i \in 1..k /\ i \in 1..Len(s)
    BY <1>1, <1>2
  <2> QED
    BY <1>1, <1>2, <2>1
<1>5. Units(SubSeq(D, 0 + 1, 0 + Len(p))) = p
  BY <1>1, <1>2, <1>3, <1>4, UnitsPart
<1> QED
  BY <1>3, <1>5 DEF p, D

\* What try_complete makes of the cells of a body.
Received(r, body, eof) ==
    IF r.framing = "chunked" THEN DecodeChunked(body)[1]
    ELSE IF r.framing = "length"
    THEN IF Len(body) < r.length THEN More ELSE Got(Units(SubSeq(body, 1, r.length)))
    ELSE IF eof THEN Got(Units(body)) ELSE More

\* The body and the document of a response, as sequences.
LEMMA SendableFacts ==
    ASSUME NEW r, Sendable(r)
    PROVE  \E T : /\ r.parts \in Seq(Seq(T)) /\ Flat(r.parts) \in Seq(T) /\ Len(Flat(r.parts)) \in Nat
                  /\ Framed(r) \in Seq(Cells(T)) /\ Len(Framed(r)) \in Nat
                  /\ Document(r) \in Seq(T) /\ Len(Document(r)) \in Nat /\ Len(Document(r)) <= Len(Framed(r))
<1>1. PICK T : r.parts \in Seq(Seq(T))
  BY DEF Sendable
<1> DEFINE all == Flat(r.parts)
           F == Framed(r)
           C == Cells(T)
<1>2. all \in Seq(T) /\ Len(all) \in Nat
  BY <1>1, FlatSeq
<1>3. CASE r.framing = "chunked"
  <2>1. F = Flat(Chunks(r.parts)) \o Size(0) /\ Document(r) = all
    BY <1>3 DEF Framed, Chunks, Document
  <2>2. F \in Seq(C)
    BY <1>1, <2>1, FramedAt
  <2>3. Len(all) <= Len(F)
    BY <1>1, <2>1, ChunksLonger
  <2> HIDE DEF all, F, C
  <2>4. Len(F) \in Nat
    BY <2>2
  <2> QED
    BY <1>1, <1>2, <2>1, <2>2, <2>3, <2>4 DEF all, F, C
<1>4. CASE r.framing # "chunked"
  <2>1. F = Data(all)
    BY <1>4 DEF Framed
  <2>2. F \in Seq(C) /\ Len(F) = Len(all)
    BY <1>2, <2>1, DataUnits
  <2>3. CASE r.framing = "length"
    <3>1. Document(r) = SubSeq(all, 1, r.length) /\ r.length \in Nat /\ r.length <= Len(all)
      BY <2>3 DEF Document, Sendable
    <3> HIDE DEF all
    <3>2. Document(r) \in Seq(T) /\ Len(Document(r)) = r.length
      BY <1>2, <3>1
    <3> HIDE DEF F, C
    <3>3. Len(Document(r)) \in Nat /\ Len(Document(r)) <= Len(F) /\ Len(F) \in Nat
      BY <1>2, <2>2, <3>1, <3>2
    <3> QED
      BY <1>1, <1>2, <2>2, <3>2, <3>3 DEF all, F, C
  <2>4. CASE r.framing # "length"
    <3>1. Document(r) = all
      BY <2>4 DEF Document
    <3> HIDE DEF all, F, C
    <3>2. Len(all) <= Len(F) /\ Len(F) \in Nat
      BY <1>2, <2>2
    <3> QED
      BY <1>1, <1>2, <2>2, <3>1, <3>2 DEF all, F, C
  <2> QED
    BY <2>3, <2>4
<1> QED
  BY <1>3, <1>4

\* The part of a body that was received asks for more, is the document, or is
\* the front of a document that only the end of the connection delimits.
LEMMA ReceivedExact ==
    ASSUME NEW r, Sendable(r), NEW k \in Nat, k <= Len(Framed(r)), NEW eof \in BOOLEAN
    PROVE  LET x == Received(r, SubSeq(Framed(r), 1, k), eof)
           IN \/ x = More /\ (eof => k < Len(Framed(r)))
              \/ x = Got(Document(r))
              \/ /\ x = Got(SubSeq(Document(r), 1, k))
                 /\ eof /\ r.framing = "none" /\ k < Len(Framed(r)) /\ Len(Framed(r)) = Len(Document(r))
<1> DEFINE all == Flat(r.parts)
           F == Framed(r)
           b == SubSeq(F, 1, k)
           x == Received(r, b, eof)
<1>1. PICK T : /\ r.parts \in Seq(Seq(T)) /\ all \in Seq(T) /\ Len(all) \in Nat
               /\ F \in Seq(Cells(T)) /\ Len(F) \in Nat
  BY SendableFacts
<1>2. CASE r.framing = "chunked"
  <2> DEFINE ps == r.parts
             d == DecodeChunked(b)[Ends(ps, 0) + 1]
  <2>1. F = Flat(Chunks(ps)) \o Size(0) /\ Document(r) = all
    BY <1>2 DEF Framed, Chunks, Document
  <2>2. \A j \in DOMAIN ps : ps[j] # <<>>
    BY <1>2 DEF Sendable
  <2>3. ps \in Seq(Seq(T)) /\ Ends(ps, 0) = 0 /\ 0 \in 0..Len(ps)
    <3>1. ps \in Seq(Seq(T))
      BY <1>1
    <3>2. Ends(ps, 0) = 0
      BY <3>1, FramedAt
    <3> HIDE DEF ps
    <3> QED
      BY <3>1, <3>2
  <2>4. x = d
    BY <1>2, <2>3 DEF Received
  <2>5. (d = More /\ k < Len(F)) \/ d = Got(After(ps, 0))
    <3> HIDE DEF ps
    <3>1. k <= Len(Flat(Chunks(ps)) \o Size(0)) /\ Ends(ps, 0) <= k
      BY <2>1, <2>3
    <3> QED
      BY <2>1, <2>2, <2>3, <3>1, DecodePrefix
  <2>6. After(ps, 0) = all
    <3>1. Joined(ps)[0] = <<>>
      BY <2>3, JoinedSeq
    <3>2. After(ps, 0) = SubSeq(all, 1, Len(all))
      BY <3>1 DEF After
    <3> HIDE DEF all
    <3> QED
      BY <1>1, <3>2
  <2> QED
    BY <2>1, <2>4, <2>5, <2>6
<1>3. ASSUME r.framing # "chunked"
      PROVE  /\ F = Data(all) /\ Len(F) = Len(all)
             /\ b \in Seq(Cells(T)) /\ Len(b) = k
             /\ \A i \in Nat : i <= k => Units(SubSeq(b, 1, i)) = SubSeq(all, 1, i)
             /\ Units(b) = SubSeq(all, 1, k)
  <2>1. F = Data(all)
    BY <1>3 DEF Framed
  <2>2. Len(F) = Len(all)
    BY <1>1, <2>1, DataUnits
  <2> HIDE DEF F, all
  <2>3. b \in Seq(Cells(T)) /\ Len(b) = k
    BY <1>1 DEF F
  <2>4. ASSUME NEW i \in Nat, i <= k PROVE Units(SubSeq(b, 1, i)) = SubSeq(all, 1, i)
    <3>1. SubSeq(b, 1, i) = SubSeq(F, 1, i)
      BY <1>1, <2>4, PartOfPart DEF F
    <3>2. i <= Len(all)
      BY <1>1, <2>2, <2>4 DEF F
    <3> QED
      BY <1>1, <2>1, <3>1, <3>2, UnitsPrefix
  <2>5. Units(b) = SubSeq(all, 1, k)
    <3>1. k <= Len(all)
      BY <2>2 DEF F
    <3> QED
      BY <1>1, <2>1, <3>1, UnitsPrefix
  <2> QED
    BY <2>1, <2>2, <2>3, <2>4, <2>5
<1>4. CASE r.framing = "length"
  <2>1. r.length \in Nat /\ r.length <= Len(all) /\ Document(r) = SubSeq(all, 1, r.length)
    BY <1>4 DEF Sendable, Document
  <2>2. x = IF k < r.length THEN More ELSE Got(Units(SubSeq(b, 1, r.length)))
    BY <1>3, <1>4 DEF Received
  <2>3. CASE k < r.length
    BY <1>1, <1>3, <1>4, <2>1, <2>2, <2>3
  <2>4. CASE r.length <= k
    <3>1. Units(SubSeq(b, 1, r.length)) = Document(r)
      BY <1>3, <1>4, <2>1, <2>4
    <3>2. ~(k < r.length)
      BY <2>1, <2>4
    <3> QED
      BY <2>2, <3>1, <3>2
  <2> QED
    BY <2>1, <2>3, <2>4
<1>5. CASE r.framing = "none"
  <2>1. Document(r) = all /\ x = IF eof THEN Got(Units(b)) ELSE More
    BY <1>5 DEF Document, Received
  <2>2. CASE ~eof
    BY <2>1, <2>2
  <2>3. CASE eof /\ k = Len(F)
    <3>1. SubSeq(all, 1, k) = all
      BY <1>1, <1>3, <1>5, <2>3
    <3> QED
      BY <1>3, <1>5, <2>1, <2>3, <3>1
  <2>4. CASE eof /\ k < Len(F)
    BY <1>3, <1>5, <2>1, <2>4
  <2> QED
    BY <1>1, <2>2, <2>3, <2>4
<1> QED
  BY <1>2, <1>4, <1>5 DEF Sendable

\* The first cells of a response: its header, then those of its body.
LEMMA WireFacts ==
    ASSUME NEW r, Sendable(r), NEW n \in Nat, n <= Len(Wire(r))
    PROVE  /\ Len(Framed(r)) \in Nat /\ Len(Wire(r)) = r.headLen + Len(Framed(r))
           /\ Len(SubSeq(Wire(r), 1, n)) = n
           /\ n >= r.headLen =>
                 SubSeq(SubSeq(Wire(r), 1, n), r.headLen + 1, n) = SubSeq(Framed(r), 1, n - r.headLen)
<1> DEFINE H == r.headLen
           h == Header(r)
           F == Framed(r)
           W == Wire(r)
<1>1. PICK T : F \in Seq(Cells(T)) /\ Len(F) \in Nat
  BY SendableFacts
<1> DEFINE C == Cells(T) \cup [cell: {"header", "header_end"}]
<1>2. H \in Nat
  BY DEF Sendable
<1>3. h \in Seq(C) /\ Len(h) = H
  BY <1>2 DEF Header
<1>4. F \in Seq(C)
  <2> DEFINE D == Cells(T)
  <2>1. D \subseteq C /\ F \in Seq(D)
    BY <1>1
  <2> HIDE DEF D, C, F
  <2> QED
    BY <2>1
<1>5. W = h \o F
  BY DEF Wire
<1> HIDE DEF H, h, F, W, C
<1>6. W \in Seq(C) /\ Len(W) = H + Len(F) /\ \A i \in 1..Len(F) : W[H + i] = F[i]
  <2>1. h \in Seq(C) /\ F \in Seq(C)
    BY <1>3, <1>4
  <2>2. /\ h \o F \in Seq(C) /\ Len(h \o F) = Len(h) + Len(F)
        /\ \A i \in 1..Len(F) : (h \o F)[Len(h) + i] = F[i]
    BY <2>1, Concat, SMTT(20)
  <2> QED
    BY <1>3, <1>5, <2>2
<1> DEFINE s == SubSeq(W, 1, n)
<1>7. s \in Seq(C) /\ Len(s) = n /\ \A i \in 1..n : s[i] = W[i]
  <2>1. n <= Len(W)
    BY DEF W
  <2> QED
    BY <1>6, <2>1
<1> HIDE DEF s
<1>8. ASSUME n >= H PROVE SubSeq(s, H + 1, n) = SubSeq(F, 1, n - H)
  <2> DEFINE k == n - H
             x == SubSeq(s, H + 1, n)
             y == SubSeq(F, 1, k)
  <2>1. k \in Nat /\ k <= Len(F) /\ H <= n /\ n = H + k
    <3>1. n <= Len(W)
      BY DEF W
    <3> QED
      BY <1>1, <1>2, <1>6, <1>8, <3>1 DEF F
  <2>2. x \in Seq(C) /\ Len(x) = k /\ \A i \in 1..k : x[i] = s[H + i]
    BY <1>2, <1>7, <2>1, Part, SMTT(20)
  <2> HIDE DEF k, x
  <2>3. y \in Seq(C) /\ Len(y) = k /\ \A i \in 1..k : y[i] = F[i]
    BY <1>4, <2>1
  <2> HIDE DEF y
  <2>4. ASSUME NEW i \in 1..k PROVE x[i] = y[i]
    <3>1. H + i \in 1..n /\ i \in 1..Len(F)
      BY <1>1, <1>2, <2>1 DEF F
    <3> QED
      BY <1>6, <1>7, <2>2, <2>3, <3>1
  <2>5. x = y
    BY <2>2, <2>3, <2>4, SeqEq
  <2> QED
    BY <2>5 DEF x, y, k
<1> QED
  BY <1>1, <1>6, <1>7, <1>8 DEF s, W, F, H

\* A response is finite.
LEMMA WireLength == ASSUME NEW r, Sendable(r) PROVE Len(Wire(r)) \in Nat
<1>1. PICK T : Framed(r) \in Seq(Cells(T))
  BY SendableFacts
<1> DEFINE F == Framed(r)
           C == Cells(T) \cup [cell: {"header", "header_end"}]
<1>2. Header(r) \in Seq(C)
  BY SMTT(20) DEF Header, Sendable
<1>3. F \in Seq(C)
  <2> DEFINE D == Cells(T)
  <2>1. D \subseteq C /\ F \in Seq(D)
    BY <1>1
  <2> HIDE DEF D, C, F
  <2> QED
    BY <2>1
<1> HIDE DEF F, C
<1>4. Header(r) \o F \in Seq(C)
  BY <1>2, <1>3
<1> QED
  BY <1>4 DEF Wire, F

\* The entry i of a document decides for name, with a valid key.
Gives(body, name, i) ==
    /\ i \in DOMAIN body[1].names
    /\ body[1].names[i].name = name /\ body[1].names[i].valid
    /\ \A j \in 1..(i - 1) : body[1].names[j].name # name

Parsed(body) == body # <<>> /\ Len(body) = body[1].units

\* What public_key_from_document takes from a document.
LEMMA KeyFacts ==
    ASSUME NEW body, NEW name, NEW k
    PROVE  k \in KeyFromDocument(body, name) <=>
               Parsed(body) /\ \E i : Gives(body, name, i) /\ k = body[1].names[i].key
BY DEF KeyFromDocument, Gives, Parsed

\* The front of a document that only the end of the connection delimits does
\* not parse.
LEMMA CutUnparsed ==
    ASSUME NEW r, Sendable(r), r.framing = "none", NEW k \in Nat, k < Len(Document(r)), NEW name
    PROVE  KeyFromDocument(SubSeq(Document(r), 1, k), name) = {}
<1> DEFINE doc == Document(r)
           b == SubSeq(doc, 1, k)
<1>1. PICK T : doc \in Seq(T)
  BY SendableFacts
<1>2. doc = Flat(r.parts)
  BY DEF Document
<1>3. doc # <<>> => doc[1].units \in Nat /\ Len(doc) <= doc[1].units
  BY <1>2 DEF Sendable
<1> HIDE DEF doc
<1>4. b \in Seq(T) /\ Len(b) = k /\ Len(doc) \in Nat /\ (k > 0 => b[1] = doc[1]) /\ (b = <<>> <=> k = 0)
  BY <1>1 DEF doc
<1> HIDE DEF b
<1>5. ~Parsed(b)
  <2> SUFFICES ASSUME b # <<>> PROVE Len(b) # b[1].units
    BY DEF Parsed
  <2>1. k > 0 /\ b[1] = doc[1] /\ k < Len(doc)
    BY <1>4 DEF doc
  <2>2. doc # <<>>
    BY <1>4, <2>1
  <2> QED
    BY <1>3, <1>4, <2>1, <2>2
<1> QED
  BY <1>5, KeyFacts DEF b, doc

\* A response that the limits allow.
Small(r) == r.headLen <= MaxHeader /\ Len(Framed(r)) <= MaxDocument

\* try_complete once the header is there.
LEMMA TryForm ==
    ASSUME NEW s, NEW eof, NEW r, ~(Len(s) < r.headLen)
    PROVE  LET x == Received(r, SubSeq(s, r.headLen + 1, Len(s)), eof)
           IN TryComplete(s, eof, r) = IF ~r.wellFormed THEN Bad
                                       ELSE IF x.state # "body" THEN x
                                       ELSE IF r.status # 200 \/ Len(x.body) > MaxDocument THEN Bad
                                       ELSE x
BY DEF TryComplete, Received

\* try_complete on the first n cells: it asks for more, refuses for a reason of
\* the response's own, or gives the document, or what cannot be parsed.
LEMMA TryExact ==
    ASSUME NEW r, Sendable(r), NEW n \in Nat, n <= Len(Wire(r)), NEW eof \in BOOLEAN
    PROVE  LET o == TryComplete(SubSeq(Wire(r), 1, n), eof, r)
           IN \/ o = More /\ (eof => n < Len(Wire(r)))
              \/ o = Bad /\ (~r.wellFormed \/ r.status # 200 \/ ~Small(r))
              \/ /\ o.state = "body" /\ r.wellFormed /\ r.status = 200 /\ Len(o.body) <= MaxDocument
                 /\ \/ o.body = Document(r)
                    \/ eof /\ n < Len(Wire(r)) /\ \A name : KeyFromDocument(o.body, name) = {}
<1> DEFINE s == SubSeq(Wire(r), 1, n)
           o == TryComplete(s, eof, r)
           H == r.headLen
           W == Len(Wire(r))
           f == Len(Framed(r))
<1>1. /\ H \in Nat \ {0} /\ f \in Nat /\ W = H + f /\ Len(s) = n
      /\ MaxHeader \in Nat /\ MaxDocument \in Nat
  BY WireFacts, FetchAssumption DEF Sendable
<1>2. CASE n < H
  <2>1. o = IF n > MaxHeader THEN Bad ELSE More
    BY <1>1, <1>2 DEF TryComplete
  <2>2. n < W
    BY <1>1, <1>2
  <2>3. CASE n > MaxHeader
    <3>1. ~Small(r)
      BY <1>1, <1>2, <2>3 DEF Small
    <3> QED
      BY <2>1, <2>3, <3>1
  <2> QED
    BY <2>1, <2>2, <2>3
<1>3. CASE n >= H
  <2> DEFINE k == n - H
             x == Received(r, SubSeq(Framed(r), 1, k), eof)
             doc == Document(r)
             p == SubSeq(doc, 1, k)
  <2>1. k \in Nat /\ k <= f /\ n = H + k
    BY <1>1, <1>3
  <2>2. SubSeq(s, H + 1, Len(s)) = SubSeq(Framed(r), 1, k)
    BY <1>1, <1>3, WireFacts
  <2>3. o = IF ~r.wellFormed THEN Bad
            ELSE IF x.state # "body" THEN x
            ELSE IF r.status # 200 \/ Len(x.body) > MaxDocument THEN Bad
            ELSE x
    <3>1. ~(Len(s) < H)
      BY <1>1, <1>3
    <3> DEFINE y == Received(r, SubSeq(s, H + 1, Len(s)), eof)
    <3>2. y = x
      BY <2>2
    <3> HIDE DEF s, x
    <3>3. o = IF ~r.wellFormed THEN Bad
              ELSE IF y.state # "body" THEN y
              ELSE IF r.status # 200 \/ Len(y.body) > MaxDocument THEN Bad
              ELSE y
      BY <3>1, TryForm
    <3> HIDE DEF y, o
    <3> QED
      BY <3>2, <3>3
  <2>4. \/ x = More /\ (eof => k < f)
        \/ x = Got(doc)
        \/ x = Got(p) /\ eof /\ r.framing = "none" /\ k < f /\ f = Len(doc)
    BY <2>1, ReceivedExact
  <2>5. Len(doc) \in Nat /\ Len(doc) <= f /\ \E T : doc \in Seq(T)
    BY SendableFacts
  <2> HIDE DEF o, x, k, doc, f, H, W
  <2>6. CASE ~r.wellFormed
    BY <2>3, <2>6 DEF o, s
  <2>7. CASE r.wellFormed /\ x = More /\ (eof => k < f)
    <3>1. o = More
      BY <2>3, <2>7 DEF More
    <3>2. eof => n < W
      BY <1>1, <2>1, <2>7
    <3> QED
      BY <3>1, <3>2 DEF o, s, W
  <2>8. ASSUME NEW b, r.wellFormed, x = Got(b), Len(b) \in Nat, Len(b) <= f,
               b = doc \/ (eof /\ n < W /\ \A name : KeyFromDocument(b, name) = {})
        PROVE  \/ o = Bad /\ (~r.wellFormed \/ r.status # 200 \/ ~Small(r))
               \/ /\ o.state = "body" /\ r.wellFormed /\ r.status = 200 /\ Len(o.body) <= MaxDocument
                  /\ \/ o.body = doc
                     \/ eof /\ n < W /\ \A name : KeyFromDocument(o.body, name) = {}
    <3>1. x.state = "body" /\ x.body = b
      BY <2>8 DEF Got
    <3>2. CASE r.status # 200 \/ Len(b) > MaxDocument
      <4>1. o = Bad
        BY <2>3, <2>8, <3>1, <3>2
      <4>2. Len(b) > MaxDocument => ~Small(r)
        BY <1>1, <2>8 DEF Small, f
      <4> QED
        BY <3>2, <4>1, <4>2
    <3>3. CASE r.status = 200 /\ ~(Len(b) > MaxDocument)
      <4>1. o = x
        BY <2>3, <2>8, <3>1, <3>3
      <4>2. Len(b) <= MaxDocument
        BY <1>1, <2>8, <3>3
      <4> QED
        BY <2>8, <3>1, <3>3, <4>1, <4>2, SMTT(20)
    <3> QED
      BY <3>2, <3>3
  <2>9. CASE r.wellFormed /\ x = Got(doc)
    BY <2>5, <2>8, <2>9 DEF o, s, W, doc
  <2>10. CASE r.wellFormed /\ x = Got(p) /\ eof /\ r.framing = "none" /\ k < f /\ f = Len(doc)
    <3>1. Len(p) \in Nat /\ Len(p) <= f
      BY <2>1, <2>5, <2>10
    <3>2. n < W
      BY <1>1, <2>1, <2>10
    <3>3. \A name : KeyFromDocument(p, name) = {}
      BY <2>1, <2>10, CutUnparsed DEF doc
    <3> HIDE DEF p
    <3> QED
      BY <2>8, <2>10, <3>1, <3>2, <3>3 DEF o, s, W, doc
  <2> QED
    BY <2>4, <2>6, <2>7, <2>9, <2>10
<1> QED
  BY <1>1, <1>2, <1>3, SMTT(20)

\* One turn of exchange: it reads on, fails because the connection is lost or
\* for a reason of the response's own, or has the document, or what cannot be
\* parsed.
Exact(r, n, eof) ==
    LET o == Exchange(r, n, eof)
        cut == eof /\ n < Len(Wire(r))
    IN \/ o.state = "more" /\ ~eof
       \/ o.state = "error" /\ (cut \/ ~r.wellFormed \/ r.status # 200 \/ ~Small(r))
       \/ /\ o.state = "body" /\ r.wellFormed /\ r.status = 200 /\ Len(o.body) <= MaxDocument
          /\ o.body = Document(r) \/ (cut /\ \A name : KeyFromDocument(o.body, name) = {})

\* So it is for every response, wherever the reads divide it (fetch_http_document
\* and try_complete of nip11.rs).
THEOREM ExchangeExact ==
    ASSUME NEW r, Sendable(r), NEW n \in Nat, n <= Len(Wire(r)), NEW eof \in BOOLEAN
    PROVE  Exact(r, n, eof)
<1> DEFINE s == SubSeq(Wire(r), 1, n)
           t == TryComplete(s, eof, r)
           o == Exchange(r, n, eof)
           W == Len(Wire(r))
<1>1. \/ t = More /\ (eof => n < W)
      \/ t = Bad /\ (~r.wellFormed \/ r.status # 200 \/ ~Small(r))
      \/ /\ t.state = "body" /\ r.wellFormed /\ r.status = 200 /\ Len(t.body) <= MaxDocument
         /\ t.body = Document(r) \/ (eof /\ n < W /\ \A name : KeyFromDocument(t.body, name) = {})
  BY TryExact, SMTT(20)
<1>2. CASE eof
  <2>1. o = IF t.state = "body" THEN t ELSE Bad
    BY <1>2 DEF Exchange
  <2>2. More.state = "more" /\ Bad.state = "error"
    BY DEF More, Bad
  <2> HIDE DEF o, t, W
  <2> QED
    BY <1>1, <1>2, <2>1, <2>2 DEF Exact, o, W
<1>3. CASE ~eof
  <2>1. o = IF n > MaxHeader + MaxDocument THEN Bad ELSE t
    BY <1>3 DEF Exchange
  <2>2. More.state = "more" /\ Bad.state = "error"
    BY DEF More, Bad
  <2>3. n > MaxHeader + MaxDocument => ~Small(r)
    <3>1. /\ r.headLen \in Nat /\ Len(Framed(r)) \in Nat /\ W = r.headLen + Len(Framed(r))
          /\ MaxHeader \in Nat /\ MaxDocument \in Nat
      BY WireFacts, FetchAssumption DEF Sendable
    <3> HIDE DEF W
    <3>2. n <= W
      BY DEF W
    <3> QED
      BY <3>1, <3>2 DEF Small
  <2> HIDE DEF o, t, W
  <2> QED
    BY <1>1, <1>3, <2>1, <2>2, <2>3 DEF Exact, o, W
<1> QED
  BY <1>2, <1>3

(***************************************************************************)
(* The fetch of a handle.                                                  *)
(***************************************************************************)
\* A fetch has read some of one of the responses.
FetchInv ==
    /\ fetch.op = "fetch" => /\ DOMAIN fetch = {"op", "name", "resp", "read"} /\ fetch.resp \in Responses
                             /\ fetch.read \in 0..Len(Wire(fetch.resp))
    /\ ResolvedExactly

\* What became of a fetch after the first n cells, the last of a connection
\* when eof holds.
LEMMA ResolveStep ==
    ASSUME fetch.resp \in Responses, NEW n \in Nat, n <= Len(Wire(fetch.resp)), NEW eof \in BOOLEAN,
           Exchange(fetch.resp, n, eof).state # "more",
           fetch' = Resolve(Exchange(fetch.resp, n, eof), n, eof)
    PROVE  FetchInv'
<1> DEFINE r == fetch.resp
           o == Exchange(r, n, eof)
           name == fetch.name
           doc == Document(r)
           cut == eof /\ n < Len(Wire(r))
           key == KeyFromDocument(o.body, name)
           good(b) == Parsed(b) /\ \E i : Gives(b, name, i)
<1>1. \/ o.state = "error" /\ (cut \/ ~r.wellFormed \/ r.status # 200 \/ ~Small(r))
      \/ /\ o.state = "body" /\ r.wellFormed /\ r.status = 200 /\ Len(o.body) <= MaxDocument
         /\ o.body = doc \/ (cut /\ key = {})
  <2>1. Sendable(r)
    BY ResponseAssumption
  <2>2. n <= Len(Wire(r)) /\ o.state # "more"
    OBVIOUS
  <2> HIDE DEF r
  <2>3. Exact(r, n, eof)
    BY <2>1, <2>2, ExchangeExact
  <2> QED
    BY <2>2, <2>3 DEF Exact
<1>2. \A k : k \in key <=> Parsed(o.body) /\ \E i : Gives(o.body, name, i) /\ k = o.body[1].names[i].key
  BY KeyFacts
<1>3. key = {} => ~good(o.body)
  <2> HIDE DEF key, o
  <2>1. ASSUME NEW i, Gives(o.body, name, i), Parsed(o.body) PROVE o.body[1].names[i].key \in key
    BY <1>2, <2>1
  <2> QED
    BY <2>1
<1>4. CASE o.state = "error" \/ key = {}
  <2>1. /\ fetch'.op = "unresolved" /\ fetch'.name = name /\ fetch'.resp = r /\ fetch'.cut = cut
    BY <1>4 DEF Resolve
  <2>2. cut \/ ~(r.wellFormed /\ r.status = 200 /\ good(doc)) \/ ~Small(r)
    <3> HIDE DEF o, doc, cut, key, r, good
    <3>1. CASE o.state = "error"
      BY <1>1, <3>1
    <3>2. CASE o.state # "error" /\ key = {}
      BY <1>1, <1>3, <3>2
    <3> QED
      BY <1>4, <3>1, <3>2
  <2>3. \/ cut
        \/ ~(/\ r.wellFormed /\ r.status = 200 /\ doc # <<>> /\ Len(doc) = doc[1].units
             /\ \E i \in DOMAIN doc[1].names :
                   /\ doc[1].names[i].name = name /\ doc[1].names[i].valid
                   /\ \A j \in 1..(i - 1) : doc[1].names[j].name # name)
        \/ ~(r.headLen <= MaxHeader /\ Len(Framed(r)) <= MaxDocument)
    <3> HIDE DEF doc, cut, r
    <3> QED
      BY ONLY <2>2, SMTT(20) DEF good, Parsed, Gives, Small
  <2> HIDE DEF cut, r
  <2> QED
    BY <2>1, <2>3, SMTT(20) DEF FetchInv, ResolvedExactly, doc
<1>5. CASE o.state # "error" /\ key # {}
  <2>1. /\ fetch'.op = "resolved" /\ fetch'.name = name /\ fetch'.resp = r
        /\ fetch'.key = CHOOSE k \in key : TRUE
    BY <1>5 DEF Resolve
  <2>2. fetch'.key \in key
    <3> HIDE DEF key
    <3> QED
      BY <1>5, <2>1
  <2>3. /\ o.body = doc /\ r.wellFormed /\ r.status = 200 /\ Len(doc) <= MaxDocument
        /\ Parsed(doc) /\ \E i : Gives(doc, name, i) /\ fetch'.key = doc[1].names[i].key
    <3> HIDE DEF o, doc, cut, key, r
    <3> QED
      BY <1>1, <1>2, <1>5, <2>2
  <2> QED
    BY <2>1, <2>3, SMTT(20) DEF FetchInv, ResolvedExactly, Parsed, Gives
<1> QED
  BY <1>4, <1>5

\* A fetch begins, reads on or ends.
LEMMA FetchExact ==
    ASSUME FetchInv,
           ReadEnd \/ (\E resp \in Responses : StartResolve(resp)) \/ (\E n \in 1..2 : ReadCells(n))
    PROVE  FetchInv'
<1>1. ASSUME NEW resp \in Responses, StartResolve(resp) PROVE FetchInv'
  <2>1. PICK url : fetch' = [op |-> "fetch", name |-> url.name, resp |-> resp, read |-> 0]
    BY <1>1 DEF StartResolve
  <2>2. /\ fetch'.op = "fetch" /\ fetch'.resp = resp /\ fetch'.read = 0
        /\ DOMAIN fetch' = {"op", "name", "resp", "read"}
    BY <2>1
  <2>3. 0 \in 0..Len(Wire(resp))
    <3>1. Sendable(resp)
      BY ResponseAssumption
    <3>2. Len(Wire(resp)) \in Nat
      BY <3>1, WireLength
    <3> QED
      BY <3>2
  <2> QED
    BY <2>2, <2>3 DEF FetchInv, ResolvedExactly
<1>2. fetch.op = "fetch" => /\ DOMAIN fetch = {"op", "name", "resp", "read"} /\ fetch.resp \in Responses
                           /\ fetch.read \in Nat /\ fetch.read <= Len(Wire(fetch.resp))
  BY DEF FetchInv
<1>3. CASE ReadEnd
  <2>1. fetch.op = "fetch" /\ fetch' = Resolve(Exchange(fetch.resp, fetch.read, TRUE), fetch.read, TRUE)
    BY <1>3 DEF ReadEnd
  <2>2. Exact(fetch.resp, fetch.read, TRUE)
    BY <1>2, <2>1, ResponseAssumption, ExchangeExact
  <2>3. Exchange(fetch.resp, fetch.read, TRUE).state # "more"
    BY <2>2 DEF Exact
  <2> QED
    BY <1>2, <2>1, <2>3, ResolveStep
<1>4. ASSUME NEW n \in 1..2, ReadCells(n) PROVE FetchInv'
  <2> DEFINE read == fetch.read + n
             o == Exchange(fetch.resp, read, FALSE)
  <2>1. fetch.op = "fetch" /\ read <= Len(Wire(fetch.resp)) /\ read \in Nat
    BY <1>2, <1>4 DEF ReadCells
  <2>2. fetch' = IF o.state = "more" THEN [fetch EXCEPT !.read = read] ELSE Resolve(o, read, FALSE)
    BY <1>4 DEF ReadCells
  <2> HIDE DEF read
  <2>3. CASE o.state = "more"
    <3>1. fetch' = [fetch EXCEPT !.read = read]
      BY <2>2, <2>3
    <3> HIDE DEF o
    <3>2. DOMAIN fetch' = DOMAIN fetch /\ fetch'.op = "fetch" /\ fetch'.resp = fetch.resp /\ fetch'.read = read
      BY <1>2, <2>1, <3>1
    <3>3. read \in 0..Len(Wire(fetch.resp))
      <4>1. Len(Wire(fetch.resp)) \in Nat
        BY <1>2, <2>1, ResponseAssumption, WireLength
      <4> QED
        BY <2>1, <4>1
    <3> QED
      BY <1>2, <2>1, <3>2, <3>3 DEF FetchInv, ResolvedExactly
  <2>4. CASE o.state # "more"
    BY <1>2, <2>1, <2>2, <2>4, ResolveStep
  <2> QED
    BY <2>3, <2>4
<1> QED
  BY <1>1, <1>3, <1>4

\* However a response is split into reads, and wherever its connection is
\* lost, a handle resolves only to the key the whole document of a good
\* response gives, and a response that arrives whole is refused only for a
\* reason of its own (nip11.rs, nip05.rs).
THEOREM ResolvedExactlyHolds == FetchSpec => []ResolvedExactly
<1>1. FetchInit => FetchInv
  BY SMTT(20) DEF FetchInit, NoFetch, FetchInv, ResolvedExactly
<1>2. FetchInv /\ [FetchNext]_fetch => FetchInv'
  <2> SUFFICES ASSUME FetchInv, [FetchNext]_fetch PROVE FetchInv'
    OBVIOUS
  <2>1. CASE ReadEnd \/ (\E resp \in Responses : StartResolve(resp)) \/ (\E n \in 1..2 : ReadCells(n))
    BY <2>1, FetchExact
  <2>2. CASE EndResolve
    BY <2>2 DEF EndResolve, NoFetch, FetchInv, ResolvedExactly
  <2>3. CASE UNCHANGED fetch
    BY <2>3 DEF FetchInv, ResolvedExactly
  <2> QED
    BY <2>1, <2>2, <2>3 DEF FetchNext
<1>3. FetchInv => ResolvedExactly
  BY DEF FetchInv
<1> QED
  BY <1>1, <1>2, <1>3, PTL DEF FetchSpec

=============================================================================
