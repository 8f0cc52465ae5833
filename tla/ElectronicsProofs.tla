-------------------------- MODULE ElectronicsProofs --------------------------
(***************************************************************************)
(* Theorems about Electronics, for boards of any number of keys at any     *)
(* position: no two keys share a place of the matrix, with either          *)
(* strategy.  A column is the rank of a key among those of its row, and    *)
(* ranks under a strict total order differ; a place of the balanced matrix *)
(* is the quotient and remainder of such a rank, which determine it.       *)
(* Theorems about Firmware: the rows of VIA, whose starts are found among  *)
(* upper edges as those of the matrix are among centres, and the keymap.   *)
(***************************************************************************)
EXTENDS Firmware, LayoutsProofs

\* What the matrix reads of a key.
IsBoard(keys) ==
    /\ Len(keys) \in Nat
    /\ DOMAIN keys = 1 .. Len(keys)
    /\ \A i \in DOMAIN keys : keys[i].x \in Int /\ keys[i].y \in Int /\ keys[i].h \in Int

\* A board is finite and as long as it has positions.
LEMMA KeysOfBoard ==
    ASSUME NEW keys, IsBoard(keys)
    PROVE  /\ IsFiniteSet(DOMAIN keys) /\ Len(keys) \in Nat
           /\ Cardinality(DOMAIN keys) = Len(keys)
<1>1. PICK n \in Nat : n = Len(keys) /\ DOMAIN keys = 1 .. n
  BY DEF IsBoard
<1>2. IsFiniteSet(1 .. n) /\ Cardinality(1 .. n) = IF 1 > n THEN 0 ELSE n - 1 + 1
  BY FS_Interval
<1> QED
  BY <1>1, <1>2

-----------------------------------------------------------------------------
(* Orders and ranks.                                                       *)

\* Lex compares triples as sorting tuples does.
LEMMA LexOfTriples ==
    ASSUME NEW a \in Int, NEW b \in Int, NEW c \in Int,
           NEW d \in Int, NEW e \in Int, NEW f \in Int
    PROVE  Lex(<<a, b, c>>, <<d, e, f>>)
               <=> a < d \/ (a = d /\ b < e) \/ (a = d /\ b = e /\ c < f)
<1>1. DOMAIN <<a, b, c>> = {1, 2, 3}
  OBVIOUS
<1>2. /\ 1 .. 1 - 1 = {}
      /\ 1 .. 2 - 1 = {1}
      /\ 1 .. 3 - 1 = {1, 2}
  OBVIOUS
<1>3. Lex(<<a, b, c>>, <<d, e, f>>) <=>
         \E n \in {1, 2, 3} :
             /\ <<a, b, c>>[n] < <<d, e, f>>[n]
             /\ \A m \in 1 .. n - 1 : <<a, b, c>>[m] = <<d, e, f>>[m]
  BY <1>1 DEF Lex
<1> QED
  BY <1>2, <1>3

\* A set has fewer members than a finite one that contains it and more.
LEMMA RanksGrow ==
    ASSUME NEW B, IsFiniteSet(B), NEW A \in SUBSET B, NEW i \in B, i \notin A
    PROVE  Cardinality(A) # Cardinality(B)
  BY FS_Subset

-----------------------------------------------------------------------------
(* Row starts.                                                             *)

\* StartsAmong, one start after the other.
LEMMA StartsByStep ==
    ASSUME NEW centers, Cardinality(centers) \in Nat
    PROVE  \E starts : /\ starts[0] = {}
                       /\ \A n \in 1 .. Cardinality(centers) :
                              starts[n] = NextStart(starts[n - 1], centers)
                       /\ StartsAmong(centers) = starts[Cardinality(centers)]
<1> DEFINE last == Cardinality(centers)
           Body(f, n) == IF n = 0 THEN {} ELSE NextStart(f[n - 1], centers)
           Upto(f, m) == f = [n \in 0 .. m |-> Body(f, n)]
           Without == {m \in Nat : ~ \E f : Upto(f, m)}
<1>1. Without = {}
  <2>1. SUFFICES ASSUME Without # {} PROVE FALSE
    OBVIOUS
  <2>2. PICK m \in Without : \A n \in Without : m <= n
    <3>1. Without \in SUBSET Nat
      OBVIOUS
    <3> HIDE DEF Without
    <3> QED
      BY <2>1, <3>1, LeastNatural
  <2>3. m # 0
    <3>1. Upto([n \in 0 .. 0 |-> {}], 0)
      OBVIOUS
    <3> HIDE DEF Upto
    <3> QED
      BY <3>1
  <2>4. m - 1 \in Nat /\ m - 1 \notin Without
    <3>1. m \in Nat
      OBVIOUS
    <3> HIDE DEF Without
    <3> QED
      BY <2>2, <2>3, <3>1
  <2>5. PICK f : Upto(f, m - 1)
    <3> HIDE DEF Upto
    <3> QED
      BY <2>4
  <2> DEFINE g == [n \in 0 .. m |-> IF n = m THEN Body(f, m) ELSE f[n]]
  <2>6. ASSUME NEW n \in 0 .. m
        PROVE  g[n] = Body(g, n)
    <3>1. CASE n = m
      BY <2>3, <3>1
    <3>2. CASE n # m
      <4>1. n \in 0 .. m - 1 /\ n - 1 # m /\ (n # 0 => n - 1 \in 0 .. m)
        BY <2>2, <3>2
      <4>2. g[n] = f[n] /\ f[n] = Body(f, n) /\ (n # 0 => g[n - 1] = f[n - 1])
        BY <2>5, <3>2, <4>1
      <4> QED
        BY <4>2
    <3> QED
      BY <3>1, <3>2
  <2>7. Upto(g, m)
    <3>1. g = [n \in 0 .. m |-> g[n]]
      OBVIOUS
    <3> HIDE DEF g
    <3> QED
      BY <2>6, <3>1
  <2> HIDE DEF Upto, g
  <2> QED
    BY <2>2, <2>7
<1> DEFINE starts == CHOOSE f : Upto(f, last)
<1>2. Upto(starts, last)
  BY <1>1
<1>3. StartsAmong(centers) = starts[last]
  BY DEF StartsAmong
<1> HIDE DEF starts
<1>4. \A n \in 0 .. last : starts[n] = Body(starts, n)
  BY <1>2
<1>5. \A n \in 1 .. last : starts[n] = NextStart(starts[n - 1], centers)
  <2> TAKE n \in 1 .. last
  <2>1. n \in 0 .. last /\ n # 0
    OBVIOUS
  <2> QED
    BY <1>4, <2>1
<1>6. starts[0] = {}
  BY <1>4
<1> QED
  BY <1>3, <1>5, <1>6

\* Starts are further apart than the tolerance, and each centre below one of them is
\* within the tolerance above another.
Spread(starts, centers) ==
    /\ starts \subseteq centers
    /\ \A s, t \in starts : s < t => t - s > Tolerance
    /\ \A t \in starts : \A c \in centers :
           c < t => \E s \in starts : s <= c /\ c - s <= Tolerance

Floor(low, centers) == \A c \in centers : low <= c

\* The start that is added next keeps the starts spread.
LEMMA SpreadGrows ==
    ASSUME NEW centers \in SUBSET Int, NEW starts, Spread(starts, centers),
           NEW low \in Int, Floor(low, centers),
           NEW beyond, beyond = Beyond(starts, centers), beyond # {}
    PROVE  /\ Spread(starts \cup {Min(beyond)}, centers)
           /\ Min(beyond) \in centers \ starts
<1> DEFINE m == Min(beyond)
<1>0. Tolerance \in Nat
  BY DEF Tolerance, UnitPitch
<1>1. beyond \in SUBSET Int /\ \A b \in beyond : low <= b
  BY DEF Beyond, Floor
<1>2. m \in beyond /\ \A b \in beyond : m <= b
  BY <1>1, MinOfBounded
<1> HIDE DEF m
<1>3. m \in centers /\ m \in Int /\ \A s \in starts : m - s > Tolerance
  BY <1>2 DEF Beyond
<1>4. \A s \in starts : s \in Int /\ s < m
  <2> TAKE s \in starts
  <2>1. s \in Int /\ m - s > Tolerance
    BY <1>3 DEF Spread
  <2> QED
    BY <1>0, <1>3, <2>1
<1>5. ASSUME NEW c \in centers, c < m
      PROVE  \E s \in starts : s <= c /\ c - s <= Tolerance
  <2>1. c \notin beyond
    BY <1>2, <1>3, <1>5
  <2>2. PICK s \in starts : ~ (c - s > Tolerance)
    BY <2>1 DEF Beyond
  <2>3. s \in Int /\ c \in Int /\ c - s <= Tolerance
    BY <1>0, <1>4, <2>2
  <2>4. CASE s <= c
    BY <2>3, <2>4
  <2>5. CASE c < s
    BY <2>5 DEF Spread
  <2> QED
    BY <2>3, <2>4, <2>5
<1>6. \A s, t \in starts \cup {m} : s < t => t - s > Tolerance
  BY <1>0, <1>3, <1>4 DEF Spread
<1>7. Spread(starts \cup {m}, centers)
  BY <1>3, <1>5, <1>6 DEF Spread
<1>8. m \notin starts
  BY <1>3, <1>4
<1> QED
  BY <1>3, <1>7, <1>8 DEF m

\* Every centre is within the tolerance above a start, and starts are further apart.
LEMMA StartsCover ==
    ASSUME NEW centers \in SUBSET Int, IsFiniteSet(centers),
           NEW low \in Int, Floor(low, centers)
    PROVE  LET starts == StartsAmong(centers)
           IN  /\ Spread(starts, centers) /\ IsFiniteSet(starts)
               /\ \A c \in centers : \E s \in starts : s <= c /\ c - s <= Tolerance
<1>1. Cardinality(centers) \in Nat
  BY FS_CardinalityType
<1>2. PICK starts : /\ starts[0] = {}
                    /\ \A n \in 1 .. Cardinality(centers) :
                           starts[n] = NextStart(starts[n - 1], centers)
                    /\ StartsAmong(centers) = starts[Cardinality(centers)]
  BY <1>1, StartsByStep
<1> DEFINE Good(n) == /\ Spread(starts[n], centers)
                      /\ Beyond(starts[n], centers) = {} \/ Cardinality(starts[n]) = n
           Bad == {n \in 0 .. Cardinality(centers) : ~ Good(n)}
<1>3. Good(0)
  BY <1>2, FS_EmptySet DEF Spread
<1>4. \A n \in 0 .. Cardinality(centers) : Good(n) => IsFiniteSet(starts[n])
  BY FS_Subset DEF Spread
<1>5. ASSUME NEW n \in 1 .. Cardinality(centers), Good(n - 1)
      PROVE  Good(n)
  <2> DEFINE before == starts[n - 1]
             beyond == Beyond(before, centers)
  <2>1. starts[n] = NextStart(before, centers)
    BY <1>2
  <2>2. CASE beyond = {}
    <3>1. starts[n] = before
      BY <2>1, <2>2 DEF NextStart
    <3> QED
      BY <1>5, <2>2, <3>1
  <2>3. CASE beyond # {}
    <3>1. starts[n] = before \cup {Min(beyond)}
      BY <2>1, <2>3 DEF NextStart
    <3>2. Spread(starts[n], centers) /\ Min(beyond) \notin before
      BY <1>5, <2>3, <3>1, SpreadGrows
    <3>3. n - 1 \in 0 .. Cardinality(centers)
      BY <1>1
    <3>4. IsFiniteSet(before)
      <4> HIDE DEF Good
      <4> QED
        BY <1>4, <1>5, <3>3
    <3>5. Cardinality(before) = n - 1
      BY <1>5, <2>3
    <3>6. PICK m : m = Min(beyond)
      OBVIOUS
    <3> HIDE DEF before, beyond
    <3>7. Cardinality(before \cup {m}) = Cardinality(before) + 1
      BY ONLY <3>2, <3>4, <3>6, FS_AddElement
    <3>8. Cardinality(starts[n]) = n
      BY <3>1, <3>5, <3>6, <3>7
    <3> QED
      BY <3>2, <3>8
  <2> QED
    BY <2>2, <2>3
<1>6. Bad = {}
  <2>1. SUFFICES ASSUME Bad # {} PROVE FALSE
    OBVIOUS
  <2>2. PICK n \in Bad : \A m \in Bad : n <= m
    <3>1. Bad \in SUBSET Nat
      BY <1>1
    <3> HIDE DEF Bad
    <3> QED
      BY <2>1, <3>1, LeastNatural
  <2> HIDE DEF Good
  <2>3. n \in 0 .. Cardinality(centers) /\ ~ Good(n)
    OBVIOUS
  <2>4. n \in 1 .. Cardinality(centers) /\ n - 1 \in 0 .. Cardinality(centers)
    BY <1>1, <1>3, <2>3
  <2>5. n - 1 \notin Bad
    <3> HIDE DEF Bad
    <3> QED
      BY <2>2, <2>4
  <2>6. Good(n - 1)
    BY <2>4, <2>5
  <2> QED
    BY <1>5, <2>3, <2>4, <2>6
<1>7. Good(Cardinality(centers))
  <2> HIDE DEF Good
  <2> QED
    BY <1>1, <1>6
<1> DEFINE all == starts[Cardinality(centers)]
<1>8. Spread(all, centers) /\ IsFiniteSet(all)
  BY <1>1, <1>4, <1>7
<1>9. Beyond(all, centers) = {}
  <2>1. SUFFICES ASSUME Beyond(all, centers) # {} PROVE FALSE
    OBVIOUS
  <2>2. Cardinality(all) = Cardinality(centers)
    BY <1>7, <2>1
  <2> HIDE DEF all
  <2>3. PICK beyond : beyond = Beyond(all, centers) /\ beyond # {}
    BY <2>1
  <2>4. Min(beyond) \in centers \ all
    BY <1>8, <2>3, SpreadGrows
  <2>5. all \subseteq centers
    BY <1>8 DEF Spread
  <2> QED
    BY <2>2, <2>4, <2>5, RanksGrow
<1>10. ASSUME NEW c \in centers
       PROVE  \E s \in all : s <= c /\ c - s <= Tolerance
  <2> HIDE DEF all
  <2>1. PICK s \in all : ~ (c - s > Tolerance)
    BY <1>9, <1>10 DEF Beyond
  <2>2. s \in Int /\ c \in Int /\ Tolerance \in Int
    BY <1>8, <1>10 DEF Spread, Tolerance, UnitPitch
  <2>3. CASE s <= c
    BY <2>1, <2>2, <2>3
  <2>4. CASE c < s
    BY <1>8, <1>10, <2>4 DEF Spread
  <2> QED
    BY <2>2, <2>3, <2>4
<1> QED
  BY <1>2, <1>8, <1>10

\* The centres of the keys of a board that has any.
CentersOf(keys) == {Center(keys[i]) : i \in DOMAIN keys}

\* The centres of a board are finitely many integers with a lower bound.
LEMMA CentersBounded ==
    ASSUME NEW keys, IsBoard(keys)
    PROVE  /\ CentersOf(keys) \in SUBSET Int /\ IsFiniteSet(CentersOf(keys))
           /\ \E low \in Int : Floor(low, CentersOf(keys))
<1>1. \A i \in 1 .. Len(keys) : Center(keys[i]) \in Int
  BY DEF IsBoard, Center
<1>2. IsFiniteSet(CentersOf(keys))
  <2> DEFINE center == [i \in DOMAIN keys |-> Center(keys[i])]
  <2>1. center \in Surjection(DOMAIN keys, CentersOf(keys))
    <3>1. center \in [DOMAIN keys -> CentersOf(keys)]
      BY DEF CentersOf
    <3>2. \A c \in CentersOf(keys) : \E i \in DOMAIN keys : center[i] = c
      BY DEF CentersOf
    <3> HIDE DEF center
    <3> QED
      BY <3>1, <3>2 DEF Surjection
  <2>2. IsFiniteSet(DOMAIN keys)
    BY FS_Interval DEF IsBoard
  <2> HIDE DEF center
  <2> QED
    BY <2>1, <2>2, FS_Surjection
<1> DEFINE n == Len(keys)
           center == [i \in 1 .. n |-> Center(keys[i])]
<1>3. n \in Nat /\ DOMAIN keys = 1 .. n
      /\ \A i \in 1 .. n : center[i] = Center(keys[i]) /\ center[i] \in Int
  BY <1>1 DEF IsBoard
<1> HIDE DEF center, n
<1>4. PICK low \in Int : \A i \in 1 .. n : low <= center[i]
  BY <1>3, BoundedBelow
<1>5. \E bound \in Int : Floor(bound, CentersOf(keys))
  BY <1>3, <1>4 DEF Floor, CentersOf
<1> QED
  BY <1>1, <1>2, <1>5 DEF CentersOf, IsBoard

\* The rows of a board: keys of one have centres within the tolerance of each other,
\* and a lower row has lower centres.
LEMMA RowsOfCenters ==
    ASSUME NEW keys, IsBoard(keys), NEW i \in DOMAIN keys, NEW k \in DOMAIN keys,
           NEW starts, starts = RowStarts(keys)
    PROVE  /\ IsFiniteSet(starts) /\ Cardinality(starts) \in Nat
           /\ ClusterRow(starts, keys[i]) \in 0 .. Cardinality(starts) - 1
           /\ ClusterRow(starts, keys[i]) = ClusterRow(starts, keys[k])
                  => Center(keys[i]) - Center(keys[k]) <= Tolerance
           /\ ClusterRow(starts, keys[i]) < ClusterRow(starts, keys[k])
                  => Center(keys[i]) < Center(keys[k])
<1> DEFINE centers == CentersOf(keys)
           upto(n) == {s \in starts : s <= Center(keys[n])}
<1>1. PICK low \in Int : Floor(low, centers)
  BY CentersBounded
<1>2. centers \in SUBSET Int /\ IsFiniteSet(centers)
  BY CentersBounded
<1>3. starts = StartsAmong(centers)
  BY DEF RowStarts, CentersOf
<1>4. \A n \in DOMAIN keys : Center(keys[n]) \in centers
  BY DEF CentersOf
<1> HIDE DEF centers
<1>5. /\ Spread(starts, centers) /\ IsFiniteSet(starts)
      /\ \A c \in centers : \E s \in starts : s <= c /\ c - s <= Tolerance
  BY <1>1, <1>2, <1>3, StartsCover
<1>6. starts \in SUBSET Int /\ Tolerance \in Nat
  <2>1. starts \subseteq centers
    BY <1>5 DEF Spread
  <2>2. Tolerance \in Nat
    BY DEF Tolerance, UnitPitch
  <2> QED
    BY <1>2, <2>1, <2>2
<1>7. \A n \in DOMAIN keys :
          /\ IsFiniteSet(upto(n)) /\ Cardinality(upto(n)) \in Nat \ {0}
          /\ Cardinality(upto(n)) <= Cardinality(starts)
          /\ ClusterRow(starts, keys[n]) = Cardinality(upto(n)) - 1
  <2> TAKE n \in DOMAIN keys
  <2>1. upto(n) # {} /\ upto(n) \in SUBSET starts
    BY <1>4, <1>5
  <2>2. ClusterRow(starts, keys[n]) = Cardinality(upto(n)) - 1
    BY DEF ClusterRow
  <2> HIDE DEF upto
  <2> QED
    BY <1>5, <2>1, <2>2, FS_Subset, FS_EmptySet, FS_CardinalityType
<1>8. \A m, n \in DOMAIN keys : Center(keys[m]) <= Center(keys[n]) => upto(m) \in SUBSET upto(n)
  <2> TAKE m, n \in DOMAIN keys
  <2>1. PICK a \in Int, b \in Int : a = Center(keys[m]) /\ b = Center(keys[n])
    BY <1>2, <1>4
  <2>2. a <= b => \A s \in starts : s <= a => s <= b
    BY <1>6
  <2> QED
    BY <2>1, <2>2
<1>9. Center(keys[i]) \in Int /\ Center(keys[k]) \in Int
  BY <1>2, <1>4
<1>10. ASSUME Cardinality(upto(i)) = Cardinality(upto(k)), Center(keys[k]) <= Center(keys[i])
       PROVE  Center(keys[i]) - Center(keys[k]) <= Tolerance
  <2>1. upto(k) = upto(i)
    <3>1. upto(k) \in SUBSET upto(i)
      BY <1>8, <1>10
    <3> HIDE DEF upto
    <3> QED
      BY <1>7, <1>10, <3>1, FS_Subset
  <2>2. PICK s \in starts : s <= Center(keys[i]) /\ Center(keys[i]) - s <= Tolerance
    BY <1>4, <1>5
  <2>3. s <= Center(keys[k])
    BY <2>1, <2>2
  <2> QED
    BY <1>6, <1>9, <2>2, <2>3
<1>11. ASSUME Cardinality(upto(i)) < Cardinality(upto(k)), Center(keys[k]) <= Center(keys[i])
       PROVE  FALSE
  <2>1. upto(k) \in SUBSET upto(i)
    BY <1>8, <1>11
  <2> HIDE DEF upto
  <2> QED
    BY <1>7, <1>11, <2>1, FS_Subset
<1>12. Cardinality(starts) \in Nat
  BY <1>5, FS_CardinalityType
<1> HIDE DEF upto
<1>13. ClusterRow(starts, keys[i]) \in 0 .. Cardinality(starts) - 1
  BY <1>7, <1>12
<1>14. ClusterRow(starts, keys[i]) = ClusterRow(starts, keys[k])
           => Center(keys[i]) - Center(keys[k]) <= Tolerance
  BY <1>6, <1>7, <1>9, <1>10
<1>15. ClusterRow(starts, keys[i]) < ClusterRow(starts, keys[k])
           => Center(keys[i]) < Center(keys[k])
  BY <1>7, <1>9, <1>11
<1> QED
  BY <1>5, <1>12, <1>13, <1>14, <1>15

-----------------------------------------------------------------------------
(* Physical rows.                                                          *)

\* Whether the key at n sorts before that at m.
LeftOf(keys, n, m) ==
    \/ keys[n].x < keys[m].x
    \/ keys[n].x = keys[m].x /\ Center(keys[n]) < Center(keys[m])
    \/ keys[n].x = keys[m].x /\ Center(keys[n]) = Center(keys[m]) /\ n < m

\* The sort key of the columns orders keys by LeftOf.
LEMMA ByColumn ==
    ASSUME NEW keys, IsBoard(keys), NEW n \in DOMAIN keys, NEW m \in DOMAIN keys
    PROVE  Lex(ColumnKey(keys, n), ColumnKey(keys, m)) <=> LeftOf(keys, n, m)
<1>1. /\ keys[n].x \in Int /\ Center(keys[n]) \in Int /\ n \in Int
      /\ keys[m].x \in Int /\ Center(keys[m]) \in Int /\ m \in Int
  BY DEF IsBoard, Center
<1>2. PICK a \in Int, b \in Int, d \in Int, e \in Int :
          a = keys[n].x /\ b = Center(keys[n]) /\ d = keys[m].x /\ e = Center(keys[m])
  BY <1>1
<1>3. Lex(<<a, b, n>>, <<d, e, m>>) <=> a < d \/ (a = d /\ b < e) \/ (a = d /\ b = e /\ n < m)
  BY ONLY <1>1, LexOfTriples
<1> QED
  BY <1>2, <1>3 DEF ColumnKey, LeftOf

\* No two keys of a board have one place, whatever rows the clustering gives them.
LEMMA PhysicalPlaces ==
    ASSUME NEW keys, IsBoard(keys),
           NEW i \in DOMAIN keys, NEW k \in DOMAIN keys, i # k
    PROVE  PhysicalRows(keys)[i] # PhysicalRows(keys)[k]
<1> DEFINE row(n) == ClusterRow(RowStarts(keys), keys[n])
           first(n, m) == row(n) = row(m) /\ Lex(ColumnKey(keys, n), ColumnKey(keys, m))
           before(m) == {n \in DOMAIN keys : first(n, m)}
           col(n) == Cardinality(before(n))
<1>1. \A n \in DOMAIN keys : PhysicalRows(keys)[n] = <<row(n), col(n)>>
  BY DEF PhysicalRows
<1>2. IsFiniteSet(DOMAIN keys)
  BY FS_Interval DEF IsBoard
<1>3. \A n \in DOMAIN keys :
          n \in Int /\ keys[n].x \in Int /\ Center(keys[n]) \in Int
  BY DEF IsBoard, Center
<1>4. \A n, m \in DOMAIN keys : Lex(ColumnKey(keys, n), ColumnKey(keys, m)) <=> LeftOf(keys, n, m)
  BY ByColumn
<1>5. ASSUME NEW a \in DOMAIN keys, NEW b \in DOMAIN keys, first(a, b)
      PROVE  col(a) # col(b)
  <2>1. before(a) \subseteq before(b) /\ a \in before(b) /\ a \notin before(a)
    <3> HIDE DEF row
    <3> QED
      BY <1>3, <1>4, <1>5 DEF LeftOf
  <2>2. IsFiniteSet(before(b))
    BY <1>2, FS_Subset
  <2> QED
    BY <2>1, <2>2, RanksGrow
<1>6. ASSUME row(i) = row(k)
      PROVE  col(i) # col(k)
  <2> HIDE DEF row
  <2>1. first(i, k) \/ first(k, i)
    BY <1>3, <1>4, <1>6 DEF LeftOf
  <2> QED
    BY <1>5, <2>1
<1> HIDE DEF row, col
<1>7. CASE row(i) = row(k)
  BY <1>1, <1>6, <1>7
<1>8. CASE row(i) # row(k)
  BY <1>1, <1>8
<1> QED
  BY <1>7, <1>8

\* Where the keys of a board are put by rows: inside the matrix, rows downwards and
\* columns to the right.
LEMMA PhysicalPlacesFollow ==
    ASSUME NEW keys, IsBoard(keys), NEW i \in DOMAIN keys, NEW k \in DOMAIN keys,
           NEW p, p = PhysicalRows(keys)[i], NEW q, q = PhysicalRows(keys)[k]
    PROVE  /\ p \in (0 .. Cardinality(RowStarts(keys)) - 1) \X (0 .. Len(keys))
           /\ Cardinality(RowStarts(keys)) \in Nat
           /\ p[1] = q[1] => Center(keys[i]) - Center(keys[k]) <= Tolerance
           /\ p[1] = q[1] /\ p[2] < q[2] => keys[i].x <= keys[k].x
           /\ p[1] < q[1] => Center(keys[i]) < Center(keys[k])
<1> DEFINE starts == RowStarts(keys)
           row(n) == ClusterRow(starts, keys[n])
           before(m) == {n \in DOMAIN keys :
                            row(n) = row(m) /\ Lex(ColumnKey(keys, n), ColumnKey(keys, m))}
           col(n) == Cardinality(before(n))
<1>1. \A n \in DOMAIN keys : PhysicalRows(keys)[n] = <<row(n), col(n)>>
  BY DEF PhysicalRows
<1>2. /\ Cardinality(starts) \in Nat
      /\ row(i) \in 0 .. Cardinality(starts) - 1
      /\ row(i) = row(k) => Center(keys[i]) - Center(keys[k]) <= Tolerance
      /\ row(i) < row(k) => Center(keys[i]) < Center(keys[k])
  BY RowsOfCenters
<1> HIDE DEF starts, row
<1>3. IsFiniteSet(DOMAIN keys) /\ Cardinality(DOMAIN keys) = Len(keys) /\ Len(keys) \in Nat
  BY KeysOfBoard
<1>4. \A n \in DOMAIN keys : IsFiniteSet(before(n)) /\ col(n) \in 0 .. Len(keys)
  <2> TAKE n \in DOMAIN keys
  <2>1. before(n) \in SUBSET (DOMAIN keys)
    OBVIOUS
  <2> HIDE DEF before
  <2> QED
    BY <1>3, <2>1, FS_Subset, FS_CardinalityType
<1>5. ASSUME row(i) = row(k), ~ (keys[i].x <= keys[k].x)
      PROVE  ~ (col(i) < col(k))
  <2>1. before(k) \in SUBSET before(i)
    <3> SUFFICES ASSUME NEW n \in before(k) PROVE n \in before(i)
      OBVIOUS
    <3>1. n \in DOMAIN keys /\ row(n) = row(i) /\ LeftOf(keys, n, k)
      BY <1>5, ByColumn
    <3>2. keys[i].x \in Int /\ keys[k].x \in Int /\ keys[n].x \in Int
      BY <3>1 DEF IsBoard
    <3>3. LeftOf(keys, n, i)
      BY <1>5, <3>1, <3>2 DEF LeftOf
    <3> QED
      BY <3>1, <3>3, ByColumn
  <2> HIDE DEF before
  <2>2. col(k) <= col(i)
    BY <1>4, <2>1, FS_Subset
  <2> QED
    BY <1>4, <2>2
<1> HIDE DEF col
<1>6. p = <<row(i), col(i)>> /\ q = <<row(k), col(k)>>
  BY <1>1
<1>7. p \in (0 .. Cardinality(starts) - 1) \X (0 .. Len(keys))
  <2>1. PICK r, c : r = row(i) /\ c = col(i)
    OBVIOUS
  <2>2. r \in 0 .. Cardinality(starts) - 1 /\ c \in 0 .. Len(keys) /\ p = <<r, c>>
    BY <1>2, <1>4, <1>6, <2>1
  <2> QED
    BY ONLY <2>2
<1>8. p[1] = row(i) /\ p[2] = col(i) /\ q[1] = row(k) /\ q[2] = col(k)
  BY <1>6
<1> QED
  BY <1>2, <1>5, <1>7, <1>8 DEF starts

-----------------------------------------------------------------------------
(* Balanced rows.                                                          *)

\* The number of columns that hold n keys in so many rows.
LEMMA ColumnsNeeded ==
    ASSUME NEW n \in Nat \ {0}, NEW rows \in Nat \ {0}
    PROVE  CeilDiv(n, rows) \in Nat \ {0}
<1> DEFINE q == (n + rows - 1) \div rows
<1>1. q \in Int /\ n + rows - 1 < rows * q + rows
  OBVIOUS
<1>2. ASSUME q <= 0
      PROVE  FALSE
  <2>1. rows * q <= 0
    BY <1>1, <1>2
  <2> QED
    BY <1>1, <2>1
<1> QED
  BY <1>1, <1>2 DEF CeilDiv

\* One number of rows is the cheapest, then the most balanced, then the least.
LEMMA BestRowsExist ==
    ASSUME NEW n \in Nat \ {0}
    PROVE  BestRows(n) \in 1 .. n /\ \A r \in 1 .. n : Cost(n, BestRows(n)) <= Cost(n, r)
<1>1. \A r \in 1 .. n : Cost(n, r) \in Nat /\ Imbalance(n, r) \in Nat
  <2> TAKE r \in 1 .. n
  <2>1. CeilDiv(n, r) \in Nat /\ r \in Nat
    BY ColumnsNeeded
  <2> QED
    BY <2>1 DEF Cost, Imbalance
<1> DEFINE Costs == {Cost(n, r) : r \in 1 .. n}
<1>2. PICK c \in Costs : \A d \in Costs : c <= d
  <2>1. Costs \in SUBSET Nat
    BY <1>1
  <2>2. Cost(n, 1) \in Costs
    OBVIOUS
  <2> HIDE DEF Costs
  <2> QED
    BY <2>1, <2>2, LeastNatural
<1> DEFINE Cheap == {r \in 1 .. n : Cost(n, r) = c}
       Imbalances == {Imbalance(n, r) : r \in Cheap}
<1>3. PICK u \in Imbalances : \A v \in Imbalances : u <= v
  <2>1. Imbalances \in SUBSET Nat
    BY <1>1
  <2>2. PICK r \in 1 .. n : Cost(n, r) = c
    BY <1>2
  <2>3. Imbalance(n, r) \in Imbalances
    BY <2>2
  <2> HIDE DEF Imbalances
  <2> QED
    BY <2>1, <2>3, LeastNatural
<1> DEFINE Even == {r \in Cheap : Imbalance(n, r) = u}
<1>4. PICK best \in Even : \A s \in Even : best <= s
  <2>1. Even \in SUBSET Nat
    OBVIOUS
  <2>2. PICK r \in Even : TRUE
    BY <1>3
  <2> HIDE DEF Even
  <2> QED
    BY <2>1, <2>2, LeastNatural
<1>5. \A s \in (1 .. n) \ {best} :
          Lex(<<Cost(n, best), Imbalance(n, best), best>>, <<Cost(n, s), Imbalance(n, s), s>>)
  <2> TAKE s \in (1 .. n) \ {best}
  <2>1. \/ Cost(n, best) < Cost(n, s)
        \/ Cost(n, best) = Cost(n, s) /\ Imbalance(n, best) < Imbalance(n, s)
        \/ Cost(n, best) = Cost(n, s) /\ Imbalance(n, best) = Imbalance(n, s) /\ best < s
    BY <1>1, <1>2, <1>3, <1>4
  <2> QED
    BY <1>1, <1>4, <2>1, LexOfTriples
<1>6. /\ BestRows(n) \in 1 .. n
      /\ \A s \in (1 .. n) \ {BestRows(n)} :
             Lex(<<Cost(n, BestRows(n)), Imbalance(n, BestRows(n)), BestRows(n)>>,
                 <<Cost(n, s), Imbalance(n, s), s>>)
  BY <1>4, <1>5 DEF BestRows
<1>7. \A r \in 1 .. n : Cost(n, BestRows(n)) <= Cost(n, r)
  <2> TAKE r \in 1 .. n
  <2>1. PICK b : b = BestRows(n)
    OBVIOUS
  <2>2. CASE r = b
    BY <1>1, <2>1, <2>2
  <2>3. CASE r # b
    <3>1. Lex(<<Cost(n, b), Imbalance(n, b), b>>, <<Cost(n, r), Imbalance(n, r), r>>)
      BY <1>6, <2>1, <2>3
    <3>2. /\ Cost(n, b) \in Int /\ Imbalance(n, b) \in Int /\ b \in Int
          /\ Cost(n, r) \in Int /\ Imbalance(n, r) \in Int /\ r \in Int
      BY <1>1, <1>6, <2>1
    <3>3. Cost(n, b) < Cost(n, r) \/ Cost(n, b) = Cost(n, r)
      BY ONLY <3>1, <3>2, LexOfTriples
    <3> QED
      BY <2>1, <3>2, <3>3
  <2> QED
    BY <2>2, <2>3
<1> QED
  BY <1>6, <1>7

\* Quotient and remainder determine a number.
LEMMA QuotientAndRemainder ==
    ASSUME NEW a \in Nat, NEW b \in Nat, NEW cols \in Nat \ {0},
           a \div cols = b \div cols, a % cols = b % cols
    PROVE  a = b
<1>1. a = cols * (a \div cols) + (a % cols) /\ b = cols * (b \div cols) + (b % cols)
  OBVIOUS
<1> QED
  BY <1>1

\* Whether the key at n is read before that at m.
ReadBefore(keys, n, m) ==
    \/ keys[n].y < keys[m].y
    \/ keys[n].y = keys[m].y /\ keys[n].x < keys[m].x
    \/ keys[n].y = keys[m].y /\ keys[n].x = keys[m].x /\ n < m

\* The sort key of the balanced matrix orders keys by ReadBefore.
LEMMA ByReading ==
    ASSUME NEW keys, IsBoard(keys), NEW n \in DOMAIN keys, NEW m \in DOMAIN keys
    PROVE  Lex(<<keys[n].y, keys[n].x, n>>, <<keys[m].y, keys[m].x, m>>) <=> ReadBefore(keys, n, m)
<1>1. /\ keys[n].x \in Int /\ keys[n].y \in Int /\ n \in Int
      /\ keys[m].x \in Int /\ keys[m].y \in Int /\ m \in Int
  BY DEF IsBoard
<1>2. PICK a \in Int, b \in Int, d \in Int, e \in Int :
          a = keys[n].y /\ b = keys[n].x /\ d = keys[m].y /\ e = keys[m].x
  BY <1>1
<1>3. Lex(<<a, b, n>>, <<d, e, m>>) <=> a < d \/ (a = d /\ b < e) \/ (a = d /\ b = e /\ n < m)
  BY ONLY <1>1, LexOfTriples
<1> QED
  BY <1>2, <1>3 DEF ReadBefore

\* No two keys share a place of the balanced matrix.
LEMMA BalancedPlaces ==
    ASSUME NEW keys, IsBoard(keys),
           NEW i \in DOMAIN keys, NEW k \in DOMAIN keys, i # k
    PROVE  BalancedRows(keys)[i] # BalancedRows(keys)[k]
<1> DEFINE cols == CeilDiv(Len(keys), BestRows(Len(keys)))
           sortKey(n) == <<keys[n].y, keys[n].x, n>>
           before(m) == {n \in DOMAIN keys : Lex(sortKey(n), sortKey(m))}
           index(n) == Cardinality(before(n))
<1>1. \A n \in DOMAIN keys : BalancedRows(keys)[n] = <<index(n) \div cols, index(n) % cols>>
  BY DEF BalancedRows
<1>2. IsFiniteSet(DOMAIN keys) /\ cols \in Nat \ {0}
  <2>1. Len(keys) \in Nat \ {0}
    BY DEF IsBoard
  <2>2. BestRows(Len(keys)) \in Nat \ {0}
    BY <2>1, BestRowsExist
  <2>3. cols \in Nat \ {0}
    BY <2>1, <2>2, ColumnsNeeded
  <2>4. IsFiniteSet(DOMAIN keys)
    BY FS_Interval DEF IsBoard
  <2> QED
    BY <2>3, <2>4
<1>3. \A n \in DOMAIN keys : n \in Int /\ keys[n].x \in Int /\ keys[n].y \in Int
  BY DEF IsBoard
<1>4. \A n, m \in DOMAIN keys : Lex(sortKey(n), sortKey(m)) <=> ReadBefore(keys, n, m)
  BY ByReading
<1>5. \A n \in DOMAIN keys : IsFiniteSet(before(n)) /\ index(n) \in Nat
  BY <1>2, FS_Subset, FS_CardinalityType
<1> HIDE DEF cols, sortKey
<1>6. ASSUME NEW a \in DOMAIN keys, NEW b \in DOMAIN keys, Lex(sortKey(a), sortKey(b))
      PROVE  index(a) # index(b)
  <2>1. before(a) \subseteq before(b) /\ a \in before(b) /\ a \notin before(a)
    BY <1>3, <1>4, <1>6 DEF ReadBefore
  <2> QED
    BY <1>5, <2>1, RanksGrow
<1>7. index(i) # index(k)
  <2>1. Lex(sortKey(i), sortKey(k)) \/ Lex(sortKey(k), sortKey(i))
    BY <1>3, <1>4 DEF ReadBefore
  <2> QED
    BY <1>6, <2>1
<1> HIDE DEF index
<1>8. ASSUME index(i) \div cols = index(k) \div cols, index(i) % cols = index(k) % cols
      PROVE  FALSE
  BY <1>2, <1>5, <1>7, <1>8, QuotientAndRemainder
<1> QED
  BY <1>1, <1>8

\* A number below a product has a quotient below the factor.
LEMMA QuotientBelow ==
    ASSUME NEW a \in Nat, NEW rows \in Nat, NEW cols \in Nat \ {0}, a < rows * cols
    PROVE  a \div cols \in 0 .. rows - 1 /\ a % cols \in 0 .. cols - 1
<1> DEFINE q == a \div cols
<1>1. q \in Nat /\ a = cols * q + (a % cols) /\ a % cols \in 0 .. cols - 1
  OBVIOUS
<1> HIDE DEF q
<1>2. ASSUME q >= rows
      PROVE  FALSE
  <2>1. PICK more \in Nat : q = rows + more
    <3>1. q - rows \in Nat /\ q = rows + (q - rows)
      BY <1>1, <1>2
    <3> QED
      BY <3>1
  <2>2. cols * q = rows * cols + cols * more /\ cols * more >= 0
    BY <2>1
  <2> QED
    BY <1>1, <2>2
<1>3. q \in 0 .. rows - 1
  BY <1>1, <1>2
<1> QED
  BY <1>1, <1>3 DEF q

\* Quotients and remainders are ordered as the numbers are.
LEMMA QuotientsOrdered ==
    ASSUME NEW a \in Nat, NEW b \in Nat, NEW cols \in Nat \ {0},
           \/ a \div cols < b \div cols
           \/ a \div cols = b \div cols /\ a % cols < b % cols
    PROVE  a < b
<1> DEFINE q == a \div cols
           r == b \div cols
<1>1. /\ q \in Nat /\ a = cols * q + (a % cols) /\ a % cols \in 0 .. cols - 1
      /\ r \in Nat /\ b = cols * r + (b % cols) /\ b % cols \in 0 .. cols - 1
  OBVIOUS
<1>2. q < r \/ (q = r /\ a % cols < b % cols)
  OBVIOUS
<1> HIDE DEF q, r
<1>3. CASE q = r
  BY <1>1, <1>2, <1>3
<1>4. CASE q < r
  <2>1. PICK more \in Nat : r = q + 1 + more
    <3>1. r - q - 1 \in Nat /\ r = q + 1 + (r - q - 1)
      BY <1>1, <1>4
    <3> QED
      BY <3>1
  <2>2. cols * r = cols * q + cols + cols * more /\ cols * more >= 0
    BY <1>1, <2>1
  <2> QED
    BY <1>1, <2>2
<1> QED
  BY <1>2, <1>3, <1>4

\* So many columns hold n keys.
LEMMA ColumnsSuffice ==
    ASSUME NEW n \in Nat \ {0}, NEW rows \in Nat \ {0}
    PROVE  n <= rows * CeilDiv(n, rows)
<1>1. n + rows - 1 < rows * ((n + rows - 1) \div rows) + rows
  OBVIOUS
<1>2. PICK q : q = (n + rows - 1) \div rows
  OBVIOUS
<1>3. rows * q \in Int
  BY <1>2
<1> QED
  BY <1>1, <1>2, <1>3 DEF CeilDiv

\* Lex compares pairs as sorting tuples does.
LEMMA LexOfPairs ==
    ASSUME NEW a \in Int, NEW b \in Int, NEW c \in Int, NEW d \in Int
    PROVE  Lex(<<a, b>>, <<c, d>>) <=> a < c \/ (a = c /\ b < d)
<1>1. DOMAIN <<a, b>> = {1, 2} /\ 1 .. 1 - 1 = {} /\ 1 .. 2 - 1 = {1}
  OBVIOUS
<1>2. Lex(<<a, b>>, <<c, d>>) <=>
         \E n \in {1, 2} : /\ <<a, b>>[n] < <<c, d>>[n]
                           /\ \A m \in 1 .. n - 1 : <<a, b>>[m] = <<c, d>>[m]
  BY <1>1 DEF Lex
<1> QED
  BY <1>1, <1>2

\* Where the keys of a board are put by the balanced strategy: inside the matrix, and
\* in reading order.
LEMMA BalancedPlacesFollow ==
    ASSUME NEW keys, IsBoard(keys), NEW i \in DOMAIN keys, NEW k \in DOMAIN keys,
           NEW rows, rows = BestRows(Len(keys)), NEW cols, cols = CeilDiv(Len(keys), rows),
           NEW p, p = BalancedRows(keys)[i], NEW q, q = BalancedRows(keys)[k]
    PROVE  /\ rows \in Nat /\ cols \in Nat
           /\ p \in (0 .. rows - 1) \X (0 .. cols - 1)
           /\ Lex(p, q) => ~ Lex(<<keys[k].y, keys[k].x>>, <<keys[i].y, keys[i].x>>)
<1> DEFINE before(m) == {n \in DOMAIN keys :
                            Lex(<<keys[n].y, keys[n].x, n>>, <<keys[m].y, keys[m].x, m>>)}
           index(n) == Cardinality(before(n))
<1>1. \A n \in DOMAIN keys : BalancedRows(keys)[n] = <<index(n) \div cols, index(n) % cols>>
  BY DEF BalancedRows
<1>2. /\ Len(keys) \in Nat \ {0} /\ rows \in Nat \ {0} /\ cols \in Nat \ {0}
      /\ Len(keys) <= rows * cols
  <2>1. Len(keys) \in Nat \ {0}
    BY DEF IsBoard
  <2>2. rows \in Nat \ {0}
    BY <2>1, BestRowsExist
  <2> QED
    BY <2>1, <2>2, ColumnsNeeded, ColumnsSuffice
<1>3. IsFiniteSet(DOMAIN keys) /\ Cardinality(DOMAIN keys) = Len(keys)
  BY KeysOfBoard
<1>4. \A n \in DOMAIN keys : IsFiniteSet(before(n)) /\ index(n) \in 0 .. Len(keys) - 1
  <2> TAKE n \in DOMAIN keys
  <2>1. before(n) \in SUBSET (DOMAIN keys) /\ n \notin before(n)
    <3>1. ~ ReadBefore(keys, n, n)
      <4>1. keys[n].x \in Int /\ keys[n].y \in Int /\ n \in Int
        BY DEF IsBoard
      <4> QED
        BY <4>1 DEF ReadBefore
    <3> QED
      BY <3>1, ByReading
  <2> HIDE DEF before
  <2>2. /\ IsFiniteSet(before(n)) /\ index(n) \in Nat
        /\ index(n) <= Len(keys) /\ index(n) # Len(keys)
    BY <1>3, <2>1, FS_Subset, FS_CardinalityType
  <2> QED
    BY <1>2, <2>2
<1>5. \A a, b \in DOMAIN keys : ReadBefore(keys, a, b) => index(a) <= index(b)
  <2> SUFFICES ASSUME NEW a \in DOMAIN keys, NEW b \in DOMAIN keys, ReadBefore(keys, a, b)
               PROVE  index(a) <= index(b)
    OBVIOUS
  <2>1. before(a) \in SUBSET before(b)
    <3> SUFFICES ASSUME NEW n \in before(a) PROVE n \in before(b)
      OBVIOUS
    <3>1. n \in DOMAIN keys /\ ReadBefore(keys, n, a)
      BY ByReading
    <3>2. /\ keys[n].x \in Int /\ keys[n].y \in Int /\ n \in Int
          /\ keys[a].x \in Int /\ keys[a].y \in Int /\ a \in Int
          /\ keys[b].x \in Int /\ keys[b].y \in Int /\ b \in Int
      BY <3>1 DEF IsBoard
    <3>3. PICK xn \in Int, yn \in Int, xa \in Int, ya \in Int, xb \in Int, yb \in Int :
              /\ xn = keys[n].x /\ yn = keys[n].y /\ xa = keys[a].x /\ ya = keys[a].y
              /\ xb = keys[b].x /\ yb = keys[b].y
      BY <3>2
    <3>4. yn < ya \/ (yn = ya /\ xn < xa) \/ (yn = ya /\ xn = xa /\ n < a)
      BY <3>1, <3>3 DEF ReadBefore
    <3>5. ya < yb \/ (ya = yb /\ xa < xb) \/ (ya = yb /\ xa = xb /\ a < b)
      BY <3>3 DEF ReadBefore
    <3>6. yn < yb \/ (yn = yb /\ xn < xb) \/ (yn = yb /\ xn = xb /\ n < b)
      BY ONLY <3>2, <3>4, <3>5, xn \in Int, yn \in Int, xa \in Int, ya \in Int,
              xb \in Int, yb \in Int
    <3>7. ReadBefore(keys, n, b)
      BY <3>3, <3>6 DEF ReadBefore
    <3> QED
      BY <3>1, <3>7, ByReading
  <2> HIDE DEF before
  <2> QED
    BY <1>4, <2>1, FS_Subset
<1> HIDE DEF index
<1>6. PICK a, b : a = index(i) /\ b = index(k) /\ a \in 0 .. Len(keys) - 1 /\ b \in 0 .. Len(keys) - 1
  BY <1>4
<1>7. p = <<a \div cols, a % cols>> /\ q = <<b \div cols, b % cols>>
  BY <1>1, <1>6
<1>8. /\ a \in Nat /\ b \in Nat
      /\ a \div cols \in 0 .. rows - 1 /\ a % cols \in 0 .. cols - 1
      /\ b \div cols \in 0 .. rows - 1 /\ b % cols \in 0 .. cols - 1
  <2>1. a \in Nat /\ b \in Nat /\ a < rows * cols /\ b < rows * cols
    BY <1>2, <1>6
  <2> QED
    BY <1>2, <2>1, QuotientBelow
<1>9. ASSUME Lex(p, q), Lex(<<keys[k].y, keys[k].x>>, <<keys[i].y, keys[i].x>>)
      PROVE  FALSE
  <2>1. a < b
    <3>1. PICK c \in Int, d \in Int, e \in Int, f \in Int :
              c = a \div cols /\ d = a % cols /\ e = b \div cols /\ f = b % cols
      BY <1>8
    <3>2. c < e \/ (c = e /\ d < f)
      BY <1>7, <1>9, <3>1, LexOfPairs
    <3> QED
      BY <1>2, <1>8, <3>1, <3>2, QuotientsOrdered
  <2>2. ReadBefore(keys, k, i)
    <3>1. PICK c \in Int, d \in Int, e \in Int, f \in Int :
              c = keys[k].y /\ d = keys[k].x /\ e = keys[i].y /\ f = keys[i].x
      BY DEF IsBoard
    <3>2. c < e \/ (c = e /\ d < f)
      BY <1>9, <3>1, LexOfPairs
    <3> QED
      BY <3>1, <3>2 DEF ReadBefore
  <2>3. b <= a
    BY <1>5, <1>6, <2>2
  <2> QED
    BY <1>8, <2>1, <2>3
<1> QED
  BY <1>2, <1>7, <1>8, <1>9

-----------------------------------------------------------------------------
(* The matrix of a board.                                                  *)

\* The size of a matrix, and the place of a key in it.
LEMMA PlacesInside ==
    ASSUME NEW keys, IsBoard(keys), NEW family, NEW i \in DOMAIN keys,
           NEW places, places = PlacesOf(family, keys),
           NEW rows, rows = Rows(family, keys), NEW cols, cols = Cols(family, keys, places)
    PROVE  /\ rows \in Nat /\ cols \in Nat
           /\ places[i] \in (0 .. rows - 1) \X (0 .. cols - 1)
<1>1. keys # <<>>
  <2>1. DOMAIN <<>> = {}
    OBVIOUS
  <2> QED
    BY <2>1
<1>2. CASE Strategy(family) = "balanced"
  <2>1. places = BalancedRows(keys)
    BY <1>2 DEF PlacesOf
  <2>2. rows = BestRows(Len(keys)) /\ cols = CeilDiv(Len(keys), rows)
    BY <1>1, <1>2 DEF Rows, Cols
  <2>3. PICK p : p = places[i] /\ p = BalancedRows(keys)[i]
    BY <2>1
  <2>4. IsBoard(keys) /\ i \in DOMAIN keys
    OBVIOUS
  <2>5. rows \in Nat /\ cols \in Nat /\ p \in (0 .. rows - 1) \X (0 .. cols - 1)
    BY ONLY <2>2, <2>3, <2>4, BalancedPlacesFollow
  <2> QED
    BY <2>3, <2>5
<1>3. CASE Strategy(family) # "balanced"
  <2> DEFINE columns == {places[n][2] : n \in DOMAIN places}
  <2>1. places = PhysicalRows(keys) /\ DOMAIN places = DOMAIN keys
    BY <1>3 DEF PlacesOf, PhysicalRows
  <2>2. rows = Cardinality(RowStarts(keys)) /\ cols = Max(columns) + 1
    BY <1>1, <1>3, <2>1 DEF Rows, Cols
  <2>3. \A n \in DOMAIN keys : places[n] \in (0 .. rows - 1) \X (0 .. Len(keys)) /\ rows \in Nat
    BY <2>1, <2>2, PhysicalPlacesFollow
  <2>4. Max(columns) \in Nat /\ \A n \in DOMAIN keys : places[n][2] \in 0 .. Max(columns)
    <3>1. columns \in SUBSET Int /\ columns # {} /\ Len(keys) \in Int
      BY <2>1, <2>3 DEF IsBoard
    <3>2. \A c \in columns : c <= Len(keys) /\ c \in Nat
      BY <2>1, <2>3 DEF IsBoard
    <3>3. \A n \in DOMAIN keys : places[n][2] \in columns
      BY <2>1
    <3> HIDE DEF columns
    <3>4. Max(columns) \in columns /\ \A c \in columns : c <= Max(columns)
      BY <3>1, <3>2, MaxOfBounded
    <3> QED
      BY <3>2, <3>3, <3>4
  <2> HIDE DEF columns
  <2>5. places[i] = <<places[i][1], places[i][2]>> /\ places[i][1] \in 0 .. rows - 1
    BY <2>3
  <2>6. cols \in Nat /\ places[i][2] \in 0 .. cols - 1
    BY <2>2, <2>4
  <2> QED
    BY <2>3, <2>5, <2>6
<1> QED
  BY <1>2, <1>3

\* Of some places of a matrix one comes last.
LEMMA LastPlace ==
    ASSUME NEW rows \in Nat, NEW cols \in Nat,
           NEW T \in SUBSET ((0 .. rows - 1) \X (0 .. cols - 1)), T # {}
    PROVE  (CHOOSE p \in T : \A q \in T \ {p} : Lex(q, p)) \in T
<1>1. \A p \in T : p = <<p[1], p[2]>> /\ p[1] \in 0 .. rows - 1 /\ p[2] \in 0 .. cols - 1
  OBVIOUS
<1> DEFINE R == {p[1] : p \in T}
           r == Max(R)
           C == {p[2] : p \in {p \in T : p[1] = r}}
           c == Max(C)
<1>2. r \in R /\ \A n \in R : n <= r
  <2>1. rows \in Int /\ R \in SUBSET Int /\ R # {} /\ \A n \in R : n <= rows
    BY <1>1
  <2> HIDE DEF R
  <2> QED
    BY <2>1, MaxOfBounded
<1> HIDE DEF r
<1>3. c \in C /\ \A n \in C : n <= c
  <2>1. cols \in Int /\ C \in SUBSET Int /\ C # {} /\ \A n \in C : n <= cols
    BY <1>1, <1>2
  <2> HIDE DEF C
  <2> QED
    BY <2>1, MaxOfBounded
<1> HIDE DEF c
<1>4. PICK p \in T : p[1] = r /\ p[2] = c
  BY <1>3
<1>5. \A q \in T \ {p} : Lex(q, p)
  <2> TAKE q \in T \ {p}
  <2>1. q[1] < p[1] \/ (q[1] = p[1] /\ q[2] < p[2])
    <3>1. q[1] <= r
      BY <1>2
    <3>2. q[1] = r => q[2] <= c
      BY <1>3
    <3>3. q[1] # p[1] \/ q[2] # p[2]
      BY <1>1
    <3> QED
      BY <1>1, <1>4, <3>1, <3>2, <3>3
  <2>2. PICK a \in Int, b \in Int, d \in Int, e \in Int :
            a = q[1] /\ b = q[2] /\ d = p[1] /\ e = p[2] /\ q = <<a, b>> /\ p = <<d, e>>
    BY <1>1
  <2>3. a < d \/ (a = d /\ b < e)
    BY <2>1, <2>2
  <2>4. Lex(<<a, b>>, <<d, e>>)
    BY <2>3, LexOfPairs
  <2> QED
    BY <2>2, <2>4
<1> QED
  BY <1>5

\* Every id of a board is given the place of one of its keys, inside the matrix.
LEMMA PlaceOfId ==
    ASSUME NEW keys, IsBoard(keys), NEW family,
           NEW matrix, matrix = CompileMatrix(family, keys), NEW id \in DOMAIN matrix.places
    PROVE  /\ \E n \in DOMAIN keys : /\ keys[n].id = id
                                     /\ matrix.places[id] = PlacesOf(family, keys)[n]
           /\ matrix.rows \in Nat /\ matrix.cols \in Nat
           /\ matrix.places[id] \in (0 .. matrix.rows - 1) \X (0 .. matrix.cols - 1)
<1> DEFINE places == PlacesOf(family, keys)
           mine == {places[n] : n \in {j \in DOMAIN keys : keys[j].id = id}}
<1>1. matrix = [rows |-> Rows(family, keys), cols |-> Cols(family, keys, places),
                places |-> Assignments(keys, places)]
  BY DEF CompileMatrix, WithPlaces
<1>2. PICK rows, cols : rows = Rows(family, keys) /\ cols = Cols(family, keys, places)
  OBVIOUS
<1>3. id \in {keys[n].id : n \in DOMAIN keys}
  BY <1>1 DEF Assignments
<1>4. matrix.places[id] = CHOOSE p \in mine : \A q \in mine \ {p} : Lex(q, p)
  BY <1>1, <1>3 DEF Assignments
<1>5. \A n \in DOMAIN keys : /\ rows \in Nat /\ cols \in Nat
                             /\ places[n] \in (0 .. rows - 1) \X (0 .. cols - 1)
  BY <1>2, PlacesInside
<1>6. mine # {} /\ rows \in Nat /\ cols \in Nat
      /\ mine \in SUBSET ((0 .. rows - 1) \X (0 .. cols - 1))
  <2> HIDE DEF places
  <2> QED
    BY <1>3, <1>5
<1>7. matrix.places[id] \in mine
  <2> HIDE DEF mine
  <2> QED
    BY <1>4, <1>6, LastPlace
<1>8. matrix.rows = rows /\ matrix.cols = cols
  BY <1>1, <1>2
<1> HIDE DEF places
<1> QED
  BY <1>6, <1>7, <1>8 DEF places

\* Two ids of a board are not given one place, also when keys share ids.
LEMMA PlacesOfIds ==
    ASSUME NEW keys, IsBoard(keys), NEW family,
           NEW matrix, matrix = CompileMatrix(family, keys),
           NEW i \in DOMAIN matrix.places, NEW j \in DOMAIN matrix.places,
           matrix.places[i] = matrix.places[j]
    PROVE  i = j
<1> DEFINE places == PlacesOf(family, keys)
<1>1. PICK m \in DOMAIN keys : keys[m].id = i /\ matrix.places[i] = places[m]
  BY PlaceOfId
<1>2. PICK n \in DOMAIN keys : keys[n].id = j /\ matrix.places[j] = places[n]
  BY PlaceOfId
<1>3. m # n => places[m] # places[n]
  BY PhysicalPlaces, BalancedPlaces DEF PlacesOf
<1> HIDE DEF places
<1> QED
  BY <1>1, <1>2, <1>3

\* A key whose id is its own has the place it was put at.
LEMMA PlaceOfKey ==
    ASSUME NEW keys, UniqueIds(keys), NEW places, NEW n \in DOMAIN keys
    PROVE  /\ keys[n].id \in DOMAIN Assignments(keys, places)
           /\ Assignments(keys, places)[keys[n].id] = places[n]
<1>1. {places[m] : m \in {j \in DOMAIN keys : keys[j].id = keys[n].id}} = {places[n]}
  BY DEF UniqueIds
<1>2. (CHOOSE p \in {places[n]} : \A q \in {places[n]} \ {p} : Lex(q, p)) = places[n]
  OBVIOUS
<1> QED
  BY <1>1, <1>2 DEF Assignments

\* A board whose keys have ids of their own gets a matrix in which no two of them
\* share a place, with either strategy: what compile_project_matrix assigns can be
\* scanned without two switches on one crossing.
THEOREM PlacesDiffer ==
    ASSUME NEW keys, IsBoard(keys), UniqueIds(keys), NEW family,
           NEW i \in DOMAIN keys, NEW k \in DOMAIN keys, i # k
    PROVE  LET matrix == CompileMatrix(family, keys)
           IN  /\ {keys[i].id, keys[k].id} \subseteq DOMAIN matrix.places
               /\ matrix.places[keys[i].id] # matrix.places[keys[k].id]
<1> DEFINE places == PlacesOf(family, keys)
<1>1. places[i] # places[k]
  BY PhysicalPlaces, BalancedPlaces DEF PlacesOf
<1>2. CompileMatrix(family, keys).places = Assignments(keys, places)
  BY DEF CompileMatrix, WithPlaces
<1> HIDE DEF places
<1> QED
  BY <1>1, <1>2, PlaceOfKey

-----------------------------------------------------------------------------
\* Keys that differ at most in what the matrix does not read.
SameBoard(keys, others) ==
    /\ Len(keys) = Len(others)
    /\ \A n \in DOMAIN keys : /\ keys[n].id = others[n].id /\ keys[n].x = others[n].x
                              /\ keys[n].y = others[n].y /\ keys[n].h = others[n].h

\* Keys that the matrix reads alike have the same matrix.
LEMMA MatrixOfSameBoard ==
    ASSUME NEW K, NEW keys \in Seq(K), NEW others \in Seq(K), NEW family,
           SameBoard(keys, others)
    PROVE  CompileMatrix(family, keys) = CompileMatrix(family, others)
<1>1. /\ DOMAIN keys = DOMAIN others /\ Len(keys) = Len(others)
      /\ keys = <<>> <=> others = <<>>
  BY DEF SameBoard
<1>2. \A n \in DOMAIN keys : /\ keys[n].id = others[n].id /\ keys[n].x = others[n].x
                             /\ keys[n].y = others[n].y /\ keys[n].h = others[n].h
  BY DEF SameBoard
<1>3. RowStarts(keys) = RowStarts(others)
  BY <1>1, <1>2 DEF RowStarts, Center
<1>4. PhysicalRows(keys) = PhysicalRows(others)
  <2> DEFINE row(board) == [n \in DOMAIN board |-> ClusterRow(RowStarts(keys), board[n])]
             sortKey(board) == [n \in DOMAIN board |-> ColumnKey(board, n)]
             placed(d, r, k) ==
                 [n \in d |-> <<r[n], Cardinality({m \in d : r[m] = r[n] /\ Lex(k[m], k[n])})>>]
  <2>1. row(keys) = row(others)
    BY <1>1, <1>2 DEF ClusterRow, Center
  <2>2. sortKey(keys) = sortKey(others)
    BY <1>1, <1>2 DEF ColumnKey, Center
  <2>3. PhysicalRows(keys) = placed(DOMAIN keys, row(keys), sortKey(keys))
    BY DEF PhysicalRows
  <2>4. PhysicalRows(others) = placed(DOMAIN others, row(others), sortKey(others))
    BY <1>3 DEF PhysicalRows
  <2> HIDE DEF row, sortKey, placed
  <2> QED
    BY <1>1, <2>1, <2>2, <2>3, <2>4
<1>5. BalancedRows(keys) = BalancedRows(others)
  <2> DEFINE sortKey(board) == [n \in DOMAIN board |-> <<board[n].y, board[n].x, n>>]
             width(len) == CeilDiv(len, BestRows(len))
             index(d, k) == [n \in d |-> Cardinality({m \in d : Lex(k[m], k[n])})]
             placed(d, r, cols) == [n \in d |-> <<r[n] \div cols, r[n] % cols>>]
  <2>1. sortKey(keys) = sortKey(others)
    BY <1>1, <1>2
  <2>2. BalancedRows(keys) =
            placed(DOMAIN keys, index(DOMAIN keys, sortKey(keys)), width(Len(keys)))
    BY DEF BalancedRows
  <2>3. BalancedRows(others) =
            placed(DOMAIN others, index(DOMAIN others, sortKey(others)), width(Len(others)))
    BY DEF BalancedRows
  <2> HIDE DEF sortKey, width, index, placed
  <2> QED
    BY <1>1, <2>1, <2>2, <2>3
<1>6. PlacesOf(family, keys) = PlacesOf(family, others)
  BY <1>4, <1>5 DEF PlacesOf
<1>7. Rows(family, keys) = Rows(family, others)
  BY <1>1, <1>3 DEF Rows
<1>8. \A places : Cols(family, keys, places) = Cols(family, others, places)
  BY <1>1 DEF Cols
<1>9. \A places : Assignments(keys, places) = Assignments(others, places)
  <2> TAKE places
  <2> DEFINE ids(board) == {board[n].id : n \in DOMAIN board}
             mine(board, id) == {places[n] : n \in {j \in DOMAIN board : board[j].id = id}}
             last(T) == CHOOSE p \in T : \A q \in T \ {p} : Lex(q, p)
  <2>1. ids(keys) = ids(others)
    BY <1>1, <1>2
  <2>2. \A id : mine(keys, id) = mine(others, id)
    BY <1>1, <1>2
  <2>3. Assignments(keys, places) = [id \in ids(keys) |-> last(mine(keys, id))]
    BY DEF Assignments
  <2>4. Assignments(others, places) = [id \in ids(others) |-> last(mine(others, id))]
    BY DEF Assignments
  <2> HIDE DEF ids, mine, last
  <2> QED
    BY <2>1, <2>2, <2>3, <2>4
<1> QED
  BY <1>6, <1>7, <1>8, <1>9 DEF CompileMatrix, WithPlaces

-----------------------------------------------------------------------------
(* Pins.                                                                   *)

\* Pins of controls outside the matrix are a natural, 0 when no control needs one.
LEMMA DirectPinsCounted ==
    ASSUME NEW E, NEW layout, layout.elements \in Seq(E)
    PROVE  /\ DirectPinsUsed(layout) \in Nat
           /\ (\A n \in DOMAIN layout.elements : DirectPins[layout.elements[n].type] = 0)
                  => DirectPinsUsed(layout) = 0
<1>1. IsFiniteSet(DOMAIN layout.elements)
  <2>1. PICK n \in Nat : DOMAIN layout.elements = 1 .. n
    OBVIOUS
  <2>2. IsFiniteSet(1 .. n)
    BY FS_Interval
  <2> QED
    BY <2>1, <2>2
<1>2. IsFiniteSet((DOMAIN layout.elements) \X (1 .. MaxDirectPins))
  <2>1. PICK most \in Nat : most = MaxDirectPins
    BY DEF MaxDirectPins
  <2>2. IsFiniteSet(1 .. most)
    BY FS_Interval
  <2> QED
    BY <1>1, <2>1, <2>2, FS_Product
<1>3. DirectPinsOf(layout) \in SUBSET ((DOMAIN layout.elements) \X (1 .. MaxDirectPins))
  BY DEF DirectPinsOf
<1>4. IsFiniteSet(DirectPinsOf(layout))
  BY <1>2, <1>3, FS_Subset
<1>5. DirectPinsUsed(layout) \in Nat
  BY <1>4, FS_CardinalityType DEF DirectPinsUsed
<1>6. ASSUME \A n \in DOMAIN layout.elements : DirectPins[layout.elements[n].type] = 0
      PROVE  DirectPinsOf(layout) = {}
  BY <1>6 DEF DirectPinsOf, MaxDirectPins
<1> QED
  BY <1>5, <1>6, FS_EmptySet DEF DirectPinsUsed

\* The ids that a matrix has places for.
LEMMA IdsOfMatrix ==
    ASSUME NEW keys, NEW family
    PROVE  DOMAIN CompileMatrix(family, keys).places = {keys[n].id : n \in DOMAIN keys}
BY DEF CompileMatrix, WithPlaces, Assignments

-----------------------------------------------------------------------------
(* Rows of VIA.                                                            *)

\* Sets that a shift takes into each other are equally large.
Shifts(A, B, h) == B = {a + h : a \in A}

LEMMA ShiftKeepsSize ==
    ASSUME NEW A \in SUBSET Int, IsFiniteSet(A), NEW h \in Int, NEW B, Shifts(A, B, h)
    PROVE  IsFiniteSet(B) /\ Cardinality(B) = Cardinality(A)
<1> DEFINE shift == [a \in A |-> a + h]
<1>1. shift \in [A -> B] /\ \A b \in B : \E a \in A : shift[a] = b
  BY DEF Shifts
<1>2. \A a, b \in A : shift[a] = shift[b] => a = b
  OBVIOUS
<1>3. shift \in Bijection(A, B)
  <2> HIDE DEF shift
  <2> QED
    BY ONLY <1>1, <1>2 DEF Bijection, Injection, Surjection, IsInjective
<1>4. ExistsBijection(A, B)
  BY ONLY <1>3 DEF ExistsBijection
<1> QED
  BY ONLY <1>4, IsFiniteSet(A), FS_Bijection

\* Ranks that differ and are none above the number of members are all taken.
LEMMA RanksFill ==
    ASSUME NEW S, IsFiniteSet(S), NEW n \in Nat, n = Cardinality(S),
           NEW rank \in [S -> 1 .. n], \A a, b \in S : rank[a] = rank[b] => a = b,
           NEW i \in 1 .. n
    PROVE  \E a \in S : rank[a] = i
<1> DEFINE taken == {rank[a] : a \in S}
<1>1. rank \in [S -> taken] /\ \A t \in taken : \E a \in S : rank[a] = t
  OBVIOUS
<1>2. taken \in SUBSET (1 .. n)
  OBVIOUS
<1> HIDE DEF taken
<1>3. rank \in Bijection(S, taken)
  BY <1>1 DEF Bijection, Injection, Surjection, IsInjective
<1>4. IsFiniteSet(taken) /\ Cardinality(taken) = n
  BY <1>3, FS_Bijection DEF ExistsBijection
<1>5. IsFiniteSet(1 .. n) /\ Cardinality(1 .. n) = n
  BY FS_Interval
<1>6. taken = 1 .. n
  BY <1>2, <1>4, <1>5, FS_Subset
<1> QED
  BY <1>1, <1>6

\* Every centre is within the tolerance above a start.
Covers(starts, centers) == \A c \in centers : \E s \in starts : s <= c /\ c - s <= Tolerance

\* No edge is the least at which two choices of starts differ.
LEMMA LeastDifference ==
    ASSUME NEW centers \in SUBSET Int, NEW A, NEW B,
           Spread(A, centers), Spread(B, centers), Covers(B, centers),
           NEW m \in A \ B, \A d \in (A \ B) \cup (B \ A) : m <= d
    PROVE  FALSE
<1>1. m \in centers /\ m \in Int /\ Tolerance \in Int
  BY DEF Spread, Tolerance, UnitPitch
<1>2. PICK s \in B : s <= m /\ m - s <= Tolerance
  BY <1>1 DEF Covers
<1>3. s \in Int
  BY DEF Spread
<1>4. s < m
  BY <1>1, <1>2, <1>3
<1>5. s \in A
  BY <1>1, <1>3, <1>4
<1>6. m - s > Tolerance
  BY <1>4, <1>5 DEF Spread
<1> QED
  BY <1>1, <1>2, <1>3, <1>6

\* Spread starts that cover the same centres are the same.
LEMMA OneChoiceOfStarts ==
    ASSUME NEW centers \in SUBSET Int, NEW low \in Int, Floor(low, centers), NEW A, NEW B,
           Spread(A, centers), Covers(A, centers), Spread(B, centers), Covers(B, centers)
    PROVE  A = B
<1> DEFINE differ == (A \ B) \cup (B \ A)
<1>1. SUFFICES ASSUME differ # {} PROVE FALSE
  OBVIOUS
<1>2. differ \in SUBSET Int /\ \A d \in differ : low <= d
  BY DEF Spread, Floor
<1>3. PICK m \in differ : \A d \in differ : m <= d
  <2> HIDE DEF differ
  <2> QED
    BY <1>1, <1>2, MinOfBounded
<1>4. CASE m \in A \ B
  BY <1>3, <1>4, LeastDifference
<1>5. CASE m \in B \ A
  BY <1>3, <1>5, LeastDifference
<1> QED
  BY <1>3, <1>4, <1>5

\* The upper edges of a board, as the centres of keys without height.
Flat(keys) == [n \in DOMAIN keys |-> [x |-> keys[n].x, y |-> keys[n].y, h |-> 0]]

\* The starts of a flat board are those of VIA.
LEMMA FlatBoard ==
    ASSUME NEW keys, IsBoard(keys), NEW flat, flat = Flat(keys)
    PROVE  /\ IsBoard(flat) /\ DOMAIN flat = DOMAIN keys
           /\ \A n \in DOMAIN keys : Center(flat[n]) = 2 * keys[n].y /\ 2 * keys[n].y \in Int
           /\ RowStarts(flat) = ViaStarts(keys)
<1>1. PICK last \in Nat : last = Len(keys) /\ DOMAIN keys = 1 .. last
  BY DEF IsBoard
<1>2. DOMAIN flat = 1 .. last /\ flat \in Seq({flat[n] : n \in 1 .. last}) /\ Len(flat) = last
  BY <1>1 DEF Flat
<1>3. ASSUME NEW n \in DOMAIN keys
      PROVE  /\ flat[n].x = keys[n].x /\ flat[n].y = keys[n].y /\ flat[n].h = 0
             /\ keys[n].x \in Int /\ keys[n].y \in Int
             /\ Center(flat[n]) = 2 * keys[n].y /\ 2 * keys[n].y \in Int
  <2>1. flat[n].x = keys[n].x /\ flat[n].y = keys[n].y /\ flat[n].h = 0
    BY DEF Flat
  <2>2. PICK y \in Int : y = keys[n].y
    BY DEF IsBoard
  <2>3. 2 * y + 0 = 2 * y /\ 2 * y \in Int
    OBVIOUS
  <2> QED
    BY <2>1, <2>2, <2>3 DEF Center, IsBoard
<1>4. IsBoard(flat)
  <2>1. \A i \in 1 .. last : flat[i].x \in Int /\ flat[i].y \in Int /\ flat[i].h \in Int
    BY <1>1, <1>3
  <2> QED
    BY ONLY <1>2, <2>1, last \in Nat DEF IsBoard
<1>5. {Center(flat[n]) : n \in DOMAIN flat} = {2 * keys[n].y : n \in DOMAIN keys}
  BY <1>1, <1>2, <1>3
<1>6. RowStarts(flat) = ViaStarts(keys)
  BY <1>5 DEF RowStarts, ViaStarts
<1> QED
  BY <1>1, <1>2, <1>3, <1>4, <1>6

\* The row of a key is one of those that VIA shows.
ViaRow(keys, n) == Cardinality({s \in ViaStarts(keys) : s <= 2 * keys[n].y})

\* The row of a key is one of the rows of VIA.
LEMMA ViaRowInside ==
    ASSUME NEW keys, IsBoard(keys), NEW n \in DOMAIN keys
    PROVE  /\ IsFiniteSet(ViaStarts(keys)) /\ Cardinality(ViaStarts(keys)) \in Nat
           /\ ViaRow(keys, n) \in 1 .. Cardinality(ViaStarts(keys))
<1>1. PICK flat : flat = Flat(keys)
  OBVIOUS
<1>2. /\ IsBoard(flat) /\ n \in DOMAIN flat /\ Center(flat[n]) = 2 * keys[n].y
      /\ RowStarts(flat) = ViaStarts(keys)
  BY <1>1, FlatBoard
<1>3. PICK starts : starts = ViaStarts(keys) /\ starts = RowStarts(flat)
  BY <1>2
<1>4. /\ IsFiniteSet(starts) /\ Cardinality(starts) \in Nat
      /\ ClusterRow(starts, flat[n]) \in 0 .. Cardinality(starts) - 1
  BY ONLY <1>2, <1>3, RowsOfCenters
<1>5. ClusterRow(starts, flat[n]) = ViaRow(keys, n) - 1
  BY <1>2, <1>3 DEF ClusterRow, ViaRow
<1>6. ViaRow(keys, n) \in Nat
  <2>1. PICK A : A = {s \in starts : s <= 2 * keys[n].y}
    OBVIOUS
  <2>2. A \in SUBSET starts
    BY <2>1
  <2>3. Cardinality(A) \in Nat
    BY ONLY <1>4, <2>2, FS_Subset, FS_CardinalityType
  <2> QED
    BY <1>3, <2>1, <2>3 DEF ViaRow
<1> QED
  BY <1>3, <1>4, <1>5, <1>6

\* Where all keys are equally tall, VIA and the matrix have the same rows.
OfHeight(keys, h) == \A n \in DOMAIN keys : keys[n].h = h

\* For keys of one height VIA has the rows of the matrix.
LEMMA RowsOfEqualHeights ==
    ASSUME NEW keys, IsBoard(keys), NEW h \in Int, OfHeight(keys, h)
    PROVE  /\ Cardinality(ViaStarts(keys)) = Cardinality(RowStarts(keys))
           /\ \A n \in DOMAIN keys : ViaRow(keys, n) = ClusterRow(RowStarts(keys), keys[n]) + 1
<1>1. PICK flat : flat = Flat(keys)
  OBVIOUS
<1>2. /\ IsBoard(flat) /\ DOMAIN flat = DOMAIN keys
      /\ \A n \in DOMAIN keys : Center(flat[n]) = 2 * keys[n].y /\ 2 * keys[n].y \in Int
      /\ RowStarts(flat) = ViaStarts(keys)
  BY <1>1, FlatBoard
<1>3. PICK tops, centers, edges, starts, shifted :
          /\ tops = CentersOf(flat) /\ centers = CentersOf(keys)
          /\ edges = StartsAmong(tops) /\ starts = StartsAmong(centers)
          /\ shifted = {s + h : s \in edges}
  OBVIOUS
<1>4. edges = ViaStarts(keys) /\ starts = RowStarts(keys)
  BY <1>2, <1>3 DEF RowStarts, CentersOf
<1>5. PICK low \in Int, floor \in Int :
          /\ tops \in SUBSET Int /\ IsFiniteSet(tops) /\ Floor(low, tops)
          /\ centers \in SUBSET Int /\ IsFiniteSet(centers) /\ Floor(floor, centers)
  BY <1>2, <1>3, CentersBounded
<1>6. /\ Spread(edges, tops) /\ IsFiniteSet(edges) /\ Covers(edges, tops)
      /\ Spread(starts, centers) /\ IsFiniteSet(starts) /\ Covers(starts, centers)
  BY <1>3, <1>5, StartsCover DEF Covers
<1>7. \A n \in DOMAIN keys : Center(keys[n]) = 2 * keys[n].y + h
  BY DEF Center, OfHeight
<1>8. centers = {t + h : t \in tops}
  BY <1>2, <1>3, <1>7 DEF CentersOf
<1>9. edges \in SUBSET Int /\ edges \subseteq tops /\ Tolerance \in Int
  BY <1>5, <1>6 DEF Spread, Tolerance, UnitPitch
<1>10. Spread(shifted, centers)
  <2>1. shifted \subseteq centers
    BY <1>3, <1>8, <1>9
  <2>2. ASSUME NEW s \in shifted, NEW t \in shifted, s < t
        PROVE  t - s > Tolerance
    <3>1. PICK a \in edges, b \in edges : s = a + h /\ t = b + h
      BY <1>3
    <3>2. a \in Int /\ b \in Int
      BY <1>9
    <3>3. a < b
      BY <2>2, <3>1, <3>2
    <3>4. b - a > Tolerance
      BY <1>6, <3>3 DEF Spread
    <3> QED
      BY <1>9, <3>1, <3>2, <3>4
  <2>3. ASSUME NEW t \in shifted, NEW c \in centers, c < t
        PROVE  \E s \in shifted : s <= c /\ c - s <= Tolerance
    <3>1. PICK a \in edges, e \in tops : t = a + h /\ c = e + h
      BY <1>3, <1>8
    <3>2. a \in Int /\ e \in Int
      BY <1>5, <1>9
    <3>3. e < a
      BY <2>3, <3>1, <3>2
    <3>4. PICK b \in edges : b <= e /\ e - b <= Tolerance
      BY <1>6, <3>3 DEF Spread
    <3>5. b \in Int /\ b + h \in shifted
      BY <1>3, <1>9
    <3>6. b + h <= c /\ c - (b + h) <= Tolerance
      BY <1>9, <3>1, <3>2, <3>4, <3>5
    <3> QED
      BY <3>5, <3>6
  <2> QED
    BY <2>1, <2>2, <2>3 DEF Spread
<1>11. Covers(shifted, centers)
  <2>1. ASSUME NEW c \in centers
        PROVE  \E s \in shifted : s <= c /\ c - s <= Tolerance
    <3>1. PICK e \in tops : c = e + h
      BY <1>8
    <3>2. PICK b \in edges : b <= e /\ e - b <= Tolerance
      BY <1>6 DEF Covers
    <3>3. b \in Int /\ e \in Int /\ b + h \in shifted
      BY <1>3, <1>5, <1>9
    <3>4. b + h <= c /\ c - (b + h) <= Tolerance
      BY <1>9, <3>1, <3>2, <3>3
    <3> QED
      BY <3>3, <3>4
  <2> QED
    BY <2>1 DEF Covers
<1>12. starts = shifted
  BY ONLY <1>5, <1>6, <1>10, <1>11, OneChoiceOfStarts
<1>13. Cardinality(starts) = Cardinality(edges)
  <2>1. Shifts(edges, starts, h)
    BY <1>3, <1>12 DEF Shifts
  <2> QED
    BY ONLY <1>6, <1>9, <2>1, h \in Int, ShiftKeepsSize
<1>14. ASSUME NEW n \in DOMAIN keys
       PROVE  ViaRow(keys, n) = ClusterRow(RowStarts(keys), keys[n]) + 1
  <2>1. PICK y \in Int, top \in Int, center \in Int :
            y = keys[n].y /\ top = 2 * y /\ center = top + h /\ center = Center(keys[n])
    BY <1>7 DEF IsBoard
  <2>2. PICK A, B : A = {s \in edges : s <= top} /\ B = {s \in starts : s <= center}
    OBVIOUS
  <2>3. Shifts(A, B, h)
    <3>1. B = {a + h : a \in A}
      BY <1>3, <1>9, <1>12, <2>1, <2>2
    <3> QED
      BY <3>1 DEF Shifts
  <2>4. A \in SUBSET Int /\ A \in SUBSET edges
    BY <1>9, <2>2
  <2>5. IsFiniteSet(A)
    BY <1>6, <2>4, FS_Subset
  <2>6. Cardinality(B) = Cardinality(A) /\ Cardinality(A) \in Nat
    BY ONLY <2>3, <2>4, <2>5, h \in Int, ShiftKeepsSize, FS_CardinalityType
  <2>7. ViaRow(keys, n) = Cardinality(A)
    BY <1>4, <2>1, <2>2 DEF ViaRow
  <2>8. ClusterRow(RowStarts(keys), keys[n]) = Cardinality(B) - 1
    BY <1>4, <2>1, <2>2 DEF ClusterRow
  <2> QED
    BY <2>6, <2>7, <2>8
<1> QED
  BY <1>4, <1>13, <1>14

\* The keys of a row of VIA, and those of them that sort before a key.
OfViaRow(keys, r) == {n \in DOMAIN keys : ViaRow(keys, n) = r}
EarlierInRow(keys, n) == {m \in OfViaRow(keys, ViaRow(keys, n)) : ReadBefore(keys, m, n)}

\* The number of a key in its row is its rank in reading order.
LEMMA CellOfKey ==
    ASSUME NEW keys, IsBoard(keys), NEW n \in DOMAIN keys
    PROVE  ViaCells(keys)[n] = <<ViaRow(keys, n), 1 + Cardinality(EarlierInRow(keys, n))>>
<1>1. \A m \in DOMAIN keys :
          Lex(<<keys[m].y, keys[m].x, m>>, <<keys[n].y, keys[n].x, n>>) <=> ReadBefore(keys, m, n)
  BY ByReading
<1>2. PICK row : row = [m \in DOMAIN keys |-> ViaRow(keys, m)]
  OBVIOUS
<1>3. \A m \in DOMAIN keys : row[m] = ViaRow(keys, m)
  BY <1>2
<1>4. PICK sortKey : sortKey = [m \in DOMAIN keys |-> <<keys[m].y, keys[m].x, m>>]
  OBVIOUS
<1>5. ViaCells(keys)[n] =
          <<row[n], 1 + Cardinality({m \in DOMAIN keys : row[m] = row[n] /\ Lex(sortKey[m], sortKey[n])})>>
  BY <1>2, <1>4 DEF ViaCells, ViaRow
<1>6. {m \in DOMAIN keys : row[m] = row[n] /\ Lex(sortKey[m], sortKey[n])} = EarlierInRow(keys, n)
  BY <1>1, <1>3, <1>4 DEF EarlierInRow, OfViaRow
<1> QED
  BY <1>3, <1>5, <1>6

\* The keys of a row are numbered from 1 on, each number given once.
LEMMA CellsOfRow ==
    ASSUME NEW keys, IsBoard(keys), NEW r, NEW mine, mine = OfViaRow(keys, r),
           NEW cell, cell = ViaCells(keys)
    PROVE  /\ IsFiniteSet(mine) /\ Cardinality(mine) \in Nat
           /\ \A n \in mine : cell[n][2] \in 1 .. Cardinality(mine)
           /\ \A m, n \in mine : cell[m][2] = cell[n][2] => m = n
           /\ \A i \in 1 .. Cardinality(mine) : \E n \in mine : cell[n][2] = i
<1> DEFINE earlier(n) == EarlierInRow(keys, n)
<1>1. mine \in SUBSET (DOMAIN keys) /\ \A n \in mine : ViaRow(keys, n) = r
  BY DEF OfViaRow
<1>2. IsFiniteSet(mine) /\ Cardinality(mine) \in Nat
  BY <1>1, KeysOfBoard, FS_Subset, FS_CardinalityType
<1>3. \A n \in mine : keys[n].x \in Int /\ keys[n].y \in Int /\ n \in Int
  BY <1>1 DEF IsBoard
<1>4. ASSUME NEW n \in mine
      PROVE  /\ earlier(n) = {m \in mine : ReadBefore(keys, m, n)}
             /\ earlier(n) \in SUBSET mine /\ n \notin earlier(n)
             /\ IsFiniteSet(earlier(n)) /\ Cardinality(earlier(n)) \in 0 .. Cardinality(mine) - 1
             /\ cell[n][2] = 1 + Cardinality(earlier(n))
  <2>1. earlier(n) = {m \in mine : ReadBefore(keys, m, n)}
    BY <1>1 DEF EarlierInRow
  <2>2. cell[n] = <<ViaRow(keys, n), 1 + Cardinality(earlier(n))>>
    BY <1>1, CellOfKey
  <2> HIDE DEF earlier
  <2>3. n \notin earlier(n) /\ earlier(n) \in SUBSET mine
    BY <1>3, <2>1 DEF ReadBefore
  <2>4. IsFiniteSet(earlier(n)) /\ Cardinality(earlier(n)) \in Nat
        /\ Cardinality(earlier(n)) <= Cardinality(mine)
    BY <1>2, <2>3, FS_Subset, FS_CardinalityType
  <2>5. Cardinality(earlier(n)) # Cardinality(mine)
    BY <1>2, <2>3, RanksGrow
  <2> QED
    BY <1>2, <2>1, <2>2, <2>3, <2>4, <2>5
<1> HIDE DEF earlier
<1>5. ASSUME NEW m \in mine, NEW n \in mine, ReadBefore(keys, m, n)
      PROVE  Cardinality(earlier(m)) # Cardinality(earlier(n))
  <2>1. earlier(m) \in SUBSET earlier(n)
    <3>1. \A k \in mine : ReadBefore(keys, k, m) => ReadBefore(keys, k, n)
      BY <1>3, <1>5 DEF ReadBefore
    <3> QED
      BY <1>4, <3>1
  <2>2. m \in earlier(n) /\ m \notin earlier(m) /\ IsFiniteSet(earlier(n))
    BY <1>4, <1>5
  <2> QED
    BY ONLY <2>1, <2>2, RanksGrow
<1>6. ASSUME NEW m \in mine, NEW n \in mine, m # n
      PROVE  cell[m][2] # cell[n][2]
  <2>1. ReadBefore(keys, m, n) \/ ReadBefore(keys, n, m)
    BY <1>3, <1>6 DEF ReadBefore
  <2>2. Cardinality(earlier(m)) # Cardinality(earlier(n))
    BY <1>5, <2>1
  <2>3. Cardinality(earlier(m)) \in Int /\ Cardinality(earlier(n)) \in Int
    BY <1>2, <1>4
  <2> QED
    BY <1>4, <2>2, <2>3
<1>7. PICK most \in Nat : most = Cardinality(mine)
  BY <1>2
<1>8. \A n \in mine : cell[n][2] \in 1 .. most
  BY <1>4, <1>7
<1>9. ASSUME NEW i \in 1 .. most
      PROVE  \E n \in mine : cell[n][2] = i
  <2>1. PICK rank : rank = [n \in mine |-> cell[n][2]]
    OBVIOUS
  <2>2. rank \in [mine -> 1 .. most] /\ \A n \in mine : rank[n] = cell[n][2]
    BY <1>8, <2>1
  <2>3. \A m, n \in mine : rank[m] = rank[n] => m = n
    BY <1>6, <2>2
  <2>4. \E n \in mine : rank[n] = i
    BY ONLY <1>2, <1>7, <2>2, <2>3, i \in 1 .. most, RanksFill
  <2> QED
    BY <2>2, <2>4
<1> QED
  BY <1>2, <1>6, <1>7, <1>8, <1>9

\* VIA shows every key with a place in one cell, the cells of a row without a gap.
LEMMA CellsOfVia ==
    ASSUME NEW layout, NEW keys, keys = Placed(layout), IsBoard(keys),
           NEW cell, cell = ViaCells(keys), NEW via, via = ViaRows(layout)
    PROVE  /\ DOMAIN via = 1 .. Cardinality(ViaStarts(keys))
           /\ \A r \in DOMAIN via : \A i \in DOMAIN via[r] : \E n \in DOMAIN keys :
                  cell[n][1] = r /\ cell[n][2] = i /\ via[r][i] = keys[n].at
           /\ \A n \in DOMAIN keys :
                  /\ cell[n][1] \in DOMAIN via /\ cell[n][2] \in DOMAIN via[cell[n][1]]
                  /\ via[cell[n][1]][cell[n][2]] = keys[n].at
                  /\ cell[n][1] = ViaRow(keys, n)
<1> DEFINE rows == Cardinality(ViaStarts(keys))
<1>1. \A n \in DOMAIN keys : cell[n][1] = ViaRow(keys, n) /\ ViaRow(keys, n) \in 1 .. rows
  BY CellOfKey, ViaRowInside
<1>2. DOMAIN via = 1 .. rows
  BY DEF ViaRows
<1>3. ASSUME NEW r \in 1 .. rows
      PROVE  /\ DOMAIN via[r] = 1 .. Cardinality(OfViaRow(keys, r))
             /\ \A i \in DOMAIN via[r] :
                    via[r][i] = keys[CHOOSE n \in OfViaRow(keys, r) : cell[n][2] = i].at
  <2>1. via[r] = PlacesInOrder(keys, cell, {n \in DOMAIN keys : cell[n][1] = r})
    BY DEF ViaRows
  <2>2. {n \in DOMAIN keys : cell[n][1] = r} = OfViaRow(keys, r)
    BY <1>1 DEF OfViaRow
  <2>3. PICK mine : mine = OfViaRow(keys, r) /\ via[r] = PlacesInOrder(keys, cell, mine)
    BY ONLY <2>1, <2>2
  <2> QED
    BY ONLY <2>3 DEF PlacesInOrder
<1> HIDE DEF rows
<1>4. ASSUME NEW r \in 1 .. rows, NEW i \in DOMAIN via[r]
      PROVE  \E n \in OfViaRow(keys, r) : cell[n][2] = i /\ via[r][i] = keys[n].at
  <2>1. PICK mine : mine = OfViaRow(keys, r)
    OBVIOUS
  <2>2. i \in 1 .. Cardinality(mine)
    BY <1>3, <2>1
  <2>3. \E n \in mine : cell[n][2] = i
    BY <2>1, <2>2, CellsOfRow
  <2>4. via[r][i] = keys[CHOOSE n \in mine : cell[n][2] = i].at
    BY <1>3, <2>1
  <2> QED
    BY ONLY <2>1, <2>3, <2>4
<1>5. ASSUME NEW n \in DOMAIN keys
      PROVE  /\ cell[n][1] \in DOMAIN via /\ cell[n][2] \in DOMAIN via[cell[n][1]]
             /\ via[cell[n][1]][cell[n][2]] = keys[n].at
  <2>1. PICK r : r \in 1 .. rows /\ r = cell[n][1] /\ n \in OfViaRow(keys, r)
    BY <1>1 DEF OfViaRow
  <2>2. PICK mine : mine = OfViaRow(keys, r) /\ n \in mine
    BY <2>1
  <2>3. cell[n][2] \in 1 .. Cardinality(mine)
    BY <2>2, CellsOfRow
  <2>4. cell[n][2] \in DOMAIN via[r]
    BY <1>3, <2>2, <2>1, <2>3
  <2>5. PICK m \in mine : cell[m][2] = cell[n][2] /\ via[r][cell[n][2]] = keys[m].at
    BY <1>4, <2>2, <2>1, <2>4
  <2>6. m = n
    BY <2>2, <2>5, CellsOfRow
  <2> QED
    BY <1>2, <2>1, <2>4, <2>5, <2>6
<1>6. ASSUME NEW r \in DOMAIN via, NEW i \in DOMAIN via[r]
      PROVE  \E n \in DOMAIN keys : cell[n][1] = r /\ cell[n][2] = i /\ via[r][i] = keys[n].at
  <2>1. PICK n \in OfViaRow(keys, r) : cell[n][2] = i /\ via[r][i] = keys[n].at
    BY <1>2, <1>4
  <2>2. n \in DOMAIN keys /\ cell[n][1] = r
    BY <1>1 DEF OfViaRow
  <2> QED
    BY <2>1, <2>2
<1> QED
  BY <1>1, <1>2, <1>5, <1>6 DEF rows

-----------------------------------------------------------------------------
(* The keymap.                                                             *)

\* When every key has a place, the firmware is made of all of them.
LEMMA AllPlaced ==
    ASSUME NEW K, NEW layout, layout.keys \in Seq(K),
           \A n \in DOMAIN layout.keys : layout.keys[n].at # NoPlace
    PROVE  Placed(layout) = layout.keys
<1> DEFINE keys == layout.keys
           ns == {n \in DOMAIN keys : keys[n].at # NoPlace}
<1>1. keys \in Seq(K) /\ Len(keys) \in Nat /\ DOMAIN keys = 1 .. Len(keys)
  OBVIOUS
<1>2. ns = 1 .. Len(keys) /\ Placed(layout) = Kept(keys, ns)
  BY <1>1 DEF Placed
<1> HIDE DEF keys, ns
<1>3. PICK kept : /\ DOMAIN kept = 0 .. Len(keys)
                  /\ kept[0] = <<>>
                  /\ \A n \in 1 .. Len(keys) : kept[n] = KeptStep(keys, ns, n, kept[n - 1])
                  /\ Kept(keys, ns) = kept[Len(keys)]
  BY <1>1, KeptByPosition
<1> DEFINE Good(n) == kept[n] \in Seq(K) /\ Len(kept[n]) = n /\ \A i \in 1 .. n : kept[n][i] = keys[i]
           Bad == {n \in 0 .. Len(keys) : ~ Good(n)}
<1>4. Good(0)
  BY <1>3
<1>5. ASSUME NEW n \in 1 .. Len(keys), Good(n - 1)
      PROVE  Good(n)
  <2>1. PICK before \in Seq(K) : before = kept[n - 1]
    BY <1>5
  <2>2. kept[n] = Append(before, keys[n]) /\ keys[n] \in K
    BY <1>1, <1>2, <1>3, <2>1 DEF KeptStep
  <2> QED
    BY <1>1, <1>5, <2>1, <2>2
<1>6. Bad = {}
  <2>1. SUFFICES ASSUME Bad # {} PROVE FALSE
    OBVIOUS
  <2>2. PICK n \in Bad : \A m \in Bad : n <= m
    <3>1. Bad \in SUBSET Nat
      BY <1>1
    <3> HIDE DEF Bad
    <3> QED
      BY <2>1, <3>1, LeastNatural
  <2> HIDE DEF Good
  <2>3. n \in 1 .. Len(keys) /\ n - 1 \in 0 .. Len(keys) /\ ~ Good(n)
    BY <1>1, <1>4
  <2>4. n - 1 \notin Bad
    <3> HIDE DEF Bad
    <3> QED
      BY <2>2, <2>3
  <2>5. Good(n - 1)
    BY <2>3, <2>4
  <2> QED
    BY <1>5, <2>3, <2>5
<1>7. Good(Len(keys))
  <2> HIDE DEF Good
  <2> QED
    BY <1>1, <1>6
<1>8. kept[Len(keys)] = keys
  BY <1>1, <1>7
<1> QED
  BY <1>2, <1>3, <1>8 DEF keys

\* Places inside the matrix have slots of their own in a layer.
LEMMA SlotsDiffer ==
    ASSUME NEW rows \in Nat, NEW cols \in Nat,
           NEW a \in 0 .. rows - 1, NEW b \in 0 .. cols - 1,
           NEW c \in 0 .. rows - 1, NEW d \in 0 .. cols - 1
    PROVE  /\ a * cols + b + 1 \in 1 .. rows * cols
           /\ a * cols + b + 1 = c * cols + d + 1 => a = c /\ b = d
<1>1. ASSUME NEW m \in Nat, NEW n \in Nat, m < n
      PROVE  m * cols + cols <= n * cols
  <2>1. PICK more \in Nat : n = m + 1 + more
    <3>1. n - m - 1 \in Nat /\ n = m + 1 + (n - m - 1)
      BY <1>1
    <3> QED
      BY <3>1
  <2>2. n * cols = m * cols + cols + more * cols /\ more * cols >= 0
    BY <2>1
  <2>3. m * cols \in Int /\ more * cols \in Int /\ n * cols \in Int
    OBVIOUS
  <2> QED
    BY <2>2, <2>3
<1>2. a * cols \in Nat /\ c * cols \in Nat /\ rows * cols \in Nat
  OBVIOUS
<1>3. a * cols + cols <= rows * cols
  BY <1>1
<1>4. a * cols + b + 1 \in 1 .. rows * cols
  BY <1>2, <1>3
<1>5. ASSUME a * cols + b + 1 = c * cols + d + 1
      PROVE  a = c
  <2>1. ~ (a < c)
    <3>1. a < c => a * cols + cols <= c * cols
      BY <1>1
    <3> QED
      BY <1>2, <1>5, <3>1
  <2>2. ~ (c < a)
    <3>1. c < a => c * cols + cols <= a * cols
      BY <1>1
    <3> QED
      BY <1>2, <1>5, <3>1
  <2> QED
    BY <2>1, <2>2
<1> QED
  BY <1>2, <1>4, <1>5

\* Keys each at a place of its own of a matrix of rows by cols.
ApartWithin(keys, rows, cols) ==
    /\ \A n \in DOMAIN keys : keys[n].at \in (0 .. rows - 1) \X (0 .. cols - 1)
    /\ \A m, n \in DOMAIN keys : keys[m].at = keys[n].at => m = n

\* Each key's code is at the slot of its place.
LEMMA KeymapTells ==
    ASSUME NEW layout, NEW K, NEW keys \in Seq(K), keys = Placed(layout), NEW matrix,
           NEW rows \in Nat, rows = matrix.rows, NEW cols \in Nat, cols = matrix.cols,
           ApartWithin(keys, rows, cols), NEW n \in DOMAIN keys, NEW p, p = keys[n].at
    PROVE  Keymap(layout, matrix).layer[p[1] * cols + p[2] + 1] = LabelToKeycode(keys[n].label)
<1> DEFINE slot(m) == Slot(keys[m].at, matrix)
<1>1. \A m \in DOMAIN keys : /\ keys[m].at = <<keys[m].at[1], keys[m].at[2]>>
                             /\ keys[m].at[1] \in 0 .. rows - 1 /\ keys[m].at[2] \in 0 .. cols - 1
                             /\ keys[m].at[1] < rows /\ keys[m].at[2] < cols
  <2>1. \A m \in DOMAIN keys : keys[m].at \in (0 .. rows - 1) \X (0 .. cols - 1)
    BY DEF ApartWithin
  <2> QED
    BY ONLY <2>1, rows \in Nat, cols \in Nat
<1>2. \A m \in DOMAIN keys : slot(m) = keys[m].at[1] * cols + keys[m].at[2] + 1
  BY DEF Slot
<1>3. ASSUME NEW m \in DOMAIN keys
      PROVE  \E a \in 0 .. rows - 1 : \E b \in 0 .. cols - 1 :
                 keys[m].at = <<a, b>> /\ slot(m) = a * cols + b + 1
  <2>1. PICK a \in 0 .. rows - 1, b \in 0 .. cols - 1 : keys[m].at[1] = a /\ keys[m].at[2] = b
    BY <1>1
  <2>2. keys[m].at = <<a, b>>
    BY <1>1, <2>1
  <2>3. slot(m) = a * cols + b + 1
    BY <1>2, <2>1
  <2> QED
    BY <2>2, <2>3
<1>4. ASSUME NEW m \in DOMAIN keys
      PROVE  slot(m) \in 1 .. rows * cols /\ (slot(m) = slot(n) => m = n)
  <2>1. PICK a \in 0 .. rows - 1, b \in 0 .. cols - 1 :
            keys[m].at = <<a, b>> /\ slot(m) = a * cols + b + 1
    BY <1>3
  <2>2. PICK c \in 0 .. rows - 1, d \in 0 .. cols - 1 :
            keys[n].at = <<c, d>> /\ slot(n) = c * cols + d + 1
    BY <1>3
  <2>3. /\ a * cols + b + 1 \in 1 .. rows * cols
        /\ a * cols + b + 1 = c * cols + d + 1 => a = c /\ b = d
    BY ONLY rows \in Nat, cols \in Nat, SlotsDiffer
  <2>4. slot(m) = slot(n) => keys[m].at = keys[n].at
    BY ONLY <2>1, <2>2, <2>3, Zenon
  <2>5. slot(m) = slot(n) => m = n
    BY <2>4 DEF ApartWithin
  <2> HIDE DEF slot
  <2> QED
    BY <2>1, <2>3, <2>5
<1> HIDE DEF slot
<1>5. DOMAIN keys = 1 .. Len(keys)
  OBVIOUS
<1>6. {m \in 1 .. Len(keys) : slot(m) = slot(n)} = {n}
  BY <1>4, <1>5
<1>7. Max({n}) = n
  BY <1>5 DEF Max
<1>8. SelectLastInSeq(keys, LAMBDA k : Slot(k.at, matrix) = slot(n)) = n
  <2>1. {m \in 1 .. Len(keys) : Slot(keys[m].at, matrix) = slot(n)} = {n}
    BY <1>6 DEF slot
  <2> QED
    BY <1>7, <2>1 DEF SelectLastInSeq
<1>9. \A m \in DOMAIN keys : keys[m].at[1] < matrix.rows /\ keys[m].at[2] < matrix.cols
  BY <1>1
<1>10. Keymap(layout, matrix).layer =
           [s \in 1 .. rows * cols |->
               LET m == SelectLastInSeq(keys, LAMBDA k : Slot(k.at, matrix) = s)
               IN  IF m = 0 THEN "KC_NO" ELSE LabelToKeycode(keys[m].label)]
  BY <1>9 DEF Keymap
<1>11. Keymap(layout, matrix).layer[slot(n)] = LabelToKeycode(keys[n].label)
  <2>1. n # 0
    BY <1>5
  <2>2. Keymap(layout, matrix).layer[slot(n)] =
            LET m == SelectLastInSeq(keys, LAMBDA k : Slot(k.at, matrix) = slot(n))
            IN  IF m = 0 THEN "KC_NO" ELSE LabelToKeycode(keys[m].label)
    BY <1>4, <1>10
  <2> QED
    BY <1>8, <2>1, <2>2
<1> QED
  BY <1>2, <1>11 DEF slot
==============================================================================
