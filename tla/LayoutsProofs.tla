---------------------------- MODULE LayoutsProofs ----------------------------
(***************************************************************************)
(* Theorems about Layouts, for payloads and documents of any size: what    *)
(* Kept keeps, and that a document that was parsed once more is a fixed    *)
(* point of LayoutSpec.                                                    *)
(*                                                                         *)
(* Facts about a recursive function are proved by looking at the least     *)
(* argument at which they would fail.                                      *)
(***************************************************************************)
EXTENDS Layouts, SequenceTheorems, FiniteSetTheorems, WellFoundedInduction, TLAPS

LEMMA LeastNatural ==
    ASSUME NEW T \in SUBSET Nat, T # {}
    PROVE  \E m \in T : \A n \in T : m <= n
<1>1. PICK m \in T : \A n \in T : ~ (<<n, m>> \in OpToRel(<, Nat))
  BY NatLessThanWellFounded, WFMin
<1>2. \A n \in T : ~ (n < m)
  BY <1>1 DEF OpToRel
<1> QED
  BY <1>2

-----------------------------------------------------------------------------
(* Kept.                                                                   *)

\* One step of Kept, given what is kept of the members before.
KeptStep(s, ns, n, before) == IF n \in ns THEN Append(before, s[n]) ELSE before

\* Kept, one position after the other.
LEMMA KeptByPosition ==
    ASSUME NEW s, Len(s) \in Nat, NEW ns
    PROVE  \E kept : /\ DOMAIN kept = 0 .. Len(s)
                     /\ kept[0] = <<>>
                     /\ \A n \in 1 .. Len(s) : kept[n] = KeptStep(s, ns, n, kept[n - 1])
                     /\ Kept(s, ns) = kept[Len(s)]
<1> DEFINE Body(f, n) ==
               IF n = 0 THEN <<>> ELSE IF n \in ns THEN Append(f[n - 1], s[n]) ELSE f[n - 1]
           Upto(f, m) == f = [n \in 0 .. m |-> Body(f, n)]
           Without == {m \in Nat : ~ \E f : Upto(f, m)}
<1>1. Without = {}
  <2>1. SUFFICES ASSUME Without # {} PROVE FALSE
    OBVIOUS
  <2>2. PICK m \in Without : \A n \in Without : m <= n
    <3>1. Without \in SUBSET Nat
      OBVIOUS
    <3> HIDE DEF Without
    <3> QED
      BY <2>1, <3>1, LeastNatural
  <2>3. m # 0
    <3>1. Upto([n \in 0 .. 0 |-> <<>>], 0)
      OBVIOUS
    <3> HIDE DEF Upto
    <3> QED
      BY <3>1
  <2>4. m - 1 \in Nat /\ m - 1 \notin Without
    <3>1. m \in Nat
      OBVIOUS
    <3> HIDE DEF Without
    <3> QED
      BY <2>2, <2>3, <3>1
  <2>5. PICK f : Upto(f, m - 1)
    <3> HIDE DEF Upto
    <3> QED
      BY <2>4
  <2> DEFINE g == [n \in 0 .. m |-> IF n = m THEN Body(f, m) ELSE f[n]]
  <2>6. ASSUME NEW n \in 0 .. m
        PROVE  g[n] = Body(g, n)
    <3>1. CASE n = m
      BY <2>3, <3>1
    <3>2. CASE n # m
      <4>1. n \in 0 .. m - 1 /\ n - 1 # m /\ (n # 0 => n - 1 \in 0 .. m)
        BY <2>2, <3>2
      <4>2. g[n] = f[n] /\ f[n] = Body(f, n) /\ (n # 0 => g[n - 1] = f[n - 1])
        BY <2>5, <3>2, <4>1
      <4> QED
        BY <4>2
    <3> QED
      BY <3>1, <3>2
  <2>7. Upto(g, m)
    <3>1. g = [n \in 0 .. m |-> g[n]]
      OBVIOUS
    <3> HIDE DEF g
    <3> QED
      BY <2>6, <3>1
  <2> HIDE DEF Upto, g
  <2> QED
    BY <2>2, <2>7
<1> DEFINE kept == CHOOSE f : Upto(f, Len(s))
<1>2. Upto(kept, Len(s))
  BY <1>1
<1>3. Kept(s, ns) = kept[Len(s)]
  BY DEF Kept
<1> HIDE DEF kept
<1>4. DOMAIN kept = 0 .. Len(s) /\ \A n \in 0 .. Len(s) : kept[n] = Body(kept, n)
  BY <1>2
<1>5. \A n \in 1 .. Len(s) : kept[n] = KeptStep(s, ns, n, kept[n - 1])
  <2> TAKE n \in 1 .. Len(s)
  <2>1. n \in 0 .. Len(s) /\ n # 0
    OBVIOUS
  <2> QED
    BY <1>4, <2>1 DEF KeptStep
<1>6. kept[0] = <<>>
  BY <1>4
<1> QED
  BY <1>3, <1>4, <1>5, <1>6

\* t has the members of s at those positions ns that are at most n: pos tells the
\* position of each.
KeepsTo(t, pos, s, ns, n) ==
    /\ DOMAIN pos = DOMAIN t
    /\ \A i \in DOMAIN t : pos[i] \in ns /\ pos[i] <= n /\ t[i] = s[pos[i]]
    /\ \A i, j \in DOMAIN t : i < j => pos[i] < pos[j]
    /\ \A m \in ns : m <= n => \E i \in DOMAIN t : pos[i] = m

\* Keeping the member at n as well, or passing over it.
LEMMA KeepsOneMore ==
    ASSUME NEW S, NEW s \in Seq(S), NEW ns \in SUBSET (1 .. Len(s)), NEW n \in 1 .. Len(s),
           NEW t \in Seq(S), Len(t) <= n - 1, NEW pos, KeepsTo(t, pos, s, ns, n - 1)
    PROVE  /\ KeptStep(s, ns, n, t) \in Seq(S)
           /\ Len(KeptStep(s, ns, n, t)) <= n
           /\ \E more : KeepsTo(KeptStep(s, ns, n, t), more, s, ns, n)
<1>0. /\ DOMAIN t = 1 .. Len(t) /\ Len(t) \in Nat /\ n \in Nat
      /\ \A m \in ns : m \in Int
  OBVIOUS
<1>1. CASE n \notin ns
  <2>1. KeptStep(s, ns, n, t) = t
    BY <1>1 DEF KeptStep
  <2>2. \A m \in ns : m <= n => m <= n - 1
    BY <1>1
  <2>3. \A i \in DOMAIN t : pos[i] \in Int /\ pos[i] <= n
    <3> TAKE i \in DOMAIN t
    <3>1. pos[i] \in ns /\ pos[i] <= n - 1
      BY DEF KeepsTo
    <3>2. pos[i] \in Int
      BY <1>0, <3>1
    <3> QED
      BY <1>0, <3>1, <3>2
  <2>4. KeepsTo(t, pos, s, ns, n)
    BY <2>2, <2>3 DEF KeepsTo
  <2>5. Len(t) <= n
    BY <1>0
  <2> QED
    BY <2>1, <2>4, <2>5
<1>2. CASE n \in ns
  <2> DEFINE u == Append(t, s[n])
             more == [i \in 1 .. Len(t) + 1 |-> IF i = Len(t) + 1 THEN n ELSE pos[i]]
  <2>1. KeptStep(s, ns, n, t) = u
    BY <1>2 DEF KeptStep
  <2>2. /\ u \in Seq(S) /\ Len(u) = Len(t) + 1 /\ DOMAIN u = 1 .. Len(t) + 1
        /\ u[Len(t) + 1] = s[n]
        /\ \A i \in 1 .. Len(t) : u[i] = t[i]
    BY <1>0
  <2>3. /\ DOMAIN more = 1 .. Len(t) + 1 /\ more[Len(t) + 1] = n
        /\ \A i \in 1 .. Len(t) : more[i] = pos[i]
    BY <1>0
  <2> HIDE DEF u, more
  <2>4. \A i \in 1 .. Len(t) + 1 : i = Len(t) + 1 \/ i \in 1 .. Len(t)
    BY <1>0
  <2>5. \A i \in 1 .. Len(t) : pos[i] \in ns /\ pos[i] \in Int /\ pos[i] <= n - 1 /\ t[i] = s[pos[i]]
    BY <1>0 DEF KeepsTo
  <2>6. \A i \in DOMAIN u : more[i] \in ns /\ more[i] <= n /\ u[i] = s[more[i]]
    BY <1>0, <1>2, <2>2, <2>3, <2>4, <2>5
  <2>7. \A i, j \in DOMAIN u : i < j => more[i] < more[j]
    <3> TAKE i, j \in DOMAIN u
    <3> HAVE i < j
    <3>1. i \in 1 .. Len(t)
      BY <1>0, <2>2
    <3>2. CASE j = Len(t) + 1
      BY <1>0, <2>3, <2>5, <3>1, <3>2
    <3>3. CASE j \in 1 .. Len(t)
      BY <1>0, <2>3, <3>1, <3>3 DEF KeepsTo
    <3> QED
      BY <2>2, <2>4, <3>2, <3>3
  <2>8. \A m \in ns : m <= n => \E i \in DOMAIN u : more[i] = m
    <3> TAKE m \in ns
    <3> HAVE m <= n
    <3>1. CASE m = n
      BY <1>0, <2>2, <2>3, <3>1
    <3>2. CASE m # n
      <4>1. m <= n - 1
        BY <1>0, <3>2
      <4>2. PICK i \in 1 .. Len(t) : pos[i] = m
        BY <1>0, <4>1 DEF KeepsTo
      <4>3. i \in DOMAIN u
        BY <1>0, <2>2
      <4> QED
        BY <2>3, <4>2, <4>3
    <3> QED
      BY <3>1, <3>2
  <2>9. KeepsTo(u, more, s, ns, n)
    BY <2>2, <2>3, <2>6, <2>7, <2>8 DEF KeepsTo
  <2>10. Len(u) <= n
    BY <1>0, <2>2
  <2> QED
    BY <2>1, <2>2, <2>9, <2>10
<1> QED
  BY <1>1, <1>2

\* What Kept returns: the members at the given positions, each once and in order.
LEMMA KeptPositions ==
    ASSUME NEW S, NEW s \in Seq(S), NEW ns \in SUBSET (DOMAIN s)
    PROVE  /\ Kept(s, ns) \in Seq(S)
           /\ Len(Kept(s, ns)) <= Len(s)
           /\ \E pos : KeepsTo(Kept(s, ns), pos, s, ns, Len(s))
<1>1. Len(s) \in Nat /\ DOMAIN s = 1 .. Len(s)
  OBVIOUS
<1>2. PICK kept : /\ DOMAIN kept = 0 .. Len(s)
                  /\ kept[0] = <<>>
                  /\ \A n \in 1 .. Len(s) : kept[n] = KeptStep(s, ns, n, kept[n - 1])
                  /\ Kept(s, ns) = kept[Len(s)]
  BY <1>1, KeptByPosition
<1> DEFINE Good(n) == /\ kept[n] \in Seq(S) /\ Len(kept[n]) <= n
                      /\ \E pos : KeepsTo(kept[n], pos, s, ns, n)
           Bad == {n \in 0 .. Len(s) : ~ Good(n)}
<1>3. Good(0)
  <2>1. \A m \in ns : ~ (m <= 0)
    BY <1>1
  <2>2. KeepsTo(<<>>, <<>>, s, ns, 0)
    BY <2>1 DEF KeepsTo
  <2> QED
    BY <1>2, <2>2
<1>4. Bad = {}
  <2>1. SUFFICES ASSUME Bad # {} PROVE FALSE
    OBVIOUS
  <2>2. PICK n \in Bad : \A m \in Bad : n <= m
    <3>1. Bad \in SUBSET Nat
      OBVIOUS
    <3> HIDE DEF Bad
    <3> QED
      BY <2>1, <3>1, LeastNatural
  <2>3. n \in 1 .. Len(s) /\ n - 1 \in 0 .. Len(s)
    <3> HIDE DEF Good
    <3> QED
      BY <1>1, <1>3
  <2>4. n - 1 \notin Bad
    <3> HIDE DEF Bad
    <3> QED
      BY <2>2, <2>3
  <2>5. Good(n - 1)
    <3> HIDE DEF Good
    <3> QED
      BY <2>3, <2>4
  <2>6. PICK pos : KeepsTo(kept[n - 1], pos, s, ns, n - 1)
    BY <2>5
  <2>7. Good(n)
    BY <1>1, <1>2, <2>3, <2>5, <2>6, KeepsOneMore
  <2> HIDE DEF Good
  <2> QED
    BY <2>7
<1>5. Good(Len(s))
  <2> HIDE DEF Good
  <2> QED
    BY <1>1, <1>4
<1> QED
  BY <1>2, <1>5

-----------------------------------------------------------------------------
(* Extreme members.                                                        *)

LEMMA MaxOfBounded ==
    ASSUME NEW T \in SUBSET Int, T # {}, NEW b \in Int, \A t \in T : t <= b
    PROVE  Max(T) \in T /\ \A t \in T : t <= Max(T)
<1> DEFINE Below == {b - t : t \in T}
<1>1. PICK m \in Below : \A n \in Below : m <= n
  <2>1. Below \in SUBSET Nat /\ Below # {}
    <3>1. \A t \in T : b - t \in Nat
      OBVIOUS
    <3> QED
      BY <3>1
  <2> HIDE DEF Below
  <2> QED
    BY <2>1, LeastNatural
<1>2. PICK t \in T : m = b - t
  BY <1>1
<1>3. \A u \in T : t >= u
  <2> TAKE u \in T
  <2>1. m <= b - u
    BY <1>1
  <2>2. t \in Int /\ u \in Int
    OBVIOUS
  <2> QED
    BY <1>2, <2>1, <2>2
<1> QED
  BY <1>2, <1>3 DEF Max

LEMMA MinOfBounded ==
    ASSUME NEW T \in SUBSET Int, T # {}, NEW b \in Int, \A t \in T : b <= t
    PROVE  Min(T) \in T /\ \A t \in T : Min(T) <= t
<1> DEFINE Above == {t - b : t \in T}
<1>1. PICK m \in Above : \A n \in Above : m <= n
  <2>1. Above \in SUBSET Nat /\ Above # {}
    <3>1. \A t \in T : t - b \in Nat
      OBVIOUS
    <3> QED
      BY <3>1
  <2> HIDE DEF Above
  <2> QED
    BY <2>1, LeastNatural
<1>2. PICK t \in T : m = t - b
  BY <1>1
<1>3. \A u \in T : t =< u
  <2> TAKE u \in T
  <2>1. m <= u - b
    BY <1>1
  <2>2. t \in Int /\ u \in Int
    OBVIOUS
  <2> QED
    BY <1>2, <2>1, <2>2
<1> QED
  BY <1>2, <1>3 DEF Min

\* The members of a list of integers have a lower bound.
LEMMA BoundedBelow ==
    ASSUME NEW n \in Nat, NEW f, \A i \in 1 .. n : f[i] \in Int
    PROVE  \E low \in Int : \A i \in 1 .. n : low <= f[i]
<1> DEFINE Below(k) == \E low \in Int : \A i \in 1 .. k : low <= f[i]
           Bad == {k \in 0 .. n : ~ Below(k)}
<1>1. Below(0)
  <2>1. 1 .. 0 = {} /\ 0 \in Int
    OBVIOUS
  <2> QED
    BY <2>1
<1>2. ASSUME NEW k \in 1 .. n, Below(k - 1)
      PROVE  Below(k)
  <2>1. PICK low \in Int : \A i \in 1 .. k - 1 : low <= f[i]
    BY <1>2
  <2>2. PICK c \in Int : c = f[k]
    OBVIOUS
  <2>3. \A i \in 1 .. k : i = k \/ i \in 1 .. k - 1
    OBVIOUS
  <2>4. CASE low <= c
    BY <2>1, <2>2, <2>3, <2>4
  <2>5. CASE c < low
    <3>1. \A i \in 1 .. k : c <= f[i]
      <4> TAKE i \in 1 .. k
      <4>1. f[i] \in Int
        OBVIOUS
      <4> QED
        BY <2>1, <2>2, <2>3, <2>5, <4>1
    <3> QED
      BY <3>1
  <2> QED
    BY <2>4, <2>5
<1>3. Bad = {}
  <2>1. SUFFICES ASSUME Bad # {} PROVE FALSE
    OBVIOUS
  <2>2. PICK k \in Bad : \A m \in Bad : k <= m
    <3>1. Bad \in SUBSET Nat
      OBVIOUS
    <3> HIDE DEF Bad
    <3> QED
      BY <2>1, <3>1, LeastNatural
  <2> HIDE DEF Below
  <2>3. k \in 0 .. n /\ ~ Below(k)
    OBVIOUS
  <2>4. k \in 1 .. n /\ k - 1 \in 0 .. n
    BY <1>1, <2>3
  <2>5. k - 1 \notin Bad
    <3> HIDE DEF Bad
    <3> QED
      BY <2>2, <2>4
  <2> QED
    BY <1>2, <2>3, <2>4, <2>5
<1>4. Below(n)
  <2> HIDE DEF Below
  <2> QED
    BY <1>3
<1> QED
  BY <1>4

LEMMA LeastOfList ==
    ASSUME NEW n \in Nat \ {0}, NEW f, \A i \in 1 .. n : f[i] \in Int
    PROVE  LET least == Min({f[i] : i \in 1 .. n})
           IN  least \in Int /\ \A i \in 1 .. n : least <= f[i]
<1> DEFINE T == {f[i] : i \in 1 .. n}
<1>1. T \in SUBSET Int /\ T # {} /\ \A i \in 1 .. n : f[i] \in T
  OBVIOUS
<1>2. PICK low \in Int : \A i \in 1 .. n : low <= f[i]
  BY BoundedBelow
<1>3. \A t \in T : low <= t
  BY <1>2
<1> HIDE DEF T
<1>4. Min(T) \in T /\ \A t \in T : Min(T) <= t
  BY <1>1, <1>3, MinOfBounded
<1>5. Min(T) \in Int /\ \A i \in 1 .. n : Min(T) <= f[i]
  BY <1>1, <1>4
<1> QED
  BY <1>5 DEF T

LEMMA GreatestOfList ==
    ASSUME NEW n \in Nat \ {0}, NEW f, \A i \in 1 .. n : f[i] \in Int
    PROVE  LET greatest == Max({f[i] : i \in 1 .. n})
           IN  greatest \in Int /\ \A i \in 1 .. n : f[i] <= greatest
<1> DEFINE T == {f[i] : i \in 1 .. n}
           g == [i \in 1 .. n |-> - f[i]]
<1>1. T \in SUBSET Int /\ T # {} /\ \A i \in 1 .. n : f[i] \in T
  OBVIOUS
<1>2. \A i \in 1 .. n : g[i] \in Int /\ g[i] = - f[i]
  OBVIOUS
<1> HIDE DEF g
<1>3. PICK low \in Int : \A i \in 1 .. n : low <= g[i]
  BY <1>2, BoundedBelow
<1>4. - low \in Int /\ \A i \in 1 .. n : f[i] <= - low
  BY <1>2, <1>3
<1>5. \A t \in T : t <= - low
  BY <1>4
<1> HIDE DEF T
<1>6. Max(T) \in T /\ \A t \in T : t <= Max(T)
  BY <1>1, <1>4, <1>5, MaxOfBounded
<1>7. Max(T) \in Int /\ \A i \in 1 .. n : f[i] <= Max(T)
  BY <1>1, <1>6
<1> QED
  BY <1>7 DEF T

\* KeyOf finds the last key of the element's id, 0 when there is none.
LEMMA KeyOfIsLast ==
    ASSUME NEW K, NEW keys \in Seq(K), NEW e
    PROVE  \/ /\ KeyOf(e, keys) = 0
              /\ \A n \in DOMAIN keys : keys[n].id # e.id
           \/ /\ KeyOf(e, keys) \in DOMAIN keys
              /\ keys[KeyOf(e, keys)].id = e.id
              /\ \A n \in DOMAIN keys : keys[n].id = e.id => n <= KeyOf(e, keys)
<1> DEFINE I == {n \in 1 .. Len(keys) : keys[n].id = e.id}
<1>1. KeyOf(e, keys) = IF I # {} THEN Max(I) ELSE 0
  BY DEF KeyOf, SelectLastInSeq
<1>2. DOMAIN keys = 1 .. Len(keys) /\ Len(keys) \in Nat
  OBVIOUS
<1>3. CASE I = {}
  BY <1>1, <1>2, <1>3
<1>4. CASE I # {}
  <2>1. I \in SUBSET Int /\ Len(keys) \in Int /\ \A n \in I : n <= Len(keys)
    BY <1>2
  <2>2. Max(I) \in I /\ \A n \in I : n <= Max(I)
    <3> HIDE DEF I
    <3> QED
      BY <1>4, <2>1, MaxOfBounded
  <2> QED
    BY <1>1, <1>2, <1>4, <2>2
<1> QED
  BY <1>3, <1>4

-----------------------------------------------------------------------------
(* Conversions between the views.                                          *)

LEMMA ConversionTypes ==
    ASSUME NEW pitch \in Nat \ {0}, NEW v \in Int
    PROVE  ToMm(v, pitch) \in Int /\ ToUnits(v, pitch) \in Int
<1>1. ASSUME NEW a \in Int, NEW b \in Int, NEW c \in Nat \ {0}
      PROVE  Scaled(a, b, c) \in Int
  <2>1. a \div c \in Int /\ a % c \in Int
    OBVIOUS
  <2>2. PICK q \in Int, r \in Int : q = a \div c /\ r = a % c
    BY <2>1
  <2>3. q * b \in Int /\ r * b \in Int
    OBVIOUS
  <2>4. (r * b) \div c \in Int
    BY <2>3
  <2> QED
    BY <2>2, <2>3, <2>4 DEF Scaled
<1>2. UnitPitch \in Nat \ {0}
  BY DEF UnitPitch
<1> QED
  BY <1>1, <1>2 DEF ToMm, ToUnits

LEMMA ElementToKeyType ==
    ASSUME NEW pitch \in Nat \ {0}, NEW e \in PlacedElementSpec
    PROVE  ElementToKey(e, pitch) \in KeySpec
<1>1. /\ ToUnits(e.x, pitch) \in Int /\ ToUnits(e.y, pitch) \in Int
      /\ ToUnits(e.w, pitch) \in Int /\ ToUnits(e.h, pitch) \in Int
  BY ConversionTypes DEF PlacedElementSpec
<1> QED
  BY <1>1 DEF ElementToKey, PlacedElementSpec, KeySpec

LEMMA KeyToElementType ==
    ASSUME NEW pitch \in Nat \ {0}, NEW k \in KeySpec
    PROVE  KeyToElement(k, pitch) \in PlacedElementSpec
<1>1. /\ ToMm(k.x, pitch) \in Int /\ ToMm(k.y, pitch) \in Int
      /\ ToMm(k.w, pitch) \in Int /\ ToMm(k.h, pitch) \in Int
  BY ConversionTypes DEF KeySpec
<1>2. "key_switch" \in ElementTypes
  BY DEF ElementTypes, KeyLike
<1>3. /\ k.id \in STRING /\ k.label \in STRING /\ k.asset \in STRING
      /\ k.rot \in Int /\ k.stab \in BOOLEAN /\ k.at \in Place
  BY DEF KeySpec
<1>4. "mx_switch" \in Footprints
  BY FootprintsAssumption
<1> QED
  BY <1>1, <1>2, <1>3, <1>4 DEF KeyToElement, PlacedElementSpec

\* The key view has one key for each key-like element, in order.
LEMMA KeyViewPositions ==
    ASSUME NEW pitch \in Nat \ {0}, NEW elements \in Seq(PlacedElementSpec)
    PROVE  /\ KeyView(elements, pitch) \in Seq(KeySpec)
           /\ Len(KeyView(elements, pitch)) <= Len(elements)
           /\ \E pos :
                  /\ DOMAIN pos = DOMAIN KeyView(elements, pitch)
                  /\ \A i \in DOMAIN pos :
                         /\ pos[i] \in KeyLikeOf(elements)
                         /\ KeyView(elements, pitch)[i] = ElementToKey(elements[pos[i]], pitch)
                  /\ \A i, j \in DOMAIN pos : i < j => pos[i] < pos[j]
                  /\ \A m \in KeyLikeOf(elements) : \E i \in DOMAIN pos : pos[i] = m
<1> DEFINE keyed == Kept(elements, KeyLikeOf(elements))
<1>1. KeyLikeOf(elements) \in SUBSET (DOMAIN elements)
  BY DEF KeyLikeOf
<1>2. /\ keyed \in Seq(PlacedElementSpec) /\ Len(keyed) <= Len(elements)
      /\ \E pos : KeepsTo(keyed, pos, elements, KeyLikeOf(elements), Len(elements))
  BY <1>1, KeptPositions
<1>3. PICK pos : KeepsTo(keyed, pos, elements, KeyLikeOf(elements), Len(elements))
  BY <1>2
<1>4. KeyView(elements, pitch) = [n \in DOMAIN keyed |-> ElementToKey(keyed[n], pitch)]
  BY DEF KeyView
<1> HIDE DEF keyed
<1>5. /\ DOMAIN keyed = 1 .. Len(keyed) /\ Len(keyed) \in Nat
      /\ \A n \in DOMAIN keyed : keyed[n] \in PlacedElementSpec
  BY <1>2
<1>6. KeyView(elements, pitch) \in Seq(KeySpec) /\ Len(KeyView(elements, pitch)) = Len(keyed)
  BY <1>4, <1>5, ElementToKeyType
<1>7. \A m \in KeyLikeOf(elements) : m <= Len(elements)
  BY <1>1
<1>8. /\ DOMAIN pos = DOMAIN KeyView(elements, pitch)
      /\ \A i \in DOMAIN pos :
             /\ pos[i] \in KeyLikeOf(elements)
             /\ KeyView(elements, pitch)[i] = ElementToKey(elements[pos[i]], pitch)
      /\ \A i, j \in DOMAIN pos : i < j => pos[i] < pos[j]
      /\ \A m \in KeyLikeOf(elements) : \E i \in DOMAIN pos : pos[i] = m
  BY <1>3, <1>4, <1>7 DEF KeepsTo
<1> QED
  BY <1>2, <1>6, <1>8

\* The key that speaks for a key-like element is made from the last key-like
\* element of its id.
LEMMA SpeaksForElement ==
    ASSUME NEW pitch \in Nat \ {0}, NEW elements \in Seq(PlacedElementSpec),
           NEW n \in KeyLikeOf(elements)
    PROVE  LET keys == KeyView(elements, pitch)
           IN  /\ KeyOf(elements[n], keys) # 0
               /\ \E m \in KeyLikeOf(elements) :
                      /\ elements[m].id = elements[n].id
                      /\ \A i \in KeyLikeOf(elements) : elements[i].id = elements[n].id => i <= m
                      /\ keys[KeyOf(elements[n], keys)] = ElementToKey(elements[m], pitch)
<1> DEFINE keys == KeyView(elements, pitch)
           k == KeyOf(elements[n], keys)
<1>1. keys \in Seq(KeySpec) /\ DOMAIN keys = 1 .. Len(keys)
  BY KeyViewPositions
<1>2. PICK pos :
          /\ DOMAIN pos = DOMAIN keys
          /\ \A i \in DOMAIN pos :
                 pos[i] \in KeyLikeOf(elements) /\ keys[i] = ElementToKey(elements[pos[i]], pitch)
          /\ \A i, j \in DOMAIN pos : i < j => pos[i] < pos[j]
          /\ \A m \in KeyLikeOf(elements) : \E i \in DOMAIN pos : pos[i] = m
  BY KeyViewPositions
<1> HIDE DEF keys
<1>3. \A i \in DOMAIN pos : keys[i].id = elements[pos[i]].id
  BY <1>2 DEF ElementToKey
<1>4. PICK own \in DOMAIN pos : pos[own] = n
  BY <1>2
<1>5. /\ k \in DOMAIN keys /\ keys[k].id = elements[n].id
      /\ \A i \in DOMAIN keys : keys[i].id = elements[n].id => i <= k
  BY <1>1, <1>2, <1>3, <1>4, KeyOfIsLast
<1>6. ASSUME NEW i \in KeyLikeOf(elements), elements[i].id = elements[n].id
      PROVE  i <= pos[k]
  <2>1. PICK j \in DOMAIN pos : pos[j] = i
    BY <1>2
  <2>2. j <= k
    BY <1>2, <1>3, <1>5, <1>6, <2>1
  <2>3. j \in Int /\ k \in Int /\ i \in Int /\ pos[k] \in Int
    BY <1>1, <1>2, <1>5 DEF KeyLikeOf
  <2>4. CASE j < k
    BY <1>2, <1>5, <2>1, <2>3, <2>4
  <2>5. CASE j = k
    BY <2>1, <2>3, <2>5
  <2> QED
    BY <2>2, <2>3, <2>4, <2>5
<1>7. k # 0 /\ pos[k] \in KeyLikeOf(elements) /\ elements[pos[k]].id = elements[n].id
      /\ keys[k] = ElementToKey(elements[pos[k]], pitch)
  BY <1>1, <1>2, <1>3, <1>5
<1> QED
  BY <1>6, <1>7 DEF keys

-----------------------------------------------------------------------------
(* Documents: what LayoutSpec returns.                                     *)

\* Its lengths convert without rounding.
ExactElements(elements, pitch) ==
    \A n \in DOMAIN elements : \A field \in Lengths :
        ToMm(ToUnits(elements[n][field], pitch), pitch) = elements[n][field]

IsDocument(d) ==
    /\ d \in LayoutFields
    /\ d = WithKeyView(d.elements, d.pitch)
    /\ ExactElements(d.elements, d.pitch)

\* The fields in which two key-like elements of one id may differ after a parse:
\* type and footprint.  Their appearance is told twice.
Agree(e, f) ==
    /\ e.label = f.label /\ e.x = f.x /\ e.y = f.y /\ e.w = f.w /\ e.h = f.h
    /\ e.rot = f.rot /\ e.stab = f.stab /\ e.asset = f.asset /\ e.at = f.at

Settled(elements) ==
    \A n \in KeyLikeOf(elements) :
        /\ elements[n].footprint # "none" /\ elements[n].look = elements[n].asset
        /\ \A m \in KeyLikeOf(elements) :
               elements[m].id = elements[n].id => Agree(elements[m], elements[n])

\* An element e that is parsed again while f speaks for its id.
Resynced(e, f) ==
    [id |-> f.id, type |-> e.type, label |-> f.label,
     footprint |-> IF e.footprint # "none" THEN e.footprint ELSE "mx_switch",
     x |-> f.x, y |-> f.y, w |-> f.w, h |-> f.h, rot |-> f.rot, stab |-> f.stab,
     asset |-> AssignedAsset(f), look |-> AssignedAsset(f), at |-> f.at]

\* The key of an element without rounding becomes the element again.
LEMMA Resync ==
    ASSUME NEW pitch, NEW e, NEW f,
           ToMm(ToUnits(f.x, pitch), pitch) = f.x, ToMm(ToUnits(f.y, pitch), pitch) = f.y,
           ToMm(ToUnits(f.w, pitch), pitch) = f.w, ToMm(ToUnits(f.h, pitch), pitch) = f.h
    PROVE  Overridden(e, KeyToElement(ElementToKey(f, pitch), pitch)) = Resynced(e, f)
<1> DEFINE k == ElementToKey(f, pitch)
<1>1. /\ k.id = f.id /\ k.label = f.label /\ k.rot = f.rot /\ k.stab = f.stab /\ k.at = f.at
      /\ k.asset = AssignedAsset(f)
      /\ ToMm(k.x, pitch) = f.x /\ ToMm(k.y, pitch) = f.y
      /\ ToMm(k.w, pitch) = f.w /\ ToMm(k.h, pitch) = f.h
  BY DEF ElementToKey, AssignedAsset
<1> HIDE DEF k
<1>2. PICK told : told = KeyToElement(k, pitch)
  OBVIOUS
<1>3. PICK a : a = AssignedAsset(f)
  OBVIOUS
<1>4. told = [id |-> f.id, type |-> "key_switch", label |-> f.label, footprint |-> "mx_switch",
              x |-> f.x, y |-> f.y, w |-> f.w, h |-> f.h, rot |-> f.rot, stab |-> f.stab,
              asset |-> a, look |-> a, at |-> f.at]
  BY <1>1, <1>2, <1>3 DEF KeyToElement
<1>5. PICK print : print = IF e.footprint # "none" THEN e.footprint ELSE "mx_switch"
  OBVIOUS
<1>6. PICK u : u = [told EXCEPT !.type = e.type, !.footprint = print]
  OBVIOUS
<1>7. u = [id |-> f.id, type |-> e.type, label |-> f.label, footprint |-> print,
           x |-> f.x, y |-> f.y, w |-> f.w, h |-> f.h, rot |-> f.rot, stab |-> f.stab,
           asset |-> a, look |-> a, at |-> f.at]
  BY <1>4, <1>6
<1>8. u = Overridden(e, told)
  <2>1. print = IF e.footprint # "none" THEN e.footprint ELSE told.footprint
    BY <1>4, <1>5
  <2> QED
    BY <1>6, <2>1 DEF Overridden
<1>9. u = Resynced(e, f)
  BY <1>3, <1>5, <1>7 DEF Resynced
<1> QED
  BY <1>2, <1>8, <1>9 DEF k

LEMMA DocumentOf ==
    ASSUME NEW pitch \in Nat \ {0}, NEW elements \in Seq(PlacedElementSpec),
           ExactElements(elements, pitch)
    PROVE  IsDocument(WithKeyView(elements, pitch))
  BY KeyViewPositions DEF IsDocument, WithKeyView, LayoutFields

LEMMA KeptNone ==
    ASSUME NEW S, NEW s \in Seq(S)
    PROVE  Kept(s, {}) = <<>>
<1>1. Kept(s, {}) \in Seq(S) /\ \E pos : KeepsTo(Kept(s, {}), pos, s, {}, Len(s))
  BY KeptPositions
<1>2. DOMAIN Kept(s, {}) = {}
  BY <1>1 DEF KeepsTo
<1> QED
  BY <1>1, <1>2

\* A payload without keys keeps its elements.
LEMMA OfElementsKeeps ==
    ASSUME NEW pitch \in Nat \ {0}, NEW elements \in Seq(PlacedElementSpec)
    PROVE  OfElements(elements, pitch) = WithKeyView(elements, pitch)
<1> DEFINE p == [pitch |-> pitch, keys |-> <<>>, elements |-> elements]
<1>1. <<>> \in Seq(KeySpec) /\ DOMAIN <<>> = {}
  OBVIOUS
<1>2. ASSUME NEW n \in DOMAIN elements
      PROVE  Synced(elements[n], <<>>, pitch) = elements[n]
  <2>1. KeyOf(elements[n], <<>>) = 0
    BY <1>1, KeyOfIsLast
  <2> QED
    BY <2>1 DEF Synced
<1>3. ExtraKeys(p) = {}
  BY <1>1 DEF ExtraKeys
<1>4. Kept(p.keys, ExtraKeys(p)) = <<>>
  BY <1>1, <1>3, KeptNone
<1>5. [n \in DOMAIN p.elements |-> Synced(p.elements[n], p.keys, p.pitch)] = elements
  BY <1>2
<1>6. SyncedElements(p) = elements \o <<>>
  BY <1>4, <1>5 DEF SyncedElements
<1>7. elements \o <<>> = elements
  OBVIOUS
<1> QED
  BY <1>6, <1>7 DEF OfElements, LayoutSpec

\* A document that is parsed again keeps its elements but for the key-like ones,
\* which are told anew by the last one of their id.
LEMMA ParsedAgain ==
    ASSUME NEW d, IsDocument(d)
    PROVE  LET again == LayoutSpec(d).elements
           IN  /\ LayoutSpec(d) = WithKeyView(again, d.pitch)
               /\ DOMAIN again = DOMAIN d.elements /\ Len(again) = Len(d.elements)
               /\ \A n \in DOMAIN again :
                      IF n \in KeyLikeOf(d.elements)
                      THEN \E m \in KeyLikeOf(d.elements) :
                               /\ d.elements[m].id = d.elements[n].id
                               /\ \A i \in KeyLikeOf(d.elements) :
                                      d.elements[i].id = d.elements[n].id => i <= m
                               /\ again[n] = Resynced(d.elements[n], d.elements[m])
                      ELSE again[n] = d.elements[n]
<1> DEFINE es == d.elements
           keys == KeyView(es, d.pitch)
           again == LayoutSpec(d).elements
<1>1. /\ d.pitch \in Nat \ {0} /\ es \in Seq(PlacedElementSpec) /\ d.keys = keys
      /\ ExactElements(es, d.pitch)
  BY DEF IsDocument, LayoutFields, WithKeyView
<1>2. keys \in Seq(KeySpec)
  BY <1>1, KeyViewPositions
<1>3. ExtraKeys(d) = {}
  <2>1. ASSUME NEW k \in DOMAIN keys
        PROVE  \E n \in DOMAIN es : es[n].id = keys[k].id
    <3>1. PICK pos :
              /\ DOMAIN pos = DOMAIN keys
              /\ \A i \in DOMAIN pos :
                     pos[i] \in KeyLikeOf(es) /\ keys[i] = ElementToKey(es[pos[i]], d.pitch)
      <4> HIDE DEF keys, es
      <4> QED
        BY <1>1, KeyViewPositions DEF keys
    <3>2. pos[k] \in DOMAIN es /\ keys[k].id = es[pos[k]].id
      <4> HIDE DEF keys
      <4> QED
        BY <3>1 DEF KeyLikeOf, ElementToKey
    <3> QED
      BY <3>2
  <2> HIDE DEF es, keys
  <2> QED
    BY <1>1, <2>1 DEF ExtraKeys, es
<1>4. Kept(d.keys, ExtraKeys(d)) = <<>>
  BY <1>1, <1>2, <1>3, KeptNone
<1>5. SyncedElements(d) = [n \in DOMAIN es |-> Synced(es[n], keys, d.pitch)] \o <<>>
  BY <1>1, <1>4 DEF SyncedElements
<1>6. ASSUME NEW n \in DOMAIN es
      PROVE  IF n \in KeyLikeOf(es)
             THEN \E m \in KeyLikeOf(es) :
                      /\ es[m].id = es[n].id
                      /\ \A i \in KeyLikeOf(es) : es[i].id = es[n].id => i <= m
                      /\ Synced(es[n], keys, d.pitch) = Resynced(es[n], es[m])
             ELSE Synced(es[n], keys, d.pitch) = es[n]
  <2>1. CASE n \notin KeyLikeOf(es)
    BY <2>1 DEF KeyLikeOf, Synced
  <2>2. CASE n \in KeyLikeOf(es)
    <3>1. KeyOf(es[n], keys) # 0
      BY <1>1, <2>2, SpeaksForElement
    <3>2. PICK m \in KeyLikeOf(es) :
              /\ es[m].id = es[n].id
              /\ \A i \in KeyLikeOf(es) : es[i].id = es[n].id => i <= m
              /\ keys[KeyOf(es[n], keys)] = ElementToKey(es[m], d.pitch)
      BY <1>1, <2>2, SpeaksForElement
    <3>3. /\ ToMm(ToUnits(es[m].x, d.pitch), d.pitch) = es[m].x
          /\ ToMm(ToUnits(es[m].y, d.pitch), d.pitch) = es[m].y
          /\ ToMm(ToUnits(es[m].w, d.pitch), d.pitch) = es[m].w
          /\ ToMm(ToUnits(es[m].h, d.pitch), d.pitch) = es[m].h
      BY <1>1 DEF ExactElements, Lengths, KeyLikeOf
    <3>4. es[n].type \in KeyLike
      BY <2>2 DEF KeyLikeOf
    <3>5. Synced(es[n], keys, d.pitch) = Resynced(es[n], es[m])
      <4>1. Synced(es[n], keys, d.pitch) =
                Overridden(es[n], KeyToElement(ElementToKey(es[m], d.pitch), d.pitch))
        BY <3>1, <3>2, <3>4 DEF Synced
      <4>2. PICK e, f : e = es[n] /\ f = es[m]
        OBVIOUS
      <4>3. Overridden(e, KeyToElement(ElementToKey(f, d.pitch), d.pitch)) = Resynced(e, f)
        BY <3>3, <4>2, Resync
      <4> QED
        BY <4>1, <4>2, <4>3
    <3> QED
      BY <2>2, <3>2, <3>5
  <2> QED
    BY <2>1, <2>2
<1>7. again = [n \in DOMAIN es |-> Synced(es[n], keys, d.pitch)]
  <2>1. again = SyncedElements(d)
    BY DEF LayoutSpec, WithKeyView
  <2>2. DOMAIN es = 1 .. Len(es) /\ Len(es) \in Nat
    BY <1>1
  <2> DEFINE f == [n \in DOMAIN es |-> Synced(es[n], keys, d.pitch)]
  <2>3. f \in Seq({Synced(es[n], keys, d.pitch) : n \in DOMAIN es})
    BY <2>2
  <2>4. f \o <<>> = f
    <3> HIDE DEF f
    <3> QED
      BY <2>3
  <2> QED
    BY <1>5, <2>1, <2>4
<1>8. DOMAIN again = DOMAIN es /\ Len(again) = Len(es)
  BY <1>1, <1>7
<1>9. LayoutSpec(d) = WithKeyView(again, d.pitch)
  BY DEF LayoutSpec, WithKeyView
<1> HIDE DEF again, keys
<1> QED
  BY <1>6, <1>7, <1>8, <1>9 DEF again

LEMMA ResyncedSame ==
    ASSUME NEW e \in PlacedElementSpec, NEW f \in PlacedElementSpec,
           e.id = f.id, Agree(f, e), e.footprint # "none", e.look = e.asset, f.look = f.asset
    PROVE  Resynced(e, f) = e
<1>1. AssignedAsset(f) = e.asset
  BY DEF AssignedAsset, Agree
<1>2. Resynced(e, f) =
          [id |-> e.id, type |-> e.type, label |-> e.label, footprint |-> e.footprint,
           x |-> e.x, y |-> e.y, w |-> e.w, h |-> e.h, rot |-> e.rot, stab |-> e.stab,
           asset |-> e.asset, look |-> e.look, at |-> e.at]
  BY <1>1 DEF Resynced, Agree
<1>3. e = [id |-> e.id, type |-> e.type, label |-> e.label, footprint |-> e.footprint,
           x |-> e.x, y |-> e.y, w |-> e.w, h |-> e.h, rot |-> e.rot, stab |-> e.stab,
           asset |-> e.asset, look |-> e.look, at |-> e.at]
  BY DEF PlacedElementSpec
<1> QED
  BY <1>2, <1>3

LEMMA ResyncedType ==
    ASSUME NEW e \in PlacedElementSpec, NEW f \in PlacedElementSpec
    PROVE  /\ Resynced(e, f) \in PlacedElementSpec
           /\ Resynced(e, f).footprint # "none"
           /\ Resynced(e, f).look = Resynced(e, f).asset
           /\ \A field \in Lengths : Resynced(e, f)[field] = f[field]
<1>1. AssignedAsset(f) \in STRING
  BY DEF AssignedAsset, PlacedElementSpec
<1>2. (IF e.footprint # "none" THEN e.footprint ELSE "mx_switch") \in Footprints
  BY FootprintsAssumption DEF PlacedElementSpec
<1>3. Resynced(e, f) \in PlacedElementSpec
  BY <1>1, <1>2 DEF Resynced, PlacedElementSpec
<1> QED
  BY <1>3 DEF Resynced, Lengths

\* A document whose key-like elements agree by id is what parsing it gives.
LEMMA SettledIsFixed ==
    ASSUME NEW d, IsDocument(d), Settled(d.elements)
    PROVE  LayoutSpec(d) = d
<1> DEFINE es == d.elements
           again == LayoutSpec(d).elements
<1>1. /\ es \in Seq(PlacedElementSpec) /\ \A n \in DOMAIN es : es[n] \in PlacedElementSpec
      /\ d = WithKeyView(es, d.pitch)
  BY DEF IsDocument, LayoutFields
<1>2. /\ LayoutSpec(d) = WithKeyView(again, d.pitch) /\ DOMAIN again = DOMAIN es
      /\ \A n \in DOMAIN again :
             IF n \in KeyLikeOf(es)
             THEN \E m \in KeyLikeOf(es) :
                      es[m].id = es[n].id /\ again[n] = Resynced(es[n], es[m])
             ELSE again[n] = es[n]
  BY ParsedAgain
<1>3. again = [n \in DOMAIN es |-> again[n]]
  BY <1>2 DEF LayoutSpec, WithKeyView, SyncedElements
<1>4. ASSUME NEW n \in DOMAIN es
      PROVE  again[n] = es[n]
  <2>1. CASE n \notin KeyLikeOf(es)
    BY <1>2, <2>1
  <2>2. CASE n \in KeyLikeOf(es)
    <3>1. PICK m \in KeyLikeOf(es) :
              es[m].id = es[n].id /\ again[n] = Resynced(es[n], es[m])
      BY <1>2, <2>2
    <3>2. m \in DOMAIN es
      BY DEF KeyLikeOf
    <3>3. /\ Agree(es[m], es[n])
          /\ es[n].footprint # "none" /\ es[n].look = es[n].asset /\ es[m].look = es[m].asset
      BY <2>2, <3>1 DEF Settled
    <3> QED
      BY <1>1, <3>1, <3>2, <3>3, ResyncedSame
  <2> QED
    BY <2>1, <2>2
<1>5. es = [n \in DOMAIN es |-> es[n]]
  BY <1>1
<1>6. again = es
  <2> HIDE DEF again, es
  <2> QED
    BY <1>2, <1>3, <1>4, <1>5
<1> QED
  BY <1>1, <1>2, <1>6

\* One parse makes them agree: it keeps the number of elements, their ids and their
\* types, and what it returns is a document again.
LEMMA ParsedSettles ==
    ASSUME NEW d, IsDocument(d)
    PROVE  LET again == LayoutSpec(d)
           IN  /\ IsDocument(again) /\ again.pitch = d.pitch
               /\ Settled(again.elements)
               /\ Len(again.elements) = Len(d.elements)
               /\ DOMAIN again.elements = DOMAIN d.elements
               /\ \A n \in DOMAIN d.elements :
                      /\ again.elements[n].id = d.elements[n].id
                      /\ again.elements[n].type = d.elements[n].type
<1> DEFINE es == d.elements
           again == LayoutSpec(d).elements
<1>1. /\ es \in Seq(PlacedElementSpec) /\ \A n \in DOMAIN es : es[n] \in PlacedElementSpec
      /\ d.pitch \in Nat \ {0} /\ ExactElements(es, d.pitch)
  BY DEF IsDocument, LayoutFields
<1>2. /\ LayoutSpec(d) = WithKeyView(again, d.pitch)
      /\ DOMAIN again = DOMAIN es /\ Len(again) = Len(es)
      /\ \A n \in DOMAIN again :
             IF n \in KeyLikeOf(es)
             THEN \E m \in KeyLikeOf(es) :
                      /\ es[m].id = es[n].id
                      /\ \A i \in KeyLikeOf(es) : es[i].id = es[n].id => i <= m
                      /\ again[n] = Resynced(es[n], es[m])
             ELSE again[n] = es[n]
  BY ParsedAgain
<1>3. ASSUME NEW n \in DOMAIN es
      PROVE  /\ again[n] \in PlacedElementSpec
             /\ again[n].id = es[n].id /\ again[n].type = es[n].type
             /\ \A field \in Lengths :
                    ToMm(ToUnits(again[n][field], d.pitch), d.pitch) = again[n][field]
  <2>1. CASE n \notin KeyLikeOf(es)
    BY <1>1, <1>2, <2>1 DEF ExactElements
  <2>2. CASE n \in KeyLikeOf(es)
    <3>1. PICK m \in KeyLikeOf(es) :
              es[m].id = es[n].id /\ again[n] = Resynced(es[n], es[m])
      BY <1>2, <2>2
    <3>2. m \in DOMAIN es
      BY DEF KeyLikeOf
    <3>3. again[n].id = es[m].id /\ again[n].type = es[n].type
      BY <3>1 DEF Resynced
    <3>4. /\ again[n] \in PlacedElementSpec
          /\ \A field \in Lengths : again[n][field] = es[m][field]
      BY <1>1, <3>1, <3>2, ResyncedType
    <3> QED
      BY <1>1, <3>1, <3>2, <3>3, <3>4 DEF ExactElements
  <2> QED
    BY <2>1, <2>2
<1>4. again \in Seq(PlacedElementSpec) /\ ExactElements(again, d.pitch)
  <2>1. again = [n \in 1 .. Len(es) |-> again[n]]
    BY <1>1, <1>2 DEF LayoutSpec, WithKeyView, SyncedElements
  <2>2. Len(es) \in Nat /\ DOMAIN es = 1 .. Len(es)
    BY <1>1
  <2>3. again \in Seq(PlacedElementSpec)
    <3> HIDE DEF again, es
    <3> QED
      BY <1>3, <2>1, <2>2
  <2> QED
    BY <1>2, <1>3, <2>3 DEF ExactElements
<1>5. IsDocument(LayoutSpec(d)) /\ LayoutSpec(d).pitch = d.pitch
  BY <1>1, <1>2, <1>4, DocumentOf DEF WithKeyView
<1>6. KeyLikeOf(again) = KeyLikeOf(es)
  <2> HIDE DEF again, es
  <2> QED
    BY <1>2, <1>3 DEF KeyLikeOf
<1>7. Settled(again)
  <2>1. ASSUME NEW n \in KeyLikeOf(es)
        PROVE  again[n].footprint # "none" /\ again[n].look = again[n].asset
    <3>1. n \in DOMAIN es
      BY DEF KeyLikeOf
    <3>2. PICK m \in KeyLikeOf(es) : again[n] = Resynced(es[n], es[m])
      BY <1>2, <3>1
    <3>3. m \in DOMAIN es
      BY DEF KeyLikeOf
    <3> QED
      BY <1>1, <3>1, <3>2, <3>3, ResyncedType
  <2>2. ASSUME NEW n \in KeyLikeOf(es), NEW k \in KeyLikeOf(es), again[k].id = again[n].id
        PROVE  Agree(again[k], again[n])
    <3>1. n \in DOMAIN es /\ k \in DOMAIN es /\ \A i \in KeyLikeOf(es) : i \in Int
      BY <1>1 DEF KeyLikeOf
    <3>2. PICK m \in KeyLikeOf(es) :
              /\ es[m].id = es[n].id
              /\ \A i \in KeyLikeOf(es) : es[i].id = es[n].id => i <= m
              /\ again[n] = Resynced(es[n], es[m])
      BY <1>2, <3>1
    <3>3. PICK l \in KeyLikeOf(es) :
              /\ es[l].id = es[k].id
              /\ \A i \in KeyLikeOf(es) : es[i].id = es[k].id => i <= l
              /\ again[k] = Resynced(es[k], es[l])
      BY <1>2, <3>1
    <3>4. es[k].id = es[n].id
      BY <1>3, <2>2, <3>1
    <3>5. m <= l /\ l <= m
      BY <3>2, <3>3, <3>4
    <3>6. m = l
      BY <3>1, <3>5
    <3> QED
      BY <3>2, <3>3, <3>6 DEF Resynced, Agree
  <2> HIDE DEF again
  <2> QED
    BY <1>6, <2>1, <2>2 DEF Settled
<1>8. LayoutSpec(d).elements = again
  OBVIOUS
<1> QED
  BY <1>2, <1>3, <1>5, <1>7

\* An element that converts without rounding.
ExactElement(e, pitch) == \A field \in Lengths : ToMm(ToUnits(e[field], pitch), pitch) = e[field]

LEMMA KeyToElementExact ==
    ASSUME NEW pitch \in Nat \ {0}, NEW k \in KeySpec,
           \A field \in Lengths : ToUnits(ToMm(k[field], pitch), pitch) = k[field]
    PROVE  ExactElement(KeyToElement(k, pitch), pitch)
  BY DEF ExactElement, KeyToElement, Lengths

LEMMA OverriddenFields ==
    ASSUME NEW e \in PlacedElementSpec, NEW told \in PlacedElementSpec
    PROVE  /\ Overridden(e, told) \in PlacedElementSpec
           /\ \A field \in Lengths : Overridden(e, told)[field] = told[field]
<1>1. PICK print : print = IF e.footprint # "none" THEN e.footprint ELSE told.footprint
  OBVIOUS
<1>2. print \in Footprints /\ e.type \in ElementTypes
  BY <1>1 DEF PlacedElementSpec
<1>3. PICK u : u = [told EXCEPT !.type = e.type, !.footprint = print]
  OBVIOUS
<1>4. u \in PlacedElementSpec /\ \A field \in Lengths : u[field] = told[field]
  BY <1>2, <1>3 DEF PlacedElementSpec, Lengths
<1>5. u = Overridden(e, told)
  BY <1>1, <1>3 DEF Overridden
<1> QED
  BY <1>4, <1>5

\* Whatever a client sends within the types, parsing it gives a document.
LEMMA PayloadParsed ==
    ASSUME NEW p \in LayoutFields, ExactPayload(p)
    PROVE  IsDocument(LayoutSpec(p))
<1> DEFINE extra == Kept(p.keys, ExtraKeys(p))
           first == [n \in DOMAIN p.elements |-> Synced(p.elements[n], p.keys, p.pitch)]
           second == [n \in DOMAIN extra |-> KeyToElement(extra[n], p.pitch)]
           Exact == {e \in PlacedElementSpec : ExactElement(e, p.pitch)}
<1>1. /\ p.pitch \in Nat \ {0} /\ p.keys \in Seq(KeySpec) /\ p.elements \in Seq(PlacedElementSpec)
      /\ DOMAIN p.elements = 1 .. Len(p.elements) /\ DOMAIN p.keys = 1 .. Len(p.keys)
  BY DEF LayoutFields
<1>2. ASSUME NEW k \in DOMAIN p.keys
      PROVE  p.keys[k] \in KeySpec /\ KeyToElement(p.keys[k], p.pitch) \in Exact
  BY <1>1, KeyToElementType, KeyToElementExact DEF ExactPayload
<1>3. ASSUME NEW n \in DOMAIN p.elements
      PROVE  Synced(p.elements[n], p.keys, p.pitch) \in Exact
  <2> DEFINE e == p.elements[n]
             k == KeyOf(e, p.keys)
  <2>1. e \in PlacedElementSpec /\ ExactElement(e, p.pitch)
    BY <1>1 DEF ExactPayload, ExactElement
  <2>2. CASE k # 0 /\ e.type \in KeyLike
    <3>1. k \in DOMAIN p.keys
      BY <1>1, <2>2, KeyOfIsLast
    <3> DEFINE told == KeyToElement(p.keys[k], p.pitch)
    <3>2. told \in PlacedElementSpec /\ ExactElement(told, p.pitch)
      BY <1>2, <3>1
    <3>3. Synced(e, p.keys, p.pitch) = Overridden(e, told)
      BY <2>2 DEF Synced
    <3> HIDE DEF told, e
    <3>4. Overridden(e, told) \in Exact
      BY <2>1, <3>2, OverriddenFields DEF ExactElement
    <3> QED
      BY <3>3, <3>4 DEF e
  <2>3. CASE ~ (k # 0 /\ e.type \in KeyLike)
    <3>1. Synced(e, p.keys, p.pitch) = e
      BY <2>3 DEF Synced
    <3> QED
      BY <2>1, <3>1
  <2> QED
    BY <2>2, <2>3
<1>4. extra \in Seq(KeySpec) /\ \A n \in DOMAIN extra : \E k \in DOMAIN p.keys : extra[n] = p.keys[k]
  <2>1. ExtraKeys(p) \in SUBSET (DOMAIN p.keys)
    BY DEF ExtraKeys
  <2>2. /\ extra \in Seq(KeySpec)
        /\ \E pos : KeepsTo(extra, pos, p.keys, ExtraKeys(p), Len(p.keys))
    BY <1>1, <2>1, KeptPositions
  <2> QED
    BY <2>1, <2>2 DEF KeepsTo
<1>5. first \in Seq(Exact)
  <2> HIDE DEF Exact
  <2> QED
    BY <1>1, <1>3
<1>6. second \in Seq(Exact)
  <2>1. \A n \in DOMAIN extra : KeyToElement(extra[n], p.pitch) \in Exact
    BY <1>2, <1>4
  <2>2. DOMAIN extra = 1 .. Len(extra) /\ Len(extra) \in Nat
    BY <1>4
  <2> HIDE DEF Exact, extra
  <2> QED
    BY <2>1, <2>2
<1>7. SyncedElements(p) = first \o second
  BY DEF SyncedElements
<1>8. SyncedElements(p) \in Seq(Exact)
  <2> HIDE DEF Exact, first, second
  <2> QED
    BY <1>5, <1>6, <1>7
<1>9. /\ SyncedElements(p) \in Seq(PlacedElementSpec)
      /\ \A n \in DOMAIN SyncedElements(p) : ExactElement(SyncedElements(p)[n], p.pitch)
  <2> DEFINE es == SyncedElements(p)
  <2>1. /\ DOMAIN es = 1 .. Len(es) /\ Len(es) \in Nat /\ es = [n \in DOMAIN es |-> es[n]]
        /\ \A n \in DOMAIN es : es[n] \in Exact
    <3> HIDE DEF Exact, es
    <3> QED
      BY <1>8 DEF es
  <2>2. \A n \in DOMAIN es : es[n] \in PlacedElementSpec /\ ExactElement(es[n], p.pitch)
    BY <2>1
  <2> HIDE DEF es
  <2> QED
    BY <2>1, <2>2 DEF es
<1>10. ExactElements(SyncedElements(p), p.pitch)
  BY <1>9 DEF ExactElements, ExactElement
<1> QED
  BY <1>1, <1>9, <1>10, DocumentOf DEF LayoutSpec

-----------------------------------------------------------------------------
(* Lengths of the two views.                                               *)

LEMMA KeyViewLength ==
    ASSUME NEW pitch \in Nat \ {0}, NEW elements \in Seq(PlacedElementSpec)
    PROVE  Len(KeyView(elements, pitch)) = Cardinality(KeyLikeOf(elements))
<1> DEFINE keys == KeyView(elements, pitch)
           ns == KeyLikeOf(elements)
<1>1. keys \in Seq(KeySpec)
  BY KeyViewPositions
<1>2. PICK pos : /\ DOMAIN pos = DOMAIN keys
                 /\ \A i \in DOMAIN pos : pos[i] \in ns
                 /\ \A i, j \in DOMAIN pos : i < j => pos[i] < pos[j]
                 /\ \A m \in ns : \E i \in DOMAIN pos : pos[i] = m
  <2>1. PICK pos : /\ DOMAIN pos = DOMAIN keys
                   /\ \A i \in DOMAIN pos :
                          /\ pos[i] \in ns
                          /\ keys[i] = ElementToKey(elements[pos[i]], pitch)
                   /\ \A i, j \in DOMAIN pos : i < j => pos[i] < pos[j]
                   /\ \A m \in ns : \E i \in DOMAIN pos : pos[i] = m
    BY KeyViewPositions
  <2> HIDE DEF keys, ns
  <2> QED
    BY <2>1
<1> HIDE DEF keys, ns
<1>3. PICK n \in Nat : n = Len(keys) /\ DOMAIN keys = 1 .. n
  BY <1>1
<1> DEFINE f == [i \in 1 .. n |-> pos[i]]
<1>4. ns \in SUBSET Int
  BY DEF ns, KeyLikeOf
<1>5. f \in Bijection(1 .. n, ns)
  <2>1. f \in [1 .. n -> ns] /\ \A m \in ns : \E i \in 1 .. n : f[i] = m
    BY <1>2, <1>3
  <2>2. \A i, j \in 1 .. n : f[i] = f[j] => i = j
    <3> TAKE i, j \in 1 .. n
    <3>1. i < j \/ j < i \/ i = j
      OBVIOUS
    <3>2. pos[i] \in Int /\ pos[j] \in Int
      BY <1>2, <1>3, <1>4
    <3> QED
      BY <1>2, <1>3, <3>1, <3>2
  <2> HIDE DEF f
  <2> QED
    BY <2>1, <2>2 DEF Bijection, Injection, Surjection, IsInjective
<1>6. IsFiniteSet(1 .. n) /\ Cardinality(1 .. n) = n
  <2>1. Cardinality(1 .. n) = IF 1 > n THEN 0 ELSE n - 1 + 1
    BY FS_Interval
  <2> QED
    BY <2>1, FS_Interval
<1> HIDE DEF f
<1>7. Cardinality(ns) = n
  BY <1>5, <1>6, FS_Bijection DEF ExistsBijection
<1> QED
  BY <1>3, <1>7 DEF keys, ns

\* The positions of a set in increasing order are told in one way.
Enumerates(f, n, ns) ==
    /\ \A i \in 1 .. n : f[i] \in ns
    /\ \A i, j \in 1 .. n : i < j => f[i] < f[j]
    /\ \A m \in ns : \E i \in 1 .. n : f[i] = m

LEMMA OneEnumeration ==
    ASSUME NEW ns \in SUBSET Int, NEW n \in Nat, NEW f, NEW g,
           Enumerates(f, n, ns), Enumerates(g, n, ns)
    PROVE  \A i \in 1 .. n : f[i] = g[i]
<1> DEFINE Bad == {i \in 1 .. n : f[i] # g[i]}
<1>1. SUFFICES ASSUME Bad # {} PROVE FALSE
  OBVIOUS
<1>2. PICK i \in Bad : \A j \in Bad : i <= j
  <2>1. Bad \in SUBSET Nat
    OBVIOUS
  <2> HIDE DEF Bad
  <2> QED
    BY <1>1, <2>1, LeastNatural
<1>3. /\ \A j \in 1 .. n : f[j] \in Int /\ g[j] \in Int
      /\ \A j \in 1 .. n : j < i => f[j] = g[j]
  <2>1. \A j \in 1 .. n : f[j] \in Int /\ g[j] \in Int
    BY DEF Enumerates
  <2>2. \A j \in 1 .. n : j < i => f[j] = g[j]
    <3> SUFFICES ASSUME NEW j \in 1 .. n, f[j] # g[j] PROVE i <= j
      BY i \in 1 .. n
    <3> QED
      BY <1>2
  <2> QED
    BY <2>1, <2>2
<1>4. CASE f[i] < g[i]
  <2>1. PICK j \in 1 .. n : g[j] = f[i]
    BY <1>2 DEF Enumerates
  <2>2. j < i
    <3>1. ~ (i < j) /\ j # i
      BY <1>3, <1>4, <2>1 DEF Enumerates
    <3> QED
      BY <3>1
  <2> QED
    BY <1>3, <2>1, <2>2 DEF Enumerates
<1>5. CASE g[i] < f[i]
  <2>1. PICK j \in 1 .. n : f[j] = g[i]
    BY <1>2 DEF Enumerates
  <2>2. j < i
    <3>1. ~ (i < j) /\ j # i
      BY <1>3, <1>5, <2>1 DEF Enumerates
    <3> QED
      BY <3>1
  <2> QED
    BY <1>3, <2>1, <2>2 DEF Enumerates
<1> QED
  BY <1>3, <1>4, <1>5

\* Key views of two lists that have their key-like elements at the same positions.
LEMMA KeyViewsTogether ==
    ASSUME NEW pitch \in Nat \ {0},
           NEW es \in Seq(PlacedElementSpec), NEW fs \in Seq(PlacedElementSpec),
           KeyLikeOf(es) = KeyLikeOf(fs)
    PROVE  /\ Len(KeyView(es, pitch)) = Len(KeyView(fs, pitch))
           /\ DOMAIN KeyView(es, pitch) = DOMAIN KeyView(fs, pitch)
           /\ \E pos : \A i \in DOMAIN KeyView(es, pitch) :
                  /\ pos[i] \in KeyLikeOf(es)
                  /\ KeyView(es, pitch)[i] = ElementToKey(es[pos[i]], pitch)
                  /\ KeyView(fs, pitch)[i] = ElementToKey(fs[pos[i]], pitch)
<1> DEFINE ks == KeyView(es, pitch)
           ls == KeyView(fs, pitch)
           ns == KeyLikeOf(es)
<1>1. ks \in Seq(KeySpec) /\ ls \in Seq(KeySpec) /\ Len(ks) = Len(ls)
  BY KeyViewPositions, KeyViewLength
<1>2. PICK n \in Nat : n = Len(ks) /\ DOMAIN ks = 1 .. n /\ DOMAIN ls = 1 .. n
  BY <1>1
<1>3. PICK f : /\ DOMAIN f = DOMAIN ks
               /\ \A i \in DOMAIN f : f[i] \in ns /\ ks[i] = ElementToKey(es[f[i]], pitch)
               /\ \A i, j \in DOMAIN f : i < j => f[i] < f[j]
               /\ \A m \in ns : \E i \in DOMAIN f : f[i] = m
  BY KeyViewPositions
<1>4. PICK g : /\ DOMAIN g = DOMAIN ls
               /\ \A i \in DOMAIN g : g[i] \in ns /\ ls[i] = ElementToKey(fs[g[i]], pitch)
               /\ \A i, j \in DOMAIN g : i < j => g[i] < g[j]
               /\ \A m \in ns : \E i \in DOMAIN g : g[i] = m
  <2>1. PICK g : /\ DOMAIN g = DOMAIN KeyView(fs, pitch)
                 /\ \A i \in DOMAIN g :
                        /\ g[i] \in KeyLikeOf(fs)
                        /\ KeyView(fs, pitch)[i] = ElementToKey(fs[g[i]], pitch)
                 /\ \A i, j \in DOMAIN g : i < j => g[i] < g[j]
                 /\ \A m \in KeyLikeOf(fs) : \E i \in DOMAIN g : g[i] = m
    BY KeyViewPositions
  <2>2. ns = KeyLikeOf(fs) /\ ls = KeyView(fs, pitch)
    OBVIOUS
  <2> HIDE DEF ns, ls
  <2> QED
    BY <2>1, <2>2
<1>5. ns \in SUBSET Int
  BY DEF KeyLikeOf
<1> HIDE DEF ks, ls, ns
<1>6. Enumerates(f, n, ns) /\ Enumerates(g, n, ns)
  BY <1>2, <1>3, <1>4 DEF Enumerates
<1>7. \A i \in 1 .. n : f[i] = g[i]
  BY <1>5, <1>6, OneEnumeration
<1>8. \A i \in DOMAIN ks : /\ f[i] \in ns
                           /\ ks[i] = ElementToKey(es[f[i]], pitch)
                           /\ ls[i] = ElementToKey(fs[f[i]], pitch)
  BY <1>2, <1>3, <1>4, <1>7
<1> QED
  BY <1>1, <1>2, <1>8 DEF ks, ls, ns

\* Elements that are where they were, of the type and with the id they had.
SameShape(es, fs) ==
    /\ Len(es) = Len(fs)
    /\ \A n \in DOMAIN es :
           /\ es[n].id = fs[n].id /\ es[n].type = fs[n].type
           /\ es[n].x = fs[n].x /\ es[n].y = fs[n].y
           /\ es[n].w = fs[n].w /\ es[n].h = fs[n].h

\* What the handlers that change elements (place, appearance) make of a document.
LEMMA ChangedDocument ==
    ASSUME NEW d, IsDocument(d), NEW es \in Seq(PlacedElementSpec), SameShape(es, d.elements),
           NEW c, c = OfElements(es, d.pitch)
    PROVE  /\ IsDocument(c) /\ c.elements = es /\ c.pitch = d.pitch
           /\ DOMAIN es = DOMAIN d.elements /\ KeyLikeOf(es) = KeyLikeOf(d.elements)
           /\ Len(c.keys) = Len(d.keys) /\ DOMAIN c.keys = DOMAIN d.keys
           /\ \A i \in DOMAIN c.keys : \E n \in KeyLikeOf(es) :
                  /\ c.keys[i] = ElementToKey(es[n], d.pitch)
                  /\ d.keys[i] = ElementToKey(d.elements[n], d.pitch)
<1> DEFINE fs == d.elements
           pitch == d.pitch
<1>1. /\ pitch \in Nat \ {0} /\ fs \in Seq(PlacedElementSpec)
      /\ d.keys = KeyView(fs, pitch) /\ ExactElements(fs, pitch)
  <2>1. pitch \in Nat \ {0} /\ fs \in Seq(PlacedElementSpec) /\ ExactElements(fs, pitch)
    BY DEF IsDocument, LayoutFields
  <2>2. d.keys = WithKeyView(fs, pitch).keys
    BY DEF IsDocument
  <2> QED
    BY <2>1, <2>2 DEF WithKeyView
<1> HIDE DEF fs, pitch
<1>2. SameShape(es, fs) /\ c = WithKeyView(es, pitch)
  BY <1>1, OfElementsKeeps DEF fs, pitch
<1>3. DOMAIN es = DOMAIN fs
  BY <1>1, <1>2 DEF SameShape
<1>4. KeyLikeOf(es) = KeyLikeOf(fs)
  BY <1>2, <1>3 DEF KeyLikeOf, SameShape
<1>5. ExactElements(es, pitch)
  <2> SUFFICES ASSUME NEW n \in DOMAIN es, NEW field \in Lengths
               PROVE  ToMm(ToUnits(es[n][field], pitch), pitch) = es[n][field]
    BY DEF ExactElements
  <2>1. es[n][field] = fs[n][field]
    BY <1>2 DEF SameShape, Lengths
  <2>2. ToMm(ToUnits(fs[n][field], pitch), pitch) = fs[n][field]
    BY <1>1, <1>3 DEF ExactElements
  <2> QED
    BY <2>1, <2>2
<1>6. IsDocument(c) /\ c.elements = es /\ c.pitch = pitch /\ c.keys = KeyView(es, pitch)
  BY <1>1, <1>2, <1>5, DocumentOf DEF WithKeyView
<1>7. /\ Len(c.keys) = Len(d.keys) /\ DOMAIN c.keys = DOMAIN d.keys
      /\ \E pos : \A i \in DOMAIN c.keys :
             /\ pos[i] \in KeyLikeOf(es)
             /\ c.keys[i] = ElementToKey(es[pos[i]], pitch)
             /\ d.keys[i] = ElementToKey(fs[pos[i]], pitch)
  BY <1>1, <1>4, <1>6, KeyViewsTogether
<1> QED
  BY <1>3, <1>4, <1>6, <1>7 DEF fs, pitch
=============================================================================
