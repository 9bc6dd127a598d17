---------------------------- MODULE SearchProof ----------------------------
(***************************************************************************)
(* Proofs about Search, for every formula, every set of rows and every     *)
(* pair of arrays that Expand may hand over.                               *)
(***************************************************************************)
EXTENDS Search, Foundations

-----------------------------------------------------------------------------
(* Lemmas about lists of rows.                                             *)

(* Two lists put together cover what either of them covers: what           *)
(* GetFinalCA makes of old_testcase and new_testcase.                      *)
LEMMA CoveredByConcat ==
  ASSUME NEW S, NEW r \in Seq(S), NEW s \in Seq(S), NEW t
  PROVE  CoveredBy(r \o s, t) <=> CoveredBy(r, t) \/ CoveredBy(s, t)
<1>1. ASSUME CoveredBy(r \o s, t)
      PROVE  CoveredBy(r, t) \/ CoveredBy(s, t)
  <2>1. PICK i \in DOMAIN (r \o s) : Covers((r \o s)[i], t)
    BY <1>1 DEF CoveredBy
  <2>2. CASE i <= Len(r)
    <3>1. i \in DOMAIN r /\ (r \o s)[i] = r[i]
      BY <2>1, <2>2
    <3>2. QED  BY <2>1, <3>1 DEF CoveredBy
  <2>3. CASE i > Len(r)
    <3>1. i - Len(r) \in DOMAIN s /\ (r \o s)[i] = s[i - Len(r)]
      BY <2>1, <2>3
    <3>2. QED  BY <2>1, <3>1 DEF CoveredBy
  <2>4. QED  BY <2>1, <2>2, <2>3
<1>2. ASSUME CoveredBy(r, t)
      PROVE  CoveredBy(r \o s, t)
  <2>1. PICK i \in DOMAIN r : Covers(r[i], t)
    BY <1>2 DEF CoveredBy
  <2>2. i \in DOMAIN (r \o s) /\ (r \o s)[i] = r[i]
    BY <2>1
  <2>3. QED  BY <2>1, <2>2 DEF CoveredBy
<1>3. ASSUME CoveredBy(s, t)
      PROVE  CoveredBy(r \o s, t)
  <2>1. PICK i \in DOMAIN s : Covers(s[i], t)
    BY <1>3 DEF CoveredBy
  <2>2. i + Len(r) \in DOMAIN (r \o s) /\ (r \o s)[i + Len(r)] = s[i]
    BY <2>1
  <2>3. QED  BY <2>1, <2>2 DEF CoveredBy
<1>4. QED  BY <1>1, <1>2, <1>3

(* restart draws out of last no more rows than it has.                     *)
LEMMA PopoutRange ==
  ASSUME last \in Seq(Row)
  PROVE  Popout \in 0 .. Len(last)
<1>1. ASSUME NEW n \in Nat, NEW d \in Nat \ {0}
      PROVE  n \div d \in 0 .. n
  <2>1. n = d * (n \div d) + (n % d) /\ n % d \in 0 .. (d - 1) /\ n \div d \in Int
    BY <1>1
  <2>2. n \div d >= 0
    BY <2>1
  <2>3. d * (n \div d) >= n \div d
    BY <2>1, <2>2
  <2>4. QED  BY <2>1, <2>2, <2>3
<1>2. Len(last) \in Nat
  OBVIOUS
<1>3. QED  BY <1>1, <1>2, SearchAssumption DEF Popout

(* ... and exchanges as many as the shorter list of the two has left.      *)
LEMMA ExchangedRange ==
  ASSUME last \in Seq(Row), best \in Seq(Row)
  PROVE  /\ Exchanged \in Nat
         /\ Exchanged <= Len(last) - Popout
         /\ Exchanged <= Len(best)
<1>1. Len(last) - Popout \in Nat /\ Len(best) \in Nat
  BY PopoutRange
<1>2. ASSUME NEW a \in Nat, NEW b \in Nat
      PROVE  Min({a, b}) \in Nat /\ Min({a, b}) <= a /\ Min({a, b}) <= b
  <2>1. \E x \in {a, b} : \A y \in {a, b} : x <= y
    OBVIOUS
  <2>2. Min({a, b}) \in {a, b} /\ \A y \in {a, b} : Min({a, b}) <= y
    BY <2>1 DEF Min
  <2>3. QED  BY <2>2
<1>3. QED  BY <1>1, <1>2 DEF Exchanged

(* The exchange of restart yields lists of rows of the                     *)
(* sizes the code says: the popped rows change sides, the others stay.     *)
LEMMA ExchangeTypes ==
  ASSUME last \in Seq(Row), best \in Seq(Row),
         NEW order \in Injection(1 .. Exchanged, DOMAIN best)
  PROVE  /\ KeptRows(order) \in Seq(Row)
         /\ TakenRows(order) \in Seq(Row)
         /\ Len(KeptRows(order)) = Len(last) - Popout
         /\ Len(TakenRows(order)) = Len(best) + Popout
<1>1. /\ Popout \in 0 .. Len(last)
      /\ Exchanged \in Nat
      /\ Exchanged <= Len(last) - Popout
      /\ Exchanged <= Len(best)
  BY PopoutRange, ExchangedRange
<1>2. /\ DOMAIN order = 1 .. Exchanged
      /\ \A i \in 1 .. Exchanged : order[i] \in 1 .. Len(best)
  BY DEF Injection
<1>3. \A i \in 1 .. (Len(last) - Popout) : KeptRows(order)[i] \in Row
  BY <1>1, <1>2 DEF KeptRows
<1>4. ASSUME NEW j \in 1 .. (Len(best) + Popout)
      PROVE  TakenRows(order)[j] \in Row
  <2>1. CASE j > Len(best)
    <3>1. TakenRows(order)[j] = last[Len(last) + 1 - (j - Len(best))]
      BY <2>1 DEF TakenRows
    <3>2. Len(last) + 1 - (j - Len(best)) \in 1 .. Len(last)
      BY <1>1, <2>1
    <3>3. QED  BY <3>1, <3>2
  <2>2. CASE j <= Len(best) /\ \E i \in DOMAIN order : order[i] = j
    <3>1. SwappedWith(order, j) \in DOMAIN order
      BY <2>2 DEF SwappedWith
    <3>2. TakenRows(order)[j] = last[SwappedWith(order, j)]
      BY <2>2 DEF TakenRows
    <3>3. SwappedWith(order, j) \in 1 .. Len(last)
      BY <1>1, <1>2, <3>1
    <3>4. QED  BY <3>2, <3>3
  <2>3. CASE j <= Len(best) /\ ~ \E i \in DOMAIN order : order[i] = j
    <3>1. TakenRows(order)[j] = best[j] /\ j \in 1 .. Len(best)
      BY <1>1, <2>3 DEF TakenRows
    <3>2. QED  BY <3>1
  <2>4. QED  BY <1>1, <2>1, <2>2, <2>3
<1>5. Len(last) - Popout \in Nat /\ Len(best) + Popout \in Nat
  BY <1>1
<1>6. /\ KeptRows(order) \in [1 .. (Len(last) - Popout) -> Row]
      /\ TakenRows(order) \in [1 .. (Len(best) + Popout) -> Row]
  BY <1>3, <1>4 DEF KeptRows, TakenRows
<1>7. ASSUME NEW n \in Nat, NEW f \in [1 .. n -> Row]
      PROVE  f \in Seq(Row) /\ Len(f) = n
  OBVIOUS
<1>8. QED  BY <1>5, <1>6, <1>7

(* No tuple covered by last or by best is uncovered by the exchange: each  *)
(* row of either list is a row of one of the new ones.                     *)
LEMMA ExchangeCovers ==
  ASSUME last \in Seq(Row), best \in Seq(Row),
         NEW order \in Injection(1 .. Exchanged, DOMAIN best),
         NEW t,
         CoveredBy(last, t) \/ CoveredBy(best, t)
  PROVE  CoveredBy(KeptRows(order), t) \/ CoveredBy(TakenRows(order), t)
<1>1. /\ Popout \in 0 .. Len(last)
      /\ Exchanged \in Nat
      /\ Exchanged <= Len(last) - Popout
      /\ Exchanged <= Len(best)
  BY PopoutRange, ExchangedRange
<1>2. /\ DOMAIN order = 1 .. Exchanged
      /\ \A i \in 1 .. Exchanged : order[i] \in 1 .. Len(best)
      /\ \A i, j \in 1 .. Exchanged : order[i] = order[j] => i = j
  BY DEF Injection, IsInjective
<1>3. DOMAIN KeptRows(order) = 1 .. (Len(last) - Popout)
  BY DEF KeptRows
<1>4. DOMAIN TakenRows(order) = 1 .. (Len(best) + Popout)
  BY DEF TakenRows
<1>5. ASSUME NEW i \in DOMAIN last, Covers(last[i], t)
      PROVE  CoveredBy(KeptRows(order), t) \/ CoveredBy(TakenRows(order), t)
  <2>1. i \in 1 .. Len(last)
    BY <1>5
  <2>2. CASE i > Len(last) - Popout
    <3> DEFINE j == Len(best) + Len(last) + 1 - i
    <3>1. j \in DOMAIN TakenRows(order) /\ j > Len(best)
      BY <1>1, <1>4, <2>1, <2>2
    <3>2. Len(last) + 1 - (j - Len(best)) = i
      BY <2>1
    <3>3. TakenRows(order)[j] = last[i]
      BY <1>4, <3>1, <3>2 DEF TakenRows
    <3>4. QED  BY <1>5, <3>1, <3>3 DEF CoveredBy
  <2>3. CASE i \in 1 .. Exchanged
    <3>1. order[i] \in 1 .. Len(best) /\ order[i] \in DOMAIN TakenRows(order)
      BY <1>1, <1>2, <1>4, <2>3
    <3>2. SwappedWith(order, order[i]) = i
      <4>1. \E k \in DOMAIN order : order[k] = order[i]
        BY <1>2, <2>3
      <4>2. /\ SwappedWith(order, order[i]) \in DOMAIN order
            /\ order[SwappedWith(order, order[i])] = order[i]
        BY <4>1 DEF SwappedWith
      <4>3. QED  BY <1>2, <2>3, <4>2
    <3>3. TakenRows(order)[order[i]] = last[i]
      BY <1>1, <1>2, <1>4, <2>3, <3>1, <3>2 DEF TakenRows
    <3>4. QED  BY <1>5, <3>1, <3>3 DEF CoveredBy
  <2>4. CASE i \in 1 .. (Len(last) - Popout) /\ i \notin 1 .. Exchanged
    <3>1. i \in DOMAIN KeptRows(order) /\ KeptRows(order)[i] = last[i]
      BY <1>2, <2>4 DEF KeptRows
    <3>2. QED  BY <1>5, <3>1 DEF CoveredBy
  <2>5. QED  BY <1>1, <2>1, <2>2, <2>3, <2>4
<1>6. ASSUME NEW j \in DOMAIN best, Covers(best[j], t)
      PROVE  CoveredBy(KeptRows(order), t) \/ CoveredBy(TakenRows(order), t)
  <2>1. j \in 1 .. Len(best)
    BY <1>6
  <2>2. CASE \E i \in DOMAIN order : order[i] = j
    <3>1. PICK i \in 1 .. Exchanged : order[i] = j
      BY <1>2, <2>2
    <3>2. i \in DOMAIN KeptRows(order) /\ KeptRows(order)[i] = best[j]
      BY <1>1, <1>2, <3>1 DEF KeptRows
    <3>3. QED  BY <1>6, <3>2 DEF CoveredBy
  <2>3. CASE ~ \E i \in DOMAIN order : order[i] = j
    <3>1. j \in DOMAIN TakenRows(order) /\ TakenRows(order)[j] = best[j]
      BY <1>1, <1>4, <2>1, <2>3 DEF TakenRows
    <3>2. QED  BY <1>6, <3>1 DEF CoveredBy
  <2>4. QED  BY <2>2, <2>3
<1>7. QED  BY <1>5, <1>6 DEF CoveredBy

(* The places of a list that hold a row; those of a second list are        *)
(* negative, so that the places of both lists can be put together.         *)
PlacesIn(a, row) == { i \in DOMAIN a : a[i] = row }

PlacesInBoth(a, b, row) == PlacesIn(a, row) \cup { -j : j \in PlacesIn(b, row) }

LEMMA PlacesCount ==
  ASSUME NEW S, NEW a \in Seq(S), NEW b \in Seq(S), NEW row
  PROVE  /\ IsFiniteSet(PlacesInBoth(a, b, row))
         /\ Cardinality(PlacesInBoth(a, b, row))
              = Cardinality(PlacesIn(a, row)) + Cardinality(PlacesIn(b, row))
         /\ PlacesInBoth(a, b, row) = {} <=> row \notin Range(a) \cup Range(b)
<1> DEFINE A == PlacesIn(a, row)
           B == PlacesIn(b, row)
           f == [j \in B |-> -j]
           C == { f[j] : j \in B }
<1>1. /\ A \subseteq 1 .. Len(a) /\ B \subseteq 1 .. Len(b) /\ Len(a) \in Nat /\ Len(b) \in Nat
  BY DEF PlacesIn
<1>2. IsFiniteSet(A) /\ IsFiniteSet(B)
  <2>1. ASSUME NEW n \in Nat PROVE IsFiniteSet(1 .. n)
    BY FS_Interval
  <2> HIDE DEF A, B
  <2>2. QED  BY <1>1, <2>1, FS_Subset
<1>3. A \cap C = {} /\ PlacesInBoth(a, b, row) = A \cup C /\ \A x, y \in B : f[x] = f[y] => x = y
  <2>1. A \subseteq Nat \ {0} /\ B \subseteq Nat \ {0}
    BY <1>1
  <2>2. PlacesInBoth(a, b, row) = A \cup { -j : j \in B }
    BY DEF PlacesInBoth
  <2> HIDE DEF A, B
  <2>3. QED  BY <2>1, <2>2
<1>4. PlacesInBoth(a, b, row) = {} <=> row \notin Range(a) \cup Range(b)
  BY DEF PlacesInBoth, PlacesIn, Range
<1> HIDE DEF A, B, f
<1>5. IsFiniteSet(C) /\ Cardinality(C) = Cardinality(B)
  BY <1>2, <1>3, ImageCount
<1> HIDE DEF C
<1>6. IsFiniteSet(A \cup C) /\ Cardinality(A \cup C) = Cardinality(A) + Cardinality(C)
  <2>1. Cardinality(A \cup C) = Cardinality(A) + Cardinality(C) - Cardinality(A \cap C)
    BY <1>2, <1>5, FS_Union
  <2>2. Cardinality(A \cap C) = 0 /\ Cardinality(A) \in Nat /\ Cardinality(C) \in Nat
    BY <1>2, <1>3, <1>5, FS_EmptySet, FS_CardinalityType
  <2>3. IsFiniteSet(A \cup C)
    BY <1>2, <1>5, FS_Union
  <2>4. QED  BY <2>1, <2>2, <2>3
<1>7. QED  BY <1>3, <1>4, <1>5, <1>6 DEF A, B

(* Where h sends the elements of a set.                                   *)
Moved(h, xs) == { h[x] : x \in xs }

(* h sends no two places of the pair of lists to the same one.             *)
Apart(h, a, b) ==
  \A x, y \in (Int \ {0}) :
    h[x] = h[y] /\ (x \in DOMAIN a \/ -x \in DOMAIN b) /\ (y \in DOMAIN a \/ -y \in DOMAIN b) => x = y

(* Two pairs of lists have the same rows if each row has the same places   *)
(* but for their order.                                                    *)
LEMMA SameBags ==
  ASSUME NEW S, NEW a \in Seq(S), NEW b \in Seq(S), NEW c \in Seq(S), NEW d \in Seq(S), NEW h,
         Apart(h, a, b),
         \A row : Moved(h, PlacesInBoth(a, b, row)) = PlacesInBoth(c, d, row)
  PROVE  BagOf(a) (+) BagOf(b) = BagOf(c) (+) BagOf(d)
<1> DEFINE n(l, row) == Cardinality(PlacesIn(l, row))
<1>1. ASSUME NEW p \in Seq(S), NEW q \in Seq(S)
      PROVE  BagOf(p) (+) BagOf(q) = [row \in Range(p) \cup Range(q) |-> n(p, row) + n(q, row)]
  <2>1. \A l \in Seq(S) : BagOf(l) = [row \in Range(l) |-> n(l, row)]
    BY DEF BagOf, PlacesIn
  <2>2. ASSUME NEW l \in Seq(S), NEW row, row \notin Range(l) PROVE n(l, row) = 0
    <3>1. PlacesIn(l, row) = {}
      BY <2>2 DEF PlacesIn, Range
    <3>2. QED  BY <3>1, FS_EmptySet
  <2> HIDE DEF n
  <2> DEFINE P == BagOf(p)
             Q == BagOf(q)
  <2>3. P (+) Q = [row \in DOMAIN P \cup DOMAIN Q |->
                    (IF row \in DOMAIN P THEN P[row] ELSE 0) + (IF row \in DOMAIN Q THEN Q[row] ELSE 0)]
    BY DEF (+)
  <2>4. /\ DOMAIN P = Range(p) /\ DOMAIN Q = Range(q)
        /\ \A row \in Range(p) : P[row] = n(p, row)
        /\ \A row \in Range(q) : Q[row] = n(q, row)
    BY <2>1
  <2> HIDE DEF P, Q
  <2>5. ASSUME NEW row
        PROVE  /\ (IF row \in DOMAIN P THEN P[row] ELSE 0) = n(p, row)
               /\ (IF row \in DOMAIN Q THEN Q[row] ELSE 0) = n(q, row)
    BY <2>2, <2>4
  <2>6. QED  BY <2>3, <2>4, <2>5 DEF P, Q
<1>2. ASSUME NEW row
      PROVE  /\ n(a, row) + n(b, row) = n(c, row) + n(d, row)
             /\ row \in Range(a) \cup Range(b) <=> row \in Range(c) \cup Range(d)
  <2> DEFINE U == PlacesInBoth(a, b, row)
             V == PlacesInBoth(c, d, row)
  <2>1. IsFiniteSet(U) /\ Cardinality(U) = n(a, row) + n(b, row) /\ (U = {} <=> row \notin Range(a) \cup Range(b))
    BY PlacesCount
  <2>2. IsFiniteSet(V) /\ Cardinality(V) = n(c, row) + n(d, row) /\ (V = {} <=> row \notin Range(c) \cup Range(d))
    BY PlacesCount
  <2>3. V = { h[x] : x \in U }
    BY DEF Moved
  <2>4. \A x \in U : x \in Int \ {0} /\ (x \in DOMAIN a \/ -x \in DOMAIN b)
    <3>1. DOMAIN a = 1 .. Len(a) /\ DOMAIN b = 1 .. Len(b)
      OBVIOUS
    <3>2. \A x \in PlacesIn(a, row) : x \in DOMAIN a
      BY DEF PlacesIn
    <3>3. \A x \in PlacesIn(b, row) : x \in DOMAIN b
      BY DEF PlacesIn
    <3>4. QED  BY <3>1, <3>2, <3>3 DEF PlacesInBoth
  <2>5. \A x, y \in U : h[x] = h[y] => x = y
    BY <2>4 DEF Apart
  <2> HIDE DEF U, V
  <2>6. Cardinality(V) = Cardinality(U)
    <3>1. Cardinality({ h[x] : x \in U }) = Cardinality(U)
      BY <2>1, <2>5, ImageCount
    <3>2. QED  BY <2>3, <3>1
  <2>7. U = {} <=> V = {}
    <3>1. \A x \in U : h[x] \in V
      BY <2>3
    <3>2. \A y \in V : \E x \in U : y = h[x]
      BY <2>3
    <3> HIDE <2>3
    <3>3. QED  BY <3>1, <3>2
  <2>8. QED  BY <2>1, <2>2, <2>6, <2>7
<1> HIDE DEF n
<1>3. Range(a) \cup Range(b) = Range(c) \cup Range(d)
  BY <1>2
<1> DEFINE R == Range(a) \cup Range(b)
<1>4. BagOf(a) (+) BagOf(b) = [row \in R |-> n(a, row) + n(b, row)]
  BY <1>1
<1>5. BagOf(c) (+) BagOf(d) = [row \in R |-> n(c, row) + n(d, row)]
  BY <1>1, <1>3
<1> HIDE DEF R
<1>6. QED  BY <1>2, <1>4, <1>5

(* The exchange of restart loses and doubles no row: where each row comes  *)
(* from is one to one.                                                     *)
LEMMA ExchangeKeeps ==
  ASSUME last \in Seq(Row), best \in Seq(Row),
         NEW order \in Injection(1 .. Exchanged, DOMAIN best)
  PROVE  BagOf(KeptRows(order)) (+) BagOf(TakenRows(order)) = BagOf(last) (+) BagOf(best)
<1> DEFINE e == Exchanged
           m == Len(last)
           k == m - Popout
           n == Len(best)
           kept == KeptRows(order)
           taken == TakenRows(order)
           Drawn(j) == \E i \in 1 .. e : order[i] = j
           h == [x \in Int |->
                   IF x > 0 THEN (IF x <= e THEN -order[x] ELSE x)
                   ELSE IF -x > n THEN m + 1 + x + n
                   ELSE IF Drawn(-x) THEN SwappedWith(order, -x) ELSE x]
<1>1. /\ m \in Nat /\ n \in Nat /\ k \in Nat /\ e \in Nat /\ k <= m /\ e <= k /\ e <= n
      /\ n + (m - k) = n + Popout /\ n + Popout \in Nat
  BY PopoutRange, ExchangedRange
<1>2. /\ kept \in Seq(Row) /\ taken \in Seq(Row) /\ DOMAIN kept = 1 .. k
      /\ DOMAIN taken = 1 .. n + (m - k) /\ DOMAIN last = 1 .. m /\ DOMAIN best = 1 .. n
  BY <1>1, ExchangeTypes
<1>3. /\ DOMAIN order = 1 .. e
      /\ \A i \in 1 .. e : order[i] \in 1 .. n
      /\ \A i, j \in 1 .. e : order[i] = order[j] => i = j
  BY DEF Injection, IsInjective
<1>4. ASSUME NEW j, Drawn(j)
      PROVE  SwappedWith(order, j) \in 1 .. e /\ order[SwappedWith(order, j)] = j
  BY <1>3, <1>4 DEF SwappedWith
<1>5. /\ \A i \in 1 .. k : kept[i] = IF i <= e THEN best[order[i]] ELSE last[i]
      /\ \A j \in 1 .. n + (m - k) :
            taken[j] = IF j > n THEN last[m + 1 - (j - n)]
                       ELSE IF Drawn(j) THEN last[SwappedWith(order, j)] ELSE best[j]
  <2>1. kept = [i \in 1 .. k |-> IF i \in 1 .. e THEN best[order[i]] ELSE last[i]]
    BY <1>3 DEF KeptRows
  <2>2. taken = [j \in 1 .. n + (m - k) |->
                   IF j > n THEN last[m + 1 - (j - n)]
                   ELSE IF Drawn(j) THEN last[SwappedWith(order, j)] ELSE best[j]]
    BY <1>1, <1>3 DEF TakenRows
  <2> HIDE DEF k, m, n, e, kept, taken, Drawn
  <2>3. QED  BY <1>1, <2>1, <2>2
<1>6. \A x \in Int : h[x] = IF x > 0 THEN (IF x <= e THEN -order[x] ELSE x)
                           ELSE IF -x > n THEN m + 1 + x + n
                           ELSE IF Drawn(-x) THEN SwappedWith(order, -x) ELSE x
  OBVIOUS
<1> DEFINE New(x) == x \in 1 .. k \/ -x \in 1 .. n + (m - k)
           Old(x) == x \in 1 .. m \/ -x \in 1 .. n
<1> HIDE DEF h, k, m, n, e, kept, taken
<1>7. ASSUME NEW x \in Int, NEW y \in Int, h[x] = h[y], New(x), New(y)
      PROVE  x = y
  <2>1. ASSUME NEW z \in Int, New(z)
        PROVE  \/ z \in 1 .. e /\ h[z] = -order[z] /\ order[z] \in 1 .. n
               \/ z \in e + 1 .. k /\ h[z] = z
               \/ z < 0 /\ -z \in n + 1 .. n + (m - k) /\ h[z] = m + 1 + z + n /\ h[z] \in k + 1 .. m
               \/ z < 0 /\ -z \in 1 .. n /\ h[z] \in 1 .. e /\ order[h[z]] = -z
               \/ z < 0 /\ -z \in 1 .. n /\ h[z] = z /\ ~Drawn(-z)
    <3>1. CASE z > 0
      <4> HIDE DEF Drawn
      <4>1. QED  BY <1>1, <1>3, <1>6, <2>1, <3>1
    <3>2. CASE z < 0 /\ -z > n
      <4> HIDE DEF Drawn
      <4>1. QED  BY <1>1, <1>6, <2>1, <3>2
    <3>3. CASE z < 0 /\ -z <= n /\ Drawn(-z)
      <4>1. h[z] = SwappedWith(order, -z)
        <5> HIDE DEF Drawn
        <5>1. QED  BY <1>1, <1>6, <3>3
      <4>2. SwappedWith(order, -z) \in 1 .. e /\ order[SwappedWith(order, -z)] = -z
        BY <1>4, <3>3
      <4>3. QED  BY <1>1, <3>3, <4>1, <4>2
    <3>4. CASE z < 0 /\ -z <= n /\ ~Drawn(-z)
      <4> HIDE DEF Drawn
      <4>1. QED  BY <1>1, <1>6, <3>4
    <3>5. z # 0
      BY <1>1, <2>1
    <3>6. QED  BY <1>1, <3>1, <3>2, <3>3, <3>4, <3>5
  <2>2. \A i \in 1 .. e : Drawn(order[i])
    OBVIOUS
  <2> HIDE DEF New, Drawn
  <2> DEFINE A(z) == z \in 1 .. e /\ h[z] = -order[z] /\ order[z] \in 1 .. n
             B(z) == z \in e + 1 .. k /\ h[z] = z
             C(z) == z < 0 /\ -z \in n + 1 .. n + (m - k) /\ h[z] = m + 1 + z + n /\ h[z] \in k + 1 .. m
             D(z) == z < 0 /\ -z \in 1 .. n /\ h[z] \in 1 .. e /\ order[h[z]] = -z
             E(z) == z < 0 /\ -z \in 1 .. n /\ h[z] = z /\ ~Drawn(-z)
  <2>3. (A(x) \/ B(x) \/ C(x) \/ D(x) \/ E(x)) /\ (A(y) \/ B(y) \/ C(y) \/ D(y) \/ E(y))
    BY <1>7, <2>1
  <2>4. CASE A(x)
    <3>1. A(y) => x = y
      <4>1. ASSUME A(y) PROVE x = y
        <5>1. -order[x] = -order[y] /\ order[x] \in Int /\ order[y] \in Int
          <6>1. order[x] \in Int /\ order[y] \in Int
            BY <1>1, <2>4, <4>1
          <6>2. h[x] = -order[x] /\ h[y] = -order[y]
            BY <2>4, <4>1
          <6>3. QED  BY <1>7, <6>1, <6>2
        <5>2. order[x] = order[y]
          <6> DEFINE p == order[x]
                     q == order[y]
          <6>1. p \in Int /\ q \in Int /\ -p = -q
            BY <5>1
          <6> HIDE DEF p, q
          <6>2. p = q
            BY <6>1
          <6>3. QED  BY <6>2 DEF p, q
        <5>3. QED  BY <1>3, <2>4, <4>1, <5>2
      <4>2. QED  BY <4>1
    <3>2. ~E(y)
      <4>1. ASSUME E(y) PROVE FALSE
        <5>1. -y = order[x]
          <6> DEFINE p == order[x]
          <6>1. p \in Int /\ -p = y
            <7>1. p \in Int
              BY <1>1, <2>4
            <7>2. h[x] = -p /\ h[y] = y
              BY <2>4, <4>1
            <7>3. QED  BY <1>7, <7>1, <7>2
          <6> HIDE DEF p
          <6>2. -y = p
            BY <6>1
          <6>3. QED  BY <6>2 DEF p
        <5>2. QED  BY <2>2, <2>4, <4>1, <5>1
      <4>2. QED  BY <4>1
    <3>3. ~B(y) /\ ~C(y) /\ ~D(y)
      BY <1>1, <1>7, <2>4
    <3>4. QED  BY <2>3, <3>1, <3>2, <3>3
  <2>5. CASE E(x)
    <3>1. ~A(y)
      <4>1. ASSUME A(y) PROVE FALSE
        <5>1. -x = order[y]
          <6> DEFINE p == order[y]
          <6>1. p \in Int /\ -p = x
            <7>1. p \in Int
              BY <1>1, <4>1
            <7>2. h[y] = -p /\ h[x] = x
              BY <2>5, <4>1
            <7>3. QED  BY <1>7, <7>1, <7>2
          <6> HIDE DEF p
          <6>2. -x = p
            BY <6>1
          <6>3. QED  BY <6>2 DEF p
        <5>2. QED  BY <2>2, <2>5, <4>1, <5>1
      <4>2. QED  BY <4>1
    <3>2. ~B(y) /\ ~C(y) /\ ~D(y) /\ (E(y) => x = y)
      BY <1>1, <1>7, <2>5
    <3>3. QED  BY <2>3, <3>1, <3>2
  <2>6. CASE B(x)
    BY <1>1, <1>7, <2>3, <2>6
  <2>7. CASE C(x)
    BY <1>1, <1>7, <2>3, <2>7
  <2>8. CASE D(x)
    BY <1>1, <1>7, <2>3, <2>8
  <2>9. QED  BY <2>3, <2>4, <2>5, <2>6, <2>7, <2>8
<1> DEFINE was(x) == IF x > 0 THEN last[x] ELSE best[-x]
           is(x) == IF x > 0 THEN kept[x] ELSE taken[-x]
<1>8. ASSUME NEW x \in Int, New(x)
      PROVE  Old(h[x]) /\ h[x] \in Int /\ is(x) = was(h[x])
  <2>1. CASE x \in 1 .. e
    <3>0. x > 0 /\ x <= e /\ x \in 1 .. k
      BY <1>1, <2>1
    <3>1. h[x] = -order[x] /\ order[x] \in 1 .. n /\ kept[x] = best[order[x]]
      <4>1. h[x] = -order[x]
        BY <1>6, <3>0
      <4>2. order[x] \in 1 .. n
        BY <1>3, <2>1
      <4>3. kept[x] = best[order[x]]
        BY <1>5, <3>0
      <4>4. QED  BY <4>1, <4>2, <4>3
    <3>2. -(-order[x]) = order[x] /\ ~(-order[x] > 0) /\ x > 0
      BY <1>1, <2>1, <3>1
    <3>3. QED  BY <3>1, <3>2
  <2>2. CASE x \in e + 1 .. k
    <3>1. h[x] = x /\ kept[x] = last[x] /\ x > 0 /\ x \in 1 .. m
      BY <1>1, <1>5, <1>6, <2>2
    <3>2. QED  BY <3>1
  <2>3. CASE -x \in n + 1 .. n + (m - k)
    <3>1. h[x] = m + 1 + x + n /\ h[x] = m + 1 - (-x - n) /\ h[x] \in 1 .. m /\ ~(x > 0)
      BY <1>1, <1>6, <2>3
    <3>2. taken[-x] = last[m + 1 - (-x - n)]
      BY <1>1, <1>5, <2>3
    <3>3. QED  BY <3>1, <3>2
  <2>4. CASE -x \in 1 .. n /\ Drawn(-x)
    <3>1. h[x] = SwappedWith(order, -x) /\ taken[-x] = last[SwappedWith(order, -x)] /\ ~(x > 0)
      <4>1. -x \in 1 .. n + (m - k) /\ ~(-x > n) /\ ~(x > 0)
        BY <1>1, <2>4
      <4> HIDE DEF Drawn
      <4>2. QED  BY <1>5, <1>6, <2>4, <4>1
    <3>2. SwappedWith(order, -x) \in 1 .. e
      BY <1>4, <2>4
    <3>3. h[x] \in 1 .. m /\ h[x] > 0
      BY <1>1, <3>1, <3>2
    <3>4. QED  BY <3>1, <3>3
  <2>5. CASE -x \in 1 .. n /\ ~Drawn(-x)
    <3>1. -x \in 1 .. n + (m - k) /\ ~(-x > n) /\ ~(x > 0)
      BY <1>1, <2>5
    <3>2. h[x] = x /\ taken[-x] = best[-x]
      <4> HIDE DEF Drawn
      <4>2. QED  BY <1>5, <1>6, <2>5, <3>1
    <3>3. QED  BY <2>5, <3>1, <3>2
  <2>6. QED
    <3> HIDE DEF Drawn
    <3>1. x \in 1 .. e \/ x \in e + 1 .. k \/ -x \in n + 1 .. n + (m - k) \/ -x \in 1 .. n
      BY <1>1, <1>8
    <3>2. QED  BY <2>1, <2>2, <2>3, <2>4, <2>5, <3>1
<1>9. ASSUME NEW z \in Int, Old(z)
      PROVE  \E x \in Int : New(x) /\ h[x] = z
  <2>1. CASE z \in 1 .. e
    <3>1. Drawn(order[z]) /\ order[z] \in 1 .. n
      BY <1>3, <2>1
    <3>2. SwappedWith(order, order[z]) = z
      BY <1>3, <1>4, <2>1, <3>1
    <3> DEFINE x == -order[z]
    <3>3. x \in Int /\ -x = order[z] /\ ~(x > 0) /\ ~(-x > n) /\ -x \in 1 .. n + (m - k)
      BY <1>1, <3>1
    <3> HIDE DEF x, Drawn
    <3>4. h[x] = z
      BY <1>6, <3>1, <3>2, <3>3
    <3>5. QED  BY <3>3, <3>4
  <2>2. CASE z \in e + 1 .. k
    <3>1. h[z] = z /\ z \in 1 .. k
      BY <1>1, <1>6, <2>2
    <3>2. QED  BY <3>1
  <2>3. CASE z \in k + 1 .. m
    <3> DEFINE x == z - m - 1 - n
    <3>1. x \in Int /\ -x > n /\ ~(x > 0) /\ m + 1 + x + n = z /\ -x \in 1 .. n + (m - k)
      BY <1>1, <2>3
    <3> HIDE DEF x
    <3>2. h[x] = z
      BY <1>6, <3>1
    <3>3. QED  BY <3>1, <3>2
  <2>4. CASE -z \in 1 .. n /\ ~Drawn(-z)
    <3>1. -z \in 1 .. n + (m - k) /\ ~(-z > n) /\ ~(z > 0)
      BY <1>1, <2>4
    <3> HIDE DEF Drawn
    <3>2. h[z] = z
      BY <1>6, <2>4, <3>1
    <3>3. QED  BY <3>1, <3>2
  <2>5. CASE -z \in 1 .. n /\ Drawn(-z)
    <3>1. PICK i \in 1 .. e : order[i] = -z
      BY <2>5
    <3>2. i \in Int /\ i > 0 /\ i <= e /\ i \in 1 .. k /\ z = -(-z)
      BY <1>1
    <3>3. h[i] = z
      BY <1>6, <3>1, <3>2
    <3>4. QED  BY <3>2, <3>3
  <2>6. QED
    <3> HIDE DEF Drawn
    <3>1. z \in 1 .. e \/ z \in e + 1 .. k \/ z \in k + 1 .. m \/ -z \in 1 .. n
      BY <1>1, <1>9
    <3>2. QED  BY <2>1, <2>2, <2>3, <2>4, <2>5, <3>1
<1>10. ASSUME NEW row
       PROVE  /\ \A x : x \in PlacesInBoth(kept, taken, row) <=> x \in Int /\ New(x) /\ is(x) = row
              /\ \A x : x \in PlacesInBoth(last, best, row) <=> x \in Int /\ Old(x) /\ was(x) = row
  <2>1. ASSUME NEW a, NEW b, NEW p \in Nat, NEW q \in Nat, DOMAIN a = 1 .. p, DOMAIN b = 1 .. q, NEW x
        PROVE  x \in PlacesInBoth(a, b, row)
                 <=> x \in Int /\ (x \in 1 .. p \/ -x \in 1 .. q) /\ (IF x > 0 THEN a[x] ELSE b[-x]) = row
    <3>1. ASSUME x \in PlacesInBoth(a, b, row)
          PROVE  x \in Int /\ (x \in 1 .. p \/ -x \in 1 .. q) /\ (IF x > 0 THEN a[x] ELSE b[-x]) = row
      <4>1. CASE x \in PlacesIn(a, row)
        BY <2>1, <4>1 DEF PlacesIn
      <4>2. CASE x \notin PlacesIn(a, row)
        <5>1. PICK j \in PlacesIn(b, row) : x = -j
          BY <3>1, <4>2 DEF PlacesInBoth
        <5>2. j \in 1 .. q /\ b[j] = row
          BY <2>1 DEF PlacesIn
        <5>3. -x = j /\ x \in Int /\ ~(x > 0)
          BY <2>1, <5>1, <5>2
        <5>4. QED  BY <5>2, <5>3
      <4>3. QED  BY <4>1, <4>2
    <3>2. ASSUME x \in Int, x \in 1 .. p \/ -x \in 1 .. q, (IF x > 0 THEN a[x] ELSE b[-x]) = row
          PROVE  x \in PlacesInBoth(a, b, row)
      <4>1. CASE x > 0
        <5>1. x \in PlacesIn(a, row)
          BY <2>1, <3>2, <4>1 DEF PlacesIn
        <5>2. QED  BY <5>1 DEF PlacesInBoth
      <4>2. CASE ~(x > 0)
        <5>1. -x \in PlacesIn(b, row) /\ -(-x) = x
          BY <2>1, <3>2, <4>2 DEF PlacesIn
        <5>2. QED  BY <5>1 DEF PlacesInBoth
      <4>3. QED  BY <4>1, <4>2
    <3>3. QED  BY <3>1, <3>2
  <2>2. n + (m - k) \in Nat
    BY <1>1
  <2>3. QED  BY <1>1, <1>2, <2>1, <2>2
<1>11. ASSUME NEW row
       PROVE  Moved(h, PlacesInBoth(kept, taken, row)) = PlacesInBoth(last, best, row)
  <2> HIDE DEF New, Old, is, was
  <2>1. ASSUME NEW x \in PlacesInBoth(kept, taken, row) PROVE h[x] \in PlacesInBoth(last, best, row)
    BY <1>8, <1>10
  <2>2. ASSUME NEW z \in PlacesInBoth(last, best, row)
        PROVE  \E x \in PlacesInBoth(kept, taken, row) : h[x] = z
    <3>1. z \in Int /\ Old(z) /\ was(z) = row
      BY <1>10
    <3>2. PICK x \in Int : New(x) /\ h[x] = z
      BY <1>9, <3>1
    <3>3. is(x) = row
      BY <1>8, <3>1, <3>2
    <3>4. QED  BY <1>10, <3>2, <3>3
  <2>3. QED  BY <2>1, <2>2 DEF Moved
<1>12. Apart(h, kept, taken)
  <2>1. \A x : New(x) <=> (x \in DOMAIN kept \/ -x \in DOMAIN taken)
    BY <1>2
  <2> HIDE DEF New
  <2>2. QED  BY <1>7, <2>1 DEF Apart
<1>13. BagOf(kept) (+) BagOf(taken) = BagOf(last) (+) BagOf(best)
  <2>1. last \in Seq(Row) /\ best \in Seq(Row)
    OBVIOUS
  <2>2. \A row : Moved(h, PlacesInBoth(kept, taken, row)) = PlacesInBoth(last, best, row)
    BY <1>11
  <2> HIDE DEF was, is, New, Old, Drawn
  <2>3. QED  BY <1>2, <1>12, <2>1, <2>2, SameBags
<1>14. QED  BY <1>13 DEF kept, taken

(* UpdateInfo_remove_testcase: what is left covers what the other rows     *)
(* cover, wherever the last row went.                                      *)
LEMMA WithoutRowCovers ==
  ASSUME NEW rows \in Seq(Row), NEW p \in DOMAIN rows, NEW t
  PROVE  /\ WithoutRow(rows, p) \in Seq(Row)
         /\ Len(WithoutRow(rows, p)) = Len(rows) - 1
         /\ CoveredBy(WithoutRow(rows, p), t)
              <=> \E q \in DOMAIN rows \ {p} : Covers(rows[q], t)
<1> DEFINE moved == [rows EXCEPT ![p] = rows[Len(rows)]]
           left == SubSeq(moved, 1, Len(rows) - 1)
<1>1. p \in 1 .. Len(rows) /\ Len(rows) \in Nat /\ Len(rows) \in 1 .. Len(rows)
  OBVIOUS
<1>2. moved \in Seq(Row) /\ Len(moved) = Len(rows)
  BY <1>1
<1>3. /\ left \in Seq(Row)
      /\ Len(left) = Len(rows) - 1
      /\ \A i \in 1 .. (Len(rows) - 1) : left[i] = moved[i]
  BY <1>1, <1>2
<1>4. ASSUME CoveredBy(left, t)
      PROVE  \E q \in DOMAIN rows \ {p} : Covers(rows[q], t)
  <2>1. PICK i \in 1 .. (Len(rows) - 1) : Covers(left[i], t)
    BY <1>3, <1>4 DEF CoveredBy
  <2>2. CASE i = p
    <3>1. left[i] = rows[Len(rows)] /\ Len(rows) # p
      BY <1>1, <1>3, <2>1, <2>2
    <3>2. QED  BY <1>1, <2>1, <3>1
  <2>3. CASE i # p
    <3>1. left[i] = rows[i] /\ i \in DOMAIN rows \ {p}
      BY <1>1, <1>3, <2>1, <2>3
    <3>2. QED  BY <2>1, <3>1
  <2>4. QED  BY <2>2, <2>3
<1>5. ASSUME NEW q \in DOMAIN rows \ {p}, Covers(rows[q], t)
      PROVE  CoveredBy(left, t)
  <2>1. CASE q = Len(rows)
    <3>1. p \in 1 .. (Len(rows) - 1) /\ left[p] = rows[q]
      BY <1>1, <1>3, <2>1
    <3>2. QED  BY <1>3, <1>5, <3>1 DEF CoveredBy
  <2>2. CASE q # Len(rows)
    <3>1. q \in 1 .. (Len(rows) - 1) /\ left[q] = rows[q]
      BY <1>1, <1>3, <1>5, <2>2
    <3>2. QED  BY <1>3, <1>5, <3>1 DEF CoveredBy
  <2>3. QED  BY <2>1, <2>2
<1>6. QED  BY <1>3, <1>4, <1>5 DEF WithoutRow

(* forcetestcase: the new row covers in the place of the one it replaces.  *)
LEMMA ForcedRowCovers ==
  ASSUME NEW rows \in Seq(Row), NEW p \in DOMAIN rows, NEW row \in Row, NEW t
  PROVE  /\ [rows EXCEPT ![p] = row] \in Seq(Row)
         /\ Len([rows EXCEPT ![p] = row]) = Len(rows)
         /\ CoveredBy([rows EXCEPT ![p] = row], t)
              <=> \/ Covers(row, t)
                  \/ \E q \in DOMAIN rows \ {p} : Covers(rows[q], t)
<1> DEFINE forced == [rows EXCEPT ![p] = row]
<1>1. /\ forced \in Seq(Row)
      /\ Len(forced) = Len(rows)
      /\ DOMAIN forced = DOMAIN rows
      /\ forced[p] = row
      /\ \A q \in DOMAIN rows \ {p} : forced[q] = rows[q]
  OBVIOUS
<1>2. ASSUME CoveredBy(forced, t), ~Covers(row, t)
      PROVE  \E q \in DOMAIN rows \ {p} : Covers(rows[q], t)
  <2>1. PICK q \in DOMAIN rows : Covers(forced[q], t)
    BY <1>1, <1>2 DEF CoveredBy
  <2>2. q # p
    BY <1>1, <1>2, <2>1
  <2>3. QED  BY <1>1, <2>1, <2>2
<1>3. ASSUME Covers(row, t)
      PROVE  CoveredBy(forced, t)
  BY <1>1, <1>3 DEF CoveredBy
<1>4. ASSUME NEW q \in DOMAIN rows \ {p}, Covers(rows[q], t)
      PROVE  CoveredBy(forced, t)
  <2>1. q \in DOMAIN forced /\ forced[q] = rows[q]
    BY <1>1
  <2>2. QED  BY <1>4, <2>1 DEF CoveredBy
<1>5. QED  BY <1>1, <1>2, <1>3, <1>4

-----------------------------------------------------------------------------
(* Type correctness: every variable of the search holds a value that the   *)
(* code could hold, whatever the arrays and the configuration.             *)
THEOREM TypeCorrect == Spec => []TypeOK
<1> USE DEF rowVars, tupleVars, loopVars, Halted
<1>1. Init => TypeOK
  <2> SUFFICES ASSUME Init PROVE TypeOK
    OBVIOUS
  <2>1. PICK start \in Starts : last = start[1] /\ testcases = start[2]
    BY DEF Init
  <2>2. start[1] \in Seq(Row) /\ start[2] \in Seq(Row)
    BY SearchAssumption
  <2>3. bitmap \in SUBSET Tuple /\ tuplesU \in SUBSET Tuple
    BY DEF Init
  <2>4. best \in Seq(Row)
    BY DEF Init
  <2>5. QED  BY <2>1, <2>2, <2>3, <2>4, SearchAssumption DEF Init, TypeOK
<1>2. TypeOK /\ [Next]_vars => TypeOK'
  <2> SUFFICES ASSUME TypeOK, [Next]_vars
               PROVE  TypeOK'
    OBVIOUS
  <2>1. CASE Signal
    BY <2>1 DEF Signal, TypeOK
  <2>2. CASE TimeUp
    BY <2>2 DEF TimeUp, TypeOK
  <2>3. CASE Enter
    BY <2>3 DEF Enter, TypeOK
  <2>4. CASE Shrink
    <3>1. CASE testcases = <<>>
      BY <2>4, <3>1 DEF Shrink, Remove, Running, NoForce, TypeOK
    <3>2. CASE testcases # <<>>
      <4>1. PICK p \in DOMAIN testcases :
              /\ testcases' = WithoutRow(testcases, p)
              /\ uncovered' = uncovered \cup Lost(testcases, p)
        BY <2>4, <3>2 DEF Shrink, Remove
      <4>2. testcases' \in Seq(Row)
        BY <4>1, WithoutRowCovers DEF TypeOK
      <4>3. uncovered' \in SUBSET tuplesU
        BY <4>1 DEF Lost, TypeOK
      <4>4. QED  BY <2>4, <3>2, <4>2, <4>3 DEF Shrink, Remove, Running, TypeOK
    <3>3. QED  BY <3>1, <3>2
  <2>5. ASSUME NEW p \in DOMAIN testcases, NEW row \in Row, ForceRow(p, row)
        PROVE  testcases' \in Seq(Row) /\ uncovered' \in SUBSET tuplesU
    <3>1. testcases' \in Seq(Row)
      BY <2>5, ForcedRowCovers DEF ForceRow, TypeOK
    <3>2. uncovered' \in SUBSET tuplesU
      BY <2>5 DEF ForceRow, Lost, TypeOK
    <3>3. QED  BY <3>1, <3>2
  <2>6. CASE Patch
    BY <2>5, <2>6 DEF Patch, Patching, Running, TypeOK
  <2>7. CASE Idle
    BY <2>7 DEF Idle, Patching, Running, NoForce, TypeOK
  <2>8. CASE PatchTwice
    BY <2>5, <2>8 DEF PatchTwice, Patching, Running, TypeOK
  <2>9. CASE Backtrack
    <3>1. \A i \in DOMAIN best : best[i] \in Row
      BY DEF TypeOK
    <3>2. testcases' \in Seq(Row) /\ uncovered' \in SUBSET tuplesU
      BY <2>5, <2>9, <3>1 DEF Backtrack, NoForce, TypeOK
    <3>3. QED  BY <2>9, <3>2 DEF Backtrack, TypeOK
  <2>10. CASE StepOnNothing
    BY <2>10 DEF StepOnNothing, Patching, Running, NoForce, TypeOK
  <2>11. CASE RestartExchange
    <3>1. last' \in Seq(Row) /\ testcases' \in Seq(Row)
      BY <2>11, ExchangeTypes DEF RestartExchange, TypeOK
    <3>2. QED  BY <2>11, <3>1 DEF RestartExchange, Running, TypeOK
  <2>12. CASE RestartRebuild
    <3>1. (altLength * 18) \div 10 \in Nat
      BY DEF TypeOK
    <3>2. QED  BY <2>12, <3>1 DEF RestartRebuild, Rebind, TypeOK
  <2>13. CASE Exit
    BY <2>13 DEF Exit, TypeOK
  <2>14. CASE UNCHANGED vars
    BY <2>14 DEF vars, TypeOK
  <2>15. QED
    BY <2>1, <2>2, <2>3, <2>4, <2>6, <2>7, <2>8, <2>9, <2>10, <2>11, <2>12,
       <2>13, <2>14 DEF Next, MainStep
<1>3. QED  BY <1>1, <1>2, PTL DEF Spec

-----------------------------------------------------------------------------
(* The inductive invariant.  UncoveredExact alone is not inductive: a      *)
(* restart clears uncovered without a look, which is right only because    *)
(* the rows of last and best together cover everything in the bitmap.      *)

Missing == { t \in bitmap : ~CoveredBy(last, t) }

(* tuplesU is what last leaves to be covered.                              *)
TuplesExact ==
  pc \in {"optimize", "search", "backtrack"} => tuplesU = Missing

(* Expand has covered all of it.                                           *)
FreshStart ==
  pc = "optimize" => uncovered = {} /\ \A t \in tuplesU : CoveredBy(testcases, t)

(* While testcases is incomplete, best is complete and no smaller.         *)
BestComplete ==
  (pc = "search" /\ uncovered # {}) \/ pc = "backtrack"
    => /\ \A t \in tuplesU : CoveredBy(best, t)
       /\ Len(testcases) <= Len(best)

(* In the middle of a restart and at the end, all rows together cover all. *)
AllTogether ==
  pc \in {"restart", "returned"}
    => \A t \in bitmap : CoveredBy(last, t) \/ CoveredBy(testcases, t)

SearchInv ==
  TypeOK /\ TuplesExact /\ FreshStart /\ UncoveredExact /\ BestComplete /\ AllTogether

(* Expand's arrays satisfy the invariant: what it lists beyond the old     *)
(* rows, the new rows cover.                                               *)
LEMMA InitInv == Init /\ TypeOK => SearchInv
<1> SUFFICES ASSUME Init, TypeOK PROVE SearchInv
  OBVIOUS
<1>1. tuplesU = Missing
  <2>1. PICK start \in Starts :
          /\ last = start[1]
          /\ testcases = start[2]
          /\ bitmap = { t \in Tuple :
                          \/ Tracked(t) /\ CoveredBy(start[1], t)
                          \/ Listed(t) /\ CoveredBy(start[2], t) }
          /\ tuplesU = { t \in Tuple :
                          /\ Listed(t)
                          /\ CoveredBy(start[2], t)
                          /\ ~CoveredBy(start[1], t) }
    BY DEF Init
  <2>2. QED  BY <2>1 DEF Missing
<1>2. \A t \in tuplesU : CoveredBy(testcases, t)
  BY DEF Init
<1>3. pc = "optimize" /\ uncovered = {}
  BY DEF Init
<1>4. QED
  BY <1>1, <1>2, <1>3
  DEF SearchInv, TuplesExact, FreshStart, UncoveredExact, BestComplete, AllTogether

(* The counters are right for one overwritten row: uncovered stays exact.  *)
LEMMA ForceExact ==
  ASSUME TypeOK,
         uncovered = { t \in tuplesU : ~CoveredBy(testcases, t) },
         tuplesU' = tuplesU,
         NEW p \in DOMAIN testcases, NEW row \in Row, ForceRow(p, row)
  PROVE  /\ uncovered' = { t \in tuplesU : ~CoveredBy(testcases, t) }'
         /\ Len(testcases') = Len(testcases)
<1>1. testcases \in Seq(Row) /\ testcases' = [testcases EXCEPT ![p] = row]
  BY DEF TypeOK, ForceRow
<1>2. Len(testcases') = Len(testcases)
  BY <1>1
<1>3. ASSUME NEW t \in tuplesU
      PROVE  t \in uncovered' <=> ~CoveredBy(testcases', t)
  <2>1. CoveredBy(testcases', t)
          <=> \/ Covers(row, t)
              \/ \E q \in DOMAIN testcases \ {p} : Covers(testcases[q], t)
    BY <1>1, ForcedRowCovers
  <2>2. t \in uncovered
          <=> /\ ~Covers(testcases[p], t)
              /\ \A q \in DOMAIN testcases \ {p} : ~Covers(testcases[q], t)
    BY DEF CoveredBy
  <2>3. t \in uncovered' <=> t \in uncovered \cup Lost(testcases, p) /\ ~Covers(row, t)
    BY DEF ForceRow
  <2>4. t \in Lost(testcases, p)
          <=> /\ t \notin uncovered
              /\ Covers(testcases[p], t)
              /\ \A q \in DOMAIN testcases \ {p} : ~Covers(testcases[q], t)
    BY DEF Lost
  <2>5. QED  BY <2>1, <2>2, <2>3, <2>4
<1>4. uncovered' \subseteq tuplesU
  BY DEF ForceRow, Lost
<1>5. QED  BY <1>2, <1>3, <1>4

(* The same for a dropped row.                                             *)
LEMMA DropExact ==
  ASSUME TypeOK,
         uncovered = {},
         \A t \in tuplesU : CoveredBy(testcases, t),
         tuplesU' = tuplesU,
         NEW p \in DOMAIN testcases,
         testcases' = WithoutRow(testcases, p),
         uncovered' = uncovered \cup Lost(testcases, p)
  PROVE  /\ uncovered' = { t \in tuplesU : ~CoveredBy(testcases, t) }'
         /\ Len(testcases') = Len(testcases) - 1
<1>1. testcases \in Seq(Row)
  BY DEF TypeOK
<1>2. Len(testcases') = Len(testcases) - 1
  BY <1>1, WithoutRowCovers
<1>3. ASSUME NEW t \in tuplesU
      PROVE  t \in uncovered' <=> ~CoveredBy(testcases', t)
  <2>1. CoveredBy(testcases', t)
          <=> \E q \in DOMAIN testcases \ {p} : Covers(testcases[q], t)
    BY <1>1, WithoutRowCovers
  <2>2. \E q \in DOMAIN testcases : Covers(testcases[q], t)
    BY DEF CoveredBy
  <2>3. t \in uncovered'
          <=> /\ Covers(testcases[p], t)
              /\ \A q \in DOMAIN testcases \ {p} : ~Covers(testcases[q], t)
    BY DEF Lost
  <2>4. QED  BY <2>1, <2>2, <2>3
<1>4. uncovered' \subseteq tuplesU
  BY DEF Lost
<1>5. QED  BY <1>2, <1>3, <1>4

(* Every step of the program preserves the invariant.                      *)
LEMMA StepInv == SearchInv /\ TypeOK' /\ [Next]_vars => SearchInv'
<1> SUFFICES ASSUME SearchInv, TypeOK', [Next]_vars
             PROVE  /\ TuplesExact'
                    /\ FreshStart'
                    /\ UncoveredExact'
                    /\ BestComplete'
                    /\ AllTogether'
  BY DEF SearchInv
<1> USE DEF rowVars, tupleVars, loopVars, Halted, Missing
<1>1. TypeOK /\ TuplesExact /\ FreshStart /\ UncoveredExact /\ BestComplete /\ AllTogether
  BY DEF SearchInv
<1>2. CASE UNCHANGED <<last, testcases, best, bitmap, tuplesU, uncovered>>
           /\ (pc' = pc \/ pc' \in {"killed", "undefined", "terminate"})
  BY <1>1, <1>2
  DEF TuplesExact, FreshStart, UncoveredExact, BestComplete, AllTogether
<1>3. CASE Signal
  BY <1>2, <1>3 DEF Signal
<1>4. CASE TimeUp
  BY <1>2, <1>4 DEF TimeUp
<1>5. CASE Enter
  <2>1. pc = "optimize" /\ pc' \in {"returned", "search"}
    BY <1>5 DEF Enter
  <2>2. UNCHANGED <<last, testcases, best, bitmap, tuplesU, uncovered>>
    BY <1>5 DEF Enter
  <2>3. uncovered = {} /\ \A t \in tuplesU : CoveredBy(testcases, t)
    BY <1>1, <2>1 DEF FreshStart
  <2>4. tuplesU = Missing
    BY <1>1, <2>1 DEF TuplesExact
  <2>5. QED
    BY <2>1, <2>2, <2>3, <2>4
    DEF TuplesExact, FreshStart, UncoveredExact, BestComplete, AllTogether
<1>6. CASE Shrink
  <2>1. /\ pc = "search" /\ uncovered = {} /\ best' = testcases
        /\ UNCHANGED <<last, bitmap, tuplesU>>
    BY <1>6 DEF Shrink, Remove, Running
  <2>2. \A t \in tuplesU : CoveredBy(testcases, t)
    BY <1>1, <2>1 DEF UncoveredExact
  <2>3. CASE testcases = <<>>
    <3>1. pc' = "undefined"
      BY <1>6, <2>3 DEF Shrink, Remove
    <3>2. QED
      BY <3>1 DEF TuplesExact, FreshStart, UncoveredExact, BestComplete, AllTogether
  <2>4. CASE testcases # <<>>
    <3>1. PICK p \in DOMAIN testcases :
            /\ testcases' = WithoutRow(testcases, p)
            /\ uncovered' = uncovered \cup Lost(testcases, p)
      BY <1>6, <2>4 DEF Shrink, Remove
    <3>2. /\ uncovered' = { t \in tuplesU : ~CoveredBy(testcases, t) }'
          /\ Len(testcases') = Len(testcases) - 1
      BY <1>1, <2>1, <2>2, <3>1, DropExact
    <3>3. pc' = "search"
      BY <1>6, <2>1, <2>4 DEF Shrink, Remove
    <3>4. Len(testcases') <= Len(best')
      BY <1>1, <2>1, <3>2 DEF TypeOK
    <3>5. QED
      BY <1>1, <2>1, <2>2, <3>2, <3>3, <3>4
      DEF TuplesExact, FreshStart, UncoveredExact, BestComplete, AllTogether
  <2>5. QED  BY <2>3, <2>4
<1>7. ASSUME pc \in {"search", "backtrack"},
             pc = "search" => uncovered # {},
             UNCHANGED <<last, best, bitmap, tuplesU>>,
             pc' \in {"search", "backtrack"},
             NoForce \/ \E p \in DOMAIN testcases, row \in Row : ForceRow(p, row)
      PROVE  /\ TuplesExact' /\ FreshStart' /\ UncoveredExact'
             /\ BestComplete' /\ AllTogether'
  <2>1. uncovered = { t \in tuplesU : ~CoveredBy(testcases, t) }
    BY <1>1, <1>7 DEF UncoveredExact
  <2>2. /\ uncovered' = { t \in tuplesU : ~CoveredBy(testcases, t) }'
        /\ Len(testcases') = Len(testcases)
    <3>1. CASE NoForce
      BY <1>7, <2>1, <3>1 DEF NoForce
    <3>2. CASE \E p \in DOMAIN testcases, row \in Row : ForceRow(p, row)
      BY <1>1, <1>7, <2>1, <3>2, ForceExact
    <3>3. QED  BY <1>7, <3>1, <3>2
  <2>3. /\ \A t \in tuplesU : CoveredBy(best, t)
        /\ Len(testcases) <= Len(best)
    BY <1>1, <1>7 DEF BestComplete
  <2>4. QED
    BY <1>1, <1>7, <2>2, <2>3
    DEF TuplesExact, FreshStart, UncoveredExact, BestComplete, AllTogether
<1>8. CASE Patch
  BY <1>7, <1>8 DEF Patch, Patching, Running
<1>9. CASE Idle
  BY <1>7, <1>9 DEF Idle, Patching, Running
<1>10. CASE PatchTwice
  BY <1>7, <1>10 DEF PatchTwice, Patching, Running
<1>11. CASE Backtrack
  <2>1. \A i \in DOMAIN best : best[i] \in Row
    BY <1>1 DEF TypeOK
  <2>2. QED  BY <1>7, <1>11, <2>1 DEF Backtrack
<1>12. CASE StepOnNothing
  BY <1>2, <1>12 DEF StepOnNothing, Patching, NoForce
<1>13. CASE RestartExchange
  <2>1. /\ pc = "search" /\ uncovered # {} /\ pc' = "restart"
        /\ UNCHANGED <<best, bitmap, tuplesU, uncovered>>
    BY <1>13 DEF RestartExchange, Running
  <2>2. PICK order \in Injection(1 .. Exchanged, DOMAIN best) :
          last' = KeptRows(order) /\ testcases' = TakenRows(order)
    BY <1>13 DEF RestartExchange
  <2>3. ASSUME NEW t \in bitmap
        PROVE  CoveredBy(last', t) \/ CoveredBy(testcases', t)
    <3>1. CoveredBy(last, t) \/ CoveredBy(best, t)
      BY <1>1, <2>1 DEF TuplesExact, BestComplete
    <3>2. last \in Seq(Row) /\ best \in Seq(Row)
      BY <1>1 DEF TypeOK
    <3>3. QED  BY <2>2, <3>1, <3>2, ExchangeCovers
  <2>4. QED
    BY <2>1, <2>3
    DEF TuplesExact, FreshStart, UncoveredExact, BestComplete, AllTogether
<1>14. CASE RestartRebuild
  <2>1. CASE stop
    BY <1>2, <1>14, <2>1 DEF RestartRebuild, Rebind
  <2>2. CASE ~stop
    <3>1. /\ pc = "restart" /\ pc' = "search"
          /\ UNCHANGED <<last, testcases, best, bitmap>>
          /\ tuplesU' = Missing
          /\ uncovered' = {}
      BY <1>14, <2>2 DEF RestartRebuild, Rebind
    <3>2. \A t \in bitmap : CoveredBy(last, t) \/ CoveredBy(testcases, t)
      BY <1>1, <3>1 DEF AllTogether
    <3>3. QED
      BY <3>1, <3>2
      DEF TuplesExact, FreshStart, UncoveredExact, BestComplete, AllTogether
  <2>3. QED  BY <2>1, <2>2
<1>15. CASE Exit
  <2>1. /\ pc = "search" /\ pc' = "returned"
        /\ UNCHANGED <<last, best, bitmap, tuplesU, uncovered>>
        /\ testcases' = IF uncovered # {} THEN best ELSE testcases
    BY <1>15 DEF Exit
  <2>2. \A t \in tuplesU : CoveredBy(testcases', t)
    BY <1>1, <2>1 DEF UncoveredExact, BestComplete
  <2>3. \A t \in bitmap : CoveredBy(last', t) \/ CoveredBy(testcases', t)
    BY <1>1, <2>1, <2>2 DEF TuplesExact
  <2>4. QED
    BY <2>1, <2>3
    DEF TuplesExact, FreshStart, UncoveredExact, BestComplete, AllTogether
<1>16. CASE UNCHANGED vars
  BY <1>2, <1>16 DEF vars
<1>17. QED
  BY <1>3, <1>4, <1>5, <1>6, <1>8, <1>9, <1>10, <1>11, <1>12, <1>13, <1>14,
     <1>15, <1>16 DEF Next, MainStep

(* The inductive invariant holds throughout the search.                    *)
LEMMA SearchInvariant == Spec => []SearchInv
<1>1. Spec => []TypeOK
  BY TypeCorrect
<1>2. QED  BY <1>1, InitInv, StepInv, PTL DEF Spec

(* The list of uncovered tuples is exact throughout the search, although   *)
(* no step recomputes it.                                                  *)
THEOREM UncoveredAlwaysExact == Spec => []UncoveredExact
<1>1. SearchInv => UncoveredExact
  BY DEF SearchInv
<1>2. QED  BY <1>1, SearchInvariant, PTL

-----------------------------------------------------------------------------
(* The search implements AnytimeArray.                                     *)

InHandComplete ==
  pc \notin Halted \ {"returned"}
    => /\ InHand \in Seq(Row)
       /\ \A t \in bitmap : CoveredBy(InHand, t)

(* Whatever the program is doing, what it would return covers the bitmap.  *)
LEMMA HandInv == SearchInv => InHandComplete
<1> SUFFICES ASSUME SearchInv, pc \notin Halted \ {"returned"}
             PROVE  InHand \in Seq(Row) /\ \A t \in bitmap : CoveredBy(InHand, t)
  BY DEF InHandComplete
<1>1. /\ TypeOK /\ TuplesExact /\ FreshStart /\ UncoveredExact
      /\ BestComplete /\ AllTogether
  BY DEF SearchInv
<1>2. last \in Seq(Row) /\ testcases \in Seq(Row) /\ best \in Seq(Row)
  BY <1>1 DEF TypeOK
<1>3. CASE /\ InHand = last \o testcases
           /\ \A t \in bitmap : CoveredBy(last, t) \/ CoveredBy(testcases, t)
  <2>1. InHand \in Seq(Row)
    BY <1>2, <1>3
  <2>2. \A t \in bitmap : CoveredBy(InHand, t)
    BY <1>2, <1>3, CoveredByConcat
  <2>3. QED  BY <2>1, <2>2
<1>4. CASE /\ InHand = last \o best
           /\ \A t \in bitmap : CoveredBy(last, t) \/ CoveredBy(best, t)
  <2>1. InHand \in Seq(Row)
    BY <1>2, <1>4
  <2>2. \A t \in bitmap : CoveredBy(InHand, t)
    BY <1>2, <1>4, CoveredByConcat
  <2>3. QED  BY <2>1, <2>2
<1>5. CASE pc \in {"restart", "returned"}
  BY <1>1, <1>3, <1>5 DEF AllTogether, InHand, Halted
<1>6. CASE pc = "optimize"
  BY <1>1, <1>3, <1>6 DEF TuplesExact, FreshStart, Missing, InHand, Halted
<1>7. CASE pc = "search" /\ uncovered = {}
  BY <1>1, <1>3, <1>7 DEF TuplesExact, UncoveredExact, Missing, InHand, Halted
<1>8. CASE (pc = "search" /\ uncovered # {}) \/ pc = "backtrack"
  BY <1>1, <1>4, <1>8 DEF TuplesExact, BestComplete, Missing, InHand, Halted
<1>9. QED  BY <1>1, <1>5, <1>6, <1>7, <1>8 DEF TypeOK, Halted

AbstractStatus ==
  IF pc = "returned" THEN "returned" ELSE IF pc \in Halted THEN "dead" ELSE "improving"

(* Each step of the search is an improvement, a return, a death or nothing *)
(* at all: in particular it never makes the array in hand larger.          *)
LEMMA StepRefines ==
  ASSUME SearchInv, SearchInv', [Next]_vars
  PROVE  [Anytime!Next]_<<bitmap, InHand, AbstractStatus>>
<1> USE DEF rowVars, tupleVars, loopVars, Halted
<1>1. /\ TypeOK /\ TuplesExact /\ FreshStart /\ UncoveredExact
      /\ BestComplete /\ AllTogether
  BY DEF SearchInv
<1>2. /\ last \in Seq(Row) /\ testcases \in Seq(Row) /\ best \in Seq(Row)
      /\ last' \in Seq(Row) /\ testcases' \in Seq(Row) /\ best' \in Seq(Row)
  BY DEF SearchInv, TypeOK
<1>3. InHandComplete /\ InHandComplete'
  <2>1. (SearchInv => InHandComplete)'
    BY HandInv, PTL
  <2>2. QED  BY HandInv, <2>1
<1>4. bitmap' = bitmap
  BY DEF Next, MainStep, Signal, TimeUp, Enter, Shrink, Patch, Idle, PatchTwice,
         Patching, Backtrack, StepOnNothing, RestartExchange, RestartRebuild,
         Exit, vars
<1> DEFINE Live == {"optimize", "search", "backtrack", "restart"}
<1>5. ASSUME pc \in Live, pc' \in Live, Len(InHand') <= Len(InHand)
      PROVE  Anytime!Improve
  <2>1. InHand' \in Seq(Row) /\ \A t \in bitmap' : CoveredBy(InHand', t)
    BY <1>3, <1>5 DEF InHandComplete
  <2>2. QED
    BY <1>4, <1>5, <2>1 DEF Anytime!Improve, Anytime!CoversAll, Anytime!CoveredBy,
       CoveredBy, Covers
<1>6. ASSUME pc \in Live, pc' \in {"terminate", "undefined", "killed"}
      PROVE  Anytime!Die
  BY <1>4, <1>6 DEF Anytime!Die, InHand
<1>7. ASSUME pc \in Live, pc' = "returned", InHand' = InHand
      PROVE  Anytime!Return
  BY <1>4, <1>7 DEF Anytime!Return
<1>8. ASSUME NEW p \in DOMAIN testcases, NEW row \in Row, ForceRow(p, row)
      PROVE  Len(testcases') = Len(testcases)
  BY <1>2, <1>8, ForcedRowCovers DEF ForceRow
<1>9. ASSUME NEW r \in Seq(Row), NEW s \in Seq(Row)
      PROVE  Len(r \o s) = Len(r) + Len(s) /\ Len(r) \in Nat /\ Len(s) \in Nat
  OBVIOUS
<1>10. CASE Signal
  <2>1. CASE stop
    BY <1>6, <1>1, <1>10, <2>1 DEF Signal, Anytime!Next, TypeOK
  <2>2. CASE ~stop
    BY <1>10, <2>2 DEF Signal, InHand, AbstractStatus
  <2>3. QED  BY <2>1, <2>2
<1>11. CASE TimeUp
  BY <1>11 DEF TimeUp, InHand, AbstractStatus
<1>12. CASE Enter
  <2>1. InHand = last \o testcases
    BY <1>12 DEF Enter, InHand
  <2>2. InHand' = last \o testcases
    BY <1>1, <1>12 DEF Enter, InHand, FreshStart
  <2>3. CASE pc' = "returned"
    BY <1>7, <1>12, <2>1, <2>2, <2>3 DEF Enter, Anytime!Next
  <2>4. CASE pc' = "search"
    BY <1>12, <1>4, <2>1, <2>2, <2>4 DEF Enter, AbstractStatus
  <2>5. QED  BY <1>12, <2>3, <2>4 DEF Enter
<1>13. CASE Shrink
  <2>1. pc = "search" /\ uncovered = {} /\ best' = testcases /\ last' = last
    BY <1>13 DEF Shrink, Remove, Running
  <2>2. CASE testcases = <<>>
    BY <1>6, <1>13, <2>1, <2>2 DEF Shrink, Remove, Anytime!Next
  <2>3. CASE testcases # <<>>
    <3>1. PICK p \in DOMAIN testcases : testcases' = WithoutRow(testcases, p)
      BY <1>13, <2>3 DEF Shrink, Remove
    <3>2. Len(testcases') = Len(testcases) - 1
      BY <1>2, <3>1, WithoutRowCovers
    <3>3. pc' = "search"
      BY <1>13, <2>1, <2>3 DEF Shrink, Remove
    <3>4. InHand = last \o testcases /\ InHand' \in {last' \o testcases', last' \o best'}
      BY <2>1, <3>3 DEF InHand
    <3>5. Len(InHand') <= Len(InHand)
      BY <1>2, <1>9, <2>1, <3>2, <3>4
    <3>6. QED  BY <1>5, <2>1, <3>3, <3>5 DEF Anytime!Next
  <2>4. QED  BY <2>2, <2>3
<1>14. ASSUME (pc = "search" /\ uncovered # {}) \/ pc = "backtrack",
              last' = last, best' = best,
              pc' \in {"search", "backtrack"},
              NoForce \/ \E p \in DOMAIN testcases, row \in Row : ForceRow(p, row)
       PROVE  Anytime!Next
  <2>1. Len(testcases') = Len(testcases)
    BY <1>8, <1>14 DEF NoForce
  <2>2. Len(testcases) <= Len(best)
    BY <1>1, <1>14 DEF BestComplete
  <2>3. InHand = last \o best /\ InHand' \in {last' \o testcases', last' \o best'}
    BY <1>14 DEF InHand
  <2>4. Len(InHand') <= Len(InHand)
    BY <1>2, <1>9, <1>14, <2>1, <2>2, <2>3
  <2>5. QED  BY <1>5, <1>14, <2>4 DEF Anytime!Next
<1>15. CASE Patch
  BY <1>14, <1>15 DEF Patch, Patching, Running
<1>16. CASE Idle
  BY <1>14, <1>16 DEF Idle, Patching, Running
<1>17. CASE PatchTwice
  BY <1>14, <1>17 DEF PatchTwice, Patching, Running
<1>18. CASE Backtrack
  <2>1. \A i \in DOMAIN best : best[i] \in Row
    BY <1>2
  <2>2. QED  BY <1>14, <1>18, <2>1 DEF Backtrack
<1>19. CASE StepOnNothing
  BY <1>6, <1>19 DEF StepOnNothing, Patching, Running, Anytime!Next
<1>20. CASE RestartExchange
  <2>1. /\ pc = "search" /\ uncovered # {} /\ pc' = "restart" /\ best' = best
    BY <1>20 DEF RestartExchange, Running
  <2>2. PICK order \in Injection(1 .. Exchanged, DOMAIN best) :
          last' = KeptRows(order) /\ testcases' = TakenRows(order)
    BY <1>20 DEF RestartExchange
  <2>3. Len(last') = Len(last) - Popout /\ Len(testcases') = Len(best) + Popout
    BY <1>2, <2>2, ExchangeTypes
  <2>4. InHand = last \o best /\ InHand' = last' \o testcases'
    BY <2>1 DEF InHand
  <2>5. Len(InHand') <= Len(InHand)
    BY <1>2, <1>9, <2>3, <2>4, PopoutRange
  <2>6. QED  BY <1>5, <2>1, <2>5 DEF Anytime!Next
<1>21. CASE RestartRebuild
  <2>1. CASE stop
    BY <1>6, <1>21, <2>1 DEF RestartRebuild, Rebind, Anytime!Next
  <2>2. CASE ~stop
    <3>1. pc = "restart" /\ pc' = "search" /\ uncovered' = {}
          /\ last' = last /\ testcases' = testcases
      BY <1>21, <2>2 DEF RestartRebuild, Rebind
    <3>2. InHand = last \o testcases /\ InHand' = last \o testcases
      BY <3>1 DEF InHand
    <3>3. QED  BY <1>4, <3>1, <3>2 DEF AbstractStatus
  <2>3. QED  BY <2>1, <2>2
<1>22. CASE Exit
  <2>1. pc = "search" /\ pc' = "returned" /\ last' = last
        /\ testcases' = IF uncovered # {} THEN best ELSE testcases
    BY <1>22 DEF Exit
  <2>2. InHand' = InHand
    BY <2>1 DEF InHand
  <2>3. QED  BY <1>7, <2>1, <2>2 DEF Anytime!Next
<1>23. CASE UNCHANGED vars
  BY <1>23 DEF vars, InHand, AbstractStatus
<1>24. QED
  BY <1>10, <1>11, <1>12, <1>13, <1>15, <1>16, <1>17, <1>18, <1>19, <1>20,
     <1>21, <1>22, <1>23 DEF Next, MainStep

(* The search keeps the promise of AnytimeArray: at every moment the rows  *)
(* in hand cover all that was covered at the start, they never become      *)
(* more, and they are what is returned.                                    *)
THEOREM SearchKeepsThePromise == Spec => KeepsThePromise
<1>1. SearchInv /\ Init => Anytime!Init
  <2> SUFFICES ASSUME SearchInv, Init PROVE Anytime!Init
    OBVIOUS
  <2>1. pc = "optimize" /\ bitmap \in SUBSET Tuple
    BY DEF Init
  <2>2. InHandComplete
    BY HandInv
  <2>3. InHand \in Seq(Row) /\ \A t \in bitmap : CoveredBy(InHand, t)
    BY <2>1, <2>2 DEF InHandComplete, Halted
  <2>4. Anytime!CoversAll(InHand)
    BY <2>3 DEF Anytime!CoversAll, Anytime!CoveredBy, CoveredBy, Covers
  <2>5. QED
    BY <2>1, <2>3, <2>4 DEF Anytime!Init, Halted
<1>2. SearchInv /\ SearchInv' /\ [Next]_vars => [Anytime!Next]_(Anytime!arrayVars)
  BY StepRefines DEF Anytime!arrayVars, AbstractStatus
<1>3. QED
  BY <1>1, <1>2, SearchInvariant, PTL DEF Spec, KeepsThePromise, Anytime!Spec

(* The array that Optimize leaves in old_testcase and new_testcase covers  *)
(* every tuple of the bitmap that Expand left.                             *)
THEOREM ReturnsComplete ==
  Spec => [](pc = "returned" => \A t \in bitmap : CoveredBy(last \o testcases, t))
<1>1. SearchInv /\ pc = "returned" => \A t \in bitmap : CoveredBy(last \o testcases, t)
  BY HandInv DEF InHandComplete, InHand, Halted
<1>2. QED  BY <1>1, SearchInvariant, PTL

(* restart exchanges rows between best and last: none is lost or doubled.  *)
THEOREM RestartMovesRows == Spec => RestartKeepsRows
<1> DEFINE RowsMoved == pc = "search" /\ pc' = "restart"
                      => BagOf(last') (+) BagOf(testcases') = BagOf(last) (+) BagOf(best)
<1>1. TypeOK /\ [Next]_vars => [RowsMoved]_vars
  <2> SUFFICES ASSUME TypeOK, Next, pc = "search", pc' = "restart"
               PROVE  BagOf(last') (+) BagOf(testcases') = BagOf(last) (+) BagOf(best)
    OBVIOUS
  <2>1. RestartExchange
    BY DEF Next, MainStep, Signal, TimeUp, Enter, Shrink, Patch, Idle, PatchTwice, Backtrack, StepOnNothing,
           RestartRebuild, Exit, Patching, Running, Halted
  <2>2. PICK order \in Injection(1 .. Exchanged, DOMAIN best) :
          last' = KeptRows(order) /\ testcases' = TakenRows(order)
    BY <2>1 DEF RestartExchange
  <2>3. last \in Seq(Row) /\ best \in Seq(Row)
    BY DEF TypeOK
  <2>4. QED  BY <2>2, <2>3, ExchangeKeeps
<1>2. QED  BY <1>1, TypeCorrect, PTL DEF Spec, RestartKeepsRows

=============================================================================
