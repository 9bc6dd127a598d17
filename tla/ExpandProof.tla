---------------------------- MODULE ExpandProof ----------------------------
(***************************************************************************)
(* Proofs about Expand, for every formula, every grouping of variables,    *)
(* every array to begin with and every choice of samples.                  *)
(***************************************************************************)
EXTENDS Expand, FiniteSetTheorems, SequenceTheorems, TLAPS

Levels == InitStrength .. Strength

-----------------------------------------------------------------------------
(* Lemmas about tuples: there are finitely many, and every list that the   *)
(* enumeration uses is made of them.                                       *)

(* The strengths of a run and the size of the candidate set are numbers.   *)
LEMMA LevelsNat == /\ Levels \subseteq Nat
                   /\ InitStrength \in Levels
                   /\ Strength \in Levels
                   /\ InitStrength \in Int /\ Strength \in Int
                   /\ N \in Nat \ {0}
BY FormulaAssumption, ExpandAssumption DEF Levels, Var

(* What the tables over the strengths hold.                                *)
LEMMA TablesOf ==
  ASSUME NEW k \in Levels
  PROVE  /\ ListedOf[k] = { t \in TuplesOf(k) : Listed(t) }
         /\ TrackedOf[k] = { t \in TuplesOf(k) : Tracked(t) }
         /\ ValidOf[k] = { t \in TuplesOf(k) : Extendable(t) }
         /\ \A row \in ValidRows : CoverOf[k][row] = { t \in TuplesOf(k) : Covers(row, t) }
BY DEF ListedOf, TrackedOf, ValidOf, CoverOf, Levels

(* The tuples that the enumeration lists have a bit of their own.          *)
LEMMA ListedIsTracked ==
  ASSUME NEW k \in Levels
  PROVE  ListedOf[k] \subseteq TrackedOf[k]
<1>1. ASSUME NEW t \in TuplesOf(k), Listed(t)
      PROVE  Tracked(t)
  BY <1>1 DEF Listed, Tracked, GroupsPositive
<1>2. QED  BY <1>1, TablesOf

(* A tuple gives a bit to each of its columns.                             *)
LEMMA TupleShape ==
  ASSUME NEW k, NEW t \in TuplesOf(k)
  PROVE  /\ t \in [DOMAIN t -> Bit]
         /\ DOMAIN t \subseteq Var
         /\ IsFiniteSet(DOMAIN t)
         /\ Cardinality(DOMAIN t) = k
<1>1. PICK cols \in kSubset(k, Var) : t \in [cols -> Bit]
  BY DEF TuplesOf
<1>2. DOMAIN t = cols /\ cols \subseteq Var /\ Cardinality(cols) = k
  BY <1>1 DEF kSubset
<1>3. IsFiniteSet(Var)
  BY FormulaAssumption, FS_Interval DEF Var
<1>4. IsFiniteSet(cols)
  BY <1>2, <1>3, FS_Subset
<1>5. QED  BY <1>1, <1>2, <1>4

(* ... and whatever does is a tuple.                                       *)
LEMMA TupleOfShape ==
  ASSUME NEW k, NEW cols \in SUBSET Var, Cardinality(cols) = k,
         NEW t \in [cols -> Bit]
  PROVE  t \in TuplesOf(k)
<1>1. cols \in kSubset(k, Var)
  BY DEF kSubset
<1>2. QED  BY <1>1 DEF TuplesOf

(* There are finitely many tuples of each strength.                        *)
LEMMA TuplesFinite == ASSUME NEW k PROVE IsFiniteSet(TuplesOf(k))
<1> DEFINE Pairs(t) == { p \in Var \X Bit : p[1] \in DOMAIN t /\ t[p[1]] = p[2] }
           f == [t \in TuplesOf(k) |-> Pairs(t)]
<1>1. IsFiniteSet(Var) /\ IsFiniteSet(Bit)
  <2>1. IsFiniteSet(Var)  BY FormulaAssumption, FS_Interval DEF Var
  <2>2. IsFiniteSet({0})
    BY FS_Singleton
  <2>3. Bit = {0} \cup {1}
    BY DEF Bit
  <2>4. QED  BY <2>1, <2>2, <2>3, FS_AddElement
<1>2. IsFiniteSet(SUBSET (Var \X Bit))
  BY <1>1, FS_Product, FS_SUBSET
<1>3. f \in [TuplesOf(k) -> SUBSET (Var \X Bit)]
  OBVIOUS
<1>4. ASSUME NEW t \in TuplesOf(k), NEW u \in TuplesOf(k), Pairs(t) = Pairs(u)
      PROVE  t = u
  <2>1. /\ t \in [DOMAIN t -> Bit] /\ DOMAIN t \subseteq Var
        /\ u \in [DOMAIN u -> Bit] /\ DOMAIN u \subseteq Var
    BY TupleShape
  <2>2. ASSUME NEW v \in DOMAIN t
        PROVE  v \in DOMAIN u /\ u[v] = t[v]
    <3>1. <<v, t[v]>> \in Pairs(t)
      BY <2>1
    <3>2. <<v, t[v]>> \in Pairs(u)
      BY <3>1, <1>4
    <3>3. QED  BY <3>2
  <2>3. ASSUME NEW v \in DOMAIN u
        PROVE  v \in DOMAIN t
    <3>1. <<v, u[v]>> \in Pairs(u)
      BY <2>1
    <3>2. <<v, u[v]>> \in Pairs(t)
      BY <3>1, <1>4
    <3>3. QED  BY <3>2
  <2>4. DOMAIN t = DOMAIN u
    BY <2>2, <2>3
  <2>5. QED  BY <2>1, <2>2, <2>4
<1>5. f \in Injection(TuplesOf(k), SUBSET (Var \X Bit))
  <2>1. \A a, b \in TuplesOf(k) : f[a] = f[b] => a = b
    BY <1>4
  <2>2. QED  BY <1>3, <2>1 DEF Injection, IsInjective
<1>6. QED  BY <1>2, <1>5, FS_Injection

(* ... so whatever list of them there is can be counted.                   *)
LEMMA ListsAreFinite ==
  ASSUME NEW k \in Levels, NEW S \in SUBSET TuplesOf(k)
  PROVE  IsFiniteSet(S)
BY TuplesFinite, FS_Subset

-----------------------------------------------------------------------------
(* Lemmas about the tuples that arrays cover.                              *)

(* A tuple is covered by an array if one of its rows covers it.            *)
LEMMA CoverInDef ==
  ASSUME NEW k \in Levels, NEW a \in Seq(ValidRows), NEW t
  PROVE  t \in CoverIn(k, a)
           <=> t \in TuplesOf(k) /\ \E i \in DOMAIN a : Covers(a[i], t)
<1>1. \A i \in DOMAIN a : a[i] \in ValidRows
  OBVIOUS
<1>2. \A i \in DOMAIN a : CoverOf[k][a[i]] = { u \in TuplesOf(k) : Covers(a[i], u) }
  BY <1>1, TablesOf
<1>3. QED  BY <1>2 DEF CoverIn

(* Two arrays, one after the other, cover what either covers.              *)
LEMMA CoverInConcat ==
  ASSUME NEW k \in Levels, NEW a \in Seq(ValidRows), NEW b \in Seq(ValidRows)
  PROVE  CoverIn(k, a \o b) = CoverIn(k, a) \cup CoverIn(k, b)
<1>1. a \o b \in Seq(ValidRows)
  OBVIOUS
<1>2. ASSUME NEW t
      PROVE  (\E i \in DOMAIN (a \o b) : Covers((a \o b)[i], t)) <=>
               (\E i \in DOMAIN a : Covers(a[i], t)) \/ (\E i \in DOMAIN b : Covers(b[i], t))
  <2>1. ASSUME NEW i \in DOMAIN (a \o b)
        PROVE  \/ i \in DOMAIN a /\ (a \o b)[i] = a[i]
               \/ i - Len(a) \in DOMAIN b /\ (a \o b)[i] = b[i - Len(a)]
    OBVIOUS
  <2>2. ASSUME NEW i \in DOMAIN a
        PROVE  i \in DOMAIN (a \o b) /\ (a \o b)[i] = a[i]
    OBVIOUS
  <2>3. ASSUME NEW i \in DOMAIN b
        PROVE  i + Len(a) \in DOMAIN (a \o b) /\ (a \o b)[i + Len(a)] = b[i]
    OBVIOUS
  <2>4. QED  BY <2>1, <2>2, <2>3
<1>3. ASSUME NEW t
      PROVE  t \in CoverIn(k, a \o b) <=> t \in CoverIn(k, a) \cup CoverIn(k, b)
  BY <1>1, <1>2, CoverInDef
<1>4. QED  BY <1>3

(* One more row covers what it covers, and nothing else is lost.           *)
LEMMA CoverInAppend ==
  ASSUME NEW k \in Levels, NEW a \in Seq(ValidRows), NEW row \in ValidRows
  PROVE  CoverIn(k, Append(a, row)) = CoverIn(k, a) \cup CoverOf[k][row]
<1> DEFINE one == <<row>>
<1>1. one \in Seq(ValidRows) /\ Append(a, row) = a \o one
  OBVIOUS
<1>2. CoverIn(k, one) = CoverOf[k][row]
  BY DEF CoverIn
<1> HIDE DEF one
<1>3. CoverIn(k, a \o one) = CoverIn(k, a) \cup CoverIn(k, one)
  BY <1>1, CoverInConcat
<1>4. QED  BY <1>1, <1>2, <1>3

(* An array without rows covers nothing.                                   *)
LEMMA CoverInEmpty == ASSUME NEW k PROVE CoverIn(k, <<>>) = {}
BY DEF CoverIn

(* Only what is valid is covered.                                          *)
LEMMA CoveredIsValid ==
  ASSUME NEW k \in Levels, NEW a \in Seq(ValidRows)
  PROVE  /\ CoverIn(k, a) \subseteq ValidOf[k]
         /\ ValidOf[k] \subseteq TuplesOf(k)
         /\ \A row \in ValidRows : CoverOf[k][row] \subseteq ValidOf[k]
<1>1. \A i \in DOMAIN a : a[i] \in ValidRows
  OBVIOUS
<1>2. QED  BY <1>1, CoverInDef, TablesOf DEF Extendable

-----------------------------------------------------------------------------
(* The shortcuts of get_remaining_valid_tuples are sound.                  *)

(* check_clauses_invalid: a tuple that contradicts a clause is invalid.    *)
LEMMA ClauseSound ==
  ASSUME NEW k \in Levels, NEW t \in ValidOf[k]
  PROVE  ~ClauseInvalid(t)
<1>1. SUFFICES ASSUME NEW c \in SortedClause, DOMAIN c = DOMAIN t,
                      \A v \in DOMAIN t : t[v] # c[v]
               PROVE  FALSE
  BY DEF ClauseInvalid
<1>2. PICK row \in ValidRows : Covers(row, t)
  BY TablesOf DEF Extendable
<1>3. PICK v \in DOMAIN c : row[v] = c[v]
  BY <1>2, ExpandAssumption DEF ValidRows
<1>4. row[v] = t[v]
  BY <1>1, <1>2, <1>3 DEF Covers
<1>5. QED  BY <1>1, <1>3, <1>4

(* check_part_invalid: what is left of a valid tuple of the listed form    *)
(* without one of its columns is again one, of the strength below.         *)
LEMMA PartOfListed ==
  ASSUME NEW k \in Levels, k - 1 \in Levels,
         NEW t \in ListedOf[k] \cap ValidOf[k], NEW v \in DOMAIN t
  PROVE  [w \in DOMAIN t \ {v} |-> t[w]] \in ListedOf[k - 1] \cap ValidOf[k - 1]
<1> DEFINE part == [w \in DOMAIN t \ {v} |-> t[w]]
<1>1. t \in TuplesOf(k) /\ Listed(t) /\ Extendable(t)
  BY TablesOf
<1>2. /\ t \in [DOMAIN t -> Bit] /\ DOMAIN t \subseteq Var
      /\ IsFiniteSet(DOMAIN t) /\ Cardinality(DOMAIN t) = k
  BY <1>1, TupleShape
<1>3. Cardinality(DOMAIN t \ {v}) = k - 1
  BY <1>2, FS_RemoveElement
<1>4. part \in TuplesOf(k - 1)
  BY <1>2, <1>3, TupleOfShape
<1>5. Listed(part)
  BY <1>1 DEF Listed, GroupsPositive
<1>6. Extendable(part)
  BY <1>1 DEF Extendable, Covers
<1>7. QED  BY <1>4, <1>5, <1>6, TablesOf

(* The tuples that the enumeration keeps are the valid listed ones that    *)
(* the array leaves out, whichever of its shortcuts dismisses the others.  *)
LEMMA RemainingExact ==
  ASSUME NEW k \in Levels, k - 1 \in Levels, NEW bits, NEW lower,
         ListedOf[k - 1] \cap ValidOf[k - 1] \subseteq lower
  PROVE  Remaining(k, bits, lower) = (ListedOf[k] \cap ValidOf[k]) \ bits
<1>1. ASSUME NEW t \in ListedOf[k] \cap ValidOf[k]
      PROVE  ~PartInvalid(t, lower)
  BY PartOfListed DEF PartInvalid
<1>2. QED  BY <1>1, ClauseSound DEF Remaining

-----------------------------------------------------------------------------
(* Lemmas about the counters.                                              *)

(* Counts by literal are numbers.                                          *)
LEMMA CountVarType ==
  ASSUME NEW S, IsFiniteSet(S)
  PROVE  CountVar(S) \in [Bit -> [Var -> Nat]]
<1>1. ASSUME NEW b \in Bit, NEW v \in Var
      PROVE  Cardinality({ t \in S : v \in DOMAIN t /\ t[v] = b }) \in Nat
  BY FS_Subset, FS_CardinalityType
<1>2. QED  BY <1>1 DEF CountVar

(* Taking a part of a finite set away takes its size away.                 *)
LEMMA CardinalityLess ==
  ASSUME NEW S, NEW T, IsFiniteSet(S), T \subseteq S
  PROVE  /\ IsFiniteSet(T) /\ IsFiniteSet(S \ T)
         /\ Cardinality(S) \in Nat /\ Cardinality(T) \in Nat
         /\ Cardinality(S \ T) = Cardinality(S) - Cardinality(T)
<1>1. S \cap T = T
  OBVIOUS
<1>2. IsFiniteSet(T) /\ IsFiniteSet(S \ T)
  BY FS_Subset, FS_Difference
<1>3. Cardinality(S) \in Nat /\ Cardinality(T) \in Nat
  BY <1>2, FS_CardinalityType
<1>4. Cardinality(S \ T) = Cardinality(S) - Cardinality(S \cap T)
  BY <1>2, FS_Difference
<1>5. QED  BY <1>1, <1>2, <1>3, <1>4

(* Counting tuples off is the same as counting the tuples that are left.   *)
LEMMA UncountExact ==
  ASSUME NEW S, NEW T, IsFiniteSet(S), T \subseteq S
  PROVE  Uncount(CountVar(S), T) = CountVar(S \ T)
<1> DEFINE With(U, b, v) == { t \in U : v \in DOMAIN t /\ t[v] = b }
<1>1. ASSUME NEW b \in Bit, NEW v \in Var
      PROVE  Cardinality(With(S, b, v)) - Cardinality(With(T, b, v))
               = Cardinality(With(S \ T, b, v))
  <2>1. /\ With(T, b, v) \subseteq With(S, b, v)
        /\ With(S \ T, b, v) = With(S, b, v) \ With(T, b, v)
        /\ With(S, b, v) \subseteq S
    OBVIOUS
  <2>2. IsFiniteSet(With(S, b, v))
    BY <2>1, FS_Subset
  <2>3. QED  BY <2>1, <2>2, CardinalityLess
<1>2. \A U : CountVar(U) = [b \in Bit |-> [v \in Var |-> Cardinality(With(U, b, v))]]
  BY DEF CountVar
<1> HIDE DEF With
<1>3. Uncount(CountVar(S), T)
        = [b \in Bit |-> [v \in Var |-> Cardinality(With(S, b, v)) - Cardinality(With(T, b, v))]]
  BY <1>2 DEF Uncount
<1>4. QED  BY <1>1, <1>2, <1>3

(* Nothing to count is counted as well.                                    *)
LEMMA CountVarEmpty == CountVar({}) \in [Bit -> [Var -> Nat]]
BY CountVarType, FS_EmptySet
-----------------------------------------------------------------------------
(* Sorting the gains: the lower half of the sorted list has the gains of   *)
(* the lower half that was there before, all of them 0, since there are N  *)
(* of them and no gain is less.                                            *)
LEMMA SortedGains ==
  ASSUME NEW pairs \in [1 .. 2 * N -> Nat \X (1 .. 2 * N)],
         \A i \in 1 .. N : pairs[i][1] = 0,
         NEW sorted \in Sortings(pairs)
  PROVE  /\ sorted \in [1 .. 2 * N -> Nat \X (1 .. 2 * N)]
         /\ \A i \in 1 .. N : sorted[i][1] = 0
         /\ \A i \in 1 .. 2 * N : \E j \in 1 .. 2 * N : sorted[i] = pairs[j]
<1>1. N \in Nat \ {0}
  BY LevelsNat
<1>2. PICK p \in Orders : sorted = [i \in 1 .. 2 * N |-> pairs[p[i]]]
  BY DEF Sortings
<1>3. /\ p \in [1 .. 2 * N -> 1 .. 2 * N]
      /\ \A w \in 1 .. 2 * N : \E v \in 1 .. 2 * N : p[v] = w
  BY DEF Orders, Bijection, Surjection, Injection
<1>4. sorted \in [1 .. 2 * N -> Nat \X (1 .. 2 * N)]
  BY <1>2, <1>3
<1>5. ASSUME NEW i \in 1 .. N, sorted[i][1] # 0
      PROVE  FALSE
  <2>1. i \in 1 .. 2 * N /\ i - 1 \in Nat /\ i - 1 < N
    BY <1>1
  <2>2. ASSUME NEW j \in 1 .. 2 * N, i <= j
        PROVE  sorted[j][1] # 0
    <3>1. i = j \/ ~ByGain(sorted[j], sorted[i])
      BY <2>1, <2>2 DEF Sortings
    <3>2. sorted[i][1] \in Nat /\ sorted[j][1] \in Nat
      BY <1>4, <2>1
    <3>3. QED  BY <1>5, <3>1, <3>2 DEF ByGain
  <2> DEFINE g == [w \in 1 .. N |-> CHOOSE v \in 1 .. 2 * N : p[v] = w]
  <2>3. ASSUME NEW w \in 1 .. N
        PROVE  g[w] \in 1 .. (i - 1) /\ p[g[w]] = w
    <3>1. w \in 1 .. 2 * N
      BY <1>1
    <3>2. g[w] \in 1 .. 2 * N /\ p[g[w]] = w
      BY <1>3, <3>1
    <3>3. sorted[g[w]] = pairs[w]
      BY <1>2, <3>2
    <3>4. ~(i <= g[w])
      BY <2>2, <3>2, <3>3
    <3>5. QED  BY <2>1, <3>2, <3>4
  <2>4. g \in [1 .. N -> 1 .. (i - 1)]
    BY <2>3
  <2>5. /\ IsFiniteSet(1 .. N) /\ Cardinality(1 .. N) = N
        /\ IsFiniteSet(1 .. (i - 1)) /\ Cardinality(1 .. (i - 1)) = i - 1
    <3>1. ASSUME NEW n \in Nat
          PROVE  IsFiniteSet(1 .. n) /\ Cardinality(1 .. n) = n
      <4>1. 1 \in Int /\ n \in Int /\ (IF 1 > n THEN 0 ELSE n - 1 + 1) = n
        OBVIOUS
      <4>2. /\ IsFiniteSet(1 .. n)
            /\ Cardinality(1 .. n) = IF 1 > n THEN 0 ELSE n - 1 + 1
        BY <4>1, FS_Interval, Zenon
      <4>3. QED  BY <4>1, <4>2
    <3>2. QED  BY <1>1, <2>1, <3>1
  <2> DEFINE S == 1 .. N
             T == 1 .. (i - 1)
  <2>6. \E x, y \in S : x # y /\ g[x] = g[y]
    <3>1. /\ IsFiniteSet(S) /\ IsFiniteSet(T) /\ Cardinality(T) < Cardinality(S)
          /\ g \in [S -> T]
      BY <2>1, <2>4, <2>5
    <3> HIDE DEF g, S, T
    <3>2. QED  BY <3>1, FS_PigeonHole
  <2>7. QED  BY <2>3, <2>6
<1>6. QED  BY <1>2, <1>3, <1>4, <1>5

-----------------------------------------------------------------------------
(* The inductive invariant.  UncoveredExact and CountersExact do not       *)
(* follow from themselves: that nothing valid is missed in the next round  *)
(* rests on the array being complete in the listed tuples when the loop of *)
(* main has it (ListedCovered), and that a row earns its place on the      *)
(* lower half of the gains being 0 (GainsKept).                            *)
Typed ==
  /\ strength \in Levels
  /\ oldRows \in Seq(ValidRows)
  /\ newRows \in Seq(ValidRows)
  /\ bitmap \subseteq TuplesOf(strength)
  /\ uncovered \subseteq ListedOf[strength]
  /\ tuplesU \subseteq ListedOf[strength]
  /\ uncoveredNums \in Nat
  /\ countVar \in [Bit -> [Var -> Nat]]
  /\ pc \in {"main", "greedy", "replenish", "optimize", "done", "stopped"}

GainsKept ==
  /\ DOMAIN candidates = 1 .. 2 * N
  /\ pc = "greedy" => \A i \in 1 .. N : candidates[i] \in ValidRows
  /\ gain \in [1 .. 2 * N -> Nat \X (1 .. 2 * N)]
  /\ \A i \in 1 .. N : gain[i][1] = 0

Generating == pc \in {"greedy", "replenish", "optimize"}

Bound ==
  /\ pc = "greedy" => uncovered \cap bitmap = {}
  /\ Generating
       => /\ tuplesU = (ListedOf[strength] \cap ValidOf[strength]) \ CoverIn(strength, oldRows)
          /\ bitmap = (TrackedOf[strength] \cap CoverIn(strength, oldRows))
                        \cup (ListedOf[strength] \cap CoverIn(strength, newRows))

ListedCovered ==
  pc \in {"optimize", "main", "done"}
    => ListedOf[strength] \cap ValidOf[strength] \subseteq CoverIn(strength, rows)

BitsExact ==
  bitmap \cap ListedOf[strength] = ListedOf[strength] \cap CoverIn(strength, rows)

Inv ==
  /\ Typed /\ GainsKept /\ BitsExact /\ UncoveredExact /\ CountersExact
  /\ Bound /\ ListedCovered

(* What the old rows and the new rows cover together.                      *)
LEMMA RowsCover ==
  ASSUME Typed
  PROVE  /\ rows \in Seq(ValidRows)
         /\ CoverIn(strength, rows)
              = CoverIn(strength, oldRows) \cup CoverIn(strength, newRows)
BY CoverInConcat DEF rows, Typed

(* The array that is read first satisfies the invariant.                   *)
LEMMA InitInv == Init => Inv
<1> SUFFICES ASSUME Init PROVE Inv
  OBVIOUS
<1> USE DEF Init
<1>1. strength = InitStrength /\ strength \in Levels /\ newRows \in Seq(ValidRows)
  BY LevelsNat, ExpandAssumption
<1>2. rows = newRows
  BY <1>1 DEF rows
<1>3. bitmap = TrackedOf[strength] \cap CoverIn(strength, newRows) \/ bitmap = CoverIn(strength, newRows)
  BY DEF FirstBitsOf, BitsOf
<1>4. /\ CoverIn(strength, newRows) \subseteq TuplesOf(strength)
      /\ ListedOf[strength] \subseteq TrackedOf[strength]
  BY <1>1, CoveredIsValid, ListedIsTracked
<1>5. Typed
  BY <1>1, <1>3, <1>4, CountVarEmpty DEF Typed
<1>6. GainsKept
  BY LevelsNat DEF GainsKept, NoGain, NoCandidate
<1>7. BitsExact
  BY <1>2, <1>3, <1>4 DEF BitsExact
<1>8. ListedCovered
  BY <1>1, <1>2, ArraysComplete DEF ListedCovered
<1>9. QED
  BY <1>5, <1>6, <1>7, <1>8 DEF Inv, UncoveredExact, CountersExact, Bound, Generating

(* Expand begins a round.                                                  *)
LEMMA EnumerateInv == Inv /\ Enumerate => Inv'
<1> SUFFICES ASSUME Inv, Enumerate PROVE Inv'
  OBVIOUS
<1> USE DEF Enumerate
<1> DEFINE k == strength'
<1>1. /\ strength \in Levels /\ oldRows \in Seq(ValidRows) /\ newRows \in Seq(ValidRows)
      /\ gain \in [1 .. 2 * N -> Nat \X (1 .. 2 * N)]
      /\ \A i \in 1 .. N : gain[i][1] = 0
  BY DEF Inv, Typed, GainsKept
<1>2. k \in Levels /\ k - 1 = strength /\ k - 1 \in Levels
  BY <1>1, LevelsNat DEF Levels
<1>3. oldRows' = rows /\ rows \in Seq(ValidRows) /\ newRows' = <<>> /\ rows' = oldRows'
  BY <1>1 DEF rows
<1>4. ListedOf[strength] \cap ValidOf[strength] \subseteq bitmap
  BY DEF Inv, ListedCovered, BitsExact
<1>5. uncovered' = (ListedOf[k] \cap ValidOf[k]) \ bitmap'
  <2>1. ListedOf[k - 1] \cap ValidOf[k - 1] \subseteq bitmap
    BY <1>2, <1>4
  <2>2. Remaining(k, bitmap', bitmap) = (ListedOf[k] \cap ValidOf[k]) \ bitmap'
    BY <1>2, <2>1, RemainingExact
  <2>3. QED  BY <2>2
<1>6. /\ CoverIn(k, oldRows') \subseteq ValidOf[k] /\ ValidOf[k] \subseteq TuplesOf(k)
      /\ ListedOf[k] \subseteq TrackedOf[k] /\ ListedOf[k] \subseteq TuplesOf(k)
      /\ TrackedOf[k] \subseteq TuplesOf(k)
  BY <1>2, <1>3, CoveredIsValid, ListedIsTracked, TablesOf
<1>7. bitmap' = TrackedOf[k] \cap CoverIn(k, oldRows')
  BY DEF BitsOf
<1> HIDE DEF k
<1>8. /\ uncovered' = (ListedOf[k] \cap ValidOf[k]) \ CoverIn(k, oldRows')
      /\ uncovered' \ bitmap' = uncovered'
      /\ uncovered' \cap bitmap' = {}
      /\ uncovered' \subseteq TuplesOf(k)
  BY <1>5, <1>6, <1>7
<1>9. IsFiniteSet(uncovered')
  BY <1>2, <1>8, ListsAreFinite
<1>10. Typed'
  <2>1. uncoveredNums' \in Nat
    BY <1>9, FS_CardinalityType
  <2>2. countVar' \in [Bit -> [Var -> Nat]]
    BY <1>9, CountVarType
  <2>3. oldRows' \in Seq(ValidRows) /\ newRows' \in Seq(ValidRows)
    BY <1>3
  <2>4. strength' \in Levels /\ bitmap' \subseteq TuplesOf(strength')
    BY <1>2, <1>6, <1>7 DEF k
  <2>5. uncovered' \subseteq ListedOf[strength'] /\ tuplesU' \subseteq ListedOf[strength']
    BY <1>8 DEF k
  <2>6. QED  BY <2>1, <2>2, <2>3, <2>4, <2>5 DEF Typed
<1>11. GainsKept'
  <2>1. PICK first \in [1 .. N -> Sampled] :
          candidates' = [i \in 1 .. 2 * N |-> IF i <= N THEN first[i] ELSE candidates[i]]
    OBVIOUS
  <2>2. \A i \in 1 .. N : candidates'[i] \in ValidRows
    BY <2>1, LevelsNat, ExpandAssumption
  <2>3. QED  BY <1>1, <2>1, <2>2 DEF GainsKept
<1>12. BitsExact'
  BY <1>3, <1>6, <1>7 DEF BitsExact, k
<1>13. Missing' = uncovered'
  BY <1>3, <1>8 DEF Missing, k
<1>14. UncoveredExact' /\ CountersExact'
  BY <1>8, <1>13 DEF UncoveredExact, CountersExact
<1>15. Bound'
  BY <1>3, <1>7, <1>8, CoverInEmpty DEF Bound, k
<1>16. QED
  BY <1>10, <1>11, <1>12, <1>14, <1>15 DEF Inv, ListedCovered
(* What a new row changes, over sets: L, V and T are the listed, valid and *)
(* tracked tuples, C those the array covers (Co, Cn by its two parts), R   *)
(* those of the row.                                                       *)
LEMMA RowAddedSets ==
  ASSUME NEW L, NEW V, NEW T, NEW Co, NEW Cn, NEW R, NEW bits, NEW open,
         L \subseteq T, R \subseteq V,
         bits \cap L = L \cap (Co \cup Cn),
         open = (L \cap V) \ (Co \cup Cn)
  PROVE  /\ (bits \cup (open \cap R)) \cap L = L \cap (Co \cup (Cn \cup R))
         /\ open \ (open \cap R) = (L \cap V) \ (Co \cup (Cn \cup R))
         /\ bits = (T \cap Co) \cup (L \cap Cn)
              => bits \cup (open \cap R) = (T \cap Co) \cup (L \cap (Cn \cup R))
OBVIOUS

(* The invariant facts about the sets survive the addition of a row that   *)
(* sets the bits of the open tuples it covers, whichever list is cut.      *)
LEMMA AddedRow ==
  ASSUME Inv, pc \in {"greedy", "replenish"}, NEW row \in ValidRows,
         newRows' = Append(newRows, row),
         bitmap' = bitmap \cup (Open \cap CoverOf[strength][row]),
         strength' = strength, oldRows' = oldRows, tuplesU' = tuplesU
  PROVE  /\ newRows' \in Seq(ValidRows)
         /\ bitmap' \subseteq TuplesOf(strength)
         /\ BitsExact'
         /\ Missing' = Open \ CoverOf[strength][row]
         /\ tuplesU' = (ListedOf[strength] \cap ValidOf[strength]) \ CoverIn(strength, oldRows)
         /\ bitmap' = (TrackedOf[strength] \cap CoverIn(strength, oldRows))
                        \cup (ListedOf[strength] \cap CoverIn(strength, newRows'))
         /\ IsFiniteSet(Open)
         /\ uncoveredNums = Cardinality(Open)
         /\ countVar = CountVar(Open)
<1> DEFINE k == strength
           L == ListedOf[k]
           V == ValidOf[k]
           T == TrackedOf[k]
           Co == CoverIn(k, oldRows)
           Cn == CoverIn(k, newRows)
           R == CoverOf[k][row]
<1>1. /\ k \in Levels /\ oldRows \in Seq(ValidRows) /\ newRows \in Seq(ValidRows)
      /\ bitmap \subseteq TuplesOf(k) /\ uncovered \subseteq L
  BY DEF Inv, Typed
<1>2. newRows' \in Seq(ValidRows) /\ CoverIn(k, newRows') = Cn \cup R
  BY <1>1, CoverInAppend
<1>3. CoverIn(k, rows) = Co \cup Cn
  BY RowsCover DEF Inv
<1>4. CoverIn(k, rows') = Co \cup (Cn \cup R)
  <2>1. \A b \in Seq(ValidRows) : CoverIn(k, oldRows \o b) = Co \cup CoverIn(k, b)
    BY <1>1, CoverInConcat
  <2>2. rows' = oldRows \o newRows'
    BY Zenon DEF rows
  <2>3. QED  BY <1>2, <2>1, <2>2, Zenon
<1>5. /\ L \subseteq T /\ R \subseteq V /\ V \subseteq TuplesOf(k)
      /\ L \subseteq TuplesOf(k)
  BY <1>1, ListedIsTracked, CoveredIsValid, TablesOf
<1>6. bitmap \cap L = L \cap (Co \cup Cn)
  BY <1>3 DEF Inv, BitsExact
<1>7. Open = (L \cap V) \ (Co \cup Cn)
  BY <1>3 DEF Inv, UncoveredExact, Missing, Open
<1>8. bitmap = (T \cap Co) \cup (L \cap Cn) /\ tuplesU = (L \cap V) \ Co
  BY DEF Inv, Bound, Generating
<1>9. /\ bitmap' \cap L = L \cap (Co \cup (Cn \cup R))
      /\ Open \ (Open \cap R) = (L \cap V) \ (Co \cup (Cn \cup R))
      /\ bitmap' = (T \cap Co) \cup (L \cap (Cn \cup R))
  <2> HIDE DEF L, V, T, Co, Cn, R
  <2>1. bitmap' = bitmap \cup (Open \cap R)
    BY DEF R
  <2>2. QED  BY <1>5, <1>6, <1>7, <1>8, <2>1, RowAddedSets
<1>10. Missing' = Open \ R
  <2>1. Missing' = (L \cap V) \ CoverIn(k, rows')
    BY DEF Missing
  <2>2. QED  BY <1>4, <1>9, <2>1
<1>11. BitsExact'
  BY <1>4, <1>9 DEF BitsExact
<1>12. IsFiniteSet(Open)
  <2>1. Open \subseteq TuplesOf(k)
    BY <1>1, <1>5 DEF Open
  <2>2. QED  BY <1>1, <2>1, ListsAreFinite
<1>13. uncoveredNums = Cardinality(Open) /\ countVar = CountVar(Open)
  BY DEF Inv, CountersExact, Open
<1>14. bitmap' \subseteq TuplesOf(k)
  <2>1. Open \subseteq TuplesOf(k)
    BY <1>1, <1>5 DEF Open
  <2>2. QED  BY <1>1, <2>1
<1>15. QED
  BY <1>2, <1>8, <1>9, <1>10, <1>11, <1>12, <1>13, <1>14

(* The counters after the tuples that a row covers are counted off.        *)
LEMMA CountedOff ==
  ASSUME NEW S, IsFiniteSet(S), NEW R
  PROVE  /\ Cardinality(S \ (S \cap R)) = Cardinality(S) - Cardinality(S \cap R)
         /\ Cardinality(S \ (S \cap R)) \in Nat
         /\ Uncount(CountVar(S), S \cap R) = CountVar(S \ (S \cap R))
         /\ CountVar(S \ (S \cap R)) \in [Bit -> [Var -> Nat]]
<1>1. S \cap R \subseteq S /\ S \ (S \cap R) \subseteq S
  OBVIOUS
<1>2. IsFiniteSet(S \ (S \cap R))
  BY <1>1, FS_Subset
<1>3. QED
  BY <1>1, <1>2, CardinalityLess, UncountExact, CountVarType, FS_CardinalityType

(* GenerateTestcase and GenerateCoveringArray.                             *)
LEMMA GreedyInv == Inv /\ Greedy => Inv'
<1> SUFFICES ASSUME Inv, Greedy PROVE Inv'
  OBVIOUS
<1>1. pc = "greedy" /\ strength' = strength /\ oldRows' = oldRows /\ tuplesU' = tuplesU
  BY DEF Greedy, oldVars
<1>0. PICK sample \in [1 .. N -> Sampled] :
        \E sorted \in Sortings(Unsorted(sample)) :
          LET all == [i \in 1 .. 2 * N |-> IF i <= N THEN candidates[i] ELSE sample[i - N]]
              kept == [i \in 1 .. 2 * N |-> IF i <= N THEN all[sorted[N + i][2]] ELSE all[i]]
          IN /\ gain' = sorted
             /\ IF sorted[2 * N][1] <= 0
                  THEN /\ candidates' = all
                       /\ pc' = "replenish"
                       /\ UNCHANGED <<newRows, listVars>>
                  ELSE /\ candidates' = kept
                       /\ AddRow(kept[N])
                       /\ pc' = pc
  BY DEF Greedy
<1> DEFINE all == [i \in 1 .. 2 * N |-> IF i <= N THEN candidates[i] ELSE sample[i - N]]
<1>2. PICK sorted \in Sortings(Unsorted(sample)) :
        LET kept == [i \in 1 .. 2 * N |-> IF i <= N THEN all[sorted[N + i][2]] ELSE all[i]]
        IN /\ gain' = sorted
           /\ IF sorted[2 * N][1] <= 0
                THEN /\ candidates' = all
                     /\ pc' = "replenish"
                     /\ UNCHANGED <<newRows, listVars>>
                ELSE /\ candidates' = kept
                     /\ AddRow(kept[N])
                     /\ pc' = pc
  BY <1>0
<1> DEFINE kept == [i \in 1 .. 2 * N |-> IF i <= N THEN all[sorted[N + i][2]] ELSE all[i]]
<1>3. N \in Nat \ {0}
  BY LevelsNat
<1>4. /\ strength \in Levels /\ uncovered \subseteq ListedOf[strength]
      /\ ListedOf[strength] \subseteq TuplesOf(strength)
      /\ oldRows \in Seq(ValidRows)
      /\ tuplesU \subseteq ListedOf[strength]
  BY TablesOf DEF Inv, Typed
<1>5. \A i \in 1 .. 2 * N : all[i] \in ValidRows
  <2>1. \A i \in 1 .. N : candidates[i] \in ValidRows
    BY <1>1 DEF Inv, GainsKept
  <2>2. \A i \in 1 .. N : sample[i] \in ValidRows
    BY ExpandAssumption
  <2>3. ASSUME NEW i \in 1 .. 2 * N
        PROVE  all[i] \in ValidRows
    <3>1. CASE i <= N
      BY <1>3, <2>1, <3>1
    <3>2. CASE ~(i <= N)
      <4>1. i - N \in 1 .. N
        BY <1>3, <3>2
      <4>2. QED  BY <2>2, <3>2, <4>1
    <3>3. QED  BY <3>1, <3>2
  <2>4. QED  BY <2>3
<1>6. /\ Unsorted(sample) \in [1 .. 2 * N -> Nat \X (1 .. 2 * N)]
      /\ \A i \in 1 .. N : Unsorted(sample)[i][1] = 0
  <2>1. gain \in [1 .. 2 * N -> Nat \X (1 .. 2 * N)] /\ \A i \in 1 .. N : gain[i][1] = 0
    BY DEF Inv, GainsKept
  <2>2. ASSUME NEW row
        PROVE  Score(row) \in Nat
    <3>1. uncovered \cap CoverOf[strength][row] \subseteq TuplesOf(strength)
      BY <1>4
    <3>2. IsFiniteSet(uncovered \cap CoverOf[strength][row])
      BY <1>4, <3>1, ListsAreFinite
    <3>3. QED  BY <3>2, FS_CardinalityType DEF Score
  <2>3. ASSUME NEW i \in 1 .. 2 * N
        PROVE  /\ Unsorted(sample)[i] \in Nat \X (1 .. 2 * N)
               /\ i \in 1 .. N => Unsorted(sample)[i][1] = 0
    <3>1. CASE i <= N
      <4>1. i \in 1 .. N /\ Unsorted(sample)[i] = gain[i]
        BY <1>3, <3>1 DEF Unsorted
      <4>2. QED  BY <2>1, <4>1
    <3>2. CASE ~(i <= N)
      <4>1. Unsorted(sample)[i] = <<Score(sample[i - N]), i>>
        BY <3>2 DEF Unsorted
      <4>2. QED  BY <1>3, <2>2, <3>2, <4>1
    <3>3. QED  BY <3>1, <3>2
  <2>4. DOMAIN Unsorted(sample) = 1 .. 2 * N /\ Unsorted(sample) = [i \in 1 .. 2 * N |-> Unsorted(sample)[i]]
    BY DEF Unsorted
  <2>5. 1 .. N \subseteq 1 .. 2 * N
    BY <1>3
  <2>6. QED  BY <2>3, <2>4, <2>5
<1>7. /\ sorted \in [1 .. 2 * N -> Nat \X (1 .. 2 * N)]
      /\ \A i \in 1 .. N : sorted[i][1] = 0
  BY <1>6, SortedGains
<1>8. \A i \in 1 .. 2 * N : kept[i] \in ValidRows
  <2>1. ASSUME NEW i \in 1 .. 2 * N
        PROVE  kept[i] \in ValidRows
    <3>1. CASE i <= N
      <4>1. N + i \in 1 .. 2 * N
        BY <1>3, <3>1
      <4>2. sorted[N + i][2] \in 1 .. 2 * N
        BY <1>7, <4>1
      <4>3. QED  BY <1>5, <3>1, <4>2
    <3>2. CASE ~(i <= N)
      BY <1>5, <3>2
    <3>3. QED  BY <3>1, <3>2
  <2>2. QED  BY <2>1
<1>9. CASE sorted[2 * N][1] <= 0
  <2>1. /\ gain' = sorted /\ candidates' = all /\ pc' = "replenish"
        /\ UNCHANGED <<newRows, bitmap, uncovered, uncoveredNums, countVar>>
    BY <1>2, <1>9 DEF listVars
  <2> HIDE DEF all, kept
  <2>2. rows' = rows /\ Missing' = Missing
    BY <1>1, <2>1 DEF rows, Missing
  <2>3. Typed'
    BY <1>1, <2>1 DEF Inv, Typed
  <2>4. GainsKept'
    BY <1>7, <2>1 DEF GainsKept, all
  <2>5. BitsExact' /\ UncoveredExact' /\ CountersExact' /\ Bound' /\ ListedCovered'
    BY <1>1, <2>1, <2>2 DEF Inv, BitsExact, UncoveredExact, CountersExact, Bound,
                            Generating, ListedCovered
  <2>6. QED  BY <2>3, <2>4, <2>5 DEF Inv
<1>10. CASE ~(sorted[2 * N][1] <= 0)
  <2> DEFINE row == kept[N]
             R == CoverOf[strength][row]
  <2>1. gain' = sorted /\ candidates' = kept /\ AddRow(row) /\ pc' = "greedy"
    BY <1>1, <1>2, <1>10
  <2>2. row \in ValidRows
    <3>1. N \in 1 .. 2 * N
      BY <1>3
    <3> HIDE DEF all, kept
    <3>2. QED  BY <1>8, <3>1
  <2>3. GainsKept'
    <3>1. \A i \in 1 .. N : kept[i] \in ValidRows
      <4>1. \A i \in 1 .. N : i \in 1 .. 2 * N
        BY <1>3
      <4> HIDE DEF all, kept
      <4>2. QED  BY <1>8, <4>1
    <3>2. QED  BY <1>7, <2>1, <3>1 DEF GainsKept
  <2>4. uncovered \cap bitmap = {} /\ Open = uncovered
    BY <1>1 DEF Inv, Bound, Open
  <2> HIDE DEF all, kept, row
  <2>5. /\ newRows' = Append(newRows, row)
        /\ uncovered' = Open \ (Open \cap R)
        /\ uncoveredNums' = Cardinality(uncovered')
        /\ countVar' = Uncount(countVar, Open \cap R)
        /\ bitmap' = bitmap \cup (Open \cap R)
    BY <2>1, <2>4 DEF AddRow
  <2>6. /\ newRows' \in Seq(ValidRows)
        /\ bitmap' \subseteq TuplesOf(strength)
        /\ BitsExact'
        /\ Missing' = Open \ R
        /\ tuplesU' = (ListedOf[strength] \cap ValidOf[strength]) \ CoverIn(strength, oldRows)
        /\ bitmap' = (TrackedOf[strength] \cap CoverIn(strength, oldRows))
                        \cup (ListedOf[strength] \cap CoverIn(strength, newRows'))
        /\ IsFiniteSet(Open)
        /\ countVar = CountVar(Open)
    BY <1>1, <2>2, <2>5, AddedRow
  <2>7. /\ uncoveredNums' \in Nat
        /\ countVar' = CountVar(uncovered')
        /\ countVar' \in [Bit -> [Var -> Nat]]
    <3>1. /\ Cardinality(Open \ (Open \cap R)) \in Nat
          /\ Uncount(CountVar(Open), Open \cap R) = CountVar(Open \ (Open \cap R))
          /\ CountVar(Open \ (Open \cap R)) \in [Bit -> [Var -> Nat]]
      BY <2>6, CountedOff, Zenon
    <3>2. QED  BY <2>5, <2>6, <3>1, Zenon
  <2>8. uncovered' \cap bitmap' = {} /\ uncovered' \ bitmap' = uncovered' /\ uncovered' = Missing'
    BY <2>4, <2>5, <2>6
  <2>9. Typed'
    BY <1>1, <1>4, <2>1, <2>4, <2>5, <2>6, <2>7 DEF Typed
  <2>10. UncoveredExact' /\ CountersExact'
    BY <2>5, <2>7, <2>8 DEF UncoveredExact, CountersExact
  <2>11. Bound'
    BY <1>1, <2>6, <2>8 DEF Bound
  <2>12. ListedCovered'
    BY <2>1 DEF ListedCovered
  <2>13. QED  BY <2>3, <2>6, <2>9, <2>10, <2>11, <2>12 DEF Inv
<1>11. QED  BY <1>9, <1>10

(* ReplenishTestCase.                                                      *)
LEMMA ReplenishInv == Inv /\ Replenish => Inv'
<1> SUFFICES ASSUME Inv, Replenish PROVE Inv'
  OBVIOUS
<1>1. /\ pc = "replenish" /\ pc' = pc
      /\ UNCHANGED <<strength, oldRows, tuplesU, uncovered, candidates, gain>>
  BY DEF Replenish, oldVars, cacheVars
<1>2. PICK t \in Open, row \in ValidRows :
        /\ LET covered == Open \cap CoverOf[strength][row]
           IN /\ uncoveredNums' = uncoveredNums - Cardinality(covered)
              /\ countVar' = Uncount(countVar, covered)
              /\ bitmap' = bitmap \cup covered
        /\ newRows' = Append(newRows, row)
  BY DEF Replenish
<1> DEFINE R == CoverOf[strength][row]
<1>3. /\ newRows' \in Seq(ValidRows)
      /\ bitmap' \subseteq TuplesOf(strength)
      /\ BitsExact'
      /\ Missing' = Open \ R
      /\ tuplesU' = (ListedOf[strength] \cap ValidOf[strength]) \ CoverIn(strength, oldRows)
      /\ bitmap' = (TrackedOf[strength] \cap CoverIn(strength, oldRows))
                      \cup (ListedOf[strength] \cap CoverIn(strength, newRows'))
      /\ IsFiniteSet(Open)
      /\ uncoveredNums = Cardinality(Open)
      /\ countVar = CountVar(Open)
  BY <1>1, <1>2, AddedRow
<1>4. uncovered' \ bitmap' = Open \ (Open \cap R)
  BY <1>1, <1>2 DEF Open
<1>5. /\ uncoveredNums' = Cardinality(Open \ (Open \cap R)) /\ uncoveredNums' \in Nat
      /\ countVar' = CountVar(Open \ (Open \cap R))
      /\ countVar' \in [Bit -> [Var -> Nat]]
  <2>1. /\ Cardinality(Open \ (Open \cap R)) = Cardinality(Open) - Cardinality(Open \cap R)
        /\ Cardinality(Open \ (Open \cap R)) \in Nat
        /\ Uncount(CountVar(Open), Open \cap R) = CountVar(Open \ (Open \cap R))
        /\ CountVar(Open \ (Open \cap R)) \in [Bit -> [Var -> Nat]]
    BY <1>3, CountedOff, Zenon
  <2> QED  BY <1>2, <1>3, <2>1, Zenon
<1>6. Typed'
  BY <1>1, <1>3, <1>5 DEF Inv, Typed
<1>7. GainsKept'
  BY <1>1 DEF Inv, GainsKept
<1>8. UncoveredExact' /\ CountersExact'
  BY <1>3, <1>4, <1>5 DEF UncoveredExact, CountersExact
<1>9. Bound' /\ ListedCovered'
  BY <1>1, <1>3 DEF Bound, ListedCovered
<1>10. QED  BY <1>3, <1>6, <1>7, <1>8, <1>9 DEF Inv
(* ReplenishTestCase ends when nothing is open, by the count or by the     *)
(* end of its list: the array is complete in the listed tuples.            *)
LEMMA ReplenishedInv == Inv /\ Replenished => Inv'
<1> SUFFICES ASSUME Inv, Replenished PROVE Inv'
  OBVIOUS
<1>1. /\ pc = "replenish" /\ pc' = "optimize" /\ (uncoveredNums <= 0 \/ Open = {})
      /\ UNCHANGED <<strength, oldRows, newRows, bitmap, uncovered, tuplesU,
                     uncoveredNums, countVar, candidates, gain>>
  BY DEF Replenished, oldVars, listVars, cacheVars
<1>2. rows' = rows /\ Missing' = Missing
  BY <1>1 DEF rows, Missing
<1>3. Open = {}
  <2>1. strength \in Levels /\ uncovered \subseteq TuplesOf(strength)
    BY TablesOf DEF Inv, Typed
  <2>2. Open \subseteq TuplesOf(strength)
    BY <2>1 DEF Open
  <2>3. IsFiniteSet(Open)
    BY <2>1, <2>2, ListsAreFinite
  <2>4. uncoveredNums = Cardinality(Open)
    BY <1>1 DEF Inv, CountersExact, Open
  <2>5. Cardinality(Open) \in Nat /\ (Cardinality(Open) = 0 <=> Open = {})
    BY <2>3, FS_CardinalityType, FS_EmptySet
  <2>6. QED  BY <1>1, <2>4, <2>5
<1>4. Missing = {}
  BY <1>1, <1>3 DEF Inv, UncoveredExact, Open
<1>5. ListedCovered'
  BY <1>1, <1>2, <1>4 DEF ListedCovered, Missing
<1>6. Typed' /\ GainsKept'
  BY <1>1 DEF Inv, Typed, GainsKept
<1>7. BitsExact' /\ UncoveredExact' /\ CountersExact' /\ Bound'
  BY <1>1, <1>2 DEF Inv, BitsExact, UncoveredExact, CountersExact, Bound, Generating
<1>8. QED  BY <1>5, <1>6, <1>7 DEF Inv

(* Optimize brings back an array that covers what the bitmap has, so that  *)
(* the bitmap is exact for it too: it was complete before.                 *)
LEMMA OptimizeInv == Inv /\ Optimize => Inv'
<1> SUFFICES ASSUME Inv, Optimize PROVE Inv'
  OBVIOUS
<1>1. /\ pc = "optimize" /\ pc' = "main" /\ tuplesU' = {}
      /\ UNCHANGED <<strength, bitmap, uncovered, uncoveredNums, countVar, candidates, gain>>
  BY DEF Optimize, listVars, cacheVars
<1> DEFINE array == oldRows' \o newRows'
<1>2. /\ oldRows' \in Seq(ValidRows) /\ newRows' \in Seq(ValidRows)
      /\ bitmap \subseteq CoverIn(strength, array)
  BY DEF Optimize, KeepsCoverage
<1>3. strength \in Levels
  BY DEF Inv, Typed
<1>4. array \in Seq(ValidRows)
  BY <1>2
<1>5. rows' = array
  BY DEF rows
<1> HIDE DEF array
<1>7. ListedOf[strength] \cap ValidOf[strength] \subseteq bitmap
  BY <1>1 DEF Inv, ListedCovered, BitsExact
<1>8. /\ CoverIn(strength, array) \subseteq ValidOf[strength]
  BY <1>3, <1>4, CoveredIsValid
<1>9. BitsExact' /\ ListedCovered'
  BY <1>1, <1>2, <1>5, <1>7, <1>8 DEF BitsExact, ListedCovered
<1>10. Typed' /\ GainsKept'
  BY <1>1, <1>2 DEF Inv, Typed, GainsKept
<1>11. QED
  BY <1>1, <1>9, <1>10 DEF Inv, UncoveredExact, CountersExact, Bound, Generating

(* The rest leaves everything but pc alone.                                *)
LEMMA OtherInv == Inv /\ (LeaveAsIs \/ Finish \/ UNCHANGED vars) => Inv'
<1> SUFFICES ASSUME Inv, LeaveAsIs \/ Finish \/ UNCHANGED vars PROVE Inv'
  OBVIOUS
<1>1. /\ UNCHANGED <<strength, oldRows, newRows, bitmap, uncovered, tuplesU,
                     uncoveredNums, countVar, candidates, gain>>
      /\ \/ pc' = pc
         \/ pc = "optimize" /\ pc' = "main"
         \/ pc = "main" /\ pc' \in {"done", "stopped"}
  BY DEF LeaveAsIs, Finish, vars, oldVars, listVars, cacheVars
<1>2. rows' = rows /\ Missing' = Missing
  BY <1>1 DEF rows, Missing
<1>3. Typed' /\ GainsKept'
  BY <1>1 DEF Inv, Typed, GainsKept
<1>4. BitsExact' /\ UncoveredExact' /\ CountersExact' /\ Bound' /\ ListedCovered'
  BY <1>1, <1>2 DEF Inv, BitsExact, UncoveredExact, CountersExact, Bound,
                    Generating, ListedCovered
<1>5. QED  BY <1>3, <1>4 DEF Inv

(* No step of the Expandor violates the invariant.                         *)
LEMMA NextInv == Inv /\ [Next]_vars => Inv'
BY EnumerateInv, GreedyInv, ReplenishInv, ReplenishedInv, OptimizeInv, OtherInv DEF Next

(* The invariant holds throughout.                                         *)
THEOREM Invariance == Spec => []Inv
BY InitInv, NextInv, PTL DEF Spec
-----------------------------------------------------------------------------
(* What the invariant says of the model's properties.                      *)

(* What the inductive invariant is for.                                    *)
LEMMA InvImplies == Inv => /\ TypeOK /\ BitmapExact /\ HandsOver
                           /\ UncoveredExact /\ CountersExact
<1> SUFFICES ASSUME Inv PROVE /\ TypeOK /\ BitmapExact /\ HandsOver
                              /\ UncoveredExact /\ CountersExact
  OBVIOUS
<1>1. Typed /\ strength \in Levels
  BY DEF Inv, Typed
<1>2. TypeOK
  <2>1. \A t \in bitmap : Cardinality(DOMAIN t) = strength
    BY <1>1, TupleShape DEF Typed
  <2>2. DOMAIN candidates = 1 .. 2 * N /\ gain \in [1 .. 2 * N -> Nat \X (1 .. 2 * N)]
    BY DEF Inv, GainsKept
  <2>3. QED  BY <1>1, <2>1, <2>2 DEF TypeOK, Typed, Levels
<1>3. BitmapExact
  <2>1. { t \in bitmap : Listed(t) } = bitmap \cap ListedOf[strength]
    BY <1>1, TablesOf DEF Typed
  <2>2. QED  BY <2>1 DEF Inv, BitsExact, BitmapExact
<1>4. HandsOver
  <2>1. SUFFICES ASSUME pc = "optimize" PROVE HandsOver
    BY DEF HandsOver
  <2>2. /\ ListedOf[strength] \cap ValidOf[strength] \subseteq CoverIn(strength, rows)
        /\ CoverIn(strength, rows) = CoverIn(strength, oldRows) \cup CoverIn(strength, newRows)
        /\ CoverIn(strength, newRows) \subseteq ValidOf[strength]
    BY <1>1, <2>1, RowsCover, CoveredIsValid DEF Inv, ListedCovered, Typed
  <2>3. QED  BY <2>1, <2>2 DEF Inv, Bound, Generating, HandsOver
<1>5. QED  BY <1>2, <1>3, <1>4 DEF Inv

(* The fields of the Expandor keep their types, and no counter goes below  *)
(* zero (they are unsigned in the code).                                   *)
THEOREM TypeCorrect == Spec => []TypeOK
BY Invariance, InvImplies, PTL

(* Expand knows exactly what is uncovered, whatever shortcut dismissed a   *)
(* tuple and whatever was sampled.                                         *)
THEOREM UncoveredExactAlways == Spec => []UncoveredExact
BY Invariance, InvImplies, PTL

(* The bitmap is exact for the listed tuples at every strength.            *)
THEOREM BitmapExactAlways == Spec => []BitmapExact
BY Invariance, InvImplies, PTL

(* No open tuple is counted twice, or not at all.                          *)
THEOREM CountersExactAlways == Spec => []CountersExact
BY Invariance, InvImplies, PTL

(* The Optimizer gets the state that it binds.                             *)
THEOREM HandsOverAlways == Spec => []HandsOver
BY Invariance, InvImplies, PTL

(* A row is added only if it covers something new: a best gain above 0 is  *)
(* a new one, since the lower half of the sorted gains is 0, and points to *)
(* the row it was computed for.                                            *)
LEMMA RowEarns ==
  Inv /\ [Next]_vars
    => (RowAdded => (\E t \in Missing : Covers(Last(newRows'), t)))
<1> SUFFICES ASSUME Inv, [Next]_vars, RowAdded
             PROVE  \E t \in Missing : Covers(Last(newRows'), t)
  OBVIOUS
<1>1. /\ strength \in Levels /\ newRows \in Seq(ValidRows)
      /\ Len(newRows') > Len(newRows) /\ pc \in {"greedy", "replenish"}
      /\ N \in Nat \ {0}
  BY LevelsNat DEF Inv, Typed, RowAdded
<1>2. uncovered \ bitmap = Missing
  BY <1>1 DEF Inv, UncoveredExact
<1>3. ASSUME NEW row \in ValidRows
      PROVE  Last(Append(newRows, row)) = row
  BY <1>1 DEF Last
<1>4. newRows' # newRows
  BY <1>1
<1>5. Greedy \/ Replenish
  BY <1>1, <1>4 DEF Next, Enumerate, Replenished, LeaveAsIs, Optimize, Finish, vars
<1>6. CASE Replenish
  <2>1. PICK t \in Open, row \in ValidRows : Covers(row, t) /\ newRows' = Append(newRows, row)
    BY <1>6 DEF Replenish
  <2>2. QED  BY <1>2, <1>3, <2>1 DEF Open
<1>7. CASE Greedy
  <2>1. PICK sample \in [1 .. N -> Sampled] :
          \E sorted \in Sortings(Unsorted(sample)) :
            LET all == [i \in 1 .. 2 * N |-> IF i <= N THEN candidates[i] ELSE sample[i - N]]
                kept == [i \in 1 .. 2 * N |-> IF i <= N THEN all[sorted[N + i][2]] ELSE all[i]]
            IN ~(sorted[2 * N][1] <= 0) /\ newRows' = Append(newRows, kept[N])
    BY <1>4, <1>7 DEF Greedy, AddRow, listVars
  <2> DEFINE all == [i \in 1 .. 2 * N |-> IF i <= N THEN candidates[i] ELSE sample[i - N]]
  <2>2. PICK sorted \in Sortings(Unsorted(sample)) :
          LET kept == [i \in 1 .. 2 * N |-> IF i <= N THEN all[sorted[N + i][2]] ELSE all[i]]
          IN ~(sorted[2 * N][1] <= 0) /\ newRows' = Append(newRows, kept[N])
    BY <2>1
  <2>3. newRows' = Append(newRows, all[sorted[2 * N][2]])
    BY <1>1, <2>2
  <2>4. 2 * N \in 1 .. 2 * N
    BY <1>1
  <2>5. PICK order \in Orders : sorted = [i \in 1 .. 2 * N |-> Unsorted(sample)[order[i]]]
    BY DEF Sortings
  <2>6. order[2 * N] \in 1 .. 2 * N
    BY <2>4 DEF Orders, Bijection, Injection, Surjection
  <2> DEFINE j == order[2 * N]
  <2>7. sorted[2 * N] = Unsorted(sample)[j] /\ j \in 1 .. 2 * N
    BY <2>4, <2>5, <2>6
  <2> HIDE DEF j
  <2>8. ~(j <= N)
    <3>1. SUFFICES ASSUME j <= N PROVE FALSE
      OBVIOUS
    <3>2. j \in 1 .. N /\ Unsorted(sample)[j] = gain[j]
      BY <1>1, <2>7, <3>1 DEF Unsorted
    <3>3. gain[j][1] = 0
      BY <3>2 DEF Inv, GainsKept
    <3>4. QED  BY <2>2, <2>7, <3>2, <3>3
  <2>9. Unsorted(sample)[j] = <<Score(sample[j - N]), j>>
    BY <2>7, <2>8 DEF Unsorted
  <2>10. j - N \in 1 .. N /\ all[j] = sample[j - N]
    BY <1>1, <2>7, <2>8
  <2>11. sample[j - N] \in ValidRows
    BY <2>10, ExpandAssumption
  <2>12. newRows' = Append(newRows, sample[j - N]) /\ ~(Score(sample[j - N]) <= 0)
    BY <2>2, <2>3, <2>7, <2>9, <2>10
  <2>13. uncovered \cap CoverOf[strength][sample[j - N]] # {}
    <3>1. SUFFICES ASSUME uncovered \cap CoverOf[strength][sample[j - N]] = {} PROVE FALSE
      OBVIOUS
    <3>2. Cardinality(uncovered \cap CoverOf[strength][sample[j - N]]) = 0
      BY <3>1, FS_EmptySet, Zenon
    <3>3. Score(sample[j - N]) = 0
      BY <3>2, Zenon DEF Score
    <3>4. QED  BY <2>12, <3>3
  <2>14. PICK t \in uncovered : t \in CoverOf[strength][sample[j - N]]
    BY <2>13
  <2>15. Covers(sample[j - N], t)
    BY <1>1, <2>11, <2>14, TablesOf
  <2>16. t \in Missing
    <3>1. pc = "greedy"
      BY <1>7 DEF Greedy
    <3>2. t \notin bitmap
      BY <2>14, <3>1 DEF Inv, Bound
    <3>3. QED  BY <1>2, <2>14, <3>2
  <2>17. QED  BY <1>3, <2>11, <2>12, <2>15, <2>16
<1>8. QED  BY <1>5, <1>6, <1>7

(* No row is appended that covers nothing new, in any round of the greedy  *)
(* loop, although half of the gains it sorts are stale.                    *)
THEOREM RowsEarnAlways == Spec => RowsEarnTheirPlace
BY Invariance, RowEarns, PTL DEF Spec, RowsEarnTheirPlace

-----------------------------------------------------------------------------
(* From the listed tuples to all: a tuple that a valid row covers is       *)
(* covered together with a listed one, which names for each of its columns *)
(* the member of the group that the row sets.                              *)
LEMMA ListedSuffice ==
  ASSUME GroupsExclusive, EnoughColumns,
         NEW k \in Levels, NEW a \in Seq(ValidRows),
         ListedOf[k] \cap ValidOf[k] \subseteq CoverIn(k, a)
  PROVE  ValidOf[k] \subseteq CoverIn(k, a)
<1>1. SUFFICES ASSUME NEW t \in ValidOf[k] PROVE t \in CoverIn(k, a)
  OBVIOUS
<1>2. t \in TuplesOf(k) /\ Extendable(t)
  BY TablesOf
<1>3. PICK row \in ValidRows : Covers(row, t)
  BY <1>2 DEF Extendable
<1>4. /\ t \in [DOMAIN t -> Bit] /\ DOMAIN t \subseteq Var
      /\ IsFiniteSet(DOMAIN t) /\ Cardinality(DOMAIN t) = k
  BY <1>2, TupleShape
<1> DEFINE GroupOf(v) == CHOOSE g \in GroupsOf(v) : TRUE
           Lead(v) == IF GroupsOf(v) = {} THEN v
                      ELSE CHOOSE m \in GroupOf(v) : \A w \in GroupOf(v) : row[w] = 1 <=> w = m
           lead == [v \in DOMAIN t |-> Lead(v)]
           cols == { Lead(v) : v \in DOMAIN t }
<1>5. ASSUME NEW v \in DOMAIN t, GroupsOf(v) # {}
      PROVE  /\ GroupOf(v) \in Group /\ v \in GroupOf(v) /\ Lead(v) \in GroupOf(v)
             /\ \A w \in GroupOf(v) : row[w] = 1 <=> w = Lead(v)
  <2>1. GroupOf(v) \in GroupsOf(v)
    BY <1>5
  <2>2. GroupOf(v) \in Group /\ v \in GroupOf(v)
    BY <2>1 DEF GroupsOf
  <2> HIDE DEF GroupOf
  <2>3. \E m \in GroupOf(v) : \A w \in GroupOf(v) : row[w] = 1 <=> w = m
    BY <2>2 DEF GroupsExclusive
  <2>4. QED  BY <1>5, <2>2, <2>3
<1> HIDE DEF GroupOf
<1>6. \A v \in DOMAIN t : Lead(v) \in Var
  BY <1>4, <1>5, FormulaAssumption
<1>7. \A v \in DOMAIN t : GroupsOf(v) = {} => Lead(v) = v
  OBVIOUS
<1> HIDE DEF Lead
<1>8. cols \in SUBSET Var
  BY <1>6
<1>9. Cardinality(cols) <= k
  <2>1. lead \in Surjection(DOMAIN t, cols)
    BY DEF Surjection
  <2>2. QED  BY <1>4, <2>1, FS_Surjection
<1>10. ASSUME NEW c \in cols, GroupsOf(c) # {}
       PROVE  row[c] = 1
  <2>1. PICK v \in DOMAIN t : c = Lead(v)
    OBVIOUS
  <2>2. GroupsOf(v) # {}
    BY <1>7, <1>10, <2>1
  <2>3. QED  BY <1>5, <2>1, <2>2
<1>11. ASSUME NEW c \in cols, NEW d \in cols, NEW g \in GroupsOf(c) \cap GroupsOf(d)
       PROVE  c = d
  <2>1. g \in Group /\ c \in g /\ d \in g
    BY DEF GroupsOf
  <2>2. row[c] = 1 /\ row[d] = 1
    BY <1>10
  <2>3. QED  BY <2>1, <2>2 DEF GroupsExclusive
<1>12. GroupsPositive(row, cols)
  BY <1>10, <1>11 DEF GroupsPositive
<1>13. PICK more \in kSubset(k, Var) : cols \subseteq more /\ GroupsPositive(row, more)
  <2>1. k \in InitStrength .. Strength
    BY DEF Levels
  <2>2. QED  BY <1>8, <1>9, <1>12, <2>1 DEF EnoughColumns
<1> DEFINE u == [v \in more |-> row[v]]
<1>14. more \in SUBSET Var /\ Cardinality(more) = k
  BY <1>13 DEF kSubset
<1>15. u \in TuplesOf(k)
  <2>1. row \in [Var -> Bit]
    BY DEF ValidRows, Assignment
  <2>2. u \in [more -> Bit]
    BY <1>14, <2>1
  <2>3. QED  BY <1>14, <2>2, TupleOfShape
<1>16. Listed(u) /\ Extendable(u)
  <2>1. Covers(row, u)
    BY DEF Covers
  <2>2. Listed(u)
    BY <1>13 DEF Listed, GroupsPositive
  <2>3. QED  BY <2>1, <2>2 DEF Extendable
<1>17. u \in CoverIn(k, a)
  BY <1>15, <1>16, TablesOf
<1>18. PICK i \in DOMAIN a : Covers(a[i], u)
  BY <1>17, CoverInDef
<1>19. a[i] \in ValidRows /\ a[i] \in [Var -> Bit] /\ row \in [Var -> Bit]
  BY DEF ValidRows, Assignment
<1>20. \A v \in more : a[i][v] = row[v]
  BY <1>18 DEF Covers
<1> HIDE DEF u, cols, lead
<1>21. ASSUME NEW v \in DOMAIN t
       PROVE  a[i][v] = t[v]
  <2>1. row[v] = t[v] /\ v \in Var
    BY <1>3, <1>4 DEF Covers
  <2>2. Lead(v) \in more
    BY <1>13 DEF cols
  <2>3. CASE GroupsOf(v) = {}
    BY <1>7, <1>20, <2>1, <2>2, <2>3
  <2>4. CASE GroupsOf(v) # {}
    <3>1. /\ GroupOf(v) \in Group /\ v \in GroupOf(v) /\ Lead(v) \in GroupOf(v)
          /\ \A w \in GroupOf(v) : row[w] = 1 <=> w = Lead(v)
      BY <1>5, <2>4
    <3>2. a[i][Lead(v)] = 1
      BY <1>20, <2>2, <3>1
    <3>3. a[i][v] = 1 <=> v = Lead(v)
      BY <1>19, <3>1, <3>2 DEF GroupsExclusive
    <3>4. row[v] = 1 <=> v = Lead(v)
      BY <3>1
    <3>5. a[i][v] \in {0, 1} /\ row[v] \in {0, 1}
      BY <1>19, <2>1 DEF Bit
    <3>6. QED  BY <2>1, <3>3, <3>4, <3>5
  <2>5. QED  BY <2>3, <2>4
<1>22. QED  BY <1>2, <1>18, <1>21, CoverInDef DEF Covers

(* What leaves Expand is a covering array, for every model whose groups    *)
(* are alternatives and that has as many parameters as the strength asks.  *)
THEOREM CompleteAlways ==
  ASSUME GroupsExclusive, EnoughColumns
  PROVE  Spec => []CompleteAtEnd
<1>1. Inv => CompleteAtEnd
  <2> SUFFICES ASSUME Inv, pc \in {"optimize", "main", "done"}
               PROVE  ValidOf[strength] \subseteq CoverIn(strength, rows)
    BY DEF CompleteAtEnd
  <2>1. strength \in Levels /\ rows \in Seq(ValidRows)
    BY RowsCover DEF Inv, Typed
  <2>2. ListedOf[strength] \cap ValidOf[strength] \subseteq CoverIn(strength, rows)
    BY DEF Inv, ListedCovered
  <2>3. QED  BY <2>1, <2>2, ListedSuffice
<1>2. QED  BY <1>1, Invariance, PTL

=============================================================================
