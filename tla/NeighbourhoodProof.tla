------------------------- MODULE NeighbourhoodProof -------------------------
(***************************************************************************)
(* Proofs about how a step of the search chooses the row it writes, for    *)
(* every formula whose groups are exactly-one constraints, every set of    *)
(* tuples that may be bound and every configuration.                       *)
(***************************************************************************)
EXTENDS Neighbourhood, Foundations

(* What all steps keep: the rows are valid; the tuples are such as may be  *)
(* bound; and while some are uncovered, the array that backtrack_row looks *)
(* into covers all of them.                                                *)
Bindable == { t \in Tuple : Tracked(t) /\ Extendable(t) }

Inv ==
  /\ testcases \in Seq(ValidRows)
  /\ best_testcases \in Seq(ValidRows)
  /\ tuplesU \subseteq Bindable /\ IsFiniteSet(tuplesU)
  /\ weight \in [tuplesU -> Nat]
  /\ Uncovered # {} => \A t \in tuplesU : CoveredBy(best_testcases, t)

-----------------------------------------------------------------------------
(* The parts of formulas and tuples are finite.                            *)
LEMMA Finite ==
  /\ IsFiniteSet(Var) /\ Var \subseteq Nat
  /\ \A c \in Clause : IsFiniteSet(DOMAIN c) /\ DOMAIN c \subseteq Var
  /\ \A c \in Clause : \A v \in DOMAIN c : c[v] \in Bit
  /\ \A t \in Tuple : /\ DOMAIN t \subseteq Var /\ IsFiniteSet(DOMAIN t)
                      /\ \A v \in DOMAIN t : t[v] \in Bit
<1>1. IsFiniteSet(Var) /\ Var \subseteq Nat
  BY FormulaAssumption, FS_Interval DEF Var
<1>2. \A c \in Clause : DOMAIN c \subseteq Var /\ \A v \in DOMAIN c : c[v] \in Bit
  BY FormulaAssumption
<1>3. \A t \in Tuple : DOMAIN t \subseteq Var /\ \A v \in DOMAIN t : t[v] \in Bit
  BY DEF Tuple, TuplesOf, kSubset
<1>4. QED  BY <1>1, <1>2, <1>3, FS_Subset

(* The mates of a variable are the others in its group.                    *)
LEMMA MateOf ==
  ASSUME NEW v \in Var
  PROVE  /\ \A x : x \in Mates[v] <=> \E g \in Group : v \in g /\ x \in g /\ x # v
         /\ \A g \in Group : v \in g => Mates[v] = g \ {v}
         /\ Mates[v] \subseteq Var
<1>1. \A x : x \in Mates[v] <=> \E g \in Group : v \in g /\ x \in g /\ x # v
  BY DEF Mates, GroupsOf
<1>2. \A g, h \in Group : g # h => g \cap h = {}
  BY FormulaAssumption
<1>3. \A g \in Group : v \in g => Mates[v] = g \ {v}
  BY <1>1, <1>2
<1>4. QED  BY <1>1, <1>3, FormulaAssumption DEF Var

-----------------------------------------------------------------------------
(* Columns that are written for one reason only: no column of the tuple is *)
(* a mate of another one, and no two have a mate in common.                *)
Apart(t, mates) ==
  /\ \A v \in DOMAIN t : mates[v] \subseteq Var /\ mates[v] \cap DOMAIN t = {}
  /\ \A v, w \in DOMAIN t : v # w => mates[v] \cap mates[w] = {}

(* A tuple written into a row with its mates cleared: no literal of the    *)
(* tuple is among the mates of another, so that no order of the writes     *)
(* matters.                                                                *)
LEMMA WrittenOnce ==
  ASSUME NEW row \in Assignment, NEW t \in Tuple, NEW mates, Apart(t, mates)
  PROVE  /\ \A v \in DOMAIN t : NewRow(row, t, mates)[v] = t[v]
         /\ \A v \in DOMAIN t : \A x \in mates[v] : NewRow(row, t, mates)[x] = 0
         /\ \A x \in Var : (x \notin DOMAIN t /\ \A v \in DOMAIN t : x \notin mates[v])
                              => NewRow(row, t, mates)[x] = row[x]
         /\ NewRow(row, t, mates) \in Assignment
<1> DEFINE writers(x) == { v \in DOMAIN t : x = v \/ x \in mates[v] }
           new == NewRow(row, t, mates)
<1>1. new = [x \in Var |-> IF writers(x) = {} THEN row[x]
                           ELSE IF Max(writers(x)) = x THEN t[x] ELSE 0]
  BY DEF NewRow
<1>2. DOMAIN t \subseteq Var /\ Var \subseteq Nat /\ \A v \in DOMAIN t : t[v] \in Bit
  BY Finite
<1>3. ASSUME NEW v \in Nat PROVE Max({v}) = v
  BY DEF Max
<1> HIDE DEF new
<1>4. ASSUME NEW v \in DOMAIN t PROVE new[v] = t[v]
  <2>1. writers(v) = {v}
    BY DEF Apart
  <2>2. v \in Var /\ v \in Nat
    BY <1>2
  <2> HIDE DEF writers
  <2>3. QED  BY <1>1, <1>3, <2>1, <2>2
<1>5. ASSUME NEW v \in DOMAIN t, NEW x \in mates[v] PROVE new[x] = 0
  <2>1. writers(x) = {v} /\ x # v /\ x \in Var /\ v \in Nat
    BY <1>2 DEF Apart
  <2> HIDE DEF writers
  <2>2. QED  BY <1>1, <1>3, <2>1
<1>6. ASSUME NEW x \in Var, x \notin DOMAIN t, \A v \in DOMAIN t : x \notin mates[v]
      PROVE  new[x] = row[x]
  <2>1. writers(x) = {}
    BY <1>6
  <2> HIDE DEF writers
  <2>2. QED  BY <1>1, <2>1
<1>7. ASSUME NEW x \in Var PROVE new[x] \in Bit
  <2>1. CASE x \in DOMAIN t
    BY <1>2, <1>4, <2>1
  <2>2. CASE \E v \in DOMAIN t : x \in mates[v]
    BY <1>5, <2>2 DEF Bit
  <2>3. CASE x \notin DOMAIN t /\ \A v \in DOMAIN t : x \notin mates[v]
    BY <1>6, <2>3 DEF Assignment
  <2>4. QED  BY <2>1, <2>2, <2>3
<1>8. new \in Assignment
  BY <1>1, <1>7 DEF Assignment
<1>9. QED  BY <1>4, <1>5, <1>6, <1>8 DEF new

(* Then the counts of check_force_tuple are those of the new row.          *)
LEMMA CountsTrue ==
  ASSUME NEW row \in Assignment, NEW t \in Tuple, NEW mates, Apart(t, mates), NEW c \in Clause
  PROVE  Counts(row, t, mates, c)
           = Cardinality({ v \in DOMAIN c : NewRow(row, t, mates)[v] = c[v] })
<1> DEFINE new == NewRow(row, t, mates)
           before == [x \in Var |-> IF x \in DOMAIN c /\ row[x] = c[x] THEN 1 ELSE 0]
           after == [x \in Var |-> IF x \in DOMAIN c /\ new[x] = c[x] THEN 1 ELSE 0]
           diff == [x \in Var |-> after[x] - before[x]]
           sum(f, s) == SumFunctionOnSet(f, s)
           inner(v) == [x \in mates[v] |-> ChangeBit(row, x, 0, c)]
           term == [v \in DOMAIN t |-> ChangeBit(row, v, t[v], c) + SumFunction(inner(v))]
<1>1. /\ IsFiniteSet(Var) /\ DOMAIN c \subseteq Var /\ DOMAIN t \subseteq Var
      /\ \A v \in DOMAIN c : c[v] \in Bit
      /\ \A v \in DOMAIN t : mates[v] \subseteq Var
      /\ \A s \in SUBSET Var : IsFiniteSet(s)
  BY Finite, FS_Subset DEF Apart
<1>2. /\ \A v \in DOMAIN t : new[v] = t[v]
      /\ \A v \in DOMAIN t : \A x \in mates[v] : new[x] = 0
      /\ \A x \in Var : (x \notin DOMAIN t /\ \A v \in DOMAIN t : x \notin mates[v])
                              => new[x] = row[x]
      /\ new \in Assignment
  BY WrittenOnce
<1> HIDE DEF new
(* What a set of columns contributes to the number of literals satisfied.  *)
<1>3. ASSUME NEW r \in Assignment
      PROVE  Cardinality({ v \in DOMAIN c : r[v] = c[v] })
               = sum([x \in Var |-> IF x \in DOMAIN c /\ r[x] = c[x] THEN 1 ELSE 0], Var)
  <2> DEFINE A == { v \in DOMAIN c : r[v] = c[v] }
             B == Var \ A
             f == [x \in Var |-> IF x \in DOMAIN c /\ r[x] = c[x] THEN 1 ELSE 0]
  <2>1. A \in SUBSET Var /\ B \in SUBSET Var /\ A \cap B = {} /\ A \cup B = Var
    BY <1>1
  <2>2. /\ \A x \in Var : f[x] \in Int /\ f[x] \in Nat
        /\ \A x \in A : f[x] = 1 /\ f[x] \in Nat
        /\ \A x \in B : f[x] = 0 /\ f[x] \in Nat
    BY <2>1
  <2>3. IsFiniteSet(A) /\ IsFiniteSet(B)
    BY <1>1, <2>1
  <2> HIDE DEF A, B, f
  <2>4. sum(f, A) = Cardinality(A)
    BY <2>2, <2>3, SumNatural
  <2>5. sum(f, B) = 0
    BY <2>2, <2>3, SumNatural
  <2>6. sum(f, A \cup B) = sum(f, A) + sum(f, B)
    BY <1>1, <2>1, <2>2, SumSplit
  <2>7. Cardinality(A) \in Int
    BY <2>3, FS_CardinalityType
  <2>8. sum(f, Var) = Cardinality(A)
    <3>1. sum(f, Var) = sum(f, A \cup B)
      BY <2>1
    <3> HIDE DEF sum
    <3>2. QED  BY <2>4, <2>5, <2>6, <2>7, <3>1
  <2>9. QED  BY <2>8 DEF A, f
<1>4. /\ before \in [Var -> Int] /\ after \in [Var -> Int] /\ diff \in [Var -> Int]
  OBVIOUS
<1>5. /\ Cardinality({ v \in DOMAIN c : row[v] = c[v] }) = sum(before, Var)
      /\ Cardinality({ v \in DOMAIN c : new[v] = c[v] }) = sum(after, Var)
  BY <1>2, <1>3
<1>6. ASSUME NEW x \in Var, NEW b \in Bit, new[x] = b
      PROVE  ChangeBit(row, x, b, c) = diff[x]
  BY <1>1, <1>6 DEF ChangeBit, Assignment, Bit
<1>7. ASSUME NEW x \in Var, x \notin DOMAIN t, \A v \in DOMAIN t : x \notin mates[v]
      PROVE  diff[x] = 0
  BY <1>2, <1>7
<1>8. sum(after, Var) = sum(before, Var) + sum(diff, Var)
  <2>1. \A x \in Var : before[x] \in Int /\ diff[x] \in Int /\ after[x] = before[x] + diff[x]
    BY <1>4
  <2> HIDE DEF before, after, diff
  <2>2. QED  BY <1>1, <2>1, SumPlus
<1> HIDE DEF before, after, diff
<1>9. ASSUME NEW v \in DOMAIN t
      PROVE  term[v] = diff[v] + sum(diff, mates[v])
  <2>1. ChangeBit(row, v, t[v], c) = diff[v]
    BY <1>1, <1>2, <1>6, Finite
  <2>2. \A x \in mates[v] : inner(v)[x] = diff[x] /\ diff[x] \in Int
    BY <1>1, <1>2, <1>4, <1>6 DEF Bit
  <2>3. SumFunction(inner(v)) = sum(inner(v), mates[v])
    BY DEF SumFunction
  <2> DEFINE e == inner(v)
             m == mates[v]
  <2>4. \A x \in m : diff[x] \in Int /\ e[x] = diff[x]
    BY <2>2
  <2>5. IsFiniteSet(m)
    BY <1>1
  <2> HIDE DEF e, m
  <2>6. sum(e, m) = sum(diff, m)
    BY <2>4, <2>5, SumSame
  <2>7. QED  BY <2>1, <2>3, <2>6 DEF e, m
<1> DEFINE touched(s) == s \cup UNION { mates[v] : v \in s }
           D == DOMAIN t
           Good == { s \in SUBSET D : sum(term, s) = sum(diff, touched(s)) }
<1>10. /\ IsFiniteSet(D) /\ \A v \in D : term[v] \in Int
       /\ \A s \in SUBSET Var : sum(diff, s) \in Int
  <2>1. IsFiniteSet(D)
    BY <1>1
  <2>2. ASSUME NEW s \in SUBSET Var
        PROVE  sum(diff, s) \in Int
    <3>1. IsFiniteSet(s) /\ \A x \in s : diff[x] \in Int
      BY <1>1, <1>4
    <3>2. QED  BY <3>1, SumTakeOut
  <2>3. QED  BY <1>1, <1>4, <1>9, <2>1, <2>2
<1>11. ASSUME NEW s \in SUBSET D, \A v \in s : s \ {v} \in Good
       PROVE  s \in Good
  <2>1. CASE s = {}
    <3>1. touched(s) = {}
      BY <2>1
    <3>2. \A f : sum(f, {}) = 0
      BY FS_EmptySet, SumUnfolds
    <3>3. QED  BY <2>1, <3>1, <3>2
  <2>2. CASE s # {}
    <3>1. PICK v : v \in s
      BY <2>2
    <3> DEFINE r == s \ {v}
               m == mates[v]
    <3>2. sum(term, r) = sum(diff, touched(r))
      BY <1>11, <3>1
    <3>3. sum(term, s) = term[v] + sum(term, r)
      <4>1. IsFiniteSet(s) /\ \A x \in s : term[x] \in Int
        BY <1>10, FS_Subset
      <4> HIDE DEF term
      <4>2. QED  BY <3>1, <4>1, SumTakeOut
    <3>4. /\ touched(s) = touched(r) \cup (m \cup {v})
          /\ touched(r) \in SUBSET Var /\ m \in SUBSET Var /\ {v} \in SUBSET Var
          /\ m \cap {v} = {}
          /\ m \cup {v} \in SUBSET Var
      BY <1>1, <3>1 DEF Apart
    <3>5. touched(r) \cap (m \cup {v}) = {}
      BY <3>1 DEF Apart
    <3> HIDE DEF touched, m, r
    <3>6. sum(diff, touched(s)) = sum(diff, touched(r)) + sum(diff, m \cup {v})
      BY <1>1, <1>4, <3>4, <3>5, SumSplit
    <3>7. sum(diff, m \cup {v}) = sum(diff, m) + sum(diff, {v})
      BY <1>1, <1>4, <3>4, SumSplit
    <3>8. sum(diff, {v}) = diff[v]
      <4>1. IsFiniteSet({v}) /\ \A x \in {v} : diff[x] \in Int
        BY <1>1, <1>4, <3>4
      <4>2. sum(diff, {v}) = diff[v] + sum(diff, {v} \ {v}) /\ diff[v] \in Int
        BY <4>1, SumTakeOut
      <4>3. {v} \ {v} = {} /\ sum(diff, {}) = 0
        BY FS_EmptySet, SumUnfolds
      <4>4. QED  BY <4>2, <4>3
    <3>9. term[v] = diff[v] + sum(diff, m)
      BY <1>9, <3>1 DEF m
    <3>10. sum(diff, touched(r)) \in Int /\ sum(diff, m) \in Int /\ diff[v] \in Int
      BY <1>4, <1>10, <3>4
    <3>11. sum(term, s) = sum(diff, touched(s))
      BY <3>2, <3>3, <3>6, <3>7, <3>8, <3>9, <3>10
    <3>12. QED  BY <3>11
  <2>3. QED  BY <2>1, <2>2
<1>12. sum(term, D) = sum(diff, touched(D))
  <2>1. \A s \in SUBSET D : s \in Good
    <3> HIDE DEF Good, D
    <3>1. QED  BY <1>10, <1>11, SubsetInduction
  <2>2. QED  BY <2>1
<1>13. sum(diff, Var) = sum(diff, touched(D))
  <2> DEFINE T == touched(D)
             R == Var \ T
  <2>1. T \in SUBSET Var /\ R \in SUBSET Var /\ T \cap R = {} /\ T \cup R = Var
    BY <1>1
  <2>2. \A x \in R : diff[x] = 0
    BY <1>7
  <2> HIDE DEF T, R
  <2>3. sum(diff, R) = 0
    <3>1. IsFiniteSet(R) /\ \A x \in R : diff[x] \in Nat
      BY <1>1, <2>1, <2>2
    <3>2. QED  BY <2>2, <3>1, SumNatural
  <2>4. sum(diff, T \cup R) = sum(diff, T) + sum(diff, R)
    BY <1>1, <1>4, <2>1, SumSplit
  <2>5. sum(diff, T) \in Int
    BY <1>10, <2>1
  <2>6. sum(diff, Var) = sum(diff, T \cup R)
    BY <2>1
  <2> HIDE DEF sum
  <2>7. sum(diff, Var) = sum(diff, T)
    BY <2>3, <2>4, <2>5, <2>6
  <2>8. QED  BY <2>7 DEF T
<1>14. Counts(row, t, mates, c) = sum(before, Var) + sum(term, D)
  BY <1>5 DEF Counts, SumFunction
<1>15. QED  BY <1>5, <1>8, <1>12, <1>13, <1>14 DEF new

(* Then an offer is right: no clause of the new row has count 0.           *)
LEMMA ApartIsRight ==
  ASSUME NEW row \in ValidRows, NEW t \in Tuple, NEW mates, Apart(t, mates),
         Forcible(row, t, mates)
  PROVE  NewRow(row, t, mates) \in ValidRows /\ Covers(NewRow(row, t, mates), t)
<1>1. row \in Assignment
  BY DEF ValidRows
<1> DEFINE new == NewRow(row, t, mates)
<1>2. new \in Assignment /\ \A v \in DOMAIN t : new[v] = t[v]
  BY <1>1, WrittenOnce
<1>3. ASSUME NEW c \in Clause
      PROVE  \E v \in DOMAIN c : new[v] = c[v]
  <2>1. Cardinality({ v \in DOMAIN c : new[v] = c[v] }) # 0
    BY <1>1, CountsTrue DEF Forcible
  <2>2. { v \in DOMAIN c : new[v] = c[v] } # {}
    BY <2>1, FS_EmptySet
  <2>3. QED  BY <2>2
<1>4. QED  BY <1>2, <1>3 DEF ValidRows, Covers

(* A tuple whose columns are not apart names two members of one group, the *)
(* first set and the last not: nothing else is tracked and extendable.     *)
LEMMA TwoOfAGroup ==
  ASSUME GroupClauses, NEW t \in Bindable, ~Apart(t, Mates)
  PROVE  \E g \in Group, v, w \in DOMAIN t :
           /\ v # w /\ DOMAIN t \cap g = {v, w}
           /\ t[v] = 1 /\ t[w] = 0
<1>1. t \in Tuple /\ Tracked(t) /\ Extendable(t) /\ DOMAIN t \subseteq Var
  BY Finite DEF Bindable
<1>2. \E g \in Group : \E v, w \in DOMAIN t : v # w /\ v \in g /\ w \in g
  <2>1. CASE \E v \in DOMAIN t : ~(Mates[v] \subseteq Var /\ Mates[v] \cap DOMAIN t = {})
    <3>1. PICK v \in DOMAIN t : ~(Mates[v] \subseteq Var /\ Mates[v] \cap DOMAIN t = {})
      BY <2>1
    <3>2. Mates[v] \subseteq Var
      BY <1>1, MateOf
    <3>3. PICK w \in DOMAIN t : w \in Mates[v]
      BY <3>1, <3>2
    <3>4. QED  BY <1>1, <3>3, MateOf
  <2>2. CASE \E v, w \in DOMAIN t : v # w /\ Mates[v] \cap Mates[w] # {}
    <3>1. PICK v \in DOMAIN t, w \in DOMAIN t : v # w /\ Mates[v] \cap Mates[w] # {}
      BY <2>2
    <3>2. PICK x : x \in Mates[v] /\ x \in Mates[w]
      BY <3>1
    <3>3. PICK g \in Group : v \in g /\ x \in g
      BY <1>1, <3>2, MateOf
    <3>4. PICK h \in Group : w \in h /\ x \in h
      BY <1>1, <3>2, MateOf
    <3>5. g = h
      BY <3>3, <3>4, FormulaAssumption
    <3>6. QED  BY <3>1, <3>3, <3>4, <3>5
  <2>3. QED  BY <2>1, <2>2 DEF Apart
<1>3. PICK g \in Group : \E v, w \in DOMAIN t : v # w /\ v \in g /\ w \in g
  BY <1>2
<1> DEFINE last == LastVar(t)
<1>4. \A v, w \in DOMAIN t \ {last} : v \in g /\ w \in g => v = w
  BY <1>1 DEF Tracked, GroupsPositive, GroupsOf
<1>5. \A v \in DOMAIN t \ {last} : v \in g => t[v] = 1
  BY <1>1 DEF Tracked, GroupsPositive, GroupsOf
<1> HIDE DEF last
<1>6. PICK v \in DOMAIN t \ {last} : v \in g
  BY <1>3
<1>7. last \in DOMAIN t /\ last \in g
  BY <1>3, <1>4
<1>8. v # last /\ DOMAIN t \cap g = {v, last} /\ t[v] = 1
  BY <1>4, <1>5, <1>6, <1>7
<1>9. t[last] = 0
  <2>1. PICK r \in ValidRows : Covers(r, t)
    BY <1>1 DEF Extendable
  <2>2. r[v] = 1 /\ r[last] = t[last] /\ r \in Assignment
    BY <1>6, <1>7, <1>8, <2>1 DEF Covers, ValidRows
  <2>3. r[last] # 1
    BY <1>6, <1>7, <1>8, <2>2 DEF GroupClauses
  <2>4. QED  BY <1>1, <1>7, <2>2, <2>3 DEF Assignment, Bit
<1>10. QED  BY <1>6, <1>7, <1>8, <1>9

(* The clause of a group is satisfied by the one member that is set.        *)
LEMMA OneOfAGroup ==
  ASSUME GroupClauses, NEW g \in Group, NEW row \in ValidRows,
         NEW some \in SUBSET g, [v \in some |-> 1] \in Clause
  PROVE  \E u \in some : row[u] = 1 /\ \A x \in g \ {u} : row[x] = 0
<1>1. PICK u \in some : row[u] = 1
  BY DEF ValidRows
<1>2. ASSUME NEW x \in g \ {u} PROVE row[x] = 0
  <2>1. row[x] # 1
    BY <1>1 DEF GroupClauses
  <2>2. x \in Var /\ row \in Assignment
    BY FormulaAssumption DEF ValidRows
  <2>3. QED  BY <2>1, <2>2 DEF Assignment, Bit
<1>3. QED  BY <1>1, <1>2

(* Such a tuple is never offered in the cell neighbourhood: by the clause  *)
(* that wants one of the group its count comes out as 0.  The member that  *)
(* is set and the reset of its mates cancel out, and the member that is    *)
(* not set takes away the one that was, with its own mates.                *)
LEMMA NeverOffered ==
  ASSUME GroupClauses, NEW row \in ValidRows, NEW t \in Bindable,
         NEW g \in Group, NEW v \in DOMAIN t, NEW w \in DOMAIN t, v # w,
         DOMAIN t \cap g = {v, w}, t[v] = 1, t[w] = 0
  PROVE  ~Forcible(row, t, Mates)
<1>0. PICK some \in SUBSET g : [x \in some |-> 1] \in Clause
  BY DEF GroupClauses
<1> DEFINE c == [x \in some |-> 1]
           inner(z) == [x \in Mates[z] |-> ChangeBit(row, x, 0, c)]
           term == [z \in DOMAIN t |-> ChangeBit(row, z, t[z], c) + SumFunction(inner(z))]
<1>1. c \in Clause /\ t \in Tuple
  BY <1>0 DEF Bindable
<1>2. PICK u \in some : row[u] = 1 /\ \A x \in g \ {u} : row[x] = 0
  BY <1>0, OneOfAGroup
<1>3. /\ DOMAIN t \subseteq Var /\ IsFiniteSet(DOMAIN t) /\ v \in some /\ w \in g
      /\ \A s \in SUBSET Var : IsFiniteSet(s)
  <2>1. PICK r \in ValidRows : r[v] = 1
    BY DEF Bindable, Extendable, Covers
  <2>2. PICK x \in some : r[x] = 1
    BY <1>0, OneOfAGroup
  <2>3. v = x
    BY <2>1, <2>2 DEF GroupClauses
  <2>4. QED  BY <1>1, <2>2, <2>3, Finite, FS_Subset
<1>4. ASSUME NEW x
      PROVE  ChangeBit(row, x, 0, c) = IF x = u THEN -1 ELSE 0
  BY <1>2 DEF ChangeBit
<1>5. ASSUME NEW z \in DOMAIN t
      PROVE  SumFunction(inner(z)) = IF u \in Mates[z] THEN -1 ELSE 0
  <2> DEFINE f == inner(z)
             m == Mates[z]
  <2>1. IsFiniteSet(m)
    BY <1>3, MateOf
  <2>2. /\ \A x \in m : f[x] \in Int
        /\ \A x \in m \ {u} : f[x] = 0
        /\ u \in m => f[u] = -1
    BY <1>4
  <2>3. SumFunction(inner(z)) = SumFunctionOnSet(f, m)
    BY DEF SumFunction
  <2> HIDE DEF f, m
  <2>4. SumFunctionOnSet(f, m) = IF u \in m THEN f[u] ELSE 0
    BY <2>1, <2>2, SumSingle
  <2>5. SumFunctionOnSet(f, m) = IF u \in m THEN -1 ELSE 0
    BY <2>2, <2>4
  <2>6. QED  BY <2>3, <2>5 DEF m
<1>6. ASSUME NEW z \in DOMAIN t, z \notin {v, w} PROVE term[z] = 0
  <2>1. z \notin g
    BY <1>6
  <2>2. u \notin Mates[z]
    BY <1>3, <2>1, MateOf, FormulaAssumption
  <2>3. ChangeBit(row, z, t[z], c) = 0
    BY <2>1 DEF ChangeBit
  <2>4. QED  BY <1>5, <2>2, <2>3
<1>7. term[v] = 0
  <2>1. Mates[v] = g \ {v}
    BY <1>3, MateOf
  <2>2. ChangeBit(row, v, t[v], c) = IF v = u THEN 0 ELSE 1
    BY <1>2, <1>3 DEF ChangeBit
  <2>3. SumFunction(inner(v)) = IF v = u THEN 0 ELSE -1
    BY <1>5, <2>1
  <2>4. QED  BY <2>2, <2>3
<1>8. term[w] = -1
  <2>1. Mates[w] = g \ {w}
    BY <1>3, MateOf
  <2>2. ChangeBit(row, w, t[w], c) = IF w = u THEN -1 ELSE 0
    BY <1>4
  <2>3. SumFunction(inner(w)) = IF w = u THEN 0 ELSE -1
    BY <1>5, <2>1
  <2>4. QED  BY <2>2, <2>3
<1>9. SumFunction(term) = -1
  <2> DEFINE D == DOMAIN t
  <2>1. SumFunction(term) = SumFunctionOnSet(term, D)
    BY DEF SumFunction
  <2>2. IsFiniteSet(D) /\ (\A z \in D : term[z] \in Int) /\ (\A z \in D \ {w} : term[z] = 0)
    BY <1>3, <1>6, <1>7, <1>8
  <2> HIDE DEF term, D
  <2>3. SumFunctionOnSet(term, D) = IF w \in D THEN term[w] ELSE 0
    BY <2>2, SumSingle
  <2>4. QED  BY <1>8, <2>1, <2>3 DEF D
<1>10. Cardinality({ x \in DOMAIN c : row[x] = c[x] }) = 1
  <2>1. { x \in DOMAIN c : row[x] = c[x] } = {u}
    BY <1>2
  <2>2. QED  BY <2>1, FS_Singleton
<1>11. Counts(row, t, Mates, c) = 1 + (-1)
  <2>1. Counts(row, t, Mates, c)
          = Cardinality({ x \in DOMAIN c : row[x] = c[x] }) + SumFunction(term)
    BY DEF Counts
  <2>2. QED  BY <1>9, <1>10, <2>1
<1>12. QED  BY <1>1, <1>11 DEF Forcible

(* A row that a forcing move offers is valid and covers the tuple.         *)
LEMMA OfferIsRight ==
  ASSUME GroupClauses, NEW row \in ValidRows, NEW t \in Bindable
  PROVE  /\ Forcible(row, t, Mates) =>
              NewRow(row, t, Mates) \in ValidRows /\ Covers(NewRow(row, t, Mates), t)
         /\ Forcible(row, t, NoMates) =>
              NewRow(row, t, NoMates) \in ValidRows /\ Covers(NewRow(row, t, NoMates), t)
<1>1. t \in Tuple /\ DOMAIN t \subseteq Var
  BY Finite DEF Bindable
<1>2. ASSUME Forcible(row, t, Mates)
      PROVE  NewRow(row, t, Mates) \in ValidRows /\ Covers(NewRow(row, t, Mates), t)
  <2>1. CASE Apart(t, Mates)
    BY <1>1, <1>2, <2>1, ApartIsRight
  <2>2. CASE ~Apart(t, Mates)
    <3>1. PICK g \in Group, v \in DOMAIN t, w \in DOMAIN t :
            v # w /\ DOMAIN t \cap g = {v, w} /\ t[v] = 1 /\ t[w] = 0
      BY <2>2, TwoOfAGroup
    <3>2. QED  BY <1>1, <1>2, <3>1, NeverOffered
  <2>3. QED  BY <2>1, <2>2
<1>3. Apart(t, NoMates)
  BY <1>1 DEF Apart, NoMates
<1>4. QED  BY <1>1, <1>2, <1>3, ApartIsRight

-----------------------------------------------------------------------------
(* The other writes.                                                       *)
LEMMA FlipIsRight ==
  ASSUME NEW row \in ValidRows, NEW v \in Var, Flippable(row, v)
  PROVE  Flipped(row, v) \in ValidRows
<1> DEFINE new == Flipped(row, v)
<1>1. row \in Assignment /\ \A c \in Clause : \E u \in DOMAIN c : row[u] = c[u]
  BY DEF ValidRows
<1>2. new \in Assignment /\ \A u \in Var \ {v} : new[u] = row[u]
  BY <1>1 DEF Flipped, Assignment, Bit
<1>3. ASSUME NEW c \in Clause
      PROVE  \E u \in DOMAIN c : new[u] = c[u]
  <2>1. DOMAIN c \subseteq Var
    BY Finite
  <2>2. PICK u \in DOMAIN c : row[u] = c[u]
    BY <1>1
  <2>3. CASE u = v
    <3>1. \E x \in DOMAIN c \ {v} : row[x] = c[x]
      BY <2>2, <2>3 DEF Flippable
    <3>2. QED  BY <1>2, <2>1, <3>1
  <2>4. CASE u # v
    BY <1>2, <2>1, <2>2, <2>4
  <2>5. QED  BY <2>3, <2>4
<1>4. QED  BY <1>2, <1>3 DEF ValidRows

(* Writing a valid row at a place keeps the rows valid.                    *)
LEMMA WriteIsRight ==
  ASSUME NEW rows \in Seq(ValidRows), NEW p \in DOMAIN rows, NEW row \in ValidRows
  PROVE  [rows EXCEPT ![p] = row] \in Seq(ValidRows)
OBVIOUS

(* The rows after a random flip, or after none, are valid.                 *)
LEMMA AfterFlipIsRight ==
  ASSUME testcases \in Seq(ValidRows), NEW f \in Flips
  PROVE  AfterFlip(f) \in Seq(ValidRows) /\ DOMAIN AfterFlip(f) = Places
<1>1. f[1] \in Places /\ f[2] \in Var /\ Flippable(testcases[f[1]], f[2])
  BY DEF Flips
<1>2. testcases[f[1]] \in ValidRows
  BY <1>1 DEF Places
<1>3. Flipped(testcases[f[1]], f[2]) \in ValidRows
  BY <1>1, <1>2, FlipIsRight
<1>4. AfterFlip(f) = [testcases EXCEPT ![f[1]] = Flipped(testcases[f[1]], f[2])]
  BY DEF AfterFlip
<1>5. QED  BY <1>1, <1>3, <1>4, WriteIsRight DEF Places

(* The row that backtrack_row writes is valid.                             *)
LEMMA BacktrackIsRight ==
  ASSUME Inv, NEW t \in Uncovered
  PROVE  BacktrackRow(t) \in ValidRows
<1> DEFINE covering == { q \in DOMAIN best_testcases : Covers(best_testcases[q], t) }
<1>1. covering # {}
  BY DEF Inv, Uncovered, UncoveredBy, CoveredBy
<1>2. covering \in SUBSET Nat
  BY DEF Inv
<1>3. PICK x \in covering : \A y \in covering : x <= y
  <2> HIDE DEF covering
  <2>1. QED  BY <1>1, <1>2, Least
<1>4. Min(covering) \in covering
  <2> HIDE DEF covering
  <2>1. QED  BY <1>3 DEF Min
<1>5. BacktrackRow(t) = best_testcases[Min(covering)]
  BY DEF BacktrackRow
<1>6. QED  BY <1>4, <1>5 DEF Inv

(* Removing a row keeps the rows valid.                                    *)
LEMMA SwapOutIsRight ==
  ASSUME NEW rows \in Seq(ValidRows), NEW p \in DOMAIN rows
  PROVE  SwapOut(rows, p) \in Seq(ValidRows)
<1> DEFINE n == Len(rows)
           swapped == [rows EXCEPT ![p] = rows[n]]
<1>1. n \in Nat /\ n >= 1 /\ n \in DOMAIN rows /\ rows[n] \in ValidRows
  OBVIOUS
<1>2. swapped \in Seq(ValidRows) /\ Len(swapped) = n
  BY <1>1
<1>3. SubSeq(swapped, 1, n - 1) \in Seq(ValidRows)
  <2> HIDE DEF swapped, n
  <2>1. \A i \in 1 .. n - 1 : swapped[i] \in ValidRows
    BY <1>1, <1>2
  <2>2. QED  BY <1>1, <1>2, <2>1
<1>4. QED  BY <1>3 DEF SwapOut

-----------------------------------------------------------------------------
(* What has to be known of a step that writes while tuples are uncovered.  *)
LEMMA WritesKeepInv ==
  ASSUME Inv, Uncovered # {},
         testcases' \in Seq(ValidRows), UNCHANGED <<best_testcases, tuplesU>>,
         weight' \in [tuplesU -> Nat]
  PROVE  Inv'
BY DEF Inv, Bindable, Extendable

(* forcetestcase with a valid row keeps the rows valid.                    *)
LEMMA ForceIsRight ==
  ASSUME Inv, NEW p \in Places, NEW row \in ValidRows, ForceTestcase(p, row)
  PROVE  testcases' \in Seq(ValidRows)
BY WriteIsRight DEF Inv, ForceTestcase, Places

(* What is uncovered can be bound, and all rows are valid.                 *)
LEMMA UncoveredIsBindable ==
  ASSUME Inv
  PROVE  Uncovered \subseteq Bindable /\ \A p \in Places : testcases[p] \in ValidRows
BY DEF Inv, Uncovered, UncoveredBy, Places

(* Weights stay natural numbers.                                           *)
LEMMA ReweighedIsRight ==
  ASSUME Inv
  PROVE  Reweighed \in [tuplesU -> Nat]
BY DEF Inv, Reweighed

(* The invariant holds in the beginning.                                   *)
LEMMA InitInv == Init => Inv
<1> SUFFICES ASSUME Init PROVE Inv
  OBVIOUS
<1>1. PICK s \in Starts : testcases = s.rows /\ tuplesU = s.tuples
  BY DEF Init
<1>2. testcases \in Seq(ValidRows) /\ IsFiniteSet(tuplesU)
  BY <1>1, NeighbourhoodAssumption
<1>3. ASSUME NEW t \in tuplesU
      PROVE  t \in Bindable /\ CoveredBy(testcases, t)
  <2>1. t \in Tuple /\ Tracked(t) /\ CoveredBy(testcases, t)
    BY <1>1, NeighbourhoodAssumption
  <2>2. PICK i \in DOMAIN testcases : Covers(testcases[i], t)
    BY <2>1 DEF CoveredBy
  <2>3. testcases[i] \in ValidRows
    BY <1>2
  <2>4. QED  BY <2>1, <2>2, <2>3 DEF Bindable, Extendable
<1>4. Uncovered = {}
  BY <1>3 DEF Uncovered, UncoveredBy
<1>5. best_testcases \in Seq(ValidRows) /\ weight \in [tuplesU -> Nat]
  BY DEF Init
<1>6. QED  BY <1>2, <1>3, <1>4, <1>5 DEF Inv

(* Every step keeps it.                                                    *)
LEMMA NextInv == GroupClauses /\ Inv /\ [Next]_vars => Inv'
<1> SUFFICES ASSUME GroupClauses, Inv, [Next]_vars PROVE Inv'
  OBVIOUS
<1>1. ASSUME Remove PROVE Inv'
  <2>1. PICK p \in Places : testcases' = SwapOut(testcases, p)
    BY <1>1 DEF Remove
  <2>2. testcases' \in Seq(ValidRows)
    BY <2>1, SwapOutIsRight DEF Inv, Places
  <2>3. best_testcases' = testcases /\ tuplesU' = tuplesU /\ weight' = weight
    BY <1>1 DEF Remove
  <2>4. \A t \in tuplesU : CoveredBy(testcases, t)
    BY <1>1 DEF Remove, Uncovered, UncoveredBy
  <2>5. (\A t \in tuplesU : CoveredBy(best_testcases, t))'
    BY <2>3, <2>4 DEF CoveredBy, Covers
  <2>6. QED  BY <2>2, <2>3, <2>5 DEF Inv, Bindable, Extendable
<1>2. ASSUME CellDescent PROVE Inv'
  <2>1. PICK t \in Uncovered, p \in Places : CellDescends(p, t)
    BY <1>2 DEF CellDescent
  <2>2. NewRow(testcases[p], t, Mates) \in ValidRows
    BY <2>1, UncoveredIsBindable, OfferIsRight DEF CellDescends, Offers
  <2>3. testcases' \in Seq(ValidRows)
    BY <2>1, <2>2, ForceIsRight DEF CellDescends, ForceTuple
  <2>4. UNCHANGED <<best_testcases, tuplesU>> /\ weight' \in [tuplesU -> Nat]
    BY <2>1 DEF CellDescends, Inv
  <2>5. QED  BY <2>1, <2>3, <2>4, WritesKeepInv
<1>3. ASSUME AtMinimum, testcases' \in Seq(ValidRows) PROVE Inv'
  <2>1. Uncovered # {} /\ UNCHANGED <<best_testcases, tuplesU>> /\ weight' \in [tuplesU -> Nat]
    BY <1>3, ReweighedIsRight DEF AtMinimum, NothingPays
  <2>2. QED  BY <1>3, <2>1, WritesKeepInv
<1>4. ASSUME CellFirstBest PROVE Inv'
  <2>1. PICK t \in Uncovered : \E p \in Offers(t) : ForceTuple(p, t)
    BY <1>4 DEF CellFirstBest
  <2>2. PICK p \in Offers(t) : ForceTuple(p, t)
    BY <2>1
  <2>3. p \in Places /\ NewRow(testcases[p], t, Mates) \in ValidRows
    BY <2>1, <2>2, UncoveredIsBindable, OfferIsRight DEF Offers
  <2>4. testcases' \in Seq(ValidRows)
    BY <2>2, <2>3, ForceIsRight DEF ForceTuple
  <2>5. QED  BY <1>3, <1>4, <2>4 DEF CellFirstBest
<1>5. ASSUME CellBacktrack PROVE Inv'
  <2>1. PICK t \in Uncovered, p \in Places : ForceTestcase(p, BacktrackRow(t))
    BY <1>5 DEF CellBacktrack
  <2>2. testcases' \in Seq(ValidRows)
    BY <2>1, BacktrackIsRight, ForceIsRight
  <2>3. QED  BY <1>3, <1>5, <2>2 DEF CellBacktrack
<1>6. ASSUME CellRandomGreedy PROVE Inv'
  <2>1. PICK t \in Uncovered, p \in Places : Placeable(p, t) /\ ForceTuple(p, t)
    BY <1>6 DEF CellRandomGreedy
  <2>2. NewRow(testcases[p], t, Mates) \in ValidRows
    BY <2>1, UncoveredIsBindable, OfferIsRight DEF Placeable
  <2>3. testcases' \in Seq(ValidRows)
    BY <2>1, <2>2, ForceIsRight DEF ForceTuple
  <2>4. QED  BY <1>3, <1>6, <2>3 DEF CellRandomGreedy, AtLoss
<1>7. ASSUME CellForced PROVE Inv'
  <2>0. PICK t \in Uncovered : \E p \in Places, row \in Solutions(t) : ForceTestcase(p, row)
    BY <1>7 DEF CellForced
  <2>1. PICK p \in Places, row \in Solutions(t) : ForceTestcase(p, row)
    BY <2>0
  <2>2. row \in ValidRows
    BY DEF Solutions
  <2>3. testcases' \in Seq(ValidRows)
    BY <2>1, <2>2, ForceIsRight
  <2>4. QED  BY <1>3, <1>7, <2>3 DEF CellForced, AtLoss
<1>8. ASSUME CellGivesUp PROVE Inv'
  <2>1. PICK t \in Uncovered, p \in Places,
             rows \in {testcases} \cup { AfterFlip(f) : f \in Flips } :
          testcases' = [rows EXCEPT ![p] = BacktrackRow(t)]
    BY <1>8 DEF CellGivesUp
  <2>2. rows \in Seq(ValidRows) /\ DOMAIN rows = Places
    BY AfterFlipIsRight DEF Inv, Places
  <2>3. testcases' \in Seq(ValidRows)
    BY <2>1, <2>2, BacktrackIsRight, WriteIsRight
  <2>4. QED  BY <1>3, <1>8, <2>3 DEF CellGivesUp, AtLoss
<1>9. ASSUME TupleDescent PROVE Inv'
  <2>1. PICK t \in Uncovered, p \in Places : TupleDescends(p, t)
    BY <1>9 DEF TupleDescent
  <2>2. NewRow(testcases[p], t, NoMates) \in ValidRows
    BY <2>1, UncoveredIsBindable, OfferIsRight DEF TupleDescends, Pays, Admits
  <2>3. testcases' \in Seq(ValidRows)
    BY <2>1, <2>2, ForceIsRight DEF TupleDescends
  <2>4. UNCHANGED <<best_testcases, tuplesU>> /\ weight' \in [tuplesU -> Nat]
    BY <2>1 DEF TupleDescends, Inv
  <2>5. QED  BY <2>1, <2>3, <2>4, WritesKeepInv
<1>10. ASSUME TupleForced PROVE Inv'
  <2>0. PICK t \in Uncovered : \E p \in Places, row \in Solutions(t) : ForceTestcase(p, row)
    BY <1>10 DEF TupleForced
  <2>1. PICK p \in Places, row \in Solutions(t) : ForceTestcase(p, row)
    BY <2>0
  <2>2. row \in ValidRows
    BY DEF Solutions
  <2>3. testcases' \in Seq(ValidRows)
    BY <2>1, <2>2, ForceIsRight
  <2>4. UNCHANGED <<best_testcases, tuplesU>> /\ weight' \in [tuplesU -> Nat]
    BY <1>10 DEF TupleForced, Inv
  <2>5. QED  BY <2>1, <2>3, <2>4, WritesKeepInv
<1>11. ASSUME TupleRandom PROVE Inv'
  <2>1. PICK f \in Flips : testcases' = AfterFlip(f)
    BY <1>11 DEF TupleRandom
  <2>2. testcases' \in Seq(ValidRows)
    BY <2>1, AfterFlipIsRight DEF Inv
  <2>3. Uncovered # {} /\ UNCHANGED <<best_testcases, tuplesU>> /\ weight' \in [tuplesU -> Nat]
    BY <1>11 DEF TupleRandom, Inv
  <2>4. QED  BY <2>2, <2>3, WritesKeepInv
<1>12. CASE UNCHANGED vars
  <2>1. UNCHANGED <<testcases, best_testcases, tuplesU, weight>>
    BY <1>12 DEF vars
  <2>2. Uncovered' = Uncovered
    BY <2>1 DEF Uncovered, UncoveredBy, CoveredBy, Covers
  <2>3. QED  BY <2>1, <2>2 DEF Inv, Bindable, Extendable
<1>13. QED
  BY <1>1, <1>2, <1>4, <1>5, <1>6, <1>7, <1>8, <1>9, <1>10, <1>11, <1>12 DEF Next

(* The rows are valid rows and the weights natural numbers, throughout:    *)
(* the invariant of the theorems below.                                    *)
THEOREM InvAlways ==
  ASSUME GroupClauses
  PROVE  Spec => []Inv
<1>1. Init => Inv
  BY InitInv
<1>2. Inv /\ [Next]_vars => Inv'
  BY NextInv
<1>3. QED  BY <1>1, <1>2, PTL DEF Spec

-----------------------------------------------------------------------------
(* What RowsValid says follows from the types of the arrays.               *)
LEMMA InvRows == Inv => RowsValid
BY DEF Inv, RowsValid, Places

(* The invariant makes every offer sound.                                  *)
LEMMA InvOffers == GroupClauses /\ Inv => OffersSound
<1> SUFFICES ASSUME GroupClauses, Inv, NEW t \in Uncovered, NEW p \in Places
             PROVE  /\ Forcible(testcases[p], t, Mates) =>
                         NewRow(testcases[p], t, Mates)
                           \in { row \in ValidRows : Covers(row, t) }
                    /\ Forcible(testcases[p], t, NoMates) =>
                         NewRow(testcases[p], t, NoMates)
                           \in { row \in ValidRows : Covers(row, t) }
  BY DEF OffersSound
<1>1. t \in Bindable /\ testcases[p] \in ValidRows
  BY UncoveredIsBindable
<1>2. QED  BY <1>1, OfferIsRight

(* What is uncovered after a write was so before, or was covered by the    *)
(* row that is overwritten alone.                                          *)
LEMMA AfterAWrite ==
  ASSUME Inv, NEW p \in Places, NEW row
  PROVE  /\ UncoveredBy([testcases EXCEPT ![p] = row])
              = { t \in Alone(p) \cup Uncovered : ~Covers(row, t) }
         /\ Alone(p) \cap Uncovered = {}
         /\ Alone(p) \subseteq tuplesU /\ Uncovered \subseteq tuplesU
<1> DEFINE rows == [testcases EXCEPT ![p] = row]
<1>1. DOMAIN rows = Places /\ p \in Places /\ rows[p] = row
      /\ \A q \in Places \ {p} : rows[q] = testcases[q]
  BY DEF Inv, Places
<1> HIDE DEF rows
<1>2. ASSUME NEW t \in tuplesU
      PROVE  CoveredBy(rows, t) <=> Covers(row, t) \/ \E q \in Places \ {p} : Covers(testcases[q], t)
  BY <1>1 DEF CoveredBy
<1>3. ASSUME NEW t \in tuplesU
      PROVE  t \in Alone(p) <=> /\ Covers(testcases[p], t)
                                /\ \A q \in Places \ {p} : ~Covers(testcases[q], t)
  BY <1>1 DEF Alone
<1>4. ASSUME NEW t \in tuplesU
      PROVE  t \in Uncovered <=> \A q \in Places : ~Covers(testcases[q], t)
  BY DEF Uncovered, UncoveredBy, CoveredBy, Places
<1>5. Alone(p) \subseteq tuplesU /\ Uncovered \subseteq tuplesU
  BY DEF Alone, Uncovered, UncoveredBy
<1>6. ASSUME NEW t \in tuplesU
      PROVE  ~CoveredBy(rows, t) <=> (t \in Alone(p) \/ t \in Uncovered) /\ ~Covers(row, t)
  BY <1>1, <1>2, <1>3, <1>4
<1>7. UncoveredBy(rows) = { t \in Alone(p) \cup Uncovered : ~Covers(row, t) }
  BY <1>5, <1>6 DEF UncoveredBy
<1>8. Alone(p) \cap Uncovered = {}
  BY <1>1, <1>3, <1>4, <1>5
<1>9. QED  BY <1>5, <1>7, <1>8 DEF rows

(* And every score that of the state.                                      *)
LEMMA InvScores == Inv => ScoresTrue
<1> SUFFICES ASSUME Inv, NEW p \in Places, NEW row \in ValidRows, NEW w \in {weight, One}
             PROVE  Weight(UncoveredBy([testcases EXCEPT ![p] = row]), w)
                      = Weight(Uncovered, w) - Gain(p, row, w)
  BY DEF ScoresTrue
<1> DEFINE A == Alone(p)
           U == Uncovered
           C == { t \in A \cup U : Covers(row, t) }
           N == UncoveredBy([testcases EXCEPT ![p] = row])
           sum(s) == SumFunctionOnSet(w, s)
<1>1. N = { t \in A \cup U : ~Covers(row, t) } /\ A \cap U = {}
      /\ A \in SUBSET tuplesU /\ U \in SUBSET tuplesU
  BY AfterAWrite
<1>2. IsFiniteSet(tuplesU) /\ \A t \in tuplesU : w[t] \in Nat /\ w[t] \in Int
  BY DEF Inv, One
<1>3. C \in SUBSET tuplesU /\ N \in SUBSET tuplesU /\ C \cap N = {} /\ C \cup N = A \cup U
  BY <1>1
<1>4. Gain(p, row, w) = sum(C) - sum(A)
  BY DEF Gain, Weight
<1> HIDE DEF A, U, C, N
<1>5. sum(A \cup U) = sum(A) + sum(U)
  BY <1>1, <1>2, SumSplit
<1>6. sum(C \cup N) = sum(C) + sum(N)
  BY <1>2, <1>3, SumSplit
<1>7. \A s \in SUBSET tuplesU : sum(s) \in Nat
  <2>1. ASSUME NEW s \in SUBSET tuplesU PROVE sum(s) \in Nat
    <3>1. IsFiniteSet(s) /\ \A t \in s : w[t] \in Nat
      BY <1>2, FS_Subset
    <3>2. QED  BY <3>1, SumNatural
  <2>2. QED  BY <2>1
<1>8. sum(C \cup N) = sum(A \cup U)
  BY <1>3
<1> HIDE DEF sum
<1>9. sum(N) = sum(U) - (sum(C) - sum(A))
  BY <1>1, <1>3, <1>5, <1>6, <1>7, <1>8
<1>10. QED  BY <1>4, <1>9 DEF sum, N, U, Weight

-----------------------------------------------------------------------------
(* Every array of the search, the one kept included, holds valid           *)
(* configurations only, for every formula that says of each group that     *)
(* exactly one of its members is set.                                      *)
THEOREM RowsStayValid ==
  ASSUME GroupClauses
  PROVE  Spec => []RowsValid
BY InvAlways, InvRows, PTL

(* check_force_tuple is right at every step about every row and every      *)
(* tuple that is uncovered, although it counts some columns twice: where   *)
(* it does, the tuple names two members of one group and is never offered. *)
THEOREM OffersStaySound ==
  ASSUME GroupClauses
  PROVE  Spec => []OffersSound
<1>1. Inv => OffersSound
  BY InvOffers
<1>2. QED  BY <1>1, InvAlways, PTL

(* The score of a write is by how much the uncovered weight would fall,    *)
(* whatever the weights have become.                                       *)
THEOREM ScoresStayTrue ==
  ASSUME GroupClauses
  PROVE  Spec => []ScoresTrue
BY InvAlways, InvScores, PTL

=============================================================================
