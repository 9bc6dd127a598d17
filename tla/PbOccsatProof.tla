--------------------------- MODULE PbOccsatProof ---------------------------
(***************************************************************************)
(* Proofs about PbOCCSATSolver for any files, settings and bounds.         *)
(***************************************************************************)
EXTENDS PbOccsat, Foundations

-----------------------------------------------------------------------------
(* The numbers of a list, in order.                                        *)
LEMMA NumbersOf ==
  ASSUME NEW n \in Nat, NEW D, D = 1 .. n
  PROVE  /\ [i \in D |-> i] \in Seq(D)
         /\ Range([i \in D |-> i]) = D
         /\ IsInjective([i \in D |-> i])
  BY DEF Range, IsInjective

(* Deduplicated keeps each element once.                                   *)
LEMMA DeduplicatedIs ==
  ASSUME NEW S, NEW raw \in Seq(S)
  PROVE  /\ Deduplicated(raw) \in Seq(S)
         /\ Range(Deduplicated(raw)) = Range(raw)
         /\ IsInjective(Deduplicated(raw))
<1> DEFINE n == Len(raw)
           D == DOMAIN raw
           new == { i \in D : \A j \in 1 .. (i - 1) : raw[j] # raw[i] }
           first == Only([i \in D |-> i], new)
           is == Deduplicated(raw)
<1>1. n \in Nat /\ D = 1 .. n /\ \A i \in D : raw[i] \in S
  OBVIOUS
<1>2. is = [k \in DOMAIN first |-> raw[first[k]]]
  BY DEF Deduplicated
<1>3. first \in Seq(D) /\ Range(first) = D \cap new /\ IsInjective(first)
  <2> HIDE DEF D, n, new
  <2>1. /\ [i \in D |-> i] \in Seq(D) /\ Range([i \in D |-> i]) = D
        /\ IsInjective([i \in D |-> i])
    BY <1>1, NumbersOf
  <2>2. QED  BY <2>1, OnlyIs
<1> HIDE DEF D, n, first, is
<1>4. /\ DOMAIN first = 1 .. Len(first) /\ Len(first) \in Nat
      /\ \A k \in DOMAIN first : first[k] \in D /\ first[k] \in new
  BY <1>3 DEF Range
<1>5. is \in Seq(S) /\ DOMAIN is = DOMAIN first /\ \A k \in DOMAIN first : is[k] = raw[first[k]]
  BY <1>1, <1>2, <1>4
<1>6. IsInjective(is)
  <2> SUFFICES ASSUME NEW a \in DOMAIN first, NEW b \in DOMAIN first, raw[first[a]] = raw[first[b]]
               PROVE  a = b
    BY <1>5 DEF IsInjective
  <2>1. first[a] \in Nat /\ first[b] \in Nat /\ first[a] >= 1 /\ first[b] >= 1
    BY <1>1, <1>4
  <2>2. ~(first[a] < first[b])
    BY <1>4, <2>1
  <2>3. ~(first[b] < first[a])
    BY <1>4, <2>1
  <2>4. first[a] = first[b]
    BY <2>1, <2>2, <2>3
  <2>5. QED  BY <1>3, <2>4 DEF IsInjective
<1>7. Range(is) \subseteq Range(raw)
  BY <1>4, <1>5 DEF Range, D
<1>8. ASSUME NEW x \in Range(raw) PROVE x \in Range(is)
  <2> DEFINE Is == { i \in D : raw[i] = x }
  <2>1. Is # {} /\ Is \in SUBSET Nat
    BY <1>1 DEF Range, D
  <2> HIDE DEF Is
  <2>2. PICK i \in Is : \A j \in Is : i <= j
    BY <2>1, Least
  <2>3. i \in D /\ raw[i] = x /\ i \in Nat /\ i >= 1
    BY <1>1 DEF Is
  <2>4. i \in new
    <3>1. ASSUME NEW j \in 1 .. (i - 1), raw[j] = x PROVE FALSE
      <4>1. j \in D /\ j \in Nat /\ j < i
        BY <1>1, <2>3
      <4>2. j \in Is
        BY <3>1, <4>1 DEF Is
      <4>3. QED  BY <2>2, <2>3, <4>1, <4>2
    <3>2. QED  BY <2>3, <3>1
  <2>5. PICK k \in DOMAIN first : first[k] = i
    BY <1>3, <2>3, <2>4 DEF Range
  <2>6. QED  BY <1>5, <2>3, <2>5 DEF Range
<1>9. QED  BY <1>5, <1>6, <1>7, <1>8 DEF is

(* A literal names one variable, with one sense.                           *)
LEMMA Literals ==
  /\ \A l \in Int \ {0} : VarOf(l) \in Nat \ {0} /\ Sense(l) \in {0, 1}
  /\ \A l, m \in Int \ {0} : VarOf(l) = VarOf(m) => l = m \/ l = -m
  /\ \A l, m \in Int \ {0} : VarOf(l) = VarOf(m) /\ Sense(l) = Sense(m) => l = m
  /\ \A l \in Int \ {0} : \/ VarOf(l) = l /\ Sense(l) = 1
                          \/ VarOf(l) = -l /\ Sense(l) = 0
<1>1. \A l \in Int \ {0} : VarOf(l) \in Nat \ {0} /\ Sense(l) \in {0, 1}
  BY DEF VarOf, Sense
<1>2. \A l, m \in Int \ {0} : VarOf(l) = VarOf(m) => l = m \/ l = -m
  BY DEF VarOf
<1>3. \A l, m \in Int \ {0} : VarOf(l) = VarOf(m) /\ Sense(l) = Sense(m) => l = m
  BY DEF VarOf, Sense
<1>4. \A l \in Int \ {0} : \/ VarOf(l) = l /\ Sense(l) = 1
                           \/ VarOf(l) = -l /\ Sense(l) = 0
  BY DEF VarOf, Sense
<1>5. QED  BY <1>1, <1>2, <1>3, <1>4

(* What VarsIn makes of a list of literals.                                *)
LEMMA VarsInIs ==
  ASSUME NEW n \in Nat, NEW lits \in Seq({ l \in -n .. n : l # 0 })
  PROVE  /\ VarsIn(lits) \in Seq(1 .. n) /\ Len(VarsIn(lits)) = Len(lits)
         /\ \A i \in 1 .. Len(lits) : VarsIn(lits)[i] = VarOf(lits[i])
         /\ Range(VarsIn(lits)) = { VarOf(l) : l \in Range(lits) }
<1>1. Len(lits) \in Nat /\ DOMAIN lits = 1 .. Len(lits)
  OBVIOUS
<1>2. \A i \in 1 .. Len(lits) : lits[i] \in -n .. n /\ lits[i] # 0
  OBVIOUS
<1>3. \A i \in 1 .. Len(lits) : VarOf(lits[i]) \in 1 .. n
  BY <1>2 DEF VarOf
<1>4. QED  BY <1>1, <1>3 DEF VarsIn, Range

(* A list of clauses as build_instance leaves it: no clause is empty or    *)
(* names a variable twice.                                                 *)
Lits(n) == { l \in -n .. n : l # 0 }

Clean(n, lit) ==
  /\ lit \in Seq(Seq(Lits(n)))
  /\ \A c \in 1 .. Len(lit) : /\ lit[c] # <<>>
                             /\ IsInjective(lit[c])
                             /\ \A l \in Range(lit[c]) : -l \notin Range(lit[c])

LEMMA ClausesOfIs ==
  ASSUME NEW file \in Files
  PROVE  /\ file.vars \in Nat \ {0}
         /\ Clean(file.vars, ClausesOf(file))
         /\ \A k \in DOMAIN file.clauses :
              \/ Redundant(file.clauses[k])
              \/ \E c \in 1 .. Len(ClausesOf(file)) :
                   Range(ClausesOf(file)[c]) = Range(file.clauses[k])
<1> DEFINE n == file.vars
           R == Seq(Lits(n)) \ {<<>>}
           raws == file.clauses
           fine == { raw \in Range(raws) : ~Redundant(raw) }
           kept == Only(raws, fine)
           lit == ClausesOf(file)
<1>1. n \in Nat \ {0} /\ raws \in Seq(R)
  BY PbInstanceAssumption DEF Lits
<1>2. lit = [c \in DOMAIN kept |-> Deduplicated(kept[c])]
  BY DEF ClausesOf
<1> HIDE DEF n, R, raws, lit
<1>3. kept \in Seq(R) /\ Range(kept) = Range(raws) \cap fine
  <2> HIDE DEF fine
  <2>1. QED  BY <1>1, OnlyIs
<1> HIDE DEF kept
<1>4. /\ Len(kept) \in Nat /\ DOMAIN kept = 1 .. Len(kept)
      /\ \A c \in 1 .. Len(kept) : kept[c] \in R /\ ~Redundant(kept[c])
  BY <1>3 DEF Range
<1>5. ASSUME NEW c \in 1 .. Len(kept)
      PROVE  /\ lit[c] \in Seq(Lits(n)) /\ Range(lit[c]) = Range(kept[c])
             /\ IsInjective(lit[c])
             /\ lit[c] # <<>>
             /\ \A l \in Range(lit[c]) : -l \notin Range(lit[c])
  <2>1. kept[c] \in Seq(Lits(n)) /\ kept[c] # <<>> /\ lit[c] = Deduplicated(kept[c])
    BY <1>2, <1>4 DEF R
  <2>2. /\ lit[c] \in Seq(Lits(n)) /\ Range(lit[c]) = Range(kept[c])
        /\ IsInjective(lit[c])
    BY <2>1, DeduplicatedIs
  <2>3. Range(kept[c]) # {}
    BY <2>1 DEF Range
  <2>4. lit[c] # <<>>
    BY <2>2, <2>3 DEF Range
  <2>5. ASSUME NEW l \in Range(kept[c]), -l \in Range(kept[c]) PROVE FALSE
    <3>1. PICK i \in DOMAIN kept[c] : kept[c][i] = l
      BY DEF Range
    <3>2. PICK j \in DOMAIN kept[c] : kept[c][j] = -l
      BY <2>5 DEF Range
    <3>3. kept[c][j] = -kept[c][i]
      BY <3>1, <3>2
    <3>4. ~Redundant(kept[c])
      BY <1>4
    <3>5. QED  BY <3>3, <3>4 DEF Redundant
  <2>6. QED  BY <2>2, <2>4, <2>5
<1>6. Len(lit) = Len(kept) /\ lit \in Seq(Seq(Lits(n)))
  BY <1>2, <1>4, <1>5
<1>7. Clean(n, lit)
  BY <1>5, <1>6 DEF Clean
<1>8. ASSUME NEW k \in DOMAIN raws, ~Redundant(raws[k])
      PROVE  \E c \in 1 .. Len(lit) : Range(lit[c]) = Range(raws[k])
  <2>1. raws[k] \in Range(kept)
    BY <1>3, <1>8 DEF Range
  <2>2. PICK c \in 1 .. Len(kept) : kept[c] = raws[k]
    BY <1>4, <2>1 DEF Range
  <2>3. QED  BY <1>5, <1>6, <2>2
<1>9. QED  BY <1>1, <1>7, <1>8 DEF n, lit, raws

(* A clean clause names each of its variables once.                        *)
LEMMA CleanVars ==
  ASSUME NEW n \in Nat, NEW lit, Clean(n, lit), NEW c \in 1 .. Len(lit)
  PROVE  /\ lit[c] \in Seq(Lits(n)) /\ Len(lit[c]) \in Nat \ {0}
         /\ Range(lit[c]) \subseteq Int \ {0}
         /\ VarsIn(lit[c]) \in Seq(1 .. n) /\ Len(VarsIn(lit[c])) = Len(lit[c])
         /\ \A i \in 1 .. Len(lit[c]) : VarsIn(lit[c])[i] = VarOf(lit[c][i])
         /\ IsInjective(VarsIn(lit[c]))
         /\ Range(VarsIn(lit[c])) = { VarOf(l) : l \in Range(lit[c]) }
         /\ \A l, m \in Range(lit[c]) : VarOf(l) = VarOf(m) => l = m
<1> DEFINE list == lit[c]
<1>1. /\ list \in Seq(Lits(n)) /\ list # <<>> /\ IsInjective(list)
      /\ \A l \in Range(list) : -l \notin Range(list)
  BY DEF Clean
<1> HIDE DEF list
<1>2. Len(list) \in Nat \ {0} /\ DOMAIN list = 1 .. Len(list)
  BY <1>1
<1>3. \A i \in 1 .. Len(list) : list[i] \in Int \ {0} /\ list[i] \in Range(list)
  BY <1>1, <1>2 DEF Lits, Range
<1>4. /\ VarsIn(list) \in Seq(1 .. n) /\ Len(VarsIn(list)) = Len(list)
      /\ \A i \in 1 .. Len(list) : VarsIn(list)[i] = VarOf(list[i])
      /\ Range(VarsIn(list)) = { VarOf(l) : l \in Range(list) }
  BY <1>1, VarsInIs DEF Lits
<1>5. Range(list) \subseteq Int \ {0}
  BY <1>2, <1>3 DEF Range
<1>6. \A l, m \in Range(list) : VarOf(l) = VarOf(m) => l = m
  <2>1. ASSUME NEW l \in Range(list), NEW m \in Range(list), VarOf(l) = VarOf(m), l # m PROVE FALSE
    <3>1. l \in Int \ {0} /\ m \in Int \ {0}
      BY <1>5
    <3>2. l = -m
      BY <2>1, <3>1, Literals
    <3>3. QED  BY <1>1, <3>2
  <2>2. QED  BY <2>1
<1>7. IsInjective(VarsIn(list))
  <2> SUFFICES ASSUME NEW i \in 1 .. Len(list), NEW j \in 1 .. Len(list), VarsIn(list)[i] = VarsIn(list)[j]
               PROVE  i = j
    BY <1>4 DEF IsInjective
  <2>1. list[i] = list[j]
    BY <1>3, <1>4, <1>6
  <2>2. QED  BY <1>1, <1>2, <2>1 DEF IsInjective
<1>8. QED  BY <1>1, <1>2, <1>4, <1>5, <1>6, <1>7 DEF list

(* The occurrences of a variable: each clause that names it, once.         *)
LEMMA OccurrencesIs ==
  ASSUME NEW n \in Nat, NEW lit, Clean(n, lit), NEW v \in 1 .. n
  PROVE  /\ Occurrences(lit, v) \in Seq([clause : 1 .. Len(lit), sense : {0, 1}])
         /\ \A i, j \in 1 .. Len(Occurrences(lit, v)) :
              Occurrences(lit, v)[i].clause = Occurrences(lit, v)[j].clause => i = j
         /\ \A c \in 1 .. Len(lit) :
              v \in Range(VarsIn(lit[c]))
                <=> \E i \in 1 .. Len(Occurrences(lit, v)) : Occurrences(lit, v)[i].clause = c
         /\ \A i \in 1 .. Len(Occurrences(lit, v)) :
              Occurrences(lit, v)[i].sense
                = IF v \in Range(lit[Occurrences(lit, v)[i].clause]) THEN 1 ELSE 0
<1> DEFINE D == DOMAIN lit
           with == { c \in D : v \in Range(VarsIn(lit[c])) }
           cs == Only([c \in D |-> c], with)
           occ == Occurrences(lit, v)
           S == [clause : 1 .. Len(lit), sense : {0, 1}]
<1>1. Len(lit) \in Nat /\ D = 1 .. Len(lit)
  BY DEF Clean
<1>2. occ = [k \in DOMAIN cs |->
              [clause |-> cs[k], sense |-> IF v \in Range(lit[cs[k]]) THEN 1 ELSE 0]]
  BY DEF Occurrences
<1>3. cs \in Seq(D) /\ Range(cs) = D \cap with /\ IsInjective(cs)
  <2> HIDE DEF D, with
  <2>1. /\ [i \in D |-> i] \in Seq(D) /\ Range([i \in D |-> i]) = D
        /\ IsInjective([i \in D |-> i])
    BY <1>1, NumbersOf
  <2>2. QED  BY <2>1, OnlyIs
<1> HIDE DEF occ, cs
<1>4. /\ Len(cs) \in Nat /\ DOMAIN cs = 1 .. Len(cs)
      /\ \A k \in 1 .. Len(cs) : cs[k] \in 1 .. Len(lit)
  BY <1>1, <1>3
<1>5. \A k \in 1 .. Len(cs) :
        /\ occ[k] = [clause |-> cs[k], sense |-> IF v \in Range(lit[cs[k]]) THEN 1 ELSE 0]
        /\ occ[k].clause = cs[k]
        /\ occ[k].sense = IF v \in Range(lit[cs[k]]) THEN 1 ELSE 0
        /\ occ[k] \in S
  BY <1>2, <1>4
<1>6. occ \in Seq(S) /\ Len(occ) = Len(cs)
  <2> HIDE DEF S
  <2>1. occ = [k \in 1 .. Len(cs) |-> occ[k]]
    BY <1>2, <1>4
  <2>2. QED  BY <1>4, <1>5, <2>1
<1>7. \A i, j \in 1 .. Len(cs) : cs[i] = cs[j] => i = j
  BY <1>3, <1>4 DEF IsInjective
<1>8. ASSUME NEW c \in 1 .. Len(lit)
      PROVE  v \in Range(VarsIn(lit[c])) <=> \E i \in 1 .. Len(cs) : cs[i] = c
  <2>1. c \in Range(cs) <=> v \in Range(VarsIn(lit[c]))
    BY <1>1, <1>3
  <2>2. QED  BY <1>4, <2>1 DEF Range
<1> HIDE DEF S
<1>9. /\ \A i, j \in 1 .. Len(occ) : occ[i].clause = occ[j].clause => i = j
      /\ \A c \in 1 .. Len(lit) :
           v \in Range(VarsIn(lit[c])) <=> \E i \in 1 .. Len(occ) : occ[i].clause = c
      /\ \A i \in 1 .. Len(occ) : occ[i].sense = IF v \in Range(lit[occ[i].clause]) THEN 1 ELSE 0
  <2>1. \A i \in 1 .. Len(cs) : occ[i].clause = cs[i]
    BY <1>5
  <2>2. \A i, j \in 1 .. Len(occ) : occ[i].clause = occ[j].clause => i = j
    BY <1>6, <1>7, <2>1
  <2>3. \A c \in 1 .. Len(lit) :
           v \in Range(VarsIn(lit[c])) <=> \E i \in 1 .. Len(occ) : occ[i].clause = c
    BY <1>6, <1>8, <2>1
  <2>4. \A i \in 1 .. Len(occ) : occ[i].sense = IF v \in Range(lit[occ[i].clause]) THEN 1 ELSE 0
    BY <1>5, <1>6
  <2>5. QED  BY <2>2, <2>3, <2>4
<1>10. QED  BY <1>6, <1>9 DEF occ, S

(* The neighbours of a variable: those it shares a clause with, once.      *)
LEMMA NeighboursIs ==
  ASSUME NEW n \in Nat, NEW lit, Clean(n, lit), NEW v \in 1 .. n
  PROVE  /\ Neighbours(lit, v) \in Seq(1 .. n)
         /\ IsInjective(Neighbours(lit, v))
         /\ Range(Neighbours(lit, v)) =
              { w \in 1 .. n : /\ w # v
                              /\ \E c \in 1 .. Len(lit) : /\ v \in Range(VarsIn(lit[c]))
                                                         /\ w \in Range(VarsIn(lit[c])) }
<1> DEFINE occ == Occurrences(lit, v)
           m == Len(occ)
           S == Seq(1 .. n)
           Of(o) == VarsIn(lit[o.clause])
           Part(k, x) == Range(x) = UNION { Range(Of(occ[i])) : i \in 1 .. k }
           X == [k \in 0 .. m |-> { x \in S : Part(k, x) }]
           turn == [k \in 1 .. m |-> [x \in X[k - 1] |-> x \o Of(occ[k])]]
           empty == <<>>
           Is(g) == g = [k \in 0 .. m |-> IF k = 0 THEN empty ELSE g[k - 1] \o Of(occ[k])]
           run == CHOOSE g : Is(g)
           met == Loop(LAMBDA before, o : before \o VarsIn(lit[o.clause]), <<>>, occ)
<1>1. /\ m \in Nat
      /\ \A k \in 1 .. m : occ[k].clause \in 1 .. Len(lit)
      /\ \A c \in 1 .. Len(lit) :
              v \in Range(VarsIn(lit[c])) <=> \E i \in 1 .. m : occ[i].clause = c
  <2> DEFINE O == [clause : 1 .. Len(lit), sense : {0, 1}]
  <2>1. /\ Occurrences(lit, v) \in Seq([clause : 1 .. Len(lit), sense : {0, 1}])
        /\ \A i, j \in 1 .. Len(Occurrences(lit, v)) :
              Occurrences(lit, v)[i].clause = Occurrences(lit, v)[j].clause => i = j
        /\ \A c \in 1 .. Len(lit) :
              v \in Range(VarsIn(lit[c]))
                <=> \E i \in 1 .. Len(Occurrences(lit, v)) : Occurrences(lit, v)[i].clause = c
        /\ \A i \in 1 .. Len(Occurrences(lit, v)) :
              Occurrences(lit, v)[i].sense
                = IF v \in Range(lit[Occurrences(lit, v)[i].clause]) THEN 1 ELSE 0
    BY OccurrencesIs
  <2> HIDE DEF occ
  <2>2. occ \in Seq(O)
    BY <2>1 DEF occ
  <2>3. \A o \in O : o.clause \in 1 .. Len(lit)
    OBVIOUS
  <2> HIDE DEF O
  <2>4. m \in Nat /\ \A k \in 1 .. m : occ[k] \in O
    BY <2>2
  <2>5. QED  BY <2>1, <2>3, <2>4 DEF occ
<1>2. met = run[m]
  BY DEF Loop
<1>3. Neighbours(lit, v) = Only(Deduplicated(met), Range(met) \ {v})
  BY DEF Neighbours
<1> HIDE DEF occ, met, m
<1>4. \A k \in 1 .. m : Of(occ[k]) \in S
  BY <1>1, CleanVars
<1> HIDE DEF Of, S, Part
<1>5. \A k \in 0 .. m : \A x : x \in X[k] <=> x \in S /\ Part(k, x)
  OBVIOUS
<1> HIDE DEF X
<1>6. empty \in X[0]
  <2>1. empty \in S
    BY DEF S
  <2>2. Part(0, empty)
    BY DEF Part, Range
  <2>3. 0 \in 0 .. m
    BY <1>1
  <2> HIDE DEF empty
  <2>4. QED  BY <1>5, <2>1, <2>2, <2>3
<1> HIDE DEF empty
<1>7. ASSUME NEW k \in 1 .. m, NEW x \in X[k - 1] PROVE x \o Of(occ[k]) \in X[k]
  <2>1. k - 1 \in 0 .. m /\ k \in 0 .. m
    BY <1>1
  <2>2. x \in S /\ Part(k - 1, x)
    BY <1>5, <2>1
  <2>3. x \o Of(occ[k]) \in S /\ Range(x \o Of(occ[k])) = Range(x) \cup Range(Of(occ[k]))
    BY <1>4, <2>2, ListConcat DEF S
  <2>4. 1 .. k = (1 .. (k - 1)) \cup {k}
    BY <1>1
  <2>5. Part(k, x \o Of(occ[k]))
    BY <2>2, <2>3, <2>4 DEF Part
  <2>6. QED  BY <1>5, <2>1, <2>3, <2>5
<1>8. \A k \in 1 .. m : \A x \in X[k - 1] : turn[k][x] \in X[k] /\ turn[k][x] = x \o Of(occ[k])
  BY <1>7
<1> HIDE DEF turn, Is
<1>9. PICK g : Turns(g, m, empty, turn) /\ \A k \in 0 .. m : g[k] \in X[k]
  <2>1. \A k \in 1 .. m : \A x \in X[k - 1] : turn[k][x] \in X[k]
    BY <1>8
  <2>2. m \in Nat
    BY <1>1
  <2>3. QED  BY <1>6, <2>1, <2>2, Stepwise
<1>10. Is(g)
  <2>1. \A k \in 1 .. m : k - 1 \in 0 .. m /\ k \in 0 .. m /\ k # 0
    BY <1>1
  <2>2. \A k \in 1 .. m : g[k] = g[k - 1] \o Of(occ[k])
    BY <1>8, <1>9, <2>1 DEF Turns
  <2>3. DOMAIN g = 0 .. m /\ g = [k \in DOMAIN g |-> g[k]]
    BY <1>9 DEF Turns
  <2>4. g[0] = empty /\ \A k \in 0 .. m : k # 0 => k \in 1 .. m
    BY <1>1, <1>9 DEF Turns
  <2>5. QED  BY <2>2, <2>3, <2>4 DEF Is
<1>11. Is(run)
  BY <1>10
<1> HIDE DEF run
<1>12. run[m] \in X[m]
  <2>1. run[0] \in X[0]
    BY <1>1, <1>6, <1>11 DEF Is
  <2>2. ASSUME NEW k \in 1 .. m, run[k - 1] \in X[k - 1] PROVE run[k] \in X[k]
    <3>1. k \in 0 .. m /\ k # 0
      BY <1>1
    <3>2. run[k] = run[k - 1] \o Of(occ[k])
      BY <1>11, <3>1 DEF Is
    <3>3. QED  BY <1>8, <2>2, <3>2
  <2>3. QED  BY <1>1, <2>1, <2>2, RunStays
<1>13. met \in Seq(1 .. n) /\ Range(met) = UNION { Range(Of(occ[i])) : i \in 1 .. m }
  <2>1. m \in 0 .. m
    BY <1>1
  <2>2. run[m] \in S /\ Part(m, run[m])
    BY <1>5, <1>12, <2>1
  <2>3. QED  BY <1>2, <2>2 DEF S, Part
<1>14. \A w : w \in Range(met) <=> \E c \in 1 .. Len(lit) : /\ v \in Range(VarsIn(lit[c]))
                                                          /\ w \in Range(VarsIn(lit[c]))
  <2>1. \A w : w \in Range(met) <=> \E i \in 1 .. m : w \in Range(VarsIn(lit[occ[i].clause]))
    BY <1>13 DEF Of
  <2>2. QED  BY <1>1, <2>1
<1> HIDE DEF S
<1>15. /\ Deduplicated(met) \in Seq(1 .. n) /\ Range(Deduplicated(met)) = Range(met)
       /\ IsInjective(Deduplicated(met))
  BY <1>13, DeduplicatedIs
<1> DEFINE ds == Deduplicated(met)
           others == Range(met) \ {v}
<1>16. /\ Only(ds, others) \in Seq(1 .. n) /\ Range(Only(ds, others)) = Range(ds) \cap others
       /\ IsInjective(Only(ds, others))
  <2> HIDE DEF others, ds
  <2>1. ds \in Seq(1 .. n) /\ IsInjective(ds)
    BY <1>15 DEF ds
  <2>2. QED  BY <2>1, OnlyIs
<1>17. Range(met) \subseteq 1 .. n
  BY <1>13 DEF Range
<1>18. Range(Only(ds, others)) =
              { w \in 1 .. n : /\ w # v
                              /\ \E c \in 1 .. Len(lit) : /\ v \in Range(VarsIn(lit[c]))
                                                         /\ w \in Range(VarsIn(lit[c])) }
  <2>1. Range(Only(ds, others)) = Range(met) \ {v}
    BY <1>15, <1>16
  <2>2. QED  BY <1>14, <1>17, <2>1
<1>19. QED  BY <1>3, <1>16, <1>18

-----------------------------------------------------------------------------
(* The formula that is searched, as build_instance leaves it, in terms of  *)
(* the model's own names for its tables.                                   *)
SenseIn(c, v) == IF v \in Range(ClauseLit[c]) THEN 1 ELSE 0

ClausesExact ==
  /\ NumVars \in Nat \ {0} /\ NumClauses \in Nat
  /\ \A c \in Clauses :
       /\ ClauseLit[c] \in Seq(Lits(NumVars)) /\ Len(ClauseLit[c]) \in Nat \ {0}
       /\ IsInjective(ClauseLit[c])
       /\ VarsOfClause(c) \in Seq(Vars) /\ Len(VarsOfClause(c)) = Len(ClauseLit[c])
       /\ IsInjective(VarsOfClause(c))
       /\ ClauseVars[c] = Range(VarsOfClause(c))
       /\ ClauseVars[c] = { VarOf(l) : l \in Range(ClauseLit[c]) }
       /\ \A l, m \in Range(ClauseLit[c]) : VarOf(l) = VarOf(m) => l = m

VarsExact ==
  \A v \in Vars :
    /\ VarLit[v] \in Seq([clause : Clauses, sense : {0, 1}])
    /\ \A i, j \in 1 .. Len(VarLit[v]) : VarLit[v][i].clause = VarLit[v][j].clause => i = j
    /\ \A c \in Clauses : v \in ClauseVars[c] <=> \E i \in 1 .. Len(VarLit[v]) : VarLit[v][i].clause = c
    /\ \A i \in 1 .. Len(VarLit[v]) : VarLit[v][i].sense = SenseIn(VarLit[v][i].clause, v)
    /\ VarNeighbor[v] \in Seq(Vars)
    /\ IsInjective(VarNeighbor[v])
    /\ \A w : w \in Range(VarNeighbor[v])
               <=> /\ w \in Vars /\ w # v
                   /\ \E c \in Clauses : v \in ClauseVars[c] /\ w \in ClauseVars[c]

FileKept ==
  /\ inst.file \in Files
  /\ \A k \in DOMAIN inst.file.clauses :
       \/ Redundant(inst.file.clauses[k])
       \/ \E c \in Clauses : Range(ClauseLit[c]) = Range(inst.file.clauses[k])

InstanceExact == ClausesExact /\ VarsExact /\ FileKept

(* What build_instance makes is so.                                        *)
LEMMA BuiltExact ==
  ASSUME NEW file \in Files, inst = Built(file)
  PROVE  InstanceExact
<1> DEFINE n == file.vars
           lit == ClausesOf(file)
<1>1. /\ inst.file = file /\ inst.clauseLit = lit
      /\ inst.clauseVars = [c \in DOMAIN lit |-> Range(VarsIn(lit[c]))]
      /\ inst.varLit = [v \in 1 .. n |-> Occurrences(lit, v)]
      /\ inst.varNeighbor = [v \in 1 .. n |-> Neighbours(lit, v)]
  BY DEF Built
<1>2. n \in Nat \ {0} /\ Clean(n, lit)
  BY ClausesOfIs
<1>3. \A k \in DOMAIN file.clauses :
        Redundant(file.clauses[k]) \/ \E c \in 1 .. Len(lit) : Range(lit[c]) = Range(file.clauses[k])
  BY ClausesOfIs
<1> HIDE DEF lit
<1>4. lit \in Seq(Seq(Lits(n))) /\ Len(lit) \in Nat /\ DOMAIN lit = 1 .. Len(lit)
  BY <1>2 DEF Clean
<1>5. NumVars = n /\ Vars = 1 .. n /\ NumClauses = Len(lit) /\ Clauses = 1 .. Len(lit) /\ ClauseLit = lit
  BY <1>1 DEF NumVars, Vars, NumClauses, Clauses, ClauseLit
<1>6. \A c \in 1 .. Len(lit) :
        VarsOfClause(c) = VarsIn(lit[c]) /\ ClauseVars[c] = Range(VarsIn(lit[c]))
  BY <1>1, <1>4, <1>5 DEF VarsOfClause, ClauseVars
<1>7. \A v \in 1 .. n : VarLit[v] = Occurrences(lit, v) /\ VarNeighbor[v] = Neighbours(lit, v)
  BY <1>1 DEF VarLit, VarNeighbor
<1> HIDE DEF n
<1>8. ClausesExact
  <2> SUFFICES ASSUME NEW c \in 1 .. Len(lit)
               PROVE  /\ lit[c] \in Seq(Lits(n)) /\ Len(lit[c]) \in Nat \ {0}
                      /\ IsInjective(lit[c])
                      /\ VarsIn(lit[c]) \in Seq(1 .. n) /\ Len(VarsIn(lit[c])) = Len(lit[c])
                      /\ IsInjective(VarsIn(lit[c]))
                      /\ Range(VarsIn(lit[c])) = { VarOf(l) : l \in Range(lit[c]) }
                      /\ \A l, m \in Range(lit[c]) : VarOf(l) = VarOf(m) => l = m
    BY <1>2, <1>4, <1>5, <1>6 DEF ClausesExact
  <2>1. IsInjective(lit[c])
    BY <1>2 DEF Clean
  <2>2. n \in Nat
    BY <1>2
  <2>3. QED  BY <1>2, <2>1, <2>2, CleanVars
<1>9. VarsExact
  <2> SUFFICES ASSUME NEW v \in 1 .. n
               PROVE  /\ VarLit[v] \in Seq([clause : Clauses, sense : {0, 1}])
                      /\ \A i, j \in 1 .. Len(VarLit[v]) :
                            VarLit[v][i].clause = VarLit[v][j].clause => i = j
                      /\ \A c \in Clauses : v \in ClauseVars[c]
                            <=> \E i \in 1 .. Len(VarLit[v]) : VarLit[v][i].clause = c
                      /\ \A i \in 1 .. Len(VarLit[v]) :
                            VarLit[v][i].sense = SenseIn(VarLit[v][i].clause, v)
                      /\ VarNeighbor[v] \in Seq(Vars)
                      /\ IsInjective(VarNeighbor[v])
                      /\ \A w : w \in Range(VarNeighbor[v])
                           <=> /\ w \in Vars /\ w # v
                               /\ \E c \in Clauses : v \in ClauseVars[c] /\ w \in ClauseVars[c]
    BY <1>5 DEF VarsExact
  <2>1. n \in Nat
    BY <1>2
  <2>2. /\ Occurrences(lit, v) \in Seq([clause : 1 .. Len(lit), sense : {0, 1}])
        /\ \A i, j \in 1 .. Len(Occurrences(lit, v)) :
              Occurrences(lit, v)[i].clause = Occurrences(lit, v)[j].clause => i = j
        /\ \A c \in 1 .. Len(lit) :
              v \in Range(VarsIn(lit[c]))
                <=> \E i \in 1 .. Len(Occurrences(lit, v)) : Occurrences(lit, v)[i].clause = c
        /\ \A i \in 1 .. Len(Occurrences(lit, v)) :
              Occurrences(lit, v)[i].sense
                = IF v \in Range(lit[Occurrences(lit, v)[i].clause]) THEN 1 ELSE 0
    BY <1>2, <2>1, OccurrencesIs
  <2>3. /\ Neighbours(lit, v) \in Seq(1 .. n)
        /\ IsInjective(Neighbours(lit, v))
        /\ Range(Neighbours(lit, v)) =
              { w \in 1 .. n : /\ w # v
                              /\ \E c \in 1 .. Len(lit) : /\ v \in Range(VarsIn(lit[c]))
                                                         /\ w \in Range(VarsIn(lit[c])) }
    BY <1>2, <2>1, NeighboursIs
  <2>4. /\ VarLit[v] \in Seq([clause : Clauses, sense : {0, 1}])
        /\ \A i, j \in 1 .. Len(VarLit[v]) : VarLit[v][i].clause = VarLit[v][j].clause => i = j
    BY <1>5, <1>7, <2>2
  <2>5. \A c \in Clauses : v \in ClauseVars[c]
                            <=> \E i \in 1 .. Len(VarLit[v]) : VarLit[v][i].clause = c
    BY <1>5, <1>6, <1>7, <2>2
  <2>6. \A i \in 1 .. Len(VarLit[v]) : VarLit[v][i].sense = SenseIn(VarLit[v][i].clause, v)
    BY <1>5, <1>7, <2>2 DEF SenseIn
  <2>7. /\ VarNeighbor[v] \in Seq(Vars)
        /\ IsInjective(VarNeighbor[v])
        /\ \A w : w \in Range(VarNeighbor[v])
             <=> /\ w \in Vars /\ w # v
                 /\ \E c \in Clauses : v \in ClauseVars[c] /\ w \in ClauseVars[c]
    BY <1>5, <1>6, <1>7, <2>3
  <2>8. QED  BY <2>4, <2>5, <2>6, <2>7
<1>10. FileKept
  BY <1>1, <1>3, <1>5 DEF FileKept
<1>11. QED  BY <1>8, <1>9, <1>10 DEF InstanceExact

-----------------------------------------------------------------------------
(* The counters.  Stacks of a set, and the counters that flip and init     *)
(* keep, as values.                                                        *)
StackOf(S) == [stack : Seq(S), index : [S -> Nat]]

CountsType ==
  [ satCount : [Clauses -> Int], satVar : [Clauses -> 0 .. NumVars],
    unsat : StackOf(Clauses), totalUnsat : Int,
    app : [Vars -> Int], unsatVar : StackOf(Vars) ]

(* The variables are named by n[v] unsatisfied clauses each.               *)
Named(r, n) ==
  /\ r.app = n
  /\ StackOver(Vars, r.unsatVar)
  /\ OnStack(r.unsatVar) = { v \in Vars : n[v] > 0 }

(* The unsatisfied clauses are U, of weights w.                            *)
Apps(U) == [v \in Vars |-> Cardinality({ c \in U : v \in ClauseVars[c] })]

Stacks(r, U, w) ==
  /\ StackOver(Clauses, r.unsat)
  /\ OnStack(r.unsat) = U
  /\ r.totalUnsat = SumFunctionOnSet(w, U)
  /\ Named(r, Apps(U))

LEMMA StackTyped ==
  ASSUME NEW S, NEW list, StackOver(S, list)
  PROVE  list \in StackOf(S)
BY DEF StackOver, StackOf

(* One variable more, or less, of one unsatisfied clause.                  *)
LEMMA NameUnsatIs ==
  ASSUME NEW r \in CountsType, NEW n \in [Vars -> Nat], Named(r, n), NEW v \in Vars
  PROVE  /\ NameUnsat(r, v) \in CountsType
         /\ Named(NameUnsat(r, v), [n EXCEPT ![v] = @ + 1])
         /\ NameUnsat(r, v).satCount = r.satCount /\ NameUnsat(r, v).satVar = r.satVar
         /\ NameUnsat(r, v).unsat = r.unsat /\ NameUnsat(r, v).totalUnsat = r.totalUnsat
<1> DEFINE x == NameUnsat(r, v)
           st == IF r.app[v] = 0 THEN Pushed(r.unsatVar, v) ELSE r.unsatVar
           m == [n EXCEPT ![v] = @ + 1]
<1>1. x = [r EXCEPT !.app = [r.app EXCEPT ![v] = r.app[v] + 1], !.unsatVar = st]
  BY DEF NameUnsat, CountsType
<1>2. r.app = n /\ StackOver(Vars, r.unsatVar) /\ OnStack(r.unsatVar) = { u \in Vars : n[u] > 0 }
  BY DEF Named
<1>3. StackOver(Vars, st) /\ OnStack(st) = OnStack(r.unsatVar) \cup {v}
  <2>1. CASE n[v] = 0
    <3>1. v \notin OnStack(r.unsatVar) /\ st = Pushed(r.unsatVar, v)
      BY <1>2, <2>1
    <3>2. QED  BY <1>2, <3>1, PushedExact
  <2>2. CASE n[v] # 0
    <3>1. v \in OnStack(r.unsatVar) /\ st = r.unsatVar
      BY <1>2, <2>2
    <3>2. QED  BY <1>2, <3>1
  <2>3. QED  BY <2>1, <2>2
<1> HIDE DEF st, x
<1>4. st \in StackOf(Vars)
  BY <1>3, StackTyped
<1>5. /\ x \in CountsType /\ x.app = m /\ x.unsatVar = st
      /\ x.satCount = r.satCount /\ x.satVar = r.satVar
      /\ x.unsat = r.unsat /\ x.totalUnsat = r.totalUnsat
  <2>1. /\ x.app = [r.app EXCEPT ![v] = r.app[v] + 1] /\ x.unsatVar = st
        /\ x.satCount = r.satCount /\ x.satVar = r.satVar
        /\ x.unsat = r.unsat /\ x.totalUnsat = r.totalUnsat
    BY <1>1 DEF CountsType
  <2>2. x.app = m /\ m \in [Vars -> Int]
    BY <1>2, <2>1
  <2> HIDE DEF m
  <2>3. x \in CountsType
    BY <1>1, <1>4, <2>1, <2>2 DEF CountsType
  <2>4. QED  BY <2>1, <2>2, <2>3
<1>6. { u \in Vars : m[u] > 0 } = { u \in Vars : n[u] > 0 } \cup {v}
  OBVIOUS
<1> HIDE DEF m
<1>7. Named(x, m)
  BY <1>2, <1>3, <1>5, <1>6 DEF Named
<1>8. QED  BY <1>5, <1>7 DEF x, m

LEMMA NameSatIs ==
  ASSUME NEW r \in CountsType, NEW n \in [Vars -> Nat], Named(r, n), NEW v \in Vars, n[v] # 0
  PROVE  /\ NameSat(r, v) \in CountsType
         /\ Named(NameSat(r, v), [n EXCEPT ![v] = @ - 1])
         /\ NameSat(r, v).satCount = r.satCount /\ NameSat(r, v).satVar = r.satVar
         /\ NameSat(r, v).unsat = r.unsat /\ NameSat(r, v).totalUnsat = r.totalUnsat
<1> DEFINE x == NameSat(r, v)
           st == IF r.app[v] = 1 THEN Taken(r.unsatVar, v) ELSE r.unsatVar
           m == [n EXCEPT ![v] = @ - 1]
<1>1. x = [r EXCEPT !.app = [r.app EXCEPT ![v] = r.app[v] - 1], !.unsatVar = st]
  BY DEF NameSat, CountsType
<1>2. r.app = n /\ StackOver(Vars, r.unsatVar) /\ OnStack(r.unsatVar) = { u \in Vars : n[u] > 0 }
  BY DEF Named
<1>3. StackOver(Vars, st) /\ OnStack(st) = IF n[v] = 1 THEN OnStack(r.unsatVar) \ {v} ELSE OnStack(r.unsatVar)
  <2>1. CASE n[v] = 1
    <3>1. v \in OnStack(r.unsatVar) /\ st = Taken(r.unsatVar, v)
      BY <1>2, <2>1
    <3>2. QED  BY <1>2, <2>1, <3>1, TakenExact
  <2>2. CASE n[v] # 1
    BY <1>2, <2>2
  <2>3. QED  BY <2>1, <2>2
<1> HIDE DEF st, x
<1>4. st \in StackOf(Vars)
  BY <1>3, StackTyped
<1>5. /\ x \in CountsType /\ x.app = m /\ x.unsatVar = st
      /\ x.satCount = r.satCount /\ x.satVar = r.satVar
      /\ x.unsat = r.unsat /\ x.totalUnsat = r.totalUnsat
  <2>1. /\ x.app = [r.app EXCEPT ![v] = r.app[v] - 1] /\ x.unsatVar = st
        /\ x.satCount = r.satCount /\ x.satVar = r.satVar
        /\ x.unsat = r.unsat /\ x.totalUnsat = r.totalUnsat
    BY <1>1 DEF CountsType
  <2>2. x.app = m /\ m \in [Vars -> Int]
    BY <1>2, <2>1
  <2> HIDE DEF m
  <2>3. x \in CountsType
    BY <1>1, <1>4, <2>1, <2>2 DEF CountsType
  <2>4. QED  BY <2>1, <2>2, <2>3
<1>6. { u \in Vars : m[u] > 0 } = IF n[v] = 1 THEN { u \in Vars : n[u] > 0 } \ {v}
                                ELSE { u \in Vars : n[u] > 0 }
  OBVIOUS
<1> HIDE DEF m
<1>7. Named(x, m)
  BY <1>2, <1>3, <1>5, <1>6 DEF Named
<1>8. QED  BY <1>5, <1>7 DEF x, m

(* unsat and sat: the clause and its variables, each once.                 *)
LEMMA UnsatLoop ==
  ASSUME ClausesExact, NEW r \in CountsType, NEW n \in [Vars -> Nat], Named(r, n),
         NEW c \in Clauses, NEW weight \in Int, StackOver(Clauses, r.unsat), c \notin OnStack(r.unsat)
  PROVE  /\ Unsat(r, c, weight) \in CountsType
         /\ Named(Unsat(r, c, weight),
                  [v \in Vars |-> IF v \in ClauseVars[c] THEN n[v] + 1 ELSE n[v]])
         /\ Unsat(r, c, weight).satCount = r.satCount
         /\ Unsat(r, c, weight).satVar = r.satVar
         /\ Unsat(r, c, weight).unsat = Pushed(r.unsat, c)
         /\ Unsat(r, c, weight).totalUnsat = r.totalUnsat + weight
<1> DEFINE seq == VarsOfClause(c)
           m == Len(seq)
           first == [r EXCEPT !.unsat = Pushed(@, c), !.totalUnsat = @ + weight]
           after == [k \in 0 .. m |-> [v \in Vars |->
                       IF v \in { seq[i] : i \in 1 .. k } THEN n[v] + 1 ELSE n[v]]]
           Same(x) == /\ x.satCount = r.satCount /\ x.satVar = r.satVar
                      /\ x.unsat = Pushed(r.unsat, c)
                      /\ x.totalUnsat = r.totalUnsat + weight
           X == [k \in 0 .. m |-> { x \in CountsType : Same(x) /\ Named(x, after[k]) }]
           turn == [k \in 1 .. m |-> [x \in X[k - 1] |-> NameUnsat(x, seq[k])]]
           Is(g) == g = [k \in 0 .. m |-> IF k = 0 THEN first ELSE NameUnsat(g[k - 1], seq[k])]
           run == CHOOSE g : Is(g)
<1>1. /\ m \in Nat /\ \A k \in 1 .. m : seq[k] \in Vars
      /\ \A i, j \in 1 .. m : seq[i] = seq[j] => i = j
      /\ ClauseVars[c] = { seq[i] : i \in 1 .. m }
  <2>1. seq \in Seq(Vars) /\ IsInjective(seq) /\ ClauseVars[c] = Range(seq)
    BY DEF ClausesExact
  <2> HIDE DEF seq
  <2>2. DOMAIN seq = 1 .. m /\ m \in Nat
    BY <2>1
  <2>3. \A k \in 1 .. m : seq[k] \in Vars
    BY <2>1, <2>2
  <2>4. \A i, j \in 1 .. m : seq[i] = seq[j] => i = j
    BY <2>1, <2>2 DEF IsInjective
  <2>5. ClauseVars[c] = { seq[i] : i \in 1 .. m }
    BY <2>1, <2>2 DEF Range
  <2>6. QED  BY <2>2, <2>3, <2>4, <2>5
<1>2. Unsat(r, c, weight) = run[m]
  BY DEF Unsat, Loop
<1> HIDE DEF seq, m
<1>3. first \in CountsType /\ Same(first) /\ Named(first, n)
  <2> DEFINE st == Pushed(r.unsat, c)
             tot == r.totalUnsat + weight
  <2>1. st \in StackOf(Clauses)
    BY PushedExact, StackTyped
  <2>2. tot \in Int
    BY DEF CountsType
  <2>3. first = [r EXCEPT !.unsat = st, !.totalUnsat = tot]
    BY DEF CountsType
  <2> HIDE DEF st, tot, first
  <2>4. /\ first.satCount = r.satCount /\ first.satVar = r.satVar
        /\ first.unsat = st /\ first.totalUnsat = tot
        /\ first.app = r.app /\ first.unsatVar = r.unsatVar
    BY <2>3 DEF CountsType
  <2>5. first \in CountsType
    BY <2>1, <2>2, <2>3 DEF CountsType
  <2>6. QED  BY <2>4, <2>5 DEF Named, st, tot
<1> HIDE DEF first
<1>4. \A k \in 0 .. m : after[k] \in [Vars -> Int] /\ \A v \in Vars :
         after[k][v] = IF v \in { seq[i] : i \in 1 .. k } THEN n[v] + 1 ELSE n[v]
  OBVIOUS
<1> HIDE DEF after, Same
<1>5. \A k \in 0 .. m : \A x : x \in X[k] <=> x \in CountsType /\ Same(x) /\ Named(x, after[k])
  OBVIOUS
<1> HIDE DEF X
<1>6. first \in X[0]
  <2>1. 0 \in 0 .. m
    BY <1>1
  <2>2. after[0] = n
    <3>1. after[0] = [v \in Vars |-> n[v]]
      BY <2>1 DEF after
    <3>2. QED  BY <3>1
  <2>3. QED  BY <1>3, <1>5, <2>1, <2>2
<1>7. ASSUME NEW k \in 1 .. m, NEW x \in X[k - 1] PROVE NameUnsat(x, seq[k]) \in X[k]
  <2> DEFINE v == seq[k]
             b == after[k - 1]
  <2>1. k - 1 \in 0 .. m /\ k \in 0 .. m /\ k \in 1 .. m
    BY <1>1
  <2>2. x \in CountsType /\ Same(x) /\ Named(x, b)
    BY <1>5, <2>1
  <2>3. v \in Vars
    BY <1>1
  <2>4. v \notin { seq[i] : i \in 1 .. (k - 1) }
    <3>1. \A i \in 1 .. (k - 1) : i \in 1 .. m /\ i # k
      BY <1>1
    <3>2. QED  BY <1>1, <3>1
  <2>5. { seq[i] : i \in 1 .. k } = { seq[i] : i \in 1 .. (k - 1) } \cup {v}
    <3>1. 1 .. k = (1 .. (k - 1)) \cup {k}
      BY <1>1
    <3>2. QED  BY <3>1
  <2> HIDE DEF v, b
  <2>6. b \in [Vars -> Nat] /\ after[k] = [b EXCEPT ![v] = @ + 1] /\ b[v] = n[v]
    <3> DEFINE In == { seq[i] : i \in 1 .. (k - 1) }
               Now == { seq[i] : i \in 1 .. k }
    <3>1. /\ b \in [Vars -> Int] /\ \A u \in Vars : b[u] = IF u \in In THEN n[u] + 1 ELSE n[u]
          /\ after[k] \in [Vars -> Int]
          /\ \A u \in Vars : after[k][u] = IF u \in Now THEN n[u] + 1 ELSE n[u]
      BY <1>4, <2>1 DEF b
    <3>2. v \notin In /\ Now = In \cup {v}
      BY <2>4, <2>5
    <3> HIDE DEF In, Now
    <3>3. b \in [Vars -> Nat]
      BY <3>1
    <3>4. \A u \in Vars : after[k][u] = [b EXCEPT ![v] = @ + 1][u]
      BY <2>3, <3>1, <3>2
    <3>5. [b EXCEPT ![v] = @ + 1] \in [Vars -> Int]
      BY <2>3, <3>1
    <3> DEFINE e == after[k]
               d == [b EXCEPT ![v] = @ + 1]
    <3>6. e = d
      <4>1. e \in [Vars -> Int] /\ d \in [Vars -> Int] /\ \A u \in Vars : e[u] = d[u]
        BY <3>1, <3>4, <3>5
      <4> HIDE DEF e, d
      <4>2. QED  BY <4>1, SameFunction
    <3>7. b[v] = n[v]
      BY <2>3, <3>1, <3>2
    <3>8. QED  BY <3>3, <3>6, <3>7
  <2>7. NameUnsat(x, v) \in CountsType /\ Named(NameUnsat(x, v), after[k])
        /\ Same(NameUnsat(x, v))
    <3> DEFINE y == NameUnsat(x, v)
    <3>1. /\ y \in CountsType
          /\ Named(y, [b EXCEPT ![v] = @ + 1])
          /\ y.satCount = x.satCount /\ y.satVar = x.satVar
          /\ y.unsat = x.unsat /\ y.totalUnsat = x.totalUnsat
      BY <2>2, <2>3, <2>6, NameUnsatIs
    <3> HIDE DEF y
    <3>2. QED  BY <2>2, <2>6, <3>1 DEF Same, y
  <2>8. QED  BY <1>5, <2>1, <2>7 DEF v
<1>8. \A k \in 1 .. m : \A x \in X[k - 1] : turn[k][x] \in X[k] /\ turn[k][x] = NameUnsat(x, seq[k])
  BY <1>7
<1> HIDE DEF turn, Is
<1>9. PICK g : Turns(g, m, first, turn) /\ \A k \in 0 .. m : g[k] \in X[k]
  <2>1. \A k \in 1 .. m : \A x \in X[k - 1] : turn[k][x] \in X[k]
    BY <1>8
  <2>2. m \in Nat
    BY <1>1
  <2>3. QED  BY <1>6, <2>1, <2>2, Stepwise
<1>10. Is(g)
  <2>1. \A k \in 1 .. m : k - 1 \in 0 .. m /\ k \in 0 .. m /\ k # 0
    BY <1>1
  <2>2. \A k \in 1 .. m : g[k] = NameUnsat(g[k - 1], seq[k])
    BY <1>8, <1>9, <2>1 DEF Turns
  <2>3. DOMAIN g = 0 .. m /\ g = [k \in DOMAIN g |-> g[k]]
    BY <1>9 DEF Turns
  <2>4. g[0] = first /\ \A k \in 0 .. m : k # 0 => k \in 1 .. m
    BY <1>1, <1>9 DEF Turns
  <2>5. QED  BY <2>2, <2>3, <2>4 DEF Is
<1>11. Is(run)
  BY <1>10
<1> HIDE DEF run
<1>12. run[m] \in X[m]
  <2>1. run[0] \in X[0]
    BY <1>1, <1>6, <1>11 DEF Is
  <2>2. ASSUME NEW k \in 1 .. m, run[k - 1] \in X[k - 1] PROVE run[k] \in X[k]
    <3>1. k \in 0 .. m /\ k # 0
      BY <1>1
    <3>2. run[k] = NameUnsat(run[k - 1], seq[k])
      BY <1>11, <3>1 DEF Is
    <3>3. QED  BY <1>8, <2>2, <3>2
  <2>3. QED  BY <1>1, <2>1, <2>2, RunStays
<1>13. m \in 0 .. m
  BY <1>1
<1>14. after[m] = [v \in Vars |-> IF v \in ClauseVars[c] THEN n[v] + 1 ELSE n[v]]
  BY <1>1, <1>13 DEF after
<1>15. run[m] \in CountsType /\ Same(run[m]) /\ Named(run[m], after[m])
  BY <1>5, <1>12, <1>13
<1>16. QED  BY <1>2, <1>14, <1>15 DEF Same

(* The same for a clause that becomes satisfied.                           *)
LEMMA SatLoop ==
  ASSUME ClausesExact, NEW r \in CountsType, NEW n \in [Vars -> Nat], Named(r, n),
         NEW c \in Clauses, NEW weight \in Int, StackOver(Clauses, r.unsat), c \in OnStack(r.unsat),
         \A v \in ClauseVars[c] : n[v] # 0
  PROVE  /\ Sat(r, c, weight) \in CountsType
         /\ Named(Sat(r, c, weight),
                  [v \in Vars |-> IF v \in ClauseVars[c] THEN n[v] - 1 ELSE n[v]])
         /\ Sat(r, c, weight).satCount = r.satCount
         /\ Sat(r, c, weight).satVar = r.satVar
         /\ Sat(r, c, weight).unsat = Taken(r.unsat, c)
         /\ Sat(r, c, weight).totalUnsat = r.totalUnsat - weight
<1> DEFINE seq == VarsOfClause(c)
           m == Len(seq)
           first == [r EXCEPT !.unsat = Taken(@, c), !.totalUnsat = @ - weight]
           after == [k \in 0 .. m |-> [v \in Vars |->
                       IF v \in { seq[i] : i \in 1 .. k } THEN n[v] - 1 ELSE n[v]]]
           Same(x) == /\ x.satCount = r.satCount /\ x.satVar = r.satVar
                      /\ x.unsat = Taken(r.unsat, c)
                      /\ x.totalUnsat = r.totalUnsat - weight
           X == [k \in 0 .. m |-> { x \in CountsType : Same(x) /\ Named(x, after[k]) }]
           turn == [k \in 1 .. m |-> [x \in X[k - 1] |-> NameSat(x, seq[k])]]
           Is(g) == g = [k \in 0 .. m |-> IF k = 0 THEN first ELSE NameSat(g[k - 1], seq[k])]
           run == CHOOSE g : Is(g)
<1>1. /\ m \in Nat /\ \A k \in 1 .. m : seq[k] \in Vars
      /\ \A i, j \in 1 .. m : seq[i] = seq[j] => i = j
      /\ ClauseVars[c] = { seq[i] : i \in 1 .. m }
  <2>1. seq \in Seq(Vars) /\ IsInjective(seq) /\ ClauseVars[c] = Range(seq)
    BY DEF ClausesExact
  <2> HIDE DEF seq
  <2>2. DOMAIN seq = 1 .. m /\ m \in Nat
    BY <2>1
  <2>3. \A k \in 1 .. m : seq[k] \in Vars
    BY <2>1, <2>2
  <2>4. \A i, j \in 1 .. m : seq[i] = seq[j] => i = j
    BY <2>1, <2>2 DEF IsInjective
  <2>5. ClauseVars[c] = { seq[i] : i \in 1 .. m }
    BY <2>1, <2>2 DEF Range
  <2>6. QED  BY <2>2, <2>3, <2>4, <2>5
<1>2. Sat(r, c, weight) = run[m]
  BY DEF Sat, Loop
<1> HIDE DEF seq, m
<1>3. first \in CountsType /\ Same(first) /\ Named(first, n)
  <2> DEFINE st == Taken(r.unsat, c)
             tot == r.totalUnsat - weight
  <2>1. st \in StackOf(Clauses)
    BY TakenExact, StackTyped
  <2>2. tot \in Int
    BY DEF CountsType
  <2>3. first = [r EXCEPT !.unsat = st, !.totalUnsat = tot]
    BY DEF CountsType
  <2> HIDE DEF st, tot, first
  <2>4. /\ first.satCount = r.satCount /\ first.satVar = r.satVar
        /\ first.unsat = st /\ first.totalUnsat = tot
        /\ first.app = r.app /\ first.unsatVar = r.unsatVar
    BY <2>3 DEF CountsType
  <2>5. first \in CountsType
    BY <2>1, <2>2, <2>3 DEF CountsType
  <2>6. QED  BY <2>4, <2>5 DEF Named, st, tot
<1> HIDE DEF first
<1>4. \A k \in 0 .. m : after[k] \in [Vars -> Int] /\ \A v \in Vars :
         after[k][v] = IF v \in { seq[i] : i \in 1 .. k } THEN n[v] - 1 ELSE n[v]
  OBVIOUS
<1> HIDE DEF after, Same
<1>5. \A k \in 0 .. m : \A x : x \in X[k] <=> x \in CountsType /\ Same(x) /\ Named(x, after[k])
  OBVIOUS
<1> HIDE DEF X
<1>6. first \in X[0]
  <2>1. 0 \in 0 .. m
    BY <1>1
  <2>2. after[0] = n
    <3>1. after[0] = [v \in Vars |-> n[v]]
      BY <2>1 DEF after
    <3>2. QED  BY <3>1
  <2>3. QED  BY <1>3, <1>5, <2>1, <2>2
<1>7. ASSUME NEW k \in 1 .. m, NEW x \in X[k - 1] PROVE NameSat(x, seq[k]) \in X[k]
  <2> DEFINE v == seq[k]
             b == after[k - 1]
  <2>1. k - 1 \in 0 .. m /\ k \in 0 .. m /\ k \in 1 .. m
    BY <1>1
  <2>2. x \in CountsType /\ Same(x) /\ Named(x, b)
    BY <1>5, <2>1
  <2>3. v \in Vars
    BY <1>1
  <2>4. v \notin { seq[i] : i \in 1 .. (k - 1) }
    <3>1. \A i \in 1 .. (k - 1) : i \in 1 .. m /\ i # k
      BY <1>1
    <3>2. QED  BY <1>1, <3>1
  <2>5. { seq[i] : i \in 1 .. k } = { seq[i] : i \in 1 .. (k - 1) } \cup {v}
    <3>1. 1 .. k = (1 .. (k - 1)) \cup {k}
      BY <1>1
    <3>2. QED  BY <3>1
  <2> HIDE DEF v, b
  <2>6. (\A i \in 1 .. (k - 1) : n[seq[i]] # 0) /\ n[v] # 0
    <3>1. \A i \in 1 .. (k - 1) : i \in 1 .. m
      BY <1>1
    <3>2. QED  BY <1>1, <2>1, <3>1 DEF v
  <2>7. b \in [Vars -> Nat] /\ after[k] = [b EXCEPT ![v] = @ - 1] /\ b[v] = n[v]
    <3> DEFINE In == { seq[i] : i \in 1 .. (k - 1) }
               Now == { seq[i] : i \in 1 .. k }
    <3>1. /\ b \in [Vars -> Int] /\ \A u \in Vars : b[u] = IF u \in In THEN n[u] - 1 ELSE n[u]
          /\ after[k] \in [Vars -> Int]
          /\ \A u \in Vars : after[k][u] = IF u \in Now THEN n[u] - 1 ELSE n[u]
      BY <1>4, <2>1 DEF b
    <3>2. v \notin In /\ Now = In \cup {v} /\ (\A u \in In : n[u] # 0) /\ n[v] # 0
      BY <2>4, <2>5, <1>1, <2>6
    <3> HIDE DEF In, Now
    <3>3. b \in [Vars -> Nat]
      BY <3>1, <3>2
    <3>4. \A u \in Vars : after[k][u] = [b EXCEPT ![v] = @ - 1][u]
      BY <2>3, <3>1, <3>2
    <3>5. [b EXCEPT ![v] = @ - 1] \in [Vars -> Int]
      BY <2>3, <3>1
    <3> DEFINE e == after[k]
               d == [b EXCEPT ![v] = @ - 1]
    <3>6. e = d
      <4>1. e \in [Vars -> Int] /\ d \in [Vars -> Int] /\ \A u \in Vars : e[u] = d[u]
        BY <3>1, <3>4, <3>5
      <4> HIDE DEF e, d
      <4>2. QED  BY <4>1, SameFunction
    <3>7. b[v] = n[v]
      BY <2>3, <3>1, <3>2
    <3>8. QED  BY <3>3, <3>6, <3>7
  <2>8. NameSat(x, v) \in CountsType /\ Named(NameSat(x, v), after[k])
        /\ Same(NameSat(x, v))
    <3> DEFINE y == NameSat(x, v)
    <3>1. /\ y \in CountsType
          /\ Named(y, [b EXCEPT ![v] = @ - 1])
          /\ y.satCount = x.satCount /\ y.satVar = x.satVar
          /\ y.unsat = x.unsat /\ y.totalUnsat = x.totalUnsat
      BY <2>2, <2>3, <2>7, <2>6, NameSatIs
    <3> HIDE DEF y
    <3>2. QED  BY <2>2, <2>7, <3>1 DEF Same, y
  <2>9. QED  BY <1>5, <2>1, <2>8 DEF v
<1>8. \A k \in 1 .. m : \A x \in X[k - 1] : turn[k][x] \in X[k] /\ turn[k][x] = NameSat(x, seq[k])
  BY <1>7
<1> HIDE DEF turn, Is
<1>9. PICK g : Turns(g, m, first, turn) /\ \A k \in 0 .. m : g[k] \in X[k]
  <2>1. \A k \in 1 .. m : \A x \in X[k - 1] : turn[k][x] \in X[k]
    BY <1>8
  <2>2. m \in Nat
    BY <1>1
  <2>3. QED  BY <1>6, <2>1, <2>2, Stepwise
<1>10. Is(g)
  <2>1. \A k \in 1 .. m : k - 1 \in 0 .. m /\ k \in 0 .. m /\ k # 0
    BY <1>1
  <2>2. \A k \in 1 .. m : g[k] = NameSat(g[k - 1], seq[k])
    BY <1>8, <1>9, <2>1 DEF Turns
  <2>3. DOMAIN g = 0 .. m /\ g = [k \in DOMAIN g |-> g[k]]
    BY <1>9 DEF Turns
  <2>4. g[0] = first /\ \A k \in 0 .. m : k # 0 => k \in 1 .. m
    BY <1>1, <1>9 DEF Turns
  <2>5. QED  BY <2>2, <2>3, <2>4 DEF Is
<1>11. Is(run)
  BY <1>10
<1> HIDE DEF run
<1>12. run[m] \in X[m]
  <2>1. run[0] \in X[0]
    BY <1>1, <1>6, <1>11 DEF Is
  <2>2. ASSUME NEW k \in 1 .. m, run[k - 1] \in X[k - 1] PROVE run[k] \in X[k]
    <3>1. k \in 0 .. m /\ k # 0
      BY <1>1
    <3>2. run[k] = NameSat(run[k - 1], seq[k])
      BY <1>11, <3>1 DEF Is
    <3>3. QED  BY <1>8, <2>2, <3>2
  <2>3. QED  BY <1>1, <2>1, <2>2, RunStays
<1>13. m \in 0 .. m
  BY <1>1
<1>14. after[m] = [v \in Vars |-> IF v \in ClauseVars[c] THEN n[v] - 1 ELSE n[v]]
  BY <1>1, <1>13 DEF after
<1>15. run[m] \in CountsType /\ Same(run[m]) /\ Named(run[m], after[m])
  BY <1>5, <1>12, <1>13
<1>16. QED  BY <1>2, <1>14, <1>15 DEF Same

(* How many unsatisfied clauses name each variable, with one more clause.  *)
LEMMA AppsWith ==
  ASSUME ClausesExact, NEW U \in SUBSET Clauses, NEW c \in Clauses, c \notin U
  PROVE  /\ IsFiniteSet(U) /\ Apps(U) \in [Vars -> Nat]
         /\ Apps(U \cup {c}) =
              [v \in Vars |-> IF v \in ClauseVars[c] THEN Apps(U)[v] + 1 ELSE Apps(U)[v]]
         /\ \A v \in ClauseVars[c] : v \in Vars /\ Apps(U \cup {c})[v] # 0
<1> DEFINE Of(S, v) == { d \in S : v \in ClauseVars[d] }
<1>1. IsFiniteSet(Clauses)
  BY FS_Interval DEF ClausesExact, Clauses
<1>2. IsFiniteSet(U) /\ \A v \in Vars : IsFiniteSet(Of(U, v)) /\ Cardinality(Of(U, v)) \in Nat
  <2>1. IsFiniteSet(U)
    BY <1>1, FS_Subset
  <2>2. ASSUME NEW v \in Vars PROVE IsFiniteSet(Of(U, v)) /\ Cardinality(Of(U, v)) \in Nat
    <3>1. Of(U, v) \subseteq U
      OBVIOUS
    <3> HIDE DEF Of
    <3>2. QED  BY <2>1, <3>1, FS_Subset, FS_CardinalityType
  <2>3. QED  BY <2>1, <2>2
<1>3. ASSUME NEW v \in Vars
      PROVE  Cardinality(Of(U \cup {c}, v))
               = IF v \in ClauseVars[c] THEN Cardinality(Of(U, v)) + 1 ELSE Cardinality(Of(U, v))
  <2>1. CASE v \in ClauseVars[c]
    <3>1. Of(U \cup {c}, v) = Of(U, v) \cup {c} /\ c \notin Of(U, v)
      BY <2>1
    <3> HIDE DEF Of
    <3>2. QED  BY <1>2, <2>1, <3>1, FS_AddElement
  <2>2. CASE v \notin ClauseVars[c]
    <3>1. Of(U \cup {c}, v) = Of(U, v)
      BY <2>2
    <3> HIDE DEF Of
    <3>2. QED  BY <2>2, <3>1
  <2>3. QED  BY <2>1, <2>2
<1>4. \A S : Apps(S) = [v \in Vars |-> Cardinality(Of(S, v))]
  BY DEF Apps
<1> HIDE DEF Of
<1>5. Apps(U) \in [Vars -> Nat] /\ \A v \in Vars : Apps(U)[v] = Cardinality(Of(U, v))
  BY <1>2, <1>4
<1>6. Apps(U \cup {c}) =
        [v \in Vars |-> IF v \in ClauseVars[c] THEN Apps(U)[v] + 1 ELSE Apps(U)[v]]
  BY <1>3, <1>4, <1>5
<1>7. \A v \in ClauseVars[c] : v \in Vars
  <2>1. VarsOfClause(c) \in Seq(Vars) /\ ClauseVars[c] = Range(VarsOfClause(c))
    BY DEF ClausesExact
  <2>2. QED  BY <2>1 DEF Range
<1>8. QED  BY <1>2, <1>5, <1>6, <1>7

(* unsat and sat keep the stacks and what is counted with them exact.      *)
Keeps(x, r, V, w) ==
  /\ x \in CountsType /\ Stacks(x, V, w)
  /\ x.satCount = r.satCount /\ x.satVar = r.satVar

UnsatKeeps(r, c, w, U) == Keeps(Unsat(r, c, w[c]), r, U \cup {c}, w)
SatKeeps(r, c, w, U) == Keeps(Sat(r, c, w[c]), r, U \ {c}, w)

LEMMA StacksWith ==
  ASSUME ClausesExact, NEW r \in CountsType, NEW U \in SUBSET Clauses, NEW w \in [Clauses -> Int],
         Stacks(r, U, w), NEW c \in Clauses, c \notin U
  PROVE  UnsatKeeps(r, c, w, U)
<1> DEFINE x == Unsat(r, c, w[c])
<1>1. /\ StackOver(Clauses, r.unsat) /\ OnStack(r.unsat) = U
      /\ r.totalUnsat = SumFunctionOnSet(w, U)
      /\ Named(r, Apps(U))
  BY DEF Stacks
<1>2. /\ IsFiniteSet(U) /\ Apps(U) \in [Vars -> Nat]
      /\ Apps(U \cup {c}) =
           [v \in Vars |-> IF v \in ClauseVars[c] THEN Apps(U)[v] + 1 ELSE Apps(U)[v]]
  BY AppsWith
<1>3. w[c] \in Int
  OBVIOUS
<1>4. /\ x \in CountsType
      /\ Named(x, [v \in Vars |-> IF v \in ClauseVars[c] THEN Apps(U)[v] + 1 ELSE Apps(U)[v]])
      /\ x.satCount = r.satCount /\ x.satVar = r.satVar
      /\ x.unsat = Pushed(r.unsat, c) /\ x.totalUnsat = r.totalUnsat + w[c]
  BY <1>1, <1>2, <1>3, UnsatLoop
<1> HIDE DEF x
<1>5. StackOver(Clauses, x.unsat) /\ OnStack(x.unsat) = U \cup {c}
  BY <1>1, <1>4, PushedExact
<1>6. SumFunctionOnSet(w, U \cup {c}) = SumFunctionOnSet(w, U) + w[c]
  <2>1. IsFiniteSet(U \cup {c}) /\ \A d \in U \cup {c} : w[d] \in Int
    BY <1>2, FS_AddElement
  <2>2. (U \cup {c}) \ {c} = U
    OBVIOUS
  <2>3. SumFunctionOnSet(w, U \cup {c}) = w[c] + SumFunctionOnSet(w, (U \cup {c}) \ {c})
    BY <2>1, SumTakeOut
  <2>4. SumFunctionOnSet(w, U) \in Int
    BY <1>2, SumTakeOut
  <2> DEFINE a == SumFunctionOnSet(w, U)
             b == SumFunctionOnSet(w, U \cup {c})
             d == w[c]
  <2>5. b = d + a /\ a \in Int /\ d \in Int
    BY <1>3, <2>2, <2>3, <2>4
  <2> HIDE DEF a, b, d
  <2>6. b = a + d
    BY <2>5
  <2>7. QED  BY <2>6 DEF a, b, d
<1>7. Stacks(x, U \cup {c}, w)
  BY <1>1, <1>2, <1>4, <1>5, <1>6 DEF Stacks
<1>8. QED  BY <1>4, <1>7 DEF x, UnsatKeeps, Keeps

LEMMA StacksWithout ==
  ASSUME ClausesExact, NEW r \in CountsType, NEW U \in SUBSET Clauses, NEW w \in [Clauses -> Int],
         Stacks(r, U, w), NEW c \in U
  PROVE  SatKeeps(r, c, w, U)
<1> DEFINE x == Sat(r, c, w[c])
           V == U \ {c}
<1>1. /\ StackOver(Clauses, r.unsat) /\ OnStack(r.unsat) = U
      /\ r.totalUnsat = SumFunctionOnSet(w, U)
      /\ Named(r, Apps(U))
  BY DEF Stacks
<1>2. V \in SUBSET Clauses /\ c \notin V /\ c \in Clauses /\ V \cup {c} = U
  OBVIOUS
<1> HIDE DEF V
<1>3. /\ IsFiniteSet(V) /\ Apps(V) \in [Vars -> Nat]
      /\ Apps(V \cup {c}) =
           [v \in Vars |-> IF v \in ClauseVars[c] THEN Apps(V)[v] + 1 ELSE Apps(V)[v]]
      /\ \A v \in ClauseVars[c] : v \in Vars /\ Apps(V \cup {c})[v] # 0
  BY <1>2, AppsWith
<1>4. w[c] \in Int
  BY <1>2
<1>5. Apps(U) \in [Vars -> Nat] /\ \A v \in ClauseVars[c] : Apps(U)[v] # 0
  <2> DEFINE a == Apps(V)
             b == Apps(U)
  <2>1. /\ a \in [Vars -> Nat]
        /\ b = [v \in Vars |-> IF v \in ClauseVars[c] THEN a[v] + 1 ELSE a[v]]
        /\ \A v \in ClauseVars[c] : b[v] # 0
    BY <1>2, <1>3
  <2> HIDE DEF a, b
  <2>2. b \in [Vars -> Nat]
    BY <2>1
  <2>3. QED  BY <2>1, <2>2 DEF b
<1>6. /\ x \in CountsType
      /\ Named(x, [v \in Vars |-> IF v \in ClauseVars[c] THEN Apps(U)[v] - 1 ELSE Apps(U)[v]])
      /\ x.satCount = r.satCount /\ x.satVar = r.satVar
      /\ x.unsat = Taken(r.unsat, c) /\ x.totalUnsat = r.totalUnsat - w[c]
  <2> DEFINE n == Apps(U)
  <2>1. /\ n \in [Vars -> Nat] /\ \A v \in ClauseVars[c] : n[v] # 0
        /\ Named(r, n) /\ c \in OnStack(r.unsat) /\ StackOver(Clauses, r.unsat)
    BY <1>1, <1>2, <1>5
  <2> HIDE DEF n, x
  <2>2. /\ Sat(r, c, w[c]) \in CountsType
        /\ Named(Sat(r, c, w[c]), [v \in Vars |-> IF v \in ClauseVars[c] THEN n[v] - 1 ELSE n[v]])
        /\ Sat(r, c, w[c]).satCount = r.satCount /\ Sat(r, c, w[c]).satVar = r.satVar
        /\ Sat(r, c, w[c]).unsat = Taken(r.unsat, c)
        /\ Sat(r, c, w[c]).totalUnsat = r.totalUnsat - w[c]
    BY <1>2, <1>4, <2>1, SatLoop
  <2>3. QED  BY <2>2 DEF n, x
<1> HIDE DEF x
<1>7. [v \in Vars |-> IF v \in ClauseVars[c] THEN Apps(U)[v] - 1 ELSE Apps(U)[v]] = Apps(V)
  <2> DEFINE a == Apps(V)
             b == Apps(U)
  <2>1. /\ a \in [Vars -> Nat]
        /\ \A v \in Vars : b[v] = IF v \in ClauseVars[c] THEN a[v] + 1 ELSE a[v]
    BY <1>2, <1>3
  <2> HIDE DEF a, b
  <2>2. \A v \in Vars : (IF v \in ClauseVars[c] THEN b[v] - 1 ELSE b[v]) = a[v]
    BY <2>1
  <2>3. [v \in Vars |-> IF v \in ClauseVars[c] THEN b[v] - 1 ELSE b[v]] = a
    BY <2>1, <2>2
  <2>4. QED  BY <2>3 DEF a, b
<1>8. StackOver(Clauses, x.unsat) /\ OnStack(x.unsat) = V
  BY <1>1, <1>6, TakenExact DEF V
<1>9. SumFunctionOnSet(w, V) = SumFunctionOnSet(w, U) - w[c]
  <2>1. IsFiniteSet(U) /\ \A d \in U : w[d] \in Int
    BY <1>2, <1>3, FS_AddElement
  <2>2. SumFunctionOnSet(w, U) = w[c] + SumFunctionOnSet(w, V)
    BY <2>1, SumTakeOut DEF V
  <2>3. SumFunctionOnSet(w, V) \in Int
    <3>1. \A d \in V : w[d] \in Int
      BY <1>2
    <3>2. QED  BY <1>3, <3>1, SumTakeOut
  <2>4. QED  BY <1>4, <2>2, <2>3
<1>10. Stacks(x, V, w)
  BY <1>1, <1>6, <1>7, <1>8, <1>9 DEF Stacks
<1>11. QED  BY <1>6, <1>10 DEF x, V, SatKeeps, Keeps

-----------------------------------------------------------------------------
(* The true literals of a clause, as the set of their variables.           *)
Held(soln, c) == { v \in ClauseVars[c] : soln[v] = SenseIn(c, v) }

Solutions == [Vars -> {0, 1}]

(* TrueVars and TrueSeq are these variables.                               *)
LEMMA TrueVarsIs ==
  ASSUME ClausesExact, NEW t, t.soln \in Solutions, NEW c \in Clauses
  PROVE  /\ TrueVars(t, c) = Held(t.soln, c)
         /\ ClauseVars[c] \subseteq Vars
         /\ IsFiniteSet(Held(t.soln, c)) /\ Cardinality(Held(t.soln, c)) \in Nat
         /\ TrueSeq(t, c) \in Seq(Vars) /\ IsInjective(TrueSeq(t, c))
         /\ Range(TrueSeq(t, c)) = Held(t.soln, c)
         /\ Len(TrueSeq(t, c)) = Cardinality(Held(t.soln, c))
<1> DEFINE lits == ClauseLit[c]
           true == TrueLits(t, c)
           kept == Only(lits, true)
<1>1. /\ NumVars \in Nat /\ lits \in Seq(Lits(NumVars)) /\ IsInjective(lits)
      /\ ClauseVars[c] = Range(VarsOfClause(c)) /\ VarsOfClause(c) \in Seq(Vars)
      /\ ClauseVars[c] = { VarOf(l) : l \in Range(lits) }
      /\ \A l, m \in Range(lits) : VarOf(l) = VarOf(m) => l = m
  BY DEF ClausesExact
<1>2. ClauseVars[c] \subseteq Vars
  BY <1>1 DEF Range
<1>3. true = { l \in Range(lits) : t.soln[VarOf(l)] = Sense(l) }
  BY DEF TrueLits
<1> HIDE DEF lits, true
<1>4. \A l \in Range(lits) : l \in Int \ {0}
  BY <1>1 DEF Range, Lits
<1>5. ASSUME NEW l \in Range(lits) PROVE Sense(l) = SenseIn(c, VarOf(l))
  <2>1. VarOf(l) \in Nat \ {0} /\ ((VarOf(l) = l /\ Sense(l) = 1) \/ (VarOf(l) = -l /\ Sense(l) = 0))
    BY <1>4, Literals
  <2>2. CASE VarOf(l) = l /\ Sense(l) = 1
    BY <2>2 DEF SenseIn, lits
  <2>3. CASE VarOf(l) = -l /\ Sense(l) = 0
    <3>1. ASSUME VarOf(l) \in Range(lits) PROVE FALSE
      <4>1. VarOf(VarOf(l)) = VarOf(l)
        BY <2>1 DEF VarOf
      <4>2. VarOf(l) = l
        BY <1>1, <3>1, <4>1
      <4>3. QED  BY <1>4, <2>3, <4>2
    <3>2. QED  BY <2>3, <3>1 DEF SenseIn, lits
  <2>4. QED  BY <2>1, <2>2, <2>3
<1>6. { VarOf(l) : l \in true } = Held(t.soln, c)
  BY <1>1, <1>3, <1>5 DEF Held
<1>7. TrueVars(t, c) = Held(t.soln, c)
  BY <1>6 DEF TrueVars, true
<1>8. kept \in Seq(Lits(NumVars)) /\ Range(kept) = true /\ IsInjective(kept)
  <2>1. /\ Only(lits, true) \in Seq(Lits(NumVars)) /\ Range(Only(lits, true)) = Range(lits) \cap true
        /\ IsInjective(Only(lits, true))
    BY <1>1, OnlyIs
  <2>2. QED  BY <1>3, <2>1
<1>9. TrueSeq(t, c) = VarsIn(kept)
  BY DEF TrueSeq, lits, true
<1> HIDE DEF kept
<1>10. /\ VarsIn(kept) \in Seq(1 .. NumVars) /\ Len(VarsIn(kept)) = Len(kept)
       /\ \A i \in 1 .. Len(kept) : VarsIn(kept)[i] = VarOf(kept[i])
       /\ Range(VarsIn(kept)) = { VarOf(l) : l \in Range(kept) }
  BY <1>1, <1>8, VarsInIs DEF Lits
<1>11. IsInjective(VarsIn(kept))
  <2> SUFFICES ASSUME NEW i \in 1 .. Len(kept), NEW j \in 1 .. Len(kept), VarsIn(kept)[i] = VarsIn(kept)[j]
               PROVE  i = j
    BY <1>10 DEF IsInjective
  <2>1. i \in DOMAIN kept /\ j \in DOMAIN kept
    BY <1>8
  <2>2. kept[i] \in Range(lits) /\ kept[j] \in Range(lits)
    BY <1>3, <1>8, <2>1 DEF Range
  <2>3. kept[i] = kept[j]
    BY <1>1, <1>10, <2>2
  <2>4. QED  BY <1>8, <2>1, <2>3 DEF IsInjective
<1>12. TrueSeq(t, c) \in Seq(Vars) /\ IsInjective(TrueSeq(t, c)) /\ Range(TrueSeq(t, c)) = Held(t.soln, c)
  BY <1>6, <1>8, <1>9, <1>10, <1>11 DEF Vars
<1>13. /\ IsFiniteSet(Held(t.soln, c))
       /\ Cardinality(Held(t.soln, c)) = Len(TrueSeq(t, c))
       /\ Cardinality(Held(t.soln, c)) \in Nat
  BY <1>12, ListLength, FS_CardinalityType
<1>14. QED  BY <1>2, <1>7, <1>12, <1>13

(* Flipping a variable makes its literal in each of its clauses true or    *)
(* false, and changes no other.                                            *)
Flipped(soln, v) == [soln EXCEPT ![v] = 1 - @]

LEMMA HeldFlipped ==
  ASSUME ClausesExact, NEW soln \in Solutions, NEW v \in Vars, NEW c \in Clauses
  PROVE  /\ Flipped(soln, v) \in Solutions
         /\ Flipped(soln, v)[v] = 1 - soln[v]
         /\ \A u \in Vars \ {v} : Flipped(soln, v)[u] = soln[u]
         /\ SenseIn(c, v) \in {0, 1}
         /\ v \notin ClauseVars[c] => Held(Flipped(soln, v), c) = Held(soln, c)
         /\ v \in ClauseVars[c] /\ Flipped(soln, v)[v] = SenseIn(c, v) =>
              /\ v \notin Held(soln, c) /\ Held(Flipped(soln, v), c) = Held(soln, c) \cup {v}
              /\ Cardinality(Held(Flipped(soln, v), c)) = Cardinality(Held(soln, c)) + 1
         /\ v \in ClauseVars[c] /\ Flipped(soln, v)[v] # SenseIn(c, v) =>
              /\ v \in Held(soln, c) /\ Held(Flipped(soln, v), c) = Held(soln, c) \ {v}
              /\ Cardinality(Held(Flipped(soln, v), c)) = Cardinality(Held(soln, c)) - 1
<1> DEFINE new == Flipped(soln, v)
           A == Held(soln, c)
           B == Held(new, c)
<1>1. /\ new \in Solutions /\ new[v] = 1 - soln[v] /\ soln[v] \in {0, 1}
      /\ \A u \in Vars \ {v} : new[u] = soln[u]
  BY DEF Flipped, Solutions
<1>2. SenseIn(c, v) \in {0, 1}
  BY DEF SenseIn
<1> HIDE DEF new
<1>3. ClauseVars[c] \subseteq Vars /\ IsFiniteSet(A) /\ Cardinality(A) \in Nat
  <2> DEFINE t == [soln |-> soln]
  <2>1. t.soln = soln
    OBVIOUS
  <2> HIDE DEF t
  <2>2. QED  BY <2>1, TrueVarsIs
<1>4. CASE v \notin ClauseVars[c]
  <2>1. B = A
    BY <1>1, <1>3, <1>4 DEF Held
  <2>2. QED  BY <1>1, <1>2, <1>4, <2>1 DEF new
<1>5. CASE v \in ClauseVars[c] /\ new[v] = SenseIn(c, v)
  <2>1. v \notin A /\ B = A \cup {v}
    BY <1>1, <1>3, <1>5 DEF Held
  <2> HIDE DEF A, B
  <2>2. Cardinality(B) = Cardinality(A) + 1
    BY <1>3, <2>1, FS_AddElement
  <2>3. QED  BY <1>1, <1>2, <1>5, <2>1, <2>2 DEF new, A, B
<1>6. CASE v \in ClauseVars[c] /\ new[v] # SenseIn(c, v)
  <2>1. v \in A /\ B = A \ {v}
    BY <1>1, <1>2, <1>3, <1>6 DEF Held
  <2> HIDE DEF A, B
  <2>2. Cardinality(B) = Cardinality(A) - 1
    BY <1>3, <2>1, FS_RemoveElement
  <2>3. QED  BY <1>1, <1>2, <1>6, <2>1, <2>2 DEF new, A, B
<1>7. QED  BY <1>4, <1>5, <1>6 DEF new

(* What is not counted on the stacks may change.                           *)
LEMMA StacksSame ==
  ASSUME NEW r, NEW x, NEW U, NEW w, Stacks(r, U, w),
         x.unsat = r.unsat, x.totalUnsat = r.totalUnsat, x.app = r.app, x.unsatVar = r.unsatVar
  PROVE  Stacks(x, U, w)
BY DEF Stacks, Named

(* An array, or the counters, with one entry set.                          *)
Put(f, c, m) == [f EXCEPT ![c] = m]

Counted(r, c, m) == [r EXCEPT !.satCount = Put(@, c, m)]
Marked(r, c, u)  == [r EXCEPT !.satVar = Put(@, c, u)]

LEMMA SetCount ==
  ASSUME NEW r \in CountsType, NEW c \in Clauses, NEW m \in Int
  PROVE  /\ Counted(r, c, m) \in CountsType
         /\ Counted(r, c, m).satCount = Put(r.satCount, c, m)
         /\ Counted(r, c, m).satVar = r.satVar
         /\ \A U, w : Stacks(r, U, w) => Stacks(Counted(r, c, m), U, w)
<1> DEFINE x == Counted(r, c, m)
<1>1. x \in CountsType
  BY DEF CountsType, Counted, Put
<1>2. /\ x.satCount = Put(r.satCount, c, m)
      /\ x.satVar = r.satVar /\ x.unsat = r.unsat /\ x.totalUnsat = r.totalUnsat
      /\ x.app = r.app /\ x.unsatVar = r.unsatVar
  BY DEF CountsType, Counted
<1> HIDE DEF x
<1>3. \A U, w : Stacks(r, U, w) => Stacks(x, U, w)
  BY <1>2, StacksSame
<1>4. QED  BY <1>1, <1>2, <1>3 DEF x

LEMMA SetSatVar ==
  ASSUME NEW r \in CountsType, NEW c \in Clauses, NEW u \in 0 .. NumVars
  PROVE  /\ Marked(r, c, u) \in CountsType
         /\ Marked(r, c, u).satVar = Put(r.satVar, c, u)
         /\ Marked(r, c, u).satCount = r.satCount
         /\ \A U, w : Stacks(r, U, w) => Stacks(Marked(r, c, u), U, w)
<1> DEFINE x == Marked(r, c, u)
<1>1. x \in CountsType
  BY DEF CountsType, Marked, Put
<1>2. /\ x.satVar = Put(r.satVar, c, u)
      /\ x.satCount = r.satCount /\ x.unsat = r.unsat /\ x.totalUnsat = r.totalUnsat
      /\ x.app = r.app /\ x.unsatVar = r.unsatVar
  BY DEF CountsType, Marked
<1> HIDE DEF x
<1>3. \A U, w : Stacks(r, U, w) => Stacks(x, U, w)
  BY <1>2, StacksSame
<1>4. QED  BY <1>1, <1>2, <1>3 DEF x

(* Counting the clause, noting its one true variable, or neither, and then *)
(* moving it.                                                              *)
Becomes(x, r, c, m, u, V, w) ==
  /\ x \in CountsType /\ Stacks(x, V, w)
  /\ x.satCount = Put(r.satCount, c, m)
  /\ x.satVar = Put(r.satVar, c, u)

LEMMA CountedSat ==
  ASSUME ClausesExact, NEW r \in CountsType, NEW w \in [Clauses -> Int], NEW m \in Int, NEW u \in Vars,
         NEW U \in SUBSET Clauses, Stacks(r, U, w), NEW c \in Clauses, c \in U
  PROVE  Becomes(Sat(Marked(Counted(r, c, m), c, u), c, w[c]), r, c, m, u, U \ {c}, w)
<1> DEFINE y == Counted(r, c, m)
           q == Marked(y, c, u)
<1>1. y \in CountsType /\ y.satCount = Put(r.satCount, c, m) /\ y.satVar = r.satVar
      /\ Stacks(y, U, w)
  BY SetCount
<1> HIDE DEF y
<1>2. u \in 0 .. NumVars
  BY DEF Vars, ClausesExact
<1>3. /\ q \in CountsType /\ q.satVar = Put(y.satVar, c, u) /\ q.satCount = y.satCount
      /\ Stacks(q, U, w)
  BY <1>1, <1>2, SetSatVar
<1> HIDE DEF q
<1>4. SatKeeps(q, c, w, U)
  BY <1>3, StacksWithout
<1>5. QED  BY <1>1, <1>3, <1>4 DEF y, q, SatKeeps, Keeps, Becomes

LEMMA CountedNoted ==
  ASSUME ClausesExact, NEW r \in CountsType, NEW w \in [Clauses -> Int], NEW m \in Int, NEW u \in Vars,
         NEW U \in SUBSET Clauses, Stacks(r, U, w), NEW c \in Clauses
  PROVE  Becomes(Marked(Counted(r, c, m), c, u), r, c, m, u, U, w)
<1> DEFINE y == Counted(r, c, m)
           q == Marked(y, c, u)
<1>1. y \in CountsType /\ y.satCount = Put(r.satCount, c, m) /\ y.satVar = r.satVar
      /\ Stacks(y, U, w)
  BY SetCount
<1> HIDE DEF y
<1>2. u \in 0 .. NumVars
  BY DEF Vars, ClausesExact
<1>3. /\ q \in CountsType /\ q.satVar = Put(y.satVar, c, u) /\ q.satCount = y.satCount
      /\ Stacks(q, U, w)
  BY <1>1, <1>2, SetSatVar
<1> HIDE DEF q
<1>4. QED  BY <1>1, <1>3 DEF y, q, Becomes

LEMMA CountedOnly ==
  ASSUME NEW r \in CountsType, NEW w, NEW m \in Int,
         NEW U, Stacks(r, U, w), NEW c \in Clauses
  PROVE  Becomes(Counted(r, c, m), r, c, m, r.satVar[c], U, w)
<1>1. r.satVar \in [Clauses -> 0 .. NumVars]
  BY DEF CountsType
<1>2. r.satVar = Put(r.satVar, c, r.satVar[c])
  BY <1>1 DEF Put
<1>3. QED  BY <1>2, SetCount DEF Becomes

LEMMA CountedUnsat ==
  ASSUME ClausesExact, NEW r \in CountsType, NEW w \in [Clauses -> Int], NEW m \in Int,
         NEW U \in SUBSET Clauses, Stacks(r, U, w), NEW c \in Clauses, c \notin U
  PROVE  Becomes(Unsat(Counted(r, c, m), c, w[c]), r, c, m, r.satVar[c], U \cup {c}, w)
<1> DEFINE y == Counted(r, c, m)
<1>1. Becomes(y, r, c, m, r.satVar[c], U, w)
  BY CountedOnly
<1> HIDE DEF y
<1>2. y \in CountsType /\ Stacks(y, U, w)
  BY <1>1 DEF Becomes
<1>3. UnsatKeeps(y, c, w, U)
  BY <1>2, StacksWith
<1>4. QED  BY <1>1, <1>3 DEF y, UnsatKeeps, Keeps, Becomes

(* The variable that flip finds for a clause with true literals.           *)
LEMMA FirstTrue ==
  ASSUME ClausesExact, NEW t, t.soln \in Solutions, NEW c \in Clauses, Held(t.soln, c) # {}
  PROVE  TrueSeq(t, c)[1] \in Held(t.soln, c) /\ TrueSeq(t, c)[1] \in Vars
<1> DEFINE seq == TrueSeq(t, c)
<1>1. seq \in Seq(Vars) /\ Range(seq) = Held(t.soln, c)
  BY TrueVarsIs
<1> HIDE DEF seq
<1>2. 1 \in DOMAIN seq
  <2>1. DOMAIN seq = 1 .. Len(seq) /\ Len(seq) \in Nat /\ DOMAIN seq # {}
    BY <1>1 DEF Range
  <2>2. QED  BY <2>1
<1>3. seq[1] \in Range(seq) /\ seq[1] \in Vars
  BY <1>1, <1>2 DEF Range
<1>4. QED  BY <1>1, <1>3 DEF seq

(* The true variable noted for a clause of v after a flip of v, when n of  *)
(* its literals were true and u was noted.                                 *)
NotedVar(t, v, c, n, u) ==
  IF t.soln[v] = SenseIn(c, v) THEN (IF n = 0 THEN v ELSE u)
  ELSE IF n = 2 THEN TrueSeq(t, c)[1] ELSE u

(* One clause of a flipped variable.                                       *)
LEMMA OccurrenceIs ==
  ASSUME ClausesExact, NEW old \in Solutions, NEW v \in Vars,
         NEW t, t.soln = Flipped(old, v), NEW w \in [Clauses -> Int], t.weight = w,
         NEW o, NEW c \in Clauses, o.clause = c, o.sense = SenseIn(c, v), v \in ClauseVars[c],
         NEW r \in CountsType, r.satCount[c] = Cardinality(Held(old, c)),
         NEW U \in SUBSET Clauses, Stacks(r, U, w), c \in U <=> Held(old, c) = {}
  PROVE  Becomes(FlipOccurrence(t, v, r, o), r, c, Cardinality(Held(t.soln, c)),
                 NotedVar(t, v, c, r.satCount[c], r.satVar[c]),
                 IF Held(t.soln, c) = {} THEN U \cup {c} ELSE U \ {c}, w)
<1> DEFINE x == FlipOccurrence(t, v, r, o)
           n == r.satCount[c]
           m == Cardinality(Held(t.soln, c))
           u == r.satVar[c]
           y == [r EXCEPT !.satCount[c] = n + 1]
           z == [r EXCEPT !.satCount[c] = n - 1]
<1>1. /\ t.soln \in Solutions /\ SenseIn(c, v) \in {0, 1}
      /\ t.soln[v] = SenseIn(c, v) =>
              /\ v \notin Held(old, c) /\ Held(t.soln, c) = Held(old, c) \cup {v}
              /\ m = Cardinality(Held(old, c)) + 1
      /\ t.soln[v] # SenseIn(c, v) =>
              /\ v \in Held(old, c) /\ Held(t.soln, c) = Held(old, c) \ {v}
              /\ m = Cardinality(Held(old, c)) - 1
  BY HeldFlipped
<1>2. IsFiniteSet(Held(old, c)) /\ IsFiniteSet(Held(t.soln, c)) /\ n \in Nat /\ m \in Nat
  <2> DEFINE list == [soln |-> old]
  <2>1. list.soln = old
    OBVIOUS
  <2> HIDE DEF list
  <2>2. IsFiniteSet(Held(old, c)) /\ Cardinality(Held(old, c)) \in Nat
    BY <2>1, TrueVarsIs
  <2>3. IsFiniteSet(Held(t.soln, c)) /\ Cardinality(Held(t.soln, c)) \in Nat
    BY <1>1, TrueVarsIs
  <2>4. QED  BY <2>2, <2>3
<1>3. (n = 0 <=> Held(old, c) = {}) /\ (m = 0 <=> Held(t.soln, c) = {})
  BY <1>2, FS_EmptySet
<1>4. [r EXCEPT !.satCount[c] = m] = Counted(r, c, m)
      /\ \A a : [Counted(r, c, m) EXCEPT !.satVar[c] = a] = Marked(Counted(r, c, m), c, a)
  BY DEF Counted, Marked, Put
<1>5. CASE t.soln[v] = SenseIn(c, v)
  <2>1. x = IF n = 0 THEN Sat([y EXCEPT !.satVar[c] = v], c, w[c]) ELSE y
    BY <1>5 DEF FlipOccurrence
  <2>2. m = n + 1 /\ Held(t.soln, c) # {} /\ NotedVar(t, v, c, n, u) = IF n = 0 THEN v ELSE u
    BY <1>1, <1>2, <1>5 DEF NotedVar
  <2>3. y = [r EXCEPT !.satCount[c] = m]
    BY <2>2
  <2>4. x = IF n = 0 THEN Sat(Marked(Counted(r, c, m), c, v), c, w[c]) ELSE Counted(r, c, m)
    BY <1>4, <2>1, <2>3
  <2> HIDE DEF x, n, m, y
  <2>5. CASE n = 0
    <3>1. c \in U /\ m \in Int /\ NotedVar(t, v, c, n, u) = v
      BY <1>2, <1>3, <2>2, <2>5
    <3>2. Becomes(x, r, c, m, v, U \ {c}, w)
      BY <2>4, <2>5, <3>1, CountedSat
    <3>3. QED  BY <2>2, <3>1, <3>2 DEF x, n, m
  <2>6. CASE n # 0
    <3>1. c \notin U /\ U \ {c} = U /\ m \in Int /\ NotedVar(t, v, c, n, u) = u
      BY <1>2, <1>3, <2>2, <2>6
    <3>2. Becomes(x, r, c, m, u, U, w)
      BY <2>4, <2>6, <3>1, CountedOnly
    <3>3. QED  BY <2>2, <3>1, <3>2 DEF x, n, m
  <2>7. QED  BY <2>5, <2>6
<1>6. CASE t.soln[v] # SenseIn(c, v)
  <2> DEFINE a == TrueSeq(t, c)[1]
  <2>1. x = CASE n = 2 -> [z EXCEPT !.satVar[c] = a]
               [] n = 1 -> Unsat(z, c, w[c])
               [] OTHER -> z
    BY <1>6 DEF FlipOccurrence
  <2>2. m = n - 1 /\ n # 0 /\ NotedVar(t, v, c, n, u) = IF n = 2 THEN a ELSE u
    BY <1>1, <1>2, <1>3, <1>6 DEF NotedVar
  <2>3. c \notin U /\ U \ {c} = U
    BY <1>3, <2>2
  <2>4. z = Counted(r, c, m)
    BY <1>4, <2>2
  <2>5. Held(t.soln, c) # {} => a \in Vars
    BY <1>1, FirstTrue
  <2> HIDE DEF x, n, m, z, a
  <2>6. /\ n = 2 => x = Marked(Counted(r, c, m), c, a)
        /\ n = 1 => x = Unsat(Counted(r, c, m), c, w[c])
        /\ n # 1 /\ n # 2 => x = Counted(r, c, m)
    <3>1. [z EXCEPT !.satVar[c] = a] = Marked(Counted(r, c, m), c, a)
      BY <1>4, <2>4
    <3>2. QED  BY <2>1, <2>4, <3>1
  <2>7. CASE n = 2
    <3>1. m \in Int /\ Held(t.soln, c) # {} /\ a \in Vars /\ NotedVar(t, v, c, n, u) = a
      BY <1>2, <1>3, <2>2, <2>5, <2>7
    <3>2. Becomes(x, r, c, m, a, U, w)
      BY <2>6, <2>7, <3>1, CountedNoted
    <3>3. QED  BY <2>3, <3>1, <3>2 DEF x, n, m
  <2>8. CASE n = 1
    <3>1. Held(t.soln, c) = {} /\ NotedVar(t, v, c, n, u) = u /\ m \in Int
      BY <1>2, <1>3, <2>2, <2>8
    <3>2. Becomes(x, r, c, m, u, U \cup {c}, w)
      BY <2>3, <2>6, <2>8, <3>1, CountedUnsat
    <3>3. QED  BY <3>1, <3>2 DEF x, n, m
  <2>9. CASE n # 1 /\ n # 2
    <3>1. Held(t.soln, c) # {} /\ NotedVar(t, v, c, n, u) = u /\ m \in Int
      BY <1>2, <1>3, <2>2, <2>9
    <3>2. Becomes(x, r, c, m, u, U, w)
      BY <2>6, <2>9, <3>1, CountedOnly
    <3>3. QED  BY <2>3, <3>1, <3>2 DEF x, n, m
  <2>10. QED  BY <2>7, <2>8, <2>9
<1>7. QED  BY <1>5, <1>6

(* flip, when it has walked the clauses D of v: what it counts is right    *)
(* for the new solution there and for the old one elsewhere.               *)
CountAt(old, new, D) ==
  [c \in Clauses |-> IF c \in D THEN Cardinality(Held(new, c)) ELSE Cardinality(Held(old, c))]

UnsatAt(old, new, D) ==
  { c \in Clauses : IF c \in D THEN Held(new, c) = {} ELSE Held(old, c) = {} }

NotedAt(t, v, old, f, D) ==
  [c \in Clauses |-> IF c \in D THEN NotedVar(t, v, c, Cardinality(Held(old, c)), f[c]) ELSE f[c]]

Walked(x, t, v, old, f, w, D) ==
  /\ x \in CountsType /\ Stacks(x, UnsatAt(old, t.soln, D), w)
  /\ x.satCount = CountAt(old, t.soln, D)
  /\ x.satVar = NotedAt(t, v, old, f, D)

LEMMA FlipStep ==
  ASSUME ClausesExact, NEW old \in Solutions, NEW v \in Vars,
         NEW t, t.soln = Flipped(old, v), NEW w \in [Clauses -> Int], t.weight = w,
         NEW o, NEW c \in Clauses, o.clause = c, o.sense = SenseIn(c, v), v \in ClauseVars[c],
         NEW f \in [Clauses -> 0 .. NumVars], NEW D, c \notin D,
         NEW r, Walked(r, t, v, old, f, w, D)
  PROVE  Walked(FlipOccurrence(t, v, r, o), t, v, old, f, w, D \cup {c})
<1> DEFINE U == UnsatAt(old, t.soln, D)
           x == FlipOccurrence(t, v, r, o)
           m == Cardinality(Held(t.soln, c))
           u == NotedVar(t, v, c, r.satCount[c], r.satVar[c])
           V == IF Held(t.soln, c) = {} THEN U \cup {c} ELSE U \ {c}
<1>1. /\ r \in CountsType /\ Stacks(r, U, w) /\ r.satCount = CountAt(old, t.soln, D)
      /\ r.satVar = NotedAt(t, v, old, f, D)
  BY DEF Walked
<1>2. r.satCount[c] = Cardinality(Held(old, c)) /\ r.satVar[c] = f[c]
  BY <1>1 DEF CountAt, NotedAt
<1>3. U \in SUBSET Clauses /\ (c \in U <=> Held(old, c) = {})
  BY DEF UnsatAt
<1>4. V = UnsatAt(old, t.soln, D \cup {c})
  BY DEF UnsatAt
<1> HIDE DEF U
<1>5. Becomes(x, r, c, m, u, V, w)
  BY <1>1, <1>2, <1>3, OccurrenceIs
<1>6. u = NotedVar(t, v, c, Cardinality(Held(old, c)), f[c])
  BY <1>2
<1> HIDE DEF x, u, V
<1>7. Put(r.satCount, c, m) = CountAt(old, t.soln, D \cup {c})
  BY <1>1 DEF CountAt, Put
<1>8. Put(r.satVar, c, u) = NotedAt(t, v, old, f, D \cup {c})
  BY <1>1, <1>6 DEF NotedAt, Put
<1>9. QED  BY <1>4, <1>5, <1>7, <1>8 DEF Becomes, Walked, x

(* After the loop, they are right for the new solution.                    *)
FlipCounts(t, v, r) == Loop(LAMBDA x, o : FlipOccurrence(t, v, x, o), r, VarLit[v])

LEMMA FlipLoop ==
  ASSUME ClausesExact, VarsExact, NEW old \in Solutions, NEW v \in Vars,
         NEW t, t.soln = Flipped(old, v), NEW w \in [Clauses -> Int], t.weight = w,
         NEW f \in [Clauses -> 0 .. NumVars],
         NEW r, Walked(r, t, v, old, f, w, {})
  PROVE  Walked(FlipCounts(t, v, r), t, v, old, f, w, { c \in Clauses : v \in ClauseVars[c] })
<1> DEFINE seq == VarLit[v]
           m == Len(seq)
           Done(k) == { seq[i].clause : i \in 1 .. k }
           X == [k \in 0 .. m |-> { x \in CountsType : Walked(x, t, v, old, f, w, Done(k)) }]
           turn == [k \in 1 .. m |-> [x \in X[k - 1] |-> FlipOccurrence(t, v, x, seq[k])]]
           Is(g) == g = [k \in 0 .. m |-> IF k = 0 THEN r ELSE FlipOccurrence(t, v, g[k - 1], seq[k])]
           run == CHOOSE g : Is(g)
           all == { c \in Clauses : v \in ClauseVars[c] }
<1>1. /\ m \in Nat
      /\ \A k \in 1 .. m : /\ seq[k].clause \in Clauses
                           /\ seq[k].sense = SenseIn(seq[k].clause, v)
                           /\ v \in ClauseVars[seq[k].clause]
      /\ \A i, j \in 1 .. m : seq[i].clause = seq[j].clause => i = j
      /\ Done(m) = all
  <2> DEFINE O == [clause : Clauses, sense : {0, 1}]
  <2>1. /\ seq \in Seq(O)
        /\ \A i, j \in 1 .. m : seq[i].clause = seq[j].clause => i = j
        /\ \A c \in Clauses : v \in ClauseVars[c] <=> \E i \in 1 .. m : seq[i].clause = c
        /\ \A i \in 1 .. m : seq[i].sense = SenseIn(seq[i].clause, v)
    BY DEF VarsExact
  <2> HIDE DEF seq
  <2>2. m \in Nat /\ \A k \in 1 .. m : seq[k] \in O
    <3> HIDE DEF O
    <3>1. QED  BY <2>1
  <2>3. \A k \in 1 .. m : seq[k].clause \in Clauses
    BY <2>2
  <2>4. QED  BY <2>1, <2>2, <2>3
<1>2. FlipCounts(t, v, r) = run[m]
  BY DEF FlipCounts, Loop
<1> HIDE DEF seq, m
<1>3. Done(0) = {}
  OBVIOUS
<1>4. \A k \in 1 .. m : Done(k) = Done(k - 1) \cup {seq[k].clause} /\ seq[k].clause \notin Done(k - 1)
  <2> SUFFICES ASSUME NEW k \in 1 .. m
               PROVE  Done(k) = Done(k - 1) \cup {seq[k].clause} /\ seq[k].clause \notin Done(k - 1)
    OBVIOUS
  <2>1. 1 .. k = (1 .. (k - 1)) \cup {k} /\ \A i \in 1 .. (k - 1) : i \in 1 .. m /\ i # k
    BY <1>1
  <2>2. QED  BY <1>1, <2>1
<1> HIDE DEF Done
<1>5. \A k \in 0 .. m : \A x : x \in X[k] <=> x \in CountsType /\ Walked(x, t, v, old, f, w, Done(k))
  OBVIOUS
<1> HIDE DEF X
<1>6. r \in X[0]
  <2>1. 0 \in 0 .. m /\ r \in CountsType
    BY <1>1 DEF Walked
  <2>2. QED  BY <1>3, <1>5, <2>1
<1>7. ASSUME NEW k \in 1 .. m, NEW x \in X[k - 1] PROVE FlipOccurrence(t, v, x, seq[k]) \in X[k]
  <2> DEFINE o == seq[k]
             c == o.clause
             D == Done(k - 1)
             y == FlipOccurrence(t, v, x, o)
  <2>1. k - 1 \in 0 .. m /\ k \in 0 .. m
    BY <1>1
  <2>2. c \in Clauses /\ o.sense = SenseIn(c, v) /\ v \in ClauseVars[c]
    BY <1>1
  <2>3. c \notin D /\ Done(k) = D \cup {c}
    BY <1>4
  <2>4. Walked(x, t, v, old, f, w, D)
    BY <1>5, <2>1
  <2> HIDE DEF o, D
  <2>5. Walked(y, t, v, old, f, w, D \cup {c})
    BY <2>2, <2>3, <2>4, FlipStep
  <2> HIDE DEF y
  <2>6. y \in CountsType
    BY <2>5 DEF Walked
  <2>7. QED  BY <1>5, <2>1, <2>3, <2>5, <2>6 DEF y, o
<1>8. \A k \in 1 .. m : \A x \in X[k - 1] : turn[k][x] \in X[k] /\ turn[k][x] = FlipOccurrence(t, v, x, seq[k])
  BY <1>7
<1> HIDE DEF turn, Is
<1>9. PICK g : Turns(g, m, r, turn) /\ \A k \in 0 .. m : g[k] \in X[k]
  <2>1. \A k \in 1 .. m : \A x \in X[k - 1] : turn[k][x] \in X[k]
    BY <1>8
  <2>2. m \in Nat
    BY <1>1
  <2>3. QED  BY <1>6, <2>1, <2>2, Stepwise
<1>10. Is(g)
  <2>1. \A k \in 1 .. m : k - 1 \in 0 .. m /\ k \in 0 .. m /\ k # 0
    BY <1>1
  <2>2. \A k \in 1 .. m : g[k] = FlipOccurrence(t, v, g[k - 1], seq[k])
    BY <1>8, <1>9, <2>1 DEF Turns
  <2>3. DOMAIN g = 0 .. m /\ g = [k \in DOMAIN g |-> g[k]]
    BY <1>9 DEF Turns
  <2>4. g[0] = r /\ \A k \in 0 .. m : k # 0 => k \in 1 .. m
    BY <1>1, <1>9 DEF Turns
  <2>5. QED  BY <2>2, <2>3, <2>4 DEF Is
<1>11. Is(run)
  BY <1>10
<1> HIDE DEF run
<1>12. run[m] \in X[m]
  <2>1. run[0] \in X[0]
    BY <1>1, <1>6, <1>11 DEF Is
  <2>2. ASSUME NEW k \in 1 .. m, run[k - 1] \in X[k - 1] PROVE run[k] \in X[k]
    <3>1. k \in 0 .. m /\ k # 0
      BY <1>1
    <3>2. run[k] = FlipOccurrence(t, v, run[k - 1], seq[k])
      BY <1>11, <3>1 DEF Is
    <3>3. QED  BY <1>8, <2>2, <3>2
  <2>3. QED  BY <1>1, <2>1, <2>2, RunStays
<1>13. m \in 0 .. m
  BY <1>1
<1>14. Walked(run[m], t, v, old, f, w, all)
  BY <1>1, <1>5, <1>12, <1>13
<1>15. QED  BY <1>2, <1>14

-----------------------------------------------------------------------------
(* The fields.                                                             *)
Ints == [Vars -> Int]

FieldsType ==
  [ soln : Solutions,
    satCount : [Clauses -> Int], satVar : [Clauses -> 0 .. NumVars],
    satVar2 : [Clauses -> 0 .. NumVars], weight : [Clauses -> Int], totalUnsat : Int,
    unsat : StackOf(Clauses), unsatVar : StackOf(Vars), app : [Vars -> Int],
    avg : Int, delta : Int, large : Seq(Clauses),
    score : Ints, breakScore : Ints, makeScore : Ints, score2 : Ints, stamp : Ints,
    nvcc : [Vars -> {0, 1}], cscc : [Vars -> {0, 1}],
    good : Seq(Vars), inGood : [Vars -> BOOLEAN],
    varPri : Ints, clausePri : [Clauses -> Int] ]

(* The counts as they should be for a solution.                            *)
Counting(soln) == [c \in Clauses |-> Cardinality(Held(soln, c))]

UnsatOf(soln) == { c \in Clauses : Held(soln, c) = {} }

(* What flip leaves alone.                                                 *)
SameButCounts(x, q) ==
  /\ x.weight = q.weight /\ x.score = q.score /\ x.large = q.large
  /\ x.avg = q.avg /\ x.delta = q.delta
  /\ x.satVar2 = q.satVar2 /\ x.score2 = q.score2
  /\ x.breakScore = q.breakScore /\ x.makeScore = q.makeScore
  /\ Goods(x) = Goods(q) /\ x.nvcc = q.nvcc

LEMMA WithCountsIs ==
  ASSUME NEW q \in FieldsType, NEW r \in CountsType
  PROVE  /\ WithCounts(q, r) \in FieldsType
         /\ Counts(WithCounts(q, r)) = r
         /\ WithCounts(q, r).soln = q.soln
         /\ SameButCounts(WithCounts(q, r), q)
<1> DEFINE x == WithCounts(q, r)
<1>1. x \in FieldsType
  BY DEF FieldsType, CountsType, WithCounts
<1>2. /\ x.satCount = r.satCount /\ x.satVar = r.satVar /\ x.unsat = r.unsat
      /\ x.totalUnsat = r.totalUnsat /\ x.app = r.app /\ x.unsatVar = r.unsatVar
  BY DEF FieldsType, WithCounts
<1>3. Counts(x) = r
  BY <1>2 DEF Counts, CountsType
<1>4. /\ x.soln = q.soln /\ x.weight = q.weight /\ x.score = q.score /\ x.large = q.large
      /\ x.good = q.good /\ x.inGood = q.inGood /\ x.nvcc = q.nvcc
      /\ x.avg = q.avg /\ x.delta = q.delta /\ x.satVar2 = q.satVar2 /\ x.score2 = q.score2
      /\ x.breakScore = q.breakScore /\ x.makeScore = q.makeScore
  BY DEF FieldsType, WithCounts
<1> HIDE DEF x
<1>5. SameButCounts(x, q)
  BY <1>4 DEF Goods, SameButCounts
<1>6. QED  BY <1>1, <1>3, <1>4, <1>5 DEF x

(* What flip and init count agrees with the solution and the weights, and  *)
(* the one true literal of a clause that has one is noted.                 *)
NotedOne(soln, f) ==
  \A c \in Clauses : Cardinality(Held(soln, c)) = 1 => Held(soln, c) = {f[c]}

CountsExact(q) ==
  /\ Stacks(Counts(q), UnsatOf(q.soln), q.weight)
  /\ q.satCount = Counting(q.soln)
  /\ NotedOne(q.soln, q.satVar)

LEMMA CountsOfFields ==
  ASSUME NEW q \in FieldsType
  PROVE  /\ Counts(q) \in CountsType
         /\ Counts(q).satCount = q.satCount /\ Counts(q).satVar = q.satVar
         /\ Counts(q).unsat = q.unsat /\ Counts(q).unsatVar = q.unsatVar
         /\ Counts(q).app = q.app /\ Counts(q).totalUnsat = q.totalUnsat
         /\ q.soln \in Solutions /\ q.weight \in [Clauses -> Int]
         /\ q.satVar \in [Clauses -> 0 .. NumVars] /\ q.satVar2 \in [Clauses -> 0 .. NumVars]
         /\ q.satCount \in [Clauses -> Int]
<1>1. q.soln \in Solutions /\ q.weight \in [Clauses -> Int]
      /\ q.satVar \in [Clauses -> 0 .. NumVars] /\ q.satVar2 \in [Clauses -> 0 .. NumVars]
      /\ q.satCount \in [Clauses -> Int]
  BY DEF FieldsType
<1>2. Counts(q) \in CountsType
  BY DEF FieldsType, Counts, CountsType
<1>3. QED  BY <1>1, <1>2 DEF Counts

(* Set one variable: the noted variable is right after a flip.             *)
LEMMA NotedAfter ==
  ASSUME ClausesExact, NEW old \in Solutions, NEW v \in Vars, NEW t, t.soln = Flipped(old, v),
         NEW c \in Clauses, v \in ClauseVars[c], NEW u,
         Cardinality(Held(old, c)) = 1 => Held(old, c) = {u},
         Cardinality(Held(t.soln, c)) = 1
  PROVE  Held(t.soln, c) = {NotedVar(t, v, c, Cardinality(Held(old, c)), u)}
<1> DEFINE n == Cardinality(Held(old, c))
           A == Held(old, c)
           B == Held(t.soln, c)
           s1 == [soln |-> old]
<1>1. /\ t.soln \in Solutions /\ SenseIn(c, v) \in {0, 1}
      /\ t.soln[v] = SenseIn(c, v) => v \notin A /\ B = A \cup {v} /\ Cardinality(B) = n + 1
      /\ t.soln[v] # SenseIn(c, v) => v \in A /\ B = A \ {v} /\ Cardinality(B) = n - 1
  <2>1. /\ Flipped(old, v) \in Solutions
        /\ SenseIn(c, v) \in {0, 1}
        /\ v \in ClauseVars[c] /\ Flipped(old, v)[v] = SenseIn(c, v) =>
             /\ v \notin Held(old, c) /\ Held(Flipped(old, v), c) = Held(old, c) \cup {v}
             /\ Cardinality(Held(Flipped(old, v), c)) = Cardinality(Held(old, c)) + 1
        /\ v \in ClauseVars[c] /\ Flipped(old, v)[v] # SenseIn(c, v) =>
             /\ v \in Held(old, c) /\ Held(Flipped(old, v), c) = Held(old, c) \ {v}
             /\ Cardinality(Held(Flipped(old, v), c)) = Cardinality(Held(old, c)) - 1
    BY HeldFlipped
  <2>2. QED  BY <2>1
<1>2. s1.soln = old
  OBVIOUS
<1> HIDE DEF s1
<1>3. IsFiniteSet(A) /\ n \in Nat /\ IsFiniteSet(B)
  BY <1>1, <1>2, TrueVarsIs
<1>4. n = 0 => A = {}
  BY <1>3, FS_EmptySet
<1> HIDE DEF n, A, B
<1>5. CASE t.soln[v] = SenseIn(c, v)
  <2>1. n = 0
    BY <1>1, <1>3, <1>5 DEF B
  <2>2. B = {v}
    BY <1>1, <1>4, <1>5, <2>1
  <2>3. QED  BY <1>5, <2>1, <2>2 DEF NotedVar, n, B
<1>6. CASE t.soln[v] # SenseIn(c, v)
  <2> DEFINE a == TrueSeq(t, c)[1]
  <2>1. n = 2 /\ Cardinality(B) = 1
    BY <1>1, <1>3, <1>6 DEF B
  <2>2. B # {}
    BY <2>1, FS_EmptySet
  <2>3. a \in B
    BY <1>1, <2>2, FirstTrue DEF B
  <2> HIDE DEF a
  <2>4. B = {a}
    <3>1. Cardinality(B \ {a}) = 0 /\ IsFiniteSet(B \ {a})
      <4>1. Cardinality(B \ {a}) = Cardinality(B) - 1 /\ IsFiniteSet(B \ {a})
        BY <1>3, <2>3, FS_RemoveElement
      <4>2. QED  BY <2>1, <4>1
    <3>2. B \ {a} = {}
      BY <3>1, FS_EmptySet
    <3>3. QED  BY <2>3, <3>2
  <2>5. QED  BY <1>6, <2>1, <2>4 DEF NotedVar, n, B, a
<1>7. QED  BY <1>5, <1>6

(* The noted variable of a clause changes only when v makes the clause     *)
(* true, or was true in it and no longer is.                               *)
NotesKept(v, old, new, f, g) ==
  \A c \in Clauses :
    \/ g[c] = f[c]
    \/ v \in ClauseVars[c] /\ Held(old, c) = {}
    \/ v \in ClauseVars[c] /\ v \notin Held(new, c)

(* flip.                                                                   *)
LEMMA FlipIs ==
  ASSUME ClausesExact, VarsExact, NEW q \in FieldsType, CountsExact(q), NEW v \in Vars
  PROVE  /\ Flip(q, v) \in FieldsType /\ CountsExact(Flip(q, v))
         /\ Flip(q, v).soln = Flipped(q.soln, v)
         /\ SameButCounts(Flip(q, v), q)
         /\ NotesKept(v, q.soln, Flip(q, v).soln, q.satVar, Flip(q, v).satVar)
<1> DEFINE old == q.soln
           w == q.weight
           f == q.satVar
           t == [q EXCEPT !.soln[v] = 1 - @]
           r == Counts(q)
           D == { c \in Clauses : v \in ClauseVars[c] }
           y == FlipCounts(t, v, r)
           x == Flip(q, v)
<1>1. /\ r \in CountsType /\ old \in Solutions /\ w \in [Clauses -> Int]
      /\ f \in [Clauses -> 0 .. NumVars]
      /\ r.satCount = q.satCount /\ r.satVar = f
  BY CountsOfFields
<1>2. /\ t \in FieldsType /\ t.soln = Flipped(old, v) /\ t.weight = w /\ Counts(t) = Counts(q)
      /\ SameButCounts(t, q)
  <2>1. t = [q EXCEPT !.soln = Flipped(old, v)]
    BY DEF Flipped
  <2>2. Flipped(old, v) \in Solutions
    BY <1>1 DEF Flipped, Solutions
  <2> HIDE DEF t
  <2>3. t \in FieldsType
    BY <2>1, <2>2 DEF FieldsType
  <2>4. /\ t.soln = Flipped(old, v) /\ t.weight = w /\ t.satCount = q.satCount
        /\ t.satVar = q.satVar /\ t.unsat = q.unsat /\ t.totalUnsat = q.totalUnsat
        /\ t.app = q.app /\ t.unsatVar = q.unsatVar
        /\ t.score = q.score /\ t.large = q.large /\ t.good = q.good /\ t.inGood = q.inGood
        /\ t.nvcc = q.nvcc /\ t.avg = q.avg /\ t.delta = q.delta /\ t.satVar2 = q.satVar2
        /\ t.score2 = q.score2 /\ t.breakScore = q.breakScore /\ t.makeScore = q.makeScore
    BY <2>1 DEF FieldsType
  <2>5. QED  BY <2>3, <2>4 DEF Counts, SameButCounts, Goods
<1>3. x = WithCounts(t, y)
  BY DEF Flip, FlipCounts
<1>4. Walked(r, t, v, old, f, w, {})
  <2>1. CountAt(old, t.soln, {}) = Counting(old)
    BY DEF CountAt, Counting
  <2>2. UnsatAt(old, t.soln, {}) = UnsatOf(old)
    BY DEF UnsatAt, UnsatOf
  <2>3. NotedAt(t, v, old, f, {}) = f
    BY <1>1 DEF NotedAt
  <2> HIDE DEF t, r, old, w, f
  <2>4. QED  BY <1>1, <2>1, <2>2, <2>3 DEF Walked, CountsExact, r, old, w, f
<1> HIDE DEF t, x, y, r, old, w, f
<1>5. Walked(y, t, v, old, f, w, D)
  BY <1>1, <1>2, <1>4, FlipLoop DEF y
<1>6. Counts(x) = y /\ x \in FieldsType /\ x.soln = t.soln /\ x.weight = w /\ SameButCounts(x, q)
  <2>1. y \in CountsType
    BY <1>5 DEF Walked
  <2>2. /\ WithCounts(t, y) \in FieldsType /\ Counts(WithCounts(t, y)) = y
        /\ WithCounts(t, y).soln = t.soln /\ SameButCounts(WithCounts(t, y), t)
    BY <1>2, <2>1, WithCountsIs
  <2>3. QED  BY <1>2, <1>3, <2>2 DEF SameButCounts
<1>7. \A c \in Clauses \ D : Held(t.soln, c) = Held(old, c)
  BY <1>1, <1>2, HeldFlipped
<1>8. CountAt(old, t.soln, D) = Counting(t.soln)
  BY <1>7 DEF CountAt, Counting
<1>9. UnsatAt(old, t.soln, D) = UnsatOf(t.soln)
  BY <1>7 DEF UnsatAt, UnsatOf
<1>10. NotedOne(t.soln, NotedAt(t, v, old, f, D))
  <2> SUFFICES ASSUME NEW c \in Clauses, Cardinality(Held(t.soln, c)) = 1
               PROVE  Held(t.soln, c) = {NotedAt(t, v, old, f, D)[c]}
    BY DEF NotedOne
  <2>1. Cardinality(Held(old, c)) = 1 => Held(old, c) = {f[c]}
    BY DEF CountsExact, NotedOne, old, f
  <2>2. CASE c \in D
    <3> DEFINE u == f[c]
    <3>1. NotedAt(t, v, old, f, D)[c] = NotedVar(t, v, c, Cardinality(Held(old, c)), u)
      BY <2>2 DEF NotedAt
    <3>2. v \in ClauseVars[c]
      BY <2>2
    <3> HIDE DEF u, D
    <3>3. Held(t.soln, c) = {NotedVar(t, v, c, Cardinality(Held(old, c)), u)}
      BY <1>1, <1>2, <2>1, <3>2, NotedAfter DEF u
    <3>4. QED  BY <3>1, <3>3
  <2>3. CASE c \notin D
    BY <1>7, <2>1, <2>3 DEF NotedAt
  <2>4. QED  BY <2>2, <2>3
<1>11. x.satVar = NotedAt(t, v, old, f, D) /\ y.satCount = x.satCount /\ y.satVar = x.satVar
  BY <1>5, <1>6, CountsOfFields DEF Walked
<1>12. CountsExact(x)
  BY <1>5, <1>6, <1>8, <1>9, <1>10, <1>11 DEF CountsExact, Walked
<1>13. NotesKept(v, old, x.soln, f, x.satVar)
  <2> SUFFICES ASSUME NEW c \in Clauses
               PROVE  \/ x.satVar[c] = f[c]
                      \/ v \in ClauseVars[c] /\ Held(old, c) = {}
                      \/ v \in ClauseVars[c] /\ v \notin Held(t.soln, c)
    BY <1>6 DEF NotesKept
  <2>1. CASE c \notin D
    BY <1>11, <2>1 DEF NotedAt
  <2>2. CASE c \in D
    <3>1. x.satVar[c] = NotedVar(t, v, c, Cardinality(Held(old, c)), f[c]) /\ v \in ClauseVars[c]
      BY <1>11, <2>2 DEF NotedAt, D
    <3>2. CASE t.soln[v] # SenseIn(c, v)
      BY <3>1, <3>2 DEF Held
    <3>3. CASE t.soln[v] = SenseIn(c, v)
      <4>1. IsFiniteSet(Held(old, c))
        <5>1. q.soln \in Solutions
          BY <1>1 DEF old
        <5>2. QED  BY <5>1, TrueVarsIs DEF old
      <4>2. Cardinality(Held(old, c)) = 0 => Held(old, c) = {}
        BY <4>1, FS_EmptySet
      <4>3. QED  BY <3>1, <3>3, <4>2 DEF NotedVar
    <3>4. QED  BY <3>2, <3>3
  <2>3. QED  BY <2>1, <2>2
<1>14. QED  BY <1>2, <1>6, <1>12, <1>13 DEF x, old, f

-----------------------------------------------------------------------------
(* The good variables: each once, and flagged when it is there.            *)
GoodsType == [good : Seq(Vars), inGood : [Vars -> BOOLEAN]]

GoodsOk(g) ==
  /\ g \in GoodsType
  /\ IsInjective(g.good)
  /\ \A x \in Vars : g.inGood[x] <=> x \in Range(g.good)

LEMMA AddPositiveIs ==
  ASSUME NEW q \in FieldsType, NEW g, GoodsOk(g), NEW v \in Vars
  PROVE  /\ GoodsOk(AddPositive(q, g, v))
         /\ Range(AddPositive(q, g, v).good)
              = Range(g.good) \cup (IF q.score[v] > 0 THEN {v} ELSE {})
<1> DEFINE x == AddPositive(q, g, v)
           y == AddGood(g, v)
           list == Append(g.good, v)
           flags == [g.inGood EXCEPT ![v] = TRUE]
<1>1. g \in GoodsType /\ IsInjective(g.good) /\ \A u \in Vars : g.inGood[u] <=> u \in Range(g.good)
  BY DEF GoodsOk
<1>2. CASE q.score[v] > 0 /\ ~g.inGood[v]
  <2>1. x = y
    BY <1>2 DEF AddPositive
  <2>2. y = [g EXCEPT !.good = list, !.inGood = flags]
    BY DEF AddGood
  <2>3. g.good \in Seq(Vars) /\ v \notin Range(g.good)
    BY <1>1, <1>2 DEF GoodsType
  <2>4. list \in Seq(Vars) /\ Range(list) = Range(g.good) \cup {v} /\ IsInjective(list)
    BY <1>1, <2>3, ListAppend
  <2>5. /\ flags \in [Vars -> BOOLEAN]
        /\ \A u \in Vars : flags[u] <=> (u = v \/ g.inGood[u])
    <3>1. g.inGood \in [Vars -> BOOLEAN]
      BY <1>1 DEF GoodsType
    <3> DEFINE h == g.inGood
    <3> HIDE DEF h
    <3>2. h \in [Vars -> BOOLEAN] /\ flags = [h EXCEPT ![v] = TRUE]
      BY <3>1 DEF h
    <3> HIDE DEF flags
    <3>3. flags \in [Vars -> BOOLEAN] /\ flags[v] = TRUE /\ \A u \in Vars : u # v => flags[u] = h[u]
      BY <3>2
    <3>4. QED  BY <3>3, Zenon DEF h
  <2> HIDE DEF list, flags
  <2>6. y \in GoodsType /\ y.good = list /\ y.inGood = flags
    BY <1>1, <2>2, <2>4, <2>5 DEF GoodsType
  <2> HIDE DEF y
  <2>7. \A u \in Vars : y.inGood[u] <=> u \in Range(y.good)
    BY <1>1, <2>4, <2>5, <2>6, Zenon
  <2>8. GoodsOk(y)
    BY <2>4, <2>6, <2>7 DEF GoodsOk
  <2>9. Range(y.good) = Range(g.good) \cup {v}
    BY <2>4, <2>6
  <2>10. QED  BY <1>2, <2>1, <2>8, <2>9
<1>3. CASE ~(q.score[v] > 0 /\ ~g.inGood[v])
  <2>1. x = g
    BY <1>3 DEF AddPositive
  <2>2. q.score[v] > 0 => v \in Range(g.good)
    BY <1>1, <1>3
  <2>3. QED  BY <2>1, <2>2
<1>4. QED  BY <1>2, <1>3

(* The variables of seq whose score is positive are added.                 *)
AddedAll(q, g0, seq) == Loop(LAMBDA g, x : AddPositive(q, g, x), g0, seq)
LEMMA AddedAllIs ==
  ASSUME NEW q \in FieldsType, NEW g0, GoodsOk(g0), NEW seq \in Seq(Vars)
  PROVE  /\ GoodsOk(AddedAll(q, g0, seq))
         /\ Range(AddedAll(q, g0, seq).good)
              = Range(g0.good) \cup { v \in Range(seq) : q.score[v] > 0 }
<1> DEFINE m == Len(seq)
           Met(k) == { v \in { seq[i] : i \in 1 .. k } : q.score[v] > 0 }
           Part(k, x) == GoodsOk(x) /\ Range(x.good) = Range(g0.good) \cup Met(k)
           X == [k \in 0 .. m |-> { x \in GoodsType : Part(k, x) }]
           turn == [k \in 1 .. m |-> [x \in X[k - 1] |-> AddPositive(q, x, seq[k])]]
           Is(g) == g = [k \in 0 .. m |-> IF k = 0 THEN g0 ELSE AddPositive(q, g[k - 1], seq[k])]
           run == CHOOSE g : Is(g)
<1>1. m \in Nat /\ (\A k \in 1 .. m : seq[k] \in Vars) /\ DOMAIN seq = 1 .. m
  OBVIOUS
<1>2. AddedAll(q, g0, seq) = run[m]
  BY DEF AddedAll, AddPositive, Loop
<1> HIDE DEF m, Part, Met
<1>3. Met(0) = {}
  BY DEF Met
<1>4. \A k \in 1 .. m : Met(k) = Met(k - 1) \cup (IF q.score[seq[k]] > 0 THEN {seq[k]} ELSE {})
  <2> SUFFICES ASSUME NEW k \in 1 .. m
               PROVE  Met(k) = Met(k - 1) \cup (IF q.score[seq[k]] > 0 THEN {seq[k]} ELSE {})
    OBVIOUS
  <2>1. 1 .. k = (1 .. (k - 1)) \cup {k}
    BY <1>1
  <2>2. QED  BY <2>1 DEF Met
<1>5. \A k \in 0 .. m : \A x : x \in X[k] <=> x \in GoodsType /\ Part(k, x)
  OBVIOUS
<1> HIDE DEF X
<1>6. g0 \in X[0]
  <2>1. g0 \in GoodsType /\ Part(0, g0)
    BY <1>3 DEF Part, GoodsOk
  <2>2. 0 \in 0 .. m
    BY <1>1
  <2>3. QED  BY <1>5, <2>1, <2>2
<1>7. ASSUME NEW k \in 1 .. m, NEW x \in X[k - 1] PROVE AddPositive(q, x, seq[k]) \in X[k]
  <2> DEFINE y == AddPositive(q, x, seq[k])
  <2>1. k - 1 \in 0 .. m /\ k \in 0 .. m /\ seq[k] \in Vars
    BY <1>1
  <2>2. GoodsOk(x) /\ Range(x.good) = Range(g0.good) \cup Met(k - 1)
    BY <1>5, <2>1 DEF Part
  <2>3. GoodsOk(y) /\ Range(y.good) = Range(x.good) \cup (IF q.score[seq[k]] > 0 THEN {seq[k]} ELSE {})
    BY <2>1, <2>2, AddPositiveIs
  <2> HIDE DEF y
  <2>4. Range(y.good) = Range(g0.good) \cup Met(k)
    BY <1>4, <2>2, <2>3
  <2>5. y \in GoodsType
    BY <2>3 DEF GoodsOk
  <2>6. QED  BY <1>5, <2>1, <2>3, <2>4, <2>5 DEF Part, y
<1>8. \A k \in 1 .. m : \A x \in X[k - 1] : turn[k][x] \in X[k] /\ turn[k][x] = AddPositive(q, x, seq[k])
  BY <1>7
<1> HIDE DEF turn, Is
<1>9. PICK g : Turns(g, m, g0, turn) /\ \A k \in 0 .. m : g[k] \in X[k]
  <2>1. \A k \in 1 .. m : \A x \in X[k - 1] : turn[k][x] \in X[k]
    BY <1>8
  <2>2. m \in Nat
    BY <1>1
  <2>3. QED  BY <1>6, <2>1, <2>2, Stepwise
<1>10. Is(g)
  <2>1. \A k \in 1 .. m : k - 1 \in 0 .. m /\ k \in 0 .. m /\ k # 0
    BY <1>1
  <2>2. \A k \in 1 .. m : g[k] = AddPositive(q, g[k - 1], seq[k])
    BY <1>8, <1>9, <2>1 DEF Turns
  <2>3. DOMAIN g = 0 .. m /\ g = [k \in DOMAIN g |-> g[k]]
    BY <1>9 DEF Turns
  <2>4. g[0] = g0 /\ \A k \in 0 .. m : k # 0 => k \in 1 .. m
    BY <1>1, <1>9 DEF Turns
  <2>5. QED  BY <2>2, <2>3, <2>4 DEF Is
<1>11. Is(run)
  BY <1>10
<1> HIDE DEF run
<1>12. run[m] \in X[m]
  <2>1. run[0] \in X[0]
    BY <1>1, <1>6, <1>11 DEF Is
  <2>2. ASSUME NEW k \in 1 .. m, run[k - 1] \in X[k - 1] PROVE run[k] \in X[k]
    <3>1. k \in 0 .. m /\ k # 0
      BY <1>1
    <3>2. run[k] = AddPositive(q, run[k - 1], seq[k])
      BY <1>11, <3>1 DEF Is
    <3>3. QED  BY <1>8, <2>2, <3>2
  <2>3. QED  BY <1>1, <2>1, <2>2, RunStays
<1>13. m \in 0 .. m
  BY <1>1
<1>14. GoodsOk(run[m]) /\ Range(run[m].good) = Range(g0.good) \cup Met(m)
  BY <1>5, <1>12, <1>13 DEF Part
<1>15. Met(m) = { v \in Range(seq) : q.score[v] > 0 }
  BY <1>1 DEF Met, Range
<1>16. QED  BY <1>2, <1>14, <1>15

(* The same for those whose neighbourhood has changed.                     *)
AddedNew(q, g0, seq) == Loop(LAMBDA g, x : NewlyGood(q, g, x), g0, seq)

LEMMA NewlyGoodIs ==
  ASSUME NEW q \in FieldsType, NEW g, GoodsOk(g), NEW v \in Vars
  PROVE  /\ GoodsOk(NewlyGood(q, g, v))
         /\ Range(NewlyGood(q, g, v).good)
              = Range(g.good) \cup (IF q.score[v] > 0 /\ q.nvcc[v] = 1 THEN {v} ELSE {})
<1>1. CASE q.nvcc[v] = 1
  <2>1. NewlyGood(q, g, v) = AddPositive(q, g, v)
    BY <1>1 DEF NewlyGood
  <2>2. QED  BY <1>1, <2>1, AddPositiveIs
<1>2. CASE q.nvcc[v] # 1
  BY <1>2 DEF NewlyGood
<1>3. QED  BY <1>1, <1>2

LEMMA AddedNewIs ==
  ASSUME NEW q \in FieldsType, NEW g0, GoodsOk(g0), NEW seq \in Seq(Vars)
  PROVE  /\ GoodsOk(AddedNew(q, g0, seq))
         /\ Range(AddedNew(q, g0, seq).good)
              = Range(g0.good) \cup { v \in Range(seq) : q.score[v] > 0 /\ q.nvcc[v] = 1 }
<1> DEFINE m == Len(seq)
           Met(k) == { v \in { seq[i] : i \in 1 .. k } : q.score[v] > 0 /\ q.nvcc[v] = 1 }
           Part(k, x) == GoodsOk(x) /\ Range(x.good) = Range(g0.good) \cup Met(k)
           X == [k \in 0 .. m |-> { x \in GoodsType : Part(k, x) }]
           turn == [k \in 1 .. m |-> [x \in X[k - 1] |-> NewlyGood(q, x, seq[k])]]
           Is(g) == g = [k \in 0 .. m |-> IF k = 0 THEN g0 ELSE NewlyGood(q, g[k - 1], seq[k])]
           run == CHOOSE g : Is(g)
<1>1. m \in Nat /\ (\A k \in 1 .. m : seq[k] \in Vars) /\ DOMAIN seq = 1 .. m
  OBVIOUS
<1>2. AddedNew(q, g0, seq) = run[m]
  BY DEF AddedNew, NewlyGood, Loop
<1> HIDE DEF m, Part, Met
<1>3. Met(0) = {}
  BY DEF Met
<1>4. \A k \in 1 .. m : Met(k) = Met(k - 1) \cup (IF q.score[seq[k]] > 0 /\ q.nvcc[seq[k]] = 1 THEN {seq[k]} ELSE {})
  <2> SUFFICES ASSUME NEW k \in 1 .. m
               PROVE  Met(k) = Met(k - 1) \cup (IF q.score[seq[k]] > 0 /\ q.nvcc[seq[k]] = 1 THEN {seq[k]} ELSE {})
    OBVIOUS
  <2>1. 1 .. k = (1 .. (k - 1)) \cup {k}
    BY <1>1
  <2>2. QED  BY <2>1 DEF Met
<1>5. \A k \in 0 .. m : \A x : x \in X[k] <=> x \in GoodsType /\ Part(k, x)
  OBVIOUS
<1> HIDE DEF X
<1>6. g0 \in X[0]
  <2>1. g0 \in GoodsType /\ Part(0, g0)
    BY <1>3 DEF Part, GoodsOk
  <2>2. 0 \in 0 .. m
    BY <1>1
  <2>3. QED  BY <1>5, <2>1, <2>2
<1>7. ASSUME NEW k \in 1 .. m, NEW x \in X[k - 1] PROVE NewlyGood(q, x, seq[k]) \in X[k]
  <2> DEFINE y == NewlyGood(q, x, seq[k])
  <2>1. k - 1 \in 0 .. m /\ k \in 0 .. m /\ seq[k] \in Vars
    BY <1>1
  <2>2. GoodsOk(x) /\ Range(x.good) = Range(g0.good) \cup Met(k - 1)
    BY <1>5, <2>1 DEF Part
  <2>3. GoodsOk(y) /\ Range(y.good) = Range(x.good) \cup (IF q.score[seq[k]] > 0 /\ q.nvcc[seq[k]] = 1 THEN {seq[k]} ELSE {})
    BY <2>1, <2>2, NewlyGoodIs
  <2> HIDE DEF y
  <2>4. Range(y.good) = Range(g0.good) \cup Met(k)
    BY <1>4, <2>2, <2>3
  <2>5. y \in GoodsType
    BY <2>3 DEF GoodsOk
  <2>6. QED  BY <1>5, <2>1, <2>3, <2>4, <2>5 DEF Part, y
<1>8. \A k \in 1 .. m : \A x \in X[k - 1] : turn[k][x] \in X[k] /\ turn[k][x] = NewlyGood(q, x, seq[k])
  BY <1>7
<1> HIDE DEF turn, Is
<1>9. PICK g : Turns(g, m, g0, turn) /\ \A k \in 0 .. m : g[k] \in X[k]
  <2>1. \A k \in 1 .. m : \A x \in X[k - 1] : turn[k][x] \in X[k]
    BY <1>8
  <2>2. m \in Nat
    BY <1>1
  <2>3. QED  BY <1>6, <2>1, <2>2, Stepwise
<1>10. Is(g)
  <2>1. \A k \in 1 .. m : k - 1 \in 0 .. m /\ k \in 0 .. m /\ k # 0
    BY <1>1
  <2>2. \A k \in 1 .. m : g[k] = NewlyGood(q, g[k - 1], seq[k])
    BY <1>8, <1>9, <2>1 DEF Turns
  <2>3. DOMAIN g = 0 .. m /\ g = [k \in DOMAIN g |-> g[k]]
    BY <1>9 DEF Turns
  <2>4. g[0] = g0 /\ \A k \in 0 .. m : k # 0 => k \in 1 .. m
    BY <1>1, <1>9 DEF Turns
  <2>5. QED  BY <2>2, <2>3, <2>4 DEF Is
<1>11. Is(run)
  BY <1>10
<1> HIDE DEF run
<1>12. run[m] \in X[m]
  <2>1. run[0] \in X[0]
    BY <1>1, <1>6, <1>11 DEF Is
  <2>2. ASSUME NEW k \in 1 .. m, run[k - 1] \in X[k - 1] PROVE run[k] \in X[k]
    <3>1. k \in 0 .. m /\ k # 0
      BY <1>1
    <3>2. run[k] = NewlyGood(q, run[k - 1], seq[k])
      BY <1>11, <3>1 DEF Is
    <3>3. QED  BY <1>8, <2>2, <3>2
  <2>3. QED  BY <1>1, <2>1, <2>2, RunStays
<1>13. m \in 0 .. m
  BY <1>1
<1>14. GoodsOk(run[m]) /\ Range(run[m].good) = Range(g0.good) \cup Met(m)
  BY <1>5, <1>12, <1>13 DEF Part
<1>15. Met(m) = { v \in Range(seq) : q.score[v] > 0 /\ q.nvcc[v] = 1 }
  BY <1>1 DEF Met, Range
<1>16. QED  BY <1>2, <1>14, <1>15

-----------------------------------------------------------------------------
(* init, when it has counted the clauses D.                                *)
CountedAt(soln, D) == [c \in Clauses |-> IF c \in D THEN Cardinality(Held(soln, c)) ELSE 0]

Begun(x, soln, w, D) ==
  /\ x \in CountsType
  /\ Stacks(x, { c \in Clauses : c \in D /\ Held(soln, c) = {} }, w)
  /\ x.satCount = CountedAt(soln, D)
  /\ \A c \in Clauses : c \in D /\ Cardinality(Held(soln, c)) = 1 => Held(soln, c) = {x.satVar[c]}

LEMMA MarkedUnsat ==
  ASSUME ClausesExact, NEW r \in CountsType, NEW w \in [Clauses -> Int], NEW m \in Int,
         NEW u \in 0 .. NumVars,
         NEW U \in SUBSET Clauses, Stacks(r, U, w), NEW c \in Clauses, c \notin U
  PROVE  /\ Becomes(Unsat(Marked(Counted(r, c, m), c, u), c, w[c]), r, c, m, u, U \cup {c}, w)
         /\ Becomes(Marked(Counted(r, c, m), c, u), r, c, m, u, U, w)
<1> DEFINE y == Counted(r, c, m)
           q == Marked(y, c, u)
<1>1. y \in CountsType /\ y.satCount = Put(r.satCount, c, m) /\ y.satVar = r.satVar
      /\ Stacks(y, U, w)
  BY SetCount
<1> HIDE DEF y
<1>2. /\ q \in CountsType /\ q.satVar = Put(y.satVar, c, u) /\ q.satCount = y.satCount
      /\ Stacks(q, U, w)
  BY <1>1, SetSatVar
<1> HIDE DEF q
<1>3. UnsatKeeps(q, c, w, U)
  BY <1>2, StacksWith
<1>4. QED  BY <1>1, <1>2, <1>3 DEF y, q, UnsatKeeps, Keeps, Becomes

LEMMA CountClauseIs ==
  ASSUME ClausesExact, NEW q \in FieldsType, NEW D, NEW c \in Clauses, c \notin D,
         NEW r, Begun(r, q.soln, q.weight, D)
  PROVE  Begun(CountClause(q, r, c), q.soln, q.weight, D \cup {c})
<1> DEFINE soln == q.soln
           w == q.weight
           seq == TrueSeq(q, c)
           n == Len(seq)
           u == IF seq = <<>> THEN r.satVar[c] ELSE Last(seq)
           U == { d \in Clauses : d \in D /\ Held(soln, d) = {} }
           V == { d \in Clauses : d \in D \cup {c} /\ Held(soln, d) = {} }
           y == Marked(Counted(r, c, n), c, u)
           x == CountClause(q, r, c)
<1>1. /\ r \in CountsType /\ Stacks(r, U, w) /\ r.satCount = CountedAt(soln, D)
      /\ \A d \in Clauses : d \in D /\ Cardinality(Held(soln, d)) = 1 => Held(soln, d) = {r.satVar[d]}
  BY DEF Begun
<1>2. /\ soln \in Solutions /\ w \in [Clauses -> Int]
  BY CountsOfFields
<1>3. /\ seq \in Seq(Vars) /\ Range(seq) = Held(soln, c) /\ n = Cardinality(Held(soln, c)) /\ n \in Nat
  BY <1>2, TrueVarsIs
<1>4. x = IF seq = <<>> THEN Unsat(y, c, w[c]) ELSE y
  BY DEF CountClause, Marked, Counted, Put
<1>5. U \in SUBSET Clauses /\ c \notin U
  OBVIOUS
<1>6. V = IF Held(soln, c) = {} THEN U \cup {c} ELSE U
  OBVIOUS
<1> HIDE DEF x, y, U, V, seq, soln, w
<1>7. (seq = <<>> <=> Held(soln, c) = {}) /\ (seq # <<>> => Last(seq) \in Held(soln, c) /\ Last(seq) \in Vars)
  <2>1. CASE seq = <<>>
    BY <1>3, <2>1 DEF Range
  <2>2. CASE seq # <<>>
    <3>1. Len(seq) \in DOMAIN seq /\ Last(seq) = seq[Len(seq)]
      BY <1>3, <2>2 DEF Last
    <3>2. QED  BY <1>3, <2>2, <3>1 DEF Range
  <2>3. QED  BY <2>1, <2>2
<1>8. u \in 0 .. NumVars
  <2>1. r.satVar[c] \in 0 .. NumVars
    BY <1>1 DEF CountsType
  <2>2. Vars \subseteq 0 .. NumVars
    BY DEF Vars, ClausesExact
  <2>3. QED  BY <1>7, <2>1, <2>2
<1> HIDE DEF n
<1>9. Cardinality(Held(soln, c)) = 1 => Held(soln, c) = {u}
  <2> SUFFICES ASSUME n = 1 PROVE Held(soln, c) = {u}
    BY <1>3
  <2>1. DOMAIN seq = {1} /\ seq # <<>>
    BY <1>3 DEF n
  <2>2. Range(seq) = {seq[1]} /\ Last(seq) = seq[1]
    BY <2>1 DEF Range, Last, n
  <2>3. QED  BY <1>3, <2>1, <2>2
<1> HIDE DEF u
<1>10. Becomes(x, r, c, n, u, V, w)
  <2>1. n \in Int
    BY <1>3
  <2>2. CASE seq = <<>>
    <3>1. V = U \cup {c}
      BY <1>6, <1>7, <2>2
    <3>2. Becomes(Unsat(y, c, w[c]), r, c, n, u, U \cup {c}, w)
      BY <1>1, <1>2, <1>5, <1>8, <2>1, MarkedUnsat DEF y
    <3>3. QED  BY <1>4, <2>2, <3>1, <3>2
  <2>3. CASE seq # <<>>
    <3>1. V = U
      BY <1>6, <1>7, <2>3
    <3>2. Becomes(y, r, c, n, u, U, w)
      BY <1>1, <1>2, <1>5, <1>8, <2>1, MarkedUnsat DEF y
    <3>3. QED  BY <1>4, <2>3, <3>1, <3>2
  <2>4. QED  BY <2>2, <2>3
<1>11. Put(r.satCount, c, n) = CountedAt(soln, D \cup {c})
  BY <1>1, <1>3 DEF CountedAt, Put
<1>12. \A d \in Clauses : Put(r.satVar, c, u)[d] = IF d = c THEN u ELSE r.satVar[d]
  BY <1>1 DEF Put, CountsType
<1>13. \A d \in Clauses : d \in D \cup {c} /\ Cardinality(Held(soln, d)) = 1
                          => Held(soln, d) = {Put(r.satVar, c, u)[d]}
  BY <1>1, <1>9, <1>12
<1>14. QED  BY <1>10, <1>11, <1>13 DEF Becomes, Begun, x, V, soln, w

CountedAll(q, r) == Loop(LAMBDA x, c : CountClause(q, x, c), r, [c \in Clauses |-> c])

LEMMA CountedAllIs ==
  ASSUME ClausesExact, NEW q \in FieldsType, NEW r, Begun(r, q.soln, q.weight, {})
  PROVE  Begun(CountedAll(q, r), q.soln, q.weight, Clauses)
<1> DEFINE seq == [c \in Clauses |-> c]
           m == NumClauses
           X == [k \in 0 .. m |-> { x \in CountsType : Begun(x, q.soln, q.weight, 1 .. k) }]
           turn == [k \in 1 .. m |-> [x \in X[k - 1] |-> CountClause(q, x, seq[k])]]
           Is(g) == g = [k \in 0 .. m |-> IF k = 0 THEN r ELSE CountClause(q, g[k - 1], seq[k])]
           run == CHOOSE g : Is(g)
<1>1. m \in Nat /\ Clauses = 1 .. m /\ Len(seq) = m /\ \A k \in 1 .. m : seq[k] = k
  <2>1. m \in Nat /\ Clauses = 1 .. m
    BY DEF ClausesExact, Clauses
  <2>2. Len(seq) = m
    <3>1. DOMAIN seq = 1 .. m
      BY <2>1
    <3>2. seq \in Seq(Clauses)
      BY <2>1, NumbersOf
    <3> HIDE DEF seq
    <3>3. QED  BY <2>1, <3>1, <3>2
  <2>3. QED  BY <2>1, <2>2
<1>2. CountedAll(q, r) = run[m]
  <2>1. CountedAll(q, r) = (CHOOSE g : g = [k \in 0 .. Len(seq) |-> IF k = 0 THEN r ELSE CountClause(q, g[k - 1], seq[k])])[Len(seq)]
    BY DEF CountedAll, Loop
  <2>2. QED  BY <1>1, <2>1
<1> HIDE DEF seq, m
<1>3. \A k \in 0 .. m : \A x : x \in X[k] <=> x \in CountsType /\ Begun(x, q.soln, q.weight, 1 .. k)
  OBVIOUS
<1> HIDE DEF X
<1>4. r \in X[0]
  <2>1. 0 \in 0 .. m /\ r \in CountsType /\ 1 .. 0 = {}
    BY <1>1 DEF Begun
  <2>2. QED  BY <1>3, <2>1
<1>5. ASSUME NEW k \in 1 .. m, NEW x \in X[k - 1] PROVE CountClause(q, x, seq[k]) \in X[k]
  <2> DEFINE c == seq[k]
             D == 1 .. (k - 1)
             y == CountClause(q, x, c)
  <2>1. k - 1 \in 0 .. m /\ k \in 0 .. m
    BY <1>1
  <2>2. c \in Clauses /\ c \notin D /\ 1 .. k = D \cup {c}
    BY <1>1
  <2>3. Begun(x, q.soln, q.weight, D)
    BY <1>3, <2>1
  <2> HIDE DEF c, D
  <2>4. Begun(y, q.soln, q.weight, D \cup {c})
    BY <2>2, <2>3, CountClauseIs
  <2> HIDE DEF y
  <2>5. y \in CountsType
    BY <2>4 DEF Begun
  <2>6. QED  BY <1>3, <2>1, <2>2, <2>4, <2>5 DEF y, c
<1>6. \A k \in 1 .. m : \A x \in X[k - 1] : turn[k][x] \in X[k] /\ turn[k][x] = CountClause(q, x, seq[k])
  BY <1>5
<1> HIDE DEF turn, Is
<1>7. PICK g : Turns(g, m, r, turn) /\ \A k \in 0 .. m : g[k] \in X[k]
  <2>1. \A k \in 1 .. m : \A x \in X[k - 1] : turn[k][x] \in X[k]
    BY <1>6
  <2>2. m \in Nat
    BY <1>1
  <2>3. QED  BY <1>4, <2>1, <2>2, Stepwise
<1>8. Is(g)
  <2>1. \A k \in 1 .. m : k - 1 \in 0 .. m /\ k \in 0 .. m /\ k # 0
    BY <1>1
  <2>2. \A k \in 1 .. m : g[k] = CountClause(q, g[k - 1], seq[k])
    BY <1>6, <1>7, <2>1 DEF Turns
  <2>3. DOMAIN g = 0 .. m /\ g = [k \in DOMAIN g |-> g[k]]
    BY <1>7 DEF Turns
  <2>4. g[0] = r /\ \A k \in 0 .. m : k # 0 => k \in 1 .. m
    BY <1>1, <1>7 DEF Turns
  <2>5. QED  BY <2>2, <2>3, <2>4 DEF Is
<1>9. Is(run)
  BY <1>8
<1> HIDE DEF run
<1>10. run[m] \in X[m]
  <2>1. run[0] \in X[0]
    BY <1>1, <1>4, <1>9 DEF Is
  <2>2. ASSUME NEW k \in 1 .. m, run[k - 1] \in X[k - 1] PROVE run[k] \in X[k]
    <3>1. k \in 0 .. m /\ k # 0
      BY <1>1
    <3>2. run[k] = CountClause(q, run[k - 1], seq[k])
      BY <1>9, <3>1 DEF Is
    <3>3. QED  BY <1>6, <2>2, <3>2
  <2>3. QED  BY <1>1, <2>1, <2>2, RunStays
<1>11. m \in 0 .. m
  BY <1>1
<1>12. Begun(run[m], q.soln, q.weight, Clauses)
  BY <1>1, <1>3, <1>10, <1>11
<1>13. QED  BY <1>2, <1>12

(* The scores by definition are numbers.                                   *)
LEMMA OccursIn ==
  ASSUME ClausesExact, VarsExact, NEW q, NEW v \in Vars, NEW n, NEW true
  PROVE  /\ Occurs(q, v, n, true) \subseteq Clauses
         /\ IsFiniteSet(Occurs(q, v, n, true))
         /\ Cardinality(Occurs(q, v, n, true)) \in Nat
<1>1. \A o \in Range(VarLit[v]) : o.clause \in Clauses
  <2> DEFINE O == [clause : Clauses, sense : {0, 1}]
             seq == VarLit[v]
  <2>1. seq \in Seq(O)
    BY DEF VarsExact
  <2> HIDE DEF O, seq
  <2>2. \A o \in Range(seq) : o \in O
    BY <2>1 DEF Range
  <2>3. QED  BY <2>2 DEF O, seq
<1>2. Occurs(q, v, n, true) \subseteq Clauses
  BY <1>1 DEF Occurs
<1>3. IsFiniteSet(Clauses)
  BY FS_Interval DEF ClausesExact, Clauses
<1>4. QED  BY <1>2, <1>3, FS_Subset, FS_CardinalityType

LEMMA WeightIs ==
  ASSUME ClausesExact, NEW q, q.weight \in [Clauses -> Int], NEW S \in SUBSET Clauses
  PROVE  WeightOf(q, S) \in Int /\ WeightOf(q, S) = SumFunctionOnSet(q.weight, S) /\ IsFiniteSet(S)
<1>1. IsFiniteSet(Clauses)
  BY FS_Interval DEF ClausesExact, Clauses
<1>2. IsFiniteSet(S)
  BY <1>1, FS_Subset
<1> DEFINE w == q.weight
<1>3. \A c \in S : w[c] \in Int
  OBVIOUS
<1> HIDE DEF w
<1>4. SumFunctionOnSet(w, S) \in Int
  BY <1>2, <1>3, SumTakeOut
<1>5. QED  BY <1>2, <1>4 DEF WeightOf, w

LEMMA InitScoreTypes ==
  ASSUME ClausesExact, VarsExact, NEW q \in FieldsType
  PROVE  InitScore(q) \in Ints /\ InitMake(q) \in Ints /\ InitBreak(q) \in Ints /\ InitScore2(q) \in Ints
<1>1. q.weight \in [Clauses -> Int]
  BY CountsOfFields
<1>2. \A v \in Vars : \A n, true : WeightOf(q, Occurs(q, v, n, true)) \in Int
  BY <1>1, OccursIn, WeightIs
<1>3. InitMake(q) \in Ints /\ InitBreak(q) \in Ints
  BY <1>2 DEF InitMake, InitBreak, Ints
<1>4. InitScore(q) \in Ints
  BY <1>3 DEF InitScore, Ints
<1>5. InitScore2(q) \in Ints
  <2>1. \A v \in Vars : \A n, true : Cardinality(Occurs(q, v, n, true)) \in Nat
    BY OccursIn
  <2>2. ASSUME NEW v \in Vars
        PROVE  Cardinality(Occurs(q, v, 1, FALSE)) - Cardinality(Occurs(q, v, 2, TRUE)) \in Int
    <3> DEFINE a == Cardinality(Occurs(q, v, 1, FALSE))
               b == Cardinality(Occurs(q, v, 2, TRUE))
    <3>1. a \in Nat
      BY <2>1
    <3>2. b \in Nat
      BY <2>1
    <3> HIDE DEF a, b
    <3>3. a - b \in Int
      BY <3>1, <3>2
    <3>4. QED  BY <3>3 DEF a, b
  <2>3. QED  BY <2>2 DEF InitScore2, Ints
<1>6. QED  BY <1>3, <1>4, <1>5

(* Storing scores, the pairs of true literals, the good variables.         *)
SameState(x, q) ==
  /\ x.soln = q.soln /\ x.weight = q.weight /\ x.nvcc = q.nvcc /\ x.large = q.large
  /\ x.satCount = q.satCount /\ x.avg = q.avg /\ x.delta = q.delta

WithScores(q, a, b, c) == [q EXCEPT !.score = a, !.breakScore = b, !.makeScore = c]
WithScore2(q, a) == [q EXCEPT !.score2 = a]
WithPair(q, a, b) == [q EXCEPT !.satVar = a, !.satVar2 = b]

LEMMA WithScoresIs ==
  ASSUME NEW q \in FieldsType, NEW a \in Ints, NEW b \in Ints, NEW c \in Ints
  PROVE  /\ WithScores(q, a, b, c) \in FieldsType
         /\ SameState(WithScores(q, a, b, c), q)
         /\ Counts(WithScores(q, a, b, c)) = Counts(q) /\ Goods(WithScores(q, a, b, c)) = Goods(q)
         /\ WithScores(q, a, b, c).satVar = q.satVar /\ WithScores(q, a, b, c).satVar2 = q.satVar2
         /\ WithScores(q, a, b, c).score = a /\ WithScores(q, a, b, c).score2 = q.score2
         /\ WithScores(q, a, b, c).breakScore = b /\ WithScores(q, a, b, c).makeScore = c
<1> DEFINE x == WithScores(q, a, b, c)
<1>1. x \in FieldsType
  BY DEF FieldsType, WithScores
<1>2. /\ x.soln = q.soln /\ x.weight = q.weight /\ x.nvcc = q.nvcc /\ x.large = q.large
      /\ x.satCount = q.satCount /\ x.avg = q.avg /\ x.delta = q.delta
      /\ x.satVar = q.satVar /\ x.satVar2 = q.satVar2 /\ x.score = a /\ x.score2 = q.score2
      /\ x.breakScore = b /\ x.makeScore = c
      /\ x.unsat = q.unsat /\ x.unsatVar = q.unsatVar /\ x.app = q.app
      /\ x.totalUnsat = q.totalUnsat /\ x.good = q.good /\ x.inGood = q.inGood
  BY DEF FieldsType, WithScores
<1> HIDE DEF x
<1>3. Counts(x) = Counts(q) /\ Goods(x) = Goods(q) /\ SameState(x, q)
  BY <1>2 DEF Counts, Goods, SameState
<1>4. QED  BY <1>1, <1>2, <1>3 DEF x

LEMMA WithScore2Is ==
  ASSUME NEW q \in FieldsType, NEW a \in Ints
  PROVE  /\ WithScore2(q, a) \in FieldsType
         /\ SameState(WithScore2(q, a), q)
         /\ Counts(WithScore2(q, a)) = Counts(q) /\ Goods(WithScore2(q, a)) = Goods(q)
         /\ WithScore2(q, a).satVar = q.satVar /\ WithScore2(q, a).satVar2 = q.satVar2
         /\ WithScore2(q, a).score = q.score /\ WithScore2(q, a).score2 = a
         /\ WithScore2(q, a).breakScore = q.breakScore /\ WithScore2(q, a).makeScore = q.makeScore
<1> DEFINE x == WithScore2(q, a)
<1>1. x \in FieldsType
  BY DEF FieldsType, WithScore2
<1>2. /\ x.soln = q.soln /\ x.weight = q.weight /\ x.nvcc = q.nvcc /\ x.large = q.large
      /\ x.satCount = q.satCount /\ x.avg = q.avg /\ x.delta = q.delta
      /\ x.satVar = q.satVar /\ x.satVar2 = q.satVar2 /\ x.score = q.score /\ x.score2 = a
      /\ x.breakScore = q.breakScore /\ x.makeScore = q.makeScore
      /\ x.unsat = q.unsat /\ x.unsatVar = q.unsatVar /\ x.app = q.app
      /\ x.totalUnsat = q.totalUnsat /\ x.good = q.good /\ x.inGood = q.inGood
  BY DEF FieldsType, WithScore2
<1> HIDE DEF x
<1>3. Counts(x) = Counts(q) /\ Goods(x) = Goods(q) /\ SameState(x, q)
  BY <1>2 DEF Counts, Goods, SameState
<1>4. QED  BY <1>1, <1>2, <1>3 DEF x

LEMMA WithPairIs ==
  ASSUME NEW q \in FieldsType, NEW a \in [Clauses -> 0 .. NumVars], NEW b \in [Clauses -> 0 .. NumVars]
  PROVE  /\ WithPair(q, a, b) \in FieldsType
         /\ SameState(WithPair(q, a, b), q)
         /\ Goods(WithPair(q, a, b)) = Goods(q)
         /\ \A U, w : Stacks(Counts(q), U, w) => Stacks(Counts(WithPair(q, a, b)), U, w)
         /\ WithPair(q, a, b).satVar = a /\ WithPair(q, a, b).satVar2 = b
         /\ WithPair(q, a, b).score = q.score /\ WithPair(q, a, b).score2 = q.score2
         /\ WithPair(q, a, b).breakScore = q.breakScore /\ WithPair(q, a, b).makeScore = q.makeScore
<1> DEFINE x == WithPair(q, a, b)
<1>1. x \in FieldsType
  BY DEF FieldsType, WithPair
<1>2. /\ x.soln = q.soln /\ x.weight = q.weight /\ x.nvcc = q.nvcc /\ x.large = q.large
      /\ x.satCount = q.satCount /\ x.avg = q.avg /\ x.delta = q.delta
      /\ x.satVar = a /\ x.satVar2 = b /\ x.score = q.score /\ x.score2 = q.score2
      /\ x.breakScore = q.breakScore /\ x.makeScore = q.makeScore
      /\ x.unsat = q.unsat /\ x.unsatVar = q.unsatVar /\ x.app = q.app
      /\ x.totalUnsat = q.totalUnsat /\ x.good = q.good /\ x.inGood = q.inGood
  BY DEF FieldsType, WithPair
<1> HIDE DEF x
<1>3. Goods(x) = Goods(q) /\ SameState(x, q)
  BY <1>2 DEF Goods, SameState
<1>4. /\ Counts(x).unsat = Counts(q).unsat /\ Counts(x).totalUnsat = Counts(q).totalUnsat
      /\ Counts(x).app = Counts(q).app /\ Counts(x).unsatVar = Counts(q).unsatVar
  BY <1>2 DEF Counts
<1>5. \A U, w : Stacks(Counts(q), U, w) => Stacks(Counts(x), U, w)
  BY <1>4, StacksSame
<1>6. QED  BY <1>1, <1>2, <1>3, <1>5 DEF x

LEMMA WithGoodsIs ==
  ASSUME NEW q \in FieldsType, NEW g \in GoodsType
  PROVE  /\ WithGoods(q, g) \in FieldsType
         /\ SameState(WithGoods(q, g), q)
         /\ Counts(WithGoods(q, g)) = Counts(q) /\ Goods(WithGoods(q, g)) = g
         /\ WithGoods(q, g).good = g.good /\ WithGoods(q, g).inGood = g.inGood
         /\ WithGoods(q, g).satVar = q.satVar /\ WithGoods(q, g).satVar2 = q.satVar2
         /\ WithGoods(q, g).score = q.score /\ WithGoods(q, g).score2 = q.score2
         /\ WithGoods(q, g).breakScore = q.breakScore /\ WithGoods(q, g).makeScore = q.makeScore
<1> DEFINE x == WithGoods(q, g)
<1>1. x \in FieldsType
  BY DEF FieldsType, WithGoods, GoodsType
<1>2. /\ x.soln = q.soln /\ x.weight = q.weight /\ x.nvcc = q.nvcc /\ x.large = q.large
      /\ x.satCount = q.satCount /\ x.avg = q.avg /\ x.delta = q.delta
      /\ x.satVar = q.satVar /\ x.satVar2 = q.satVar2 /\ x.score = q.score /\ x.score2 = q.score2
      /\ x.breakScore = q.breakScore /\ x.makeScore = q.makeScore
      /\ x.unsat = q.unsat /\ x.unsatVar = q.unsatVar /\ x.app = q.app
      /\ x.totalUnsat = q.totalUnsat /\ x.good = g.good /\ x.inGood = g.inGood
  BY DEF FieldsType, WithGoods
<1> HIDE DEF x
<1>3. Counts(x) = Counts(q) /\ Goods(x) = g /\ SameState(x, q)
  BY <1>2 DEF Counts, Goods, SameState, GoodsType
<1>4. QED  BY <1>1, <1>2, <1>3 DEF x

(* init_sat_var2 sets the pair of true literals of a clause that has two.  *)
PairIn(soln, f, g) ==
  \A c \in Clauses : Cardinality(Held(soln, c)) = 2 => Held(soln, c) = {f[c], g[c]}

LEMMA TwoTrue ==
  ASSUME ClausesExact, NEW t, t.soln \in Solutions, NEW c \in Clauses,
         Cardinality(Held(t.soln, c)) = 2
  PROVE  /\ TrueSeq(t, c)[1] \in Vars /\ TrueSeq(t, c)[2] \in Vars
         /\ Held(t.soln, c) = {TrueSeq(t, c)[1], TrueSeq(t, c)[2]}
<1> DEFINE seq == TrueSeq(t, c)
<1>1. /\ Range(seq) = Held(t.soln, c) /\ Len(seq) = 2 /\ seq \in Seq(Vars)
      /\ Held(t.soln, c) \subseteq Vars
  BY TrueVarsIs DEF Held
<1> HIDE DEF seq
<1>2. DOMAIN seq = {1, 2}
  BY <1>1
<1>3. Range(seq) = {seq[1], seq[2]}
  BY <1>2 DEF Range
<1>4. QED  BY <1>1, <1>3 DEF seq

LEMMA InitPairIs ==
  ASSUME ClausesExact, NEW q \in FieldsType, CountsExact(q)
  PROVE  /\ InitPair(q) \in FieldsType /\ CountsExact(InitPair(q))
         /\ SameState(InitPair(q), q) /\ Goods(InitPair(q)) = Goods(q)
         /\ InitPair(q).score = q.score /\ InitPair(q).score2 = q.score2
         /\ InitPair(q).breakScore = q.breakScore /\ InitPair(q).makeScore = q.makeScore
         /\ PairIn(q.soln, InitPair(q).satVar, InitPair(q).satVar2)
<1> DEFINE a == [c \in Clauses |-> IF q.satCount[c] = 2 THEN TrueSeq(q, c)[1] ELSE q.satVar[c]]
           b == [c \in Clauses |-> IF q.satCount[c] = 2 THEN TrueSeq(q, c)[2] ELSE q.satVar2[c]]
           x == InitPair(q)
<1>1. x = WithPair(q, a, b)
  BY DEF InitPair, WithPair
<1>2. /\ q.soln \in Solutions /\ q.satVar \in [Clauses -> 0 .. NumVars]
      /\ q.satVar2 \in [Clauses -> 0 .. NumVars]
  BY CountsOfFields
<1>3. \A c \in Clauses : q.satCount[c] = Cardinality(Held(q.soln, c))
  BY DEF CountsExact, Counting
<1>4. Vars \subseteq 0 .. NumVars
  BY DEF Vars, ClausesExact
<1>5. \A c \in Clauses : q.satCount[c] = 2 =>
        /\ TrueSeq(q, c)[1] \in Vars /\ TrueSeq(q, c)[2] \in Vars
        /\ Held(q.soln, c) = {TrueSeq(q, c)[1], TrueSeq(q, c)[2]}
  BY <1>2, <1>3, TwoTrue
<1>6. a \in [Clauses -> 0 .. NumVars] /\ b \in [Clauses -> 0 .. NumVars]
  BY <1>2, <1>4, <1>5
<1>7. PairIn(q.soln, a, b)
  BY <1>3, <1>5 DEF PairIn
<1>8. NotedOne(q.soln, a)
  BY <1>3 DEF NotedOne, CountsExact
<1> HIDE DEF a, b, x
<1>9. /\ x \in FieldsType /\ SameState(x, q) /\ Goods(x) = Goods(q)
      /\ \A U, w : Stacks(Counts(q), U, w) => Stacks(Counts(x), U, w)
      /\ x.satVar = a /\ x.satVar2 = b /\ x.score = q.score /\ x.score2 = q.score2
      /\ x.breakScore = q.breakScore /\ x.makeScore = q.makeScore
  BY <1>1, <1>6, WithPairIs
<1>10. CountsExact(x)
  BY <1>8, <1>9 DEF CountsExact, SameState
<1>11. QED  BY <1>7, <1>9, <1>10 DEF x

LEMMA CountsSame ==
  ASSUME NEW q \in FieldsType, NEW x \in FieldsType, CountsExact(q), SameState(x, q), Counts(x) = Counts(q)
  PROVE  CountsExact(x)
<1>1. x.satVar = q.satVar
  BY CountsOfFields
<1>2. QED  BY <1>1 DEF CountsExact, SameState

(* The sums depend on the solution, the weights and the counts alone.      *)
LEMMA SumsSame ==
  ASSUME NEW q, NEW x, SameState(x, q)
  PROVE  /\ InitScore(x) = InitScore(q) /\ InitMake(x) = InitMake(q) /\ InitBreak(x) = InitBreak(q)
         /\ InitScore2(x) = InitScore2(q)
<1>1. x.soln = q.soln /\ x.weight = q.weight /\ x.satCount = q.satCount
  BY DEF SameState
<1>2. \A v, n, true : Occurs(x, v, n, true) = Occurs(q, v, n, true)
  BY <1>1 DEF Occurs
<1>3. \A S : WeightOf(x, S) = WeightOf(q, S)
  BY <1>1 DEF WeightOf
<1>4. \A v, n, true : WeightOf(x, Occurs(x, v, n, true)) = WeightOf(q, Occurs(q, v, n, true))
  BY <1>2, <1>3
<1>5. InitMake(x) = InitMake(q)
  BY <1>4 DEF InitMake
<1>6. InitBreak(x) = InitBreak(q)
  BY <1>4 DEF InitBreak
<1>7. InitScore(x) = InitScore(q)
  BY <1>5, <1>6 DEF InitScore
<1>8. InitScore2(x) = InitScore2(q)
  BY <1>2 DEF InitScore2
<1>9. QED  BY <1>5, <1>6, <1>7, <1>8

(* The fields before init counts.                                          *)
LEMMA BaseFieldsAre ==
  ASSUME ClausesExact, NEW soln \in Solutions, NEW varPri \in Ints, NEW clausePri \in [Clauses -> Int],
         NEW q, q = BaseFields(soln, varPri, clausePri)
  PROVE  /\ q \in FieldsType /\ q.soln = soln
         /\ q.weight = [c \in Clauses |-> 1] /\ q.nvcc = [v \in Vars |-> 1]
         /\ q.avg = 1 /\ q.delta = 0 /\ q.large = <<>>
         /\ GoodsOk(Goods(q)) /\ Range(Goods(q).good) = {}
         /\ Begun(Counts(q), q.soln, q.weight, {})
<1> DEFINE zeros == [v \in Vars |-> 0]
           none == [c \in Clauses |-> 0]
           ones == [v \in Vars |-> 1]
           cs == EmptyStack(Clauses)
           vs == EmptyStack(Vars)
           empty == <<>>
           flags == [v \in Vars |-> FALSE]
           even == [c \in Clauses |-> 1]
<1>1. /\ q.soln = soln /\ q.satCount = none /\ q.satVar = none /\ q.satVar2 = none
      /\ q.weight = even /\ q.totalUnsat = 0 /\ q.unsat = cs /\ q.unsatVar = vs
      /\ q.app = zeros /\ q.avg = 1 /\ q.delta = 0 /\ q.large = empty
      /\ q.score = zeros /\ q.breakScore = zeros /\ q.makeScore = zeros /\ q.score2 = zeros
      /\ q.stamp = zeros /\ q.nvcc = ones /\ q.cscc = ones /\ q.good = empty /\ q.inGood = flags
      /\ q.varPri = varPri /\ q.clausePri = clausePri
  BY DEF BaseFields
<1>2. q = [ soln |-> soln, satCount |-> none, satVar |-> none, satVar2 |-> none, weight |-> even,
            totalUnsat |-> 0, unsat |-> cs, unsatVar |-> vs, app |-> zeros, avg |-> 1, delta |-> 0,
            large |-> empty, score |-> zeros, breakScore |-> zeros, makeScore |-> zeros,
            score2 |-> zeros, stamp |-> zeros, nvcc |-> ones, cscc |-> ones, good |-> empty,
            inGood |-> flags, varPri |-> varPri, clausePri |-> clausePri ]
  BY DEF BaseFields
<1>3. /\ zeros \in Ints /\ none \in [Clauses -> 0 .. NumVars] /\ none \in [Clauses -> Int]
      /\ ones \in [Vars -> {0, 1}] /\ flags \in [Vars -> BOOLEAN] /\ even \in [Clauses -> Int]
      /\ zeros \in [Vars -> Int]
  BY DEF Ints, ClausesExact
<1>4. empty \in Seq(Clauses) /\ empty \in Seq(Vars) /\ Range(empty) = {} /\ IsInjective(empty)
  BY DEF Range, IsInjective
<1>5. StackOver(Clauses, cs) /\ StackOver(Vars, vs) /\ OnStack(cs) = {} /\ OnStack(vs) = {}
  BY EmptyExact
<1>6. cs \in StackOf(Clauses) /\ vs \in StackOf(Vars)
  BY <1>5, StackTyped
<1>7. (\A v \in Vars : zeros[v] = 0 /\ flags[v] = FALSE) /\ \A c \in Clauses : none[c] = 0
  OBVIOUS
<1> HIDE DEF zeros, none, ones, cs, vs, empty, flags, even
<1>8. q \in FieldsType
  BY <1>2, <1>3, <1>4, <1>6 DEF FieldsType
<1>9. GoodsOk(Goods(q)) /\ Range(Goods(q).good) = {}
  <2>1. Goods(q).good = empty /\ Goods(q).inGood = flags
    BY <1>1 DEF Goods
  <2>2. Goods(q) \in GoodsType
    BY <1>1, <1>3, <1>4 DEF Goods, GoodsType
  <2>3. \A v \in Vars : flags[v] <=> v \in Range(empty)
    BY <1>4, <1>7
  <2>4. QED  BY <1>4, <2>1, <2>2, <2>3 DEF GoodsOk
<1>10. Apps({}) = zeros
  <2>1. \A v \in Vars : { c \in {} : v \in ClauseVars[c] } = {}
    OBVIOUS
  <2>2. \A v \in Vars : Cardinality({ c \in {} : v \in ClauseVars[c] }) = 0
    BY <2>1, FS_EmptySet
  <2>3. QED  BY <2>2 DEF Apps, zeros
<1>11. SumFunctionOnSet(even, {}) = 0
  <2> DEFINE none0 == {}
  <2>1. IsFiniteSet(none0) /\ none0 = {} /\ \A c \in none0 : even[c] \in Int
    BY FS_EmptySet
  <2> HIDE DEF none0
  <2>2. SumFunctionOnSet(even, none0) = 0
    BY <2>1, SumUnfolds
  <2>3. QED  BY <2>1, <2>2
<1>12. Stacks(Counts(q), {}, even)
  <2>1. { v \in Vars : zeros[v] > 0 } = {}
    BY <1>7
  <2>2. /\ Counts(q).unsat = cs /\ Counts(q).totalUnsat = 0 /\ Counts(q).app = zeros
        /\ Counts(q).unsatVar = vs
    BY <1>1 DEF Counts
  <2>3. QED  BY <1>5, <1>10, <1>11, <2>1, <2>2 DEF Stacks, Named
<1>13. Begun(Counts(q), q.soln, q.weight, {})
  <2>1. { c \in Clauses : c \in {} /\ Held(q.soln, c) = {} } = {}
    OBVIOUS
  <2>2. CountedAt(q.soln, {}) = none
    BY DEF CountedAt, none
  <2>3. Counts(q) \in CountsType /\ Counts(q).satCount = q.satCount
    BY <1>8, CountsOfFields
  <2>4. QED  BY <1>1, <1>12, <2>1, <2>2, <2>3 DEF Begun
<1>14. QED  BY <1>1, <1>8, <1>9, <1>13 DEF even, ones, empty

(* The scores, by the settings p, are those that their definition gives,   *)
(* and the average of the weights is right.                                *)
PairHeld(q) == PairIn(q.soln, q.satVar, q.satVar2)

ScoresAre(q, p) ==
  /\ q.score = InitScore(q)
  /\ p.second => q.score2 = InitScore2(q) /\ PairHeld(q)
  /\ p.prob /\ p.weighting = "none" =>
       q.breakScore = InitBreak(q) /\ q.makeScore = InitMake(q)

Averages(q) == WeightOf(q, Clauses) = q.avg * NumClauses + q.delta

(* The variables that greedy steps choose from.                            *)
GoodVars(q) == { v \in Vars : q.score[v] > 0 /\ q.nvcc[v] = 1 }

(* init.                                                                   *)
LEMMA InitIs ==
  ASSUME ClausesExact, VarsExact, NEW soln \in Solutions, NEW varPri \in Ints,
         NEW clausePri \in [Clauses -> Int], NEW p,
         NEW z, z = InitFields(soln, p, varPri, clausePri)
  PROVE  /\ z \in FieldsType /\ z.soln = soln /\ z.large = <<>> /\ CountsExact(z) /\ ScoresAre(z, p) /\ Averages(z)
         /\ GoodsOk(Goods(z)) /\ Range(z.good) = GoodVars(z)
<1> DEFINE b == BaseFields(soln, varPri, clausePri)
           r == CountedAll(b, Counts(b))
           s1 == WithCounts(b, r)
           break == IF p.prob THEN InitBreak(s1) ELSE s1.breakScore
           make == IF p.prob THEN InitMake(s1) ELSE s1.makeScore
           s2 == WithScores(s1, InitScore(s1), break, make)
           s3 == IF p.second THEN InitPair(s2) ELSE s2
           t2 == IF p.second THEN InitScore2(s3) ELSE s3.score2
           s4 == WithScore2(s3, t2)
           numbers == [v \in Vars |-> v]
           gs == AddedAll(s4, Goods(s4), numbers)
<1>1. z = InitGoods(InitSecond(InitScores(s1, p), p))
  <2>1. s1 = InitCounts(b)
    BY DEF InitCounts, CountedAll
  <2>2. QED  BY <2>1 DEF InitFields
<1>2. /\ b \in FieldsType /\ b.soln = soln
      /\ b.weight = [c \in Clauses |-> 1] /\ b.nvcc = [v \in Vars |-> 1]
      /\ b.avg = 1 /\ b.delta = 0 /\ b.large = <<>>
      /\ GoodsOk(Goods(b)) /\ Range(Goods(b).good) = {}
      /\ Begun(Counts(b), b.soln, b.weight, {})
  BY BaseFieldsAre
<1> HIDE DEF b
<1>3. Begun(r, b.soln, b.weight, Clauses)
  BY <1>2, CountedAllIs
<1>4. r \in CountsType
  BY <1>3 DEF Begun
<1> HIDE DEF r
<1>5. /\ s1 \in FieldsType /\ Counts(s1) = r /\ s1.soln = soln /\ s1.weight = b.weight
      /\ Goods(s1) = Goods(b) /\ s1.nvcc = b.nvcc
  BY <1>2, <1>4, WithCountsIs DEF SameButCounts
<1>6. s1.avg = 1 /\ s1.delta = 0 /\ s1.large = <<>>
  BY <1>2, <1>4, WithCountsIs DEF SameButCounts
<1> HIDE DEF s1
<1>7. CountsExact(s1)
  <2>1. { c \in Clauses : c \in Clauses /\ Held(soln, c) = {} } = UnsatOf(soln)
    BY DEF UnsatOf
  <2>2. CountedAt(soln, Clauses) = Counting(soln)
    BY DEF CountedAt, Counting
  <2>3. s1.satCount = r.satCount /\ s1.satVar = r.satVar
    BY <1>5, CountsOfFields
  <2>4. /\ Stacks(r, UnsatOf(soln), b.weight) /\ r.satCount = Counting(soln)
        /\ \A c \in Clauses : Cardinality(Held(soln, c)) = 1 => Held(soln, c) = {r.satVar[c]}
    BY <1>2, <1>3, <2>1, <2>2 DEF Begun
  <2>5. QED  BY <1>5, <2>3, <2>4 DEF CountsExact, NotedOne
<1>8. /\ InitScore(s1) \in Ints /\ break \in Ints /\ make \in Ints
  <2>1. InitScore(s1) \in Ints /\ InitMake(s1) \in Ints /\ InitBreak(s1) \in Ints
    BY <1>5, InitScoreTypes
  <2>2. s1.breakScore \in Ints /\ s1.makeScore \in Ints
    BY <1>5 DEF FieldsType
  <2>3. QED  BY <2>1, <2>2
<1>9. p.prob => break = InitBreak(s1) /\ make = InitMake(s1)
  OBVIOUS
<1>10. InitScores(s1, p) = s2
  BY DEF InitScores, WithScores
<1> HIDE DEF break, make
<1>11. /\ s2 \in FieldsType /\ SameState(s2, s1) /\ Counts(s2) = Counts(s1) /\ Goods(s2) = Goods(s1)
       /\ s2.score = InitScore(s1) /\ s2.breakScore = break /\ s2.makeScore = make
  BY <1>5, <1>8, WithScoresIs
<1> HIDE DEF s2
<1>12. CountsExact(s2)
  BY <1>5, <1>7, <1>11, CountsSame
<1>13. /\ s3 \in FieldsType /\ CountsExact(s3) /\ SameState(s3, s2) /\ Goods(s3) = Goods(s2)
       /\ s3.score = s2.score /\ s3.breakScore = s2.breakScore /\ s3.makeScore = s2.makeScore
       /\ p.second => PairHeld(s3)
  <2>1. SameState(s2, s2)
    BY DEF SameState
  <2>2. CASE p.second
    <3>1. s3 = InitPair(s2)
      BY <2>2
    <3>2. InitPair(s2).soln = s2.soln
      BY <1>11, <1>12, InitPairIs DEF SameState
    <3>3. PairHeld(s3)
      BY <1>11, <1>12, <3>1, <3>2, InitPairIs DEF PairHeld
    <3>4. QED  BY <1>11, <1>12, <3>1, <3>3, InitPairIs
  <2>3. CASE ~p.second
    BY <1>11, <1>12, <2>1, <2>3
  <2>4. QED  BY <2>2, <2>3
<1> HIDE DEF s3
<1>14. t2 \in Ints
  <2>1. InitScore2(s3) \in Ints
    BY <1>13, InitScoreTypes
  <2>2. s3.score2 \in Ints
    BY <1>13 DEF FieldsType
  <2>3. QED  BY <2>1, <2>2
<1>15. p.second => t2 = InitScore2(s3)
  OBVIOUS
<1>16. InitSecond(s2, p) = s4
  <2>1. CASE p.second
    BY <2>1 DEF InitSecond, WithScore2, s3
  <2>2. CASE ~p.second
    <3>1. s3 = s2 /\ s4 = [s2 EXCEPT !.score2 = s2.score2]
      BY <2>2 DEF WithScore2, s3
    <3>2. [s2 EXCEPT !.score2 = s2.score2] = s2
      BY <1>11 DEF FieldsType
    <3>3. QED  BY <2>2, <3>1, <3>2 DEF InitSecond
  <2>3. QED  BY <2>1, <2>2
<1> HIDE DEF t2
<1>17. /\ s4 \in FieldsType /\ SameState(s4, s3) /\ Counts(s4) = Counts(s3) /\ Goods(s4) = Goods(s3)
       /\ s4.satVar = s3.satVar /\ s4.satVar2 = s3.satVar2
       /\ s4.score = s3.score /\ s4.score2 = t2
       /\ s4.breakScore = s3.breakScore /\ s4.makeScore = s3.makeScore
  BY <1>13, <1>14, WithScore2Is
<1> HIDE DEF s4
<1>18. CountsExact(s4)
  BY <1>13, <1>17, CountsSame
<1>19. numbers \in Seq(Vars) /\ Range(numbers) = Vars
  <2>1. NumVars \in Nat
    BY DEF ClausesExact
  <2> DEFINE n == NumVars
             D == Vars
  <2>2. n \in Nat /\ D = 1 .. n
    BY <2>1 DEF Vars
  <2> HIDE DEF n, D
  <2>3. [i \in D |-> i] \in Seq(D) /\ Range([i \in D |-> i]) = D
    BY <2>2, NumbersOf
  <2>4. QED  BY <2>3 DEF D
<1> HIDE DEF numbers
<1>20. GoodsOk(Goods(s4)) /\ Range(Goods(s4).good) = {}
  BY <1>2, <1>5, <1>11, <1>13, <1>17
<1>21. GoodsOk(gs) /\ Range(gs.good) = { v \in Vars : s4.score[v] > 0 }
  <2>1. GoodsOk(gs) /\ Range(gs.good) = Range(Goods(s4).good) \cup { v \in Range(numbers) : s4.score[v] > 0 }
    BY <1>17, <1>19, <1>20, AddedAllIs
  <2>2. QED  BY <1>19, <1>20, <2>1
<1>22. gs \in GoodsType
  BY <1>21 DEF GoodsOk
<1>23. z = WithGoods(s4, gs)
  <2>1. z = InitGoods(s4)
    BY <1>1, <1>10, <1>16
  <2>2. InitGoods(s4) = WithGoods(s4, gs)
    BY Zenon DEF InitGoods, AddedAll, numbers
  <2>3. QED  BY <2>1, <2>2
<1> HIDE DEF gs
<1>24. /\ z \in FieldsType /\ SameState(z, s4) /\ Counts(z) = Counts(s4) /\ Goods(z) = gs
       /\ z.good = gs.good /\ z.satVar = s4.satVar /\ z.satVar2 = s4.satVar2
       /\ z.score = s4.score /\ z.score2 = s4.score2
       /\ z.breakScore = s4.breakScore /\ z.makeScore = s4.makeScore
  BY <1>17, <1>22, <1>23, WithGoodsIs
<1>25. CountsExact(z)
  BY <1>17, <1>18, <1>24, CountsSame
<1>26. /\ z.soln = soln /\ z.weight = b.weight /\ z.nvcc = b.nvcc
       /\ z.avg = 1 /\ z.delta = 0 /\ z.large = <<>>
  BY <1>5, <1>6, <1>11, <1>13, <1>17, <1>24 DEF SameState
<1>27. SameState(z, s3) /\ SameState(z, s1)
  BY <1>11, <1>13, <1>17, <1>24 DEF SameState
<1>28. ScoresAre(z, p)
  <2>1. /\ InitScore(z) = InitScore(s1) /\ InitMake(z) = InitMake(s1) /\ InitBreak(z) = InitBreak(s1)
        /\ InitScore2(z) = InitScore2(s3)
    BY <1>27, SumsSame
  <2>2. z.score = InitScore(z)
    BY <1>11, <1>13, <1>17, <1>24, <2>1
  <2>3. p.second => z.score2 = InitScore2(z)
    BY <1>15, <1>17, <1>24, <2>1
  <2>4. p.second => PairHeld(z)
    BY <1>13, <1>17, <1>24, <1>27 DEF PairHeld, SameState
  <2>5. p.prob => z.breakScore = InitBreak(z) /\ z.makeScore = InitMake(z)
    BY <1>9, <1>11, <1>13, <1>17, <1>24, <2>1
  <2>6. QED  BY <2>2, <2>3, <2>4, <2>5 DEF ScoresAre
<1>29. Averages(z)
  <2>1. \A c \in Clauses : z.weight[c] \in Nat /\ z.weight[c] = 1
    BY <1>2, <1>26
  <2>2. NumClauses \in Nat
    BY DEF ClausesExact
  <2>3. IsFiniteSet(Clauses) /\ Cardinality(Clauses) = NumClauses
    BY <2>2, FS_Interval DEF Clauses
  <2>4. WeightOf(z, Clauses) = NumClauses
    BY <2>1, <2>3, SumNatural DEF WeightOf
  <2>5. z.avg * NumClauses + z.delta = NumClauses
    BY <1>26, <2>2
  <2>6. QED  BY <2>1, <2>4, <2>5 DEF Averages
<1>30. Range(z.good) = GoodVars(z)
  <2>1. \A v \in Vars : z.nvcc[v] = 1
    BY <1>2, <1>26
  <2>2. QED  BY <1>21, <1>24, <2>1 DEF GoodVars
<1>31. QED  BY <1>21, <1>24, <1>25, <1>26, <1>28, <1>29, <1>30

-----------------------------------------------------------------------------
LEMMA FiniteClauses ==
  ASSUME ClausesExact
  PROVE  IsFiniteSet(Clauses) /\ \A S \in SUBSET Clauses : IsFiniteSet(S)
<1>1. NumClauses \in Nat
  BY DEF ClausesExact
<1>2. IsFiniteSet(Clauses)
  BY <1>1, FS_Interval DEF Clauses
<1>3. QED  BY <1>2, FS_Subset

(* The scores, clause by clause.  The sum of an array over a set is the    *)
(* sum over all clauses of the array cut to the set.                       *)
LEMMA SumWhere ==
  ASSUME ClausesExact, NEW S \in SUBSET Clauses, NEW f, \A c \in Clauses : f[c] \in Int,
         NEW h, \A c \in Clauses : h[c] = IF c \in S THEN f[c] ELSE 0
  PROVE  /\ SumFunctionOnSet(h, Clauses) = SumFunctionOnSet(f, S)
         /\ SumFunctionOnSet(f, S) \in Int
<1> DEFINE T == Clauses
           R == T \ S
<1>1. IsFiniteSet(T) /\ IsFiniteSet(S) /\ IsFiniteSet(R)
  <2>1. R \in SUBSET Clauses
    OBVIOUS
  <2>2. QED  BY <2>1, FiniteClauses
<1>2. /\ \A c \in T : h[c] \in Int
      /\ \A c \in S : f[c] \in Int /\ h[c] = f[c]
      /\ \A c \in R : h[c] \in Nat /\ h[c] = 0
      /\ S \cap R = {} /\ S \cup R = T
  OBVIOUS
<1> HIDE DEF T, R
<1>3. SumFunctionOnSet(h, S \cup R) = SumFunctionOnSet(h, S) + SumFunctionOnSet(h, R)
  <2>1. S \in SUBSET T /\ R \in SUBSET T
    BY DEF R, T
  <2>2. QED  BY <1>1, <1>2, <2>1, SumSplit
<1>4. SumFunctionOnSet(h, R) = 0
  BY <1>1, <1>2, SumNatural
<1>5. SumFunctionOnSet(h, S) = SumFunctionOnSet(f, S)
  BY <1>1, <1>2, SumSame
<1>6. SumFunctionOnSet(f, S) \in Int
  BY <1>1, <1>2, SumTakeOut
<1> DEFINE a == SumFunctionOnSet(f, S)
           b == SumFunctionOnSet(h, S \cup R)
           d == SumFunctionOnSet(h, S)
           e == SumFunctionOnSet(h, R)
<1>7. b = d + e /\ e = 0 /\ d = a /\ a \in Int
  BY <1>3, <1>4, <1>5, <1>6
<1>8. b = SumFunctionOnSet(h, Clauses)
  BY <1>2 DEF T
<1> HIDE DEF a, b, d, e
<1>9. b = a /\ a \in Int
  BY <1>7
<1>10. QED  BY <1>8, <1>9 DEF a

(* How many elements a set of clauses has, as such a sum.                  *)
LEMMA CountWhere ==
  ASSUME ClausesExact, NEW S \in SUBSET Clauses,
         NEW h, \A c \in Clauses : h[c] = IF c \in S THEN 1 ELSE 0
  PROVE  SumFunctionOnSet(h, Clauses) = Cardinality(S) /\ Cardinality(S) \in Nat
<1> DEFINE ones == [c \in Clauses |-> 1]
<1>1. IsFiniteSet(S)
  BY FiniteClauses
<1>2. \A c \in Clauses : ones[c] \in Int /\ ones[c] \in Nat /\ ones[c] = 1
  OBVIOUS
<1> HIDE DEF ones
<1>3. SumFunctionOnSet(h, Clauses) = SumFunctionOnSet(ones, S)
  <2>1. \A c \in Clauses : h[c] = IF c \in S THEN ones[c] ELSE 0
    BY <1>2
  <2>2. QED  BY <1>2, <2>1, SumWhere
<1>4. SumFunctionOnSet(ones, S) = Cardinality(S)
  BY <1>1, <1>2, SumNatural
<1>5. QED  BY <1>1, <1>3, <1>4, FS_CardinalityType

(* What each clause gives to each score of each variable.                  *)
Parts == [Vars -> [Clauses -> Int]]

MakeParts(soln, w) ==
  [u \in Vars |-> [c \in Clauses |-> IF u \in ClauseVars[c] /\ Held(soln, c) = {} THEN w[c] ELSE 0]]

BreakParts(soln, w) ==
  [u \in Vars |-> [c \in Clauses |-> IF Held(soln, c) = {u} THEN w[c] ELSE 0]]

ScoreParts(soln, w) ==
  [u \in Vars |-> [c \in Clauses |-> MakeParts(soln, w)[u][c] - BreakParts(soln, w)[u][c]]]

GainParts(soln) ==
  [u \in Vars |-> [c \in Clauses |->
     IF u \in ClauseVars[c] \ Held(soln, c) /\ Cardinality(Held(soln, c)) = 1 THEN 1 ELSE 0]]

LossParts(soln) ==
  [u \in Vars |-> [c \in Clauses |->
     IF u \in Held(soln, c) /\ Cardinality(Held(soln, c)) = 2 THEN 1 ELSE 0]]

SecondParts(soln) ==
  [u \in Vars |-> [c \in Clauses |-> GainParts(soln)[u][c] - LossParts(soln)[u][c]]]

Total(P) == [u \in Vars |-> SumFunctionOnSet(P[u], Clauses)]

LEMMA PartsType ==
  ASSUME NEW soln, NEW w \in [Clauses -> Int]
  PROVE  /\ MakeParts(soln, w) \in Parts /\ BreakParts(soln, w) \in Parts
         /\ ScoreParts(soln, w) \in Parts
         /\ GainParts(soln) \in Parts /\ LossParts(soln) \in Parts /\ SecondParts(soln) \in Parts
<1>1. MakeParts(soln, w) \in Parts /\ BreakParts(soln, w) \in Parts
  BY DEF MakeParts, BreakParts, Parts
<1>2. GainParts(soln) \in Parts /\ LossParts(soln) \in Parts
  BY DEF GainParts, LossParts, Parts
<1>3. ScoreParts(soln, w) \in Parts
  BY <1>1 DEF ScoreParts, Parts
<1>4. SecondParts(soln) \in Parts
  BY <1>2 DEF SecondParts, Parts
<1>5. QED  BY <1>1, <1>2, <1>3, <1>4

LEMMA TotalType ==
  ASSUME ClausesExact, NEW P \in Parts
  PROVE  Total(P) \in Ints
<1>1. IsFiniteSet(Clauses)
  BY FiniteClauses
<1>2. ASSUME NEW u \in Vars PROVE SumFunctionOnSet(P[u], Clauses) \in Int
  <2> DEFINE f == P[u]
  <2>1. \A c \in Clauses : f[c] \in Int
    BY DEF Parts
  <2> HIDE DEF f
  <2>2. SumFunctionOnSet(f, Clauses) \in Int
    BY <1>1, <2>1, SumTakeOut
  <2>3. QED  BY <2>2 DEF f
<1>3. QED  BY <1>2 DEF Total, Ints

(* The difference of two totals.                                           *)
LEMMA TotalMinus ==
  ASSUME ClausesExact, NEW P \in Parts, NEW Q \in Parts,
         NEW D, D = [u \in Vars |-> [c \in Clauses |-> P[u][c] - Q[u][c]]], NEW u \in Vars
  PROVE  Total(D)[u] = Total(P)[u] - Total(Q)[u]
<1> DEFINE f == D[u]
           e == Q[u]
           h == P[u]
<1>1. IsFiniteSet(Clauses)
  BY FiniteClauses
<1>2. \A c \in Clauses : f[c] \in Int /\ e[c] \in Int /\ h[c] = f[c] + e[c]
  BY DEF Parts
<1>3. /\ Total(D)[u] = SumFunctionOnSet(f, Clauses) /\ Total(P)[u] = SumFunctionOnSet(h, Clauses)
      /\ Total(Q)[u] = SumFunctionOnSet(e, Clauses)
  BY DEF Total
<1> HIDE DEF f, e, h
<1>4. SumFunctionOnSet(h, Clauses) = SumFunctionOnSet(f, Clauses) + SumFunctionOnSet(e, Clauses)
  BY <1>1, <1>2, SumPlus
<1>5. SumFunctionOnSet(f, Clauses) \in Int /\ SumFunctionOnSet(e, Clauses) \in Int
  BY <1>1, <1>2, SumTakeOut
<1>6. QED  BY <1>3, <1>4, <1>5

(* The clauses in which v has a given part, when the counts are right.     *)
LEMMA OccursIs ==
  ASSUME ClausesExact, VarsExact, NEW q \in FieldsType, q.satCount = Counting(q.soln),
         NEW v \in Vars
  PROVE  /\ Occurs(q, v, 0, FALSE) = { c \in Clauses : v \in ClauseVars[c] /\ Held(q.soln, c) = {} }
         /\ Occurs(q, v, 1, TRUE) = { c \in Clauses : Held(q.soln, c) = {v} }
         /\ Occurs(q, v, 1, FALSE) =
              { c \in Clauses : v \in ClauseVars[c] \ Held(q.soln, c) /\ Cardinality(Held(q.soln, c)) = 1 }
         /\ Occurs(q, v, 2, TRUE) =
              { c \in Clauses : v \in Held(q.soln, c) /\ Cardinality(Held(q.soln, c)) = 2 }
<1> DEFINE soln == q.soln
           L == VarLit[v]
           Entry == [clause : Clauses, sense : {0, 1}]
<1>1. soln \in Solutions
  BY CountsOfFields
<1>2. \A c \in Clauses : /\ q.satCount[c] = Cardinality(Held(soln, c))
                         /\ IsFiniteSet(Held(soln, c)) /\ Held(soln, c) \subseteq ClauseVars[c]
  BY <1>1, TrueVarsIs DEF Counting, Held
<1>3. /\ \A i \in 1 .. Len(L) : /\ L[i].clause \in Clauses /\ L[i].sense = SenseIn(L[i].clause, v)
                                /\ v \in ClauseVars[L[i].clause]
      /\ \A c \in Clauses : v \in ClauseVars[c] => \E i \in 1 .. Len(L) : L[i].clause = c
      /\ DOMAIN L = 1 .. Len(L)
  <2>1. L \in Seq(Entry) /\ \A e \in Entry : e.clause \in Clauses
    BY DEF VarsExact
  <2> HIDE DEF L, Entry
  <2>2. \A i \in 1 .. Len(L) : L[i] \in Entry
    BY <2>1
  <2>3. \A i \in 1 .. Len(L) : L[i].clause \in Clauses
    BY <2>1, <2>2
  <2>4. QED  BY <2>1, <2>3 DEF VarsExact, L
<1> HIDE DEF L
<1>4. ASSUME NEW n, NEW true \in BOOLEAN
      PROVE  Occurs(q, v, n, true) =
               { c \in Clauses : /\ v \in ClauseVars[c] /\ q.satCount[c] = n
                                 /\ (v \in Held(soln, c)) = true }
  <2>1. Occurs(q, v, n, true) =
          { L[i].clause : i \in { j \in 1 .. Len(L) : /\ q.satCount[L[j].clause] = n
                                                      /\ (L[j].sense = soln[v]) = true } }
    BY <1>3 DEF Occurs, Range, L
  <2>2. \A i \in 1 .. Len(L) : (L[i].sense = soln[v]) = (v \in Held(soln, L[i].clause))
    BY <1>3 DEF Held
  <2>3. QED  BY <1>3, <2>1, <2>2
<1>5. \A c \in Clauses : Cardinality(Held(soln, c)) = 0 <=> Held(soln, c) = {}
  BY <1>2, FS_EmptySet
<1>6. \A c \in Clauses : v \in Held(soln, c) /\ Cardinality(Held(soln, c)) = 1 <=> Held(soln, c) = {v}
  BY <1>2, FS_Singleton
<1>7. \A n : Occurs(q, v, n, TRUE) =
        { c \in Clauses : v \in Held(soln, c) /\ Cardinality(Held(soln, c)) = n }
  <2>1. \A n : Occurs(q, v, n, TRUE) =
        { c \in Clauses : v \in ClauseVars[c] /\ q.satCount[c] = n /\ (v \in Held(soln, c)) = TRUE }
    BY <1>4
  <2>2. QED  BY <1>2, <2>1
<1>8. \A n : Occurs(q, v, n, FALSE) =
        { c \in Clauses : v \in ClauseVars[c] \ Held(soln, c) /\ Cardinality(Held(soln, c)) = n }
  <2>1. \A n : Occurs(q, v, n, FALSE) =
        { c \in Clauses : v \in ClauseVars[c] /\ q.satCount[c] = n /\ (v \in Held(soln, c)) = FALSE }
    BY <1>4
  <2>2. \A c : (v \in Held(soln, c)) = FALSE <=> v \notin Held(soln, c)
    OBVIOUS
  <2>3. ASSUME NEW n, NEW c \in Clauses
        PROVE  (v \in ClauseVars[c] /\ q.satCount[c] = n /\ (v \in Held(soln, c)) = FALSE)
                 <=> (v \in ClauseVars[c] \ Held(soln, c) /\ Cardinality(Held(soln, c)) = n)
    BY <1>2, <2>2, Zenon
  <2>4. ASSUME NEW n
        PROVE  Occurs(q, v, n, FALSE) =
                 { c \in Clauses : v \in ClauseVars[c] \ Held(soln, c) /\ Cardinality(Held(soln, c)) = n }
    <3> DEFINE A(c) == v \in ClauseVars[c] /\ q.satCount[c] = n /\ (v \in Held(soln, c)) = FALSE
               B(c) == v \in ClauseVars[c] \ Held(soln, c) /\ Cardinality(Held(soln, c)) = n
    <3>1. Occurs(q, v, n, FALSE) = { c \in Clauses : A(c) }
      BY <2>1
    <3>2. \A c \in Clauses : A(c) <=> B(c)
      BY <2>3
    <3> HIDE DEF A, B
    <3>3. { c \in Clauses : A(c) } = { c \in Clauses : B(c) }
      BY <3>2
    <3>4. QED  BY <3>1, <3>3 DEF B
  <2>5. QED  BY <2>4
<1>9. Occurs(q, v, 0, FALSE) = { c \in Clauses : v \in ClauseVars[c] /\ Held(soln, c) = {} }
  BY <1>5, <1>8
<1>10. Occurs(q, v, 1, TRUE) = { c \in Clauses : Held(soln, c) = {v} }
  BY <1>6, <1>7
<1>11. QED  BY <1>7, <1>8, <1>9, <1>10

(* The scores by definition are the totals of what the clauses give.       *)
LEMMA InitIsTotal ==
  ASSUME ClausesExact, VarsExact, NEW q \in FieldsType, q.satCount = Counting(q.soln)
  PROVE  /\ InitMake(q) = Total(MakeParts(q.soln, q.weight))
         /\ InitBreak(q) = Total(BreakParts(q.soln, q.weight))
         /\ InitScore(q) = Total(ScoreParts(q.soln, q.weight))
         /\ InitScore2(q) = Total(SecondParts(q.soln))
<1> DEFINE soln == q.soln
           w == q.weight
           mp == MakeParts(soln, w)
           bp == BreakParts(soln, w)
           gp == GainParts(soln)
           lp == LossParts(soln)
<1>1. /\ w \in [Clauses -> Int] /\ soln \in Solutions
      /\ mp \in Parts /\ bp \in Parts /\ gp \in Parts /\ lp \in Parts
  BY CountsOfFields, PartsType
<1>2. ASSUME NEW v \in Vars
      PROVE  /\ WeightOf(q, Occurs(q, v, 0, FALSE)) = Total(mp)[v]
             /\ WeightOf(q, Occurs(q, v, 1, TRUE)) = Total(bp)[v]
             /\ Cardinality(Occurs(q, v, 1, FALSE)) = Total(gp)[v]
             /\ Cardinality(Occurs(q, v, 2, TRUE)) = Total(lp)[v]
  <2> DEFINE A == { c \in Clauses : v \in ClauseVars[c] /\ Held(soln, c) = {} }
             B == { c \in Clauses : Held(soln, c) = {v} }
             C == { c \in Clauses : v \in ClauseVars[c] \ Held(soln, c) /\ Cardinality(Held(soln, c)) = 1 }
             D == { c \in Clauses : v \in Held(soln, c) /\ Cardinality(Held(soln, c)) = 2 }
  <2>1. /\ Occurs(q, v, 0, FALSE) = A /\ Occurs(q, v, 1, TRUE) = B
        /\ Occurs(q, v, 1, FALSE) = C /\ Occurs(q, v, 2, TRUE) = D
    BY OccursIs
  <2>2. /\ A \in SUBSET Clauses /\ B \in SUBSET Clauses
        /\ C \in SUBSET Clauses /\ D \in SUBSET Clauses
    OBVIOUS
  <2>3. /\ \A c \in Clauses : mp[v][c] = IF c \in A THEN w[c] ELSE 0
        /\ \A c \in Clauses : bp[v][c] = IF c \in B THEN w[c] ELSE 0
    BY DEF MakeParts, BreakParts
  <2>4. /\ \A c \in Clauses : gp[v][c] = IF c \in C THEN 1 ELSE 0
        /\ \A c \in Clauses : lp[v][c] = IF c \in D THEN 1 ELSE 0
    BY DEF GainParts, LossParts
  <2>5. /\ Total(mp)[v] = SumFunctionOnSet(mp[v], Clauses)
        /\ Total(bp)[v] = SumFunctionOnSet(bp[v], Clauses)
        /\ Total(gp)[v] = SumFunctionOnSet(gp[v], Clauses)
        /\ Total(lp)[v] = SumFunctionOnSet(lp[v], Clauses)
    BY DEF Total
  <2>6. \A c \in Clauses : w[c] \in Int
    BY <1>1
  <2>7. \A S : WeightOf(q, S) = SumFunctionOnSet(w, S)
    BY DEF WeightOf
  <2> HIDE DEF A, B, C, D, w, mp, bp, gp, lp
  <2> DEFINE m1 == mp[v]
             b1 == bp[v]
             g1 == gp[v]
             l1 == lp[v]
  <2>8. /\ \A c \in Clauses : m1[c] = IF c \in A THEN w[c] ELSE 0
        /\ \A c \in Clauses : b1[c] = IF c \in B THEN w[c] ELSE 0
        /\ \A c \in Clauses : g1[c] = IF c \in C THEN 1 ELSE 0
        /\ \A c \in Clauses : l1[c] = IF c \in D THEN 1 ELSE 0
    BY <2>3, <2>4
  <2> HIDE DEF m1, b1, g1, l1
  <2>9. SumFunctionOnSet(m1, Clauses) = SumFunctionOnSet(w, A)
    BY <2>2, <2>6, <2>8, SumWhere
  <2>10. SumFunctionOnSet(b1, Clauses) = SumFunctionOnSet(w, B)
    BY <2>2, <2>6, <2>8, SumWhere
  <2>11. SumFunctionOnSet(g1, Clauses) = Cardinality(C) /\ SumFunctionOnSet(l1, Clauses) = Cardinality(D)
    BY <2>2, <2>8, CountWhere
  <2>12. QED  BY <2>1, <2>5, <2>7, <2>9, <2>10, <2>11 DEF m1, b1, g1, l1
<1>3. DOMAIN Total(mp) = Vars /\ DOMAIN Total(bp) = Vars /\ Total(mp) \in Ints /\ Total(bp) \in Ints
  BY <1>1, TotalType DEF Total
<1>4. InitMake(q) = Total(mp)
  BY <1>2 DEF InitMake, Total
<1>5. InitBreak(q) = Total(bp)
  BY <1>2 DEF InitBreak, Total
<1>6. InitScore(q) = Total(ScoreParts(soln, w))
  <2>1. \A u \in Vars : Total(ScoreParts(soln, w))[u] = Total(mp)[u] - Total(bp)[u]
    BY <1>1, TotalMinus DEF ScoreParts
  <2>2. \A u \in Vars : InitScore(q)[u] = Total(mp)[u] - Total(bp)[u]
    BY <1>4, <1>5 DEF InitScore
  <2>3. DOMAIN InitScore(q) = Vars /\ InitScore(q) = [u \in Vars |-> InitScore(q)[u]]
    BY DEF InitScore
  <2>4. Total(ScoreParts(soln, w)) = [u \in Vars |-> Total(ScoreParts(soln, w))[u]]
    BY DEF Total
  <2>5. QED  BY <2>1, <2>2, <2>3, <2>4
<1>7. InitScore2(q) = Total(SecondParts(soln))
  <2>1. \A u \in Vars : Total(SecondParts(soln))[u] = Total(gp)[u] - Total(lp)[u]
    BY <1>1, TotalMinus DEF SecondParts
  <2>2. \A u \in Vars : InitScore2(q)[u] = Total(gp)[u] - Total(lp)[u]
    BY <1>2 DEF InitScore2
  <2>3. InitScore2(q) = [u \in Vars |-> InitScore2(q)[u]]
    BY DEF InitScore2
  <2>4. Total(SecondParts(soln)) = [u \in Vars |-> Total(SecondParts(soln))[u]]
    BY DEF Total
  <2>5. QED  BY <2>1, <2>2, <2>3, <2>4
<1>8. QED  BY <1>4, <1>5, <1>6, <1>7

(* What is given before a flip by the clauses not in D, after it by those  *)
(* in D.                                                                   *)
Blend(po, pn, D) ==
  [u \in Vars |-> [c \in Clauses |-> IF c \in D THEN pn[u][c] ELSE po[u][c]]]

LEMMA BlendType ==
  ASSUME NEW po \in Parts, NEW pn \in Parts, NEW D
  PROVE  Blend(po, pn, D) \in Parts
BY DEF Blend, Parts

(* One clause more.                                                        *)
LEMMA BlendStep ==
  ASSUME ClausesExact, NEW po \in Parts, NEW pn \in Parts, NEW D, NEW c \in Clauses, c \notin D,
         NEW g \in Ints,
         \A u \in Vars : g[u] = Total(Blend(po, pn, D))[u] + (pn[u][c] - po[u][c])
  PROVE  g = Total(Blend(po, pn, D \cup {c}))
<1> DEFINE P == Blend(po, pn, D)
           Q == Blend(po, pn, D \cup {c})
<1>1. ASSUME NEW u \in Vars PROVE g[u] = Total(Q)[u]
  <2> DEFINE f == P[u]
             h == Q[u]
             T == Clauses
             R == T \ {c}
  <2>1. /\ \A d \in T : f[d] \in Int /\ h[d] \in Int
        /\ f[c] = po[u][c] /\ h[c] = pn[u][c]
        /\ \A d \in R : f[d] \in Int /\ h[d] = f[d]
    BY DEF Blend, Parts
  <2>2. Total(P)[u] = SumFunctionOnSet(f, T) /\ Total(Q)[u] = SumFunctionOnSet(h, T)
    BY DEF Total
  <2>3. IsFiniteSet(T) /\ IsFiniteSet(R) /\ c \in T
    BY FiniteClauses
  <2>4. g[u] = Total(P)[u] + (pn[u][c] - po[u][c])
    OBVIOUS
  <2> HIDE DEF f, h, T
  <2>5. SumFunctionOnSet(f, T) = f[c] + SumFunctionOnSet(f, R)
    BY <2>1, <2>3, SumTakeOut
  <2>6. SumFunctionOnSet(h, T) = h[c] + SumFunctionOnSet(h, R)
    BY <2>1, <2>3, SumTakeOut
  <2> HIDE DEF R
  <2>7. SumFunctionOnSet(h, R) = SumFunctionOnSet(f, R)
    BY <2>1, <2>3, SumSame
  <2>8. SumFunctionOnSet(f, R) \in Int
    BY <2>1, <2>3, SumTakeOut
  <2> DEFINE x == SumFunctionOnSet(f, T)
             y == SumFunctionOnSet(h, T)
             z == SumFunctionOnSet(f, R)
             a == f[c]
             b == h[c]
  <2>9. x = a + z /\ y = b + z /\ a \in Int /\ b \in Int /\ z \in Int /\ g[u] = x + (b - a)
    BY <2>1, <2>2, <2>3, <2>4, <2>5, <2>6, <2>7, <2>8
  <2> HIDE DEF x, y, z, a, b
  <2>10. g[u] = y
    BY <2>9
  <2>11. QED  BY <2>2, <2>10 DEF y
<1>2. g = [u \in Vars |-> g[u]] /\ Total(Q) = [u \in Vars |-> Total(Q)[u]]
  BY DEF Ints, Total
<1>3. QED  BY <1>1, <1>2

(* The clauses that the first k occurrences of v are in.                   *)
Done(v, k) == { VarLit[v][i].clause : i \in 1 .. k }

LEMMA DoneIs ==
  ASSUME ClausesExact, VarsExact, NEW v \in Vars
  PROVE  /\ Len(VarLit[v]) \in Nat /\ Done(v, 0) = {}
         /\ Done(v, Len(VarLit[v])) = { c \in Clauses : v \in ClauseVars[c] }
         /\ \A k \in 1 .. Len(VarLit[v]) :
              /\ VarLit[v][k].clause \in Clauses
              /\ VarLit[v][k].clause \notin Done(v, k - 1)
              /\ Done(v, k) = Done(v, k - 1) \cup {VarLit[v][k].clause}
              /\ VarLit[v][k].sense = SenseIn(VarLit[v][k].clause, v)
              /\ v \in ClauseVars[VarLit[v][k].clause]
<1> DEFINE L == VarLit[v]
           Entry == [clause : Clauses, sense : {0, 1}]
           n == Len(L)
<1>1. L \in Seq(Entry) /\ \A e \in Entry : e.clause \in Clauses
  BY DEF VarsExact
<1>2. /\ \A i, j \in 1 .. n : L[i].clause = L[j].clause => i = j
      /\ \A c \in Clauses : v \in ClauseVars[c] <=> \E i \in 1 .. n : L[i].clause = c
      /\ \A i \in 1 .. n : L[i].sense = SenseIn(L[i].clause, v)
  BY DEF VarsExact
<1> HIDE DEF L, Entry
<1>3. n \in Nat /\ \A i \in 1 .. n : L[i] \in Entry
  BY <1>1
<1> HIDE DEF n
<1>4. \A i \in 1 .. n : L[i].clause \in Clauses
  BY <1>1, <1>3
<1>5. \A k : Done(v, k) = { L[i].clause : i \in 1 .. k }
  BY DEF Done, L
<1>6. Done(v, 0) = {}
  BY <1>5
<1>7. Done(v, n) = { c \in Clauses : v \in ClauseVars[c] }
  BY <1>2, <1>4, <1>5
<1>8. ASSUME NEW k \in 1 .. n
      PROVE  /\ L[k].clause \in Clauses /\ L[k].clause \notin Done(v, k - 1)
             /\ Done(v, k) = Done(v, k - 1) \cup {L[k].clause}
             /\ L[k].sense = SenseIn(L[k].clause, v)
             /\ v \in ClauseVars[L[k].clause]
  <2>1. 1 .. k = (1 .. (k - 1)) \cup {k} /\ k \notin 1 .. (k - 1) /\ \A i \in 1 .. (k - 1) : i \in 1 .. n
    BY <1>3
  <2>2. L[k].clause \notin Done(v, k - 1)
    BY <1>2, <1>5, <2>1
  <2>3. Done(v, k) = Done(v, k - 1) \cup {L[k].clause}
    BY <1>5, <2>1
  <2>4. QED  BY <1>2, <1>4, <2>2, <2>3
<1>9. QED  BY <1>3, <1>6, <1>7, <1>8 DEF n, L

(* The whole run: when each turn adds what its clause gives after the flip *)
(* and takes what it gave before, the totals before become those after.    *)
Adjusted(f, g, po, pn, c) ==
  g \in Ints /\ \A u \in Vars : g[u] = f[u] + (pn[u][c] - po[u][c])

LEMMA BlendTurn ==
  ASSUME ClausesExact, VarsExact, NEW v \in Vars, NEW po \in Parts, NEW pn \in Parts,
         NEW k \in 1 .. Len(VarLit[v]), NEW f, f = Total(Blend(po, pn, Done(v, k - 1))),
         NEW g, Adjusted(f, g, po, pn, VarLit[v][k].clause)
  PROVE  g = Total(Blend(po, pn, Done(v, k)))
<1> DEFINE c == VarLit[v][k].clause
           D == Done(v, k - 1)
<1>1. c \in Clauses /\ c \notin D /\ Done(v, k) = D \cup {c}
  BY DoneIs
<1> HIDE DEF c, D
<1>2. g \in Ints /\ \A u \in Vars : g[u] = Total(Blend(po, pn, D))[u] + (pn[u][c] - po[u][c])
  BY DEF Adjusted, c, D
<1>3. g = Total(Blend(po, pn, D \cup {c}))
  BY <1>1, <1>2, BlendStep
<1>4. QED  BY <1>1, <1>3

LEMMA BlendEnds ==
  ASSUME ClausesExact, VarsExact, NEW v \in Vars, NEW po \in Parts, NEW pn \in Parts,
         \A u \in Vars : \A c \in Clauses : v \notin ClauseVars[c] => po[u][c] = pn[u][c]
  PROVE  /\ Blend(po, pn, Done(v, 0)) = po
         /\ Blend(po, pn, Done(v, Len(VarLit[v]))) = pn
<1>1. Done(v, 0) = {} /\ Done(v, Len(VarLit[v])) = { c \in Clauses : v \in ClauseVars[c] }
  BY DoneIs
<1>2. Blend(po, pn, {}) = po
  BY DEF Blend, Parts
<1>3. Blend(po, pn, { c \in Clauses : v \in ClauseVars[c] }) = pn
  BY DEF Blend, Parts
<1>4. QED  BY <1>1, <1>2, <1>3

-----------------------------------------------------------------------------
(* The one literal of a clause that was true before a second became so is  *)
(* still the noted one.                                                    *)
NotedBefore(old, new, f) ==
  \A c \in Clauses :
    Cardinality(Held(old, c)) = 1 /\ Cardinality(Held(new, c)) = 2 => Held(old, c) = {f[c]}

(* update.  The state after flip(v), of a solution that was old before: q  *)
(* has the new solution and its counts, and the scores of the old one.     *)
JustFlipped(q, v, old) ==
  /\ q \in FieldsType /\ CountsExact(q)
  /\ v \in Vars /\ old \in Solutions /\ q.soln = Flipped(old, v)
  /\ NotedBefore(old, q.soln, q.satVar)

(* What may have become of a clause of v.                                  *)
WonFirst(q, v, old, c) ==
  /\ q.soln[v] = SenseIn(c, v) /\ q.satCount[c] = 1
  /\ Held(old, c) = {} /\ Held(q.soln, c) = {v} /\ q.satVar[c] = v

WonSecond(q, v, old, c) ==
  /\ q.soln[v] = SenseIn(c, v) /\ q.satCount[c] = 2
  /\ Held(old, c) = {q.satVar[c]} /\ Held(q.soln, c) = {q.satVar[c], v} /\ q.satVar[c] \in Vars \ {v}

LostLast(q, v, old, c) ==
  /\ q.soln[v] # SenseIn(c, v) /\ q.satCount[c] = 0
  /\ Held(old, c) = {v} /\ Held(q.soln, c) = {}

LostSecond(q, v, old, c) ==
  /\ q.soln[v] # SenseIn(c, v) /\ q.satCount[c] = 1
  /\ Held(old, c) = {q.satVar[c], v} /\ Held(q.soln, c) = {q.satVar[c]} /\ q.satVar[c] \in Vars \ {v}

(* Neither before nor after fewer than two literals are true.              *)
Many(soln, c) == Held(soln, c) # {} /\ \A u : Held(soln, c) # {u}

StayedTrue(q, v, old, c) ==
  /\ IF q.soln[v] = SenseIn(c, v) THEN q.satCount[c] > 2 ELSE q.satCount[c] > 1
  /\ Many(old, c) /\ Many(q.soln, c)

LEMMA HeldIs ==
  ASSUME ClausesExact, NEW soln \in Solutions, NEW c \in Clauses
  PROVE  /\ Held(soln, c) \subseteq ClauseVars[c] /\ ClauseVars[c] \subseteq Vars
         /\ IsFiniteSet(Held(soln, c)) /\ Cardinality(Held(soln, c)) \in Nat
<1> DEFINE t == [soln |-> soln]
<1>1. t.soln = soln
  OBVIOUS
<1> HIDE DEF t
<1>2. /\ ClauseVars[c] \subseteq Vars
      /\ IsFiniteSet(Held(t.soln, c)) /\ Cardinality(Held(t.soln, c)) \in Nat
  BY <1>1, TrueVarsIs
<1>3. QED  BY <1>1, <1>2 DEF Held

LEMMA Turnout ==
  ASSUME ClausesExact, NEW q, NEW v, NEW old, JustFlipped(q, v, old), NEW c \in Clauses, v \in ClauseVars[c]
  PROVE  \/ WonFirst(q, v, old, c) \/ WonSecond(q, v, old, c) \/ LostLast(q, v, old, c)
         \/ LostSecond(q, v, old, c) \/ StayedTrue(q, v, old, c)
<1> DEFINE new == q.soln
           Ho == Held(old, c)
           Hn == Held(new, c)
           a == q.satVar[c]
           n == Cardinality(Hn)
           m == Cardinality(Ho)
<1>1. /\ v \in Vars /\ old \in Solutions /\ new = Flipped(old, v) /\ new \in Solutions
      /\ q.satCount[c] = n
      /\ n = 1 => Hn = {a}
      /\ m = 1 /\ n = 2 => Ho = {a}
  <2>1. q \in FieldsType
    BY DEF JustFlipped
  <2>2. q.soln \in Solutions
    BY <2>1 DEF FieldsType
  <2>3. QED  BY <2>2 DEF JustFlipped, CountsExact, Counting, NotedOne, NotedBefore
<1>2. /\ new[v] = SenseIn(c, v) => v \notin Ho /\ Hn = Ho \cup {v} /\ n = m + 1
      /\ new[v] # SenseIn(c, v) => v \in Ho /\ Hn = Ho \ {v} /\ n = m - 1
  BY <1>1, HeldFlipped
<1>3. Ho \subseteq Vars /\ IsFiniteSet(Ho) /\ IsFiniteSet(Hn) /\ m \in Nat /\ n \in Nat
  <2> HIDE DEF new
  <2>1. QED  BY <1>1, HeldIs
<1>4. /\ m = 0 <=> Ho = {}
      /\ n = 0 <=> Hn = {}
      /\ \A u : Ho = {u} => m = 1
      /\ \A u : Hn = {u} => n = 1
      /\ m = 1 => \E u : Ho = {u}
  BY <1>3, FS_EmptySet, FS_Singleton
<1> HIDE DEF Ho, Hn, a, n, m, new
<1>5. CASE new[v] = SenseIn(c, v) /\ n = 1
  <2>1. Ho = {} /\ Hn = {v}
    BY <1>2, <1>3, <1>4, <1>5
  <2>2. a = v
    BY <1>1, <1>5, <2>1
  <2>3. QED  BY <1>1, <1>5, <2>1, <2>2 DEF WonFirst, Ho, Hn, a, new
<1>6. CASE new[v] = SenseIn(c, v) /\ n = 2
  <2>1. m = 1
    BY <1>2, <1>3, <1>6
  <2>2. Ho = {a} /\ Hn = {a, v} /\ a \in Vars \ {v}
    BY <1>1, <1>2, <1>3, <1>6, <2>1
  <2>3. QED  BY <1>1, <1>6, <2>2 DEF WonSecond, Ho, Hn, a, new
<1>7. CASE new[v] = SenseIn(c, v) /\ n > 2
  <2>1. m > 1
    BY <1>2, <1>3, <1>7
  <2>2. Ho # {} /\ Hn # {} /\ (\A u : Ho # {u}) /\ (\A u : Hn # {u})
    BY <1>3, <1>4, <1>7, <2>1
  <2>3. QED  BY <1>1, <1>7, <2>2 DEF StayedTrue, Many, Ho, Hn, new
<1>8. CASE new[v] # SenseIn(c, v) /\ n = 0
  <2>1. Hn = {} /\ Ho = {v}
    BY <1>2, <1>4, <1>8
  <2>2. QED  BY <1>1, <1>8, <2>1 DEF LostLast, Ho, Hn, new
<1>9. CASE new[v] # SenseIn(c, v) /\ n = 1
  <2>1. Hn = {a} /\ v \in Ho /\ Hn = Ho \ {v}
    BY <1>1, <1>2, <1>9
  <2>2. Ho = {a, v} /\ a \in Vars \ {v}
    BY <1>3, <2>1
  <2>3. QED  BY <1>1, <1>9, <2>1, <2>2 DEF LostSecond, Ho, Hn, a, new
<1>10. CASE new[v] # SenseIn(c, v) /\ n > 1
  <2>1. m > 1
    BY <1>2, <1>3, <1>10
  <2>2. Ho # {} /\ Hn # {} /\ (\A u : Ho # {u}) /\ (\A u : Hn # {u})
    BY <1>3, <1>4, <1>10, <2>1
  <2>3. QED  BY <1>1, <1>10, <2>2 DEF StayedTrue, Many, Ho, Hn, new
<1>11. new[v] = SenseIn(c, v) => n # 0
  BY <1>2, <1>3
<1>12. QED  BY <1>3, <1>5, <1>6, <1>7, <1>8, <1>9, <1>10, <1>11

LEMMA PlusIs ==
  ASSUME NEW f \in Ints, NEW S, NEW d \in Int
  PROVE  Plus(f, S, d) \in Ints /\ \A u \in Vars : Plus(f, S, d)[u] = IF u \in S THEN f[u] + d ELSE f[u]
BY DEF Plus, Ints

(* update_score, update_break_score and update_make_score add for one      *)
(* clause what it gives now, and take what it gave before.                 *)
LEMMA ScoreTurn ==
  ASSUME ClausesExact, NEW q, NEW v, NEW old, JustFlipped(q, v, old), NEW c \in Clauses,
         v \in ClauseVars[c], NEW o, o.clause = c, o.sense = SenseIn(c, v), NEW f \in Ints
  PROVE  /\ Adjusted(f, ScoreAfter(q, v, o, f), ScoreParts(old, q.weight), ScoreParts(q.soln, q.weight), c)
         /\ Adjusted(f, BreakAfter(q, v, o, f), BreakParts(old, q.weight), BreakParts(q.soln, q.weight), c)
         /\ Adjusted(f, MakeAfter(q, v, o, f), MakeParts(old, q.weight), MakeParts(q.soln, q.weight), c)
<1> DEFINE w == q.weight[c]
           a == q.satVar[c]
           n == q.satCount[c]
           Ho == Held(old, c)
           Hn == Held(q.soln, c)
           C == ClauseVars[c]
           sc == ScoreAfter(q, v, o, f)
           br == BreakAfter(q, v, o, f)
           mk == MakeAfter(q, v, o, f)
           M(H, u) == IF u \in C /\ H = {} THEN w ELSE 0
           B(H, u) == IF H = {u} THEN w ELSE 0
<1>1. w \in Int /\ -w \in Int /\ v \in Vars /\ v \in C
  BY CountsOfFields DEF JustFlipped
<1>2. \A u \in Vars :
        /\ MakeParts(old, q.weight)[u][c] = M(Ho, u)
        /\ MakeParts(q.soln, q.weight)[u][c] = M(Hn, u)
        /\ BreakParts(old, q.weight)[u][c] = B(Ho, u)
        /\ BreakParts(q.soln, q.weight)[u][c] = B(Hn, u)
  BY DEF MakeParts, BreakParts
<1>3. \A u \in Vars :
        /\ ScoreParts(old, q.weight)[u][c] = M(Ho, u) - B(Ho, u)
        /\ ScoreParts(q.soln, q.weight)[u][c] = M(Hn, u) - B(Hn, u)
  BY <1>2 DEF ScoreParts
<1>4. SUFFICES
        /\ sc \in Ints /\ \A u \in Vars : sc[u] = f[u] + ((M(Hn, u) - B(Hn, u)) - (M(Ho, u) - B(Ho, u)))
        /\ br \in Ints /\ \A u \in Vars : br[u] = f[u] + (B(Hn, u) - B(Ho, u))
        /\ mk \in Ints /\ \A u \in Vars : mk[u] = f[u] + (M(Hn, u) - M(Ho, u))
  BY <1>2, <1>3 DEF Adjusted
<1>5. \A u \in Vars : f[u] \in Int
  BY DEF Ints
<1> HIDE DEF w
<1>6. CASE WonFirst(q, v, old, c)
  <2>1. q.soln[v] = o.sense /\ n = 1 /\ Ho = {} /\ Hn = {v} /\ a = v
    BY <1>6 DEF WonFirst
  <2> DEFINE g == Plus(f, {a}, -w)
  <2>2. /\ sc = Plus(g, C, -w) /\ br = Plus(f, {a}, w) /\ mk = Plus(f, C, -w)
    BY <2>1 DEF ScoreAfter, BreakAfter, MakeAfter, w
  <2>3. g \in Ints /\ \A u \in Vars : g[u] = IF u = v THEN f[u] + (-w) ELSE f[u]
    BY <1>1, <2>1, PlusIs
  <2> HIDE DEF g
  <2>4. /\ sc \in Ints /\ \A u \in Vars : sc[u] = IF u \in C THEN g[u] + (-w) ELSE g[u]
        /\ br \in Ints /\ \A u \in Vars : br[u] = IF u = v THEN f[u] + w ELSE f[u]
        /\ mk \in Ints /\ \A u \in Vars : mk[u] = IF u \in C THEN f[u] + (-w) ELSE f[u]
    BY <1>1, <2>1, <2>2, <2>3, PlusIs
  <2>5. /\ \A u : B(Ho, u) = 0 /\ M(Hn, u) = 0
        /\ \A u : B(Hn, u) = IF u = v THEN w ELSE 0
        /\ \A u : M(Ho, u) = IF u \in C THEN w ELSE 0
    BY <2>1
  <2> HIDE DEF M, B, sc, br, mk, C, Ho, Hn
  <2>6. \A u \in Vars : sc[u] = f[u] + ((M(Hn, u) - B(Hn, u)) - (M(Ho, u) - B(Ho, u)))
    BY <1>1, <1>5, <2>3, <2>4, <2>5
  <2>7. \A u \in Vars : br[u] = f[u] + (B(Hn, u) - B(Ho, u))
    BY <1>1, <1>5, <2>3, <2>4, <2>5
  <2>8. \A u \in Vars : mk[u] = f[u] + (M(Hn, u) - M(Ho, u))
    BY <1>1, <1>5, <2>3, <2>4, <2>5
  <2>9. QED  BY <2>2, <2>4, <2>6, <2>7, <2>8
<1>7. CASE WonSecond(q, v, old, c)
  <2>1. q.soln[v] = o.sense /\ n = 2 /\ Ho = {a} /\ Hn = {a, v} /\ a # v
    BY <1>7 DEF WonSecond
  <2>2. /\ sc = Plus(f, {a}, w) /\ br = Plus(f, {a}, -w) /\ mk = f
    BY <2>1 DEF ScoreAfter, BreakAfter, MakeAfter, w
  <2>3. /\ sc \in Ints /\ \A u \in Vars : sc[u] = IF u = a THEN f[u] + w ELSE f[u]
        /\ br \in Ints /\ \A u \in Vars : br[u] = IF u = a THEN f[u] + (-w) ELSE f[u]
    BY <1>1, <2>2, PlusIs
  <2>4. /\ \A u : B(Hn, u) = 0 /\ M(Hn, u) = 0 /\ M(Ho, u) = 0
        /\ \A u : B(Ho, u) = IF u = a THEN w ELSE 0
    BY <2>1
  <2> HIDE DEF M, B, sc, br, mk, C, Ho, Hn, a
  <2>5. ASSUME NEW u \in Vars
        PROVE  /\ sc[u] = f[u] + ((M(Hn, u) - B(Hn, u)) - (M(Ho, u) - B(Ho, u)))
               /\ br[u] = f[u] + (B(Hn, u) - B(Ho, u))
               /\ mk[u] = f[u] + (M(Hn, u) - M(Ho, u))
    <3> DEFINE x == f[u]
               y == sc[u]
               z == br[u]
               m == mk[u]
               bo == B(Ho, u)
               bn == B(Hn, u)
               mo == M(Ho, u)
               mn == M(Hn, u)
    <3>1. x \in Int
      BY <1>5
    <3>2. CASE u = a
      <4>1. y = x + w /\ z = x + (-w) /\ m = x /\ bn = 0 /\ mn = 0 /\ mo = 0 /\ bo = w
        BY <3>2, <2>2, <2>3, <2>4
      <4> HIDE DEF x, y, z, m, bo, bn, mo, mn
      <4>2. y = x + ((mn - bn) - (mo - bo)) /\ z = x + (bn - bo) /\ m = x + (mn - mo)
        BY <1>1, <3>1, <4>1
      <4>3. QED  BY <4>2 DEF x, y, z, m, bo, bn, mo, mn
    <3>3. CASE u # a
      <4>1. y = x /\ z = x /\ m = x /\ bn = 0 /\ mn = 0 /\ mo = 0 /\ bo = 0
        BY <3>3, <2>2, <2>3, <2>4
      <4> HIDE DEF x, y, z, m, bo, bn, mo, mn
      <4>2. y = x + ((mn - bn) - (mo - bo)) /\ z = x + (bn - bo) /\ m = x + (mn - mo)
        BY <1>1, <3>1, <4>1
      <4>3. QED  BY <4>2 DEF x, y, z, m, bo, bn, mo, mn
    <3>4. QED  BY <3>2, <3>3
  <2>6. QED  BY <2>2, <2>3, <2>5
<1>8. CASE LostLast(q, v, old, c)
  <2>1. q.soln[v] # o.sense /\ n = 0 /\ Ho = {v} /\ Hn = {}
    BY <1>8 DEF LostLast
  <2> DEFINE g == Plus(f, C, w)
  <2>2. /\ sc = Plus(g, {v}, w) /\ br = Plus(f, {v}, -w) /\ mk = g
    BY <2>1 DEF ScoreAfter, BreakAfter, MakeAfter, w
  <2>3. g \in Ints /\ \A u \in Vars : g[u] = IF u \in C THEN f[u] + w ELSE f[u]
    BY <1>1, PlusIs
  <2> HIDE DEF g
  <2>4. /\ sc \in Ints /\ \A u \in Vars : sc[u] = IF u = v THEN g[u] + w ELSE g[u]
        /\ br \in Ints /\ \A u \in Vars : br[u] = IF u = v THEN f[u] + (-w) ELSE f[u]
    BY <1>1, <2>2, <2>3, PlusIs
  <2>5. /\ \A u : B(Hn, u) = 0 /\ M(Ho, u) = 0
        /\ \A u : B(Ho, u) = IF u = v THEN w ELSE 0
        /\ \A u : M(Hn, u) = IF u \in C THEN w ELSE 0
    BY <2>1
  <2> HIDE DEF M, B, sc, br, mk, C, Ho, Hn
  <2>6. ASSUME NEW u \in Vars
        PROVE  /\ sc[u] = f[u] + ((M(Hn, u) - B(Hn, u)) - (M(Ho, u) - B(Ho, u)))
               /\ br[u] = f[u] + (B(Hn, u) - B(Ho, u))
               /\ mk[u] = f[u] + (M(Hn, u) - M(Ho, u))
    <3> DEFINE x == f[u]
               y == sc[u]
               z == br[u]
               m == mk[u]
               bo == B(Ho, u)
               bn == B(Hn, u)
               mo == M(Ho, u)
               mn == M(Hn, u)
    <3>1. x \in Int
      BY <1>5
    <3>2. CASE u = v
      <4>1. y = (x + w) + w /\ z = x + (-w) /\ m = x + w /\ bn = 0 /\ mn = w /\ mo = 0 /\ bo = w
        BY <1>1, <3>2, <2>2, <2>4, <2>5, <2>3
      <4> HIDE DEF x, y, z, m, bo, bn, mo, mn
      <4>2. y = x + ((mn - bn) - (mo - bo)) /\ z = x + (bn - bo) /\ m = x + (mn - mo)
        BY <1>1, <3>1, <4>1
      <4>3. QED  BY <4>2 DEF x, y, z, m, bo, bn, mo, mn
    <3>3. CASE u # v
      <4>1. y = m /\ z = x /\ m = x + mn /\ mn \in Int /\ bn = 0 /\ mo = 0 /\ bo = 0
        <5>1. CASE u \in C
          BY <1>1, <2>2, <2>3, <2>4, <2>5, <3>1, <3>3, <5>1
        <5>2. CASE u \notin C
          <6>1. M(Hn, u) = 0 /\ M(Ho, u) = 0 /\ B(Hn, u) = 0 /\ B(Ho, u) = 0
            BY <2>5, <3>3, <5>2
          <6>2. g[u] = f[u] /\ sc[u] = g[u] /\ mk[u] = g[u] /\ br[u] = f[u]
            BY <2>2, <2>3, <2>4, <3>3, <5>2
          <6>3. x + 0 = x
            BY <3>1
          <6>4. QED  BY <6>1, <6>2, <6>3
        <5>3. QED  BY <5>1, <5>2
      <4> HIDE DEF x, y, z, m, bo, bn, mo, mn
      <4>2. y = x + ((mn - bn) - (mo - bo)) /\ z = x + (bn - bo) /\ m = x + (mn - mo)
        BY <1>1, <3>1, <4>1
      <4>3. QED  BY <4>2 DEF x, y, z, m, bo, bn, mo, mn
    <3>4. QED  BY <3>2, <3>3
  <2>7. QED  BY <2>2, <2>3, <2>4, <2>6
<1>9. CASE LostSecond(q, v, old, c)
  <2>1. q.soln[v] # o.sense /\ n = 1 /\ Ho = {a, v} /\ Hn = {a} /\ a # v
    BY <1>9 DEF LostSecond
  <2>2. /\ sc = Plus(f, {a}, -w) /\ br = Plus(f, {a}, w) /\ mk = f
    BY <2>1 DEF ScoreAfter, BreakAfter, MakeAfter, w
  <2>3. /\ sc \in Ints /\ \A u \in Vars : sc[u] = IF u = a THEN f[u] + (-w) ELSE f[u]
        /\ br \in Ints /\ \A u \in Vars : br[u] = IF u = a THEN f[u] + w ELSE f[u]
    BY <1>1, <2>2, PlusIs
  <2>4. /\ \A u : B(Ho, u) = 0 /\ M(Hn, u) = 0 /\ M(Ho, u) = 0
        /\ \A u : B(Hn, u) = IF u = a THEN w ELSE 0
    BY <2>1
  <2> HIDE DEF M, B, sc, br, mk, C, Ho, Hn, a
  <2>5. ASSUME NEW u \in Vars
        PROVE  /\ sc[u] = f[u] + ((M(Hn, u) - B(Hn, u)) - (M(Ho, u) - B(Ho, u)))
               /\ br[u] = f[u] + (B(Hn, u) - B(Ho, u))
               /\ mk[u] = f[u] + (M(Hn, u) - M(Ho, u))
    <3> DEFINE x == f[u]
               y == sc[u]
               z == br[u]
               m == mk[u]
               bo == B(Ho, u)
               bn == B(Hn, u)
               mo == M(Ho, u)
               mn == M(Hn, u)
    <3>1. x \in Int
      BY <1>5
    <3>2. CASE u = a
      <4>1. y = x + (-w) /\ z = x + w /\ m = x /\ bn = w /\ mn = 0 /\ mo = 0 /\ bo = 0
        BY <3>2, <2>2, <2>3, <2>4
      <4> HIDE DEF x, y, z, m, bo, bn, mo, mn
      <4>2. y = x + ((mn - bn) - (mo - bo)) /\ z = x + (bn - bo) /\ m = x + (mn - mo)
        BY <1>1, <3>1, <4>1
      <4>3. QED  BY <4>2 DEF x, y, z, m, bo, bn, mo, mn
    <3>3. CASE u # a
      <4>1. y = x /\ z = x /\ m = x /\ bn = 0 /\ mn = 0 /\ mo = 0 /\ bo = 0
        BY <3>3, <2>2, <2>3, <2>4
      <4> HIDE DEF x, y, z, m, bo, bn, mo, mn
      <4>2. y = x + ((mn - bn) - (mo - bo)) /\ z = x + (bn - bo) /\ m = x + (mn - mo)
        BY <1>1, <3>1, <4>1
      <4>3. QED  BY <4>2 DEF x, y, z, m, bo, bn, mo, mn
    <3>4. QED  BY <3>2, <3>3
  <2>6. QED  BY <2>2, <2>3, <2>5
<1>10. CASE StayedTrue(q, v, old, c)
  <2>1. n \in Int /\ IF q.soln[v] = o.sense THEN n > 2 ELSE n > 1
    BY <1>10, CountsOfFields DEF StayedTrue, JustFlipped
  <2>2. sc = f /\ br = f /\ mk = f
    BY <2>1 DEF ScoreAfter, BreakAfter, MakeAfter
  <2>3. \A u : B(Hn, u) = 0 /\ M(Hn, u) = 0 /\ M(Ho, u) = 0 /\ B(Ho, u) = 0
    BY <1>10 DEF StayedTrue, Many
  <2> HIDE DEF M, B, sc, br, mk, C, Ho, Hn, a
  <2>4. ASSUME NEW u \in Vars
        PROVE  /\ sc[u] = f[u] + ((M(Hn, u) - B(Hn, u)) - (M(Ho, u) - B(Ho, u)))
               /\ br[u] = f[u] + (B(Hn, u) - B(Ho, u))
               /\ mk[u] = f[u] + (M(Hn, u) - M(Ho, u))
    <3> DEFINE x == f[u]
    <3>1. x \in Int /\ sc[u] = x /\ br[u] = x /\ mk[u] = x
      BY <1>5, <2>2
    <3> HIDE DEF x
    <3>2. x = x + ((0 - 0) - (0 - 0)) /\ x = x + (0 - 0)
      BY <3>1
    <3>3. QED  BY <2>3, <3>1, <3>2 DEF x
  <2>5. sc \in Ints /\ br \in Ints /\ mk \in Ints
    BY <2>2
  <2>6. /\ \A u \in Vars : sc[u] = f[u] + ((M(Hn, u) - B(Hn, u)) - (M(Ho, u) - B(Ho, u)))
        /\ \A u \in Vars : br[u] = f[u] + (B(Hn, u) - B(Ho, u))
        /\ \A u \in Vars : mk[u] = f[u] + (M(Hn, u) - M(Ho, u))
    BY <2>4
  <2>7. QED  BY <2>5, <2>6
<1>11. QED  BY <1>6, <1>7, <1>8, <1>9, <1>10, Turnout

(* update_sat_var2: which pairs are noted when the clauses D are done.     *)
PairsAt(q, v, D, pair) ==
  /\ pair = <<pair[1], pair[2]>>
  /\ pair[1] \in [Clauses -> 0 .. NumVars] /\ pair[2] \in [Clauses -> 0 .. NumVars]
  /\ \A c \in Clauses : c \notin D \/ q.satCount[c] # 2 =>
       pair[1][c] = q.satVar[c] /\ pair[2][c] = q.satVar2[c]
  /\ \A c \in Clauses : c \in D /\ q.satCount[c] = 2 => Held(q.soln, c) = {pair[1][c], pair[2][c]}

LEMMA PairTurn ==
  ASSUME ClausesExact, NEW q, NEW v, NEW old, JustFlipped(q, v, old), NEW c \in Clauses,
         v \in ClauseVars[c], NEW o, o.clause = c, o.sense = SenseIn(c, v),
         NEW D, c \notin D, NEW pair, PairsAt(q, v, D, pair)
  PROVE  PairsAt(q, v, D \cup {c}, PairAfter(q, v, o, pair))
<1> DEFINE a == pair[1]
           b == pair[2]
           x == PairAfter(q, v, o, pair)
<1>1. /\ pair = <<a, b>> /\ a \in [Clauses -> 0 .. NumVars] /\ b \in [Clauses -> 0 .. NumVars]
      /\ \A d \in Clauses : d \notin D \/ q.satCount[d] # 2 => a[d] = q.satVar[d] /\ b[d] = q.satVar2[d]
      /\ \A d \in Clauses : d \in D /\ q.satCount[d] = 2 => Held(q.soln, d) = {a[d], b[d]}
  BY DEF PairsAt
<1>2. v \in Vars /\ q.soln \in Solutions /\ q.satCount[c] = Cardinality(Held(q.soln, c))
  BY CountsOfFields DEF JustFlipped, CountsExact, Counting
<1>3. Vars \subseteq 0 .. NumVars
  BY DEF Vars, ClausesExact
<1> HIDE DEF a, b
<1>4. CASE q.satCount[c] # 2
  <2>1. x = pair
    BY <1>4 DEF PairAfter
  <2> HIDE DEF x
  <2>2. x = <<a, b>> /\ x[1] = a /\ x[2] = b
    BY <1>1, <2>1
  <2>3. QED  BY <1>1, <1>4, <2>2 DEF PairsAt, x
<1>5. CASE q.satCount[c] = 2 /\ q.soln[v] = o.sense
  <2> DEFINE e == [b EXCEPT ![c] = v]
  <2>1. x = <<a, e>>
    BY <1>1, <1>5 DEF PairAfter
  <2>2. Held(q.soln, c) = {a[c], v}
    <3>1. WonSecond(q, v, old, c)
      BY <1>5, Turnout DEF WonFirst, WonSecond, LostLast, LostSecond, StayedTrue
    <3>2. a[c] = q.satVar[c]
      BY <1>1
    <3>3. QED  BY <3>1, <3>2 DEF WonSecond
  <2>3. e \in [Clauses -> 0 .. NumVars] /\ e[c] = v /\ \A d \in Clauses \ {c} : e[d] = b[d]
    BY <1>1, <1>2, <1>3
  <2> HIDE DEF x, e
  <2>4. x = <<x[1], x[2]>> /\ x[1] = a /\ x[2] = e
    BY <2>1
  <2>5. \A d \in Clauses : d \notin D \cup {c} \/ q.satCount[d] # 2 => a[d] = q.satVar[d] /\ e[d] = q.satVar2[d]
    BY <1>1, <1>5, <2>3
  <2>6. \A d \in Clauses : d \in D \cup {c} /\ q.satCount[d] = 2 => Held(q.soln, d) = {a[d], e[d]}
    BY <1>1, <2>2, <2>3
  <2>7. QED  BY <1>1, <2>3, <2>4, <2>5, <2>6 DEF PairsAt, x
<1>6. CASE q.satCount[c] = 2 /\ q.soln[v] # o.sense
  <2> DEFINE t1 == TrueSeq(q, c)[1]
             t2 == TrueSeq(q, c)[2]
             d1 == [a EXCEPT ![c] = t1]
             e == [b EXCEPT ![c] = t2]
  <2>1. x = <<d1, e>>
    BY <1>1, <1>6 DEF PairAfter
  <2>2. t1 \in Vars /\ t2 \in Vars /\ Held(q.soln, c) = {t1, t2}
    BY <1>2, <1>6, TwoTrue
  <2> HIDE DEF t1, t2
  <2>3. /\ e \in [Clauses -> 0 .. NumVars] /\ e[c] = t2 /\ \A d \in Clauses \ {c} : e[d] = b[d]
        /\ d1 \in [Clauses -> 0 .. NumVars] /\ d1[c] = t1 /\ \A d \in Clauses \ {c} : d1[d] = a[d]
    BY <1>1, <1>3, <2>2
  <2> HIDE DEF x, e, d1
  <2>4. x = <<x[1], x[2]>> /\ x[1] = d1 /\ x[2] = e
    BY <2>1
  <2>5. \A d \in Clauses : d \notin D \cup {c} \/ q.satCount[d] # 2 => d1[d] = q.satVar[d] /\ e[d] = q.satVar2[d]
    BY <1>1, <1>6, <2>3
  <2>6. \A d \in Clauses : d \in D \cup {c} /\ q.satCount[d] = 2 => Held(q.soln, d) = {d1[d], e[d]}
    BY <1>1, <2>2, <2>3
  <2>7. QED  BY <2>3, <2>4, <2>5, <2>6 DEF PairsAt, x
<1>7. QED  BY <1>4, <1>5, <1>6

PairsAfter(q, v) == Rescored(PairAfter, q, v, <<q.satVar, q.satVar2>>)

LEMMA PairLoop ==
  ASSUME ClausesExact, VarsExact, NEW q, NEW v, NEW old, JustFlipped(q, v, old)
  PROVE  PairsAt(q, v, { c \in Clauses : v \in ClauseVars[c] }, PairsAfter(q, v))
<1> DEFINE m == Len(VarLit[v])
           first == <<q.satVar, q.satVar2>>
           Table == [Clauses -> 0 .. NumVars]
           X == [k \in 0 .. m |-> { x \in Table \X Table : PairsAt(q, v, Done(v, k), x) }]
           turn == [k \in 1 .. m |-> [x \in X[k - 1] |-> PairAfter(q, v, VarLit[v][k], x)]]
           Is(g) == g = [k \in 0 .. m |-> IF k = 0 THEN first ELSE PairAfter(q, v, VarLit[v][k], g[k - 1])]
           run == CHOOSE g : Is(g)
<1>1. v \in Vars /\ m \in Nat
  BY DoneIs DEF JustFlipped
<1>2. PairsAfter(q, v) = run[m]
  BY DEF PairsAfter, Rescored, Loop
<1> HIDE DEF m
<1>3. q.satVar \in Table /\ q.satVar2 \in Table
  BY CountsOfFields DEF JustFlipped
<1>4. \A D, x : PairsAt(q, v, D, x) => x \in Table \X Table
  BY DEF PairsAt
<1>5. \A k \in 0 .. m : \A x : x \in X[k] <=> PairsAt(q, v, Done(v, k), x)
  BY <1>4
<1> HIDE DEF X
<1>6. first \in X[0]
  <2>1. Done(v, 0) = {}
    BY <1>1, DoneIs
  <2>2. first = <<first[1], first[2]>> /\ first[1] = q.satVar /\ first[2] = q.satVar2
    OBVIOUS
  <2> HIDE DEF first
  <2>3. PairsAt(q, v, {}, first)
    BY <1>3, <2>2 DEF PairsAt
  <2>4. 0 \in 0 .. m
    BY <1>1
  <2>5. QED  BY <1>5, <2>1, <2>3, <2>4
<1> HIDE DEF first, Table
<1>7. ASSUME NEW k \in 1 .. m, NEW x \in X[k - 1] PROVE PairAfter(q, v, VarLit[v][k], x) \in X[k]
  <2> DEFINE o == VarLit[v][k]
             c == o.clause
             D == Done(v, k - 1)
  <2>1. k - 1 \in 0 .. m /\ k \in 0 .. m
    BY <1>1
  <2>2. /\ c \in Clauses /\ c \notin D /\ Done(v, k) = D \cup {c}
        /\ o.sense = SenseIn(c, v) /\ v \in ClauseVars[c]
    BY <1>1, DoneIs DEF m
  <2>3. PairsAt(q, v, D, x)
    BY <1>5, <2>1
  <2>4. o.clause = c
    OBVIOUS
  <2> HIDE DEF o, c, D
  <2>5. PairsAt(q, v, D \cup {c}, PairAfter(q, v, o, x))
    BY <2>2, <2>3, <2>4, PairTurn
  <2>6. PairsAt(q, v, Done(v, k), PairAfter(q, v, o, x))
    BY <2>2, <2>5
  <2>7. QED  BY <1>5, <2>1, <2>6 DEF o
<1>8. \A k \in 1 .. m : \A x \in X[k - 1] : turn[k][x] \in X[k] /\ turn[k][x] = PairAfter(q, v, VarLit[v][k], x)
  BY <1>7
<1> HIDE DEF turn, Is
<1>9. PICK g : Turns(g, m, first, turn) /\ \A k \in 0 .. m : g[k] \in X[k]
  <2>1. \A k \in 1 .. m : \A x \in X[k - 1] : turn[k][x] \in X[k]
    BY <1>8
  <2>2. m \in Nat
    BY <1>1
  <2>3. QED  BY <1>6, <2>1, <2>2, Stepwise
<1>10. Is(g)
  <2>1. \A k \in 1 .. m : k - 1 \in 0 .. m /\ k \in 0 .. m /\ k # 0
    BY <1>1
  <2>2. \A k \in 1 .. m : g[k] = PairAfter(q, v, VarLit[v][k], g[k - 1])
    BY <1>8, <1>9, <2>1 DEF Turns
  <2>3. DOMAIN g = 0 .. m /\ g = [k \in DOMAIN g |-> g[k]]
    BY <1>9 DEF Turns
  <2>4. g[0] = first /\ \A k \in 0 .. m : k # 0 => k \in 1 .. m
    BY <1>1, <1>9 DEF Turns
  <2>5. QED  BY <2>2, <2>3, <2>4 DEF Is
<1>11. Is(run)
  BY <1>10
<1> HIDE DEF run
<1>12. run[m] \in X[m]
  <2>1. run[0] \in X[0]
    BY <1>1, <1>6, <1>11 DEF Is
  <2>2. ASSUME NEW k \in 1 .. m, run[k - 1] \in X[k - 1] PROVE run[k] \in X[k]
    <3>1. k \in 0 .. m /\ k # 0
      BY <1>1
    <3>2. run[k] = PairAfter(q, v, VarLit[v][k], run[k - 1])
      BY <1>11, <3>1 DEF Is
    <3>3. QED  BY <1>8, <2>2, <3>2
  <2>3. QED  BY <1>1, <2>1, <2>2, RunStays
<1>13. m \in 0 .. m
  BY <1>1
<1>14. PairsAt(q, v, Done(v, m), run[m])
  BY <1>5, <1>12, <1>13
<1>15. Done(v, m) = { c \in Clauses : v \in ClauseVars[c] }
  BY <1>1, DoneIs DEF m
<1>16. QED  BY <1>2, <1>14, <1>15

(* update_score2.  The pair noted for a clause that has two true literals, *)
(* or had two before v made a third one true, is right.                    *)
PairBefore(old, new, f, g) ==
  \A c \in Clauses :
    Cardinality(Held(old, c)) = 2 /\ Cardinality(Held(new, c)) # 1 => Held(old, c) = {f[c], g[c]}

PairsReady(q, v, old) ==
  /\ q \in FieldsType /\ q.satCount = Counting(q.soln)
  /\ v \in Vars /\ old \in Solutions /\ q.soln = Flipped(old, v)
  /\ PairHeld(q) /\ PairBefore(old, q.soln, q.satVar, q.satVar2)

(* What the clause gives to score2, from its true literals H.              *)
Second(c, H, u) ==
  (IF u \in ClauseVars[c] \ H /\ Cardinality(H) = 1 THEN 1 ELSE 0)
    - (IF u \in H /\ Cardinality(H) = 2 THEN 1 ELSE 0)

LEMMA PairOfTwo ==
  ASSUME NEW H, IsFiniteSet(H), Cardinality(H) = 2, NEW a, NEW b, H = {a, b}
  PROVE  a # b
<1>1. SUFFICES ASSUME a = b PROVE FALSE
  OBVIOUS
<1>2. H = {a}
  BY <1>1
<1>3. Cardinality(H) = 1
  BY <1>2, FS_Singleton
<1>4. QED  BY <1>3

LEMMA Score2Turn ==
  ASSUME ClausesExact, NEW q, NEW v, NEW old, PairsReady(q, v, old), NEW c \in Clauses,
         v \in ClauseVars[c], NEW o, o.clause = c, o.sense = SenseIn(c, v), NEW f \in Ints
  PROVE  Adjusted(f, Score2After(q, v, o, f), SecondParts(old), SecondParts(q.soln), c)
<1> DEFINE n == q.satCount[c]
           new == q.soln
           Ho == Held(old, c)
           Hn == Held(new, c)
           m == Cardinality(Ho)
           C == ClauseVars[c]
           a == q.satVar[c]
           b == q.satVar2[c]
           x == Score2After(q, v, o, f)
           So(u) == Second(c, Ho, u)
           Sn(u) == Second(c, Hn, u)
<1>1. /\ v \in Vars /\ v \in C /\ old \in Solutions /\ new \in Solutions /\ new = Flipped(old, v)
      /\ n = Cardinality(Hn)
      /\ n = 2 => Hn = {a, b}
      /\ m = 2 /\ n # 1 => Ho = {a, b}
  <2>1. q \in FieldsType /\ n = Cardinality(Hn)
    BY DEF PairsReady, Counting
  <2>2. new \in Solutions
    BY <2>1 DEF FieldsType
  <2>3. (n = 2 => Hn = {a, b}) /\ (m = 2 /\ n # 1 => Ho = {a, b})
    BY <2>1 DEF PairsReady, PairHeld, PairIn, PairBefore
  <2>4. QED  BY <2>1, <2>2, <2>3 DEF PairsReady
<1>2. /\ new[v] = o.sense => v \notin Ho /\ Hn = Ho \cup {v} /\ n = m + 1
      /\ new[v] # o.sense => v \in Ho /\ Hn = Ho \ {v} /\ n = m - 1
  <2> HIDE DEF new, n
  <2>1. Cardinality(Held(new, c)) = n
    BY <1>1
  <2> HIDE DEF Hn
  <2>2. Hn = Held(Flipped(old, v), c) /\ Ho = Held(old, c) /\ n = Cardinality(Hn) /\ m = Cardinality(Ho)
    BY <1>1 DEF Hn, Ho, m
  <2> HIDE DEF Ho, m
  <2>3. QED  BY <1>1, <2>2, HeldFlipped
<1> HIDE DEF n, new, a, b
<1>3. /\ Ho \subseteq C /\ Hn \subseteq C /\ IsFiniteSet(Ho) /\ IsFiniteSet(Hn)
      /\ m \in Nat /\ n \in Nat
  <2>1. Ho \subseteq C /\ IsFiniteSet(Ho) /\ m \in Nat
    BY <1>1, HeldIs
  <2>2. Hn \subseteq C /\ IsFiniteSet(Hn) /\ Cardinality(Hn) \in Nat
    BY <1>1, HeldIs
  <2>3. QED  BY <1>1, <2>1, <2>2
<1> HIDE DEF Ho, Hn, C
<1>4. (m = 0 <=> Ho = {}) /\ (n = 0 <=> Hn = {})
  <2>1. (m = 0 <=> Ho = {}) /\ (Cardinality(Hn) = 0 <=> Hn = {})
    BY <1>3, FS_EmptySet
  <2>2. QED  BY <1>1, <2>1
<1> HIDE DEF m
<1>5. SUFFICES x \in Ints /\ \A u \in Vars : x[u] = f[u] + (Sn(u) - So(u))
  <2>1. \A u \in Vars : SecondParts(old)[u][c] = So(u) /\ SecondParts(q.soln)[u][c] = Sn(u)
    BY DEF SecondParts, GainParts, LossParts, Second, Ho, Hn, new
  <2> HIDE DEF So, Sn, x
  <2>2. QED  BY <2>1 DEF Adjusted, x
<1>6. \A u \in Vars : f[u] \in Int
  BY DEF Ints
<1>7. /\ \A u : So(u) = (IF u \in C \ Ho /\ m = 1 THEN 1 ELSE 0) - (IF u \in Ho /\ m = 2 THEN 1 ELSE 0)
      /\ \A u : Sn(u) = (IF u \in C \ Hn /\ n = 1 THEN 1 ELSE 0) - (IF u \in Hn /\ n = 2 THEN 1 ELSE 0)
  BY <1>1 DEF Second, C, m
<1>8. 1 \in Int /\ -1 \in Int
  OBVIOUS
<1>9. CASE new[v] = o.sense /\ n = 1
  <2>1. m = 0 /\ Ho = {} /\ Hn = {v}
    BY <1>1, <1>2, <1>3, <1>4, <1>9
  <2> DEFINE g == Plus(f, {v}, -1)
  <2>2. x = Plus(g, C, 1)
    BY <1>1, <1>9 DEF Score2After, n, new, C, a, b
  <2>3. g \in Ints /\ \A u \in Vars : g[u] = IF u \in {v} THEN f[u] + (-1) ELSE f[u]
    BY <1>8, PlusIs
  <2> HIDE DEF g
  <2>4. x \in Ints /\ \A u \in Vars : x[u] = IF u \in C THEN g[u] + (1) ELSE g[u]
    BY <1>8, <2>2, <2>3, PlusIs
  <2> HIDE DEF x, So, Sn
  <2>5. ASSUME NEW u \in Vars PROVE x[u] = f[u] + (Sn(u) - So(u))
    <3> DEFINE i == f[u]
    <3>1. i \in Int
      BY <1>6
    <3>2. CASE u = v
      <4>1. So(u) = 0 /\ Sn(u) = 0
        BY <1>9, <1>7, <2>1, <3>2
      <4>2. g[u] = i + (-1)
        BY <1>1, <2>1, <2>3, <3>2
      <4>3. x[u] = (i + (-1)) + (1)
        BY <1>1, <2>1, <2>4, <4>2, <3>2
      <4> HIDE DEF i
      <4>4. (i + (-1)) + (1) = i + ((0) - (0))
        BY <3>1
      <4>5. QED  BY <4>1, <4>3, <4>4 DEF i
    <3>3. CASE u \in C /\ u # v
      <4>1. So(u) = 0 /\ Sn(u) = 1
        BY <1>9, <1>7, <2>1, <3>3
      <4>2. g[u] = i
        BY <1>1, <2>1, <2>3, <3>3
      <4>3. x[u] = (i) + (1)
        BY <1>1, <2>1, <2>4, <4>2, <3>3
      <4> HIDE DEF i
      <4>4. (i) + (1) = i + ((1) - (0))
        BY <3>1
      <4>5. QED  BY <4>1, <4>3, <4>4 DEF i
    <3>4. CASE u \notin C /\ u # v
      <4>1. So(u) = 0 /\ Sn(u) = 0
        BY <1>9, <1>7, <2>1, <3>4
      <4>2. g[u] = i
        BY <1>1, <2>1, <2>3, <3>4
      <4>3. x[u] = i
        BY <1>1, <2>1, <2>4, <4>2, <3>4
      <4> HIDE DEF i
      <4>4. i = i + ((0) - (0))
        BY <3>1
      <4>5. QED  BY <4>1, <4>3, <4>4 DEF i
    <3>5. QED  BY <1>1, <1>3, <2>1, <3>2, <3>3, <3>4
  <2>6. QED  BY <2>4, <2>5
<1>10. CASE new[v] = o.sense /\ n = 2
  <2>1. m = 1 /\ v \notin Ho /\ Hn = Ho \cup {v} /\ Ho \subseteq C /\ v \in C
    BY <1>1, <1>2, <1>3, <1>4, <1>10
  <2> DEFINE g == Plus(f, {v}, -1)
  <2>2. x = Plus(g, C, -1)
    BY <1>1, <1>10 DEF Score2After, n, new, C, a, b
  <2>3. g \in Ints /\ \A u \in Vars : g[u] = IF u \in {v} THEN f[u] + (-1) ELSE f[u]
    BY <1>8, PlusIs
  <2> HIDE DEF g
  <2>4. x \in Ints /\ \A u \in Vars : x[u] = IF u \in C THEN g[u] + (-1) ELSE g[u]
    BY <1>8, <2>2, <2>3, PlusIs
  <2> HIDE DEF x, So, Sn
  <2>5. ASSUME NEW u \in Vars PROVE x[u] = f[u] + (Sn(u) - So(u))
    <3> DEFINE i == f[u]
    <3>1. i \in Int
      BY <1>6
    <3>2. CASE u = v
      <4>1. So(u) = 1 /\ Sn(u) = -1
        BY <1>10, <1>7, <2>1, <3>2
      <4>2. g[u] = i + (-1)
        BY <1>1, <2>1, <2>3, <3>2
      <4>3. x[u] = (i + (-1)) + (-1)
        BY <1>1, <2>1, <2>4, <4>2, <3>2
      <4> HIDE DEF i
      <4>4. (i + (-1)) + (-1) = i + ((-1) - (1))
        BY <3>1
      <4>5. QED  BY <4>1, <4>3, <4>4 DEF i
    <3>3. CASE u \in C /\ u # v /\ u \in Ho
      <4>1. So(u) = 0 /\ Sn(u) = -1
        BY <1>10, <1>7, <2>1, <3>3
      <4>2. g[u] = i
        BY <1>1, <2>1, <2>3, <3>3
      <4>3. x[u] = (i) + (-1)
        BY <1>1, <2>1, <2>4, <4>2, <3>3
      <4> HIDE DEF i
      <4>4. (i) + (-1) = i + ((-1) - (0))
        BY <3>1
      <4>5. QED  BY <4>1, <4>3, <4>4 DEF i
    <3>4. CASE u \in C /\ u # v /\ u \notin Ho
      <4>1. So(u) = 1 /\ Sn(u) = 0
        BY <1>10, <1>7, <2>1, <3>4
      <4>2. g[u] = i
        BY <1>1, <2>1, <2>3, <3>4
      <4>3. x[u] = (i) + (-1)
        BY <1>1, <2>1, <2>4, <4>2, <3>4
      <4> HIDE DEF i
      <4>4. (i) + (-1) = i + ((0) - (1))
        BY <3>1
      <4>5. QED  BY <4>1, <4>3, <4>4 DEF i
    <3>5. CASE u \notin C /\ u # v
      <4>1. So(u) = 0 /\ Sn(u) = 0
        BY <1>10, <1>7, <2>1, <3>5
      <4>2. g[u] = i
        BY <1>1, <2>1, <2>3, <3>5
      <4>3. x[u] = i
        BY <1>1, <2>1, <2>4, <4>2, <3>5
      <4> HIDE DEF i
      <4>4. i = i + ((0) - (0))
        BY <3>1
      <4>5. QED  BY <4>1, <4>3, <4>4 DEF i
    <3>6. QED  BY <1>1, <1>3, <2>1, <3>2, <3>3, <3>4, <3>5
  <2>6. QED  BY <2>4, <2>5
<1>11. CASE new[v] = o.sense /\ n = 3
  <2>1. m = 2 /\ Ho = {a, b} /\ a # b
    <3>1. m = 2
      BY <1>2, <1>3, <1>11
    <3>2. Ho = {a, b} /\ IsFiniteSet(Ho) /\ Cardinality(Ho) = 2
      BY <1>1, <1>3, <1>11, <3>1 DEF m
    <3>3. a # b
      BY <3>2, PairOfTwo
    <3>4. QED  BY <3>1, <3>2, <3>3
  <2> DEFINE g == Plus(f, {a}, 1)
  <2>2. x = Plus(g, {b}, 1)
    BY <1>1, <1>11 DEF Score2After, n, new, C, a, b
  <2>3. g \in Ints /\ \A u \in Vars : g[u] = IF u \in {a} THEN f[u] + (1) ELSE f[u]
    BY <1>8, PlusIs
  <2> HIDE DEF g
  <2>4. x \in Ints /\ \A u \in Vars : x[u] = IF u \in {b} THEN g[u] + (1) ELSE g[u]
    BY <1>8, <2>2, <2>3, PlusIs
  <2> HIDE DEF x, So, Sn
  <2>5. ASSUME NEW u \in Vars PROVE x[u] = f[u] + (Sn(u) - So(u))
    <3> DEFINE i == f[u]
    <3>1. i \in Int
      BY <1>6
    <3>2. CASE u = a
      <4>1. So(u) = -1 /\ Sn(u) = 0
        BY <1>11, <1>7, <2>1, <3>2
      <4>2. g[u] = i + (1)
        BY <1>1, <2>1, <2>3, <3>2
      <4>3. x[u] = i + (1)
        BY <1>1, <2>1, <2>4, <4>2, <3>2
      <4> HIDE DEF i
      <4>4. i + (1) = i + ((0) - (-1))
        BY <3>1
      <4>5. QED  BY <4>1, <4>3, <4>4 DEF i
    <3>3. CASE u = b
      <4>1. So(u) = -1 /\ Sn(u) = 0
        BY <1>11, <1>7, <2>1, <3>3
      <4>2. g[u] = i
        BY <1>1, <2>1, <2>3, <3>3
      <4>3. x[u] = (i) + (1)
        BY <1>1, <2>1, <2>4, <4>2, <3>3
      <4> HIDE DEF i
      <4>4. (i) + (1) = i + ((0) - (-1))
        BY <3>1
      <4>5. QED  BY <4>1, <4>3, <4>4 DEF i
    <3>4. CASE u # a /\ u # b
      <4>1. So(u) = 0 /\ Sn(u) = 0
        BY <1>11, <1>7, <2>1, <3>4
      <4>2. g[u] = i
        BY <1>1, <2>1, <2>3, <3>4
      <4>3. x[u] = i
        BY <1>1, <2>1, <2>4, <4>2, <3>4
      <4> HIDE DEF i
      <4>4. i = i + ((0) - (0))
        BY <3>1
      <4>5. QED  BY <4>1, <4>3, <4>4 DEF i
    <3>5. QED  BY <1>1, <1>3, <2>1, <3>2, <3>3, <3>4
  <2>6. QED  BY <2>4, <2>5
<1>12. CASE new[v] # o.sense /\ n = 0
  <2>1. m = 1 /\ Ho = {v} /\ Hn = {}
    BY <1>1, <1>2, <1>3, <1>4, <1>12
  <2> DEFINE g == Plus(f, {v}, 1)
  <2>2. x = Plus(g, C, -1)
    BY <1>1, <1>12 DEF Score2After, n, new, C, a, b
  <2>3. g \in Ints /\ \A u \in Vars : g[u] = IF u \in {v} THEN f[u] + (1) ELSE f[u]
    BY <1>8, PlusIs
  <2> HIDE DEF g
  <2>4. x \in Ints /\ \A u \in Vars : x[u] = IF u \in C THEN g[u] + (-1) ELSE g[u]
    BY <1>8, <2>2, <2>3, PlusIs
  <2> HIDE DEF x, So, Sn
  <2>5. ASSUME NEW u \in Vars PROVE x[u] = f[u] + (Sn(u) - So(u))
    <3> DEFINE i == f[u]
    <3>1. i \in Int
      BY <1>6
    <3>2. CASE u = v
      <4>1. So(u) = 0 /\ Sn(u) = 0
        BY <1>12, <1>7, <2>1, <3>2
      <4>2. g[u] = i + (1)
        BY <1>1, <2>1, <2>3, <3>2
      <4>3. x[u] = (i + (1)) + (-1)
        BY <1>1, <2>1, <2>4, <4>2, <3>2
      <4> HIDE DEF i
      <4>4. (i + (1)) + (-1) = i + ((0) - (0))
        BY <3>1
      <4>5. QED  BY <4>1, <4>3, <4>4 DEF i
    <3>3. CASE u \in C /\ u # v
      <4>1. So(u) = 1 /\ Sn(u) = 0
        BY <1>12, <1>7, <2>1, <3>3
      <4>2. g[u] = i
        BY <1>1, <2>1, <2>3, <3>3
      <4>3. x[u] = (i) + (-1)
        BY <1>1, <2>1, <2>4, <4>2, <3>3
      <4> HIDE DEF i
      <4>4. (i) + (-1) = i + ((0) - (1))
        BY <3>1
      <4>5. QED  BY <4>1, <4>3, <4>4 DEF i
    <3>4. CASE u \notin C /\ u # v
      <4>1. So(u) = 0 /\ Sn(u) = 0
        BY <1>12, <1>7, <2>1, <3>4
      <4>2. g[u] = i
        BY <1>1, <2>1, <2>3, <3>4
      <4>3. x[u] = i
        BY <1>1, <2>1, <2>4, <4>2, <3>4
      <4> HIDE DEF i
      <4>4. i = i + ((0) - (0))
        BY <3>1
      <4>5. QED  BY <4>1, <4>3, <4>4 DEF i
    <3>5. QED  BY <1>1, <1>3, <2>1, <3>2, <3>3, <3>4
  <2>6. QED  BY <2>4, <2>5
<1>13. CASE new[v] # o.sense /\ n = 1
  <2>1. m = 2 /\ v \in Ho /\ Hn = Ho \ {v} /\ Ho \subseteq C
    BY <1>1, <1>2, <1>3, <1>4, <1>13
  <2> DEFINE g == Plus(f, {v}, 1)
  <2>2. x = Plus(g, C, 1)
    BY <1>1, <1>13 DEF Score2After, n, new, C, a, b
  <2>3. g \in Ints /\ \A u \in Vars : g[u] = IF u \in {v} THEN f[u] + (1) ELSE f[u]
    BY <1>8, PlusIs
  <2> HIDE DEF g
  <2>4. x \in Ints /\ \A u \in Vars : x[u] = IF u \in C THEN g[u] + (1) ELSE g[u]
    BY <1>8, <2>2, <2>3, PlusIs
  <2> HIDE DEF x, So, Sn
  <2>5. ASSUME NEW u \in Vars PROVE x[u] = f[u] + (Sn(u) - So(u))
    <3> DEFINE i == f[u]
    <3>1. i \in Int
      BY <1>6
    <3>2. CASE u = v
      <4>1. So(u) = -1 /\ Sn(u) = 1
        BY <1>13, <1>7, <2>1, <3>2
      <4>2. g[u] = i + (1)
        BY <1>1, <2>1, <2>3, <3>2
      <4>3. x[u] = (i + (1)) + (1)
        BY <1>1, <2>1, <2>4, <4>2, <3>2
      <4> HIDE DEF i
      <4>4. (i + (1)) + (1) = i + ((1) - (-1))
        BY <3>1
      <4>5. QED  BY <4>1, <4>3, <4>4 DEF i
    <3>3. CASE u \in C /\ u # v /\ u \in Ho
      <4>1. So(u) = -1 /\ Sn(u) = 0
        BY <1>13, <1>7, <2>1, <3>3
      <4>2. g[u] = i
        BY <1>1, <2>1, <2>3, <3>3
      <4>3. x[u] = (i) + (1)
        BY <1>1, <2>1, <2>4, <4>2, <3>3
      <4> HIDE DEF i
      <4>4. (i) + (1) = i + ((0) - (-1))
        BY <3>1
      <4>5. QED  BY <4>1, <4>3, <4>4 DEF i
    <3>4. CASE u \in C /\ u # v /\ u \notin Ho
      <4>1. So(u) = 0 /\ Sn(u) = 1
        BY <1>13, <1>7, <2>1, <3>4
      <4>2. g[u] = i
        BY <1>1, <2>1, <2>3, <3>4
      <4>3. x[u] = (i) + (1)
        BY <1>1, <2>1, <2>4, <4>2, <3>4
      <4> HIDE DEF i
      <4>4. (i) + (1) = i + ((1) - (0))
        BY <3>1
      <4>5. QED  BY <4>1, <4>3, <4>4 DEF i
    <3>5. CASE u \notin C /\ u # v
      <4>1. So(u) = 0 /\ Sn(u) = 0
        BY <1>13, <1>7, <2>1, <3>5
      <4>2. g[u] = i
        BY <1>1, <2>1, <2>3, <3>5
      <4>3. x[u] = i
        BY <1>1, <2>1, <2>4, <4>2, <3>5
      <4> HIDE DEF i
      <4>4. i = i + ((0) - (0))
        BY <3>1
      <4>5. QED  BY <4>1, <4>3, <4>4 DEF i
    <3>6. QED  BY <1>1, <1>3, <2>1, <3>2, <3>3, <3>4, <3>5
  <2>6. QED  BY <2>4, <2>5
<1>14. CASE new[v] # o.sense /\ n = 2
  <2>1. m = 3 /\ Hn = {a, b} /\ a # b
    <3>1. m = 3
      BY <1>2, <1>3, <1>14
    <3>2. Hn = {a, b} /\ IsFiniteSet(Hn) /\ Cardinality(Hn) = 2
      BY <1>1, <1>3, <1>14, <3>1 DEF m
    <3>3. a # b
      BY <3>2, PairOfTwo
    <3>4. QED  BY <3>1, <3>2, <3>3
  <2> DEFINE g == Plus(f, {a}, -1)
  <2>2. x = Plus(g, {b}, -1)
    BY <1>1, <1>14 DEF Score2After, n, new, C, a, b
  <2>3. g \in Ints /\ \A u \in Vars : g[u] = IF u \in {a} THEN f[u] + (-1) ELSE f[u]
    BY <1>8, PlusIs
  <2> HIDE DEF g
  <2>4. x \in Ints /\ \A u \in Vars : x[u] = IF u \in {b} THEN g[u] + (-1) ELSE g[u]
    BY <1>8, <2>2, <2>3, PlusIs
  <2> HIDE DEF x, So, Sn
  <2>5. ASSUME NEW u \in Vars PROVE x[u] = f[u] + (Sn(u) - So(u))
    <3> DEFINE i == f[u]
    <3>1. i \in Int
      BY <1>6
    <3>2. CASE u = a
      <4>1. So(u) = 0 /\ Sn(u) = -1
        BY <1>14, <1>7, <2>1, <3>2
      <4>2. g[u] = i + (-1)
        BY <1>1, <2>1, <2>3, <3>2
      <4>3. x[u] = i + (-1)
        BY <1>1, <2>1, <2>4, <4>2, <3>2
      <4> HIDE DEF i
      <4>4. i + (-1) = i + ((-1) - (0))
        BY <3>1
      <4>5. QED  BY <4>1, <4>3, <4>4 DEF i
    <3>3. CASE u = b
      <4>1. So(u) = 0 /\ Sn(u) = -1
        BY <1>14, <1>7, <2>1, <3>3
      <4>2. g[u] = i
        BY <1>1, <2>1, <2>3, <3>3
      <4>3. x[u] = (i) + (-1)
        BY <1>1, <2>1, <2>4, <4>2, <3>3
      <4> HIDE DEF i
      <4>4. (i) + (-1) = i + ((-1) - (0))
        BY <3>1
      <4>5. QED  BY <4>1, <4>3, <4>4 DEF i
    <3>4. CASE u # a /\ u # b
      <4>1. So(u) = 0 /\ Sn(u) = 0
        BY <1>14, <1>7, <2>1, <3>4
      <4>2. g[u] = i
        BY <1>1, <2>1, <2>3, <3>4
      <4>3. x[u] = i
        BY <1>1, <2>1, <2>4, <4>2, <3>4
      <4> HIDE DEF i
      <4>4. i = i + ((0) - (0))
        BY <3>1
      <4>5. QED  BY <4>1, <4>3, <4>4 DEF i
    <3>5. QED  BY <1>1, <1>3, <2>1, <3>2, <3>3, <3>4
  <2>6. QED  BY <2>4, <2>5
<1>15. CASE IF new[v] = o.sense THEN n > 3 ELSE n > 2
  <2>1. m > 2 /\ n > 2
    BY <1>2, <1>3, <1>15
  <2>2. x = f
    BY <1>3, <1>15 DEF Score2After, n, new
  <2> HIDE DEF x, So, Sn
  <2>3. \A u : So(u) = 0 /\ Sn(u) = 0
    BY <1>3, <1>7, <2>1
  <2>4. ASSUME NEW u \in Vars PROVE x[u] = f[u] + (Sn(u) - So(u))
    <3> DEFINE i == f[u]
    <3>1. i \in Int
      BY <1>6
    <3> HIDE DEF i
    <3>2. i = i + (0 - 0)
      BY <3>1
    <3>3. QED  BY <2>2, <2>3, <3>2 DEF i
  <2>5. QED  BY <2>2, <2>4
<1>16. \/ new[v] = o.sense /\ n = 1
       \/ new[v] = o.sense /\ n = 2
       \/ new[v] = o.sense /\ n = 3
       \/ new[v] # o.sense /\ n = 0
       \/ new[v] # o.sense /\ n = 1
       \/ new[v] # o.sense /\ n = 2
       \/ IF new[v] = o.sense THEN n > 3 ELSE n > 2
  BY <1>2, <1>3
<1>17. QED  BY <1>9, <1>10, <1>11, <1>12, <1>13, <1>14, <1>15, <1>16

(* A score that differs from what the clauses give by d, which may be 0    *)
(* everywhere: break_score and make_score do once weights have changed.    *)
Shifted(P, d) == [u \in Vars |-> Total(P)[u] + d[u]]

LEMMA ShiftedIs ==
  ASSUME ClausesExact, NEW P \in Parts, NEW d \in Ints
  PROVE  /\ Shifted(P, d) \in Ints
         /\ \A u \in Vars : Shifted(P, d)[u] = Total(P)[u] + d[u]
<1>1. Total(P) \in Ints
  BY TotalType DEF Ints
<1>2. QED  BY <1>1 DEF Shifted, Ints

LEMMA ShiftedTurn ==
  ASSUME ClausesExact, VarsExact, NEW v \in Vars, NEW po \in Parts, NEW pn \in Parts, NEW d \in Ints,
         NEW k \in 1 .. Len(VarLit[v]), NEW f, f = Shifted(Blend(po, pn, Done(v, k - 1)), d),
         NEW g, Adjusted(f, g, po, pn, VarLit[v][k].clause)
  PROVE  g = Shifted(Blend(po, pn, Done(v, k)), d)
<1> DEFINE c == VarLit[v][k].clause
           D == Done(v, k - 1)
           B == Blend(po, pn, D)
           g0 == [u \in Vars |-> g[u] - d[u]]
<1>1. c \in Clauses /\ c \notin D /\ Done(v, k) = D \cup {c}
  BY DoneIs
<1>2. g \in Ints /\ \A u \in Vars : g[u] = f[u] + (pn[u][c] - po[u][c])
  BY DEF Adjusted
<1> HIDE DEF c, D
<1>3. B \in Parts
  BY BlendType
<1>4. Total(B) \in Ints /\ \A u \in Vars : f[u] = Total(B)[u] + d[u]
  BY <1>3, ShiftedIs, TotalType DEF D, Ints
<1> HIDE DEF B
<1>5. ASSUME NEW u \in Vars PROVE g0[u] = Total(B)[u] + (pn[u][c] - po[u][c])
  <2> DEFINE e == pn[u][c] - po[u][c]
             t == Total(B)[u]
             i == d[u]
  <2>1. e \in Int /\ t \in Int /\ i \in Int
    BY <1>1, <1>4 DEF Parts, Ints
  <2>2. g0[u] = g[u] - i /\ g[u] = (t + i) + e
    BY <1>2, <1>4
  <2> HIDE DEF e, t, i, g0
  <2>3. g0[u] = t + e
    BY <2>1, <2>2
  <2>4. QED  BY <2>3 DEF t, e
<1>6. g0 \in Ints
  BY <1>2 DEF Ints
<1>7. g0 = Total(Blend(po, pn, D \cup {c}))
  <2> HIDE DEF g0
  <2>1. QED  BY <1>1, <1>5, <1>6, BlendStep DEF B
<1>8. \A u \in Vars : g[u] = g0[u] + d[u]
  <2> HIDE DEF g0
  <2>1. ASSUME NEW u \in Vars PROVE g[u] = g0[u] + d[u]
    <3> DEFINE i == d[u]
               j == g[u]
    <3>1. i \in Int /\ j \in Int
      BY <1>2 DEF Ints
    <3>2. g0[u] = j - i
      BY DEF g0
    <3> HIDE DEF i, j
    <3>3. j = g0[u] + i
      BY <3>1, <3>2
    <3>4. QED  BY <3>3 DEF i, j
  <2>2. QED  BY <2>1
<1>9. g = [u \in Vars |-> g[u]]
  BY <1>2 DEF Ints
<1> HIDE DEF g0
<1>10. QED  BY <1>1, <1>7, <1>8, <1>9 DEF Shifted

(* A change of the parts of the clauses of v reaches all of them.          *)
Local(v, po, pn) ==
  /\ po \in Parts /\ pn \in Parts
  /\ \A u \in Vars : \A c \in Clauses : v \notin ClauseVars[c] => po[u][c] = pn[u][c]

LEMMA PartsLocal ==
  ASSUME ClausesExact, NEW v \in Vars, NEW old \in Solutions, NEW new, new = Flipped(old, v),
         NEW w, w \in [Clauses -> Int]
  PROVE  /\ Local(v, ScoreParts(old, w), ScoreParts(new, w))
         /\ Local(v, BreakParts(old, w), BreakParts(new, w))
         /\ Local(v, MakeParts(old, w), MakeParts(new, w))
         /\ Local(v, SecondParts(old), SecondParts(new))
<1>1. new \in Solutions /\ \A c \in Clauses : v \notin ClauseVars[c] => Held(new, c) = Held(old, c)
  <2>1. Flipped(old, v) \in Solutions
    BY DEF Flipped, Solutions
  <2>2. \A c \in Clauses : v \notin ClauseVars[c] => Held(Flipped(old, v), c) = Held(old, c)
    BY HeldFlipped
  <2>3. QED  BY <2>1, <2>2
<1>2. /\ ScoreParts(old, w) \in Parts /\ BreakParts(old, w) \in Parts /\ MakeParts(old, w) \in Parts
      /\ SecondParts(old) \in Parts /\ ScoreParts(new, w) \in Parts /\ BreakParts(new, w) \in Parts
      /\ MakeParts(new, w) \in Parts /\ SecondParts(new) \in Parts
  BY <1>1, PartsType
<1>3. ASSUME NEW u \in Vars, NEW c \in Clauses, v \notin ClauseVars[c]
      PROVE  /\ MakeParts(old, w)[u][c] = MakeParts(new, w)[u][c]
             /\ BreakParts(old, w)[u][c] = BreakParts(new, w)[u][c]
             /\ GainParts(old)[u][c] = GainParts(new)[u][c]
             /\ LossParts(old)[u][c] = LossParts(new)[u][c]
  BY <1>1, <1>3 DEF MakeParts, BreakParts, GainParts, LossParts
<1>4. ASSUME NEW u \in Vars, NEW c \in Clauses, v \notin ClauseVars[c]
      PROVE  /\ ScoreParts(old, w)[u][c] = ScoreParts(new, w)[u][c]
             /\ SecondParts(old)[u][c] = SecondParts(new)[u][c]
  BY <1>3, <1>4 DEF ScoreParts, SecondParts
<1>5. QED  BY <1>2, <1>3, <1>4 DEF Local

(* The loops of update_score, update_break_score, update_make_score and    *)
(* update_score2 over the clauses of v.                                    *)
LEMMA ScoreLoop ==
  ASSUME ClausesExact, VarsExact, NEW q, NEW v, NEW old, JustFlipped(q, v, old),
         NEW d \in Ints, NEW first, first = Shifted(ScoreParts(old, q.weight), d)
  PROVE  Rescored(ScoreAfter, q, v, first) = Shifted(ScoreParts(q.soln, q.weight), d)
<1> DEFINE m == Len(VarLit[v])
           po == ScoreParts(old, q.weight)
           pn == ScoreParts(q.soln, q.weight)
           B(k) == Shifted(Blend(po, pn, Done(v, k)), d)
           X == [k \in 0 .. m |-> {B(k)}]
           turn == [k \in 1 .. m |-> [x \in X[k - 1] |-> ScoreAfter(q, v, VarLit[v][k], x)]]
           Is(g) == g = [k \in 0 .. m |-> IF k = 0 THEN first ELSE ScoreAfter(q, v, VarLit[v][k], g[k - 1])]
           run == CHOOSE g : Is(g)
<1>1. v \in Vars /\ m \in Nat
  BY DoneIs DEF JustFlipped
<1>2. Rescored(ScoreAfter, q, v, first) = run[m]
  BY DEF Rescored, Loop
<1>3. Local(v, po, pn)
  <2>1. q \in FieldsType /\ old \in Solutions /\ q.soln = Flipped(old, v)
    BY DEF JustFlipped
  <2>2. q.weight \in [Clauses -> Int]
    BY <2>1 DEF FieldsType
  <2>3. QED  BY <1>1, <2>1, <2>2, PartsLocal
<1> HIDE DEF m, po, pn
<1>4. po \in Parts /\ pn \in Parts /\ B(0) = Shifted(po, d) /\ B(m) = Shifted(pn, d)
  BY <1>1, <1>3, BlendEnds DEF Local, m
<1>5. \A k \in 0 .. m : B(k) \in Ints
  BY <1>4, BlendType, ShiftedIs
<1> HIDE DEF B
<1>6. first \in X[0]
  BY <1>1, <1>4 DEF po
<1>one. \A k \in 0 .. m : \A x : x \in X[k] <=> x = B(k)
  OBVIOUS
<1> HIDE DEF X
<1>7. ASSUME NEW k \in 1 .. m, NEW x \in X[k - 1] PROVE ScoreAfter(q, v, VarLit[v][k], x) \in X[k]
  <2> DEFINE o == VarLit[v][k]
             c == o.clause
  <2>1. k - 1 \in 0 .. m /\ k \in 0 .. m
    BY <1>1
  <2>2. /\ c \in Clauses /\ o.sense = SenseIn(c, v) /\ v \in ClauseVars[c]
    BY <1>1, DoneIs DEF m
  <2>3. x = B(k - 1)
    BY <1>one, <2>1
  <2>4. x \in Ints
    BY <1>5, <2>1, <2>3
  <2>5. o.clause = c
    OBVIOUS
  <2> HIDE DEF o, c
  <2>6. Adjusted(x, ScoreAfter(q, v, o, x), po, pn, c)
    BY <2>2, <2>4, <2>5, ScoreTurn DEF po, pn
  <2>7. ScoreAfter(q, v, o, x) = B(k)
    BY <1>1, <1>4, <2>3, <2>6, ShiftedTurn DEF B, m, o, c
  <2>8. QED  BY <1>one, <2>1, <2>7 DEF o
<1>8. \A k \in 1 .. m : \A x \in X[k - 1] : turn[k][x] \in X[k] /\ turn[k][x] = ScoreAfter(q, v, VarLit[v][k], x)
  BY <1>7
<1> HIDE DEF turn, Is
<1>9. PICK g : Turns(g, m, first, turn) /\ \A k \in 0 .. m : g[k] \in X[k]
  <2>1. \A k \in 1 .. m : \A x \in X[k - 1] : turn[k][x] \in X[k]
    BY <1>8
  <2>2. m \in Nat
    BY <1>1
  <2>3. QED  BY <1>6, <2>1, <2>2, Stepwise
<1>10. Is(g)
  <2>1. \A k \in 1 .. m : k - 1 \in 0 .. m /\ k \in 0 .. m /\ k # 0
    BY <1>1
  <2>2. \A k \in 1 .. m : g[k] = ScoreAfter(q, v, VarLit[v][k], g[k - 1])
    BY <1>8, <1>9, <2>1 DEF Turns
  <2>3. DOMAIN g = 0 .. m /\ g = [k \in DOMAIN g |-> g[k]]
    BY <1>9 DEF Turns
  <2>4. g[0] = first /\ \A k \in 0 .. m : k # 0 => k \in 1 .. m
    BY <1>1, <1>9 DEF Turns
  <2>5. QED  BY <2>2, <2>3, <2>4 DEF Is
<1>11. Is(run)
  BY <1>10
<1> HIDE DEF run
<1>12. run[m] \in X[m]
  <2>1. run[0] \in X[0]
    BY <1>1, <1>6, <1>11 DEF Is
  <2>2. ASSUME NEW k \in 1 .. m, run[k - 1] \in X[k - 1] PROVE run[k] \in X[k]
    <3>1. k \in 0 .. m /\ k # 0
      BY <1>1
    <3>2. run[k] = ScoreAfter(q, v, VarLit[v][k], run[k - 1])
      BY <1>11, <3>1 DEF Is
    <3>3. QED  BY <1>8, <2>2, <3>2
  <2>3. QED  BY <1>1, <2>1, <2>2, RunStays
<1>13. m \in 0 .. m
  BY <1>1
<1>14. QED  BY <1>2, <1>4, <1>12, <1>13, <1>one DEF po, pn

LEMMA BreakLoop ==
  ASSUME ClausesExact, VarsExact, NEW q, NEW v, NEW old, JustFlipped(q, v, old),
         NEW d \in Ints, NEW first, first = Shifted(BreakParts(old, q.weight), d)
  PROVE  Rescored(BreakAfter, q, v, first) = Shifted(BreakParts(q.soln, q.weight), d)
<1> DEFINE m == Len(VarLit[v])
           po == BreakParts(old, q.weight)
           pn == BreakParts(q.soln, q.weight)
           B(k) == Shifted(Blend(po, pn, Done(v, k)), d)
           X == [k \in 0 .. m |-> {B(k)}]
           turn == [k \in 1 .. m |-> [x \in X[k - 1] |-> BreakAfter(q, v, VarLit[v][k], x)]]
           Is(g) == g = [k \in 0 .. m |-> IF k = 0 THEN first ELSE BreakAfter(q, v, VarLit[v][k], g[k - 1])]
           run == CHOOSE g : Is(g)
<1>1. v \in Vars /\ m \in Nat
  BY DoneIs DEF JustFlipped
<1>2. Rescored(BreakAfter, q, v, first) = run[m]
  BY DEF Rescored, Loop
<1>3. Local(v, po, pn)
  <2>1. q \in FieldsType /\ old \in Solutions /\ q.soln = Flipped(old, v)
    BY DEF JustFlipped
  <2>2. q.weight \in [Clauses -> Int]
    BY <2>1 DEF FieldsType
  <2>3. QED  BY <1>1, <2>1, <2>2, PartsLocal
<1> HIDE DEF m, po, pn
<1>4. po \in Parts /\ pn \in Parts /\ B(0) = Shifted(po, d) /\ B(m) = Shifted(pn, d)
  BY <1>1, <1>3, BlendEnds DEF Local, m
<1>5. \A k \in 0 .. m : B(k) \in Ints
  BY <1>4, BlendType, ShiftedIs
<1> HIDE DEF B
<1>6. first \in X[0]
  BY <1>1, <1>4 DEF po
<1>one. \A k \in 0 .. m : \A x : x \in X[k] <=> x = B(k)
  OBVIOUS
<1> HIDE DEF X
<1>7. ASSUME NEW k \in 1 .. m, NEW x \in X[k - 1] PROVE BreakAfter(q, v, VarLit[v][k], x) \in X[k]
  <2> DEFINE o == VarLit[v][k]
             c == o.clause
  <2>1. k - 1 \in 0 .. m /\ k \in 0 .. m
    BY <1>1
  <2>2. /\ c \in Clauses /\ o.sense = SenseIn(c, v) /\ v \in ClauseVars[c]
    BY <1>1, DoneIs DEF m
  <2>3. x = B(k - 1)
    BY <1>one, <2>1
  <2>4. x \in Ints
    BY <1>5, <2>1, <2>3
  <2>5. o.clause = c
    OBVIOUS
  <2> HIDE DEF o, c
  <2>6. Adjusted(x, BreakAfter(q, v, o, x), po, pn, c)
    BY <2>2, <2>4, <2>5, ScoreTurn DEF po, pn
  <2>7. BreakAfter(q, v, o, x) = B(k)
    BY <1>1, <1>4, <2>3, <2>6, ShiftedTurn DEF B, m, o, c
  <2>8. QED  BY <1>one, <2>1, <2>7 DEF o
<1>8. \A k \in 1 .. m : \A x \in X[k - 1] : turn[k][x] \in X[k] /\ turn[k][x] = BreakAfter(q, v, VarLit[v][k], x)
  BY <1>7
<1> HIDE DEF turn, Is
<1>9. PICK g : Turns(g, m, first, turn) /\ \A k \in 0 .. m : g[k] \in X[k]
  <2>1. \A k \in 1 .. m : \A x \in X[k - 1] : turn[k][x] \in X[k]
    BY <1>8
  <2>2. m \in Nat
    BY <1>1
  <2>3. QED  BY <1>6, <2>1, <2>2, Stepwise
<1>10. Is(g)
  <2>1. \A k \in 1 .. m : k - 1 \in 0 .. m /\ k \in 0 .. m /\ k # 0
    BY <1>1
  <2>2. \A k \in 1 .. m : g[k] = BreakAfter(q, v, VarLit[v][k], g[k - 1])
    BY <1>8, <1>9, <2>1 DEF Turns
  <2>3. DOMAIN g = 0 .. m /\ g = [k \in DOMAIN g |-> g[k]]
    BY <1>9 DEF Turns
  <2>4. g[0] = first /\ \A k \in 0 .. m : k # 0 => k \in 1 .. m
    BY <1>1, <1>9 DEF Turns
  <2>5. QED  BY <2>2, <2>3, <2>4 DEF Is
<1>11. Is(run)
  BY <1>10
<1> HIDE DEF run
<1>12. run[m] \in X[m]
  <2>1. run[0] \in X[0]
    BY <1>1, <1>6, <1>11 DEF Is
  <2>2. ASSUME NEW k \in 1 .. m, run[k - 1] \in X[k - 1] PROVE run[k] \in X[k]
    <3>1. k \in 0 .. m /\ k # 0
      BY <1>1
    <3>2. run[k] = BreakAfter(q, v, VarLit[v][k], run[k - 1])
      BY <1>11, <3>1 DEF Is
    <3>3. QED  BY <1>8, <2>2, <3>2
  <2>3. QED  BY <1>1, <2>1, <2>2, RunStays
<1>13. m \in 0 .. m
  BY <1>1
<1>14. QED  BY <1>2, <1>4, <1>12, <1>13, <1>one DEF po, pn

LEMMA MakeLoop ==
  ASSUME ClausesExact, VarsExact, NEW q, NEW v, NEW old, JustFlipped(q, v, old),
         NEW d \in Ints, NEW first, first = Shifted(MakeParts(old, q.weight), d)
  PROVE  Rescored(MakeAfter, q, v, first) = Shifted(MakeParts(q.soln, q.weight), d)
<1> DEFINE m == Len(VarLit[v])
           po == MakeParts(old, q.weight)
           pn == MakeParts(q.soln, q.weight)
           B(k) == Shifted(Blend(po, pn, Done(v, k)), d)
           X == [k \in 0 .. m |-> {B(k)}]
           turn == [k \in 1 .. m |-> [x \in X[k - 1] |-> MakeAfter(q, v, VarLit[v][k], x)]]
           Is(g) == g = [k \in 0 .. m |-> IF k = 0 THEN first ELSE MakeAfter(q, v, VarLit[v][k], g[k - 1])]
           run == CHOOSE g : Is(g)
<1>1. v \in Vars /\ m \in Nat
  BY DoneIs DEF JustFlipped
<1>2. Rescored(MakeAfter, q, v, first) = run[m]
  BY DEF Rescored, Loop
<1>3. Local(v, po, pn)
  <2>1. q \in FieldsType /\ old \in Solutions /\ q.soln = Flipped(old, v)
    BY DEF JustFlipped
  <2>2. q.weight \in [Clauses -> Int]
    BY <2>1 DEF FieldsType
  <2>3. QED  BY <1>1, <2>1, <2>2, PartsLocal
<1> HIDE DEF m, po, pn
<1>4. po \in Parts /\ pn \in Parts /\ B(0) = Shifted(po, d) /\ B(m) = Shifted(pn, d)
  BY <1>1, <1>3, BlendEnds DEF Local, m
<1>5. \A k \in 0 .. m : B(k) \in Ints
  BY <1>4, BlendType, ShiftedIs
<1> HIDE DEF B
<1>6. first \in X[0]
  BY <1>1, <1>4 DEF po
<1>one. \A k \in 0 .. m : \A x : x \in X[k] <=> x = B(k)
  OBVIOUS
<1> HIDE DEF X
<1>7. ASSUME NEW k \in 1 .. m, NEW x \in X[k - 1] PROVE MakeAfter(q, v, VarLit[v][k], x) \in X[k]
  <2> DEFINE o == VarLit[v][k]
             c == o.clause
  <2>1. k - 1 \in 0 .. m /\ k \in 0 .. m
    BY <1>1
  <2>2. /\ c \in Clauses /\ o.sense = SenseIn(c, v) /\ v \in ClauseVars[c]
    BY <1>1, DoneIs DEF m
  <2>3. x = B(k - 1)
    BY <1>one, <2>1
  <2>4. x \in Ints
    BY <1>5, <2>1, <2>3
  <2>5. o.clause = c
    OBVIOUS
  <2> HIDE DEF o, c
  <2>6. Adjusted(x, MakeAfter(q, v, o, x), po, pn, c)
    BY <2>2, <2>4, <2>5, ScoreTurn DEF po, pn
  <2>7. MakeAfter(q, v, o, x) = B(k)
    BY <1>1, <1>4, <2>3, <2>6, ShiftedTurn DEF B, m, o, c
  <2>8. QED  BY <1>one, <2>1, <2>7 DEF o
<1>8. \A k \in 1 .. m : \A x \in X[k - 1] : turn[k][x] \in X[k] /\ turn[k][x] = MakeAfter(q, v, VarLit[v][k], x)
  BY <1>7
<1> HIDE DEF turn, Is
<1>9. PICK g : Turns(g, m, first, turn) /\ \A k \in 0 .. m : g[k] \in X[k]
  <2>1. \A k \in 1 .. m : \A x \in X[k - 1] : turn[k][x] \in X[k]
    BY <1>8
  <2>2. m \in Nat
    BY <1>1
  <2>3. QED  BY <1>6, <2>1, <2>2, Stepwise
<1>10. Is(g)
  <2>1. \A k \in 1 .. m : k - 1 \in 0 .. m /\ k \in 0 .. m /\ k # 0
    BY <1>1
  <2>2. \A k \in 1 .. m : g[k] = MakeAfter(q, v, VarLit[v][k], g[k - 1])
    BY <1>8, <1>9, <2>1 DEF Turns
  <2>3. DOMAIN g = 0 .. m /\ g = [k \in DOMAIN g |-> g[k]]
    BY <1>9 DEF Turns
  <2>4. g[0] = first /\ \A k \in 0 .. m : k # 0 => k \in 1 .. m
    BY <1>1, <1>9 DEF Turns
  <2>5. QED  BY <2>2, <2>3, <2>4 DEF Is
<1>11. Is(run)
  BY <1>10
<1> HIDE DEF run
<1>12. run[m] \in X[m]
  <2>1. run[0] \in X[0]
    BY <1>1, <1>6, <1>11 DEF Is
  <2>2. ASSUME NEW k \in 1 .. m, run[k - 1] \in X[k - 1] PROVE run[k] \in X[k]
    <3>1. k \in 0 .. m /\ k # 0
      BY <1>1
    <3>2. run[k] = MakeAfter(q, v, VarLit[v][k], run[k - 1])
      BY <1>11, <3>1 DEF Is
    <3>3. QED  BY <1>8, <2>2, <3>2
  <2>3. QED  BY <1>1, <2>1, <2>2, RunStays
<1>13. m \in 0 .. m
  BY <1>1
<1>14. QED  BY <1>2, <1>4, <1>12, <1>13, <1>one DEF po, pn

LEMMA Score2Loop ==
  ASSUME ClausesExact, VarsExact, NEW q, NEW v, NEW old, PairsReady(q, v, old),
         NEW d \in Ints, NEW first, first = Shifted(SecondParts(old), d)
  PROVE  Rescored(Score2After, q, v, first) = Shifted(SecondParts(q.soln), d)
<1> DEFINE m == Len(VarLit[v])
           po == SecondParts(old)
           pn == SecondParts(q.soln)
           B(k) == Shifted(Blend(po, pn, Done(v, k)), d)
           X == [k \in 0 .. m |-> {B(k)}]
           turn == [k \in 1 .. m |-> [x \in X[k - 1] |-> Score2After(q, v, VarLit[v][k], x)]]
           Is(g) == g = [k \in 0 .. m |-> IF k = 0 THEN first ELSE Score2After(q, v, VarLit[v][k], g[k - 1])]
           run == CHOOSE g : Is(g)
<1>1. v \in Vars /\ m \in Nat
  BY DoneIs DEF PairsReady
<1>2. Rescored(Score2After, q, v, first) = run[m]
  BY DEF Rescored, Loop
<1>3. Local(v, po, pn)
  <2>1. q \in FieldsType /\ old \in Solutions /\ q.soln = Flipped(old, v)
    BY DEF PairsReady
  <2>2. q.weight \in [Clauses -> Int]
    BY <2>1 DEF FieldsType
  <2>3. QED  BY <1>1, <2>1, <2>2, PartsLocal
<1> HIDE DEF m, po, pn
<1>4. po \in Parts /\ pn \in Parts /\ B(0) = Shifted(po, d) /\ B(m) = Shifted(pn, d)
  BY <1>1, <1>3, BlendEnds DEF Local, m
<1>5. \A k \in 0 .. m : B(k) \in Ints
  BY <1>4, BlendType, ShiftedIs
<1> HIDE DEF B
<1>6. first \in X[0]
  BY <1>1, <1>4 DEF po
<1>one. \A k \in 0 .. m : \A x : x \in X[k] <=> x = B(k)
  OBVIOUS
<1> HIDE DEF X
<1>7. ASSUME NEW k \in 1 .. m, NEW x \in X[k - 1] PROVE Score2After(q, v, VarLit[v][k], x) \in X[k]
  <2> DEFINE o == VarLit[v][k]
             c == o.clause
  <2>1. k - 1 \in 0 .. m /\ k \in 0 .. m
    BY <1>1
  <2>2. /\ c \in Clauses /\ o.sense = SenseIn(c, v) /\ v \in ClauseVars[c]
    BY <1>1, DoneIs DEF m
  <2>3. x = B(k - 1)
    BY <1>one, <2>1
  <2>4. x \in Ints
    BY <1>5, <2>1, <2>3
  <2>5. o.clause = c
    OBVIOUS
  <2> HIDE DEF o, c
  <2>6. Adjusted(x, Score2After(q, v, o, x), po, pn, c)
    BY <2>2, <2>4, <2>5, Score2Turn DEF po, pn
  <2>7. Score2After(q, v, o, x) = B(k)
    BY <1>1, <1>4, <2>3, <2>6, ShiftedTurn DEF B, m, o, c
  <2>8. QED  BY <1>one, <2>1, <2>7 DEF o
<1>8. \A k \in 1 .. m : \A x \in X[k - 1] : turn[k][x] \in X[k] /\ turn[k][x] = Score2After(q, v, VarLit[v][k], x)
  BY <1>7
<1> HIDE DEF turn, Is
<1>9. PICK g : Turns(g, m, first, turn) /\ \A k \in 0 .. m : g[k] \in X[k]
  <2>1. \A k \in 1 .. m : \A x \in X[k - 1] : turn[k][x] \in X[k]
    BY <1>8
  <2>2. m \in Nat
    BY <1>1
  <2>3. QED  BY <1>6, <2>1, <2>2, Stepwise
<1>10. Is(g)
  <2>1. \A k \in 1 .. m : k - 1 \in 0 .. m /\ k \in 0 .. m /\ k # 0
    BY <1>1
  <2>2. \A k \in 1 .. m : g[k] = Score2After(q, v, VarLit[v][k], g[k - 1])
    BY <1>8, <1>9, <2>1 DEF Turns
  <2>3. DOMAIN g = 0 .. m /\ g = [k \in DOMAIN g |-> g[k]]
    BY <1>9 DEF Turns
  <2>4. g[0] = first /\ \A k \in 0 .. m : k # 0 => k \in 1 .. m
    BY <1>1, <1>9 DEF Turns
  <2>5. QED  BY <2>2, <2>3, <2>4 DEF Is
<1>11. Is(run)
  BY <1>10
<1> HIDE DEF run
<1>12. run[m] \in X[m]
  <2>1. run[0] \in X[0]
    BY <1>1, <1>6, <1>11 DEF Is
  <2>2. ASSUME NEW k \in 1 .. m, run[k - 1] \in X[k - 1] PROVE run[k] \in X[k]
    <3>1. k \in 0 .. m /\ k # 0
      BY <1>1
    <3>2. run[k] = Score2After(q, v, VarLit[v][k], run[k - 1])
      BY <1>11, <3>1 DEF Is
    <3>3. QED  BY <1>8, <2>2, <3>2
  <2>3. QED  BY <1>1, <2>1, <2>2, RunStays
<1>13. m \in 0 .. m
  BY <1>1
<1>14. QED  BY <1>2, <1>4, <1>12, <1>13, <1>one DEF po, pn

-----------------------------------------------------------------------------
(* Between flip and update the scores are those of the solution before.    *)
Pending(q, old, p) ==
  /\ q.score = Total(ScoreParts(old, q.weight))
  /\ p.second => q.score2 = Total(SecondParts(old)) /\ PairBefore(old, q.soln, q.satVar, q.satVar2)
  /\ p.prob /\ p.weighting = "none" =>
       /\ q.breakScore = Total(BreakParts(old, q.weight))
       /\ q.makeScore = Total(MakeParts(old, q.weight))

LEMMA FlippedIs ==
  ASSUME ClausesExact, VarsExact, NEW q \in FieldsType, CountsExact(q), NEW v \in Vars,
         NEW p, ScoresAre(q, p), NEW x, x = Flip(q, v)
  PROVE  JustFlipped(x, v, q.soln) /\ Pending(x, q.soln, p)
<1> DEFINE old == q.soln
           new == x.soln
           f == q.satVar
           g == x.satVar
<1>1. /\ x \in FieldsType /\ CountsExact(x) /\ new = Flipped(old, v)
      /\ SameButCounts(x, q) /\ NotesKept(v, old, new, f, g)
  BY FlipIs
<1>2. old \in Solutions
  BY CountsOfFields
<1>3. ASSUME NEW c \in Clauses
      PROVE  /\ v \notin ClauseVars[c] => Held(new, c) = Held(old, c)
             /\ v \in ClauseVars[c] /\ v \notin Held(new, c)
                  => Cardinality(Held(new, c)) = Cardinality(Held(old, c)) - 1
  <2>1. /\ v \notin ClauseVars[c] => Held(Flipped(old, v), c) = Held(old, c)
        /\ v \in ClauseVars[c] /\ Flipped(old, v)[v] # SenseIn(c, v)
             => Cardinality(Held(Flipped(old, v), c)) = Cardinality(Held(old, c)) - 1
    BY <1>2, HeldFlipped
  <2>2. v \in ClauseVars[c] /\ v \notin Held(new, c) => new[v] # SenseIn(c, v)
    BY DEF Held
  <2>3. QED  BY <1>1, <2>1, <2>2
<1>4. \A c \in Clauses : Held(old, c) = {} => Cardinality(Held(old, c)) = 0
  BY FS_EmptySet
<1> HIDE DEF old, new, f, g
<1>5. NotedBefore(old, new, f) /\ NotedBefore(old, new, g)
  <2>1. NotedBefore(old, new, f)
    BY DEF NotedBefore, CountsExact, NotedOne, old, f
  <2>2. ASSUME NEW c \in Clauses, Cardinality(Held(old, c)) = 1, Cardinality(Held(new, c)) = 2
        PROVE  Held(old, c) = {g[c]}
    <3>1. g[c] = f[c]
      BY <1>1, <1>3, <1>4, <2>2 DEF NotesKept
    <3>2. QED  BY <2>1, <2>2, <3>1 DEF NotedBefore
  <2>3. QED  BY <2>1, <2>2 DEF NotedBefore
<1>6. JustFlipped(x, v, old)
  BY <1>1, <1>2, <1>5 DEF JustFlipped, new, g
<1>7. /\ q.score = InitScore(q) /\ x.score = q.score /\ x.weight = q.weight
      /\ q.satCount = Counting(q.soln)
  BY <1>1 DEF ScoresAre, SameButCounts, CountsExact
<1>8. x.score = Total(ScoreParts(old, x.weight))
  BY <1>7, InitIsTotal DEF old
<1>9. ASSUME p.second
      PROVE  x.score2 = Total(SecondParts(old)) /\ PairBefore(old, new, g, x.satVar2)
  <2>1. x.score2 = Total(SecondParts(old))
    BY <1>1, <1>7, <1>9, InitIsTotal DEF ScoresAre, SameButCounts, old
  <2>2. x.satVar2 = q.satVar2
    BY <1>1 DEF SameButCounts
  <2>3. ASSUME NEW c \in Clauses, Cardinality(Held(old, c)) = 2, Cardinality(Held(new, c)) # 1
        PROVE  Held(old, c) = {g[c], q.satVar2[c]}
    <3>1. g[c] = f[c]
      BY <1>1, <1>3, <1>4, <2>3 DEF NotesKept
    <3>2. QED  BY <1>9, <2>3, <3>1 DEF ScoresAre, PairHeld, PairIn, old, f
  <2>4. QED  BY <2>1, <2>2, <2>3 DEF PairBefore
<1>10. ASSUME p.prob, p.weighting = "none"
       PROVE  x.breakScore = Total(BreakParts(old, x.weight)) /\ x.makeScore = Total(MakeParts(old, x.weight))
  BY <1>1, <1>7, <1>10, InitIsTotal DEF ScoresAre, SameButCounts, old
<1>11. QED  BY <1>6, <1>8, <1>9, <1>10 DEF Pending, old, new, g

(* update_sat_var2 leaves the notes right.                                 *)
LEMMA PairsKept ==
  ASSUME ClausesExact, VarsExact, NEW q, NEW v, NEW old, JustFlipped(q, v, old),
         PairBefore(old, q.soln, q.satVar, q.satVar2), NEW a, NEW b, PairsAfter(q, v) = <<a, b>>
  PROVE  /\ a \in [Clauses -> 0 .. NumVars] /\ b \in [Clauses -> 0 .. NumVars]
         /\ NotedOne(q.soln, a) /\ PairIn(q.soln, a, b) /\ PairBefore(old, q.soln, a, b)
<1> DEFINE new == q.soln
           f == q.satVar
           D == { c \in Clauses : v \in ClauseVars[c] }
<1>1. PairsAt(q, v, D, <<a, b>>)
  BY PairLoop
<1>2. q.satCount = Counting(new) /\ NotedOne(new, f) /\ v \in Vars /\ old \in Solutions /\ new = Flipped(old, v)
  BY DEF JustFlipped, CountsExact
<1>3. \A c \in Clauses : q.satCount[c] = Cardinality(Held(new, c))
  BY <1>2 DEF Counting
<1>4. /\ a \in [Clauses -> 0 .. NumVars] /\ b \in [Clauses -> 0 .. NumVars]
      /\ \A c \in Clauses : c \notin D \/ Cardinality(Held(new, c)) # 2 => a[c] = f[c] /\ b[c] = q.satVar2[c]
      /\ \A c \in Clauses : c \in D /\ Cardinality(Held(new, c)) = 2 => Held(new, c) = {a[c], b[c]}
  <2>1. <<a, b>>[1] = a /\ <<a, b>>[2] = b
    OBVIOUS
  <2>2. QED  BY <1>1, <1>3, <2>1 DEF PairsAt
<1>5. ASSUME NEW c \in Clauses
      PROVE  /\ c \notin D => Held(new, c) = Held(old, c)
             /\ c \in D => \/ Cardinality(Held(new, c)) = Cardinality(Held(old, c)) + 1
                           \/ Cardinality(Held(new, c)) = Cardinality(Held(old, c)) - 1
  <2>1. /\ v \notin ClauseVars[c] => Held(Flipped(old, v), c) = Held(old, c)
        /\ v \in ClauseVars[c] =>
             \/ Cardinality(Held(Flipped(old, v), c)) = Cardinality(Held(old, c)) + 1
             \/ Cardinality(Held(Flipped(old, v), c)) = Cardinality(Held(old, c)) - 1
    BY <1>2, HeldFlipped
  <2>2. QED  BY <1>2, <2>1
<1> HIDE DEF new, f
<1>6. NotedOne(new, a)
  BY <1>2, <1>4 DEF NotedOne
<1>7. PairBefore(old, new, a, b)
  <2>1. ASSUME NEW c \in Clauses, Cardinality(Held(old, c)) = 2, Cardinality(Held(new, c)) # 1
        PROVE  Held(old, c) = {a[c], b[c]}
    <3>1. Held(old, c) = {f[c], q.satVar2[c]}
      BY <2>1 DEF PairBefore, new, f
    <3>2. c \notin D \/ Cardinality(Held(new, c)) # 2
      BY <1>5, <2>1
    <3>3. QED  BY <1>4, <3>1, <3>2
  <2>2. QED  BY <2>1 DEF PairBefore
<1>8. PairIn(new, a, b)
  <2>1. ASSUME NEW c \in Clauses, Cardinality(Held(new, c)) = 2 PROVE Held(new, c) = {a[c], b[c]}
    <3>1. CASE c \in D
      BY <1>4, <2>1, <3>1
    <3>2. CASE c \notin D
      BY <1>5, <1>7, <2>1, <3>2 DEF PairBefore
    <3>3. QED  BY <3>1, <3>2
  <2>2. QED  BY <2>1 DEF PairIn
<1>9. QED  BY <1>4, <1>6, <1>7, <1>8 DEF new

(* The scores after the loops: right if they were, and numbers in any case. *)
ShiftOf(f, P) == [u \in Vars |-> f[u] - Total(P)[u]]

LEMMA ShiftOfIs ==
  ASSUME ClausesExact, NEW f \in Ints, NEW P \in Parts, NEW Q \in Parts
  PROVE  /\ ShiftOf(f, P) \in Ints /\ f = Shifted(P, ShiftOf(f, P))
         /\ f = Total(P) => Shifted(Q, ShiftOf(f, P)) = Total(Q)
<1> DEFINE d == ShiftOf(f, P)
<1>1. Total(P) \in Ints /\ Total(Q) \in Ints
  BY TotalType
<1>2. d \in Ints /\ \A u \in Vars : d[u] = f[u] - Total(P)[u]
  BY <1>1 DEF ShiftOf, Ints
<1> HIDE DEF d
<1>3. \A u \in Vars : Total(P)[u] + d[u] = f[u]
  <2>1. ASSUME NEW u \in Vars PROVE Total(P)[u] + d[u] = f[u]
    <3> DEFINE i == Total(P)[u]
               j == f[u]
    <3>1. i \in Int /\ j \in Int
      BY <1>1 DEF Ints
    <3>2. d[u] = j - i
      BY <1>2
    <3> HIDE DEF i, j
    <3>3. i + d[u] = j
      BY <3>1, <3>2
    <3>4. QED  BY <3>3 DEF i, j
  <2>2. QED  BY <2>1
<1>4. f = [u \in Vars |-> f[u]] /\ Total(Q) = [u \in Vars |-> Total(Q)[u]]
  BY <1>1 DEF Ints
<1>5. f = Shifted(P, d)
  BY <1>3, <1>4 DEF Shifted
<1>6. ASSUME f = Total(P) PROVE Shifted(Q, d) = Total(Q)
  <2>1. ASSUME NEW u \in Vars PROVE Total(Q)[u] + d[u] = Total(Q)[u]
    <3> DEFINE i == Total(P)[u]
               j == Total(Q)[u]
    <3>1. i \in Int /\ j \in Int
      BY <1>1 DEF Ints
    <3>2. d[u] = i - i
      BY <1>2, <1>6
    <3> HIDE DEF i, j
    <3>3. j + d[u] = j
      BY <3>1, <3>2
    <3>4. QED  BY <3>3 DEF j
  <2>2. QED  BY <1>4, <2>1 DEF Shifted
<1>7. QED  BY <1>2, <1>5, <1>6 DEF d

LEMMA RescoredIs ==
  ASSUME ClausesExact, VarsExact, NEW q, NEW v, NEW old, JustFlipped(q, v, old), NEW f \in Ints
  PROVE  /\ Rescored(ScoreAfter, q, v, f) \in Ints
         /\ Rescored(BreakAfter, q, v, f) \in Ints
         /\ Rescored(MakeAfter, q, v, f) \in Ints
         /\ f = Total(ScoreParts(old, q.weight)) =>
              Rescored(ScoreAfter, q, v, f) = Total(ScoreParts(q.soln, q.weight))
         /\ f = Total(BreakParts(old, q.weight)) =>
              Rescored(BreakAfter, q, v, f) = Total(BreakParts(q.soln, q.weight))
         /\ f = Total(MakeParts(old, q.weight)) =>
              Rescored(MakeAfter, q, v, f) = Total(MakeParts(q.soln, q.weight))
<1> DEFINE w == q.weight
<1>1. w \in [Clauses -> Int] /\ old \in Solutions /\ q.soln = Flipped(old, v) /\ v \in Vars
  BY CountsOfFields DEF JustFlipped
<1>2. /\ ScoreParts(old, w) \in Parts /\ ScoreParts(q.soln, w) \in Parts
      /\ BreakParts(old, w) \in Parts /\ BreakParts(q.soln, w) \in Parts
      /\ MakeParts(old, w) \in Parts /\ MakeParts(q.soln, w) \in Parts
  BY <1>1, PartsType
<1>3. ASSUME NEW po \in Parts, NEW pn \in Parts
      PROVE  /\ ShiftOf(f, po) \in Ints /\ f = Shifted(po, ShiftOf(f, po))
             /\ Shifted(pn, ShiftOf(f, po)) \in Ints
             /\ f = Total(po) => Shifted(pn, ShiftOf(f, po)) = Total(pn)
  BY ShiftOfIs, ShiftedIs
<1>4. Rescored(ScoreAfter, q, v, f) = Shifted(ScoreParts(q.soln, w), ShiftOf(f, ScoreParts(old, w)))
  BY <1>2, <1>3, ScoreLoop
<1>5. Rescored(BreakAfter, q, v, f) = Shifted(BreakParts(q.soln, w), ShiftOf(f, BreakParts(old, w)))
  BY <1>2, <1>3, BreakLoop
<1>6. Rescored(MakeAfter, q, v, f) = Shifted(MakeParts(q.soln, w), ShiftOf(f, MakeParts(old, w)))
  BY <1>2, <1>3, MakeLoop
<1>7. QED  BY <1>2, <1>3, <1>4, <1>5, <1>6

LEMMA Rescored2Is ==
  ASSUME ClausesExact, VarsExact, NEW q, NEW v, NEW old, PairsReady(q, v, old), NEW f \in Ints
  PROVE  /\ Rescored(Score2After, q, v, f) \in Ints
         /\ f = Total(SecondParts(old)) => Rescored(Score2After, q, v, f) = Total(SecondParts(q.soln))
<1> DEFINE po == SecondParts(old)
           pn == SecondParts(q.soln)
<1>1. q.weight \in [Clauses -> Int]
  BY CountsOfFields DEF PairsReady
<1>2. po \in Parts /\ pn \in Parts
  BY <1>1, PartsType
<1>3. /\ ShiftOf(f, po) \in Ints /\ f = Shifted(po, ShiftOf(f, po))
      /\ Shifted(pn, ShiftOf(f, po)) \in Ints
      /\ f = Total(po) => Shifted(pn, ShiftOf(f, po)) = Total(pn)
  BY <1>2, ShiftOfIs, ShiftedIs
<1>4. Rescored(Score2After, q, v, f) = Shifted(pn, ShiftOf(f, po))
  BY <1>3, Score2Loop
<1>5. QED  BY <1>3, <1>4

(* update, part by part.                                                   *)
WithStamp(q, v, k) == [q EXCEPT !.stamp[v] = k]

LEMMA WithStampIs ==
  ASSUME NEW q \in FieldsType, NEW v \in Vars, NEW k \in Int
  PROVE  /\ WithStamp(q, v, k) \in FieldsType
         /\ SameState(WithStamp(q, v, k), q)
         /\ Counts(WithStamp(q, v, k)) = Counts(q) /\ Goods(WithStamp(q, v, k)) = Goods(q)
         /\ WithStamp(q, v, k).satVar2 = q.satVar2 /\ WithStamp(q, v, k).score2 = q.score2
<1> DEFINE x == WithStamp(q, v, k)
           f == [q.stamp EXCEPT ![v] = k]
<1>1. x = [q EXCEPT !.stamp = f]
  BY DEF WithStamp
<1>2. f \in Ints
  BY DEF FieldsType, Ints
<1> HIDE DEF x, f
<1>3. x \in FieldsType
  BY <1>1, <1>2 DEF FieldsType
<1>4. /\ x.soln = q.soln /\ x.weight = q.weight /\ x.nvcc = q.nvcc /\ x.large = q.large
      /\ x.satCount = q.satCount /\ x.avg = q.avg /\ x.delta = q.delta
      /\ x.satVar = q.satVar /\ x.satVar2 = q.satVar2 /\ x.score2 = q.score2
      /\ x.unsat = q.unsat /\ x.unsatVar = q.unsatVar /\ x.app = q.app
      /\ x.totalUnsat = q.totalUnsat /\ x.good = q.good /\ x.inGood = q.inGood
  BY <1>1 DEF FieldsType
<1>5. Counts(x) = Counts(q) /\ Goods(x) = Goods(q) /\ SameState(x, q)
  BY <1>4 DEF Counts, Goods, SameState
<1>6. QED  BY <1>3, <1>4, <1>5 DEF x

LEMMA UpdateScoresIs ==
  ASSUME ClausesExact, VarsExact, NEW q, NEW v, NEW old, JustFlipped(q, v, old),
         NEW p, Pending(q, old, p), NEW k \in Int, NEW x, x = UpdateScores(q, v, k, p)
  PROVE  /\ x \in FieldsType /\ SameState(x, q) /\ Counts(x) = Counts(q) /\ Goods(x) = Goods(q)
         /\ JustFlipped(x, v, old)
         /\ x.satVar2 = q.satVar2 /\ x.score2 = q.score2
         /\ x.score = InitScore(x)
         /\ p.prob /\ p.weighting = "none" => x.breakScore = InitBreak(x) /\ x.makeScore = InitMake(x)
<1> DEFINE a == Rescored(ScoreAfter, q, v, q.score)
           b == IF p.prob THEN Rescored(BreakAfter, q, v, q.breakScore) ELSE q.breakScore
           c == IF p.prob THEN Rescored(MakeAfter, q, v, q.makeScore) ELSE q.makeScore
           y == WithStamp(q, v, k)
<1>1. q \in FieldsType /\ CountsExact(q) /\ v \in Vars
  BY DEF JustFlipped
<1>2. q.score \in Ints /\ q.breakScore \in Ints /\ q.makeScore \in Ints
  BY <1>1 DEF FieldsType
<1>3. /\ a \in Ints /\ b \in Ints /\ c \in Ints
      /\ a = Total(ScoreParts(q.soln, q.weight))
      /\ p.prob /\ p.weighting = "none" =>
           b = Total(BreakParts(q.soln, q.weight)) /\ c = Total(MakeParts(q.soln, q.weight))
  BY <1>2, RescoredIs DEF Pending
<1>4. x = WithScores(y, a, b, c)
  BY DEF UpdateScores, WithScores, WithStamp
<1> HIDE DEF a, b, c, y
<1>5. /\ y \in FieldsType /\ SameState(y, q) /\ Counts(y) = Counts(q) /\ Goods(y) = Goods(q)
      /\ y.satVar2 = q.satVar2 /\ y.score2 = q.score2
  BY <1>1, WithStampIs DEF y
<1>6. /\ x \in FieldsType /\ SameState(x, y) /\ Counts(x) = Counts(y) /\ Goods(x) = Goods(y)
      /\ x.satVar2 = y.satVar2 /\ x.score2 = y.score2
      /\ x.score = a /\ x.breakScore = b /\ x.makeScore = c
  <2>1. y \in FieldsType /\ a \in Ints /\ b \in Ints /\ c \in Ints
    BY <1>3, <1>5
  <2>2. /\ WithScores(y, a, b, c) \in FieldsType /\ SameState(WithScores(y, a, b, c), y)
        /\ Counts(WithScores(y, a, b, c)) = Counts(y) /\ Goods(WithScores(y, a, b, c)) = Goods(y)
        /\ WithScores(y, a, b, c).satVar2 = y.satVar2 /\ WithScores(y, a, b, c).score2 = y.score2
        /\ WithScores(y, a, b, c).score = a /\ WithScores(y, a, b, c).breakScore = b
        /\ WithScores(y, a, b, c).makeScore = c
    BY <2>1, WithScoresIs
  <2>3. QED  BY <1>4, <2>2
<1>7. SameState(x, q) /\ Counts(x) = Counts(q)
  BY <1>5, <1>6 DEF SameState
<1>8. CountsExact(x)
  BY <1>1, <1>6, <1>7, CountsSame
<1>9. x.soln = q.soln /\ x.weight = q.weight /\ x.satVar = q.satVar /\ x.satCount = Counting(x.soln)
  BY <1>1, <1>6, <1>7, <1>8, CountsOfFields DEF SameState, CountsExact
<1>10. JustFlipped(x, v, old)
  BY <1>6, <1>8, <1>9 DEF JustFlipped
<1>11. x.score = InitScore(x)
  BY <1>3, <1>6, <1>9, InitIsTotal
<1>12. p.prob /\ p.weighting = "none" => x.breakScore = InitBreak(x) /\ x.makeScore = InitMake(x)
  BY <1>3, <1>6, <1>9, InitIsTotal
<1>13. QED  BY <1>5, <1>6, <1>7, <1>10, <1>11, <1>12

LEMMA UpdateSecondIs ==
  ASSUME ClausesExact, VarsExact, NEW q, NEW v, NEW old, JustFlipped(q, v, old), NEW p,
         p.second => q.score2 = Total(SecondParts(old)) /\ PairBefore(old, q.soln, q.satVar, q.satVar2),
         NEW x, x = UpdateSecond(q, v, p)
  PROVE  /\ x \in FieldsType /\ SameState(x, q) /\ CountsExact(x) /\ Goods(x) = Goods(q)
         /\ x.score = q.score /\ x.breakScore = q.breakScore /\ x.makeScore = q.makeScore
         /\ p.second => x.score2 = InitScore2(x) /\ PairHeld(x)
<1>1. /\ q \in FieldsType /\ CountsExact(q) /\ v \in Vars /\ old \in Solutions
      /\ q.soln = Flipped(old, v)
  BY DEF JustFlipped
<1>2. CASE ~p.second
  BY <1>1, <1>2 DEF UpdateSecond, SameState
<1>3. CASE p.second
  <2> DEFINE pair == PairsAfter(q, v)
             a == pair[1]
             b == pair[2]
             y == WithPair(q, a, b)
             d == Rescored(Score2After, y, v, y.score2)
  <2>1. pair = <<a, b>>
    BY PairLoop DEF PairsAt
  <2>2. x = WithScore2(y, d)
    BY <1>3 DEF UpdateSecond, UpdatePairs, WithPair, WithScore2, PairsAfter
  <2> HIDE DEF pair, a, b, y, d
  <2>3. /\ a \in [Clauses -> 0 .. NumVars] /\ b \in [Clauses -> 0 .. NumVars]
        /\ NotedOne(q.soln, a) /\ PairIn(q.soln, a, b) /\ PairBefore(old, q.soln, a, b)
    BY <1>3, <2>1, PairsKept DEF pair
  <2>4. /\ y \in FieldsType /\ SameState(y, q) /\ Goods(y) = Goods(q)
        /\ \A U, w : Stacks(Counts(q), U, w) => Stacks(Counts(y), U, w)
        /\ y.satVar = a /\ y.satVar2 = b /\ y.score = q.score /\ y.score2 = q.score2
        /\ y.breakScore = q.breakScore /\ y.makeScore = q.makeScore
    BY <1>1, <2>3, WithPairIs DEF y
  <2>5. /\ y.soln = q.soln /\ y.weight = q.weight /\ y.satCount = q.satCount
        /\ q.satCount = Counting(q.soln)
        /\ Stacks(Counts(q), UnsatOf(q.soln), q.weight)
    BY <1>1, <2>4 DEF SameState, CountsExact
  <2>6. CountsExact(y)
    BY <2>3, <2>4, <2>5 DEF CountsExact
  <2>7. PairHeld(y) /\ PairsReady(y, v, old)
    BY <1>1, <2>3, <2>4, <2>5 DEF PairHeld, PairsReady
  <2>8. y.score2 \in Ints /\ y.score2 = Total(SecondParts(old))
    BY <1>3, <2>4 DEF FieldsType
  <2>9. d \in Ints /\ d = Total(SecondParts(y.soln))
    BY <2>7, <2>8, Rescored2Is DEF d
  <2>10. /\ x \in FieldsType /\ SameState(x, y) /\ Counts(x) = Counts(y) /\ Goods(x) = Goods(y)
         /\ x.satVar = y.satVar /\ x.satVar2 = y.satVar2 /\ x.score = y.score /\ x.score2 = d
         /\ x.breakScore = y.breakScore /\ x.makeScore = y.makeScore
    BY <2>2, <2>4, <2>9, WithScore2Is
  <2>11. CountsExact(x)
    BY <2>4, <2>6, <2>10, CountsSame
  <2>12. x.soln = y.soln /\ x.satCount = Counting(x.soln)
    BY <2>10, <2>11 DEF SameState, CountsExact
  <2>13. x.score2 = InitScore2(x)
    BY <2>9, <2>10, <2>12, InitIsTotal
  <2>14. PairHeld(x)
    BY <2>7, <2>10, <2>12 DEF PairHeld
  <2>15. SameState(x, q)
    BY <2>4, <2>10 DEF SameState
  <2>16. QED  BY <2>4, <2>10, <2>11, <2>13, <2>14, <2>15
<1>4. QED  BY <1>2, <1>3

(* An element is replaced by the last one, and the list is one shorter.    *)
SwappedOut(list, i) == Front([list EXCEPT ![i] = Last(list)])

LEMMA SwappedOutIs ==
  ASSUME NEW S, NEW list \in Seq(S), IsInjective(list), NEW i \in 1 .. Len(list)
  PROVE  /\ SwappedOut(list, i) \in Seq(S) /\ Len(SwappedOut(list, i)) = Len(list) - 1
         /\ IsInjective(SwappedOut(list, i))
         /\ Range(SwappedOut(list, i)) = Range(list) \ {list[i]}
         /\ \A j \in 1 .. Len(SwappedOut(list, i)) :
              SwappedOut(list, i)[j] = IF j = i THEN list[Len(list)] ELSE list[j]
<1> DEFINE n == Len(list)
           u == [list EXCEPT ![i] = list[n]]
           t == SwappedOut(list, i)
<1>1. n \in Nat /\ n # 0 /\ DOMAIN list = 1 .. n /\ \A j \in 1 .. n : list[j] \in S
  OBVIOUS
<1>2. \A j, k \in 1 .. n : list[j] = list[k] => j = k
  BY <1>1 DEF IsInjective
<1>3. u \in Seq(S) /\ Len(u) = n /\ \A j \in 1 .. n : u[j] = IF j = i THEN list[n] ELSE list[j]
  BY <1>1
<1>4. t = SubSeq(u, 1, n - 1)
  BY <1>3 DEF SwappedOut, Front, Last
<1> HIDE DEF t, u
<1>5. /\ t \in Seq(S) /\ Len(t) = n - 1
      /\ \A j \in 1 .. n - 1 : t[j] = u[j]
  BY <1>1, <1>3, <1>4
<1> HIDE DEF n
<1>6. DOMAIN t = 1 .. n - 1 /\ \A j \in 1 .. n - 1 : t[j] = IF j = i THEN list[n] ELSE list[j]
  <2>1. DOMAIN t = 1 .. n - 1
    BY <1>5
  <2>2. \A j \in 1 .. n - 1 : j \in 1 .. n
    BY <1>1
  <2>3. QED  BY <1>3, <1>5, <2>1, <2>2
<1>7. IsInjective(t)
  <2>1. ASSUME NEW j \in 1 .. n - 1, NEW k \in 1 .. n - 1, t[j] = t[k] PROVE j = k
    <3>1. j \in 1 .. n /\ k \in 1 .. n /\ n \in 1 .. n /\ j # n /\ k # n
      BY <1>1
    <3>2. QED  BY <1>2, <1>6, <2>1, <3>1
  <2>2. QED  BY <1>6, <2>1 DEF IsInjective
<1>8. Range(t) = Range(list) \ {list[i]}
  <2>1. Range(t) = { t[j] : j \in 1 .. n - 1 } /\ Range(list) = { list[j] : j \in 1 .. n }
    BY <1>1, <1>6 DEF Range
  <2>2. ASSUME NEW j \in 1 .. n - 1 PROVE t[j] \in { list[k] : k \in 1 .. n } /\ t[j] # list[i]
    <3>1. j \in 1 .. n /\ n \in 1 .. n /\ j # n
      BY <1>1
    <3>2. CASE j = i
      <4>1. t[j] = list[n] /\ n # i /\ i \in 1 .. n
        BY <1>6, <3>1, <3>2
      <4>2. QED  BY <1>2, <3>1, <4>1
    <3>3. CASE j # i
      <4>1. t[j] = list[j] /\ i \in 1 .. n
        BY <1>6, <3>1, <3>3 DEF n
      <4>2. QED  BY <1>2, <3>1, <3>3, <4>1
    <3>4. QED  BY <3>2, <3>3
  <2>3. ASSUME NEW j \in 1 .. n, list[j] # list[i] PROVE list[j] \in { t[k] : k \in 1 .. n - 1 }
    <3>1. CASE j = n
      <4>1. i \in 1 .. n - 1 /\ t[i] = list[n]
        BY <1>1, <1>6, <2>3, <3>1 DEF n
      <4>2. QED  BY <3>1, <4>1
    <3>2. CASE j # n
      <4>1. j \in 1 .. n - 1 /\ t[j] = list[j]
        BY <1>1, <1>6, <2>3, <3>2
      <4>2. QED  BY <4>1
    <3>3. QED  BY <3>1, <3>2
  <2>4. QED  BY <2>1, <2>2, <2>3
<1>9. QED  BY <1>5, <1>6, <1>7, <1>8 DEF t, n

(* update_nvccdvar_related_in_update_function, at place i and after it.    *)
GoodFrom(q, g, i) == \A j \in i .. Len(g.good) : g.good[j] \in GoodVars(q)

PurgedAt(q, g, i, y) ==
  /\ GoodsOk(y) /\ Len(y.good) >= i - 1
  /\ \A j \in 1 .. i - 1 : y.good[j] = g.good[j]
  /\ GoodFrom(q, y, i)
  /\ Range(y.good) \subseteq Range(g.good)
  /\ \A u \in Range(g.good) : u \in GoodVars(q) => u \in Range(y.good)

LEMMA PurgeTurn ==
  ASSUME NEW q \in FieldsType, NEW g, GoodsOk(g), NEW i \in 1 .. Len(g.good), GoodFrom(q, g, i + 1)
  PROVE  PurgedAt(q, g, i, Purge(q, g, i))
<1> DEFINE y == Purge(q, g, i)
           list == g.good
           n == Len(list)
           v == list[i]
           t == SwappedOut(list, i)
           flags == [g.inGood EXCEPT ![v] = FALSE]
<1>1. /\ g \in GoodsType /\ list \in Seq(Vars) /\ g.inGood \in [Vars -> BOOLEAN] /\ IsInjective(list)
      /\ \A u \in Vars : g.inGood[u] <=> u \in Range(list)
  BY DEF GoodsOk, GoodsType
<1>2. n \in Nat /\ i \in 1 .. n /\ v \in Vars /\ (\A j \in 1 .. n : list[j] \in Vars) /\ Range(list) \subseteq Vars
  BY <1>1 DEF Range
<1>3. q.score[v] \in Int /\ q.nvcc[v] \in {0, 1}
  BY <1>2 DEF FieldsType, Ints
<1>4. (q.score[v] <= 0 \/ q.nvcc[v] = 0) <=> v \notin GoodVars(q)
  BY <1>2, <1>3 DEF GoodVars
<1>5. CASE v \in GoodVars(q)
  <2>1. y = g
    BY <1>4, <1>5 DEF Purge
  <2> HIDE DEF y
  <2>2. n >= i - 1 /\ \A j \in i .. n : j = i \/ j \in i + 1 .. n
    BY <1>2
  <2>3. GoodFrom(q, y, i)
    BY <1>5, <2>1, <2>2 DEF GoodFrom
  <2>4. QED  BY <2>1, <2>2, <2>3 DEF PurgedAt, y
<1>6. CASE v \notin GoodVars(q)
  <2>1. y = [g EXCEPT !.good = t, !.inGood = flags]
    BY <1>4, <1>6 DEF Purge, SwappedOut
  <2>2. /\ t \in Seq(Vars) /\ Len(t) = n - 1 /\ IsInjective(t) /\ Range(t) = Range(list) \ {v}
        /\ \A j \in 1 .. Len(t) : t[j] = IF j = i THEN list[n] ELSE list[j]
    <3> DEFINE goods == g.good
    <3>1. goods \in Seq(Vars) /\ IsInjective(goods) /\ i \in 1 .. Len(goods)
      BY <1>1
    <3> HIDE DEF goods
    <3>2. /\ SwappedOut(goods, i) \in Seq(Vars) /\ Len(SwappedOut(goods, i)) = Len(goods) - 1
          /\ IsInjective(SwappedOut(goods, i)) /\ Range(SwappedOut(goods, i)) = Range(goods) \ {goods[i]}
          /\ \A j \in 1 .. Len(SwappedOut(goods, i)) :
               SwappedOut(goods, i)[j] = IF j = i THEN goods[Len(goods)] ELSE goods[j]
      BY <3>1, SwappedOutIs
    <3>3. QED  BY <3>2 DEF goods
  <2>3. /\ flags \in [Vars -> BOOLEAN]
        /\ \A u \in Vars : flags[u] <=> (u # v /\ g.inGood[u])
    <3> DEFINE h == g.inGood
    <3>1. h \in [Vars -> BOOLEAN]
      BY <1>1
    <3> HIDE DEF h, v
    <3>2. flags = [h EXCEPT ![v] = FALSE]
      BY DEF h
    <3> HIDE DEF flags
    <3>3. flags \in [Vars -> BOOLEAN] /\ (\A u \in Vars : u # v => flags[u] = h[u])
          /\ (v \in Vars => flags[v] = FALSE)
      BY <3>1, <3>2
    <3>4. QED  BY <3>3, Zenon DEF h
  <2> HIDE DEF t, flags, y
  <2>4. y \in GoodsType /\ y.good = t /\ y.inGood = flags
    BY <1>1, <2>1, <2>2, <2>3 DEF GoodsType
  <2>5. \A u \in Vars : y.inGood[u] <=> u \in Range(y.good)
    <3> DEFINE R == Range(list)
    <3>1. (\A u \in Vars : g.inGood[u] <=> u \in R) /\ Range(y.good) = R \ {v} /\ y.inGood = flags
      BY <1>1, <2>2, <2>4
    <3> HIDE DEF v, R
    <3>2. \A u \in Vars : flags[u] <=> u \in R \ {v}
      BY <2>3, <3>1, Zenon
    <3>3. QED  BY <3>1, <3>2, Zenon
  <2>6. GoodsOk(y)
    BY <2>2, <2>4, <2>5 DEF GoodsOk
  <2>7. ASSUME NEW j \in i .. n - 1 PROVE t[j] \in GoodVars(q)
    <3>1. j \in 1 .. Len(t) /\ n \in i + 1 .. n /\ (j # i => j \in i + 1 .. n)
      BY <1>2, <2>2
    <3>2. QED  BY <2>2, <3>1 DEF GoodFrom
  <2>8. /\ Len(y.good) >= i - 1
        /\ \A j \in 1 .. i - 1 : y.good[j] = list[j]
    BY <1>2, <2>2, <2>4
  <2> HIDE DEF list, v
  <2>9. Range(y.good) \subseteq Range(list) /\ \A u \in Range(list) : u \in GoodVars(q) => u \in Range(y.good)
    BY <1>6, <2>2, <2>4
  <2> HIDE DEF n
  <2>10. \A j \in i .. Len(y.good) : y.good[j] \in GoodVars(q)
    BY <2>2, <2>4, <2>7
  <2>11. QED  BY <2>6, <2>8, <2>9, <2>10 DEF PurgedAt, GoodFrom, list, y
<1>7. QED  BY <1>5, <1>6

Purged(q, g0, seq) == Loop(LAMBDA g, i : Purge(q, g, i), g0, seq)
Downward(n) == [k \in 1 .. n |-> n + 1 - k]

LEMMA PurgedIs ==
  ASSUME NEW q \in FieldsType, NEW g0, GoodsOk(g0)
  PROVE  /\ GoodsOk(Purged(q, g0, Downward(Len(g0.good))))
         /\ Range(Purged(q, g0, Downward(Len(g0.good))).good) = Range(g0.good) \cap GoodVars(q)
<1> DEFINE m == Len(g0.good)
           seq == Downward(m)
           first == g0
           Part(k, x) ==
             /\ GoodsOk(x) /\ Len(x.good) >= m - k
             /\ \A j \in 1 .. m - k : x.good[j] = g0.good[j]
             /\ \A j \in m - k + 1 .. Len(x.good) : x.good[j] \in GoodVars(q)
             /\ Range(x.good) \subseteq Range(g0.good)
             /\ \A u \in Range(g0.good) : u \in GoodVars(q) => u \in Range(x.good)
           X == [k \in 0 .. m |-> { x \in GoodsType : Part(k, x) }]
           turn == [k \in 1 .. m |-> [x \in X[k - 1] |-> Purge(q, x, seq[k])]]
           Is(g) == g = [k \in 0 .. m |-> IF k = 0 THEN first ELSE Purge(q, g[k - 1], seq[k])]
           run == CHOOSE g : Is(g)
<1>1. m \in Nat
  BY DEF GoodsOk, GoodsType
<1>2. seq \in Seq(Int) /\ Len(seq) = m /\ \A k \in 1 .. m : seq[k] = m - k + 1
  BY <1>1 DEF Downward
<1>3. Purged(q, g0, seq) = run[m]
  BY <1>2 DEF Purged, Purge, Loop
<1> HIDE DEF m, Part, seq
<1>4. \A k \in 0 .. m : \A x : x \in X[k] <=> x \in GoodsType /\ Part(k, x)
  OBVIOUS
<1> HIDE DEF X
<1>5. GoodsOk(g0) /\ g0 \in GoodsType
  BY DEF GoodsOk
<1>6. first \in X[0]
  <2>1. Part(0, g0)
    BY <1>1, <1>5 DEF Part, m
  <2>2. 0 \in 0 .. m
    BY <1>1
  <2>3. QED  BY <1>4, <1>5, <2>1, <2>2
<1>7. ASSUME NEW k \in 1 .. m, NEW x \in X[k - 1] PROVE Purge(q, x, seq[k]) \in X[k]
  <2> DEFINE y == Purge(q, x, seq[k])
             i == seq[k]
             j == m - k
  <2>1. k - 1 \in 0 .. m /\ k \in 0 .. m /\ i = j + 1 /\ j \in Nat /\ m - (k - 1) = j + 1
    BY <1>1, <1>2
  <2>2. Part(k - 1, x) /\ GoodsOk(x)
    BY <1>4, <2>1 DEF Part
  <2>3. Len(x.good) \in Nat
    BY <2>2 DEF GoodsOk, GoodsType
  <2> HIDE DEF i, j, y
  <2>4. /\ Len(x.good) >= j + 1
        /\ \A a \in 1 .. j + 1 : x.good[a] = g0.good[a]
        /\ \A a \in j + 1 + 1 .. Len(x.good) : x.good[a] \in GoodVars(q)
        /\ Range(x.good) \subseteq Range(g0.good)
        /\ \A u \in Range(g0.good) : u \in GoodVars(q) => u \in Range(x.good)
    BY <2>1, <2>2 DEF Part
  <2>5. /\ i \in 1 .. Len(x.good) /\ i - 1 = j
        /\ GoodFrom(q, x, i + 1)
    <3> DEFINE L == Len(x.good)
    <3>1. L \in Nat /\ L >= j + 1 /\ \A a \in j + 1 + 1 .. L : x.good[a] \in GoodVars(q)
      BY <2>3, <2>4
    <3> HIDE DEF L
    <3>2. i \in 1 .. L /\ i - 1 = j
      BY <2>1, <3>1
    <3>3. \A a \in i + 1 .. L : x.good[a] \in GoodVars(q)
      BY <2>1, <3>1
    <3>4. QED  BY <3>2, <3>3 DEF L, GoodFrom
  <2>6. y = Purge(q, x, i)
    BY DEF y, i
  <2>7. /\ GoodsOk(y) /\ Len(y.good) >= i - 1
        /\ \A a \in 1 .. i - 1 : y.good[a] = x.good[a]
        /\ \A a \in i .. Len(y.good) : y.good[a] \in GoodVars(q)
        /\ Range(y.good) \subseteq Range(x.good)
        /\ \A u \in Range(x.good) : u \in GoodVars(q) => u \in Range(y.good)
    <3>1. PurgedAt(q, x, i, y)
      BY <2>2, <2>5, <2>6, PurgeTurn
    <3>2. QED  BY <3>1 DEF PurgedAt, GoodFrom
  <2>8. \A a \in 1 .. j : y.good[a] = g0.good[a]
    BY <2>1, <2>4, <2>5, <2>7
  <2>9. Part(k, y)
    BY <2>1, <2>4, <2>5, <2>7, <2>8 DEF Part, j
  <2>10. y \in GoodsType
    BY <2>7 DEF GoodsOk
  <2>11. QED  BY <1>4, <2>1, <2>9, <2>10 DEF y
<1>8. \A k \in 1 .. m : \A x \in X[k - 1] : turn[k][x] \in X[k] /\ turn[k][x] = Purge(q, x, seq[k])
  BY <1>7
<1> HIDE DEF turn, Is
<1>9. PICK g : Turns(g, m, first, turn) /\ \A k \in 0 .. m : g[k] \in X[k]
  <2>1. \A k \in 1 .. m : \A x \in X[k - 1] : turn[k][x] \in X[k]
    BY <1>8
  <2>2. m \in Nat
    BY <1>1
  <2>3. QED  BY <1>6, <2>1, <2>2, Stepwise
<1>10. Is(g)
  <2>1. \A k \in 1 .. m : k - 1 \in 0 .. m /\ k \in 0 .. m /\ k # 0
    BY <1>1
  <2>2. \A k \in 1 .. m : g[k] = Purge(q, g[k - 1], seq[k])
    BY <1>8, <1>9, <2>1 DEF Turns
  <2>3. DOMAIN g = 0 .. m /\ g = [k \in DOMAIN g |-> g[k]]
    BY <1>9 DEF Turns
  <2>4. g[0] = first /\ \A k \in 0 .. m : k # 0 => k \in 1 .. m
    BY <1>1, <1>9 DEF Turns
  <2>5. QED  BY <2>2, <2>3, <2>4 DEF Is
<1>11. Is(run)
  BY <1>10
<1> HIDE DEF run
<1>12. run[m] \in X[m]
  <2>1. run[0] \in X[0]
    BY <1>1, <1>6, <1>11 DEF Is
  <2>2. ASSUME NEW k \in 1 .. m, run[k - 1] \in X[k - 1] PROVE run[k] \in X[k]
    <3>1. k \in 0 .. m /\ k # 0
      BY <1>1
    <3>2. run[k] = Purge(q, run[k - 1], seq[k])
      BY <1>11, <3>1 DEF Is
    <3>3. QED  BY <1>8, <2>2, <3>2
  <2>3. QED  BY <1>1, <2>1, <2>2, RunStays
<1>13. m \in 0 .. m
  BY <1>1
<1>14. GoodsOk(run[m]) /\ Part(m, run[m]) /\ run[m].good \in Seq(Vars)
  BY <1>4, <1>12, <1>13 DEF Part, GoodsOk, GoodsType
<1>15. Range(run[m].good) = Range(g0.good) \cap GoodVars(q)
  <2> DEFINE y == run[m]
  <2>1. /\ y.good \in Seq(Vars)
        /\ \A j \in 0 + 1 .. Len(y.good) : y.good[j] \in GoodVars(q)
        /\ Range(y.good) \subseteq Range(g0.good)
        /\ \A u \in Range(g0.good) : u \in GoodVars(q) => u \in Range(y.good)
    BY <1>1, <1>14 DEF Part
  <2> HIDE DEF y
  <2>2. Range(y.good) \subseteq GoodVars(q)
    BY <2>1 DEF Range
  <2>3. QED  BY <2>1, <2>2 DEF y
<1>16. QED  BY <1>3, <1>14, <1>15 DEF seq, m

(* What the counts, the scores and the average depend on.                  *)
Similar(x, q) ==
  /\ x.soln = q.soln /\ x.weight = q.weight /\ Counts(x) = Counts(q) /\ x.satVar2 = q.satVar2
  /\ x.avg = q.avg /\ x.delta = q.delta
  /\ x.score = q.score /\ x.score2 = q.score2
  /\ x.breakScore = q.breakScore /\ x.makeScore = q.makeScore

LEMMA SimilarKeeps ==
  ASSUME ClausesExact, VarsExact, NEW q \in FieldsType, NEW x \in FieldsType, Similar(x, q), CountsExact(q)
  PROVE  /\ CountsExact(x)
         /\ \A p : ScoresAre(q, p) => ScoresAre(x, p)
         /\ Averages(q) => Averages(x)
<1>1. x.satCount = q.satCount /\ x.satVar = q.satVar
  BY CountsOfFields DEF Similar
<1>2. CountsExact(x)
  BY <1>1 DEF CountsExact, Similar
<1>3. \A y : y \in FieldsType /\ CountsExact(y) =>
        /\ InitScore(y) = Total(ScoreParts(y.soln, y.weight))
        /\ InitMake(y) = Total(MakeParts(y.soln, y.weight))
        /\ InitBreak(y) = Total(BreakParts(y.soln, y.weight))
        /\ InitScore2(y) = Total(SecondParts(y.soln))
  BY InitIsTotal DEF CountsExact
<1>4. /\ InitScore(x) = InitScore(q) /\ InitMake(x) = InitMake(q) /\ InitBreak(x) = InitBreak(q)
      /\ InitScore2(x) = InitScore2(q)
  BY <1>2, <1>3 DEF Similar
<1>5. PairHeld(q) => PairHeld(x)
  BY <1>1 DEF PairHeld, Similar
<1>6. \A p : ScoresAre(q, p) => ScoresAre(x, p)
  BY <1>4, <1>5 DEF ScoresAre, Similar
<1>7. Averages(q) => Averages(x)
  BY DEF Averages, WeightOf, Similar
<1>8. QED  BY <1>2, <1>6, <1>7

WithConf(q, f, g) == [q EXCEPT !.nvcc = f, !.cscc = g]

LEMMA WithConfIs ==
  ASSUME NEW q \in FieldsType, NEW f \in [Vars -> {0, 1}], NEW g \in [Vars -> {0, 1}]
  PROVE  /\ WithConf(q, f, g) \in FieldsType /\ Similar(WithConf(q, f, g), q)
         /\ Goods(WithConf(q, f, g)) = Goods(q) /\ WithConf(q, f, g).nvcc = f
         /\ WithConf(q, f, g).large = q.large
<1> DEFINE x == WithConf(q, f, g)
<1>1. x \in FieldsType
  BY DEF FieldsType, WithConf
<1>2. /\ x.soln = q.soln /\ x.weight = q.weight /\ x.nvcc = f /\ x.large = q.large
      /\ x.satCount = q.satCount /\ x.avg = q.avg /\ x.delta = q.delta
      /\ x.satVar = q.satVar /\ x.satVar2 = q.satVar2 /\ x.score = q.score /\ x.score2 = q.score2
      /\ x.breakScore = q.breakScore /\ x.makeScore = q.makeScore
      /\ x.unsat = q.unsat /\ x.unsatVar = q.unsatVar /\ x.app = q.app
      /\ x.totalUnsat = q.totalUnsat /\ x.good = q.good /\ x.inGood = q.inGood
  BY DEF FieldsType, WithConf
<1> HIDE DEF x
<1>3. Counts(x) = Counts(q) /\ Goods(x) = Goods(q) /\ Similar(x, q)
  BY <1>2 DEF Counts, Goods, Similar
<1>4. QED  BY <1>1, <1>2, <1>3 DEF x

LEMMA UpdateConfIs ==
  ASSUME VarsExact, NEW q \in FieldsType, NEW v \in Vars, NEW x, x = UpdateConf(q, v)
  PROVE  /\ x \in FieldsType /\ Similar(x, q) /\ Goods(x) = Goods(q) /\ x.large = q.large
         /\ x.nvcc = [u \in Vars |-> IF u = v THEN 0
                                     ELSE IF u \in Range(VarNeighbor[v]) THEN 1 ELSE q.nvcc[u]]
<1> DEFINE f == [u \in Vars |-> IF u = v THEN 0
                                ELSE IF u \in Range(VarNeighbor[v]) THEN 1 ELSE q.nvcc[u]]
           g == [u \in Vars |-> IF u = v THEN 0
                                ELSE IF \E c \in Toggled(q, v) : u \in ClauseVars[c] THEN 1
                                ELSE q.cscc[u]]
<1>1. x = WithConf(q, f, g)
  BY DEF UpdateConf, WithConf
<1>2. f \in [Vars -> {0, 1}] /\ g \in [Vars -> {0, 1}]
  <2>1. q.nvcc \in [Vars -> {0, 1}] /\ q.cscc \in [Vars -> {0, 1}]
    BY DEF FieldsType
  <2>2. QED  BY <2>1
<1> HIDE DEF f, g
<1>3. QED  BY <1>1, <1>2, WithConfIs DEF f

WithPriorities(q, f, g) == [q EXCEPT !.clausePri = g, !.varPri = f]

LEMMA WithPrioritiesIs ==
  ASSUME NEW q \in FieldsType, NEW f \in Ints, NEW g \in [Clauses -> Int]
  PROVE  /\ WithPriorities(q, f, g) \in FieldsType /\ Similar(WithPriorities(q, f, g), q)
         /\ Goods(WithPriorities(q, f, g)) = Goods(q) /\ WithPriorities(q, f, g).nvcc = q.nvcc
         /\ WithPriorities(q, f, g).large = q.large
<1> DEFINE x == WithPriorities(q, f, g)
<1>1. x \in FieldsType
  BY DEF FieldsType, WithPriorities
<1>2. /\ x.soln = q.soln /\ x.weight = q.weight /\ x.nvcc = q.nvcc /\ x.large = q.large
      /\ x.satCount = q.satCount /\ x.avg = q.avg /\ x.delta = q.delta
      /\ x.satVar = q.satVar /\ x.satVar2 = q.satVar2 /\ x.score = q.score /\ x.score2 = q.score2
      /\ x.breakScore = q.breakScore /\ x.makeScore = q.makeScore
      /\ x.unsat = q.unsat /\ x.unsatVar = q.unsatVar /\ x.app = q.app
      /\ x.totalUnsat = q.totalUnsat /\ x.good = q.good /\ x.inGood = q.inGood
  BY DEF FieldsType, WithPriorities
<1> HIDE DEF x
<1>3. Counts(x) = Counts(q) /\ Goods(x) = Goods(q) /\ Similar(x, q)
  BY <1>2 DEF Counts, Goods, Similar
<1>4. QED  BY <1>1, <1>2, <1>3 DEF x

LEMMA UpdatePrioritiesIs ==
  ASSUME VarsExact, Unit \in Int, NEW q \in FieldsType, NEW v \in Vars, NEW p,
         NEW x, x = UpdatePriorities(q, v, p)
  PROVE  x \in FieldsType /\ Similar(x, q) /\ Goods(x) = Goods(q) /\ x.nvcc = q.nvcc /\ x.large = q.large
<1>1. CASE ~p.aware
  BY <1>1 DEF UpdatePriorities, Similar
<1>2. CASE p.aware
  <2> DEFINE f == [q.varPri EXCEPT ![v] = Unit - @]
             g == Plus(q.clausePri, { o.clause : o \in Range(VarLit[v]) }, Unit - 2 * q.varPri[v])
  <2>1. x = WithPriorities(q, f, g)
    BY <1>2 DEF UpdatePriorities, WithPriorities
  <2>2. q.varPri \in [Vars -> Int] /\ q.clausePri \in [Clauses -> Int]
    BY DEF FieldsType, Ints
  <2>3. Unit - 2 * q.varPri[v] \in Int /\ Unit - q.varPri[v] \in Int
    BY <2>2
  <2>4. f \in Ints
    BY <2>2, <2>3 DEF Ints
  <2>5. g \in [Clauses -> Int]
    BY <2>2, <2>3 DEF Plus
  <2> HIDE DEF f, g
  <2>6. QED  BY <2>1, <2>4, <2>5, WithPrioritiesIs
<1>3. QED  BY <1>1, <1>2

LEMMA UpdateGoodIs ==
  ASSUME VarsExact, NEW q \in FieldsType, GoodsOk(Goods(q)), NEW v \in Vars
  PROVE  /\ GoodsOk(UpdateGood(q, v))
         /\ Range(UpdateGood(q, v).good) = (Range(q.good) \cap GoodVars(q))
              \cup { u \in Range(VarNeighbor[v]) : q.score[u] > 0 }
<1> DEFINE first == Goods(q)
           purged == Purged(q, first, Downward(Len(q.good)))
           seq == VarNeighbor[v]
<1>1. first.good = q.good
  BY DEF Goods
<1>2. UpdateGood(q, v) = AddedAll(q, purged, seq)
  BY DEF UpdateGood, AddedAll, Purged, Downward
<1>3. seq \in Seq(Vars)
  BY DEF VarsExact
<1> HIDE DEF first, seq
<1>4. GoodsOk(purged) /\ Range(purged.good) = Range(q.good) \cap GoodVars(q)
  <2>1. GoodsOk(first)
    BY DEF first
  <2>2. GoodsOk(Purged(q, first, Downward(Len(first.good))))
        /\ Range(Purged(q, first, Downward(Len(first.good))).good) = Range(first.good) \cap GoodVars(q)
    BY <2>1, PurgedIs
  <2>3. QED  BY <1>1, <2>2
<1> HIDE DEF purged
<1>5. /\ GoodsOk(AddedAll(q, purged, seq))
      /\ Range(AddedAll(q, purged, seq).good) = Range(purged.good) \cup { u \in Range(seq) : q.score[u] > 0 }
  BY <1>3, <1>4, AddedAllIs
<1>6. QED  BY <1>2, <1>4, <1>5 DEF seq

(* The score of a variable that shares no clause with v stays.             *)
LEMMA ScoreFrame ==
  ASSUME ClausesExact, VarsExact, NEW v \in Vars, NEW old \in Solutions, NEW new, new = Flipped(old, v),
         NEW w, w \in [Clauses -> Int], NEW u \in Vars, u # v, u \notin Range(VarNeighbor[v])
  PROVE  Total(ScoreParts(new, w))[u] = Total(ScoreParts(old, w))[u]
<1> DEFINE po == ScoreParts(old, w)
           pn == ScoreParts(new, w)
<1>1. Local(v, po, pn)
  BY PartsLocal
<1>2. ASSUME NEW c \in Clauses PROVE pn[u][c] = po[u][c]
  <2>1. CASE v \notin ClauseVars[c]
    BY <1>1, <2>1 DEF Local
  <2>2. CASE v \in ClauseVars[c]
    <3>1. u \notin ClauseVars[c]
      BY <2>2 DEF VarsExact
    <3>2. Held(old, c) # {u} /\ Held(new, c) # {u}
      BY <3>1 DEF Held
    <3>3. /\ MakeParts(old, w)[u][c] = MakeParts(new, w)[u][c]
          /\ BreakParts(old, w)[u][c] = BreakParts(new, w)[u][c]
      BY <3>1, <3>2 DEF MakeParts, BreakParts
    <3>4. QED  BY <3>3 DEF ScoreParts
  <2>3. QED  BY <2>1, <2>2
<1>3. po[u] \in [Clauses -> Int] /\ pn[u] \in [Clauses -> Int]
  BY <1>1 DEF Local, Parts
<1> HIDE DEF po, pn
<1>4. po[u] = pn[u]
  BY <1>2, <1>3
<1>5. QED  BY <1>4 DEF Total, po, pn

(* update.                                                                 *)
LEMMA UpdateIs ==
  ASSUME ClausesExact, VarsExact, Unit \in Int, NEW q, NEW v, NEW old, JustFlipped(q, v, old),
         NEW p, Pending(q, old, p), Averages(q), GoodsOk(Goods(q)), NEW k \in Int,
         NEW x, x = Update(q, v, k, p)
  PROVE  /\ x \in FieldsType /\ CountsExact(x) /\ ScoresAre(x, p) /\ Averages(x)
         /\ GoodsOk(Goods(x)) /\ Range(x.good) \subseteq GoodVars(x)
         /\ Range(q.good) = GoodVars(q) => Range(x.good) = GoodVars(x)
         /\ x.large = q.large /\ x.weight = q.weight
<1> DEFINE x1 == UpdateScores(q, v, k, p)
           x2 == UpdateSecond(x1, v, p)
           x3 == UpdateConf(x2, v)
           gs == UpdateGood(x3, v)
           x4 == WithGoods(x3, gs)
           near == Range(VarNeighbor[v])
<1>1. x = UpdatePriorities(x4, v, p)
  BY DEF Update
<1> HIDE DEF x1, x2, x3, gs, x4
<1>2. v \in Vars /\ q \in FieldsType /\ old \in Solutions /\ q.soln = Flipped(old, v)
      /\ q.weight \in [Clauses -> Int] /\ CountsExact(q)
  BY CountsOfFields DEF JustFlipped
<1>3. /\ x1 \in FieldsType /\ SameState(x1, q) /\ Counts(x1) = Counts(q) /\ Goods(x1) = Goods(q)
      /\ JustFlipped(x1, v, old) /\ x1.satVar2 = q.satVar2 /\ x1.score2 = q.score2
      /\ x1.score = InitScore(x1)
      /\ p.prob /\ p.weighting = "none" => x1.breakScore = InitBreak(x1) /\ x1.makeScore = InitMake(x1)
  BY UpdateScoresIs DEF x1
<1>4. /\ x2 \in FieldsType /\ SameState(x2, x1) /\ CountsExact(x2) /\ Goods(x2) = Goods(x1)
      /\ x2.score = x1.score /\ x2.breakScore = x1.breakScore /\ x2.makeScore = x1.makeScore
      /\ p.second => x2.score2 = InitScore2(x2) /\ PairHeld(x2)
  <2>1. x1.soln = q.soln /\ x1.satVar = q.satVar
    BY <1>2, <1>3, CountsOfFields DEF SameState
  <2>2. p.second => x1.score2 = Total(SecondParts(old)) /\ PairBefore(old, x1.soln, x1.satVar, x1.satVar2)
    BY <1>3, <2>1 DEF Pending
  <2>3. QED  BY <1>3, <2>2, UpdateSecondIs DEF x2
<1>5. ScoresAre(x2, p) /\ Averages(x2)
  <2>1. InitScore(x2) = InitScore(x1) /\ InitBreak(x2) = InitBreak(x1) /\ InitMake(x2) = InitMake(x1)
    BY <1>4, SumsSame
  <2>2. ScoresAre(x2, p)
    BY <1>3, <1>4, <2>1 DEF ScoresAre
  <2>3. x2.weight = q.weight /\ x2.avg = q.avg /\ x2.delta = q.delta
    BY <1>3, <1>4 DEF SameState
  <2>4. QED  BY <2>2, <2>3 DEF Averages, WeightOf
<1>6. /\ x3 \in FieldsType /\ Similar(x3, x2) /\ Goods(x3) = Goods(x2) /\ x3.large = x2.large
      /\ x3.nvcc = [u \in Vars |-> IF u = v THEN 0 ELSE IF u \in near THEN 1 ELSE x2.nvcc[u]]
  BY <1>2, <1>4, UpdateConfIs DEF x3
<1>7. /\ GoodsOk(gs)
      /\ Range(gs.good) = (Range(x3.good) \cap GoodVars(x3)) \cup { u \in near : x3.score[u] > 0 }
  BY <1>2, <1>3, <1>4, <1>6, UpdateGoodIs DEF gs
<1>8. /\ x4 \in FieldsType /\ Similar(x4, x3) /\ Goods(x4) = gs /\ x4.nvcc = x3.nvcc
      /\ x4.large = x3.large
  <2>1. gs \in GoodsType
    BY <1>7 DEF GoodsOk
  <2>2. /\ x4 \in FieldsType /\ SameState(x4, x3) /\ Counts(x4) = Counts(x3) /\ Goods(x4) = gs
        /\ x4.satVar2 = x3.satVar2 /\ x4.score = x3.score /\ x4.score2 = x3.score2
        /\ x4.breakScore = x3.breakScore /\ x4.makeScore = x3.makeScore
    BY <1>6, <2>1, WithGoodsIs DEF x4
  <2>3. QED  BY <2>2 DEF SameState, Similar
<1>9. x \in FieldsType /\ Similar(x, x4) /\ Goods(x) = Goods(x4) /\ x.nvcc = x4.nvcc
      /\ x.large = x4.large
  BY <1>1, <1>2, <1>8, UpdatePrioritiesIs
<1>10. Similar(x, x2)
  BY <1>6, <1>8, <1>9 DEF Similar
<1>11. CountsExact(x) /\ ScoresAre(x, p) /\ Averages(x)
  BY <1>4, <1>5, <1>9, <1>10, SimilarKeeps
<1>12. GoodsOk(Goods(x)) /\ x.good = gs.good /\ x3.good = q.good
  <2>1. Goods(x) = gs /\ Goods(x3) = Goods(q)
    BY <1>3, <1>4, <1>6, <1>8, <1>9
  <2>2. \A y : Goods(y).good = y.good
    BY DEF Goods
  <2>3. QED  BY <1>7, <2>1, <2>2
<1>13. x.score = x3.score /\ x.nvcc = x3.nvcc
  BY <1>6, <1>8, <1>9 DEF Similar
<1>14. GoodVars(x) = GoodVars(x3)
  BY <1>13 DEF GoodVars
<1>15. near \subseteq Vars \ {v}
  BY <1>2 DEF VarsExact
<1>16. \A u \in near : x3.score[u] > 0 => u \in GoodVars(x3)
  BY <1>6, <1>15 DEF GoodVars
<1>17. Range(x.good) \subseteq GoodVars(x)
  BY <1>7, <1>12, <1>14, <1>16
<1>18. ASSUME Range(q.good) = GoodVars(q) PROVE GoodVars(x) \subseteq Range(x.good)
  <2> SUFFICES ASSUME NEW u \in GoodVars(x) PROVE u \in Range(x.good)
    OBVIOUS
  <2>1. u \in Vars /\ x3.score[u] > 0 /\ x3.nvcc[u] = 1
    BY <1>13 DEF GoodVars
  <2>2. u # v
    BY <1>6, <2>1
  <2>3. CASE u \in near
    BY <1>7, <1>12, <2>1, <2>3
  <2>4. CASE u \notin near
    <3>1. q.nvcc[u] = 1
      BY <1>3, <1>4, <1>6, <2>1, <2>2, <2>4 DEF SameState
    <3>2. x3.score = InitScore(x1) /\ x1.soln = q.soln /\ x1.weight = q.weight
          /\ x1.satCount = Counting(x1.soln)
      BY <1>3, <1>4, <1>6 DEF SameState, Similar, JustFlipped, CountsExact
    <3>3. x3.score = Total(ScoreParts(q.soln, q.weight)) /\ q.score = Total(ScoreParts(old, q.weight))
      BY <1>3, <3>2, InitIsTotal DEF Pending
    <3>4. x3.score[u] = q.score[u]
      BY <1>2, <2>1, <2>2, <2>4, <3>3, ScoreFrame
    <3>5. u \in GoodVars(q)
      BY <2>1, <3>1, <3>4 DEF GoodVars
    <3>6. u \in Range(x3.good) /\ u \in GoodVars(x3)
      BY <1>12, <1>14, <1>18, <3>5
    <3>7. QED  BY <1>7, <1>12, <3>6
  <2>5. QED  BY <2>3, <2>4
<1>19. x.large = q.large /\ x.weight = q.weight
  BY <1>3, <1>4, <1>6, <1>8, <1>9 DEF SameState, Similar
<1>20. QED  BY <1>9, <1>11, <1>12, <1>17, <1>18, <1>19

-----------------------------------------------------------------------------
(* What the weighting schemes leave alone.                                 *)
Reweighed(x, q) ==
  /\ x.soln = q.soln /\ x.nvcc = q.nvcc
  /\ x.satCount = q.satCount /\ x.satVar = q.satVar /\ x.satVar2 = q.satVar2
  /\ x.unsat = q.unsat /\ x.unsatVar = q.unsatVar /\ x.app = q.app
  /\ x.score2 = q.score2 /\ x.breakScore = q.breakScore /\ x.makeScore = q.makeScore

WithWeights(q, w, total, f, m, d) ==
  [q EXCEPT !.weight = w, !.totalUnsat = total, !.score = f, !.avg = m, !.delta = d]

LEMMA WithWeightsIs ==
  ASSUME NEW q \in FieldsType, NEW w \in [Clauses -> Int], NEW total \in Int, NEW f \in Ints,
         NEW m \in Int, NEW d \in Int
  PROVE  /\ WithWeights(q, w, total, f, m, d) \in FieldsType
         /\ Reweighed(WithWeights(q, w, total, f, m, d), q)
         /\ Goods(WithWeights(q, w, total, f, m, d)) = Goods(q)
         /\ WithWeights(q, w, total, f, m, d).weight = w
         /\ WithWeights(q, w, total, f, m, d).totalUnsat = total
         /\ WithWeights(q, w, total, f, m, d).score = f
         /\ WithWeights(q, w, total, f, m, d).avg = m
         /\ WithWeights(q, w, total, f, m, d).delta = d
         /\ WithWeights(q, w, total, f, m, d).large = q.large
<1> DEFINE x == WithWeights(q, w, total, f, m, d)
<1>1. x \in FieldsType
  BY DEF FieldsType, WithWeights
<1>2. /\ x.soln = q.soln /\ x.weight = w /\ x.nvcc = q.nvcc /\ x.large = q.large
      /\ x.satCount = q.satCount /\ x.avg = m /\ x.delta = d
      /\ x.satVar = q.satVar /\ x.satVar2 = q.satVar2 /\ x.score = f /\ x.score2 = q.score2
      /\ x.breakScore = q.breakScore /\ x.makeScore = q.makeScore
      /\ x.unsat = q.unsat /\ x.unsatVar = q.unsatVar /\ x.app = q.app
      /\ x.totalUnsat = total /\ x.good = q.good /\ x.inGood = q.inGood
  BY DEF FieldsType, WithWeights
<1> HIDE DEF x
<1>3. Goods(x) = Goods(q) /\ Reweighed(x, q)
  BY <1>2 DEF Goods, Reweighed
<1>4. QED  BY <1>1, <1>2, <1>3 DEF x

(* With the total and the scores that the weights give, all is right.      *)
LEMMA ReweighedKeeps ==
  ASSUME ClausesExact, VarsExact, NEW q \in FieldsType, NEW x \in FieldsType, Reweighed(x, q),
         CountsExact(q), x.totalUnsat = SumFunctionOnSet(x.weight, UnsatOf(x.soln)),
         x.score = Total(ScoreParts(x.soln, x.weight)),
         NEW p, p.weighting # "none", ScoresAre(q, p)
  PROVE  CountsExact(x) /\ ScoresAre(x, p)
<1>1. /\ Counts(x).unsat = x.unsat /\ Counts(x).unsatVar = x.unsatVar /\ Counts(x).app = x.app
      /\ Counts(x).totalUnsat = x.totalUnsat
      /\ Counts(q).unsat = q.unsat /\ Counts(q).unsatVar = q.unsatVar /\ Counts(q).app = q.app
  BY CountsOfFields
<1>2. Stacks(Counts(x), UnsatOf(x.soln), x.weight)
  BY <1>1 DEF Stacks, Named, CountsExact, Reweighed
<1>3. CountsExact(x)
  BY <1>2 DEF CountsExact, Reweighed
<1>4. x.satCount = Counting(x.soln) /\ q.satCount = Counting(q.soln)
  BY <1>3 DEF CountsExact
<1>5. x.score = InitScore(x) /\ InitScore2(x) = Total(SecondParts(x.soln))
  BY <1>4, InitIsTotal
<1>6. InitScore2(q) = Total(SecondParts(q.soln))
  BY <1>4, InitIsTotal
<1>7. ASSUME p.second PROVE x.score2 = InitScore2(x) /\ PairHeld(x)
  BY <1>5, <1>6, <1>7 DEF ScoresAre, Reweighed, PairHeld
<1>8. QED  BY <1>3, <1>5, <1>7 DEF ScoresAre

(* A list on a stack is as long as the set it holds.                       *)
LEMMA StackLength ==
  ASSUME NEW S, NEW t, StackOver(S, t)
  PROVE  /\ t.stack \in Seq(S) /\ IsInjective(t.stack) /\ OnStack(t) = Range(t.stack)
         /\ Len(t.stack) = Cardinality(OnStack(t)) /\ Len(t.stack) \in Nat
<1>1. /\ t.stack \in Seq(S) /\ DOMAIN t.stack = 1 .. Len(t.stack)
      /\ \A i \in 1 .. Len(t.stack) : t.index[t.stack[i]] = i
  BY DEF StackOver, StackExact
<1> DEFINE list == t.stack
<1>2. OnStack(t) = Range(list)
  BY <1>1 DEF OnStack, Range
<1>3. IsInjective(list)
  BY <1>1 DEF IsInjective
<1> HIDE DEF list
<1>4. Cardinality(Range(list)) = Len(list)
  BY <1>1, <1>3, ListLength DEF list
<1>5. QED  BY <1>1, <1>2, <1>3, <1>4 DEF list

LEMMA TotalPlus ==
  ASSUME ClausesExact, NEW P \in Parts, NEW Q, NEW u \in Vars, NEW e,
         \A c \in Clauses : e[c] \in Int /\ Q[u][c] = P[u][c] + e[c]
  PROVE  Total(Q)[u] = Total(P)[u] + SumFunctionOnSet(e, Clauses)
<1> DEFINE f == P[u]
           h == Q[u]
<1>1. \A c \in Clauses : f[c] \in Int /\ e[c] \in Int /\ h[c] = f[c] + e[c]
  BY DEF Parts
<1> HIDE DEF f, h
<1>2. SumFunctionOnSet(h, Clauses) = SumFunctionOnSet(f, Clauses) + SumFunctionOnSet(e, Clauses)
  BY <1>1, FiniteClauses, SumPlus
<1>3. QED  BY <1>2 DEF Total, f, h

(* The unsatisfied clauses, the variables they name and how often.         *)
LEMMA UnsatIs ==
  ASSUME ClausesExact, VarsExact, NEW q \in FieldsType, CountsExact(q), NEW U, U = UnsatOf(q.soln)
  PROVE  /\ U \subseteq Clauses /\ IsFiniteSet(U) /\ OnStack(q.unsat) = U /\ Len(q.unsat.stack) = Cardinality(U)
         /\ Cardinality(U) \in Nat
         /\ q.unsat.stack \in Seq(Clauses) /\ Range(q.unsat.stack) = U /\ IsInjective(q.unsat.stack)
         /\ q.unsatVar.stack \in Seq(Vars) /\ Range(q.unsatVar.stack) = OnStack(q.unsatVar)
         /\ q.app = Apps(U) /\ (\A u \in Vars : q.app[u] \in Nat)
         /\ OnStack(q.unsatVar) = { u \in Vars : q.app[u] > 0 }
         /\ q.totalUnsat = SumFunctionOnSet(q.weight, U)
<1>1. U \subseteq Clauses
  BY DEF UnsatOf
<1>2. IsFiniteSet(U) /\ Cardinality(U) \in Nat
  BY <1>1, FiniteClauses, FS_Subset, FS_CardinalityType
<1>3. /\ Counts(q).unsat = q.unsat /\ Counts(q).unsatVar = q.unsatVar
      /\ Counts(q).app = q.app /\ Counts(q).totalUnsat = q.totalUnsat
  BY CountsOfFields
<1>4. /\ StackOver(Clauses, q.unsat) /\ OnStack(q.unsat) = U
      /\ q.totalUnsat = SumFunctionOnSet(q.weight, U)
      /\ q.app = Apps(U) /\ StackOver(Vars, q.unsatVar)
      /\ OnStack(q.unsatVar) = { u \in Vars : Apps(U)[u] > 0 }
  BY <1>3 DEF CountsExact, Stacks, Named
<1>5. \A u \in Vars : q.app[u] \in Nat
  <2>1. ASSUME NEW u \in Vars PROVE Cardinality({ c \in U : u \in ClauseVars[c] }) \in Nat
    BY <1>2, FS_Subset, FS_CardinalityType
  <2>2. QED  BY <1>4, <2>1 DEF Apps
<1>6. QED  BY <1>1, <1>2, <1>4, <1>5, StackLength

(* The state between flips is right.                                       *)
Right(q, p) ==
  /\ q \in FieldsType /\ CountsExact(q) /\ ScoresAre(q, p) /\ Averages(q) /\ GoodsOk(Goods(q))
  /\ p.weighting # "none"

(* The unsatisfied clauses gain weight one.                                *)
LEMMA GainWeightIs ==
  ASSUME ClausesExact, VarsExact, NEW q, NEW p, Right(q, p), NEW x, x = GainWeight(q)
  PROVE  /\ Right(x, p) /\ Reweighed(x, q) /\ Goods(x) = Goods(q) /\ x.large = q.large
         /\ \A u \in Vars : x.score[u] = IF u \in OnStack(q.unsatVar) THEN q.score[u] + q.app[u] ELSE q.score[u]
         /\ \A c \in Clauses : x.weight[c] = IF c \in UnsatOf(q.soln) THEN q.weight[c] + 1 ELSE q.weight[c]
<1> DEFINE U == UnsatOf(q.soln)
           n == Len(q.unsat.stack)
           w == Plus(q.weight, U, 1)
           f == [u \in Vars |-> IF u \in OnStack(q.unsatVar) THEN q.score[u] + q.app[u] ELSE q.score[u]]
           po == ScoreParts(q.soln, q.weight)
           pn == ScoreParts(q.soln, w)
<1>1. q \in FieldsType /\ CountsExact(q) /\ ScoresAre(q, p) /\ Averages(q)
  BY DEF Right
<1>2. /\ U \subseteq Clauses /\ OnStack(q.unsat) = U /\ n = Cardinality(U) /\ n \in Nat
      /\ q.app = Apps(U) /\ (\A u \in Vars : q.app[u] \in Nat)
      /\ OnStack(q.unsatVar) = { u \in Vars : q.app[u] > 0 }
      /\ q.totalUnsat = SumFunctionOnSet(q.weight, U)
  BY <1>1, UnsatIs
<1>3. /\ q.weight \in [Clauses -> Int] /\ q.totalUnsat \in Int /\ q.avg \in Int /\ q.delta \in Int
      /\ q.score \in Ints
  BY <1>1 DEF FieldsType
<1>4. x = WithWeights(q, w, q.totalUnsat + n, f, q.avg, q.delta + n)
  <2>1. x = [q EXCEPT !.weight = w, !.totalUnsat = q.totalUnsat + n, !.score = f, !.delta = q.delta + n]
    BY <1>1, <1>2 DEF GainWeight, FieldsType
  <2> HIDE DEF w, f, n
  <2>2. QED  BY <1>1, <2>1 DEF WithWeights, FieldsType
<1> HIDE DEF n
<1>5. w \in [Clauses -> Int] /\ \A c \in Clauses : w[c] = IF c \in U THEN q.weight[c] + 1 ELSE q.weight[c]
  BY <1>3 DEF Plus
<1>6. f \in Ints /\ \A u \in Vars : f[u] = q.score[u] + q.app[u]
  <2>1. ASSUME NEW u \in Vars PROVE f[u] = q.score[u] + q.app[u] /\ f[u] \in Int
    <3> DEFINE i == q.score[u]
               j == q.app[u]
    <3>1. i \in Int /\ j \in Nat /\ f[u] = IF j > 0 THEN i + j ELSE i
      BY <1>2, <1>3 DEF Ints
    <3> HIDE DEF i, j, f
    <3>2. f[u] = i + j /\ f[u] \in Int
      BY <3>1
    <3>3. QED  BY <3>2 DEF i, j
  <2>2. QED  BY <2>1 DEF Ints
<1> HIDE DEF w, f
<1>7. /\ x \in FieldsType /\ Reweighed(x, q) /\ Goods(x) = Goods(q) /\ x.large = q.large
      /\ x.weight = w /\ x.totalUnsat = q.totalUnsat + n /\ x.score = f
      /\ x.avg = q.avg /\ x.delta = q.delta + n
  <2>1. q.totalUnsat + n \in Int /\ q.delta + n \in Int
    BY <1>2, <1>3
  <2>2. QED  BY <1>1, <1>3, <1>4, <1>5, <1>6, <2>1, WithWeightsIs
<1> DEFINE ones == [c \in Clauses |-> IF c \in U THEN 1 ELSE 0]
<1>8. /\ \A c \in Clauses : ones[c] \in Int /\ w[c] = q.weight[c] + ones[c] /\ ones[c] = IF c \in U THEN 1 ELSE 0
      /\ SumFunctionOnSet(ones, Clauses) = n
  <2>1. \A c \in Clauses : ones[c] \in Int /\ w[c] = q.weight[c] + ones[c] /\ ones[c] = IF c \in U THEN 1 ELSE 0
    BY <1>3, <1>5
  <2>2. U \in SUBSET Clauses
    BY <1>2
  <2> HIDE DEF ones, U
  <2>3. SumFunctionOnSet(ones, Clauses) = Cardinality(U)
    BY <2>1, <2>2, CountWhere
  <2>4. QED  BY <1>2, <2>1, <2>3
<1>9. x.totalUnsat = SumFunctionOnSet(x.weight, UnsatOf(x.soln))
  <2> DEFINE g == q.weight
  <2>1. IsFiniteSet(U)
    BY <1>2, FiniteClauses, FS_Subset
  <2>2. \A c \in U : g[c] \in Int /\ ones[c] \in Int /\ w[c] = g[c] + ones[c]
    BY <1>2, <1>3, <1>8
  <2>3. \A c \in U : ones[c] \in Nat /\ ones[c] = 1
    BY <1>2, <1>8
  <2> HIDE DEF g, ones, U
  <2>4. SumFunctionOnSet(w, U) = SumFunctionOnSet(g, U) + SumFunctionOnSet(ones, U)
    BY <2>1, <2>2, SumPlus
  <2>5. SumFunctionOnSet(ones, U) = Cardinality(U)
    BY <2>1, <2>3, SumNatural
  <2>6. x.soln = q.soln
    BY <1>7 DEF Reweighed
  <2>7. QED  BY <1>2, <1>7, <2>4, <2>5, <2>6 DEF U, g
<1>10. Averages(x)
  <2> DEFINE g == q.weight
             N == q.avg * NumClauses
             d == q.delta
  <2>1. \A c \in Clauses : g[c] \in Int /\ ones[c] \in Int /\ w[c] = g[c] + ones[c]
    BY <1>3, <1>8
  <2>2. N \in Int /\ d \in Int
    BY <1>3 DEF ClausesExact
  <2>3. SumFunctionOnSet(g, Clauses) = N + d
    BY <1>1 DEF Averages, WeightOf
  <2>4. /\ SumFunctionOnSet(x.weight, Clauses) = SumFunctionOnSet(w, Clauses)
        /\ x.avg * NumClauses + x.delta = N + (d + n)
    BY <1>7
  <2> HIDE DEF g, ones, N, d
  <2>5. SumFunctionOnSet(w, Clauses) = SumFunctionOnSet(g, Clauses) + SumFunctionOnSet(ones, Clauses)
    BY <2>1, FiniteClauses, SumPlus
  <2>6. SumFunctionOnSet(w, Clauses) = (N + d) + n
    BY <1>8, <2>3, <2>5
  <2>7. (N + d) + n = N + (d + n)
    BY <1>2, <2>2
  <2>8. QED  BY <2>4, <2>6, <2>7 DEF Averages, WeightOf
<1>11. po \in Parts /\ pn \in Parts
  BY <1>3, <1>5, PartsType
<1>12. q.score = Total(po)
  BY <1>1, InitIsTotal DEF ScoresAre, CountsExact
<1>13. ASSUME NEW u \in Vars PROVE f[u] = Total(pn)[u]
  <2> DEFINE e == [c \in Clauses |-> IF c \in { d \in U : u \in ClauseVars[d] } THEN 1 ELSE 0]
             S == { d \in U : u \in ClauseVars[d] }
  <2>1. S \in SUBSET Clauses /\ \A c \in Clauses : e[c] = (IF c \in S THEN 1 ELSE 0) /\ e[c] \in Int
    BY <1>2
  <2>2. ASSUME NEW c \in Clauses PROVE pn[u][c] = po[u][c] + e[c]
    <3> DEFINE i == q.weight[c]
               mo == MakeParts(q.soln, q.weight)[u][c]
               mn == MakeParts(q.soln, w)[u][c]
               b == BreakParts(q.soln, q.weight)[u][c]
    <3>1. i \in Int /\ (c \in U <=> Held(q.soln, c) = {}) /\ w[c] = IF c \in U THEN i + 1 ELSE i
      BY <1>3, <1>5 DEF UnsatOf
    <3>2. mo = IF c \in S THEN i ELSE 0
      BY <3>1 DEF MakeParts
    <3>3. mn = IF c \in S THEN i + 1 ELSE 0
      BY <3>1 DEF MakeParts
    <3>4. b \in Int /\ BreakParts(q.soln, w)[u][c] = b
      BY <3>1 DEF BreakParts
    <3>5. po[u][c] = mo - b /\ pn[u][c] = mn - b
      BY <3>4 DEF ScoreParts
    <3> HIDE DEF mo, mn, b, po, pn, S, i, e
    <3>6. mn - b = (mo - b) + e[c]
      BY <2>1, <3>1, <3>2, <3>3, <3>4
    <3>7. QED  BY <3>5, <3>6
  <2> HIDE DEF e, S, po, pn
  <2>3. Total(pn)[u] = Total(po)[u] + SumFunctionOnSet(e, Clauses)
    BY <1>11, <2>1, <2>2, TotalPlus
  <2>4. SumFunctionOnSet(e, Clauses) = Cardinality(S)
    BY <2>1, CountWhere
  <2>5. Cardinality(S) = q.app[u]
    BY <1>2 DEF Apps, S
  <2>6. QED  BY <1>6, <1>12, <2>3, <2>4, <2>5
<1>14. f = Total(pn)
  <2>1. Total(pn) \in Ints
    BY <1>11, TotalType
  <2> HIDE DEF pn
  <2>2. QED  BY <1>6, <1>13, <2>1 DEF Ints
<1>15. x.score = Total(ScoreParts(x.soln, x.weight))
  BY <1>7, <1>14 DEF Reweighed
<1>16. CountsExact(x) /\ ScoresAre(x, p)
  BY <1>1, <1>7, <1>9, <1>15, ReweighedKeeps DEF Right
<1>17. Right(x, p)
  BY <1>7, <1>10, <1>16 DEF Right
<1>18. QED  BY <1>5, <1>7, <1>17 DEF f

(* The average takes what has come together beyond one per clause.         *)
LEMMA AveragedIs ==
  ASSUME ClausesExact, VarsExact, NEW q, NEW p, Right(q, p), NEW x, x = Averaged(q)
  PROVE  /\ Right(x, p) /\ Reweighed(x, q) /\ Goods(x) = Goods(q) /\ x.score = q.score
         /\ x.weight = q.weight /\ x.large = q.large
<1>1. q \in FieldsType /\ CountsExact(q) /\ ScoresAre(q, p) /\ Averages(q)
  BY DEF Right
<1>2. CASE ~(q.delta > NumClauses)
  BY <1>2 DEF Averaged, Reweighed
<1>3. CASE q.delta > NumClauses
  <2> DEFINE a == q.avg
             d == q.delta
             N == NumClauses
  <2>1. /\ q.weight \in [Clauses -> Int] /\ q.totalUnsat \in Int /\ a \in Int /\ d \in Int
        /\ q.score \in Ints /\ N \in Int
    BY <1>1 DEF FieldsType, ClausesExact
  <2>2. x = WithWeights(q, q.weight, q.totalUnsat, q.score, a + 1, d - N)
    <3>1. x = [q EXCEPT !.avg = a + 1, !.delta = d - N]
      BY <1>1, <1>3 DEF Averaged, FieldsType
    <3> HIDE DEF a, d, N
    <3>2. QED  BY <1>1, <3>1 DEF WithWeights, FieldsType
  <2>3. a + 1 \in Int /\ d - N \in Int
    BY <2>1
  <2>4. /\ x \in FieldsType /\ Reweighed(x, q) /\ Goods(x) = Goods(q) /\ x.large = q.large
        /\ x.weight = q.weight /\ x.totalUnsat = q.totalUnsat /\ x.score = q.score
        /\ x.avg = a + 1 /\ x.delta = d - N
    BY <1>1, <2>1, <2>2, <2>3, WithWeightsIs
  <2>5. Averages(x)
    <3>1. SumFunctionOnSet(q.weight, Clauses) = a * N + d
      BY <1>1 DEF Averages, WeightOf
    <3> HIDE DEF a, d, N
    <3>2. a * N + d = (a + 1) * N + (d - N)
      BY <2>1
    <3>3. QED  BY <2>4, <3>1, <3>2 DEF Averages, WeightOf, N
  <2>6. x.soln = q.soln
    BY <2>4 DEF Reweighed
  <2>7. x.totalUnsat = SumFunctionOnSet(x.weight, UnsatOf(x.soln))
    BY <1>1, <2>4, <2>6, UnsatIs
  <2>8. q.score = Total(ScoreParts(q.soln, q.weight))
    BY <1>1, InitIsTotal DEF ScoresAre, CountsExact
  <2>9. x.score = Total(ScoreParts(x.soln, x.weight))
    BY <2>4, <2>6, <2>8
  <2>10. CountsExact(x) /\ ScoresAre(x, p)
    BY <1>1, <2>4, <2>7, <2>9, ReweighedKeeps DEF Right
  <2>11. QED  BY <2>4, <2>5, <2>10 DEF Right
<1>4. QED  BY <1>2, <1>3

(* Those that have become good are added.                                  *)
LEMMA AddNewGoodIs ==
  ASSUME ClausesExact, VarsExact, NEW q, NEW p, Right(q, p), NEW seq \in Seq(Vars),
         NEW z, z = AddNewGood(q, seq)
  PROVE  /\ Right(z, p) /\ Similar(z, q) /\ z.nvcc = q.nvcc /\ z.large = q.large
         /\ Range(z.good) = Range(q.good) \cup { v \in Range(seq) : q.score[v] > 0 /\ q.nvcc[v] = 1 }
<1> DEFINE first == Goods(q)
           gs == AddedNew(q, first, seq)
<1>1. q \in FieldsType /\ CountsExact(q) /\ ScoresAre(q, p) /\ Averages(q) /\ GoodsOk(first)
  BY DEF Right
<1>2. z = WithGoods(q, gs)
  <2>1. AddNewGood(q, seq) = WithGoods(q, gs)
    BY DEF AddNewGood, AddedNew, NewlyGood, Loop
  <2>2. QED  BY <2>1
<1>3. first.good = q.good
  BY DEF Goods
<1> HIDE DEF first
<1>4. /\ GoodsOk(gs)
      /\ Range(gs.good) = Range(first.good) \cup { v \in Range(seq) : q.score[v] > 0 /\ q.nvcc[v] = 1 }
  BY <1>1, AddedNewIs
<1> HIDE DEF gs
<1>5. gs \in GoodsType
  BY <1>4 DEF GoodsOk
<1>6. /\ z \in FieldsType /\ SameState(z, q) /\ Counts(z) = Counts(q) /\ Goods(z) = gs
      /\ z.satVar2 = q.satVar2 /\ z.score = q.score /\ z.score2 = q.score2 /\ z.good = gs.good
      /\ z.breakScore = q.breakScore /\ z.makeScore = q.makeScore
  BY <1>1, <1>2, <1>5, WithGoodsIs
<1>7. Similar(z, q) /\ z.nvcc = q.nvcc /\ z.large = q.large
  BY <1>6 DEF SameState, Similar
<1>8. Right(z, p)
  BY <1>1, <1>4, <1>6, <1>7, SimilarKeeps DEF Right
<1>9. QED  BY <1>3, <1>4, <1>6, <1>7, <1>8

(* The weights gained: with every good variable before, every one after.   *)
Gained(q, f) == Range(q.good) \cup { v \in OnStack(q.unsatVar) : f[v] > 0 /\ q.nvcc[v] = 1 }

LEMMA GainedIs ==
  ASSUME ClausesExact, VarsExact, NEW q, NEW p, Right(q, p), NEW y, y = GainWeight(q),
         NEW x, Right(x, p), x.score = y.score, x.nvcc = q.nvcc, Range(q.good) = GoodVars(q)
  PROVE  Gained(q, y.score) = GoodVars(x)
<1> DEFINE good == Gained(q, y.score)
<1>1. /\ q.score \in Ints /\ OnStack(q.unsatVar) \subseteq Vars /\ (\A u \in Vars : q.app[u] \in Nat)
  <2>1. q \in FieldsType /\ CountsExact(q)
    BY DEF Right
  <2>2. q.score \in Ints
    BY <2>1 DEF FieldsType
  <2>3. QED  BY <2>1, <2>2, UnsatIs
<1>2. \A u \in Vars : y.score[u] = IF u \in OnStack(q.unsatVar) THEN q.score[u] + q.app[u] ELSE q.score[u]
  BY Zenon, GainWeightIs
<1>3. ASSUME NEW u \in Vars PROVE u \in good <=> u \in GoodVars(x)
  <2> DEFINE i == q.score[u]
             j == q.app[u]
             on == u \in OnStack(q.unsatVar)
  <2>1. i \in Int /\ j \in Nat /\ y.score[u] = (IF on THEN i + j ELSE i)
    BY <1>1, <1>2 DEF Ints
  <2>2. u \in good <=> (i > 0 /\ q.nvcc[u] = 1) \/ (on /\ y.score[u] > 0 /\ q.nvcc[u] = 1)
    BY DEF GoodVars, Gained
  <2>3. u \in GoodVars(x) <=> y.score[u] > 0 /\ q.nvcc[u] = 1
    BY DEF GoodVars
  <2> HIDE DEF i, j, on
  <2>4. QED  BY <2>1, <2>2, <2>3
<1>4. good \subseteq Vars /\ GoodVars(x) \subseteq Vars
  BY <1>1 DEF GoodVars, Gained
<1>5. QED  BY <1>3, <1>4

(* smooth_clause_weight_swt computes what the new weights give.            *)
LEMMA ScaledIs ==
  ASSUME PScale \in Nat \X (Nat \ {0}), NEW i \in Int
  PROVE  Scaled(i) \in Int
<1> DEFINE a == PScale[1]
           b == PScale[2]
<1>1. a \in Nat /\ b \in Nat /\ b > 0
  OBVIOUS
<1> HIDE DEF a, b
<1>2. i * a \in Int
  BY <1>1
<1>3. (i * a) \div b \in Int
  BY <1>1, <1>2
<1>4. QED  BY <1>3 DEF Scaled, a, b

LEMMA RecomputedIs ==
  ASSUME ClausesExact, VarsExact, NumClauses # 0, NEW q, NEW p, Right(q, p),
         NEW t, t \in FieldsType, Reweighed(t, q), Goods(t) = Goods(q), NEW x, x = Recomputed(t)
  PROVE  Right(x, p) /\ x.nvcc = q.nvcc /\ x.large = t.large
<1> DEFINE N == NumClauses
           sum == WeightOf(t, Clauses)
           U == UnsatOf(t.soln)
           none == { c \in Clauses : t.satCount[c] = 0 }
           f == [v \in Vars |-> InitMake(t)[v] - WeightOf(t, Broken(t, v))]
           m == sum \div N
           d == sum - m * N
<1>1. q \in FieldsType /\ CountsExact(q) /\ ScoresAre(q, p)
  BY DEF Right
<1>2. /\ t.weight \in [Clauses -> Int] /\ t.soln \in Solutions /\ t.satCount = Counting(t.soln)
      /\ NotedOne(t.soln, t.satVar)
  BY <1>1, CountsOfFields DEF CountsExact, Reweighed
<1>3. x = WithWeights(t, t.weight, WeightOf(t, none), f, m, d)
  <2>1. x = [t EXCEPT !.totalUnsat = WeightOf(t, none), !.score = f, !.avg = m, !.delta = d]
    BY DEF Recomputed
  <2> HIDE DEF none, f, m, d
  <2>2. QED  BY <2>1 DEF WithWeights, FieldsType
<1>4. none = U
  <2>1. ASSUME NEW c \in Clauses PROVE t.satCount[c] = 0 <=> Held(t.soln, c) = {}
    <3>1. IsFiniteSet(Held(t.soln, c)) /\ t.satCount[c] = Cardinality(Held(t.soln, c))
      BY <1>2, HeldIs DEF Counting
    <3>2. QED  BY <3>1, FS_EmptySet
  <2>2. QED  BY <2>1 DEF UnsatOf
<1>5. ASSUME NEW v \in Vars PROVE Broken(t, v) = Occurs(t, v, 1, TRUE)
  <2>1. Occurs(t, v, 1, TRUE) = { c \in Clauses : Held(t.soln, c) = {v} }
    BY <1>2, OccursIs
  <2>2. ASSUME NEW c \in Clauses
        PROVE  t.satCount[c] = 1 /\ t.satVar[c] = v <=> Held(t.soln, c) = {v}
    <3>1. t.satCount[c] = Cardinality(Held(t.soln, c))
      BY <1>2 DEF Counting
    <3>2. Held(t.soln, c) = {v} => Cardinality(Held(t.soln, c)) = 1
      BY FS_Singleton
    <3>3. Cardinality(Held(t.soln, c)) = 1 => Held(t.soln, c) = {t.satVar[c]}
      BY <1>2 DEF NotedOne
    <3>4. QED  BY <3>1, <3>2, <3>3
  <2>3. QED  BY <2>1, <2>2 DEF Broken
<1>6. f = InitScore(t) /\ f \in Ints
  <2>1. \A v \in Vars : InitBreak(t)[v] = WeightOf(t, Broken(t, v))
    BY <1>5 DEF InitBreak
  <2>2. f = InitScore(t)
    BY <2>1 DEF InitScore
  <2>3. QED  BY <2>2, InitScoreTypes
<1> HIDE DEF f
<1>7. f = Total(ScoreParts(t.soln, t.weight))
  BY <1>2, <1>6, InitIsTotal
<1>8. sum \in Int /\ WeightOf(t, U) \in Int /\ WeightOf(t, U) = SumFunctionOnSet(t.weight, U)
      /\ sum = SumFunctionOnSet(t.weight, Clauses)
  <2>1. U \in SUBSET Clauses /\ Clauses \in SUBSET Clauses
    BY DEF UnsatOf
  <2>2. QED  BY <1>2, <2>1, WeightIs
<1>9. N \in Nat /\ N > 0
  BY DEF ClausesExact
<1> HIDE DEF sum, N, U, none
<1>10. m \in Int /\ d \in Int /\ sum = m * N + d
  <2>1. m \in Int
    BY <1>8, <1>9
  <2> HIDE DEF m
  <2>2. m * N \in Int
    BY <1>9, <2>1
  <2>3. QED  BY <1>8, <2>1, <2>2
<1> HIDE DEF m, d
<1>11. /\ x \in FieldsType /\ Reweighed(x, t) /\ Goods(x) = Goods(t) /\ x.large = t.large
       /\ x.weight = t.weight /\ x.totalUnsat = WeightOf(t, U) /\ x.score = f /\ x.avg = m /\ x.delta = d
  BY <1>2, <1>3, <1>4, <1>6, <1>8, <1>10, WithWeightsIs
<1>12. Reweighed(x, q) /\ x.soln = t.soln /\ x.nvcc = q.nvcc
  BY <1>11 DEF Reweighed
<1>13. Averages(x)
  BY <1>8, <1>10, <1>11 DEF Averages, WeightOf, N
<1>14. CountsExact(x) /\ ScoresAre(x, p)
  BY <1>1, <1>7, <1>8, <1>11, <1>12, ReweighedKeeps DEF Right, U
<1>15. QED  BY <1>11, <1>12, <1>13, <1>14 DEF Right

LEMMA SmoothIs ==
  ASSUME ClausesExact, VarsExact, NumClauses # 0, PScale \in Nat \X (Nat \ {0}),
         NEW q, NEW p, Right(q, p), NEW x, x = Smooth(q)
  PROVE  Right(x, p) /\ x.nvcc = q.nvcc /\ x.large = q.large
<1> DEFINE w == [c \in Clauses |-> Scaled(q.weight[c])]
           t == [q EXCEPT !.weight = w]
<1>1. q \in FieldsType
  BY DEF Right
<1>2. /\ q.weight \in [Clauses -> Int] /\ q.totalUnsat \in Int /\ q.avg \in Int /\ q.delta \in Int
      /\ q.score \in Ints
  BY <1>1 DEF FieldsType
<1>3. w \in [Clauses -> Int]
  BY <1>2, ScaledIs
<1>4. x = Recomputed(t)
  BY DEF Smooth
<1> HIDE DEF w
<1>5. t = WithWeights(q, w, q.totalUnsat, q.score, q.avg, q.delta)
  BY <1>1 DEF WithWeights, FieldsType
<1> HIDE DEF t
<1>6. t \in FieldsType /\ Reweighed(t, q) /\ Goods(t) = Goods(q) /\ t.large = q.large
  BY <1>1, <1>2, <1>3, <1>5, WithWeightsIs
<1>7. QED  BY <1>4, <1>6, RecomputedIs

(* clause_weight_scheme_swt.                                               *)
LEMMA SwtIs ==
  ASSUME ClausesExact, VarsExact, NumClauses # 0, PScale \in Nat \X (Nat \ {0}),
         NEW q, NEW p, Right(q, p), NEW x, x = Swt(q)
  PROVE  /\ Right(x, p)
         /\ Range(q.good) = GoodVars(q) /\ ~MustSmooth(q) => Range(x.good) = GoodVars(x)
         /\ x.large = q.large
<1> DEFINE y == GainWeight(q)
           z == AddNewGood(y, q.unsatVar.stack)
           t == Averaged(z)
<1>1. Right(y, p) /\ Reweighed(y, q) /\ Goods(y) = Goods(q) /\ y.large = q.large
  BY GainWeightIs
<1>2. q.unsatVar.stack \in Seq(Vars) /\ Range(q.unsatVar.stack) = OnStack(q.unsatVar)
  BY UnsatIs DEF Right
<1>3. x = IF MustSmooth(q) THEN Smooth(t) ELSE t
  BY DEF Swt
<1> HIDE DEF y, z, t
<1>4. /\ Right(z, p) /\ Similar(z, y) /\ z.nvcc = y.nvcc /\ z.large = y.large
      /\ Range(z.good) = Range(y.good) \cup { v \in OnStack(q.unsatVar) : y.score[v] > 0 /\ y.nvcc[v] = 1 }
  BY <1>1, <1>2, AddNewGoodIs DEF z
<1>5. Right(t, p) /\ Reweighed(t, z) /\ Goods(t) = Goods(z) /\ t.score = z.score
      /\ t.large = z.large
  BY <1>4, AveragedIs DEF t
<1>6. MustSmooth(q) => Right(Smooth(t), p) /\ Smooth(t).large = t.large
  BY <1>5, SmoothIs
<1>7. t.score = y.score /\ t.nvcc = q.nvcc /\ y.nvcc = q.nvcc /\ t.good = z.good /\ y.good = q.good
  <2>1. \A a : Goods(a).good = a.good
    BY DEF Goods
  <2>2. QED  BY <1>1, <1>4, <1>5, <2>1 DEF Reweighed, Similar
<1>8. Range(q.good) = GoodVars(q) => Range(t.good) = GoodVars(t)
  <2> SUFFICES ASSUME Range(q.good) = GoodVars(q) PROVE Range(t.good) = GoodVars(t)
    OBVIOUS
  <2>1. Range(t.good) = Gained(q, y.score)
    BY <1>4, <1>7 DEF Gained
  <2>2. y = GainWeight(q)
    BY DEF y
  <2>3. Gained(q, y.score) = GoodVars(t)
    BY <1>5, <1>7, <2>2, GainedIs
  <2>4. QED  BY <2>1, <2>3
<1>9. QED  BY <1>1, <1>3, <1>4, <1>5, <1>6, <1>8

(* The clauses that paws notes have a weight above one, each once.         *)
Heavy(large, w) == IsInjective(large) /\ \A c \in Range(large) : w[c] >= 2

LEMMA EmptyHeavy ==
  ASSUME NEW l, l = <<>>, NEW w
  PROVE  Heavy(l, w)
<1>1. DOMAIN l = {} /\ Range(l) = {}
  BY DEF Range
<1>2. QED  BY <1>1 DEF Heavy, IsInjective

(* inc_clause_weight_paws.                                                 *)
WithLarge(q, l) == [q EXCEPT !.large = l]

LEMMA WithLargeIs ==
  ASSUME NEW q \in FieldsType, NEW l \in Seq(Clauses)
  PROVE  /\ WithLarge(q, l) \in FieldsType /\ Similar(WithLarge(q, l), q)
         /\ Goods(WithLarge(q, l)) = Goods(q) /\ WithLarge(q, l).nvcc = q.nvcc
         /\ WithLarge(q, l).large = l
<1> DEFINE x == WithLarge(q, l)
<1>1. x \in FieldsType
  BY DEF FieldsType, WithLarge
<1>2. /\ x.soln = q.soln /\ x.weight = q.weight /\ x.nvcc = q.nvcc /\ x.large = l
      /\ x.satCount = q.satCount /\ x.avg = q.avg /\ x.delta = q.delta
      /\ x.satVar = q.satVar /\ x.satVar2 = q.satVar2 /\ x.score = q.score /\ x.score2 = q.score2
      /\ x.breakScore = q.breakScore /\ x.makeScore = q.makeScore
      /\ x.unsat = q.unsat /\ x.unsatVar = q.unsatVar /\ x.app = q.app
      /\ x.totalUnsat = q.totalUnsat /\ x.good = q.good /\ x.inGood = q.inGood
  BY DEF FieldsType, WithLarge
<1> HIDE DEF x
<1>3. Counts(x) = Counts(q) /\ Goods(x) = Goods(q) /\ Similar(x, q)
  BY <1>2 DEF Counts, Goods, Similar
<1>4. QED  BY <1>1, <1>2, <1>3 DEF x

LEMMA SimilarRight ==
  ASSUME ClausesExact, VarsExact, NEW q, NEW p, Right(q, p), NEW x \in FieldsType, Similar(x, q),
         Goods(x) = Goods(q)
  PROVE  Right(x, p)
<1>1. q \in FieldsType /\ CountsExact(q) /\ ScoresAre(q, p) /\ Averages(q) /\ GoodsOk(Goods(q))
  BY DEF Right
<1>2. CountsExact(x) /\ ScoresAre(x, p) /\ Averages(x)
  BY <1>1, SimilarKeeps
<1>3. QED  BY <1>1, <1>2 DEF Right

LEMMA IncPawsIs ==
  ASSUME ClausesExact, VarsExact, NEW q, NEW p, Right(q, p), NEW x, x = IncPaws(q)
  PROVE  /\ Right(x, p)
         /\ Range(q.good) = GoodVars(q) => Range(x.good) = GoodVars(x)
         /\ Heavy(q.large, q.weight) => Heavy(x.large, x.weight)
<1> DEFINE y == GainWeight(q)
           t == Averaged(y)
           reached == Only(q.unsat.stack, { c \in Clauses : t.weight[c] = 2 })
           l == t.large \o reached
           t2 == [t EXCEPT !.large = l]
<1>1. x = AddNewGood(t2, q.unsatVar.stack)
  BY DEF IncPaws
<1> HIDE DEF y, t
<1>2. Right(y, p) /\ Reweighed(y, q) /\ Goods(y) = Goods(q) /\ y.large = q.large
      /\ \A c \in Clauses : y.weight[c] = IF c \in UnsatOf(q.soln) THEN q.weight[c] + 1 ELSE q.weight[c]
  BY GainWeightIs DEF y
<1>3. Right(t, p) /\ Reweighed(t, y) /\ Goods(t) = Goods(y) /\ t.score = y.score
      /\ t.weight = y.weight /\ t.large = y.large
  BY <1>2, AveragedIs DEF t
<1>4. /\ q.unsat.stack \in Seq(Clauses) /\ Range(q.unsat.stack) = UnsatOf(q.soln)
      /\ IsInjective(q.unsat.stack)
      /\ q.unsatVar.stack \in Seq(Vars) /\ Range(q.unsatVar.stack) = OnStack(q.unsatVar)
  BY UnsatIs DEF Right
<1>5. /\ reached \in Seq(Clauses) /\ IsInjective(reached)
      /\ Range(reached) = UnsatOf(q.soln) \cap { c \in Clauses : t.weight[c] = 2 }
  BY <1>4, OnlyIs
<1> HIDE DEF reached
<1>6. t \in FieldsType /\ t.large \in Seq(Clauses)
  BY <1>3 DEF Right, FieldsType
<1>7. l \in Seq(Clauses)
  BY <1>5, <1>6
<1>8. ASSUME Heavy(q.large, q.weight) PROVE Heavy(l, t.weight)
  <2> DEFINE a == t.large
             w == q.weight
             u == t.weight
  <2>1. a \in Seq(Clauses) /\ IsInjective(a) /\ \A c \in Range(a) : c \in Clauses /\ w[c] >= 2
    <3>1. \A c \in Range(a) : c \in Clauses
      BY <1>6 DEF Range
    <3>2. QED  BY <1>2, <1>3, <1>6, <1>8, <3>1 DEF Heavy
  <2>2. /\ \A c \in Clauses : w[c] \in Int
        /\ \A c \in Clauses : u[c] = IF c \in UnsatOf(q.soln) THEN w[c] + 1 ELSE w[c]
    BY <1>2, <1>3 DEF Right, FieldsType
  <2>3. l = a \o reached
    BY DEF l
  <2> HIDE DEF a, w, u, l
  <2>4. \A c \in Range(reached) : c \in Clauses /\ c \in UnsatOf(q.soln) /\ u[c] = 2
    BY <1>5 DEF u
  <2>5. Range(a) \cap Range(reached) = {}
    BY <2>1, <2>2, <2>4
  <2>6. IsInjective(l) /\ Range(l) = Range(a) \cup Range(reached)
    BY <1>5, <2>1, <2>3, <2>5, ListConcat
  <2>7. \A c \in Range(l) : u[c] >= 2
    BY <2>1, <2>2, <2>4, <2>6
  <2>8. QED  BY <2>6, <2>7 DEF Heavy, u
<1> HIDE DEF l
<1>9. t2 = WithLarge(t, l)
  BY DEF WithLarge
<1> HIDE DEF t2
<1>10. t2 \in FieldsType /\ Similar(t2, t) /\ Goods(t2) = Goods(t) /\ t2.nvcc = t.nvcc
      /\ t2.large = l
  BY <1>6, <1>7, <1>9, WithLargeIs
<1>11. Right(t2, p)
  BY <1>3, <1>10, SimilarRight
<1>12. /\ Right(x, p) /\ Similar(x, t2) /\ x.nvcc = t2.nvcc /\ x.large = t2.large
       /\ Range(x.good) = Range(t2.good) \cup { v \in OnStack(q.unsatVar) : t2.score[v] > 0 /\ t2.nvcc[v] = 1 }
  <2> DEFINE seq == q.unsatVar.stack
  <2>1. seq \in Seq(Vars) /\ Range(seq) = OnStack(q.unsatVar) /\ x = AddNewGood(t2, seq)
    BY <1>1, <1>4
  <2> HIDE DEF seq
  <2>2. /\ Right(x, p) /\ Similar(x, t2) /\ x.nvcc = t2.nvcc /\ x.large = t2.large
        /\ Range(x.good) = Range(t2.good) \cup { v \in Range(seq) : t2.score[v] > 0 /\ t2.nvcc[v] = 1 }
    BY <1>11, <2>1, AddNewGoodIs
  <2>3. QED  BY <2>1, <2>2
<1>13. t2.score = y.score /\ x.score = y.score /\ t2.nvcc = q.nvcc /\ x.nvcc = q.nvcc /\ t2.good = q.good
  <2>1. \A a : Goods(a).good = a.good
    BY DEF Goods
  <2>2. QED  BY <1>2, <1>3, <1>10, <1>12, <2>1 DEF Reweighed, Similar
<1>14. Range(q.good) = GoodVars(q) => Range(x.good) = GoodVars(x)
  <2> SUFFICES ASSUME Range(q.good) = GoodVars(q) PROVE Range(x.good) = GoodVars(x)
    OBVIOUS
  <2>1. Range(x.good) = Gained(q, y.score)
    BY <1>12, <1>13 DEF Gained
  <2>2. y = GainWeight(q)
    BY DEF y
  <2>3. Gained(q, y.score) = GoodVars(x)
    BY <1>12, <1>13, <2>2, GainedIs
  <2>4. QED  BY <2>1, <2>3
<1>15. x.weight = t.weight /\ x.large = l
  BY <1>10, <1>12 DEF Similar
<1>16. QED  BY <1>12, <1>14, <1>8, <1>15

(* dec_clause_weight_paws: what is noted while the clauses lose weight.    *)
NoteType ==
  [ weight : [Clauses -> Int], avg : Int, delta : Int, score : Ints, large : Seq(Clauses),
    at : Nat \ {0} ]

LowerOk(q, r) ==
  /\ r \in NoteType
  /\ \A c \in UnsatOf(q.soln) : r.weight[c] = q.weight[c]
  /\ r.score = Total(ScoreParts(q.soln, r.weight))
  /\ SumFunctionOnSet(r.weight, Clauses) = r.avg * NumClauses + r.delta
  /\ Heavy(r.large, r.weight)

Lessened(w, c) == [w EXCEPT ![c] = w[c] - 1]

Lighter(q, w, c, x, f) ==
  /\ x \in [Clauses -> Int] /\ c \notin UnsatOf(q.soln) /\ f \in Ints
  /\ SumFunctionOnSet(w, Clauses) \in Int
  /\ SumFunctionOnSet(x, Clauses) = SumFunctionOnSet(w, Clauses) - 1
  /\ q.satCount[c] = 1 => Plus(f, {q.satVar[c]}, 1) = Total(ScoreParts(q.soln, x))
  /\ q.satCount[c] # 1 => f = Total(ScoreParts(q.soln, x))

LEMMA LowerWeightIs ==
  ASSUME ClausesExact, VarsExact, NEW q \in FieldsType, CountsExact(q), NEW w \in [Clauses -> Int],
         NEW c \in Clauses, q.satCount[c] # 0, NEW x, x = Lessened(w, c),
         NEW f, f = Total(ScoreParts(q.soln, w))
  PROVE  Lighter(q, w, c, x, f)
<1> DEFINE H == Held(q.soln, c)
           po == ScoreParts(q.soln, w)
           pn == ScoreParts(q.soln, x)
           i == w[c]
<1>1. /\ q.soln \in Solutions /\ q.satCount = Counting(q.soln) /\ NotedOne(q.soln, q.satVar)
  BY CountsOfFields DEF CountsExact
<1>2. IsFiniteSet(H) /\ q.satCount[c] = Cardinality(H)
  BY <1>1, HeldIs DEF Counting
<1>3. H # {} /\ c \notin UnsatOf(q.soln)
  BY <1>2, FS_EmptySet DEF UnsatOf
<1>4. \A u : H = {u} <=> (q.satCount[c] = 1 /\ u = q.satVar[c])
  <2>1. q.satCount[c] = 1 => H = {q.satVar[c]}
    BY <1>1, <1>2 DEF NotedOne
  <2>2. \A u : H = {u} => q.satCount[c] = 1
    BY <1>2, FS_Singleton
  <2> HIDE DEF H
  <2>3. QED  BY <2>1, <2>2
<1>5. i \in Int /\ x[c] = i - 1 /\ x \in [Clauses -> Int] /\ \A d \in Clauses : d # c => x[d] = w[d]
  BY DEF Lessened
<1>6. po \in Parts /\ pn \in Parts
  BY <1>5, PartsType
<1>7. f \in Ints /\ Total(pn) \in Ints
  BY <1>6, TotalType
<1> DEFINE less == [d \in Clauses |-> IF d = c THEN -1 ELSE 0]
<1>8. /\ SumFunctionOnSet(w, Clauses) \in Int
      /\ SumFunctionOnSet(x, Clauses) = SumFunctionOnSet(w, Clauses) - 1
  <2>1. \A d \in Clauses : w[d] \in Int /\ less[d] \in Int /\ x[d] = w[d] + less[d]
    BY <1>5
  <2>2. (\A d \in Clauses : less[d] \in Int) /\ (\A d \in Clauses \ {c} : less[d] = 0) /\ less[c] = -1
    BY <2>1
  <2>3. SumFunctionOnSet(w, Clauses) \in Int
    BY <2>1, FiniteClauses, SumTakeOut
  <2> HIDE DEF less
  <2>4. SumFunctionOnSet(x, Clauses) = SumFunctionOnSet(w, Clauses) + SumFunctionOnSet(less, Clauses)
    BY <2>1, FiniteClauses, SumPlus
  <2>5. SumFunctionOnSet(less, Clauses) = -1
    <3>1. SumFunctionOnSet(less, Clauses) = IF c \in Clauses THEN less[c] ELSE 0
      BY <2>2, FiniteClauses, SumSingle
    <3>2. QED  BY <2>2, <3>1
  <2> DEFINE a == SumFunctionOnSet(w, Clauses)
             b == SumFunctionOnSet(x, Clauses)
             d == SumFunctionOnSet(less, Clauses)
  <2>6. a \in Int /\ b = a + d /\ d = -1
    BY <2>3, <2>4, <2>5
  <2> HIDE DEF a, b, d
  <2>7. b = a - 1
    BY <2>6
  <2>8. QED  BY <2>3, <2>7 DEF a, b
<1>9. ASSUME NEW u \in Vars
      PROVE  Total(pn)[u] = Total(po)[u] + (IF H = {u} THEN 1 ELSE 0)
  <2> DEFINE S == IF H = {u} THEN {c} ELSE {}
             e == [d \in Clauses |-> IF d \in S THEN 1 ELSE 0]
  <2>1. S \in SUBSET Clauses /\ \A d \in Clauses : e[d] = (IF d \in S THEN 1 ELSE 0) /\ e[d] \in Int
    OBVIOUS
  <2>2. ASSUME NEW d \in Clauses PROVE pn[u][d] = po[u][d] + e[d]
    <3> DEFINE mo == MakeParts(q.soln, w)[u][d]
               mn == MakeParts(q.soln, x)[u][d]
               bo == BreakParts(q.soln, w)[u][d]
               bn == BreakParts(q.soln, x)[u][d]
    <3>1. mo \in Int /\ bo \in Int
      BY DEF MakeParts, BreakParts
    <3>2. po[u][d] = mo - bo /\ pn[u][d] = mn - bn
      BY DEF ScoreParts
    <3>3. mn = mo
      BY <1>3, <1>5 DEF MakeParts
    <3>4. bn = bo - e[d]
      <4>1. CASE d = c /\ H = {u}
        <5>1. bo = i /\ bn = i - 1 /\ e[d] = 1
          BY <1>5, <4>1 DEF BreakParts
        <5> HIDE DEF bo, bn, e, i
        <5>2. QED  BY <1>5, <5>1
      <4>2. CASE ~(d = c /\ H = {u})
        <5>1. e[d] = 0
          BY <4>2
        <5>2. bn = bo
          BY <1>5, <4>2 DEF BreakParts
        <5> HIDE DEF bo, bn, e
        <5>3. QED  BY <3>1, <5>1, <5>2
      <4>3. QED  BY <4>1, <4>2
    <3>5. e[d] \in Int
      BY <2>1
    <3> HIDE DEF mo, mn, bo, bn, po, pn, e
    <3>6. mn - bn = (mo - bo) + e[d]
      BY <3>1, <3>3, <3>4, <3>5
    <3>7. QED  BY <3>2, <3>6
  <2> HIDE DEF e, po, pn
  <2>3. Total(pn)[u] = Total(po)[u] + SumFunctionOnSet(e, Clauses)
    BY <1>6, <2>1, <2>2, TotalPlus
  <2> HIDE DEF S
  <2>4. SumFunctionOnSet(e, Clauses) = Cardinality(S)
    BY <2>1, CountWhere
  <2>5. Cardinality(S) = IF H = {u} THEN 1 ELSE 0
    BY FS_EmptySet, FS_Singleton DEF S
  <2>6. QED  BY <2>3, <2>4, <2>5
<1>10. f = Total(po)
  OBVIOUS
<1> HIDE DEF po, pn, H
<1>11. ASSUME q.satCount[c] = 1 PROVE Plus(f, {q.satVar[c]}, 1) = Total(pn)
  <2> DEFINE g == Plus(f, {q.satVar[c]}, 1)
  <2>1. ASSUME NEW u \in Vars PROVE g[u] = Total(pn)[u] /\ g[u] \in Int
    <3> DEFINE j == f[u]
    <3>1. j \in Int /\ j = Total(po)[u]
      BY <1>7, <1>10 DEF Ints
    <3>2. g[u] = IF u = q.satVar[c] THEN j + 1 ELSE j
      BY <1>7 DEF Plus, Ints
    <3>3. Total(pn)[u] = j + (IF H = {u} THEN 1 ELSE 0)
      BY <1>9, <3>1
    <3>4. H = {u} <=> u = q.satVar[c]
      BY <1>4, <1>11
    <3> HIDE DEF g, j
    <3>5. QED  BY <3>1, <3>2, <3>3, <3>4
  <2>2. g \in [Vars -> Int]
    <3>1. DOMAIN f = Vars
      BY <1>7 DEF Ints
    <3>2. g = [u \in Vars |-> g[u]]
      BY <3>1 DEF Plus
    <3> HIDE DEF g
    <3>3. QED  BY <2>1, <3>2
  <2> HIDE DEF g
  <2>3. g = Total(pn)
    BY <1>7, <2>1, <2>2 DEF Ints
  <2>4. QED  BY <2>3 DEF g
<1>12. ASSUME q.satCount[c] # 1 PROVE f = Total(pn)
  <2>1. ASSUME NEW u \in Vars PROVE f[u] = Total(pn)[u]
    <3> DEFINE j == f[u]
    <3>1. j \in Int /\ j = Total(po)[u]
      BY <1>7, <1>10 DEF Ints
    <3>2. Total(pn)[u] = j + 0
      BY <1>4, <1>9, <1>12, <3>1
    <3> HIDE DEF j
    <3>3. Total(pn)[u] = j
      BY <3>1, <3>2
    <3>4. QED  BY <3>3 DEF j
  <2>2. QED  BY <1>7, <2>1 DEF Ints
<1>13. QED  BY <1>3, <1>5, <1>7, <1>8, <1>11, <1>12 DEF pn, Lighter

(* A list without its element i, which the last one replaces.              *)
LEMMA LowerNoteIs ==
  ASSUME ClausesExact, VarsExact, NEW q \in FieldsType, CountsExact(q),
         NEW r, LowerOk(q, r), r.at <= Len(r.large), NEW x, x = LowerNote(q, r)
  PROVE  /\ LowerOk(q, x)
         /\ Len(x.large) - x.at = Len(r.large) - r.at - 1
<1> DEFINE c == r.large[r.at]
           i == r.weight[c]
           rest == IF i > 1 THEN i - 1 ELSE 1
           less == (r.delta - i) + rest
           w == [r.weight EXCEPT ![c] = i - 1]
           m == IF r.delta - 1 < 0 THEN r.avg - 1 ELSE r.avg
           d == IF r.delta - 1 < 0 THEN (r.delta - 1) + NumClauses ELSE r.delta - 1
           f == IF q.satCount[c] = 1 THEN Plus(r.score, {q.satVar[c]}, 1) ELSE r.score
           t == [r EXCEPT !.weight = w, !.avg = m, !.delta = d, !.score = f]
           l == SwappedOut(r.large, r.at)
           N == NumClauses
           sum == SumFunctionOnSet(r.weight, Clauses)
<1>1. /\ r \in NoteType /\ r.weight \in [Clauses -> Int] /\ r.avg \in Int /\ r.delta \in Int
      /\ r.score \in Ints /\ r.large \in Seq(Clauses) /\ r.at \in Nat \ {0}
      /\ r.score = Total(ScoreParts(q.soln, r.weight))
      /\ sum = r.avg * N + r.delta
      /\ \A a \in UnsatOf(q.soln) : r.weight[a] = q.weight[a]
  BY DEF LowerOk, NoteType
<1>2. Len(r.large) \in Nat /\ r.at \in 1 .. Len(r.large) /\ c \in Clauses /\ N \in Nat
  BY <1>1 DEF ClausesExact
<1>3. IsInjective(r.large) /\ (\A a \in Range(r.large) : r.weight[a] >= 2) /\ c \in Range(r.large)
  BY <1>1, <1>2 DEF LowerOk, Heavy, Range
<1>4. i \in Int /\ i >= 2 /\ i - 1 \in Int
  BY <1>1, <1>2, <1>3
<1>5. CASE q.satCount[c] = 0
  <2>1. x = [r EXCEPT !.at = r.at + 1] /\ r.at + 1 \in Nat \ {0}
    BY <1>1, <1>5 DEF LowerNote
  <2> HIDE DEF c, i, rest, less, w, m, d, f, t, l, N, sum
  <2>2. /\ x \in NoteType /\ x.weight = r.weight /\ x.avg = r.avg /\ x.delta = r.delta
        /\ x.score = r.score /\ x.large = r.large /\ x.at = r.at + 1
    BY <1>1, <2>1 DEF NoteType
  <2>3. LowerOk(q, x)
    BY <1>1, <2>2 DEF LowerOk
  <2>4. Len(x.large) - x.at = Len(r.large) - r.at - 1
    BY <1>1, <1>2, <2>2
  <2>5. QED  BY <2>3, <2>4
<1>6. CASE q.satCount[c] # 0
  <2>1. rest = i - 1 /\ less = r.delta - 1
    <3> DEFINE j == r.delta
    <3>1. j \in Int
      BY <1>1
    <3> HIDE DEF i, j
    <3>2. rest = i - 1
      BY <1>4
    <3> HIDE DEF rest
    <3>3. (j - i) + rest = j - 1
      BY <1>4, <3>1, <3>2
    <3>4. QED  BY <3>2, <3>3 DEF j
  <2>2. x = IF i - 1 = 1 THEN [t EXCEPT !.large = l] ELSE [t EXCEPT !.at = r.at + 1]
    <3> DEFINE y == [r EXCEPT !.weight[c] = rest,
                              !.avg   = IF less < 0 THEN @ - 1 ELSE @,
                              !.delta = IF less < 0 THEN less + N ELSE less,
                              !.score = IF q.satCount[c] = 1 THEN Plus(@, {q.satVar[c]}, 1) ELSE @]
    <3>1. x = IF rest = 1
              THEN [y EXCEPT !.large = Front([@ EXCEPT ![r.at] = Last(r.large)])]
              ELSE [y EXCEPT !.at = @ + 1]
      BY <1>6 DEF LowerNote
    <3>2. y = t
      <4> HIDE DEF rest, less, c, i
      <4>1. QED  BY <1>1, <2>1 DEF NoteType
    <3>3. t.large = r.large /\ t.at = r.at
      BY <1>1 DEF NoteType
    <3> HIDE DEF y, t, rest, i
    <3>4. QED  BY <2>1, <3>1, <3>2, <3>3 DEF SwappedOut
  <2>3. /\ w \in [Clauses -> Int] /\ c \notin UnsatOf(q.soln)
        /\ w[c] = i - 1 /\ \A a \in Clauses : a # c => w[a] = r.weight[a]
        /\ sum \in Int /\ SumFunctionOnSet(w, Clauses) = sum - 1
        /\ q.satCount[c] = 1 => Plus(r.score, {q.satVar[c]}, 1) = Total(ScoreParts(q.soln, w))
        /\ q.satCount[c] # 1 => r.score = Total(ScoreParts(q.soln, w))
    <3> HIDE DEF t, l, sum, m, d, f, rest, less
    <3> DEFINE v == r.weight
               e == c
               h == r.score
    <3>1. v \in [Clauses -> Int] /\ w = Lessened(v, e) /\ e \in Clauses /\ q.satCount[e] # 0
          /\ h = Total(ScoreParts(q.soln, v)) /\ v[e] = i
      BY <1>1, <1>2, <1>6 DEF Lessened
    <3> HIDE DEF v, e, h, i, w
    <3>2. Lighter(q, v, e, w, h)
      BY <3>1, LowerWeightIs
    <3>3. /\ w \in [Clauses -> Int] /\ e \notin UnsatOf(q.soln)
          /\ SumFunctionOnSet(v, Clauses) \in Int
          /\ SumFunctionOnSet(w, Clauses) = SumFunctionOnSet(v, Clauses) - 1
          /\ q.satCount[e] = 1 => Plus(h, {q.satVar[e]}, 1) = Total(ScoreParts(q.soln, w))
          /\ q.satCount[e] # 1 => h = Total(ScoreParts(q.soln, w))
      BY <3>2 DEF Lighter
    <3>4. w[e] = i - 1 /\ \A a \in Clauses : a # e => w[a] = v[a]
      BY <3>1 DEF Lessened
    <3>5. QED  BY <3>3, <3>4 DEF v, e, h, sum
  <2> HIDE DEF w, l, sum, rest, less, i
  <2>4. f = Total(ScoreParts(q.soln, w)) /\ f \in Ints
    <3>1. ScoreParts(q.soln, w) \in Parts
      BY <2>3, PartsType
    <3>2. Total(ScoreParts(q.soln, w)) \in Ints
      BY <3>1, TotalType
    <3>3. QED  BY <2>3, <3>2
  <2>5. m \in Int /\ d \in Int /\ sum - 1 = m * N + d
    <3> DEFINE a == r.avg
               j == r.delta
    <3>1. a \in Int /\ j \in Int /\ N \in Nat /\ sum = a * N + j
      BY <1>1, <1>2
    <3> HIDE DEF N
    <3>2. CASE j - 1 < 0
      <4>1. m = a - 1 /\ d = (j - 1) + N
        BY <3>2 DEF N
      <4> HIDE DEF m, d, a, j
      <4>2. QED  BY <3>1, <3>2, <4>1
    <3>3. CASE ~(j - 1 < 0)
      <4>1. m = a /\ d = j - 1
        BY <3>3
      <4> HIDE DEF m, d, a, j
      <4>2. a * N \in Int
        BY <3>1
      <4>3. QED  BY <2>3, <3>1, <4>1, <4>2
    <3>4. QED  BY <3>2, <3>3
  <2>6. /\ l \in Seq(Clauses) /\ Len(l) = Len(r.large) - 1
        /\ IsInjective(l) /\ Range(l) = Range(r.large) \ {c}
    <3> DEFINE list == r.large
               k == r.at
    <3>1. list \in Seq(Clauses) /\ k \in 1 .. Len(list) /\ IsInjective(list)
      BY <1>1, <1>2, <1>3
    <3> HIDE DEF list, k
    <3>2. /\ SwappedOut(list, k) \in Seq(Clauses) /\ Len(SwappedOut(list, k)) = Len(list) - 1
          /\ IsInjective(SwappedOut(list, k)) /\ Range(SwappedOut(list, k)) = Range(list) \ {list[k]}
      BY <3>1, SwappedOutIs
    <3>3. QED  BY <3>2 DEF list, k, l
  <2> HIDE DEF m, d, f, c
  <2>7. /\ t \in NoteType /\ t.weight = w /\ t.avg = m /\ t.delta = d /\ t.score = f
        /\ t.large = r.large /\ t.at = r.at
    BY <1>1, <2>3, <2>4, <2>5 DEF NoteType
  <2> HIDE DEF t
  <2>8. /\ x \in NoteType /\ x.weight = w /\ x.avg = m /\ x.delta = d /\ x.score = f
        /\ \/ x.large = r.large /\ x.at = r.at + 1 /\ i - 1 # 1
           \/ x.large = l /\ x.at = r.at
    <3>1. CASE i - 1 = 1
      <4>1. x = [t EXCEPT !.large = l]
        BY <2>2, <3>1
      <4>2. QED  BY <2>6, <2>7, <4>1 DEF NoteType
    <3>2. CASE i - 1 # 1
      <4>1. x = [t EXCEPT !.at = r.at + 1] /\ r.at + 1 \in Nat \ {0}
        BY <1>1, <2>2, <3>2
      <4>2. QED  BY <2>7, <3>2, <4>1 DEF NoteType
    <3>3. QED  BY <3>1, <3>2
  <2>9. \A a \in UnsatOf(q.soln) : x.weight[a] = q.weight[a]
    BY <1>1, <2>3, <2>8 DEF UnsatOf
  <2>10. Heavy(x.large, x.weight)
    <3>1. \A a \in Range(r.large) : a \in Clauses
      BY <1>1 DEF Range
    <3>2. CASE x.large = l
      <4>1. \A a \in Range(l) : w[a] >= 2
        BY <1>3, <2>3, <2>6, <3>1
      <4>2. QED  BY <2>6, <2>8, <3>2, <4>1 DEF Heavy
    <3>3. CASE x.large = r.large /\ i - 1 # 1
      <4>1. i - 1 >= 2
        BY <1>4, <3>3
      <4>2. \A a \in Range(r.large) : w[a] >= 2
        BY <1>3, <2>3, <3>1, <4>1
      <4>3. QED  BY <1>3, <2>8, <3>3, <4>2 DEF Heavy
    <3>4. QED  BY <2>8, <3>2, <3>3
  <2>11. LowerOk(q, x)
    BY <2>3, <2>4, <2>5, <2>8, <2>9, <2>10 DEF LowerOk
  <2>12. Len(x.large) - x.at = Len(r.large) - r.at - 1
    <3> DEFINE n == Len(r.large)
               k == r.at
    <3>1. n \in Nat /\ k \in Nat
      BY <1>1, <1>2
    <3>2. \/ Len(x.large) = n /\ x.at = k + 1
          \/ Len(x.large) = n - 1 /\ x.at = k
      BY <2>6, <2>8
    <3> HIDE DEF n, k
    <3>3. Len(x.large) - x.at = n - k - 1
      BY <3>1, <3>2
    <3>4. QED  BY <3>3 DEF n, k
  <2>13. QED  BY <2>11, <2>12
<1>7. QED  BY <1>5, <1>6

LoweredAll(q, first, seq) == Loop(LAMBDA r, c : LowerNote(q, r), first, seq)

LEMMA LoweredIs ==
  ASSUME ClausesExact, VarsExact, NEW q \in FieldsType, CountsExact(q),
         NEW first, LowerOk(q, first), first.at = 1, NEW seq, seq = first.large
  PROVE  LowerOk(q, LoweredAll(q, first, seq))
<1> DEFINE m == Len(seq)
           Part(k, x) == LowerOk(q, x) /\ Len(x.large) - x.at = m - 1 - k
           X == [k \in 0 .. m |-> { x \in NoteType : Part(k, x) }]
           turn == [k \in 1 .. m |-> [x \in X[k - 1] |-> LowerNote(q, x)]]
           Is(g) == g = [k \in 0 .. m |-> IF k = 0 THEN first ELSE LowerNote(q, g[k - 1])]
           run == CHOOSE g : Is(g)
<1>1. m \in Nat
  BY DEF LowerOk, NoteType
<1>2. LoweredAll(q, first, seq) = run[m]
  BY DEF LoweredAll, Loop
<1> HIDE DEF m, Part
<1>3. \A k \in 0 .. m : \A x : x \in X[k] <=> x \in NoteType /\ Part(k, x)
  OBVIOUS
<1> HIDE DEF X
<1>4. \A k : \A x : Part(k, x) => x \in NoteType
  BY DEF Part, LowerOk
<1>5. first \in X[0]
  <2>1. Part(0, first)
    BY <1>1 DEF Part, m
  <2>2. 0 \in 0 .. m
    BY <1>1
  <2>3. QED  BY <1>3, <1>4, <2>1, <2>2
<1>6. ASSUME NEW k \in 1 .. m, NEW x \in X[k - 1] PROVE LowerNote(q, x) \in X[k]
  <2>1. k - 1 \in 0 .. m /\ k \in 0 .. m /\ k \in Nat /\ k <= m
    BY <1>1
  <2>2. LowerOk(q, x) /\ Len(x.large) - x.at = m - 1 - (k - 1)
    BY <1>3, <2>1 DEF Part
  <2>3. x.at \in Nat /\ Len(x.large) \in Nat
    BY <2>2 DEF LowerOk, NoteType
  <2>4. x.at <= Len(x.large)
    BY <1>1, <2>1, <2>2, <2>3
  <2> DEFINE y == LowerNote(q, x)
  <2>5. y = LowerNote(q, x)
    OBVIOUS
  <2> HIDE DEF y
  <2>6. LowerOk(q, y) /\ Len(y.large) - y.at = Len(x.large) - x.at - 1
    BY <2>2, <2>4, <2>5, LowerNoteIs
  <2>7. Len(y.large) - y.at = m - 1 - k
    BY <1>1, <2>1, <2>2, <2>3, <2>6
  <2>8. Part(k, y)
    BY <2>6, <2>7 DEF Part
  <2>9. QED  BY <1>3, <1>4, <2>1, <2>8 DEF y
<1>7. \A k \in 1 .. m : \A x \in X[k - 1] : turn[k][x] \in X[k] /\ turn[k][x] = LowerNote(q, x)
  BY <1>6
<1> HIDE DEF turn, Is
<1>8. PICK g : Turns(g, m, first, turn) /\ \A k \in 0 .. m : g[k] \in X[k]
  <2>1. \A k \in 1 .. m : \A x \in X[k - 1] : turn[k][x] \in X[k]
    BY <1>7
  <2>2. m \in Nat
    BY <1>1
  <2>3. QED  BY <1>5, <2>1, <2>2, Stepwise
<1>9. Is(g)
  <2>1. \A k \in 1 .. m : k - 1 \in 0 .. m /\ k \in 0 .. m /\ k # 0
    BY <1>1
  <2>2. \A k \in 1 .. m : g[k] = LowerNote(q, g[k - 1])
    BY <1>7, <1>8, <2>1 DEF Turns
  <2>3. DOMAIN g = 0 .. m /\ g = [k \in DOMAIN g |-> g[k]]
    BY <1>8 DEF Turns
  <2>4. g[0] = first /\ \A k \in 0 .. m : k # 0 => k \in 1 .. m
    BY <1>1, <1>8 DEF Turns
  <2>5. QED  BY <2>2, <2>3, <2>4 DEF Is
<1>10. Is(run)
  BY <1>9
<1> HIDE DEF run
<1>11. run[m] \in X[m]
  <2>1. run[0] \in X[0]
    BY <1>1, <1>5, <1>10 DEF Is
  <2>2. ASSUME NEW k \in 1 .. m, run[k - 1] \in X[k - 1] PROVE run[k] \in X[k]
    <3>1. k \in 0 .. m /\ k # 0
      BY <1>1
    <3>2. run[k] = LowerNote(q, run[k - 1])
      BY <1>10, <3>1 DEF Is
    <3>3. QED  BY <1>7, <2>2, <3>2
  <2>3. QED  BY <1>1, <2>1, <2>2, RunStays
<1>12. m \in 0 .. m
  BY <1>1
<1>13. QED  BY <1>2, <1>3, <1>11, <1>12 DEF Part

LEMMA DecPawsIs ==
  ASSUME ClausesExact, VarsExact, NEW q, NEW p, Right(q, p), Heavy(q.large, q.weight), NEW x, x = DecPaws(q)
  PROVE  Right(x, p) /\ Heavy(x.large, x.weight)
<1> DEFINE first == [ weight |-> q.weight, avg |-> q.avg, delta |-> q.delta, score |-> q.score,
                      large |-> q.large, at |-> 1 ]
           last == Lowered(q)
           low == [q EXCEPT !.weight = last.weight, !.avg = last.avg, !.delta = last.delta,
                            !.score = last.score, !.large = last.large]
           S == { c \in Clauses : low.satCount[c] = 1 }
           ones == Only(low.large, S)
           seq == [i \in DOMAIN ones |-> low.satVar[ones[i]]]
<1>1. q \in FieldsType /\ CountsExact(q) /\ ScoresAre(q, p) /\ Averages(q)
  BY DEF Right
<1>2. x = AddNewGood(low, seq)
  BY DEF DecPaws
<1>3. /\ q.weight \in [Clauses -> Int] /\ q.totalUnsat \in Int /\ q.avg \in Int /\ q.delta \in Int
      /\ q.score \in Ints /\ q.large \in Seq(Clauses) /\ q.satVar \in [Clauses -> 0 .. NumVars]
      /\ q.soln \in Solutions
  BY <1>1 DEF FieldsType
<1>4. LowerOk(q, first) /\ first.at = 1 /\ first.large = q.large
  <2>1. q.score = Total(ScoreParts(q.soln, q.weight))
    BY <1>1, InitIsTotal DEF ScoresAre, CountsExact
  <2>2. first \in NoteType
    BY <1>3 DEF NoteType
  <2>3. SumFunctionOnSet(q.weight, Clauses) = q.avg * NumClauses + q.delta
    BY <1>1 DEF Averages, WeightOf
  <2>4. QED  BY <2>1, <2>2, <2>3 DEF LowerOk
<1>5. LowerOk(q, last)
  <2>1. last = LoweredAll(q, first, q.large)
    BY DEF Lowered, LoweredAll
  <2> HIDE DEF first, last
  <2>2. LowerOk(q, LoweredAll(q, first, q.large))
    BY <1>1, <1>4, LoweredIs
  <2>3. QED  BY <2>1, <2>2
<1> HIDE DEF first, last, S
<1>6. /\ last.weight \in [Clauses -> Int] /\ last.avg \in Int /\ last.delta \in Int
      /\ last.score \in Ints /\ last.large \in Seq(Clauses)
      /\ last.score = Total(ScoreParts(q.soln, last.weight))
      /\ SumFunctionOnSet(last.weight, Clauses) = last.avg * NumClauses + last.delta
      /\ \A c \in UnsatOf(q.soln) : last.weight[c] = q.weight[c]
      /\ Heavy(last.large, last.weight)
  BY <1>5 DEF LowerOk, NoteType
<1> DEFINE t == WithWeights(q, last.weight, q.totalUnsat, last.score, last.avg, last.delta)
<1>7. /\ t \in FieldsType /\ Reweighed(t, q) /\ Goods(t) = Goods(q)
      /\ t.weight = last.weight /\ t.totalUnsat = q.totalUnsat /\ t.score = last.score
      /\ t.avg = last.avg /\ t.delta = last.delta
  <2> DEFINE w == last.weight
             f == last.score
             m == last.avg
             d == last.delta
             total == q.totalUnsat
  <2>1. w \in [Clauses -> Int] /\ f \in Ints /\ m \in Int /\ d \in Int /\ total \in Int
    BY <1>3, <1>6
  <2> HIDE DEF w, f, m, d, total
  <2>2. t = WithWeights(q, w, total, f, m, d)
    BY DEF w, f, m, d, total
  <2> HIDE DEF t
  <2>3. /\ t \in FieldsType /\ Reweighed(t, q) /\ Goods(t) = Goods(q)
        /\ t.weight = w /\ t.totalUnsat = total /\ t.score = f /\ t.avg = m /\ t.delta = d
    BY <1>1, <2>1, <2>2, WithWeightsIs
  <2>4. QED  BY <2>3 DEF w, f, m, d, total
<1>8. low = WithLarge(t, last.large)
  BY <1>1 DEF WithLarge, WithWeights, FieldsType
<1> HIDE DEF t, low
<1>9. low \in FieldsType /\ Similar(low, t) /\ Goods(low) = Goods(t) /\ low.large = last.large
  BY <1>6, <1>7, <1>8, WithLargeIs
<1>10. Right(t, p)
  <2>1. t.soln = q.soln
    BY <1>7 DEF Reweighed
  <2>2. t.totalUnsat = SumFunctionOnSet(t.weight, UnsatOf(t.soln))
    <3> DEFINE U == UnsatOf(q.soln)
               v == q.weight
               w == last.weight
    <3>1. IsFiniteSet(U) /\ q.totalUnsat = SumFunctionOnSet(v, U) /\ U \subseteq Clauses
      BY <1>1, UnsatIs
    <3>2. \A c \in U : v[c] \in Int /\ w[c] = v[c]
      BY <1>3, <1>6, <3>1
    <3> HIDE DEF U, v, w
    <3>3. SumFunctionOnSet(w, U) = SumFunctionOnSet(v, U)
      BY <3>1, <3>2, SumSame
    <3>4. QED  BY <1>7, <2>1, <3>1, <3>3 DEF U, w
  <2>3. Averages(t)
    BY <1>6, <1>7 DEF Averages, WeightOf
  <2>4. CountsExact(t) /\ ScoresAre(t, p)
    BY <1>1, <1>6, <1>7, <2>1, <2>2, ReweighedKeeps DEF Right
  <2>5. QED  BY <1>7, <2>3, <2>4 DEF Right
<1>11. Right(low, p)
  BY <1>9, <1>10, SimilarRight
<1>12. low.large \in Seq(Clauses) /\ low.satVar \in [Clauses -> 0 .. NumVars]
       /\ low.satCount = Counting(low.soln) /\ NotedOne(low.soln, low.satVar) /\ low.soln \in Solutions
  BY <1>11 DEF Right, CountsExact, FieldsType
<1>13. ones \in Seq(Clauses) /\ Range(ones) \subseteq S
  BY <1>12, OnlyIs
<1> HIDE DEF ones
<1>14. \A c \in S : c \in Clauses => low.satVar[c] \in Vars
  <2>1. ASSUME NEW c \in S, c \in Clauses PROVE low.satVar[c] \in Vars
    <3>1. Cardinality(Held(low.soln, c)) = 1
      BY <1>12, <2>1 DEF S, Counting
    <3>2. low.satVar[c] \in Held(low.soln, c)
      BY <1>12, <2>1, <3>1 DEF NotedOne
    <3>3. Held(low.soln, c) \subseteq Vars
      BY <1>12, <2>1, HeldIs
    <3>4. QED  BY <3>2, <3>3
  <2>2. QED  BY <2>1
<1>15. seq \in Seq(Vars)
  <2>1. DOMAIN ones = 1 .. Len(ones) /\ Len(ones) \in Nat /\ \A i \in 1 .. Len(ones) : ones[i] \in Clauses /\ ones[i] \in S
    BY <1>13 DEF Range
  <2>2. \A i \in 1 .. Len(ones) : low.satVar[ones[i]] \in Vars
    BY <1>14, <2>1
  <2>3. QED  BY <2>1, <2>2
<1> HIDE DEF seq
<1>16. Right(x, p) /\ Similar(x, low) /\ x.large = low.large
  BY <1>2, <1>11, <1>15, AddNewGoodIs
<1>17. x.large = last.large /\ x.weight = last.weight
  BY <1>7, <1>9, <1>16 DEF Similar
<1>18. QED  BY <1>6, <1>16, <1>17

-----------------------------------------------------------------------------
(* What is picked is a variable of the list that it is picked from.        *)
LEMMA LeaderIn ==
  ASSUME NEW S, NEW seq \in Seq(S), seq # <<>>, NEW how
  PROVE  Leader(seq, how) \in Range(seq)
<1> DEFINE rest == Tail(seq)
           m == Len(rest)
           first == seq[1]
           R == Range(seq)
           X == [k \in 0 .. m |-> R]
           turn == [k \in 1 .. m |-> [x \in X[k - 1] |-> Winner(how, x, rest[k])]]
           Is(g) == g = [k \in 0 .. m |-> IF k = 0 THEN first ELSE Winner(how, g[k - 1], rest[k])]
           run == CHOOSE g : Is(g)
<1>1. m \in Nat /\ first \in R /\ \A k \in 1 .. m : rest[k] \in R
  <2>1. Len(seq) \in Nat /\ Len(seq) # 0 /\ DOMAIN seq = 1 .. Len(seq)
    OBVIOUS
  <2>2. m = Len(seq) - 1 /\ \A k \in 1 .. m : rest[k] = seq[k + 1]
    BY <2>1
  <2> HIDE DEF m, rest
  <2>3. \A k \in 1 .. m : k + 1 \in DOMAIN seq
    BY <2>1, <2>2
  <2>4. ASSUME NEW k \in 1 .. m PROVE rest[k] \in R
    <3>1. rest[k] = seq[k + 1] /\ k + 1 \in DOMAIN seq
      BY <2>2, <2>3
    <3>2. QED  BY <3>1 DEF Range
  <2>5. first \in R
    <3>1. 1 \in DOMAIN seq
      BY <2>1
    <3>2. QED  BY <3>1 DEF Range
  <2>6. m \in Nat
    BY <2>1, <2>2
  <2> HIDE DEF R, first
  <2>7. QED  BY <2>4, <2>5, <2>6
<1>2. Leader(seq, how) = run[m]
  BY DEF Leader, Loop
<1> HIDE DEF m, R, rest, first
<1>3. \A k \in 0 .. m : \A x : x \in X[k] <=> x \in R
  OBVIOUS
<1> HIDE DEF X
<1>4. first \in X[0]
  <2>1. 0 \in 0 .. m
    BY <1>1
  <2>2. QED  BY <1>1, <1>3, <2>1
<1>5. ASSUME NEW k \in 1 .. m, NEW x \in X[k - 1]
      PROVE  Winner(how, x, rest[k]) \in X[k]
  <2>1. k - 1 \in 0 .. m /\ k \in 0 .. m
    BY <1>1
  <2>2. x \in R /\ rest[k] \in R
    BY <1>1, <1>3, <2>1
  <2>3. Winner(how, x, rest[k]) \in R
    BY <2>2 DEF Winner
  <2>4. QED  BY <1>3, <2>1, <2>3
<1>6. \A k \in 1 .. m : \A x \in X[k - 1] : turn[k][x] \in X[k] /\ turn[k][x] = Winner(how, x, rest[k])
  BY <1>5
<1> HIDE DEF turn, Is
<1>7. PICK g : Turns(g, m, first, turn) /\ \A k \in 0 .. m : g[k] \in X[k]
  <2>1. \A k \in 1 .. m : \A x \in X[k - 1] : turn[k][x] \in X[k]
    BY <1>6
  <2>2. m \in Nat
    BY <1>1
  <2>3. QED  BY <1>4, <2>1, <2>2, Stepwise
<1>8. Is(g)
  <2>1. \A k \in 1 .. m : k - 1 \in 0 .. m /\ k \in 0 .. m /\ k # 0
    BY <1>1
  <2>2. \A k \in 1 .. m : g[k] = Winner(how, g[k - 1], rest[k])
    BY <1>6, <1>7, <2>1 DEF Turns
  <2>3. DOMAIN g = 0 .. m /\ g = [k \in DOMAIN g |-> g[k]]
    BY <1>7 DEF Turns
  <2>4. g[0] = first /\ \A k \in 0 .. m : k # 0 => k \in 1 .. m
    BY <1>1, <1>7 DEF Turns
  <2>5. QED  BY <2>2, <2>3, <2>4 DEF Is
<1>9. Is(run)
  BY <1>8
<1> HIDE DEF run
<1>10. run[m] \in X[m]
  <2>1. run[0] \in X[0]
    BY <1>1, <1>4, <1>9 DEF Is
  <2>2. ASSUME NEW k \in 1 .. m, run[k - 1] \in X[k - 1] PROVE run[k] \in X[k]
    <3>1. k \in 0 .. m /\ k # 0
      BY <1>1
    <3>2. run[k] = Winner(how, run[k - 1], rest[k])
      BY <1>9, <3>1 DEF Is
    <3>3. QED  BY <1>6, <2>2, <3>2
  <2>3. QED  BY <1>1, <2>1, <2>2, RunStays
<1>11. m \in 0 .. m
  BY <1>1
<1>12. QED  BY <1>2, <1>3, <1>10, <1>11 DEF R

LEMMA TieBreakIn ==
  ASSUME IsSettings(settings), NEW S, NEW seq \in Seq(S), seq # <<>>
  PROVE  TieBreak(seq) \subseteq Range(seq)
<1> DEFINE how == settings.tie
<1>1. how \in {"random", "priority", "age", "hscore", "hscore2"}
  BY DEF IsSettings
<1> HIDE DEF how
<1>2. Leader(seq, how) \in Range(seq)
  BY LeaderIn
<1>3. QED  BY <1>1, <1>2 DEF TieBreak, how

LEMMA NoveltyIn ==
  ASSUME NEW S, NEW seq \in Seq(S), seq # <<>>
  PROVE  Novelty(seq) \subseteq Range(seq)
<1> DEFINE how == "score"
           best == Leader(seq, how)
           other == Range(seq) \ {best}
           rest == Only(seq, other)
<1>1. best \in Range(seq)
  BY LeaderIn
<1> HIDE DEF best, other
<1>2. rest \in Seq(S) /\ Range(rest) \subseteq Range(seq)
  BY OnlyIs
<1>3. rest # <<>> => Leader(rest, how) \in Range(rest)
  <2> HIDE DEF rest
  <2>1. QED  BY <1>2, LeaderIn
<1>4. QED  BY <1>1, <1>2, <1>3 DEF Novelty, best, other

LEMMA SelectVarIn ==
  ASSUME ClausesExact, IsSettings(settings), NEW c \in Clauses
  PROVE  SelectVar(c) \subseteq Vars
<1> DEFINE seq == VarsOfClause(c)
           how == settings.varDiv
<1>1. how \in {"random", "priority", "score", "age", "novelty", "sparrow", "probsat", "hscore", "hscore2"}
  BY DEF IsSettings
<1>2. seq \in Seq(Vars) /\ Len(seq) \in Nat \ {0}
  BY DEF ClausesExact
<1> HIDE DEF seq, how
<1>3. seq # <<>> /\ Range(seq) \subseteq Vars
  BY <1>2 DEF Range
<1>4. Leader(seq, how) \in Range(seq) /\ Novelty(seq) \subseteq Range(seq)
  BY <1>2, <1>3, LeaderIn, NoveltyIn
<1>5. SelectVar(c) \subseteq Range(seq)
  <2>1. CASE how \in {"random", "sparrow", "probsat"}
    BY <2>1 DEF SelectVar, seq, how
  <2>2. CASE how = "priority"
    BY <2>2 DEF SelectVar, seq, how
  <2>3. CASE how = "novelty"
    BY <1>4, <2>3 DEF SelectVar, seq, how
  <2>4. CASE how \in {"score", "age", "hscore", "hscore2"}
    BY <1>4, <2>4 DEF SelectVar, seq, how
  <2>5. QED  BY <1>1, <2>1, <2>2, <2>3, <2>4
<1>6. QED  BY <1>3, <1>5

LEMMA HighestIn ==
  ASSUME IsSettings(settings), NEW S, NEW seq \in Seq(S), NEW bar
  PROVE  Highest(seq, bar) \subseteq Range(seq)
<1> DEFINE best == { v \in Range(seq) : \A w \in Range(seq) : s.score[w] <= s.score[v] }
           high == Only(seq, best)
<1>1. Highest(seq, bar) = IF high # <<>> /\ s.score[high[1]] > bar THEN TieBreak(high) ELSE {}
  BY DEF Highest
<1> HIDE DEF best
<1>2. high \in Seq(S) /\ Range(high) \subseteq Range(seq)
  BY OnlyIs
<1> HIDE DEF high
<1>3. high # <<>> => TieBreak(high) \subseteq Range(high)
  BY <1>2, TieBreakIn
<1>4. QED  BY <1>1, <1>2, <1>3

(* Every way to pick gives variables.                                      *)
LEMMA PicksIn ==
  ASSUME ClausesExact, VarsExact, IsSettings(settings), s \in FieldsType, CountsExact(s)
  PROVE  /\ UNION { ClauseVars[c] : c \in Clauses } \subseteq Vars
         /\ UNION { SelectVar(c) : c \in SelectClause } \subseteq Vars
         /\ CsccHeuristic \subseteq Vars /\ NvccHeuristic \subseteq Vars
         /\ AspirationHeuristic \subseteq Vars
         /\ s.unsat.stack # <<>> => NumClauses # 0
<1>1. /\ s.unsat.stack \in Seq(Clauses) /\ OnStack(s.unsat) \subseteq Clauses
      /\ s.unsatVar.stack \in Seq(Vars)
  BY UnsatIs
<1>2. s.good \in Seq(Vars)
  BY DEF FieldsType
<1>3. UNION { ClauseVars[c] : c \in Clauses } \subseteq Vars
  <2>1. \A c \in Clauses : ClauseVars[c] = Range(VarsOfClause(c)) /\ VarsOfClause(c) \in Seq(Vars)
    BY DEF ClausesExact
  <2>2. \A c \in Clauses : ClauseVars[c] \subseteq Vars
    BY <2>1 DEF Range
  <2>3. QED  BY <2>2
<1>4. UNION { SelectVar(c) : c \in SelectClause } \subseteq Vars
  <2>1. SelectClause \subseteq Clauses
    BY <1>1 DEF SelectClause
  <2>2. \A c \in SelectClause : SelectVar(c) \subseteq Vars
    BY <2>1, SelectVarIn
  <2>3. QED  BY <2>2
<1>5. \A seq, bar : seq \in Seq(Vars) => Highest(seq, bar) \subseteq Vars
  <2>1. ASSUME NEW seq \in Seq(Vars), NEW bar PROVE Highest(seq, bar) \subseteq Vars
    <3>1. Highest(seq, bar) \subseteq Range(seq)
      BY HighestIn
    <3>2. Range(seq) \subseteq Vars
      BY DEF Range
    <3>3. QED  BY <3>1, <3>2
  <2>2. QED  BY <2>1
<1>6. CsccHeuristic \subseteq Vars
  <2> DEFINE changed == { v \in Vars : s.cscc[v] = 1 }
             seq == Only(s.good, changed)
  <2> HIDE DEF changed
  <2>1. seq \in Seq(Vars)
    BY <1>2, OnlyIs
  <2> HIDE DEF seq
  <2>2. Highest(seq, 0) \subseteq Vars
    BY <1>5, <2>1
  <2>3. QED  BY <2>2 DEF CsccHeuristic, seq, changed
<1>7. NvccHeuristic \subseteq Vars /\ AspirationHeuristic \subseteq Vars
  BY <1>1, <1>2, <1>5 DEF NvccHeuristic, AspirationHeuristic
<1>8. s.unsat.stack # <<>> => NumClauses # 0
  <2> SUFFICES ASSUME s.unsat.stack # <<>>, NumClauses = 0 PROVE FALSE
    OBVIOUS
  <2>1. Clauses = {}
    BY DEF Clauses
  <2>2. QED  BY <1>1, <2>1
<1>9. QED  BY <1>3, <1>4, <1>6, <1>7, <1>8

-----------------------------------------------------------------------------
(* The settings, the solutions and the priorities that callers give.       *)
LEMMA SettingsKept ==
  ASSUME NEW p, IsSettings(p)
  PROVE  /\ IsSettings(Unaware(p)) /\ Unaware(p).init = p.init
         /\ IsSettings([Aware(p) EXCEPT !.init = "given"])
<1>1. IsSettings(Unaware(p)) /\ Unaware(p).init = p.init
  BY DEF IsSettings, Unaware
<1> DEFINE u == Unaware(p)
           q == [u EXCEPT !.aware = TRUE]
           r == [q EXCEPT !.doubleCC = FALSE, !.aspiration = FALSE, !.pac = TRUE, !.firstDiv = TRUE]
<1>2. Aware(p) = q \/ Aware(p) = r
  BY DEF Aware
<1> HIDE DEF u
<1>3. IsSettings(q)
  BY <1>1 DEF IsSettings, u
<1> HIDE DEF q
<1>4. IsSettings(r)
  BY <1>3 DEF IsSettings
<1> HIDE DEF r
<1>5. \A t : IsSettings(t) => IsSettings([t EXCEPT !.init = "given"])
  BY DEF IsSettings
<1>6. IsSettings(Aware(p))
  BY <1>2, <1>3, <1>4
<1>7. QED  BY <1>1, <1>5, <1>6

LEMMA GivenIs ==
  ASSUME ClausesExact, inst.file \in Files
  PROVE  /\ InitSolns(NumVars) \subseteq Solutions
         /\ Priorities(NumVars) \subseteq Ints
<1> DEFINE n == inst.file.vars
<1>1. /\ InitSolns(n) \subseteq [1 .. n -> {0, 1}]
      /\ Priorities(n) \subseteq [1 .. n -> {0, Unit \div 2, Unit}]
  BY PbOccsatAssumption
<1>2. {0, Unit \div 2, Unit} \subseteq Int
  BY PbFieldsAssumption
<1>3. [1 .. n -> {0, Unit \div 2, Unit}] \subseteq [1 .. n -> Int]
  BY <1>2
<1>4. QED  BY <1>1, <1>3 DEF NumVars, Vars, Solutions, Ints

LEMMA ClausePriIs ==
  ASSUME ClausesExact, NEW old \in [Clauses -> Int], NEW p \in Ints
  PROVE  ClausePri(old, p) \in [Clauses -> Int]
<1>1. ASSUME NEW c \in Clauses
      PROVE  (old[c] + SumFunctionOnSet(p, ClauseVars[c])) \div Len(ClauseLit[c]) \in Int
  <2> DEFINE S == ClauseVars[c]
             a == old[c]
             b == SumFunctionOnSet(p, S)
             l == Len(ClauseLit[c])
  <2>1. S \subseteq Vars /\ l \in Nat \ {0}
    BY DEF ClausesExact, Range
  <2>2. IsFiniteSet(S)
    <3>1. IsFiniteSet(Vars)
      BY FS_Interval DEF ClausesExact, Vars
    <3>2. QED  BY <2>1, <3>1, FS_Subset
  <2>3. \A u \in S : p[u] \in Int
    BY <2>1 DEF Ints
  <2> HIDE DEF S
  <2>4. a \in Int /\ b \in Int
    BY <2>2, <2>3, SumTakeOut
  <2> HIDE DEF a, b, l
  <2>5. (a + b) \div l \in Int
    BY <2>1, <2>4
  <2>6. QED  BY <2>5 DEF a, b, l, S
<1>2. QED  BY <1>1 DEF ClausePri

-----------------------------------------------------------------------------
(* The formula stays as it is, and with it whatever is said in its terms.  *)
LEMMA SameTables ==
  ASSUME UNCHANGED inst
  PROVE  /\ NumVars' = NumVars /\ Vars' = Vars /\ NumClauses' = NumClauses /\ Clauses' = Clauses
         /\ ClauseLit' = ClauseLit /\ ClauseVars' = ClauseVars
         /\ VarLit' = VarLit /\ VarNeighbor' = VarNeighbor
  BY DEF NumVars, Vars, NumClauses, Clauses, ClauseLit, ClauseVars, VarLit, VarNeighbor

LEMMA SameHeld ==
  ASSUME UNCHANGED inst
  PROVE  /\ \A c, u : SenseIn(c, u)' = SenseIn(c, u)
         /\ \A c : VarsOfClause(c)' = VarsOfClause(c)
         /\ \A soln, c : Held(soln, c)' = Held(soln, c)
<1>1. \A c, u : SenseIn(c, u)' = SenseIn(c, u)
  BY SameTables DEF SenseIn
<1>2. \A c : VarsOfClause(c)' = VarsOfClause(c)
  BY SameTables DEF VarsOfClause
<1>3. \A soln, c : Held(soln, c)' = Held(soln, c)
  BY <1>1, SameTables DEF Held
<1>4. QED  BY <1>1, <1>2, <1>3

LEMMA SameInstance ==
  ASSUME UNCHANGED inst, InstanceExact
  PROVE  InstanceExact'
<1>1. ClausesExact'
  BY SameTables, SameHeld DEF InstanceExact, ClausesExact
<1>2. VarsExact'
  <2>1. /\ Vars' = Vars /\ Clauses' = Clauses /\ ClauseVars' = ClauseVars
        /\ VarLit' = VarLit /\ VarNeighbor' = VarNeighbor
    BY SameTables
  <2>2. \A c, u : SenseIn(c, u)' = SenseIn(c, u)
    BY SameHeld
  <2>3. VarsExact
    BY DEF InstanceExact
  <2>4. ASSUME NEW v \in Vars
        PROVE  (\A i \in 1 .. Len(VarLit[v]) : VarLit[v][i].sense = SenseIn(VarLit[v][i].clause, v))'
    <3>1. \A i \in 1 .. Len(VarLit[v]) : VarLit[v][i].sense = SenseIn(VarLit[v][i].clause, v)
      BY <2>3 DEF VarsExact
    <3>2. QED  BY <2>1, <2>2, <3>1
  <2>5. ASSUME NEW v \in Vars
        PROVE  (\A c \in Clauses : v \in ClauseVars[c]
                                  <=> \E i \in 1 .. Len(VarLit[v]) : VarLit[v][i].clause = c)'
    <3>1. \A c \in Clauses : v \in ClauseVars[c] <=> \E i \in 1 .. Len(VarLit[v]) : VarLit[v][i].clause = c
      BY <2>3 DEF VarsExact
    <3>2. QED  BY <2>1, <3>1
  <2>6. ASSUME NEW v \in Vars
        PROVE  /\ (VarLit[v] \in Seq([clause : Clauses, sense : {0, 1}]))'
               /\ (\A i, j \in 1 .. Len(VarLit[v]) : VarLit[v][i].clause = VarLit[v][j].clause => i = j)'
               /\ (VarNeighbor[v] \in Seq(Vars) /\ IsInjective(VarNeighbor[v]))'
    <3>1. /\ VarLit[v] \in Seq([clause : Clauses, sense : {0, 1}])
          /\ \A i, j \in 1 .. Len(VarLit[v]) : VarLit[v][i].clause = VarLit[v][j].clause => i = j
          /\ VarNeighbor[v] \in Seq(Vars) /\ IsInjective(VarNeighbor[v])
      BY <2>3 DEF VarsExact
    <3>2. QED  BY <2>1, <3>1
  <2>7. ASSUME NEW v \in Vars
        PROVE  (\A w : w \in Range(VarNeighbor[v])
                         <=> /\ w \in Vars /\ w # v
                             /\ \E c \in Clauses : v \in ClauseVars[c] /\ w \in ClauseVars[c])'
    <3>1. \A w : w \in Range(VarNeighbor[v])
                   <=> /\ w \in Vars /\ w # v
                       /\ \E c \in Clauses : v \in ClauseVars[c] /\ w \in ClauseVars[c]
      BY <2>3 DEF VarsExact
    <3>2. QED  BY <2>1, <3>1
  <2>8. ASSUME NEW v \in Vars'
        PROVE  (/\ VarLit[v] \in Seq([clause : Clauses, sense : {0, 1}])
                /\ \A i, j \in 1 .. Len(VarLit[v]) : VarLit[v][i].clause = VarLit[v][j].clause => i = j
                /\ \A c \in Clauses : v \in ClauseVars[c] <=> \E i \in 1 .. Len(VarLit[v]) : VarLit[v][i].clause = c
                /\ \A i \in 1 .. Len(VarLit[v]) : VarLit[v][i].sense = SenseIn(VarLit[v][i].clause, v)
                /\ VarNeighbor[v] \in Seq(Vars)
                /\ IsInjective(VarNeighbor[v])
                /\ \A w : w \in Range(VarNeighbor[v])
                           <=> /\ w \in Vars /\ w # v
                               /\ \E c \in Clauses : v \in ClauseVars[c] /\ w \in ClauseVars[c])'
    <3>1. v \in Vars
      BY <2>1, <2>8
    <3>2. QED  BY <2>4, <2>5, <2>6, <2>7, <3>1
  <2>9. QED  BY <2>8, Zenon DEF VarsExact
<1>3. FileKept'
  BY SameTables DEF InstanceExact, FileKept
<1>4. QED  BY <1>1, <1>2, <1>3 DEF InstanceExact

LEMMA SameSets ==
  ASSUME UNCHANGED inst
  PROVE  Solutions' = Solutions /\ Ints' = Ints /\ FieldsType' = FieldsType /\ GoodsType' = GoodsType
<1>1. Solutions' = Solutions /\ Ints' = Ints /\ GoodsType' = GoodsType
  BY SameTables DEF Solutions, Ints, GoodsType
<1>2. FieldsType' = FieldsType
  BY <1>1, SameTables DEF FieldsType
<1>3. QED  BY <1>1, <1>2

LEMMA SameCounts ==
  ASSUME UNCHANGED inst
  PROVE  /\ \A q : CountsExact(q)' <=> CountsExact(q)
         /\ \A q : Averages(q)' <=> Averages(q)
         /\ \A g : GoodsOk(g)' <=> GoodsOk(g)
         /\ \A q : GoodVars(q)' = GoodVars(q)
<1>1. \A soln : UnsatOf(soln)' = UnsatOf(soln)
  BY SameTables, SameHeld DEF UnsatOf
<1>2. \A soln : Counting(soln)' = Counting(soln)
  BY SameTables, SameHeld DEF Counting
<1>3. \A soln, f : NotedOne(soln, f)' <=> NotedOne(soln, f)
  BY SameTables, SameHeld DEF NotedOne
<1>4. \A U : Apps(U)' = Apps(U)
  BY SameTables DEF Apps
<1>5. \A r, n : Named(r, n)' <=> Named(r, n)
  BY SameTables DEF Named
<1>6. \A r, U, w : Stacks(r, U, w)' <=> Stacks(r, U, w)
  BY <1>4, <1>5, SameTables DEF Stacks
<1>7. \A q : CountsExact(q)' <=> CountsExact(q)
  BY <1>1, <1>2, <1>3, <1>6 DEF CountsExact
<1>8. \A q : Averages(q)' <=> Averages(q)
  BY SameTables DEF Averages
<1>9. \A g : GoodsOk(g)' <=> GoodsOk(g)
  BY SameTables, SameSets DEF GoodsOk
<1>10. \A q : GoodVars(q)' = GoodVars(q)
  BY SameTables DEF GoodVars
<1>11. QED  BY <1>7, <1>8, <1>9, <1>10

LEMMA SameScores ==
  ASSUME UNCHANGED inst
  PROVE  \A q, p : ScoresAre(q, p)' <=> ScoresAre(q, p)
<1>1. \A q, u, n, true : Occurs(q, u, n, true)' = Occurs(q, u, n, true)
  BY SameTables DEF Occurs
<1>2. \A q : InitMake(q)' = InitMake(q)
  BY <1>1, SameTables DEF InitMake
<1>3. \A q : InitBreak(q)' = InitBreak(q)
  BY <1>1, SameTables DEF InitBreak
<1>4. \A q : InitScore(q)' = InitScore(q)
  BY <1>2, <1>3, SameTables DEF InitScore
<1>5. \A q : InitScore2(q)' = InitScore2(q)
  BY <1>1, SameTables DEF InitScore2
<1>6. \A soln, f, g : PairIn(soln, f, g)' <=> PairIn(soln, f, g)
  BY SameTables, SameHeld DEF PairIn
<1>7. \A q : PairHeld(q)' <=> PairHeld(q)
  BY <1>6 DEF PairHeld
<1>8. QED  BY <1>2, <1>3, <1>4, <1>5, <1>7 DEF ScoresAre

LEMMA SamePending ==
  ASSUME UNCHANGED inst
  PROVE  /\ \A q, v, old : JustFlipped(q, v, old)' <=> JustFlipped(q, v, old)
         /\ \A q, old, p : Pending(q, old, p)' <=> Pending(q, old, p)
<1>1. \A old, new, f : NotedBefore(old, new, f)' <=> NotedBefore(old, new, f)
  BY SameTables, SameHeld DEF NotedBefore
<1>2. \A old, new, f, g : PairBefore(old, new, f, g)' <=> PairBefore(old, new, f, g)
  BY SameTables, SameHeld DEF PairBefore
<1>3. \A soln, w : MakeParts(soln, w)' = MakeParts(soln, w)
  BY SameTables, SameHeld DEF MakeParts
<1>4. \A soln, w : BreakParts(soln, w)' = BreakParts(soln, w)
  BY SameTables, SameHeld DEF BreakParts
<1>5. \A soln, w : ScoreParts(soln, w)' = ScoreParts(soln, w)
  BY <1>3, <1>4, SameTables DEF ScoreParts
<1>6. \A soln : GainParts(soln)' = GainParts(soln)
  BY SameTables, SameHeld DEF GainParts
<1>7. \A soln : LossParts(soln)' = LossParts(soln)
  BY SameTables, SameHeld DEF LossParts
<1>8. \A soln : SecondParts(soln)' = SecondParts(soln)
  BY <1>6, <1>7, SameTables DEF SecondParts
<1>9. \A P : Total(P)' = Total(P)
  BY SameTables DEF Total
<1>10. \A q, v, old : JustFlipped(q, v, old)' <=> JustFlipped(q, v, old)
  BY <1>1, SameTables, SameSets, SameCounts DEF JustFlipped
<1>11. \A q, old, p : Pending(q, old, p)' <=> Pending(q, old, p)
  BY <1>2, <1>3, <1>4, <1>5, <1>8, <1>9 DEF Pending
<1>12. QED  BY <1>10, <1>11

-----------------------------------------------------------------------------
(* The inductive invariant.  Between the steps of a try the counts, the    *)
(* scores and the average are right, and the good variables are flagged    *)
(* and, until weights have been scaled down, all there; between flip and   *)
(* update the counts are right already and the scores are still those of   *)
(* the solution before.                                                    *)
Noted(q, p) == (p.weighting # "paws" => q.large = <<>>) /\ Heavy(q.large, q.weight)

Ready(q, p, scaled) ==
  /\ q \in FieldsType /\ CountsExact(q) /\ ScoresAre(q, p) /\ Averages(q) /\ GoodsOk(Goods(q))
  /\ ~scaled => Range(q.good) = GoodVars(q)
  /\ Noted(q, p)

Midway(q, p, v, scaled) ==
  /\ \E old \in Solutions : JustFlipped(q, v, old) /\ Pending(q, old, p)
  /\ Averages(q) /\ GoodsOk(Goods(q))
  /\ ~scaled => Range(q.good) = GoodVars(q)
  /\ Noted(q, p)

FieldsInv(at, q, p, v, scaled) ==
  /\ q \in FieldsType
  /\ at \in {"search", "diversify", "flip", "sat"} => Ready(q, p, scaled)
  /\ at = "search" => Range(q.good) \subseteq GoodVars(q)
  /\ at = "update" => Midway(q, p, v, scaled)
  /\ at = "sat" => q.unsat.stack = <<>>

TypeOK ==
  /\ pc \in {"idle", "try", "search", "diversify", "flip", "update", "sat", "unknown"}
  /\ IsSettings(settings)
  /\ settings.init = "given" => initSoln \in Solutions
  /\ flipvar \in Vars
  /\ step \in Nat /\ tries \in Nat /\ solves \in Nat /\ smoothed \in BOOLEAN

PbInv == InstanceExact /\ TypeOK /\ FieldsInv(pc, s, settings, flipvar, smoothed)

-----------------------------------------------------------------------------
(* What the invariant says of a state.                                     *)
LEMMA CountsAre ==
  ASSUME PbInv, pc \in {"search", "diversify", "flip", "update", "sat"}
  PROVE  ClausesExact /\ VarsExact /\ s \in FieldsType /\ CountsExact(s)
<1>1. ClausesExact /\ VarsExact /\ s \in FieldsType
  BY DEF PbInv, InstanceExact, FieldsInv
<1>2. CASE pc = "update"
  BY <1>1, <1>2 DEF PbInv, FieldsInv, Midway, JustFlipped
<1>3. CASE pc \in {"search", "diversify", "flip", "sat"}
  BY <1>1, <1>3 DEF PbInv, FieldsInv, Ready
<1>4. QED  BY <1>1, <1>2, <1>3

LEMMA NamedOnce ==
  ASSUME ClausesExact, NEW U \in SUBSET Clauses
  PROVE  { v \in Vars : Apps(U)[v] > 0 } = UNION { ClauseVars[c] : c \in U }
<1>1. \A c \in U : ClauseVars[c] \subseteq Vars
  <2>1. ASSUME NEW c \in U PROVE ClauseVars[c] \subseteq Vars
    <3>1. c \in Clauses
      OBVIOUS
    <3>2. QED  BY <3>1 DEF ClausesExact, Range
  <2>2. QED  BY <2>1
<1>2. IsFiniteSet(U)
  BY FiniteClauses, FS_Subset
<1>3. ASSUME NEW v \in Vars
      PROVE  Apps(U)[v] > 0 <=> \E c \in U : v \in ClauseVars[c]
  <2> DEFINE W == { c \in U : v \in ClauseVars[c] }
  <2>1. IsFiniteSet(W) /\ Apps(U)[v] = Cardinality(W)
    BY <1>2, FS_Subset DEF Apps
  <2>2. W = {} <=> ~\E c \in U : v \in ClauseVars[c]
    OBVIOUS
  <2> HIDE DEF W
  <2>3. Cardinality(W) \in Nat /\ (Cardinality(W) = 0 <=> W = {})
    BY <2>1, FS_CardinalityType, FS_EmptySet
  <2>4. QED  BY <2>1, <2>2, <2>3
<1>4. QED  BY <1>1, <1>3

(* The stacks and counts of the invariant are those that the property      *)
(* states in the words of the code.                                        *)
LEMMA StacksAre ==
  ASSUME PbInv
  PROVE  StacksExact
<1> SUFFICES ASSUME pc \in {"search", "diversify", "flip", "update", "sat"}
             PROVE  /\ OnStack(s.unsat) = { c \in Clauses : TrueVars(s, c) = {} }
                    /\ OnStack(s.unsatVar) = UNION { ClauseVars[c] : c \in OnStack(s.unsat) }
                    /\ StackExact(s.unsat) /\ StackExact(s.unsatVar)
                    /\ s.totalUnsat = WeightOf(s, OnStack(s.unsat))
                    /\ \A c \in Clauses : s.satCount[c] = Cardinality(TrueVars(s, c))
                    /\ \A v \in Vars :
                         s.app[v] = Cardinality({ c \in OnStack(s.unsat) : v \in ClauseVars[c] })
  BY DEF StacksExact
<1> DEFINE U == UnsatOf(s.soln)
<1>1. ClausesExact /\ VarsExact /\ s \in FieldsType /\ CountsExact(s)
  BY CountsAre
<1>2. s.soln \in Solutions /\ s.weight \in [Clauses -> Int]
      /\ Counts(s).unsat = s.unsat /\ Counts(s).unsatVar = s.unsatVar
  BY <1>1, CountsOfFields
<1>3. \A c \in Clauses : TrueVars(s, c) = Held(s.soln, c)
  BY <1>1, <1>2, TrueVarsIs
<1>4. /\ U \in SUBSET Clauses /\ OnStack(s.unsat) = U /\ s.app = Apps(U)
      /\ OnStack(s.unsatVar) = { u \in Vars : s.app[u] > 0 }
      /\ s.totalUnsat = SumFunctionOnSet(s.weight, U)
  BY <1>1, UnsatIs
<1>5. U = { c \in Clauses : TrueVars(s, c) = {} }
  BY <1>3 DEF UnsatOf
<1> HIDE DEF U
<1>6. OnStack(s.unsatVar) = UNION { ClauseVars[c] : c \in U }
  BY <1>1, <1>4, NamedOnce
<1>7. StackExact(s.unsat) /\ StackExact(s.unsatVar)
  BY <1>1, <1>2 DEF CountsExact, Stacks, Named, StackOver
<1>8. s.totalUnsat = WeightOf(s, U)
  BY <1>1, <1>2, <1>4, WeightIs
<1>9. \A c \in Clauses : s.satCount[c] = Cardinality(TrueVars(s, c))
  BY <1>1, <1>3 DEF CountsExact, Counting
<1>10. \A v \in Vars : s.app[v] = Cardinality({ c \in U : v \in ClauseVars[c] })
  BY <1>4 DEF Apps
<1>11. QED  BY <1>4, <1>5, <1>6, <1>7, <1>8, <1>9, <1>10

(* The scores, likewise: the literals noted for a clause that one or two   *)
(* literals make true are these literals.                                  *)
LEMMA ScoresOf ==
  ASSUME PbInv
  PROVE  ScoresExact
<1> SUFFICES ASSUME pc \in {"search", "diversify", "flip", "sat"}
             PROVE  /\ s.score = InitScore(s)
                    /\ settings.second => s.score2 = InitScore2(s)
                    /\ settings.prob /\ settings.weighting = "none" =>
                         s.breakScore = InitBreak(s) /\ s.makeScore = InitMake(s)
                    /\ \A c \in Clauses : s.satCount[c] = 1 => TrueVars(s, c) = {s.satVar[c]}
                    /\ settings.second => \A c \in Clauses :
                         s.satCount[c] = 2 => TrueVars(s, c) = {s.satVar[c], s.satVar2[c]}
                    /\ WeightOf(s, Clauses) = s.avg * NumClauses + s.delta
  BY DEF ScoresExact, Settled
<1>1. ClausesExact /\ VarsExact /\ s \in FieldsType /\ CountsExact(s)
      /\ ScoresAre(s, settings) /\ Averages(s)
  BY DEF PbInv, InstanceExact, FieldsInv, Ready
<1>2. s.soln \in Solutions
  BY <1>1, CountsOfFields
<1>3. \A c \in Clauses : TrueVars(s, c) = Held(s.soln, c)
                         /\ s.satCount[c] = Cardinality(Held(s.soln, c))
  BY <1>1, <1>2, TrueVarsIs DEF CountsExact, Counting
<1>4. \A c \in Clauses : s.satCount[c] = 1 => TrueVars(s, c) = {s.satVar[c]}
  BY <1>1, <1>3 DEF CountsExact, NotedOne
<1>5. settings.second => \A c \in Clauses :
        s.satCount[c] = 2 => TrueVars(s, c) = {s.satVar[c], s.satVar2[c]}
  BY <1>1, <1>3 DEF ScoresAre, PairHeld, PairIn
<1>6. QED  BY <1>1, <1>4, <1>5 DEF ScoresAre, Averages

(* The good variables, likewise.                                           *)
LEMMA GoodVarsAre ==
  ASSUME PbInv
  PROVE  GoodVarsExact
<1> SUFFICES ASSUME pc \in {"search", "flip", "sat"}
             PROVE  /\ IsInjective(s.good)
                    /\ \A v \in Vars : s.inGood[v] <=> v \in Range(s.good)
                    /\ ~smoothed => Range(s.good) = { v \in Vars : s.score[v] > 0 /\ s.nvcc[v] = 1 }
                    /\ pc = "search" => \A v \in Range(s.good) : s.score[v] > 0 /\ s.nvcc[v] = 1
  BY DEF GoodVarsExact
<1>1. GoodsOk(Goods(s)) /\ (~smoothed => Range(s.good) = GoodVars(s))
      /\ (pc = "search" => Range(s.good) \subseteq GoodVars(s))
  BY DEF PbInv, FieldsInv, Ready
<1>2. Goods(s).good = s.good /\ Goods(s).inGood = s.inGood
  BY DEF Goods
<1>3. IsInjective(s.good) /\ \A v \in Vars : s.inGood[v] <=> v \in Range(s.good)
  BY <1>1, <1>2 DEF GoodsOk
<1>4. QED  BY <1>1, <1>3 DEF GoodVars

(* Solved: every clause of the formula has a true literal, and so has      *)
(* every clause of the file: it has both literals of a variable, or it is  *)
(* one of the formula's but for the literals it repeats.                   *)
LEMMA EveryClauseHeld ==
  ASSUME PbInv, pc = "sat", NEW c \in Clauses
  PROVE  \E l \in Range(ClauseLit[c]) : s.soln[VarOf(l)] = Sense(l)
<1>1. ClausesExact /\ VarsExact /\ s \in FieldsType /\ CountsExact(s)
  BY CountsAre
<1>2. s.unsat.stack = <<>>
  BY DEF PbInv, FieldsInv
<1>3. UnsatOf(s.soln) = {}
  <2>1. OnStack(s.unsat) = UnsatOf(s.soln)
    BY <1>1, UnsatIs
  <2>2. OnStack(s.unsat) = {}
    BY <1>2 DEF OnStack
  <2>3. QED  BY <2>1, <2>2
<1>4. TrueVars(s, c) # {}
  <2>1. s.soln \in Solutions
    BY <1>1, CountsOfFields
  <2>2. TrueVars(s, c) = Held(s.soln, c)
    BY <1>1, <2>1, TrueVarsIs
  <2>3. QED  BY <1>3, <2>2 DEF UnsatOf
<1>5. QED  BY <1>4 DEF TrueVars, TrueLits

LEMMA SolvedHolds ==
  ASSUME PbInv
  PROVE  SolvedSatisfiesFile
<1> SUFFICES ASSUME pc = "sat"
             PROVE  /\ VerifySoln(s.soln)
                    /\ \A k \in DOMAIN inst.file.clauses : \E l \in Range(inst.file.clauses[k]) :
                         s.soln[VarOf(l)] = Sense(l)
  BY DEF SolvedSatisfiesFile
<1>1. \A c \in Clauses : \E l \in Range(ClauseLit[c]) : s.soln[VarOf(l)] = Sense(l)
  BY EveryClauseHeld
<1>2. VerifySoln(s.soln)
  <2>1. \A c \in Clauses : \E i \in DOMAIN ClauseLit[c] :
          s.soln[VarOf(ClauseLit[c][i])] = Sense(ClauseLit[c][i])
    BY <1>1 DEF Range
  <2>2. QED  BY <2>1 DEF VerifySoln
<1>3. ASSUME NEW k \in DOMAIN inst.file.clauses
      PROVE  \E l \in Range(inst.file.clauses[k]) : s.soln[VarOf(l)] = Sense(l)
  <2> DEFINE raw == inst.file.clauses[k]
  <2>1. Redundant(raw) \/ \E c \in Clauses : Range(ClauseLit[c]) = Range(raw)
    BY DEF PbInv, InstanceExact, FileKept
  <2>2. CASE Redundant(raw)
    <3>1. /\ NumVars \in Nat \ {0} /\ s.soln \in [1 .. NumVars -> {0, 1}]
          /\ \A i \in DOMAIN raw : raw[i] \in Int /\ raw[i] # 0 /\ VarOf(raw[i]) \in 1 .. NumVars
      <4>1. inst.file \in Files
        BY DEF PbInv, InstanceExact, FileKept
      <4>2. /\ NumVars \in Nat \ {0}
            /\ inst.file.clauses \in Seq(Seq({ l \in -NumVars .. NumVars : l # 0 }) \ {<<>>})
        BY <4>1, PbInstanceAssumption DEF NumVars
      <4>3. raw \in Seq({ l \in -NumVars .. NumVars : l # 0 })
        BY <4>2
      <4> HIDE DEF raw
      <4>4. \A i \in DOMAIN raw : raw[i] \in Int /\ raw[i] # 0 /\ raw[i] \in -NumVars .. NumVars
        BY <4>2, <4>3
      <4>5. \A i \in DOMAIN raw : VarOf(raw[i]) \in 1 .. NumVars
        BY <4>2, <4>4 DEF VarOf
      <4>6. ClausesExact /\ s \in FieldsType
        BY CountsAre
      <4>7. s.soln \in [1 .. NumVars -> {0, 1}]
        BY <4>6, CountsOfFields DEF Solutions, Vars
      <4>8. QED  BY <4>2, <4>4, <4>5, <4>7
    <3> HIDE DEF raw
    <3>2. PICK i \in DOMAIN raw, j \in DOMAIN raw : raw[i] = -raw[j]
      BY <2>2 DEF Redundant
    <3>3. /\ raw[i] \in Int /\ raw[j] \in Int /\ raw[i] # 0 /\ raw[j] # 0
          /\ s.soln[VarOf(raw[j])] \in {0, 1}
      BY <3>1, <3>2
    <3>4. VarOf(raw[i]) = VarOf(raw[j]) /\ {Sense(raw[i]), Sense(raw[j])} = {0, 1}
      BY <3>2, <3>3 DEF VarOf, Sense
    <3>5. \/ s.soln[VarOf(raw[i])] = Sense(raw[i])
          \/ s.soln[VarOf(raw[j])] = Sense(raw[j])
      BY <3>3, <3>4
    <3>6. QED  BY <3>2, <3>5 DEF Range, raw
  <2>3. CASE \E c \in Clauses : Range(ClauseLit[c]) = Range(raw)
    BY <1>1, <2>3
  <2>4. QED  BY <2>1, <2>2, <2>3
<1>4. QED  BY <1>2, <1>3

-----------------------------------------------------------------------------
(* The first solutions are solutions.                                      *)
LEMMA FirstOnes ==
  ASSUME ClausesExact
  PROVE  AllTrueOrFalse \in Solutions /\ EachLitTrueOrFalse \in Solutions
BY DEF AllTrueOrFalse, EachLitTrueOrFalse, Solutions

LEMMA FirstSolutionsIn ==
  ASSUME ClausesExact, TypeOK
  PROVE  FirstSolutions \subseteq Solutions
<1>1. AllTrueOrFalse \in Solutions /\ EachLitTrueOrFalse \in Solutions
  BY FirstOnes
<1>2. settings.init \in {"random", "all", "each", "given"}
      /\ (settings.init = "given" => initSoln \in Solutions)
  BY DEF TypeOK, IsSettings
<1>3. CASE settings.init = "random"
  BY <1>3 DEF FirstSolutions, Solutions
<1>4. CASE settings.init = "all"
  BY <1>1, <1>4 DEF FirstSolutions
<1>5. CASE settings.init = "each"
  BY <1>1, <1>5 DEF FirstSolutions
<1>6. CASE settings.init = "given"
  BY <1>2, <1>6 DEF FirstSolutions
<1>7. QED  BY <1>2, <1>3, <1>4, <1>5, <1>6

(* The start.                                                              *)
LEMMA InitPb ==
  ASSUME Init
  PROVE  PbInv
<1> DEFINE none == [v \in Vars |-> 0]
           z == BaseFields(none, none, Zero)
<1>1. InstanceExact
  BY BuiltExact DEF Init
<1>2. ClausesExact /\ VarsExact
  BY <1>1 DEF InstanceExact
<1>3. none \in Solutions /\ none \in Ints /\ Zero \in [Clauses -> Int]
  BY <1>2 DEF Solutions, Ints, Zero
<1>4. z \in FieldsType
  <2> HIDE DEF none, z
  <2>1. z = BaseFields(none, none, Zero)
    BY DEF z
  <2>2. QED  BY <1>2, <1>3, <2>1, BaseFieldsAre
<1>5. s = z /\ pc = "idle"
  BY DEF Init
<1> HIDE DEF z, none
<1>6. FieldsInv(pc, s, settings, flipvar, smoothed)
  BY <1>4, <1>5 DEF FieldsInv
<1>7. TypeOK
  <2>1. IsSettings(settings) /\ settings.init # "given"
    BY PbOccsatAssumption DEF Init
  <2>2. flipvar \in Vars
    BY <1>2 DEF Init, ClausesExact, Vars
  <2>3. QED  BY <2>1, <2>2 DEF Init, TypeOK
<1>8. QED  BY <1>1, <1>6, <1>7 DEF PbInv

(* What the fields must satisfy does not depend on anything else that a    *)
(* step changes.                                                           *)
LEMMA SameInv ==
  ASSUME UNCHANGED inst
  PROVE  \A at, q, p, v, scaled : FieldsInv(at, q, p, v, scaled)' <=> FieldsInv(at, q, p, v, scaled)
<1>1. \A q, p : Noted(q, p)' <=> Noted(q, p)
  BY DEF Noted
<1>2. \A q, p, scaled : Ready(q, p, scaled)' <=> Ready(q, p, scaled)
  BY <1>1, SameSets, SameCounts, SameScores DEF Ready
<1>3. \A q, p, v, scaled : Midway(q, p, v, scaled)' <=> Midway(q, p, v, scaled)
  BY <1>1, SameSets, SameCounts, SamePending DEF Midway
<1>4. \A q : GoodVars(q)' = GoodVars(q)
  BY SameCounts
<1>5. QED  BY <1>2, <1>3, <1>4, SameSets DEF FieldsInv

LEMMA StepKeeps ==
  ASSUME PbInv, UNCHANGED inst,
         pc' \in {"idle", "try", "search", "diversify", "flip", "update", "sat", "unknown"},
         IsSettings(settings'), settings'.init = "given" => initSoln' \in Solutions,
         flipvar' \in Vars, step' \in Nat, tries' \in Nat, solves' \in Nat, smoothed' \in BOOLEAN,
         FieldsInv(pc', s', settings', flipvar', smoothed')
  PROVE  PbInv'
<1>1. InstanceExact'
  BY SameInstance DEF PbInv
<1>2. TypeOK'
  BY SameSets, SameTables DEF TypeOK, IsSettings
<1>3. FieldsInv(pc, s, settings, flipvar, smoothed)'
  BY SameInv
<1>4. QED  BY <1>1, <1>2, <1>3 DEF PbInv

-----------------------------------------------------------------------------
(* The calls.                                                              *)
LEMMA SetPriorityIs ==
  ASSUME PbInv, NEW p \in Priorities(NumVars), SetPriority(p)
  PROVE  s' \in FieldsType
<1> DEFINE g == ClausePri(s.clausePri, p)
<1>1. ClausesExact /\ inst.file \in Files /\ s \in FieldsType
  BY DEF PbInv, InstanceExact, FileKept, FieldsInv
<1>2. p \in Ints
  BY <1>1, GivenIs
<1>3. s.clausePri \in [Clauses -> Int]
  BY <1>1 DEF FieldsType
<1>4. g \in [Clauses -> Int]
  BY <1>1, <1>2, <1>3, ClausePriIs
<1>5. s' = WithPriorities(s, p, g)
  BY DEF SetPriority, WithPriorities
<1> HIDE DEF g
<1>6. QED  BY <1>1, <1>2, <1>4, <1>5, WithPrioritiesIs

LEMMA CallKeeps ==
  ASSUME PbInv, Call, s' \in FieldsType, IsSettings(settings'),
         settings'.init = "given" => initSoln' \in Solutions
  PROVE  PbInv'
<1>1. /\ pc' = "try" /\ tries' = 0 /\ solves' = solves + 1
      /\ UNCHANGED inst /\ flipvar' = flipvar /\ step' = step /\ smoothed' = smoothed
  BY DEF Call
<1>2. /\ flipvar' \in Vars /\ step' \in Nat /\ tries' \in Nat /\ solves' \in Nat
      /\ smoothed' \in BOOLEAN
  BY <1>1 DEF PbInv, TypeOK
<1>3. FieldsInv(pc', s', settings', flipvar', smoothed')
  BY <1>1 DEF FieldsInv
<1>4. QED  BY <1>1, <1>2, <1>3, StepKeeps

LEMMA SolveKeeps ==
  ASSUME PbInv, Solve
  PROVE  PbInv'
<1>1. Call /\ s' = s /\ settings' = settings /\ initSoln' = initSoln
  BY DEF Solve
<1>2. /\ s \in FieldsType /\ IsSettings(settings)
      /\ (settings.init = "given" => initSoln \in Solutions)
  BY DEF PbInv, TypeOK, FieldsInv
<1>3. QED  BY <1>1, <1>2, CallKeeps

LEMMA SolveFromKeeps ==
  ASSUME PbInv, NEW soln \in InitSolns(NumVars), NEW p \in Priorities(NumVars), SolveFrom(soln, p)
  PROVE  PbInv'
<1>1. /\ Call /\ initSoln' = soln /\ settings' = [Aware(settings) EXCEPT !.init = "given"]
      /\ SetPriority(p)
  BY DEF SolveFrom
<1>2. s' \in FieldsType
  BY <1>1, SetPriorityIs
<1>3. IsSettings(settings')
  BY <1>1, SettingsKept DEF PbInv, TypeOK
<1>4. soln \in Solutions
  BY GivenIs DEF PbInv, InstanceExact, FileKept
<1>5. QED  BY <1>1, <1>2, <1>3, <1>4, CallKeeps

LEMMA SolveUnawareKeeps ==
  ASSUME PbInv, NEW p \in Priorities(NumVars), SolveUnaware(p)
  PROVE  PbInv'
<1>1. Call /\ settings' = Unaware(settings) /\ initSoln' = initSoln /\ SetPriority(p)
  BY DEF SolveUnaware
<1>2. s' \in FieldsType
  BY <1>1, SetPriorityIs
<1>3. /\ IsSettings(Unaware(settings)) /\ Unaware(settings).init = settings.init
      /\ (settings.init = "given" => initSoln \in Solutions)
  BY SettingsKept DEF PbInv, TypeOK
<1>4. QED  BY <1>1, <1>2, <1>3, CallKeeps

-----------------------------------------------------------------------------
(* The loop over tries.                                                    *)
LEMMA StartTryKeeps ==
  ASSUME PbInv, StartTry
  PROVE  PbInv'
<1>1. ClausesExact /\ VarsExact /\ TypeOK /\ s \in FieldsType
  BY DEF PbInv, InstanceExact, FieldsInv
<1>2. /\ pc' = "search" /\ step' = 0 /\ smoothed' = FALSE /\ UNCHANGED inst
      /\ settings' = settings /\ initSoln' = initSoln /\ flipvar' = flipvar
      /\ tries' = tries /\ solves' = solves
  BY DEF StartTry
<1>3. PICK soln \in FirstSolutions : s' = InitFields(soln, settings, s.varPri, s.clausePri)
  BY DEF StartTry
<1>4. soln \in Solutions /\ s.varPri \in Ints /\ s.clausePri \in [Clauses -> Int]
  BY <1>1, FirstSolutionsIn DEF FieldsType
<1>5. /\ s' \in FieldsType /\ CountsExact(s') /\ ScoresAre(s', settings) /\ Averages(s')
      /\ GoodsOk(Goods(s')) /\ Range(s'.good) = GoodVars(s') /\ s'.large = <<>>
  BY <1>1, <1>3, <1>4, InitIs
<1>6. Ready(s', settings, FALSE)
  BY <1>5, EmptyHeavy DEF Ready, Noted
<1>7. FieldsInv(pc', s', settings', flipvar', smoothed')
  BY <1>2, <1>5, <1>6 DEF FieldsInv
<1>8. QED  BY <1>1, <1>2, <1>7, StepKeeps DEF TypeOK

LEMMA EndsKeep ==
  ASSUME PbInv, Exhausted \/ Solved \/ TryFailed
  PROVE  PbInv'
<1>1. /\ TypeOK /\ FieldsInv(pc, s, settings, flipvar, smoothed)
      /\ UNCHANGED inst /\ s' = s /\ settings' = settings /\ initSoln' = initSoln
      /\ flipvar' = flipvar /\ step' = step /\ solves' = solves /\ smoothed' = smoothed
  BY DEF PbInv, Exhausted, Solved, TryFailed
<1>2. tries' \in Nat
  BY DEF PbInv, TypeOK, Exhausted, Solved, TryFailed
<1>3. CASE pc' \in {"unknown", "try"}
  <2>1. FieldsInv(pc', s', settings', flipvar', smoothed')
    BY <1>1, <1>3 DEF FieldsInv
  <2>2. QED  BY <1>1, <1>2, <1>3, <2>1, StepKeeps DEF TypeOK
<1>4. CASE pc' = "sat" /\ pc = "search" /\ s.unsat.stack = <<>>
  <2>1. Ready(s, settings, smoothed) /\ s \in FieldsType
    BY <1>1, <1>4 DEF FieldsInv
  <2>2. FieldsInv(pc', s', settings', flipvar', smoothed')
    BY <1>1, <1>4, <2>1 DEF FieldsInv
  <2>3. QED  BY <1>1, <1>2, <1>4, <2>2, StepKeeps DEF TypeOK
<1>5. QED  BY <1>3, <1>4 DEF Exhausted, Solved, TryFailed

-----------------------------------------------------------------------------
(* The turns of a try.  A pick leaves the fields alone.                    *)
LEMMA PickKeeps ==
  ASSUME PbInv, pc \in {"search", "diversify"}, NEW vs \in SUBSET Vars, Pick(vs)
  PROVE  PbInv'
<1>1. /\ TypeOK /\ Ready(s, settings, smoothed) /\ s \in FieldsType
  BY DEF PbInv, FieldsInv
<1>2. /\ pc' = "flip" /\ flipvar' \in Vars /\ UNCHANGED inst /\ s' = s /\ settings' = settings
      /\ initSoln' = initSoln /\ step' = step /\ tries' = tries /\ solves' = solves
      /\ smoothed' = smoothed
  BY DEF Pick
<1>3. FieldsInv(pc', s', settings', flipvar', smoothed')
  BY <1>1, <1>2 DEF FieldsInv
<1>4. QED  BY <1>1, <1>2, <1>3, StepKeeps DEF TypeOK

LEMMA PicksKeep ==
  ASSUME PbInv,
         PickPac \/ PickFirstDiv \/ PickDoubleCC \/ PickNvcc \/ PickAspiration \/ Diversify
  PROVE  PbInv'
<1>1. pc \in {"search", "diversify"}
  BY DEF PickPac, PickFirstDiv, PickDoubleCC, PickNvcc, PickAspiration, Diversify, Searching
<1>2. /\ ClausesExact /\ VarsExact /\ IsSettings(settings) /\ s \in FieldsType /\ CountsExact(s)
  BY <1>1, CountsAre DEF PbInv, TypeOK
<1>3. /\ UNION { ClauseVars[c] : c \in Clauses } \subseteq Vars
      /\ UNION { SelectVar(c) : c \in SelectClause } \subseteq Vars
      /\ CsccHeuristic \subseteq Vars /\ NvccHeuristic \subseteq Vars
      /\ AspirationHeuristic \subseteq Vars
  BY <1>2, PicksIn
<1>4. \/ Pick(UNION { ClauseVars[c] : c \in Clauses })
      \/ Pick(UNION { SelectVar(c) : c \in SelectClause })
      \/ Pick(CsccHeuristic) \/ Pick(NvccHeuristic) \/ Pick(AspirationHeuristic)
  BY DEF PickPac, PickFirstDiv, PickDoubleCC, PickNvcc, PickAspiration, Diversify
<1>5. \A vs \in SUBSET Vars : Pick(vs) => PbInv'
  BY <1>1, PickKeeps
<1>6. QED  BY <1>3, <1>4, <1>5

(* The weights grow and are scaled down.                                   *)
LEMMA ReweighKeeps ==
  ASSUME PbInv, Reweigh
  PROVE  PbInv'
<1>1. pc = "search" /\ s.unsat.stack # <<>>
  BY DEF Reweigh, Stuck, Searching
<1>2. /\ ClausesExact /\ VarsExact /\ TypeOK /\ s \in FieldsType /\ CountsExact(s)
      /\ Ready(s, settings, smoothed)
  BY <1>1 DEF PbInv, InstanceExact, FieldsInv, Ready
<1>3. NumClauses # 0
  BY <1>1, <1>2, PicksIn DEF TypeOK
<1>4. /\ pc' = "diversify" /\ UNCHANGED inst /\ settings' = settings
      /\ initSoln' = initSoln /\ flipvar' = flipvar /\ step' = step /\ tries' = tries
      /\ solves' = solves
  BY DEF Reweigh
<1>5. settings.weighting # "none" => Right(s, settings)
  BY <1>2 DEF Ready, Right
<1>6. \A x, b : Right(x, settings) /\ (~b => Range(x.good) = GoodVars(x)) /\ Noted(x, settings)
                 => Ready(x, settings, b)
  BY DEF Right, Ready
<1>7. Noted(s, settings)
  BY <1>2 DEF Ready
<1>8. Ready(s', settings, smoothed') /\ smoothed' \in BOOLEAN
  <2>1. CASE settings.weighting = "none" /\ UNCHANGED <<s, smoothed>>
    BY <1>2, <2>1 DEF TypeOK
  <2>2. CASE settings.weighting = "swt" /\ s' = Swt(s) /\ smoothed' = (smoothed \/ MustSmooth(s))
    <3>1. PScale \in Nat \X (Nat \ {0})
      BY PbFieldsAssumption
    <3>2. /\ Right(s', settings)
          /\ Range(s.good) = GoodVars(s) /\ ~MustSmooth(s) => Range(s'.good) = GoodVars(s')
          /\ s'.large = s.large
      BY <1>2, <1>3, <1>5, <2>2, <3>1, SwtIs
    <3>3. ~smoothed => Range(s.good) = GoodVars(s)
      BY <1>2 DEF Ready
    <3>4. smoothed' \in BOOLEAN /\ (~smoothed' => ~smoothed /\ ~MustSmooth(s))
      BY <2>2
    <3>5. Noted(s', settings)
      BY <1>7, <2>2, <3>2, EmptyHeavy DEF Noted
    <3>6. QED  BY <1>6, <3>2, <3>3, <3>4, <3>5
  <2>3. CASE settings.weighting = "paws" /\ s' = IncPaws(s) /\ UNCHANGED smoothed
    <3>1. /\ Right(s', settings)
          /\ Range(s.good) = GoodVars(s) => Range(s'.good) = GoodVars(s')
          /\ Heavy(s.large, s.weight) => Heavy(s'.large, s'.weight)
      BY <1>2, <1>5, <2>3, IncPawsIs
    <3>2. (~smoothed => Range(s.good) = GoodVars(s)) /\ smoothed' = smoothed /\ smoothed \in BOOLEAN
      BY <1>2, <2>3 DEF Ready, TypeOK
    <3>3. Noted(s', settings)
      BY <1>7, <2>3, <3>1 DEF Noted
    <3>4. QED  BY <1>6, <3>1, <3>2, <3>3
  <2>4. CASE settings.weighting = "paws" /\ s' = DecPaws(s) /\ smoothed' = TRUE
    <3>1. Right(s', settings) /\ Heavy(s'.large, s'.weight)
      BY <1>2, <1>5, <1>7, <2>4, DecPawsIs DEF Noted
    <3>2. QED  BY <1>6, <2>4, <3>1 DEF Noted
  <2>5. QED  BY <2>1, <2>2, <2>3, <2>4 DEF Reweigh
<1>9. FieldsInv(pc', s', settings', flipvar', smoothed')
  BY <1>4, <1>8 DEF FieldsInv, Ready
<1>10. QED  BY <1>2, <1>4, <1>8, <1>9, StepKeeps DEF TypeOK

(* The flip, and the update after it.                                      *)
LEMMA FlipKeeps ==
  ASSUME PbInv, FlipVar
  PROVE  PbInv'
<1>1. /\ pc = "flip" /\ pc' = "update" /\ s' = Flip(s, flipvar) /\ UNCHANGED inst
      /\ settings' = settings /\ initSoln' = initSoln /\ flipvar' = flipvar /\ step' = step
      /\ tries' = tries /\ solves' = solves /\ smoothed' = smoothed
  BY DEF FlipVar
<1>2. /\ ClausesExact /\ VarsExact /\ TypeOK /\ s \in FieldsType /\ flipvar \in Vars
      /\ CountsExact(s) /\ ScoresAre(s, settings) /\ Averages(s) /\ GoodsOk(Goods(s))
      /\ (~smoothed => Range(s.good) = GoodVars(s)) /\ Noted(s, settings)
  BY <1>1 DEF PbInv, InstanceExact, TypeOK, FieldsInv, Ready
<1>3. JustFlipped(s', flipvar, s.soln) /\ Pending(s', s.soln, settings)
  BY <1>1, <1>2, FlippedIs
<1>4. s' \in FieldsType /\ SameButCounts(s', s)
  BY <1>1, <1>2, FlipIs
<1>5. /\ s'.weight = s.weight /\ s'.avg = s.avg /\ s'.delta = s.delta /\ Goods(s') = Goods(s)
      /\ s'.score = s.score /\ s'.nvcc = s.nvcc /\ s'.large = s.large
  BY <1>4 DEF SameButCounts
<1>6. Averages(s')
  <2>1. s.weight \in [Clauses -> Int] /\ s'.weight \in [Clauses -> Int]
    BY <1>2, <1>4, CountsOfFields
  <2>2. WeightOf(s', Clauses) = WeightOf(s, Clauses)
    BY <1>2, <1>5, <2>1, WeightIs
  <2>3. QED  BY <1>2, <1>5, <2>2 DEF Averages
<1>7. s'.good = s.good /\ GoodVars(s') = GoodVars(s)
  BY <1>5 DEF Goods, GoodVars
<1>8. s.soln \in Solutions
  BY <1>2, CountsOfFields
<1>9. Noted(s', settings)
  BY <1>2, <1>5 DEF Noted
<1>10. Midway(s', settings, flipvar, smoothed)
  BY <1>2, <1>3, <1>5, <1>6, <1>7, <1>8, <1>9 DEF Midway
<1>11. FieldsInv(pc', s', settings', flipvar', smoothed')
  BY <1>1, <1>4, <1>10 DEF FieldsInv
<1>12. QED  BY <1>1, <1>2, <1>11, StepKeeps DEF TypeOK

LEMMA UpdateKeeps ==
  ASSUME PbInv, UpdateFields
  PROVE  PbInv'
<1>1. /\ pc = "update" /\ pc' = "search" /\ s' = Update(s, flipvar, step, settings)
      /\ step' = step + 1 /\ UNCHANGED inst /\ settings' = settings /\ initSoln' = initSoln
      /\ flipvar' = flipvar /\ tries' = tries /\ solves' = solves /\ smoothed' = smoothed
  BY DEF UpdateFields
<1>2. ClausesExact /\ VarsExact /\ TypeOK /\ Midway(s, settings, flipvar, smoothed)
  BY <1>1 DEF PbInv, InstanceExact, FieldsInv
<1>3. PICK old \in Solutions : JustFlipped(s, flipvar, old) /\ Pending(s, old, settings)
  BY <1>2 DEF Midway
<1>4. Averages(s) /\ GoodsOk(Goods(s)) /\ (~smoothed => Range(s.good) = GoodVars(s))
      /\ Noted(s, settings)
  BY <1>2 DEF Midway
<1>5. Unit \in Int /\ step \in Int /\ step' \in Nat
  BY <1>1, <1>2, PbFieldsAssumption DEF TypeOK
<1>6. /\ s' \in FieldsType /\ CountsExact(s') /\ ScoresAre(s', settings) /\ Averages(s')
      /\ GoodsOk(Goods(s')) /\ Range(s'.good) \subseteq GoodVars(s')
      /\ Range(s.good) = GoodVars(s) => Range(s'.good) = GoodVars(s')
      /\ s'.large = s.large /\ s'.weight = s.weight
  BY <1>1, <1>2, <1>3, <1>4, <1>5, UpdateIs
<1>7. Ready(s', settings, smoothed)
  BY <1>4, <1>6 DEF Ready, Noted
<1>8. FieldsInv(pc', s', settings', flipvar', smoothed')
  BY <1>1, <1>6, <1>7 DEF FieldsInv
<1>9. QED  BY <1>1, <1>2, <1>5, <1>8, StepKeeps DEF TypeOK

LEMMA StutterKeeps ==
  ASSUME PbInv, UNCHANGED vars
  PROVE  PbInv'
<1>1. /\ UNCHANGED inst /\ pc' = pc /\ s' = s /\ settings' = settings /\ initSoln' = initSoln
      /\ flipvar' = flipvar /\ step' = step /\ tries' = tries /\ solves' = solves
      /\ smoothed' = smoothed
  BY DEF vars
<1>2. TypeOK /\ FieldsInv(pc, s, settings, flipvar, smoothed)
  BY DEF PbInv
<1>3. FieldsInv(pc', s', settings', flipvar', smoothed')
  BY <1>1, <1>2
<1>4. QED  BY <1>1, <1>2, <1>3, StepKeeps DEF TypeOK

LEMMA PbStep ==
  ASSUME PbInv, [Next]_vars
  PROVE  PbInv'
<1>1. CASE Solve
  BY <1>1, SolveKeeps
<1>2. CASE \E soln \in InitSolns(NumVars), p \in Priorities(NumVars) : SolveFrom(soln, p)
  BY <1>2, SolveFromKeeps
<1>3. CASE \E p \in Priorities(NumVars) : SolveUnaware(p)
  BY <1>3, SolveUnawareKeeps
<1>4. CASE StartTry
  BY <1>4, StartTryKeeps
<1>5. CASE Exhausted \/ Solved \/ TryFailed
  BY <1>5, EndsKeep
<1>6. CASE PickPac \/ PickFirstDiv \/ PickDoubleCC \/ PickNvcc \/ PickAspiration \/ Diversify
  BY <1>6, PicksKeep
<1>7. CASE Reweigh
  BY <1>7, ReweighKeeps
<1>8. CASE FlipVar
  BY <1>8, FlipKeeps
<1>9. CASE UpdateFields
  BY <1>9, UpdateKeeps
<1>10. CASE UNCHANGED vars
  BY <1>10, StutterKeeps
<1>11. QED  BY <1>1, <1>2, <1>3, <1>4, <1>5, <1>6, <1>7, <1>8, <1>9, <1>10 DEF Next

-----------------------------------------------------------------------------
(* The theorems.  The inductive invariant, and with it the types of the    *)
(* fields and the flip variable: whatever the file, the profile and the    *)
(* first solutions, no array is read out of its bounds.                    *)
THEOREM PbInductive == Spec => []PbInv
<1>1. Init => PbInv
  BY InitPb
<1>2. PbInv /\ [Next]_vars => PbInv'
  BY PbStep
<1>3. QED  BY <1>1, <1>2, PTL DEF Spec

(* flip keeps both swap-removal stacks, their places and the counters in   *)
(* step with the solution: see StacksExact.                                *)
THEOREM StacksStayExact == Spec => []StacksExact
<1>1. PbInv => StacksExact
  BY StacksAre
<1>2. QED  BY <1>1, PbInductive, PTL

(* The scores that flip, update and the weighting schemes adjust are those *)
(* of their definition: see ScoresExact.                                   *)
THEOREM ScoresStayExact == Spec => []ScoresExact
<1>1. PbInv => ScoresExact
  BY ScoresOf
<1>2. QED  BY <1>1, PbInductive, PTL

(* The variables that the greedy steps choose from: see GoodVarsExact.     *)
THEOREM GoodVarsStayExact == Spec => []GoodVarsExact
<1>1. PbInv => GoodVarsExact
  BY GoodVarsAre
<1>2. QED  BY <1>1, PbInductive, PTL

(* A solution that solve reports satisfies every clause of the file: see   *)
(* SolvedSatisfiesFile.                                                    *)
THEOREM SolutionsSatisfy == Spec => []SolvedSatisfiesFile
<1>1. PbInv => SolvedSatisfiesFile
  BY SolvedHolds
<1>2. QED  BY <1>1, PbInductive, PTL

(* The clauses that paws notes for losing weight again have a weight above *)
(* one and are noted once: a clause is noted when it reaches weight two    *)
(* and dropped when it is back at one, whatever the flips between.  The    *)
(* weight that dec_clause_weight_paws never lets fall below one never      *)
(* would, so that the average is not lowered for a weight that stayed.     *)
NotesHeavy == pc \in {"search", "diversify", "flip", "update", "sat"} => Heavy(s.large, s.weight)

THEOREM NotesStayHeavy == Spec => []NotesHeavy
<1>1. PbInv => NotesHeavy
  BY DEF NotesHeavy, PbInv, FieldsInv, Ready, Midway, Noted
<1>2. QED  BY <1>1, PbInductive, PTL

=============================================================================
