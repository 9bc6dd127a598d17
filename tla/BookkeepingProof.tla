-------------------------- MODULE BookkeepingProof --------------------------
(***************************************************************************)
(* Proofs about Bookkeeping for any number of variables, rows, tuples and  *)
(* threads.  First the operations on lists and counters: Exact says what   *)
(* the fields hold for a relation between tuples and rows; a removal and   *)
(* an overwriting are followed through it field by field, with the row at  *)
(* work left out.  Steady is what holds between two steps; Fresh is what a *)
(* binding begins with, and Bound makes the one of the other.              *)
(* Then the state machine: its inductive invariant BookInv says for each   *)
(* phase how far its threads are and what they have made of it: Covering   *)
(* and Collecting in the two parallel loops of restart, Scanning in that   *)
(* of rebind_pos_to_idx; and in between that the fields are exact.         *)
(* Outcome says what a step does to rows and tuples: of it the refinement  *)
(* of Coverage is made.                                                    *)
(***************************************************************************)
EXTENDS Bookkeeping, Foundations

-----------------------------------------------------------------------------
(* The helpers on lists.                                                   *)
LEMMA KeptIs ==
  ASSUME NEW S, NEW list \in Seq(S), NEW set
  PROVE  /\ Kept(list, set) \in Seq(S)
         /\ Range(Kept(list, set)) = Range(list) \cap set
         /\ IsInjective(list) => IsInjective(Kept(list, set))
<1> DEFINE m == Len(list)
           Step(n, x) == IF n < m /\ list[n + 1] \in set THEN Append(x, list[n + 1]) ELSE x
           step == [n \in Nat |-> [x \in Seq(S) |-> Step(n, x)]]
           Solves(g) == g = [n \in 0 .. m |->
                          IF n = 0 THEN <<>>
                          ELSE IF list[n] \in set THEN Append(g[n - 1], list[n]) ELSE g[n - 1]]
           kept == CHOOSE g : Solves(g)
<1>1. m \in Nat /\ (\A i \in 1 .. m : list[i] \in S) /\ DOMAIN list = 1 .. m
  OBVIOUS
<1>2. Kept(list, set) = kept[m]
  BY DEF Kept
<1> HIDE DEF m
<1>3. step \in [Nat -> [Seq(S) -> Seq(S)]]
  <2>1. ASSUME NEW n \in Nat, NEW x \in Seq(S) PROVE Step(n, x) \in Seq(S)
    <3>1. CASE n < m /\ list[n + 1] \in set
      <4>1. list[n + 1] \in S
        BY <1>1, <3>1
      <4>2. QED  BY <3>1, <4>1
    <3>2. CASE ~(n < m /\ list[n + 1] \in set)
      BY <3>2
    <3>3. QED  BY <3>1, <3>2
  <2> HIDE DEF Step
  <2>2. QED  BY <2>1
<1>4. PICK g \in [0 .. m -> Seq(S)] :
        g = [n \in 0 .. m |-> IF n = 0 THEN <<>> ELSE step[n - 1][g[n - 1]]]
  <2> DEFINE first == <<>>
             T == Seq(S)
  <2> HIDE DEF step
  <2>0. first \in T
    OBVIOUS
  <2>1. first \in T /\ step \in [Nat -> [T -> T]] /\ m \in Nat
    <3> HIDE DEF first
    <3>1. QED  BY <1>1, <1>3, <2>0
  <2> HIDE DEF first, T
  <2>2. \E g : FollowsTo(g, T, m, first, step)
    BY <2>1, RecursionTo
  <2>3. QED  BY <2>2 DEF FollowsTo, first, T
<1>5. Solves(g)
  <2>1. ASSUME NEW n \in 0 .. m, n # 0
        PROVE  step[n - 1][g[n - 1]]
                 = IF list[n] \in set THEN Append(g[n - 1], list[n]) ELSE g[n - 1]
    <3>1. n - 1 \in Nat /\ n - 1 \in 0 .. m /\ n - 1 < m /\ (n - 1) + 1 = n
      BY <1>1, <2>1
    <3>2. g[n - 1] \in Seq(S)
      BY <3>1
    <3>3. step[n - 1][g[n - 1]] = Step(n - 1, g[n - 1])
      BY SMTT(60), <3>1, <3>2
    <3>4. QED  BY <3>1, <3>3
  <2> HIDE DEF step
  <2>2. QED  BY <1>4, <2>1
<1>6. Solves(kept)
  BY ZenonT(60), <1>5
<1> HIDE DEF step, kept
<1>7. /\ kept[0] = <<>>
      /\ \A n \in 0 .. m - 1 :
           kept[n + 1] = IF list[n + 1] \in set THEN Append(kept[n], list[n + 1]) ELSE kept[n]
  <2>1. 0 \in 0 .. m
    BY <1>1
  <2>2. ASSUME NEW n \in 0 .. m - 1
        PROVE  kept[n + 1] = IF list[n + 1] \in set THEN Append(kept[n], list[n + 1]) ELSE kept[n]
    <3>1. n + 1 \in 0 .. m /\ n + 1 # 0 /\ (n + 1) - 1 = n
      BY <1>1
    <3>2. QED  BY <1>6, <3>1
  <2>3. QED  BY <1>6, <2>1, <2>2
<1> HIDE DEF Solves
<1> DEFINE Seen(n) == { list[i] : i \in 1 .. n }
           Good == { n \in 0 .. m : /\ kept[n] \in Seq(S)
                                    /\ Range(kept[n]) = Seen(n) \cap set
                                    /\ IsInjective(list) => IsInjective(kept[n]) }
<1>8. 0 \in Good
  <2>1. <<>> \in Seq(S) /\ Range(<<>>) = {} /\ IsInjective(<<>>) /\ Seen(0) = {} /\ 0 \in 0 .. m
    BY <1>1 DEF Range, IsInjective
  <2> HIDE DEF Seen
  <2>2. QED  BY <1>7, <2>1
<1>9. ASSUME NEW n \in 0 .. m - 1, n \in Good
      PROVE  n + 1 \in Good
  <2>1. /\ n + 1 \in 0 .. m /\ n + 1 \in 1 .. m
        /\ Seen(n + 1) = Seen(n) \cup {list[n + 1]}
    <3>1. 1 .. n + 1 = (1 .. n) \cup {n + 1}
      BY <1>1
    <3>2. QED  BY <1>1, <3>1
  <2>2. /\ kept[n] \in Seq(S) /\ Range(kept[n]) = Seen(n) \cap set
        /\ IsInjective(list) => IsInjective(kept[n])
    BY <1>9
  <2>3. list[n + 1] \in S
    BY <1>1, <2>1
  <2>4. ASSUME IsInjective(list), NEW i \in 1 .. n, list[i] = list[n + 1] PROVE FALSE
    <3>1. i \in 1 .. m /\ n + 1 \in 1 .. m /\ i # n + 1
      BY <1>1
    <3>2. QED  BY <1>1, <2>4, <3>1 DEF IsInjective
  <2>5. IsInjective(list) => list[n + 1] \notin Seen(n)
    BY <2>4
  <2> HIDE DEF Seen
  <2>6. CASE list[n + 1] \in set
    <3> DEFINE a == Append(kept[n], list[n + 1])
    <3>1. kept[n + 1] = a
      BY <1>7, <2>6
    <3>2. /\ a \in Seq(S) /\ Range(a) = Range(kept[n]) \cup {list[n + 1]}
          /\ IsInjective(kept[n]) /\ list[n + 1] \notin Range(kept[n]) => IsInjective(a)
      BY <2>2, <2>3, ListAppend
    <3> HIDE DEF a
    <3>3. IsInjective(list) => IsInjective(a)
      BY <2>2, <2>5, <3>2
    <3>4. Range(a) = Seen(n + 1) \cap set
      BY <2>1, <2>2, <2>6, <3>2
    <3>5. QED  BY <2>1, <3>1, <3>2, <3>3, <3>4
  <2>7. CASE list[n + 1] \notin set
    <3>1. kept[n + 1] = kept[n]
      BY <1>7, <2>7
    <3>2. Seen(n + 1) \cap set = Seen(n) \cap set
      BY <2>1, <2>7
    <3>3. QED  BY <2>1, <2>2, <3>1, <3>2
  <2>8. QED  BY <2>6, <2>7
<1>10. \A n \in 0 .. m : n \in Good
  <2> HIDE DEF Good
  <2>1. QED  BY <1>1, <1>8, <1>9, Upward
<1>11. m \in Good
  <2>1. m \in 0 .. m
    BY <1>1
  <2> HIDE DEF Good
  <2>2. QED  BY <1>10, <2>1
<1>12. Seen(m) = Range(list)
  BY <1>1 DEF Range
<1>13. QED  BY <1>2, <1>11, <1>12

(* Taking one place out.                                                   *)
LEMMA SwapOutIs ==
  ASSUME NEW S, NEW list \in Seq(S), NEW p \in 1 .. Len(list)
  PROVE  /\ SwapOut(list, p) \in Seq(S)
         /\ Len(SwapOut(list, p)) = Len(list) - 1
         /\ DOMAIN SwapOut(list, p) = 1 .. Len(list) - 1
         /\ \A q \in 1 .. Len(list) - 1 :
              SwapOut(list, p)[q] = IF q = p THEN list[Len(list)] ELSE list[q]
         /\ IsInjective(list) => /\ IsInjective(SwapOut(list, p))
                                 /\ Range(SwapOut(list, p)) = Range(list) \ {list[p]}
<1> DEFINE n == Len(list)
           swapped == [list EXCEPT ![p] = list[n]]
           out == SwapOut(list, p)
<1>1. n \in Nat /\ n >= 1 /\ p \in 1 .. n /\ n \in 1 .. n /\ DOMAIN list = 1 .. n /\ n - 1 \in Nat
      /\ \A i \in 1 .. n : list[i] \in S
  OBVIOUS
<1>2. /\ swapped \in Seq(S) /\ Len(swapped) = n
      /\ \A q \in 1 .. n : swapped[q] = IF q = p THEN list[n] ELSE list[q]
  BY <1>1
<1>3. out = SubSeq(swapped, 1, n - 1)
  BY <1>2 DEF SwapOut, Front, Last
<1> HIDE DEF swapped, out, n
<1>4. /\ out \in Seq(S) /\ Len(out) = n - 1 /\ DOMAIN out = 1 .. n - 1
      /\ \A q \in 1 .. n - 1 : out[q] = swapped[q]
  BY <1>1, <1>2, <1>3
<1>5. \A q \in 1 .. n - 1 : out[q] = IF q = p THEN list[n] ELSE list[q]
  BY <1>1, <1>2, <1>4
<1>6. ASSUME IsInjective(list)
      PROVE  IsInjective(out) /\ Range(out) = Range(list) \ {list[p]}
  <2>1. IsInjective(out)
    <3>1. ASSUME NEW i \in 1 .. n - 1, NEW j \in 1 .. n - 1, out[i] = out[j] PROVE i = j
      <4> DEFINE k(q) == IF q = p THEN n ELSE q
      <4>1. k(i) \in 1 .. n /\ k(j) \in 1 .. n /\ list[k(i)] = out[i] /\ list[k(j)] = out[j]
        BY <1>1, <1>5
      <4>2. k(i) = k(j)
        BY <1>1, <1>6, <3>1, <4>1 DEF IsInjective
      <4>3. i # n /\ j # n
        BY <1>1
      <4>4. QED  BY <4>2, <4>3
    <3>2. QED  BY <1>4, <3>1 DEF IsInjective
  <2>2. ASSUME NEW i \in 1 .. n - 1 PROVE out[i] \in Range(list) \ {list[p]}
    <3>1. CASE i = p
      <4>1. out[i] = list[n] /\ n # p
        BY <1>1, <1>5, <3>1
      <4>2. list[n] # list[p]
        BY <1>1, <1>6, <4>1 DEF IsInjective
      <4>3. QED  BY <1>1, <4>1, <4>2 DEF Range
    <3>2. CASE i # p
      <4>1. out[i] = list[i] /\ i \in 1 .. n
        BY <1>1, <1>5, <3>2
      <4>2. list[i] # list[p]
        BY <1>1, <1>6, <3>2, <4>1 DEF IsInjective
      <4>3. QED  BY <1>1, <4>1, <4>2 DEF Range
    <3>3. QED  BY <3>1, <3>2
  <2>3. ASSUME NEW i \in 1 .. n, list[i] # list[p] PROVE list[i] \in Range(out)
    <3>1. CASE i = n
      <4>1. p \in 1 .. n - 1 /\ out[p] = list[n]
        BY <1>1, <1>5, <2>3, <3>1
      <4>2. QED  BY <1>4, <3>1, <4>1 DEF Range
    <3>2. CASE i # n
      <4>1. i \in 1 .. n - 1 /\ out[i] = list[i]
        BY <1>1, <1>5, <2>3, <3>2
      <4>2. QED  BY <1>4, <4>1 DEF Range
    <3>3. QED  BY <3>1, <3>2
  <2>4. Range(out) = Range(list) \ {list[p]}
    BY <1>1, <1>4, <2>2, <2>3 DEF Range
  <2>5. QED  BY <2>1, <2>4
<1>7. QED  BY <1>4, <1>5, <1>6 DEF n, out

(* Taking out one place of covered_tuples.                                 *)
TookOne(c, p, out, D) ==
  /\ IsInjective(out.tuples) /\ Range(out.tuples) = Range(c.tuples) \ {c.tuples[p]}
  /\ Len(out.tuples) = Len(c.tuples) - 1
  /\ \A q \in 1 .. Len(c.tuples) - 1 : q # p => out.tuples[q] = c.tuples[q]
  /\ \A t \in D \ Range(c.tuples) : out.places[t] = c.places[t]
  /\ (\A q \in DOMAIN c.tuples : c.places[c.tuples[q]] = q)
       => \A q \in DOMAIN out.tuples : out.places[out.tuples[q]] = q

(* TakeCovered takes out one place, if there is such a place.              *)
LEMMA TakeCoveredIs ==
  ASSUME NEW S, NEW D, S \subseteq D, NEW c \in [tuples : Seq(S), places : [D -> Nat]], NEW p \in Nat
  PROVE  /\ TakeCovered(c, p) \in [tuples : Seq(S), places : [D -> Nat]]
         /\ p \in DOMAIN c.tuples /\ IsInjective(c.tuples) => TookOne(c, p, TakeCovered(c, p), D)
<1> DEFINE list == c.tuples
           map == c.places
           n == Len(list)
           tuples == SwapOut(list, p)
           places == [map EXCEPT ![Last(list)] = p]
<1>1. TakeCovered(c, p) = [tuples |-> tuples, places |-> places]
  BY DEF TakeCovered
<1>2. list \in Seq(S) /\ map \in [D -> Nat] /\ n \in Nat /\ DOMAIN list = 1 .. n
  OBVIOUS
<1>3. places \in [D -> Nat]
  BY <1>2
<1>4. CASE p \notin DOMAIN list
  <2>1. [list EXCEPT ![p] = Last(list)] = list
    BY <1>2, <1>4
  <2>2. tuples = SubSeq(list, 1, n - 1)
    BY <2>1 DEF SwapOut, Front
  <2> HIDE DEF places, list, map
  <2>3. tuples \in Seq(S)
    BY <1>2, <2>2
  <2>4. QED  BY <1>1, <1>3, <1>4, <2>3 DEF list
<1>5. CASE p \in DOMAIN list
  <2>1. /\ tuples \in Seq(S) /\ Len(tuples) = n - 1 /\ DOMAIN tuples = 1 .. n - 1
        /\ \A q \in 1 .. n - 1 : tuples[q] = IF q = p THEN list[n] ELSE list[q]
        /\ IsInjective(list) => IsInjective(tuples) /\ Range(tuples) = Range(list) \ {list[p]}
    <3> HIDE DEF list
    <3>1. list \in Seq(S) /\ p \in 1 .. Len(list)
      BY <1>2, <1>5
    <3>2. QED  BY <3>1, SwapOutIs
  <2>2. /\ Last(list) = list[n] /\ n \in DOMAIN list /\ list[n] \in S /\ list[n] \in D
        /\ list[n] \in Range(list) /\ n >= 1
    BY <1>2, <1>5 DEF Last, Range
  <2>3. \A t \in D : places[t] = IF t = list[n] THEN p ELSE map[t]
    BY <1>2, <2>2
  <2> HIDE DEF tuples, places, list, map
  <2>4. ASSUME IsInjective(list), \A q \in DOMAIN list : map[list[q]] = q, NEW q \in DOMAIN tuples
        PROVE  places[tuples[q]] = q
    <3>1. q \in 1 .. n - 1 /\ q \in 1 .. n /\ q # n
      BY <1>2, <2>1
    <3>2. CASE q = p
      <4>1. tuples[q] = list[n]
        BY <2>1, <3>1, <3>2
      <4>2. QED  BY <2>2, <2>3, <3>2, <4>1
    <3>3. CASE q # p
      <4>1. tuples[q] = list[q] /\ list[q] \in D
        <5>1. tuples[q] = list[q]
          BY <2>1, <3>1, <3>3
        <5>2. list[q] \in S
          BY <1>2, <3>1
        <5>3. QED  BY <5>1, <5>2
      <4>2. list[q] # list[n]
        BY <1>2, <2>2, <2>4, <3>1 DEF IsInjective
      <4>3. QED  BY <1>2, <2>3, <2>4, <3>1, <4>1, <4>2
    <3>4. QED  BY <3>2, <3>3
  <2>5. \A t \in D \ Range(list) : places[t] = map[t]
    BY <2>2, <2>3
  <2> DEFINE out == TakeCovered(c, p)
  <2>6. out.tuples = tuples /\ out.places = places /\ out \in [tuples : Seq(S), places : [D -> Nat]]
    BY <1>1, <1>3, <2>1
  <2> HIDE DEF out
  <2>7. IsInjective(list) =>
                 /\ IsInjective(out.tuples) /\ Range(out.tuples) = Range(list) \ {list[p]}
                 /\ Len(out.tuples) = n - 1
                 /\ \A q \in 1 .. n - 1 : q # p => out.tuples[q] = list[q]
                 /\ \A t \in D \ Range(list) : out.places[t] = map[t]
                 /\ (\A q \in DOMAIN list : map[list[q]] = q)
                      => \A q \in DOMAIN out.tuples : out.places[out.tuples[q]] = q
    BY <2>1, <2>4, <2>5, <2>6
  <2>8. IsInjective(list) => TookOne(c, p, out, D)
    BY <2>7 DEF TookOne, list, map
  <2>9. QED  BY <2>6, <2>8 DEF out, list
<1>6. QED  BY <1>4, <1>5

(* Taking out several, from the back.                                      *)
TookOut(out, S, D, list, map, gone) ==
  /\ out.tuples \in Seq(S) /\ out.places \in [D -> Nat]
  /\ IsInjective(out.tuples)
  /\ Range(out.tuples) = { list[q] : q \in DOMAIN list \ gone }
  /\ \A t \in D \ Range(list) : out.places[t] = map[t]
  /\ (\A q \in DOMAIN list : map[list[q]] = q)
       => \A q \in DOMAIN out.tuples : out.places[out.tuples[q]] = q

(* Taking places out one by one, from the back, takes out what was at them *)
(* and nothing else: what moves into a place comes from a place that has   *)
(* been passed already.                                                    *)
LEMMA TakenOutIs ==
  ASSUME NEW S, NEW D, S \subseteq D, NEW list \in Seq(S), IsInjective(list),
         NEW map \in [D -> Nat], NEW gone
  PROVE  TookOut(TakenOut([tuples |-> list, places |-> map], gone), S, D, list, map, gone)
<1> DEFINE c == [tuples |-> list, places |-> map]
           n == Len(list)
           T == [tuples : Seq(S), places : [D -> Nat]]
           Step(x, p) == IF p \in gone THEN TakeCovered(x, p) ELSE x
           step == [k \in Nat |-> [x \in T |-> IF k < n THEN Step(x, n - k) ELSE x]]
           Solves(g) == g = [p \in 1 .. n + 1 |-> IF p = n + 1 THEN c
                                                  ELSE IF p \in gone THEN TakeCovered(g[p + 1], p)
                                                  ELSE g[p + 1]]
           after == CHOOSE g : Solves(g)
           out == TakenOut(c, gone)
<1>1. /\ n \in Nat /\ DOMAIN list = 1 .. n /\ c \in T /\ c.tuples = list /\ c.places = map
      /\ \A q \in 1 .. n : list[q] \in S
  OBVIOUS
<1>2. out = after[1]
  BY DEF TakenOut
<1> HIDE DEF n, c
<1>3. ASSUME NEW x \in T, NEW p \in Nat PROVE Step(x, p) \in T
  <2>1. TakeCovered(x, p) \in T
    BY TakeCoveredIs
  <2>2. QED  BY <2>1
<1>4. PICK h : FollowsTo(h, T, n, c, step)
  <2>1. step \in [Nat -> [T -> T]]
    <3>1. ASSUME NEW k \in Nat, NEW x \in T PROVE (IF k < n THEN Step(x, n - k) ELSE x) \in T
      <4>1. CASE k < n
        <5>1. n - k \in Nat
          BY <1>1, <4>1
        <5> HIDE DEF Step, T
        <5>2. QED  BY <1>3, <4>1, <5>1
      <4>2. QED  BY <4>1
    <3> HIDE DEF Step, T
    <3>2. QED  BY <3>1
  <2> HIDE DEF step, T
  <2>2. QED  BY <1>1, <2>1, RecursionTo
<1>5. /\ h \in [0 .. n -> T] /\ h[0] = c
      /\ \A k \in 1 .. n : h[k] = Step(h[k - 1], n - (k - 1))
  <2>1. /\ h \in [0 .. n -> T]
        /\ h = [k \in 0 .. n |-> IF k = 0 THEN c ELSE step[k - 1][h[k - 1]]]
    BY <1>4 DEF FollowsTo
  <2> HIDE DEF T, Step
  <2>2. h[0] = c
    BY <1>1, <2>1
  <2>3. ASSUME NEW k \in 1 .. n PROVE h[k] = Step(h[k - 1], n - (k - 1))
    <3>1. k - 1 \in 0 .. n /\ k - 1 \in Nat /\ k - 1 < n /\ k \in 0 .. n /\ k # 0
      BY <1>1
    <3>2. h[k] = step[k - 1][h[k - 1]] /\ h[k - 1] \in T
      BY <2>1, <3>1
    <3>3. QED  BY <3>1, <3>2
  <2>4. QED  BY <2>1, <2>2, <2>3
<1> HIDE DEF step
<1>6. Solves(after)
  <2> DEFINE g == [p \in 1 .. n + 1 |-> h[n + 1 - p]]
  <2>1. ASSUME NEW p \in 1 .. n + 1
        PROVE  g[p] = IF p = n + 1 THEN c ELSE IF p \in gone THEN TakeCovered(g[p + 1], p) ELSE g[p + 1]
    <3>1. CASE p = n + 1
      <4>1. n + 1 - p = 0
        BY <1>1, <3>1
      <4>2. QED  BY <1>5, <3>1, <4>1
    <3>2. CASE p # n + 1
      <4> DEFINE k == n + 1 - p
      <4>1. k \in 1 .. n /\ n - (k - 1) = p /\ n + 1 - (p + 1) = k - 1 /\ p + 1 \in 1 .. n + 1
        BY <1>1, <3>2
      <4>2. g[p + 1] = h[k - 1] /\ g[p] = h[k]
        BY <4>1
      <4> HIDE DEF g, k
      <4>3. h[k] = Step(h[k - 1], p)
        BY <1>5, <4>1
      <4>4. QED  BY <3>2, <4>2, <4>3
    <3>3. QED  BY <3>1, <3>2
  <2>2. Solves(g)
    BY <2>1
  <2>3. QED  BY <2>2
<1> HIDE DEF after
<1>7. /\ after[n + 1] = c
      /\ \A p \in 1 .. n : after[p] = Step(after[p + 1], p)
  <2>1. n + 1 \in 1 .. n + 1
    BY <1>1
  <2>2. ASSUME NEW p \in 1 .. n PROVE after[p] = Step(after[p + 1], p)
    <3>1. p \in 1 .. n + 1 /\ p # n + 1
      BY <1>1
    <3>2. QED  BY <1>6, <3>1
  <2>3. QED  BY <1>6, <2>1, <2>2
<1> HIDE DEF Solves, Step
<1> DEFINE Stays(p) == { list[q] : q \in { q \in 1 .. n : q < p \/ q \notin gone } }
           Exact(x) == \A q \in DOMAIN x.tuples : x.places[x.tuples[q]] = q
           Fine(p, x) == /\ x \in T
                         /\ IsInjective(x.tuples) /\ Range(x.tuples) = Stays(p)
                         /\ Len(x.tuples) >= p - 1
                         /\ \A q \in 1 .. p - 1 : x.tuples[q] = list[q]
                         /\ \A t \in D \ Range(list) : x.places[t] = map[t]
                         /\ Exact(c) => Exact(x)
<1>8. Fine(n + 1, c)
  <2>1. Stays(n + 1) = Range(list)
    BY <1>1 DEF Range
  <2>2. Len(c.tuples) >= (n + 1) - 1 /\ (n + 1) - 1 = n
    BY <1>1 DEF n
  <2>3. QED  BY <1>1, <2>1, <2>2
<1>9. ASSUME NEW p \in 1 .. n, NEW x, Fine(p + 1, x)
      PROVE  Fine(p, Step(x, p))
  <2>1. /\ x \in T /\ IsInjective(x.tuples) /\ Range(x.tuples) = Stays(p + 1)
        /\ Len(x.tuples) >= p /\ \A q \in 1 .. p : x.tuples[q] = list[q]
        /\ \A t \in D \ Range(list) : x.places[t] = map[t]
        /\ Exact(c) => Exact(x)
    <3>1. p \in Int /\ (p + 1) - 1 = p
      OBVIOUS
    <3> HIDE DEF Stays, Exact, T
    <3>2. QED  BY <1>9, <3>1
  <2>2. CASE p \notin gone
    <3>1. Step(x, p) = x
      BY <2>2 DEF Step
    <3>2. Stays(p) = Stays(p + 1)
      <4>1. ASSUME NEW q \in 1 .. n PROVE (q < p \/ q \notin gone) <=> (q < p + 1 \/ q \notin gone)
        BY <2>2
      <4>2. QED  BY <4>1
    <3>3. \A q \in 1 .. p - 1 : x.tuples[q] = list[q]
      <4>1. \A q \in 1 .. p - 1 : q \in 1 .. p
        OBVIOUS
      <4> HIDE DEF T
      <4>2. QED  BY <2>1, <4>1
    <3>4. Len(x.tuples) >= p - 1
      BY <2>1
    <3> HIDE DEF Stays, Exact, T
    <3>5. QED  BY <2>1, <3>1, <3>2, <3>3, <3>4
  <2>3. CASE p \in gone
    <3> DEFINE y == TakeCovered(x, p)
               m == Len(x.tuples)
    <3>1. Step(x, p) = y
      BY <2>3 DEF Step
    <3>2. p \in Nat /\ p \in DOMAIN x.tuples /\ m \in Nat /\ x.tuples[p] = list[p]
      BY SMTT(60), <2>1
    <3>3. /\ y \in T
          /\ IsInjective(y.tuples) /\ Range(y.tuples) = Range(x.tuples) \ {x.tuples[p]}
          /\ Len(y.tuples) = m - 1
          /\ \A q \in 1 .. m - 1 : q # p => y.tuples[q] = x.tuples[q]
          /\ \A t \in D \ Range(x.tuples) : y.places[t] = x.places[t]
          /\ Exact(x) => Exact(y)
      <4>1. /\ x \in [tuples : Seq(S), places : [D -> Nat]] /\ p \in Nat /\ S \subseteq D
            /\ p \in DOMAIN x.tuples /\ IsInjective(x.tuples)
        BY <2>1, <3>2
      <4>2. y \in [tuples : Seq(S), places : [D -> Nat]] /\ TookOne(x, p, y, D)
        BY ONLY <4>1, TakeCoveredIs
      <4>3. QED  BY <4>2 DEF TookOne
    <3>4. Stays(p + 1) \subseteq Range(list) /\ Stays(p) = Stays(p + 1) \ {list[p]}
      <4>1. Stays(p + 1) \subseteq Range(list)
        BY <1>1 DEF Range
      <4>2. ASSUME NEW q \in 1 .. n
            PROVE  (q < p \/ q \notin gone) <=> ((q < p + 1 \/ q \notin gone) /\ list[q] # list[p])
        <5>1. list[q] = list[p] <=> q = p
          BY <1>1 DEF IsInjective
        <5>2. QED  BY <2>3, <5>1
      <4>3. Stays(p) = Stays(p + 1) \ {list[p]}
        BY <4>2
      <4>4. QED  BY <4>1, <4>3
    <3> HIDE DEF y, Exact, Stays
    <3>5. \A t \in D \ Range(list) : y.places[t] = map[t]
      BY <2>1, <3>3, <3>4
    <3>6. m \in Nat /\ m >= p
      BY <2>1, <3>2
    <3> HIDE DEF T, m
    <3>7. \A q \in 1 .. p - 1 : y.tuples[q] = list[q]
      <4>1. \A q \in 1 .. p - 1 : q \in 1 .. p /\ q \in 1 .. m - 1 /\ q # p
        BY <3>6
      <4>2. QED  BY <2>1, <3>3, <4>1
    <3>8. Len(y.tuples) >= p - 1
      BY <3>3, <3>6
    <3>9. Range(y.tuples) = Stays(p)
      BY <2>1, <3>2, <3>3, <3>4
    <3>10. QED  BY <2>1, <3>1, <3>3, <3>5, <3>7, <3>8, <3>9
  <2>4. QED  BY <2>2, <2>3
<1> HIDE DEF Fine
<1>10. Fine(1, after[1])
  <2> DEFINE Good == { k \in 0 .. n : Fine(n + 1 - k, after[n + 1 - k]) }
  <2>1. 0 \in Good
    <3>1. n + 1 - 0 = n + 1 /\ 0 \in 0 .. n
      BY <1>1
    <3>2. QED  BY <1>7, <1>8, <3>1
  <2>2. ASSUME NEW k \in 0 .. n - 1, k \in Good PROVE k + 1 \in Good
    <3> DEFINE p == n - k
    <3>1. p \in 1 .. n /\ n + 1 - k = p + 1 /\ n + 1 - (k + 1) = p /\ k + 1 \in 0 .. n
      BY <1>1
    <3> HIDE DEF p
    <3>2. Fine(p + 1, after[p + 1])
      BY <2>2, <3>1
    <3>3. Fine(p, after[p])
      BY <1>7, <1>9, <3>1, <3>2
    <3>4. QED  BY <3>1, <3>3
  <2>3. n \in Good
    <3>1. \A k \in 0 .. n : k \in Good
      <4> HIDE DEF Good
      <4>1. QED  BY <1>1, <2>1, <2>2, Upward
    <3>2. n \in 0 .. n
      BY <1>1
    <3> HIDE DEF Good
    <3>3. QED  BY <3>1, <3>2
  <2>4. n + 1 - n = 1
    BY <1>1
  <2>5. QED  BY <2>3, <2>4
<1>11. Stays(1) = { list[q] : q \in DOMAIN list \ gone }
  <2>1. ASSUME NEW q \in 1 .. n PROVE (q < 1 \/ q \notin gone) <=> q \notin gone
    OBVIOUS
  <2>2. QED  BY <1>1, <2>1
<1>12. Exact(c) <=> \A q \in DOMAIN list : map[list[q]] = q
  BY <1>1
<1> HIDE DEF Exact, Stays, out
<1>13. /\ out \in T
       /\ IsInjective(out.tuples) /\ Range(out.tuples) = Stays(1)
       /\ \A t \in D \ Range(list) : out.places[t] = map[t]
       /\ Exact(c) => Exact(out)
  BY <1>2, <1>10 DEF Fine
<1>14. out.tuples \in Seq(S) /\ out.places \in [D -> Nat]
  BY <1>13
<1>15. QED  BY <1>11, <1>12, <1>13, <1>14 DEF TookOut, Exact, out, c

-----------------------------------------------------------------------------
(* What the fields hold, for a relation C between tuples and rows and the  *)
(* rows S that it is about: in between the steps these are all rows, and C *)
(* is which of them cover the tuple; within a removal or an overwriting    *)
(* the row at work is left out, or has only some of its tuples yet.        *)
Fields ==
  { "tuplesU", "testcases", "coveredTimes", "coveredTuples", "uncoveredTuples", "tuplesIdxToPos",
    "testcaseIdx", "testcasePosToIdx", "testcaseIdxToPos", "tcCoveredTuples",
    "uniqueCoveredTuples", "coveredTestcases", "weight", "sumWeight", "clausesCov",
    "greedyLimit", "lastGreedyTime" }

IdsOf(b) == DOMAIN b.tuplesU
PlacesOf(b) == DOMAIN b.testcases
Held(C, p) == { t \in DOMAIN C : p \in C[t] }
Sole(C, p) == { t \in DOMAIN C : C[t] = {p} }
OneRow(C, S) == { t \in DOMAIN C : \E q \in S : C[t] = {q} }
NamesOf(b, ps) == { b.testcasePosToIdx[p] : p \in ps }

Shape(b, S, C) ==
  /\ Fields \subseteq DOMAIN b
  /\ b.tuplesU \in Seq(Tuple) /\ b.testcases \in Seq(Row)
  /\ S \subseteq PlacesOf(b)
  /\ C \in [IdsOf(b) -> SUBSET S]

Counted(b, S, C) ==
  /\ b.coveredTimes \in [IdsOf(b) -> Nat]
  /\ b.tcCoveredTuples \in [PlacesOf(b) -> Seq(IdsOf(b))]
  /\ \A t \in IdsOf(b) : b.coveredTimes[t] = Cardinality(C[t])
  /\ \A p \in S : Lists(b.tcCoveredTuples[p], Held(C, p))

Placed(b, C) ==
  /\ b.coveredTuples \in Seq(IdsOf(b)) /\ b.uncoveredTuples \in Seq(IdsOf(b))
  /\ b.tuplesIdxToPos \in [IdsOf(b) -> Nat]
  /\ Lists(b.coveredTuples, { t \in IdsOf(b) : C[t] # {} })
  /\ Lists(b.uncoveredTuples, { t \in IdsOf(b) : C[t] = {} })
  /\ \A q \in DOMAIN b.coveredTuples : b.tuplesIdxToPos[b.coveredTuples[q]] = q

Weighed(b, S, C) ==
  /\ b.uniqueCoveredTuples \in [PlacesOf(b) -> Seq(IdsOf(b))]
  /\ b.weight \in [IdsOf(b) -> 1 .. MaxWeight]
  /\ b.sumWeight \in [PlacesOf(b) -> Nat]
  /\ \A p \in S : /\ Lists(b.uniqueCoveredTuples[p], Sole(C, p))
                  /\ b.sumWeight[p] = WeightIn(b, Sole(C, p))

(* The places and names of the rows are each other's inverse, and a list   *)
(* of names is exact as far as the names live.                             *)
Named(b, S) ==
  /\ b.testcaseIdx \in 0 .. MaxIdx
  /\ b.testcaseIdxToPos \in Seq(Nat) /\ Len(b.testcaseIdxToPos) = b.testcaseIdx
  /\ b.testcasePosToIdx \in Seq(1 .. MaxIdx) /\ Len(b.testcases) <= Len(b.testcasePosToIdx)
  /\ \A p \in S : /\ b.testcasePosToIdx[p] \in 1 .. b.testcaseIdx
                  /\ b.testcaseIdxToPos[b.testcasePosToIdx[p]] = p
  /\ \A idx \in Alive(b) : /\ b.testcaseIdxToPos[idx] \in S
                           /\ b.testcasePosToIdx[b.testcaseIdxToPos[idx]] = idx

NamesListed(b, C) ==
  /\ b.coveredTestcases \in [IdsOf(b) -> Seq(1 .. b.testcaseIdx)]
  /\ \A t \in IdsOf(b) :
       /\ IsInjective(b.coveredTestcases[t])
       /\ Range(b.coveredTestcases[t]) \cap Alive(b) = NamesOf(b, C[t])

(* The names of rows.                                                      *)
LEMMA NamesDiffer ==
  ASSUME NEW b, NEW S, Named(b, S), S \subseteq PlacesOf(b), b.testcases \in Seq(Row)
  PROVE  /\ \A p \in S : b.testcasePosToIdx[p] \in Alive(b) /\ p \in 1 .. Len(b.testcases)
         /\ \A p, q \in S : b.testcasePosToIdx[p] = b.testcasePosToIdx[q] => p = q
<1>1. \A p \in S : p \in 1 .. Len(b.testcases)
  BY DEF PlacesOf
<1>2. DOMAIN b.testcaseIdxToPos = 1 .. b.testcaseIdx
  BY DEF Named
<1>3. ASSUME NEW p \in S PROVE b.testcasePosToIdx[p] \in Alive(b)
  <2>1. b.testcasePosToIdx[p] \in 1 .. b.testcaseIdx /\ b.testcaseIdxToPos[b.testcasePosToIdx[p]] = p
    BY DEF Named
  <2>2. p > 0
    BY <1>1
  <2>3. QED  BY <1>2, <2>1, <2>2 DEF Alive
<1>4. \A p, q \in S : b.testcasePosToIdx[p] = b.testcasePosToIdx[q] => p = q
  BY DEF Named
<1>5. QED  BY <1>1, <1>3, <1>4

(* The live names of a tuple, and the one row that covers it.              *)
LEMMA LiveIs ==
  ASSUME NEW b, NEW S, NEW C, Shape(b, S, C), NamesListed(b, C), NEW t \in IdsOf(b)
  PROVE  /\ Live(b, t) \in Seq(1 .. b.testcaseIdx) /\ IsInjective(Live(b, t))
         /\ Range(Live(b, t)) = NamesOf(b, C[t])
<1> DEFINE T == 1 .. b.testcaseIdx
           list == b.coveredTestcases[t]
<1>1. list \in Seq(T) /\ IsInjective(list) /\ Range(list) \cap Alive(b) = NamesOf(b, C[t])
  BY DEF NamesListed
<1> HIDE DEF T, list
<1>2. /\ Kept(list, Alive(b)) \in Seq(T)
      /\ Range(Kept(list, Alive(b))) = Range(list) \cap Alive(b)
      /\ IsInjective(Kept(list, Alive(b)))
  BY <1>1, KeptIs
<1>3. QED  BY <1>1, <1>2 DEF Live, T, list

(* The front live name of a tuple that one row covers is that row's.       *)
LEMMA HolderIs ==
  ASSUME NEW b, NEW S, NEW C, Shape(b, S, C), Named(b, S), NamesListed(b, C),
         NEW t \in IdsOf(b), NEW q \in S, C[t] = {q}
  PROVE  Holder(b, t) = q
<1> DEFINE live == Live(b, t)
<1>1. live \in Seq(1 .. b.testcaseIdx) /\ Range(live) = {b.testcasePosToIdx[q]}
  <2>1. Range(live) = NamesOf(b, C[t]) /\ live \in Seq(1 .. b.testcaseIdx)
    BY LiveIs
  <2> HIDE DEF live
  <2>2. QED  BY <2>1 DEF NamesOf
<1> HIDE DEF live
<1>2. PICK i \in DOMAIN live : live[i] = b.testcasePosToIdx[q]
  BY <1>1 DEF Range
<1>3. Head(live) = live[1] /\ 1 \in DOMAIN live
  BY <1>1, <1>2
<1>4. Head(live) = b.testcasePosToIdx[q]
  BY <1>1, <1>3 DEF Range
<1>5. QED  BY <1>4 DEF Holder, live, Named

(* Of tuples that each have one row, those held at a place are those that  *)
(* the row there covers alone.                                             *)
LEMMA HeldAtIs ==
  ASSUME NEW b, NEW S, NEW C, Shape(b, S, C), Named(b, S), NamesListed(b, C),
         NEW T \in SUBSET OneRow(C, S), NEW q \in PlacesOf(b)
  PROVE  HeldAt(b, T, q) = IF q \in S THEN T \cap Sole(C, q) ELSE {}
<1>1. DOMAIN C = IdsOf(b)
  BY DEF Shape
<1>2. ASSUME NEW t \in T
      PROVE  Holder(b, t) = q <=> q \in S /\ C[t] = {q}
  <2>1. t \in IdsOf(b)
    BY <1>1 DEF OneRow
  <2>2. PICK r \in S : C[t] = {r}
    BY DEF OneRow
  <2>3. Holder(b, t) = r
    BY <2>1, <2>2, HolderIs
  <2>4. QED  BY <2>2, <2>3
<1>3. QED  BY <1>1, <1>2 DEF HeldAt, Sole, OneRow

(* Sums of weights.                                                        *)
LEMMA WeightIs ==
  ASSUME NEW b, b.tuplesU \in Seq(Tuple), b.weight \in [IdsOf(b) -> 1 .. MaxWeight]
  PROVE  /\ WeightIn(b, {}) = 0
         /\ \A s \in SUBSET IdsOf(b) : WeightIn(b, s) \in Nat
         /\ \A s, r \in SUBSET IdsOf(b) :
              s \cap r = {} => WeightIn(b, s \cup r) = WeightIn(b, s) + WeightIn(b, r)
         /\ IsFiniteSet(IdsOf(b))
<1> DEFINE I == IdsOf(b)
           f == b.weight
           n == Len(b.tuplesU)
<1>1. I = 1 .. n /\ n \in Nat
  BY DEF IdsOf
<1> HIDE DEF n
<1>2. IsFiniteSet(1 .. n)
  <2>1. 1 \in Int /\ n \in Int
    BY <1>1
  <2>2. QED  BY <2>1, FS_Interval
<1>3. IsFiniteSet(I) /\ \A x \in I : f[x] \in Nat /\ f[x] \in Int
  <2>1. MaxWeight \in Nat
    BY BookkeepingAssumption
  <2>2. QED  BY <1>1, <1>2, <2>1
<1> HIDE DEF I, f
<1>4. SumFunctionOnSet(f, {}) = 0
  BY FS_EmptySet, SumUnfolds
<1>5. ASSUME NEW s \in SUBSET I PROVE SumFunctionOnSet(f, s) \in Nat
  <2>1. IsFiniteSet(s) /\ \A x \in s : f[x] \in Nat
    BY <1>3, FS_Subset
  <2>2. QED  BY <2>1, SumNatural
<1>6. ASSUME NEW s \in SUBSET I, NEW r \in SUBSET I, s \cap r = {}
      PROVE  SumFunctionOnSet(f, s \cup r) = SumFunctionOnSet(f, s) + SumFunctionOnSet(f, r)
  <2>1. \A x \in I : f[x] \in Int
    BY <1>3
  <2>2. QED  BY ONLY <1>3, <1>6, <2>1, s \in SUBSET I, r \in SUBSET I, SumSplit
<1>7. QED  BY <1>3, <1>4, <1>5, <1>6 DEF WeightIn, I, f

(* Tuples with one row left go to that row.                                *)
Joins(b, d, S, C, single) ==
  /\ Fields \subseteq DOMAIN d
  /\ d.tuplesU = b.tuplesU /\ d.testcases = b.testcases /\ d.coveredTimes = b.coveredTimes
  /\ d.coveredTuples = b.coveredTuples /\ d.uncoveredTuples = b.uncoveredTuples
  /\ d.tuplesIdxToPos = b.tuplesIdxToPos /\ d.testcaseIdx = b.testcaseIdx
  /\ d.testcasePosToIdx = b.testcasePosToIdx /\ d.testcaseIdxToPos = b.testcaseIdxToPos
  /\ d.tcCoveredTuples = b.tcCoveredTuples /\ d.weight = b.weight
  /\ d.clausesCov = b.clausesCov /\ d.greedyLimit = b.greedyLimit
  /\ d.lastGreedyTime = b.lastGreedyTime
  /\ NamesListed(d, C)
  /\ d.uniqueCoveredTuples \in [PlacesOf(b) -> Seq(IdsOf(b))]
  /\ d.sumWeight \in [PlacesOf(b) -> Nat]
  /\ \A q \in S :
       LET more == Range(single) \cap Sole(C, q)
           list == b.uniqueCoveredTuples[q]
       IN /\ Range(d.uniqueCoveredTuples[q]) = Range(list) \cup more
          /\ IsInjective(list) /\ Range(list) \cap more = {} => IsInjective(d.uniqueCoveredTuples[q])
          /\ d.sumWeight[q] = b.sumWeight[q] + WeightIn(b, more)

(* Tuples with one row left join the unique list and the weight of that    *)
(* row and of no other.                                                    *)
LEMMA BecomeUniqueIs ==
  ASSUME NEW b, NEW S, NEW C, Shape(b, S, C), Named(b, S), NamesListed(b, C),
         b.uniqueCoveredTuples \in [PlacesOf(b) -> Seq(IdsOf(b))],
         b.weight \in [IdsOf(b) -> 1 .. MaxWeight], b.sumWeight \in [PlacesOf(b) -> Nat],
         NEW single \in Seq(IdsOf(b)), IsInjective(single),
         Range(single) \subseteq OneRow(C, S)
  PROVE  Joins(b, BecomeUnique(b, single), S, C, single)
<1> DEFINE d == BecomeUnique(b, single)
           I == IdsOf(b)
           P == PlacesOf(b)
           U == Range(single)
           at(q) == HeldAt(b, U, q)
<1>1. /\ Fields \subseteq DOMAIN d
      /\ d.tuplesU = b.tuplesU /\ d.testcases = b.testcases /\ d.coveredTimes = b.coveredTimes
      /\ d.coveredTuples = b.coveredTuples /\ d.uncoveredTuples = b.uncoveredTuples
      /\ d.tuplesIdxToPos = b.tuplesIdxToPos /\ d.testcaseIdx = b.testcaseIdx
      /\ d.testcasePosToIdx = b.testcasePosToIdx /\ d.testcaseIdxToPos = b.testcaseIdxToPos
      /\ d.tcCoveredTuples = b.tcCoveredTuples /\ d.weight = b.weight
      /\ d.clausesCov = b.clausesCov /\ d.greedyLimit = b.greedyLimit
      /\ d.lastGreedyTime = b.lastGreedyTime
  BY DEF Shape, Fields, BecomeUnique
<1>2. /\ d.coveredTestcases = [t \in I |-> IF t \in U THEN Live(b, t) ELSE b.coveredTestcases[t]]
      /\ d.uniqueCoveredTuples = [q \in P |-> b.uniqueCoveredTuples[q] \o Kept(single, at(q))]
      /\ d.sumWeight = [q \in P |-> b.sumWeight[q] + WeightIn(b, at(q))]
  <2>1. DOMAIN b.coveredTestcases = I /\ DOMAIN b.uniqueCoveredTuples = P /\ DOMAIN b.sumWeight = P
    BY DEF NamesListed
  <2>2. {"coveredTestcases", "uniqueCoveredTuples", "sumWeight"} \subseteq DOMAIN b
    BY DEF Shape, Fields
  <2> HIDE DEF at, I, P
  <2>3. QED  BY <2>1, <2>2 DEF BecomeUnique, at
<1> HIDE DEF d
<1>3. U \in SUBSET I
  BY DEF Range
<1>4. \A q \in P : at(q) = IF q \in S THEN U \cap Sole(C, q) ELSE {}
  <2>1. DOMAIN C = I /\ U \in SUBSET OneRow(C, S)
    BY <1>3 DEF Shape, OneRow
  <2> HIDE DEF U
  <2>2. QED  BY <2>1, HeldAtIs
<1> HIDE DEF at, U
<1>5. NamesListed(d, C)
  <2>1. IdsOf(d) = I /\ Alive(d) = Alive(b) /\ \A t \in I : NamesOf(d, C[t]) = NamesOf(b, C[t])
    BY <1>1 DEF IdsOf, Alive, NamesOf
  <2>2. ASSUME NEW t \in I
        PROVE  /\ d.coveredTestcases[t] \in Seq(1 .. b.testcaseIdx)
               /\ IsInjective(d.coveredTestcases[t])
               /\ Range(d.coveredTestcases[t]) \cap Alive(b) = NamesOf(b, C[t])
    <3>1. CASE t \in U
      <4>1. d.coveredTestcases[t] = Live(b, t)
        BY <1>2, <3>1
      <4>2. /\ Live(b, t) \in Seq(1 .. b.testcaseIdx) /\ IsInjective(Live(b, t))
            /\ Range(Live(b, t)) = NamesOf(b, C[t])
        BY LiveIs
      <4>3. NamesOf(b, C[t]) \subseteq Alive(b)
        BY DEF NamesListed
      <4>4. QED  BY <4>1, <4>2, <4>3
    <3>2. CASE t \notin U
      <4>1. d.coveredTestcases[t] = b.coveredTestcases[t]
        BY <1>2, <3>2
      <4>2. QED  BY <4>1 DEF NamesListed
    <3>3. QED  BY <3>1, <3>2
  <2>3. d.coveredTestcases \in [I -> Seq(1 .. b.testcaseIdx)]
    <3>1. DOMAIN d.coveredTestcases = I
      BY <1>2
    <3>2. d.coveredTestcases = [t \in I |-> d.coveredTestcases[t]]
      BY <1>2
    <3> HIDE DEF I
    <3>3. QED  BY <2>2, <3>1, <3>2
  <2>4. QED  BY <1>1, <2>1, <2>2, <2>3 DEF NamesListed
<1>6. ASSUME NEW q \in P
      PROVE  /\ d.uniqueCoveredTuples[q] \in Seq(I)
             /\ Range(d.uniqueCoveredTuples[q]) = Range(b.uniqueCoveredTuples[q]) \cup at(q)
             /\ IsInjective(b.uniqueCoveredTuples[q]) /\ Range(b.uniqueCoveredTuples[q]) \cap at(q) = {}
                  => IsInjective(d.uniqueCoveredTuples[q])
  <2> DEFINE old == b.uniqueCoveredTuples[q]
             new == Kept(single, at(q))
  <2>1. new \in Seq(I) /\ Range(new) = U \cap at(q) /\ IsInjective(new)
    BY KeptIs DEF U
  <2>2. old \in Seq(I)
    OBVIOUS
  <2>3. U \cap at(q) = at(q)
    BY <1>4
  <2>4. d.uniqueCoveredTuples[q] = old \o new
    BY <1>2
  <2> HIDE DEF old, new
  <2>5. /\ old \o new \in Seq(I) /\ Range(old \o new) = Range(old) \cup Range(new)
        /\ IsInjective(old) /\ IsInjective(new) /\ Range(old) \cap Range(new) = {}
             => IsInjective(old \o new)
    BY <2>1, <2>2, ListConcat
  <2>6. QED  BY <2>1, <2>3, <2>4, <2>5 DEF old
<1>7. d.uniqueCoveredTuples \in [P -> Seq(I)]
  <2>1. d.uniqueCoveredTuples = [q \in P |-> d.uniqueCoveredTuples[q]]
    BY <1>2
  <2> HIDE DEF P, I
  <2>2. QED  BY <1>6, <2>1
<1>8. ASSUME NEW q \in P
      PROVE  d.sumWeight[q] = b.sumWeight[q] + WeightIn(b, at(q)) /\ d.sumWeight[q] \in Nat
  <2>1. at(q) \in SUBSET I
    BY <1>3, <1>4
  <2>2. WeightIn(b, at(q)) \in Nat
    BY <2>1, WeightIs DEF Shape
  <2>3. b.sumWeight[q] \in Nat /\ d.sumWeight[q] = b.sumWeight[q] + WeightIn(b, at(q))
    BY <1>2
  <2>4. QED  BY <2>2, <2>3
<1>9. d.sumWeight \in [P -> Nat]
  <2>1. d.sumWeight = [q \in P |-> d.sumWeight[q]]
    BY <1>2
  <2> HIDE DEF P
  <2>2. QED  BY <1>8, <2>1
<1>10. \A q \in S : q \in P /\ at(q) = U \cap Sole(C, q)
  BY <1>4 DEF Shape
<1>11. ASSUME NEW q \in S
       PROVE  LET more == U \cap Sole(C, q)
                  list == b.uniqueCoveredTuples[q]
              IN /\ Range(d.uniqueCoveredTuples[q]) = Range(list) \cup more
                 /\ IsInjective(list) /\ Range(list) \cap more = {} => IsInjective(d.uniqueCoveredTuples[q])
                 /\ d.sumWeight[q] = b.sumWeight[q] + WeightIn(b, more)
  <2>1. q \in P /\ at(q) = U \cap Sole(C, q)
    BY <1>10
  <2> HIDE DEF P
  <2>2. QED  BY <1>6, <1>8, <2>1
<1>12. QED  BY <1>1, <1>5, <1>7, <1>9, <1>11 DEF Joins, d, U

Exact(b, S, C) ==
  /\ Shape(b, S, C)
  /\ Counted(b, S, C) /\ Placed(b, C) /\ Weighed(b, S, C)
  /\ Named(b, S) /\ NamesListed(b, C)

Without(C, p) == [t \in DOMAIN C |-> C[t] \ {p}]

(* The rows that a tuple is counted for.                                   *)
LEMMA RowsCount ==
  ASSUME NEW b, NEW S, NEW C, Shape(b, S, C), NEW t \in IdsOf(b)
  PROVE  /\ IsFiniteSet(C[t]) /\ Cardinality(C[t]) \in Nat /\ C[t] \subseteq S
         /\ (Cardinality(C[t]) = 0 <=> C[t] = {})
         /\ (Cardinality(C[t]) = 1 <=> t \in OneRow(C, S))
         /\ \A p : /\ Cardinality(C[t] \ {p}) = IF p \in C[t] THEN Cardinality(C[t]) - 1
                                                ELSE Cardinality(C[t])
                   /\ Cardinality(C[t] \cup {p}) = IF p \in C[t] THEN Cardinality(C[t])
                                                   ELSE Cardinality(C[t]) + 1
<1> DEFINE R == C[t]
           n == Len(b.testcases)
<1>1. R \subseteq S /\ R \subseteq 1 .. n /\ n \in Nat /\ DOMAIN C = IdsOf(b)
  BY DEF Shape, PlacesOf
<1> HIDE DEF R, n
<1>2. IsFiniteSet(R)
  <2>1. IsFiniteSet(1 .. n)
    <3>1. 1 \in Int /\ n \in Int
      BY <1>1
    <3>2. QED  BY <3>1, FS_Interval
  <2>2. QED  BY <1>1, <2>1, FS_Subset
<1>3. Cardinality(R) \in Nat /\ (Cardinality(R) = 0 <=> R = {})
  BY <1>2, FS_CardinalityType, FS_EmptySet
<1>4. Cardinality(R) = 1 <=> t \in OneRow(C, S)
  <2>1. Cardinality(R) = 1 <=> \E q : R = {q}
    BY <1>2, FS_Singleton
  <2>2. (\E q : R = {q}) <=> \E q \in S : R = {q}
    BY <1>1
  <2>3. QED  BY <1>1, <2>1, <2>2 DEF OneRow, R
<1>5. \A p : /\ Cardinality(R \ {p}) = IF p \in R THEN Cardinality(R) - 1 ELSE Cardinality(R)
             /\ Cardinality(R \cup {p}) = IF p \in R THEN Cardinality(R) ELSE Cardinality(R) + 1
  BY <1>2, FS_AddElement, FS_RemoveElement
<1>6. QED  BY <1>1, <1>2, <1>3, <1>4, <1>5 DEF R

(* A row that goes, before another takes its place.                        *)
Bereft(b, C, p, g) ==
  /\ Exact(g, PlacesOf(b) \ {p}, Without(C, p))
  /\ g.tuplesU = b.tuplesU /\ g.testcases = b.testcases /\ g.clausesCov = b.clausesCov
  /\ g.testcaseIdx = b.testcaseIdx /\ g.weight = b.weight
  /\ g.testcasePosToIdx = b.testcasePosToIdx
  /\ g.greedyLimit = b.greedyLimit /\ g.lastGreedyTime = b.lastGreedyTime

(* After RowGone the fields are exact for the other rows.                  *)
LEMMA RowGoneIs ==
  ASSUME NEW b, NEW C, NEW p, Exact(b, PlacesOf(b), C), p \in PlacesOf(b)
  PROVE  Bereft(b, C, p, RowGone(b, p))
<1> DEFINE I == IdsOf(b)
           P == PlacesOf(b)
           R == P \ {p}
           D == Without(C, p)
           mine == b.tcCoveredTuples[p]
           M == Range(mine)
           times == [t \in DOMAIN b.coveredTimes |-> b.coveredTimes[t] - (IF t \in M THEN 1 ELSE 0)]
           left(n) == Kept(mine, { t \in M : times[t] = n })
           c == [b EXCEPT !.coveredTimes = times,
                          !.uncoveredTuples = @ \o left(0),
                          !.testcaseIdxToPos[b.testcasePosToIdx[p]] = 0]
           taken == TakenOut([tuples |-> b.coveredTuples, places |-> b.tuplesIdxToPos],
                             { b.tuplesIdxToPos[t] : t \in Range(left(0)) })
           j == BecomeUnique(c, left(1))
           g == RowGone(b, p)
<1>1. g = [j EXCEPT !.coveredTuples = taken.tuples, !.tuplesIdxToPos = taken.places]
  BY DEF RowGone
<1>2. /\ Fields \subseteq DOMAIN b /\ b.tuplesU \in Seq(Tuple) /\ b.testcases \in Seq(Row)
      /\ C \in [I -> SUBSET P] /\ DOMAIN C = I /\ Shape(b, P, C)
  BY DEF Exact, Shape
<1>3. /\ mine \in Seq(I) /\ IsInjective(mine) /\ M = Held(C, p) /\ M \subseteq I
  <2>1. mine \in Seq(I) /\ Lists(mine, Held(C, p))
    BY DEF Exact, Counted
  <2> HIDE DEF mine
  <2>2. QED  BY <1>2, <2>1 DEF Lists, Held
<1>4. /\ DOMAIN times = I
      /\ \A t \in I : times[t] = Cardinality(D[t]) /\ times[t] \in Nat /\ D[t] = C[t] \ {p}
      /\ D \in [I -> SUBSET R]
  <2>1. DOMAIN times = I
    BY DEF Exact, Counted
  <2>2. ASSUME NEW t \in I
        PROVE  times[t] = Cardinality(D[t]) /\ times[t] \in Nat /\ D[t] = C[t] \ {p}
    <3>1. D[t] = C[t] \ {p} /\ (t \in M <=> p \in C[t])
      BY <1>2, <1>3 DEF Without, Held
    <3>2. b.coveredTimes[t] = Cardinality(C[t])
      BY DEF Exact, Counted
    <3>3. times[t] = b.coveredTimes[t] - (IF t \in M THEN 1 ELSE 0)
      BY <2>1
    <3>4. /\ Cardinality(D[t]) = IF p \in C[t] THEN Cardinality(C[t]) - 1 ELSE Cardinality(C[t])
          /\ Cardinality(C[t]) \in Nat /\ (Cardinality(C[t]) = 0 => C[t] = {})
      <4> HIDE DEF D
      <4>1. /\ \A r : Cardinality(C[t] \ {r}) = IF r \in C[t] THEN Cardinality(C[t]) - 1
                                                ELSE Cardinality(C[t])
            /\ Cardinality(C[t]) \in Nat /\ (Cardinality(C[t]) = 0 => C[t] = {})
        BY ZenonT(60), <1>2, RowsCount
      <4>2. QED  BY <3>1, <4>1
    <3> HIDE DEF times, D, M
    <3>5. QED  BY <3>1, <3>2, <3>3, <3>4
  <2>3. D \in [I -> SUBSET R]
    BY <1>2 DEF Without
  <2>4. QED  BY <2>1, <2>2, <2>3
<1> HIDE DEF times, mine
<1>5. ASSUME NEW n \in Nat
      PROVE  /\ left(n) \in Seq(I) /\ IsInjective(left(n))
             /\ Range(left(n)) = { t \in Held(C, p) : Cardinality(D[t]) = n }
  <2>1. /\ left(n) \in Seq(I) /\ IsInjective(left(n))
        /\ Range(left(n)) = Range(mine) \cap { t \in M : times[t] = n }
    BY <1>3, KeptIs
  <2>2. \A t \in M : times[t] = Cardinality(D[t])
    BY <1>3, <1>4
  <2>3. Range(mine) \cap { t \in M : times[t] = n } = { t \in Held(C, p) : Cardinality(D[t]) = n }
    BY <1>3, <2>2
  <2>4. QED  BY <2>1, <2>3
<1> HIDE DEF left
<1>6. /\ Fields \subseteq DOMAIN c
      /\ c.coveredTimes = times /\ c.uncoveredTuples = b.uncoveredTuples \o left(0)
      /\ c.testcaseIdxToPos = [b.testcaseIdxToPos EXCEPT ![b.testcasePosToIdx[p]] = 0]
      /\ c.tuplesU = b.tuplesU /\ c.testcases = b.testcases
      /\ c.coveredTuples = b.coveredTuples /\ c.tuplesIdxToPos = b.tuplesIdxToPos
      /\ c.testcaseIdx = b.testcaseIdx /\ c.testcasePosToIdx = b.testcasePosToIdx
      /\ c.tcCoveredTuples = b.tcCoveredTuples /\ c.uniqueCoveredTuples = b.uniqueCoveredTuples
      /\ c.coveredTestcases = b.coveredTestcases /\ c.weight = b.weight
      /\ c.sumWeight = b.sumWeight /\ c.clausesCov = b.clausesCov
      /\ c.greedyLimit = b.greedyLimit /\ c.lastGreedyTime = b.lastGreedyTime
  BY <1>2 DEF Fields
<1> HIDE DEF c, M
<1>7. IdsOf(c) = I /\ PlacesOf(c) = P
  BY <1>6 DEF IdsOf, PlacesOf
<1> HIDE DEF I, P
<1>8. Shape(c, R, D)
  BY <1>2, <1>4, <1>6, <1>7 DEF Shape
<1>9. /\ Named(b, P) /\ P \subseteq PlacesOf(b) /\ p \in P
  BY DEF Exact, P
<1>10. /\ \A q \in P : b.testcasePosToIdx[q] \in Alive(b) /\ q \in 1 .. Len(b.testcases)
       /\ \A q, r \in P : b.testcasePosToIdx[q] = b.testcasePosToIdx[r] => q = r
  BY <1>2, <1>9, NamesDiffer
<1>11. Alive(c) = Alive(b) \ {b.testcasePosToIdx[p]}
  BY <1>6 DEF Alive
<1>12. Named(c, R)
  <2>1. /\ c.testcaseIdxToPos \in Seq(Nat) /\ Len(c.testcaseIdxToPos) = b.testcaseIdx
        /\ \A idx \in Alive(c) : c.testcaseIdxToPos[idx] = b.testcaseIdxToPos[idx]
        /\ \A q \in R : b.testcasePosToIdx[q] \in 1 .. b.testcaseIdx
                          /\ c.testcaseIdxToPos[b.testcasePosToIdx[q]] = q
    <3>1. /\ b.testcaseIdxToPos \in Seq(Nat) /\ Len(b.testcaseIdxToPos) = b.testcaseIdx
          /\ \A q \in R : b.testcasePosToIdx[q] \in 1 .. b.testcaseIdx
                            /\ b.testcaseIdxToPos[b.testcasePosToIdx[q]] = q
      BY <1>9 DEF Named
    <3>2. \A q \in R : b.testcasePosToIdx[q] # b.testcasePosToIdx[p]
      BY <1>9, <1>10
    <3>3. c.testcaseIdxToPos \in Seq(Nat) /\ Len(c.testcaseIdxToPos) = b.testcaseIdx
      <4> DEFINE f == b.testcaseIdxToPos
                 x == b.testcasePosToIdx[p]
                 h == [f EXCEPT ![x] = 0]
      <4>1. c.testcaseIdxToPos = h /\ f \in Seq(Nat) /\ Len(f) = b.testcaseIdx
        BY <1>6, <3>1
      <4>2. x \in 1 .. Len(f)
        BY <1>9, <4>1 DEF Named
      <4> HIDE DEF f, x
      <4>3. h \in Seq(Nat) /\ Len(h) = Len(f)
        BY <4>1, <4>2
      <4>4. QED  BY <4>1, <4>3
    <3>4. ASSUME NEW idx \in 1 .. b.testcaseIdx, idx # b.testcasePosToIdx[p]
          PROVE  c.testcaseIdxToPos[idx] = b.testcaseIdxToPos[idx]
      BY <1>6, <3>1, <3>4
    <3>5. \A idx \in Alive(c) : idx \in 1 .. b.testcaseIdx /\ idx # b.testcasePosToIdx[p]
      BY <1>11, <3>1 DEF Alive
    <3>6. QED  BY <3>1, <3>2, <3>3, <3>4, <3>5
  <2>2. \A idx \in Alive(c) : /\ b.testcaseIdxToPos[idx] \in R
                              /\ b.testcasePosToIdx[b.testcaseIdxToPos[idx]] = idx
    BY <1>9, <1>11 DEF Named
  <2>3. /\ b.testcaseIdx \in 0 .. MaxIdx
        /\ b.testcasePosToIdx \in Seq(1 .. MaxIdx) /\ Len(b.testcases) <= Len(b.testcasePosToIdx)
    BY <1>9 DEF Named
  <2> HIDE DEF R
  <2>4. QED  BY SMTT(60), <1>6, <2>1, <2>2, <2>3 DEF Named
<1>13. NamesListed(c, D)
  <2>1. NamesListed(b, C)
    BY DEF Exact
  <2>2. ASSUME NEW t \in I PROVE Range(c.coveredTestcases[t]) \cap Alive(c) = NamesOf(c, D[t])
    <3>1. NamesOf(c, D[t]) = NamesOf(b, C[t]) \ {b.testcasePosToIdx[p]}
      <4>1. C[t] \subseteq P /\ D[t] = C[t] \ {p}
        BY <1>2, <1>4
      <4>2. \A q \in C[t] : b.testcasePosToIdx[q] = b.testcasePosToIdx[p] => q = p
        BY <1>9, <1>10, <4>1
      <4> HIDE DEF D
      <4>3. QED  BY <1>6, <4>1, <4>2 DEF NamesOf
    <3>2. Range(b.coveredTestcases[t]) \cap Alive(b) = NamesOf(b, C[t])
      BY <2>1 DEF NamesListed, I
    <3>3. QED  BY <1>6, <1>11, <3>1, <3>2
  <2>3. QED  BY <1>6, <1>7, <2>1, <2>2 DEF NamesListed, I
<1>14. Weighed(b, P, C) /\ Counted(b, P, C) /\ Placed(b, C)
  BY DEF Exact, P
<1>15. Range(left(1)) = { t \in Held(C, p) : D[t] \in { {q} : q \in R } }
  <2>1. Range(left(1)) = { t \in Held(C, p) : Cardinality(D[t]) = 1 }
    BY <1>5
  <2>2. ASSUME NEW t \in Held(C, p)
        PROVE  Cardinality(D[t]) = 1 <=> D[t] \in { {q} : q \in R }
    <3>1. t \in IdsOf(c) /\ DOMAIN D = I
      BY <1>2, <1>4, <1>7 DEF Held
    <3> HIDE DEF D, R
    <3>2. Cardinality(D[t]) = 1 <=> t \in OneRow(D, R)
      BY <1>8, <3>1, RowsCount
    <3>3. t \in OneRow(D, R) <=> D[t] \in { {q} : q \in R }
      BY <1>7, <3>1 DEF OneRow
    <3>4. QED  BY <3>2, <3>3
  <2>3. QED  BY <2>1, <2>2
<1>16. Joins(c, j, R, D, left(1))
  <2>1. /\ c.uniqueCoveredTuples \in [PlacesOf(c) -> Seq(IdsOf(c))]
        /\ c.weight \in [IdsOf(c) -> 1 .. MaxWeight] /\ c.sumWeight \in [PlacesOf(c) -> Nat]
    BY <1>6, <1>7, <1>14 DEF Weighed, I, P
  <2>2. left(1) \in Seq(IdsOf(c)) /\ IsInjective(left(1))
    BY <1>5, <1>7
  <2>3. Range(left(1)) \subseteq OneRow(D, R)
    <3>1. DOMAIN D = I /\ Held(C, p) \subseteq I
      BY <1>2, <1>4 DEF Held
    <3> HIDE DEF D, R
    <3>2. QED  BY <1>15, <3>1 DEF OneRow
  <2> HIDE DEF D, R
  <2>4. QED  BY <1>8, <1>12, <1>13, <2>1, <2>2, <2>3, BecomeUniqueIs
<1> HIDE DEF j
<1>17. Range(left(0)) = Sole(C, p) /\ Sole(C, p) = { t \in I : C[t] # {} /\ D[t] = {} }
  <2>1. Range(left(0)) = { t \in Held(C, p) : Cardinality(D[t]) = 0 }
    BY <1>5
  <2>2. ASSUME NEW t \in I
        PROVE  Cardinality(D[t]) = 0 <=> D[t] = {}
    <3>1. t \in IdsOf(c)
      BY <1>7
    <3> HIDE DEF D, R
    <3>2. QED  BY <1>8, <3>1, RowsCount
  <2>3. Held(C, p) \subseteq I
    BY <1>2 DEF Held
  <2>4. Range(left(0)) = { t \in Held(C, p) : D[t] = {} }
    BY <2>1, <2>2, <2>3
  <2>5. \A t \in I : D[t] = C[t] \ {p}
    BY <1>4
  <2>6. { t \in Held(C, p) : D[t] = {} } = Sole(C, p)
    BY <1>2, <2>5 DEF Held, Sole
  <2>7. Sole(C, p) = { t \in I : C[t] # {} /\ D[t] = {} }
    BY <1>2, <2>5 DEF Sole
  <2>8. QED  BY <2>4, <2>6, <2>7
<1>18. /\ taken.tuples \in Seq(I) /\ taken.places \in [I -> Nat]
       /\ Lists(taken.tuples, { t \in I : D[t] # {} })
       /\ \A q \in DOMAIN taken.tuples : taken.places[taken.tuples[q]] = q
  <2> DEFINE list == b.coveredTuples
             map == b.tuplesIdxToPos
             gone == { map[t] : t \in Range(left(0)) }
  <2>1. /\ list \in Seq(I) /\ map \in [I -> Nat] /\ IsInjective(list)
        /\ Range(list) = { t \in I : C[t] # {} } /\ \A q \in DOMAIN list : map[list[q]] = q
    BY <1>14 DEF Placed, Lists, I
  <2>2. taken = TakenOut([tuples |-> list, places |-> map], gone)
    OBVIOUS
  <2> HIDE DEF list, map, gone, taken
  <2>3. /\ taken.tuples \in Seq(I) /\ taken.places \in [I -> Nat]
        /\ IsInjective(taken.tuples)
        /\ Range(taken.tuples) = { list[q] : q \in DOMAIN list \ gone }
        /\ (\A q \in DOMAIN list : map[list[q]] = q)
             => \A q \in DOMAIN taken.tuples : taken.places[taken.tuples[q]] = q
    <3>1. I \subseteq I
      OBVIOUS
    <3>2. TookOut(taken, I, I, list, map, gone)
      BY <2>1, <2>2, <3>1, TakenOutIs
    <3>3. QED  BY <3>2 DEF TookOut
  <2>4. ASSUME NEW q \in DOMAIN list PROVE q \in gone <=> D[list[q]] = {}
    <3>1. list[q] \in Range(list)
      BY DEF Range
    <3>2. list[q] \in I /\ C[list[q]] # {}
      BY <2>1, <3>1
    <3>3. D[list[q]] = {} <=> list[q] \in Sole(C, p)
      BY <1>17, <3>2
    <3>4. q \in gone <=> \E t \in Sole(C, p) : q = map[t]
      BY <1>17 DEF gone
    <3>5. map[list[q]] = q
      BY <2>1
    <3>6. ASSUME NEW t \in Sole(C, p), q = map[t] PROVE t = list[q]
      <4>1. t \in Range(list)
        BY <1>17, <2>1
      <4>2. PICK r \in DOMAIN list : list[r] = t
        BY <4>1 DEF Range
      <4>3. r = q
        BY <2>1, <3>6, <4>2
      <4>4. QED  BY <4>2, <4>3
    <3>7. QED  BY <3>3, <3>4, <3>5, <3>6
  <2>5. Range(taken.tuples) = { t \in I : D[t] # {} }
    <3>1. \A t \in I : D[t] # {} => C[t] # {}
      BY <1>4
    <3>2. Range(taken.tuples) = { list[q] : q \in { q \in DOMAIN list : D[list[q]] # {} } }
      BY <2>3, <2>4
    <3>3. { list[q] : q \in { q \in DOMAIN list : D[list[q]] # {} } } = { t \in Range(list) : D[t] # {} }
      <4> HIDE DEF D
      <4>1. QED  BY DEF Range
    <3>4. { t \in Range(list) : D[t] # {} } = { t \in I : D[t] # {} }
      BY <2>1, <3>1
    <3>5. QED  BY <3>2, <3>3, <3>4
  <2>6. QED  BY <2>1, <2>3, <2>5 DEF Lists
<1> HIDE DEF taken
<1>19. /\ Fields \subseteq DOMAIN g
       /\ g.coveredTuples = taken.tuples /\ g.tuplesIdxToPos = taken.places
       /\ g.coveredTimes = times /\ g.uncoveredTuples = b.uncoveredTuples \o left(0)
       /\ g.testcaseIdxToPos = c.testcaseIdxToPos
       /\ g.tuplesU = b.tuplesU /\ g.testcases = b.testcases
       /\ g.testcaseIdx = b.testcaseIdx /\ g.testcasePosToIdx = b.testcasePosToIdx
       /\ g.tcCoveredTuples = b.tcCoveredTuples /\ g.uniqueCoveredTuples = j.uniqueCoveredTuples
       /\ g.coveredTestcases = j.coveredTestcases /\ g.weight = b.weight
       /\ g.sumWeight = j.sumWeight /\ g.clausesCov = b.clausesCov
       /\ g.greedyLimit = b.greedyLimit /\ g.lastGreedyTime = b.lastGreedyTime
  <2> HIDE DEF g
  <2>1. Fields \subseteq DOMAIN j
    BY <1>16 DEF Joins
  <2>2. /\ j.coveredTimes = c.coveredTimes /\ j.uncoveredTuples = c.uncoveredTuples
        /\ j.testcaseIdxToPos = c.testcaseIdxToPos
        /\ j.tuplesU = c.tuplesU /\ j.testcases = c.testcases
        /\ j.testcaseIdx = c.testcaseIdx /\ j.testcasePosToIdx = c.testcasePosToIdx
        /\ j.tcCoveredTuples = c.tcCoveredTuples
        /\ j.weight = c.weight /\ j.clausesCov = c.clausesCov
        /\ j.greedyLimit = c.greedyLimit /\ j.lastGreedyTime = c.lastGreedyTime
    BY <1>16 DEF Joins
  <2>3. /\ DOMAIN g = DOMAIN j
        /\ g.coveredTuples = taken.tuples /\ g.tuplesIdxToPos = taken.places
        /\ g.coveredTimes = j.coveredTimes /\ g.uncoveredTuples = j.uncoveredTuples
        /\ g.testcaseIdxToPos = j.testcaseIdxToPos
        /\ g.tuplesU = j.tuplesU /\ g.testcases = j.testcases
        /\ g.testcaseIdx = j.testcaseIdx /\ g.testcasePosToIdx = j.testcasePosToIdx
        /\ g.tcCoveredTuples = j.tcCoveredTuples /\ g.uniqueCoveredTuples = j.uniqueCoveredTuples
        /\ g.coveredTestcases = j.coveredTestcases /\ g.weight = j.weight
        /\ g.sumWeight = j.sumWeight /\ g.clausesCov = j.clausesCov
        /\ g.greedyLimit = j.greedyLimit /\ g.lastGreedyTime = j.lastGreedyTime
    BY <1>1, <2>1 DEF Fields
  <2>4. QED  BY <1>6, <2>1, <2>2, <2>3
<1> HIDE DEF g
<1>20. IdsOf(g) = I /\ PlacesOf(g) = P /\ Alive(g) = Alive(c)
  BY <1>19 DEF IdsOf, PlacesOf, Alive, I, P
<1>21. Shape(g, R, D)
  BY <1>2, <1>4, <1>19, <1>20 DEF Shape
<1>22. Counted(g, R, D)
  <2>1. g.coveredTimes \in [I -> Nat] /\ \A t \in I : g.coveredTimes[t] = Cardinality(D[t])
    <3>1. times = [t \in I |-> times[t]]
      BY <1>4 DEF times
    <3>2. QED  BY <1>4, <1>19, <3>1
  <2>2. \A q \in R : Held(D, q) = Held(C, q)
    BY <1>2, <1>4 DEF Held
  <2>3. g.tcCoveredTuples \in [P -> Seq(I)] /\ \A q \in P : Lists(g.tcCoveredTuples[q], Held(C, q))
    BY <1>14, <1>19 DEF Counted, I, P
  <2>4. \A q \in R : Lists(g.tcCoveredTuples[q], Held(D, q))
    BY <2>2, <2>3
  <2>5. QED  BY <1>20, <2>1, <2>3, <2>4 DEF Counted
<1>23. Placed(g, D)
  <2>1. /\ b.uncoveredTuples \in Seq(I) /\ IsInjective(b.uncoveredTuples)
        /\ Range(b.uncoveredTuples) = { t \in I : C[t] = {} }
    BY <1>14 DEF Placed, Lists, I
  <2>2. left(0) \in Seq(I) /\ IsInjective(left(0)) /\ Range(left(0)) = { t \in I : C[t] # {} /\ D[t] = {} }
    BY <1>5, <1>17
  <2> DEFINE u == b.uncoveredTuples
             v == left(0)
  <2>3. Range(u) \cap Range(v) = {} /\ Range(u) \cup Range(v) = { t \in I : D[t] = {} }
    <3>1. \A t \in I : C[t] = {} => D[t] = {}
      BY <1>4
    <3>2. QED  BY <2>1, <2>2, <3>1
  <2> HIDE DEF u, v, D
  <2>4. /\ u \o v \in Seq(I) /\ Range(u \o v) = Range(u) \cup Range(v) /\ IsInjective(u \o v)
    BY <2>1, <2>2, <2>3, ListConcat DEF u, v
  <2>5. g.uncoveredTuples \in Seq(I) /\ Lists(g.uncoveredTuples, { t \in I : D[t] = {} })
    BY <1>19, <2>3, <2>4 DEF Lists, u, v
  <2>6. QED  BY <1>18, <1>19, <1>20, <2>5 DEF Placed
<1>24. Weighed(g, R, D)
  <2>1. ASSUME NEW q \in R
        PROVE  /\ Lists(g.uniqueCoveredTuples[q], Sole(D, q))
               /\ g.sumWeight[q] = WeightIn(g, Sole(D, q))
    <3> DEFINE more == Range(left(1)) \cap Sole(D, q)
               list == b.uniqueCoveredTuples[q]
    <3>1. /\ Range(g.uniqueCoveredTuples[q]) = Range(list) \cup more
          /\ IsInjective(list) /\ Range(list) \cap more = {} => IsInjective(g.uniqueCoveredTuples[q])
          /\ g.sumWeight[q] = b.sumWeight[q] + WeightIn(c, more)
      BY ZenonT(60), <1>6, <1>16, <1>19 DEF Joins
    <3>2. IsInjective(list) /\ Range(list) = Sole(C, q) /\ b.sumWeight[q] = WeightIn(b, Sole(C, q))
      BY <1>14 DEF Weighed, Lists
    <3>3. WeightIn(c, more) = WeightIn(b, more) /\ WeightIn(g, Sole(D, q)) = WeightIn(b, Sole(D, q))
      BY <1>6, <1>19 DEF WeightIn
    <3>4. \A t \in I : /\ t \in Sole(D, q) <=> D[t] = {q}
                       /\ t \in Sole(C, q) <=> C[t] = {q}
                       /\ t \in Held(C, p) <=> p \in C[t]
      BY <1>2, <1>4 DEF Sole, Held
    <3>5. Sole(D, q) \subseteq I /\ Sole(C, q) \subseteq I /\ Held(C, p) \subseteq I
      BY <1>2, <1>4 DEF Sole, Held
    <3>6. more = { t \in I : p \in C[t] /\ D[t] = {q} }
      BY <1>15, <3>4, <3>5
    <3>7. q # p /\ \A t \in I : D[t] = C[t] \ {p}
      BY <1>4
    <3>8. Sole(C, q) \cap more = {} /\ Sole(C, q) \cup more = Sole(D, q)
      <4>1. \A t \in I : D[t] = {q} <=> (C[t] = {q} \/ (p \in C[t] /\ D[t] = {q}))
        BY <3>7
      <4>2. \A t \in I : ~ (C[t] = {q} /\ p \in C[t])
        BY <3>7
      <4> HIDE DEF D, more
      <4>3. QED  BY <3>4, <3>5, <3>6, <4>1, <4>2
    <3>9. WeightIn(b, Sole(D, q)) = WeightIn(b, Sole(C, q)) + WeightIn(b, more)
      <4>1. b.weight \in [I -> 1 .. MaxWeight] /\ Sole(C, q) \in SUBSET I /\ more \in SUBSET I
        BY <1>14, <3>5, <3>6 DEF Weighed, I
      <4> DEFINE s == Sole(C, q)
                 r == more
      <4>2. s \in SUBSET IdsOf(b) /\ r \in SUBSET IdsOf(b) /\ s \cap r = {} /\ s \cup r = Sole(D, q)
        BY <3>8, <4>1 DEF I
      <4>3. b.weight \in [IdsOf(b) -> 1 .. MaxWeight]
        BY <4>1 DEF I
      <4> HIDE DEF s, r
      <4>4. WeightIn(b, s \cup r) = WeightIn(b, s) + WeightIn(b, r)
        BY <1>2, <4>2, <4>3, WeightIs
      <4>5. QED  BY <4>2, <4>4 DEF s, r
    <3> HIDE DEF more, list
    <3>10. QED  BY <3>1, <3>2, <3>3, <3>8, <3>9 DEF Lists
  <2>2. /\ g.uniqueCoveredTuples \in [P -> Seq(I)] /\ g.sumWeight \in [P -> Nat]
    BY <1>7, <1>16, <1>19 DEF Joins
  <2>3. g.weight \in [I -> 1 .. MaxWeight]
    BY <1>14, <1>19 DEF Weighed, I
  <2>4. QED  BY <1>20, <2>1, <2>2, <2>3 DEF Weighed
<1>25. Named(g, R)
  BY <1>6, <1>12, <1>19, <1>20 DEF Named
<1>26. NamesListed(g, D)
  <2>1. NamesListed(j, D) /\ j.testcaseIdxToPos = c.testcaseIdxToPos /\ j.testcaseIdx = c.testcaseIdx
        /\ j.tuplesU = c.tuplesU /\ j.testcasePosToIdx = c.testcasePosToIdx
    BY <1>16 DEF Joins
  <2>2. Alive(j) = Alive(g) /\ IdsOf(j) = IdsOf(g) /\ g.testcaseIdx = j.testcaseIdx
        /\ g.coveredTestcases = j.coveredTestcases
    BY <1>6, <1>19, <2>1 DEF Alive, IdsOf
  <2>3. \A t \in IdsOf(g) : NamesOf(j, D[t]) = NamesOf(g, D[t])
    BY <1>6, <1>19, <2>1 DEF NamesOf
  <2>4. QED  BY <2>1, <2>2, <2>3 DEF NamesListed
<1>27. QED  BY <1>19, <1>21, <1>22, <1>23, <1>24, <1>25, <1>26 DEF Exact, Bereft, g, P

(* What a step leaves as it is.                                            *)
Kindred(b, d) ==
  /\ d.tuplesU = b.tuplesU /\ d.weight = b.weight
  /\ d.greedyLimit = b.greedyLimit /\ d.lastGreedyTime = b.lastGreedyTime

(* The new row has no tuples yet.                                          *)
LEMMA OverwrittenIs ==
  ASSUME NEW b, NEW C, NEW p, Exact(b, PlacesOf(b) \ {p}, C), p \in PlacesOf(b),
         NEW row \in Row, b.testcaseIdx < MaxIdx,
         DOMAIN b.clausesCov = PlacesOf(b)
  PROVE  LET d == Overwritten(b, p, row)
         IN /\ Exact(d, PlacesOf(b), C) /\ PlacesOf(d) = PlacesOf(b)
            /\ Kindred(b, d)
            /\ d.testcases = [b.testcases EXCEPT ![p] = row]
            /\ d.clausesCov = [b.clausesCov EXCEPT ![p] = ClausesCov(row)]
            /\ d.testcasePosToIdx[p] = d.testcaseIdx
            /\ \A t \in IdsOf(b) : p \notin C[t]
<1> DEFINE I == IdsOf(b)
           P == PlacesOf(b)
           R == P \ {p}
           d == Overwritten(b, p, row)
           k == b.testcaseIdx
           n == Len(b.testcases)
<1>1. /\ Fields \subseteq DOMAIN b /\ b.tuplesU \in Seq(Tuple) /\ b.testcases \in Seq(Row)
      /\ C \in [I -> SUBSET R] /\ DOMAIN C = I
      /\ P = 1 .. n /\ n \in Nat /\ p \in 1 .. n
  BY SMTT(60) DEF Exact, Shape, PlacesOf
<1>2. /\ Fields \subseteq DOMAIN d
      /\ d.testcases = [b.testcases EXCEPT ![p] = row] /\ d.testcaseIdx = k + 1
      /\ d.testcasePosToIdx = [b.testcasePosToIdx EXCEPT ![p] = k + 1]
      /\ d.testcaseIdxToPos = Append(b.testcaseIdxToPos, p)
      /\ d.tcCoveredTuples = [b.tcCoveredTuples EXCEPT ![p] = <<>>]
      /\ d.uniqueCoveredTuples = [b.uniqueCoveredTuples EXCEPT ![p] = <<>>]
      /\ d.sumWeight = [b.sumWeight EXCEPT ![p] = 0]
      /\ d.clausesCov = [b.clausesCov EXCEPT ![p] = ClausesCov(row)]
      /\ d.tuplesU = b.tuplesU /\ d.coveredTimes = b.coveredTimes
      /\ d.coveredTuples = b.coveredTuples /\ d.uncoveredTuples = b.uncoveredTuples
      /\ d.tuplesIdxToPos = b.tuplesIdxToPos /\ d.coveredTestcases = b.coveredTestcases
      /\ d.weight = b.weight /\ d.greedyLimit = b.greedyLimit /\ d.lastGreedyTime = b.lastGreedyTime
  BY <1>1 DEF Fields, Overwritten
<1> HIDE DEF d, k, n
<1>3. d.testcases \in Seq(Row) /\ Len(d.testcases) = n
  <2> DEFINE f == b.testcases
  <2>1. f \in Seq(Row) /\ Len(f) = n /\ p \in 1 .. Len(f)
    BY <1>1 DEF n
  <2> HIDE DEF f
  <2>2. [f EXCEPT ![p] = row] \in Seq(Row) /\ Len([f EXCEPT ![p] = row]) = Len(f)
    BY <2>1
  <2>3. QED  BY <1>2, <2>1, <2>2 DEF f
<1>4. IdsOf(d) = I /\ PlacesOf(d) = P
  BY <1>1, <1>2, <1>3 DEF IdsOf, PlacesOf
<1> HIDE DEF I, P
<1>5. Shape(d, P, C)
  BY <1>1, <1>2, <1>3, <1>4 DEF Shape
<1>6. Held(C, p) = {} /\ Sole(C, p) = {} /\ \A t \in I : p \notin C[t]
  BY <1>1 DEF Held, Sole
<1>7. <<>> \in Seq(I) /\ Lists(<<>>, {})
  BY DEF Lists, IsInjective, Range
<1>8. Counted(b, R, C) /\ Placed(b, C) /\ Weighed(b, R, C) /\ Named(b, R) /\ NamesListed(b, C)
  BY DEF Exact, P
<1>9. Counted(d, P, C)
  <2>1. /\ b.coveredTimes \in [I -> Nat] /\ b.tcCoveredTuples \in [P -> Seq(I)]
        /\ \A t \in I : b.coveredTimes[t] = Cardinality(C[t])
        /\ \A q \in R : Lists(b.tcCoveredTuples[q], Held(C, q))
    BY <1>8 DEF Counted, I, P
  <2>2. d.tcCoveredTuples \in [P -> Seq(I)] /\ \A q \in P : Lists(d.tcCoveredTuples[q], Held(C, q))
    <3>1. \A q \in P : d.tcCoveredTuples[q] = IF q = p THEN <<>> ELSE b.tcCoveredTuples[q]
      BY <1>2, <2>1
    <3>2. d.tcCoveredTuples \in [P -> Seq(I)]
      BY ZenonT(60), <1>2, <1>7, <2>1
    <3>3. QED  BY <1>6, <1>7, <2>1, <3>1, <3>2
  <2>3. QED  BY <1>2, <1>4, <2>1, <2>2 DEF Counted
<1>10. Placed(d, C)
  BY <1>2, <1>4, <1>8 DEF Placed, I
<1>11. Weighed(d, P, C)
  <2>1. /\ b.uniqueCoveredTuples \in [P -> Seq(I)] /\ b.sumWeight \in [P -> Nat]
        /\ b.weight \in [I -> 1 .. MaxWeight]
        /\ \A q \in R : /\ Lists(b.uniqueCoveredTuples[q], Sole(C, q))
                        /\ b.sumWeight[q] = WeightIn(b, Sole(C, q))
    BY <1>8 DEF Weighed, I, P
  <2>2. \A s : WeightIn(d, s) = WeightIn(b, s)
    BY <1>2 DEF WeightIn
  <2>3. WeightIn(b, {}) = 0
    BY <1>1, <2>1, WeightIs DEF I
  <2>4. \A q \in P : /\ d.uniqueCoveredTuples[q] = IF q = p THEN <<>> ELSE b.uniqueCoveredTuples[q]
                     /\ d.sumWeight[q] = IF q = p THEN 0 ELSE b.sumWeight[q]
    BY <1>2, <2>1
  <2>5. d.uniqueCoveredTuples \in [P -> Seq(I)] /\ d.sumWeight \in [P -> Nat]
    <3> DEFINE f == b.uniqueCoveredTuples
               e == b.sumWeight
    <3>1. /\ f \in [P -> Seq(I)] /\ d.uniqueCoveredTuples = [f EXCEPT ![p] = <<>>]
          /\ e \in [P -> Nat] /\ d.sumWeight = [e EXCEPT ![p] = 0]
      BY <1>2, <2>1
    <3> HIDE DEF f, e
    <3>2. [f EXCEPT ![p] = <<>>] \in [P -> Seq(I)]
      BY <1>7, <3>1
    <3>3. [e EXCEPT ![p] = 0] \in [P -> Nat]
      BY <3>1
    <3>4. QED  BY <3>1, <3>2, <3>3
  <2>6. \A q \in P : /\ Lists(d.uniqueCoveredTuples[q], Sole(C, q))
                     /\ d.sumWeight[q] = WeightIn(d, Sole(C, q))
    BY <1>6, <1>7, <2>1, <2>2, <2>3, <2>4
  <2>7. QED  BY <1>2, <1>4, <2>1, <2>5, <2>6 DEF Weighed
<1>12. /\ k \in 0 .. MaxIdx /\ MaxIdx \in Nat /\ k + 1 \in 1 .. MaxIdx /\ k \in Nat
       /\ b.testcaseIdxToPos \in Seq(Nat) /\ Len(b.testcaseIdxToPos) = k
       /\ b.testcasePosToIdx \in Seq(1 .. MaxIdx) /\ n <= Len(b.testcasePosToIdx)
  BY <1>8, BookkeepingAssumption DEF Named, k, n
<1>13. /\ d.testcaseIdxToPos \in Seq(Nat) /\ Len(d.testcaseIdxToPos) = k + 1
       /\ d.testcaseIdxToPos[k + 1] = p
       /\ \A i \in 1 .. k : d.testcaseIdxToPos[i] = b.testcaseIdxToPos[i]
       /\ DOMAIN d.testcaseIdxToPos = 1 .. k + 1 /\ DOMAIN b.testcaseIdxToPos = 1 .. k
  <2> DEFINE f == b.testcaseIdxToPos
  <2>1. f \in Seq(Nat) /\ Len(f) = k /\ p \in Nat
    BY <1>1, <1>12
  <2>2. d.testcaseIdxToPos = Append(f, p)
    BY <1>2
  <2> HIDE DEF f
  <2>3. /\ Append(f, p) \in Seq(Nat) /\ Len(Append(f, p)) = k + 1 /\ Append(f, p)[k + 1] = p
        /\ \A i \in 1 .. k : Append(f, p)[i] = f[i]
        /\ DOMAIN Append(f, p) = 1 .. k + 1 /\ DOMAIN f = 1 .. k
    BY <2>1
  <2>4. QED  BY <2>2, <2>3 DEF f
<1>14. /\ d.testcasePosToIdx \in Seq(1 .. MaxIdx)
       /\ Len(d.testcasePosToIdx) = Len(b.testcasePosToIdx)
       /\ d.testcasePosToIdx[p] = k + 1
       /\ \A q \in R : d.testcasePosToIdx[q] = b.testcasePosToIdx[q]
  <2> DEFINE f == b.testcasePosToIdx
             x == k + 1
             T == 1 .. MaxIdx
  <2>1. /\ f \in Seq(T) /\ p \in 1 .. Len(f) /\ x \in T
        /\ R \subseteq 1 .. Len(f) /\ p \notin R
    BY <1>1, <1>12
  <2>2. d.testcasePosToIdx = [f EXCEPT ![p] = x]
    BY <1>2
  <2> HIDE DEF f, x, T, R
  <2>3. /\ [f EXCEPT ![p] = x] \in Seq(T) /\ Len([f EXCEPT ![p] = x]) = Len(f)
        /\ [f EXCEPT ![p] = x][p] = x
        /\ \A q \in R : [f EXCEPT ![p] = x][q] = f[q]
    BY <2>1
  <2>4. QED  BY <2>2, <2>3 DEF f, x, T
<1>15. Alive(d) = Alive(b) \cup {k + 1} /\ Alive(b) \subseteq 1 .. k
  <2>1. p > 0
    BY <1>1
  <2>2. \A i \in 1 .. k + 1 : i \in 1 .. k \/ i = k + 1
    BY <1>12
  <2>3. k + 1 \in 1 .. k + 1 /\ 1 .. k \subseteq 1 .. k + 1
    BY <1>12
  <2>4. QED  BY <1>13, <2>1, <2>2, <2>3 DEF Alive
<1>16. Named(d, P)
  <2>1. \A q \in P : /\ d.testcasePosToIdx[q] \in 1 .. d.testcaseIdx
                     /\ d.testcaseIdxToPos[d.testcasePosToIdx[q]] = q
    <3>1. k + 1 \in 1 .. k + 1
      BY <1>12
    <3>2. ASSUME NEW q \in R
          PROVE  /\ d.testcasePosToIdx[q] \in 1 .. k + 1
                 /\ d.testcaseIdxToPos[d.testcasePosToIdx[q]] = q
      <4>1. b.testcasePosToIdx[q] \in 1 .. k /\ b.testcaseIdxToPos[b.testcasePosToIdx[q]] = q
        BY <1>8 DEF Named, k
      <4>2. b.testcasePosToIdx[q] \in 1 .. k + 1
        BY <1>12, <4>1
      <4>3. QED  BY ZenonT(60), <1>13, <1>14, <4>1, <4>2
    <3>3. QED  BY <1>2, <1>13, <1>14, <3>1, <3>2
  <2>2. ASSUME NEW idx \in Alive(d)
        PROVE  /\ d.testcaseIdxToPos[idx] \in P
               /\ d.testcasePosToIdx[d.testcaseIdxToPos[idx]] = idx
    <3>1. CASE idx = k + 1
      <4>1. p \in P
        BY DEF P
      <4>2. QED  BY <1>13, <1>14, <3>1, <4>1
    <3>2. CASE idx \in Alive(b)
      <4>1. /\ b.testcaseIdxToPos[idx] \in R
            /\ b.testcasePosToIdx[b.testcaseIdxToPos[idx]] = idx
        BY <1>8, <3>2 DEF Named
      <4>2. d.testcaseIdxToPos[idx] = b.testcaseIdxToPos[idx]
        BY <1>13, <1>15, <3>2
      <4>3. QED  BY <1>14, <4>1, <4>2
    <3>3. QED  BY <1>15, <3>1, <3>2
  <2>3. d.testcaseIdx \in 0 .. MaxIdx
    BY <1>2, <1>12
  <2>4. Len(d.testcases) <= Len(d.testcasePosToIdx)
    BY <1>3, <1>12, <1>14
  <2>5. QED  BY <1>2, <1>13, <1>14, <2>1, <2>2, <2>3, <2>4 DEF Named
<1>17. NamesListed(d, C)
  <2>1. b.coveredTestcases \in [I -> Seq(1 .. k)]
    BY <1>8 DEF NamesListed, I, k
  <2>2. b.coveredTestcases \in [I -> Seq(1 .. k + 1)]
    <3>1. ASSUME NEW s \in Seq(1 .. k) PROVE s \in Seq(1 .. k + 1)
      BY <1>12
    <3>2. QED  BY <2>1, <3>1
  <2>3. ASSUME NEW t \in I
        PROVE  /\ IsInjective(d.coveredTestcases[t])
               /\ Range(d.coveredTestcases[t]) \cap Alive(d) = NamesOf(d, C[t])
    <3>1. /\ IsInjective(b.coveredTestcases[t])
          /\ Range(b.coveredTestcases[t]) \cap Alive(b) = NamesOf(b, C[t])
      BY <1>8 DEF NamesListed, I
    <3>2. k + 1 \notin Range(b.coveredTestcases[t])
      <4> DEFINE s == b.coveredTestcases[t]
                 T == 1 .. k
      <4>1. s \in Seq(T)
        BY <2>1
      <4> HIDE DEF s, T
      <4>2. \A i \in DOMAIN s : s[i] \in T
        BY <4>1
      <4>3. k + 1 \notin T
        BY <1>12 DEF T
      <4>4. QED  BY <4>2, <4>3 DEF Range, s
    <3>3. NamesOf(d, C[t]) = NamesOf(b, C[t])
      <4>1. C[t] \subseteq R
        BY <1>1
      <4> HIDE DEF R
      <4>2. QED  BY <1>14, <4>1 DEF NamesOf
    <3>4. QED  BY <1>2, <1>15, <3>1, <3>2, <3>3
  <2>4. QED  BY <1>2, <1>4, <2>2, <2>3 DEF NamesListed
<1>18. Exact(d, P, C)
  BY <1>5, <1>9, <1>10, <1>11, <1>16, <1>17 DEF Exact
<1>19. QED  BY <1>2, <1>4, <1>6, <1>14, <1>18 DEF Kindred, d, I, P

(* The new row gets tuples that other rows have.                           *)
Plus(C, A, p) == [t \in DOMAIN C |-> IF t \in A THEN C[t] \cup {p} ELSE C[t]]

CoveredMore(b, C, A, p, d) ==
  /\ Exact(d, PlacesOf(b), Plus(C, A, p))
  /\ Kindred(b, d) /\ d.testcases = b.testcases /\ d.clausesCov = b.clausesCov
  /\ d.testcasePosToIdx = b.testcasePosToIdx /\ d.testcaseIdx = b.testcaseIdx

(* After CoverAgain the row at p has the tuples, and a tuple that was one  *)
(* row's only has left that row's unique list and weight.                  *)
LEMMA CoverAgainIs ==
  ASSUME NEW b, NEW C, NEW p, Exact(b, PlacesOf(b), C), p \in PlacesOf(b),
         b.testcasePosToIdx[p] = b.testcaseIdx, \A t \in IdsOf(b) : p \notin C[t],
         NEW again \in Seq(IdsOf(b)), IsInjective(again), \A t \in Range(again) : C[t] # {}
  PROVE  CoveredMore(b, C, Range(again), p, CoverAgain(b, p, again))
<1> DEFINE I == IdsOf(b)
           P == PlacesOf(b)
           A == Range(again)
           D == Plus(C, A, p)
           twice == { t \in A : b.coveredTimes[t] = 1 }
           names(t) == IF t \in twice THEN Live(b, t) ELSE b.coveredTestcases[t]
           at(q) == HeldAt(b, twice, q)
           k == b.testcaseIdx
           d == CoverAgain(b, p, again)
<1>1. /\ Fields \subseteq DOMAIN b /\ b.tuplesU \in Seq(Tuple) /\ b.testcases \in Seq(Row)
      /\ C \in [I -> SUBSET P] /\ DOMAIN C = I /\ p \in P /\ Shape(b, P, C)
      /\ Counted(b, P, C) /\ Placed(b, C) /\ Weighed(b, P, C) /\ Named(b, P) /\ NamesListed(b, C)
  BY DEF Exact, Shape
<1>2. A \subseteq I
  BY DEF Range
<1>3. /\ D \in [I -> SUBSET P] /\ DOMAIN D = I
      /\ \A t \in I : D[t] = IF t \in A THEN C[t] \cup {p} ELSE C[t]
  BY <1>1 DEF Plus
<1>4. /\ Fields \subseteq DOMAIN d
      /\ d.coveredTimes = [t \in DOMAIN b.coveredTimes |->
                             b.coveredTimes[t] + (IF t \in A THEN 1 ELSE 0)]
      /\ d.coveredTestcases = [t \in DOMAIN b.coveredTestcases |->
                             IF t \in A THEN Append(names(t), k) ELSE b.coveredTestcases[t]]
      /\ d.tcCoveredTuples = [b.tcCoveredTuples EXCEPT ![p] = b.tcCoveredTuples[p] \o again]
      /\ d.uniqueCoveredTuples =
           [q \in DOMAIN b.uniqueCoveredTuples |->
              Kept(b.uniqueCoveredTuples[q], Range(b.uniqueCoveredTuples[q]) \ at(q))]
      /\ d.sumWeight = [q \in DOMAIN b.sumWeight |-> b.sumWeight[q] - WeightIn(b, at(q))]
      /\ d.testcases = b.testcases /\ d.testcaseIdx = b.testcaseIdx
      /\ d.testcasePosToIdx = b.testcasePosToIdx /\ d.testcaseIdxToPos = b.testcaseIdxToPos
      /\ d.clausesCov = b.clausesCov
      /\ d.tuplesU = b.tuplesU
      /\ d.coveredTuples = b.coveredTuples /\ d.uncoveredTuples = b.uncoveredTuples
      /\ d.tuplesIdxToPos = b.tuplesIdxToPos
      /\ d.weight = b.weight /\ d.greedyLimit = b.greedyLimit /\ d.lastGreedyTime = b.lastGreedyTime
  <2> HIDE DEF at, twice, A
  <2>1. QED  BY <1>1 DEF Fields, CoverAgain, at, twice, A
<1> HIDE DEF d, A, D
<1>5. IdsOf(d) = I /\ PlacesOf(d) = P /\ Alive(d) = Alive(b)
      /\ (\A s : NamesOf(d, s) = NamesOf(b, s)) /\ (\A s : WeightIn(d, s) = WeightIn(b, s))
  BY <1>4 DEF IdsOf, PlacesOf, Alive, NamesOf, WeightIn
<1>6. /\ twice = A \cap OneRow(C, P) /\ twice \subseteq OneRow(C, P) /\ twice \subseteq A
  <2>1. \A t \in I : b.coveredTimes[t] = 1 <=> t \in OneRow(C, P)
    BY <1>1, RowsCount DEF Counted
  <2>2. QED  BY <1>2, <2>1
<1> HIDE DEF twice, k
<1>7. \A q \in P : at(q) = twice \cap Sole(C, q)
  BY <1>1, <1>6, HeldAtIs
<1> HIDE DEF at
<1>8. \A q \in P : at(q) = A \cap Sole(C, q)
  <2>1. \A q \in P : Sole(C, q) \subseteq OneRow(C, P)
    BY DEF Sole, OneRow
  <2>2. QED  BY <1>6, <1>7, <2>1
<1> HIDE DEF I, P
<1>9. Shape(d, P, D)
  BY <1>1, <1>3, <1>4, <1>5 DEF Shape
<1>10. \A q \in P : /\ q # p => Held(D, q) = Held(C, q)
                    /\ Held(C, p) = {} /\ Held(D, p) = A
  <2>1. \A t \in I : p \notin C[t]
    BY DEF I
  <2>2. QED  BY <1>1, <1>2, <1>3, <2>1 DEF Held
<1>11. Counted(d, P, D)
  <2>1. /\ b.coveredTimes \in [I -> Nat] /\ b.tcCoveredTuples \in [P -> Seq(I)]
        /\ \A t \in I : b.coveredTimes[t] = Cardinality(C[t])
        /\ \A q \in P : Lists(b.tcCoveredTuples[q], Held(C, q))
    BY <1>1 DEF Counted, I, P
  <2>2. ASSUME NEW t \in I
        PROVE  d.coveredTimes[t] = Cardinality(D[t]) /\ d.coveredTimes[t] \in Nat
    <3>1. p \notin C[t] /\ Cardinality(C[t]) \in Nat
          /\ \A r : Cardinality(C[t] \cup {r}) = IF r \in C[t] THEN Cardinality(C[t])
                                                 ELSE Cardinality(C[t]) + 1
      BY ZenonT(60), <1>1, RowsCount DEF I
    <3>2. d.coveredTimes[t] = b.coveredTimes[t] + (IF t \in A THEN 1 ELSE 0)
      BY <1>4, <2>1
    <3>3. b.coveredTimes[t] = Cardinality(C[t])
      BY <2>1
    <3>4. CASE t \in A
      <4>1. D[t] = C[t] \cup {p}
        BY <1>3, <3>4
      <4>2. Cardinality(C[t] \cup {p}) = Cardinality(C[t]) + 1
        BY <3>1
      <4>3. QED  BY <3>1, <3>2, <3>3, <3>4, <4>1, <4>2
    <3>5. CASE t \notin A
      <4>1. D[t] = C[t]
        BY <1>3, <3>5
      <4>2. QED  BY <3>1, <3>2, <3>3, <3>5, <4>1
    <3>6. QED  BY <3>4, <3>5
  <2>3. d.coveredTimes \in [I -> Nat]
    <3>1. DOMAIN d.coveredTimes = I /\ d.coveredTimes = [t \in I |-> d.coveredTimes[t]]
      BY <1>4, <2>1
    <3>2. QED  BY <2>2, <3>1
  <2> DEFINE mine == b.tcCoveredTuples[p]
             all == mine \o again
  <2>4. mine \in Seq(I) /\ Lists(mine, {}) /\ again \in Seq(I) /\ IsInjective(again)
    BY <1>1, <1>10, <2>1 DEF I
  <2> HIDE DEF mine
  <2>5. all \in Seq(I) /\ Lists(all, A)
    <3>1. Range(mine) \cap Range(again) = {} /\ IsInjective(mine) /\ Range(mine) \cup Range(again) = A
      BY <2>4 DEF Lists, A
    <3>2. /\ mine \o again \in Seq(I) /\ Range(mine \o again) = Range(mine) \cup Range(again)
          /\ IsInjective(mine) /\ IsInjective(again) /\ Range(mine) \cap Range(again) = {}
               => IsInjective(mine \o again)
      BY <2>4, ListConcat
    <3>3. QED  BY <2>4, <3>1, <3>2 DEF Lists
  <2>6. d.tcCoveredTuples = [b.tcCoveredTuples EXCEPT ![p] = all]
    BY <1>4 DEF mine
  <2> HIDE DEF all
  <2>7. d.tcCoveredTuples \in [P -> Seq(I)]
    BY <2>1, <2>5, <2>6
  <2>8. \A q \in P : d.tcCoveredTuples[q] = IF q = p THEN all ELSE b.tcCoveredTuples[q]
    BY <2>1, <2>6
  <2>9. \A q \in P : Lists(d.tcCoveredTuples[q], Held(D, q))
    BY <1>10, <2>1, <2>5, <2>8
  <2>10. QED  BY <1>5, <2>2, <2>3, <2>7, <2>9 DEF Counted
<1>12. Placed(d, D)
  <2>1. \A t \in I : D[t] = {} <=> C[t] = {}
    BY <1>3 DEF A
  <2>2. { t \in I : D[t] = {} } = { t \in I : C[t] = {} } /\ { t \in I : D[t] # {} } = { t \in I : C[t] # {} }
    BY <2>1
  <2>3. Placed(b, C)
    BY <1>1
  <2>4. QED  BY <1>4, <1>5, <2>2, <2>3 DEF Placed, I
<1>13. Weighed(d, P, D)
  <2>1. /\ b.uniqueCoveredTuples \in [P -> Seq(I)] /\ b.sumWeight \in [P -> Nat]
        /\ b.weight \in [I -> 1 .. MaxWeight]
        /\ \A q \in P : /\ Lists(b.uniqueCoveredTuples[q], Sole(C, q))
                        /\ b.sumWeight[q] = WeightIn(b, Sole(C, q))
    BY <1>1 DEF Weighed, I, P
  <2>2. ASSUME NEW q \in P
        PROVE  /\ d.uniqueCoveredTuples[q] \in Seq(I) /\ Lists(d.uniqueCoveredTuples[q], Sole(D, q))
               /\ d.sumWeight[q] = WeightIn(b, Sole(D, q)) /\ d.sumWeight[q] \in Nat
    <3> DEFINE list == b.uniqueCoveredTuples[q]
               new == Kept(list, Range(list) \ at(q))
               rest == Sole(D, q)
               taken == at(q)
    <3>1. list \in Seq(I) /\ IsInjective(list) /\ Range(list) = Sole(C, q)
      BY <2>1 DEF Lists
    <3>2. d.uniqueCoveredTuples[q] = new /\ d.sumWeight[q] = b.sumWeight[q] - WeightIn(b, at(q))
      BY <1>4, <2>1
    <3>3. \A t \in I : D[t] = {q} <=> C[t] = {q} /\ t \notin A
      <4>1. \A t \in I : p \notin C[t]
        BY DEF I
      <4>2. \A t \in A : C[t] # {}
        BY DEF A
      <4>3. QED  BY <1>3, <4>1, <4>2
    <3>4. rest = Sole(C, q) \ A /\ Sole(C, q) = rest \cup taken /\ rest \cap taken = {}
          /\ rest \subseteq I /\ taken \subseteq I
      BY <1>1, <1>2, <1>3, <1>8, <3>3 DEF Sole
    <3> HIDE DEF list, rest, taken
    <3>5. new \in Seq(I) /\ IsInjective(new) /\ Range(new) = Range(list) \cap (Range(list) \ at(q))
      BY <3>1, KeptIs
    <3>6. Lists(new, rest)
      BY <3>1, <3>4, <3>5 DEF Lists, taken
    <3>7. WeightIn(b, Sole(C, q)) = WeightIn(b, rest) + WeightIn(b, taken)
          /\ WeightIn(b, rest) \in Nat /\ WeightIn(b, taken) \in Nat
      <4>1. b.weight \in [IdsOf(b) -> 1 .. MaxWeight] /\ rest \in SUBSET IdsOf(b) /\ taken \in SUBSET IdsOf(b)
        BY <2>1, <3>4 DEF I
      <4>2. QED  BY ZenonT(60), <1>1, <3>4, <4>1, WeightIs
    <3>8. b.sumWeight[q] = WeightIn(b, Sole(C, q))
      BY <2>1
    <3>9. d.sumWeight[q] = WeightIn(b, rest)
      BY <3>2, <3>7, <3>8 DEF taken
    <3>10. QED  BY <3>2, <3>5, <3>6, <3>7, <3>9 DEF rest
  <2>3. d.uniqueCoveredTuples \in [P -> Seq(I)]
    <3>1. d.uniqueCoveredTuples = [q \in P |-> d.uniqueCoveredTuples[q]]
      BY <1>4, <2>1
    <3>2. QED  BY <2>2, <3>1
  <2>4. d.sumWeight \in [P -> Nat]
    <3>1. d.sumWeight = [q \in P |-> d.sumWeight[q]]
      BY <1>4, <2>1
    <3>2. QED  BY <2>2, <3>1
  <2>5. QED  BY ZenonT(60), <1>4, <1>5, <2>1, <2>2, <2>3, <2>4 DEF Weighed
<1>14. Named(d, P)
  BY <1>1, <1>4, <1>5 DEF Named
<1>15. NamesListed(d, D)
  <2> DEFINE T == 1 .. k
  <2>1. b.coveredTestcases \in [I -> Seq(T)]
    BY <1>1 DEF NamesListed, I, k
  <2>2. k \in T /\ k \in Alive(b) /\ b.testcasePosToIdx[p] = k
    <3>1. b.testcasePosToIdx[p] \in 1 .. k /\ b.testcasePosToIdx[p] = k
      BY <1>1 DEF Named, k
    <3>2. b.testcasePosToIdx[p] \in Alive(b)
      BY <1>1, NamesDiffer DEF Shape
    <3>3. QED  BY <3>1, <3>2
  <2> HIDE DEF T
  <2>3. ASSUME NEW t \in I
        PROVE  /\ d.coveredTestcases[t] \in Seq(T) /\ IsInjective(d.coveredTestcases[t])
               /\ Range(d.coveredTestcases[t]) \cap Alive(b) = NamesOf(b, D[t])
    <3>1. /\ b.coveredTestcases[t] \in Seq(T) /\ IsInjective(b.coveredTestcases[t])
          /\ Range(b.coveredTestcases[t]) \cap Alive(b) = NamesOf(b, C[t])
      BY <1>1, <2>1 DEF NamesListed, I
    <3>2. CASE t \notin A
      <4>1. d.coveredTestcases[t] = b.coveredTestcases[t] /\ D[t] = C[t]
        BY <1>3, <1>4, <2>1, <3>2
      <4>2. QED  BY <3>1, <4>1
    <3>3. CASE t \in A
      <4> DEFINE list == names(t)
                 new == Append(list, k)
      <4>1. /\ list \in Seq(T) /\ IsInjective(list)
            /\ Range(list) \cap Alive(b) = NamesOf(b, C[t])
        <5>1. CASE t \in twice
          <6>1. list = Live(b, t)
            BY <5>1
          <6>2. /\ Live(b, t) \in Seq(T) /\ IsInjective(Live(b, t))
                /\ Range(Live(b, t)) = NamesOf(b, C[t])
            BY <1>1, LiveIs DEF I, T, k
          <6>3. NamesOf(b, C[t]) \subseteq Alive(b)
            BY <3>1
          <6>4. QED  BY <6>1, <6>2, <6>3
        <5>2. CASE t \notin twice
          BY <3>1, <5>2
        <5>3. QED  BY <5>1, <5>2
      <4>2. k \notin NamesOf(b, C[t])
        <5>1. C[t] \subseteq P /\ p \notin C[t]
          BY <1>1 DEF I
        <5>2. \A q \in P : b.testcasePosToIdx[q] = b.testcasePosToIdx[p] => q = p
          BY <1>1, NamesDiffer DEF Shape
        <5>3. QED  BY <2>2, <5>1, <5>2 DEF NamesOf
      <4>3. d.coveredTestcases[t] = new /\ D[t] = C[t] \cup {p}
        BY <1>3, <1>4, <2>1, <3>3
      <4> HIDE DEF list
      <4>4. new \in Seq(T) /\ Range(new) = Range(list) \cup {k}
            /\ (k \notin Range(list) => IsInjective(new))
        BY <2>2, <4>1, ListAppend
      <4>5. k \notin Range(list)
        BY <2>2, <4>1, <4>2
      <4>6. NamesOf(b, C[t] \cup {p}) = NamesOf(b, C[t]) \cup {k}
        BY <2>2 DEF NamesOf
      <4>7. Range(new) \cap Alive(b) = NamesOf(b, D[t])
        BY ZenonT(60), <2>2, <4>1, <4>3, <4>4, <4>6
      <4>8. QED  BY <4>3, <4>4, <4>5, <4>7
    <3>4. QED  BY <3>2, <3>3
  <2>4. d.coveredTestcases \in [I -> Seq(T)]
    <3>1. d.coveredTestcases = [t \in I |-> d.coveredTestcases[t]]
      BY <1>4, <2>1
    <3>2. QED  BY <2>3, <3>1
  <2>5. QED  BY <1>4, <1>5, <2>3, <2>4 DEF NamesListed, T, k
<1>16. QED  BY <1>4, <1>9, <1>11, <1>12, <1>13, <1>14, <1>15 DEF Exact, CoveredMore, Kindred, d, D, A, P

(* PlaceIn finds the place of an element of a list without repetitions.    *)
LEMMA PlaceIs ==
  ASSUME NEW S, NEW list \in Seq(S), IsInjective(list), NEW i \in DOMAIN list
  PROVE  PlaceIn(list, list[i]) = i
<1>1. \A j \in DOMAIN list : list[j] = list[i] => j = i
  BY DEF IsInjective
<1>2. QED  BY <1>1 DEF PlaceIn

(* What is left of a list when the places of some elements go.             *)
LEMMA RangeOutside ==
  ASSUME NEW f, NEW s
  PROVE  { f[q] : q \in { q \in DOMAIN f : f[q] \notin s } } = { e \in Range(f) : e \notin s }
BY SMTT(60) DEF Range

(* The new row gets tuples that no row has.                                *)
LEMMA CoverFirstIs ==
  ASSUME NEW b, NEW C, NEW p, Exact(b, PlacesOf(b), C), p \in PlacesOf(b),
         b.testcasePosToIdx[p] = b.testcaseIdx, NEW hit,
         NEW first \in Seq(IdsOf(b)), IsInjective(first),
         Range(first) = { t \in IdsOf(b) : C[t] = {} } \cap hit,
         NEW places, places = { q \in DOMAIN b.uncoveredTuples : b.uncoveredTuples[q] \in hit },
         NEW e, e = CoverFirst(b, p, first), NEW taken,
         taken = TakenOut([tuples |-> e.uncoveredTuples, places |-> e.tuplesIdxToPos], places)
  PROVE  CoveredMore(b, C, Range(first), p, [e EXCEPT !.uncoveredTuples = taken.tuples])
<1> DEFINE I == IdsOf(b)
           P == PlacesOf(b)
           A == Range(first)
           D == Plus(C, A, p)
           m == Len(b.coveredTuples)
           k == b.testcaseIdx
           d == [e EXCEPT !.uncoveredTuples = taken.tuples]
<1>1. /\ Fields \subseteq DOMAIN b /\ b.tuplesU \in Seq(Tuple) /\ b.testcases \in Seq(Row)
      /\ C \in [I -> SUBSET P] /\ DOMAIN C = I /\ p \in P /\ Shape(b, P, C)
      /\ Counted(b, P, C) /\ Placed(b, C) /\ Weighed(b, P, C) /\ Named(b, P) /\ NamesListed(b, C)
  BY DEF Exact, Shape
<1>2. A \subseteq I /\ A = { t \in I : C[t] = {} /\ t \in hit }
  OBVIOUS
<1>3. /\ D \in [I -> SUBSET P] /\ DOMAIN D = I
      /\ \A t \in I : D[t] = IF t \in A THEN {p} ELSE C[t]
  BY <1>1, <1>2 DEF Plus
<1>4. /\ Fields \subseteq DOMAIN e /\ e.uncoveredTuples = b.uncoveredTuples
      /\ e.tuplesIdxToPos = [t \in DOMAIN b.tuplesIdxToPos |->
            IF t \in A THEN m + PlaceIn(first, t) ELSE b.tuplesIdxToPos[t]]
      /\ e.coveredTuples = b.coveredTuples \o first
      /\ e.coveredTimes = [t \in DOMAIN b.coveredTimes |-> IF t \in A THEN 1 ELSE b.coveredTimes[t]]
      /\ e.tcCoveredTuples = [b.tcCoveredTuples EXCEPT ![p] = b.tcCoveredTuples[p] \o first]
      /\ e.uniqueCoveredTuples =
            [b.uniqueCoveredTuples EXCEPT ![p] = b.uniqueCoveredTuples[p] \o first]
      /\ e.coveredTestcases = [t \in DOMAIN b.coveredTestcases |->
            IF t \in A THEN Append(b.coveredTestcases[t], k) ELSE b.coveredTestcases[t]]
      /\ e.sumWeight = [b.sumWeight EXCEPT ![p] = b.sumWeight[p] + WeightIn(b, A)]
      /\ e.testcases = b.testcases /\ e.testcaseIdx = b.testcaseIdx
      /\ e.testcasePosToIdx = b.testcasePosToIdx /\ e.testcaseIdxToPos = b.testcaseIdxToPos
      /\ e.clausesCov = b.clausesCov /\ e.tuplesU = b.tuplesU
      /\ e.weight = b.weight /\ e.greedyLimit = b.greedyLimit /\ e.lastGreedyTime = b.lastGreedyTime
  <2> HIDE DEF A
  <2>1. QED  BY <1>1 DEF Fields, CoverFirst, A
<1>5. /\ Fields \subseteq DOMAIN d /\ d.uncoveredTuples = taken.tuples
      /\ d.tuplesIdxToPos = e.tuplesIdxToPos /\ d.coveredTuples = e.coveredTuples
      /\ d.coveredTimes = e.coveredTimes /\ d.tcCoveredTuples = e.tcCoveredTuples
      /\ d.uniqueCoveredTuples = e.uniqueCoveredTuples
      /\ d.coveredTestcases = e.coveredTestcases /\ d.sumWeight = e.sumWeight
      /\ d.testcases = b.testcases /\ d.testcaseIdx = b.testcaseIdx
      /\ d.testcasePosToIdx = b.testcasePosToIdx /\ d.testcaseIdxToPos = b.testcaseIdxToPos
      /\ d.clausesCov = b.clausesCov /\ d.tuplesU = b.tuplesU
      /\ d.weight = b.weight /\ d.greedyLimit = b.greedyLimit /\ d.lastGreedyTime = b.lastGreedyTime
  BY <1>4 DEF Fields
<1> HIDE DEF d, A, D, k, m
<1>6. IdsOf(d) = I /\ PlacesOf(d) = P /\ Alive(d) = Alive(b)
      /\ (\A s : NamesOf(d, s) = NamesOf(b, s)) /\ (\A s : WeightIn(d, s) = WeightIn(b, s))
  BY <1>5 DEF IdsOf, PlacesOf, Alive, NamesOf, WeightIn
<1> HIDE DEF I, P
<1>7. Shape(d, P, D)
  BY <1>1, <1>3, <1>5, <1>6 DEF Shape
<1>8. \A q \in P : /\ q # p => Held(D, q) = Held(C, q) /\ Sole(D, q) = Sole(C, q)
                   /\ Held(D, p) = Held(C, p) \cup A /\ Held(C, p) \cap A = {}
                   /\ Sole(D, p) = Sole(C, p) \cup A /\ Sole(C, p) \cap A = {}
                   /\ Sole(C, p) \subseteq I
  BY ZenonT(60), <1>1, <1>2, <1>3 DEF Held, Sole
<1>9. first \in Seq(I) /\ IsInjective(first) /\ Range(first) = A
  BY DEF I, A
<1>10. ASSUME NEW list \in Seq(I), NEW s, Lists(list, s), s \cap A = {}
       PROVE  list \o first \in Seq(I) /\ Lists(list \o first, s \cup A)
  <2>1. IsInjective(list) /\ Range(list) = s
    BY <1>10 DEF Lists
  <2>2. /\ list \o first \in Seq(I) /\ Range(list \o first) = Range(list) \cup Range(first)
        /\ IsInjective(list) /\ IsInjective(first) /\ Range(list) \cap Range(first) = {}
             => IsInjective(list \o first)
    BY <1>9, ListConcat
  <2>3. QED  BY <1>9, <1>10, <2>1, <2>2 DEF Lists
<1>11. Counted(d, P, D)
  <2>1. /\ b.coveredTimes \in [I -> Nat] /\ b.tcCoveredTuples \in [P -> Seq(I)]
        /\ \A t \in I : b.coveredTimes[t] = Cardinality(C[t])
        /\ \A q \in P : Lists(b.tcCoveredTuples[q], Held(C, q))
    BY <1>1 DEF Counted, I, P
  <2>2. d.coveredTimes \in [I -> Nat] /\ \A t \in I : d.coveredTimes[t] = Cardinality(D[t])
    <3>1. d.coveredTimes = [t \in I |-> IF t \in A THEN 1 ELSE b.coveredTimes[t]]
      BY <1>4, <1>5, <2>1
    <3>2. Cardinality({p}) = 1
      BY FS_Singleton
    <3>3. ASSUME NEW t \in I
          PROVE  d.coveredTimes[t] = Cardinality(D[t]) /\ d.coveredTimes[t] \in Nat
      <4>1. CASE t \in A
        <5>1. D[t] = {p} /\ d.coveredTimes[t] = 1
          BY <1>3, <3>1, <4>1
        <5>2. QED  BY <3>2, <5>1
      <4>2. CASE t \notin A
        <5>1. D[t] = C[t] /\ d.coveredTimes[t] = b.coveredTimes[t]
          BY <1>3, <3>1, <4>2
        <5>2. QED  BY <2>1, <5>1
      <4>3. QED  BY <4>1, <4>2
    <3>4. DOMAIN d.coveredTimes = I /\ d.coveredTimes = [t \in I |-> d.coveredTimes[t]]
      BY <3>1
    <3>5. QED  BY <3>3, <3>4
  <2> DEFINE mine == b.tcCoveredTuples[p]
             all == mine \o first
  <2>3. mine \in Seq(I) /\ Lists(mine, Held(C, p))
    BY <1>1, <2>1
  <2> HIDE DEF mine
  <2>4. all \in Seq(I) /\ Lists(all, Held(D, p))
    BY <1>1, <1>8, <1>10, <2>3
  <2>5. d.tcCoveredTuples = [b.tcCoveredTuples EXCEPT ![p] = all]
    BY <1>4, <1>5 DEF mine
  <2> HIDE DEF all
  <2>6. d.tcCoveredTuples \in [P -> Seq(I)]
    BY <2>1, <2>4, <2>5
  <2>7. \A q \in P : d.tcCoveredTuples[q] = IF q = p THEN all ELSE b.tcCoveredTuples[q]
    BY <2>1, <2>5
  <2>8. \A q \in P : Lists(d.tcCoveredTuples[q], Held(D, q))
    BY <1>8, <2>1, <2>4, <2>7
  <2>9. QED  BY <1>6, <2>2, <2>6, <2>8 DEF Counted
<1>12. Weighed(d, P, D)
  <2>1. /\ b.uniqueCoveredTuples \in [P -> Seq(I)] /\ b.sumWeight \in [P -> Nat]
        /\ b.weight \in [I -> 1 .. MaxWeight]
        /\ \A q \in P : /\ Lists(b.uniqueCoveredTuples[q], Sole(C, q))
                        /\ b.sumWeight[q] = WeightIn(b, Sole(C, q))
    BY <1>1 DEF Weighed, I, P
  <2> DEFINE mine == b.uniqueCoveredTuples[p]
             all == mine \o first
             sum == b.sumWeight[p] + WeightIn(b, A)
  <2>2. mine \in Seq(I) /\ Lists(mine, Sole(C, p))
    BY <1>1, <2>1
  <2>3. sum = WeightIn(b, Sole(D, p)) /\ sum \in Nat
    <3> DEFINE s == Sole(C, p)
    <3>1. s \cap A = {} /\ s \cup A = Sole(D, p) /\ b.sumWeight[p] = WeightIn(b, s)
      BY <1>1, <1>8, <2>1
    <3>2. s \in SUBSET IdsOf(b) /\ A \in SUBSET IdsOf(b) /\ b.weight \in [IdsOf(b) -> 1 .. MaxWeight]
      BY <1>1, <1>2, <1>8, <2>1 DEF I
    <3> HIDE DEF s
    <3>3. WeightIn(b, s \cup A) = WeightIn(b, s) + WeightIn(b, A)
          /\ WeightIn(b, s) \in Nat /\ WeightIn(b, A) \in Nat
      BY ZenonT(60), <1>1, <3>1, <3>2, WeightIs
    <3>4. WeightIn(b, Sole(D, p)) = WeightIn(b, s \cup A)
      BY <3>1
    <3> DEFINE v == WeightIn(b, s)
               w == WeightIn(b, A)
    <3>5. WeightIn(b, Sole(D, p)) = v + w /\ v \in Nat /\ w \in Nat /\ b.sumWeight[p] = v
      BY <3>1, <3>3, <3>4
    <3> HIDE DEF v
    <3>6. b.sumWeight[p] + w = WeightIn(b, Sole(D, p)) /\ b.sumWeight[p] + w \in Nat
      <4> HIDE DEF w
      <4>1. QED  BY <3>5
    <3>7. QED  BY <3>6
  <2> HIDE DEF mine
  <2>4. all \in Seq(I) /\ Lists(all, Sole(D, p))
    BY ZenonT(60), <1>1, <1>8, <1>10, <2>2
  <2>5. /\ d.uniqueCoveredTuples = [b.uniqueCoveredTuples EXCEPT ![p] = all]
        /\ d.sumWeight = [b.sumWeight EXCEPT ![p] = sum]
    BY <1>4, <1>5 DEF mine
  <2> HIDE DEF all, sum
  <2>6. d.uniqueCoveredTuples \in [P -> Seq(I)]
    BY <2>1, <2>4, <2>5
  <2>7. d.sumWeight \in [P -> Nat]
    BY <2>1, <2>3, <2>5
  <2>8. \A q \in P : /\ d.uniqueCoveredTuples[q] = IF q = p THEN all ELSE b.uniqueCoveredTuples[q]
                     /\ d.sumWeight[q] = IF q = p THEN sum ELSE b.sumWeight[q]
    BY <2>1, <2>5
  <2>9. \A q \in P : /\ Lists(d.uniqueCoveredTuples[q], Sole(D, q))
                     /\ d.sumWeight[q] = WeightIn(d, Sole(D, q))
    BY ZenonT(60), <1>6, <1>8, <2>1, <2>3, <2>4, <2>8
  <2>10. QED  BY <1>5, <1>6, <2>1, <2>6, <2>7, <2>9 DEF Weighed
<1>13. Placed(d, D)
  <2> DEFINE list == b.coveredTuples
             map == e.tuplesIdxToPos
             unc == b.uncoveredTuples
  <2>1. /\ list \in Seq(I) /\ Lists(list, { t \in I : C[t] # {} })
        /\ unc \in Seq(I) /\ Lists(unc, { t \in I : C[t] = {} })
        /\ b.tuplesIdxToPos \in [I -> Nat]
        /\ \A q \in DOMAIN list : b.tuplesIdxToPos[list[q]] = q
    BY <1>1 DEF Placed, I
  <2>2. m = Len(list) /\ d.coveredTuples = list \o first
    BY <1>4, <1>5 DEF m
  <2>3. map = [t \in I |-> IF t \in A THEN m + PlaceIn(first, t) ELSE b.tuplesIdxToPos[t]]
    BY <1>4, <2>1
  <2>4. taken = TakenOut([tuples |-> unc, places |-> map], places)
    BY <1>4
  <2>5. places = { q \in DOMAIN unc : unc[q] \in hit }
    OBVIOUS
  <2> HIDE DEF list, map, unc
  <2>6. m \in Nat
    BY <2>1, <2>2
  <2>7. \A t \in A : PlaceIn(first, t) \in Nat
    <3>1. \A i \in DOMAIN first : PlaceIn(first, first[i]) = i
      BY <1>9, PlaceIs
    <3>2. \A i \in DOMAIN first : i \in Nat
      BY <1>9
    <3>3. QED  BY <1>9, <3>1, <3>2 DEF Range
  <2>8. map \in [I -> Nat]
    BY <2>1, <2>3, <2>6, <2>7
  <2>9. /\ list \o first \in Seq(I) /\ Lists(list \o first, { t \in I : D[t] # {} })
    <3> DEFINE s == { t \in I : C[t] # {} }
    <3>1. s \cap A = {} /\ s \cup A = { t \in I : D[t] # {} } /\ Lists(list, s)
      BY ZenonT(60), <1>2, <1>3, <2>1
    <3> HIDE DEF s
    <3>2. list \o first \in Seq(I) /\ Lists(list \o first, s \cup A)
      BY <1>10, <2>1, <3>1
    <3>3. QED  BY <3>1, <3>2
  <2>10. ASSUME NEW q \in DOMAIN (list \o first)
         PROVE  map[(list \o first)[q]] = q
    <3>1. /\ \A i \in 1 .. m : (list \o first)[i] = list[i] /\ i \in DOMAIN list
          /\ \A i \in 1 .. Len(first) : (list \o first)[m + i] = first[i] /\ i \in DOMAIN first
          /\ DOMAIN (list \o first) = 1 .. m + Len(first) /\ Len(first) \in Nat
      BY <1>9, <2>1, <2>2
    <3>2. CASE q \in 1 .. m
      <4>1. list[q] \in { t \in I : C[t] # {} }
        BY SMTT(60), <2>1, <3>1, <3>2 DEF Lists, Range
      <4>2. map[list[q]] = b.tuplesIdxToPos[list[q]]
        BY <1>2, <2>3, <4>1
      <4>3. QED  BY <2>1, <3>1, <3>2, <4>2
    <3>3. CASE q \notin 1 .. m
      <4> DEFINE i == q - m
      <4>1. i \in 1 .. Len(first) /\ q = m + i
        BY <2>6, <3>1, <3>3
      <4> HIDE DEF i
      <4>2. (list \o first)[q] = first[i] /\ i \in DOMAIN first
        BY <3>1, <4>1
      <4>3. first[i] \in A
        BY <1>9, <4>2 DEF Range
      <4>4. PlaceIn(first, first[i]) = i
        BY <1>9, <4>2, PlaceIs
      <4>5. map[first[i]] = m + PlaceIn(first, first[i])
        BY SMTT(60), <1>2, <2>3, <4>3
      <4>6. QED  BY <4>1, <4>2, <4>4, <4>5
    <3>4. QED  BY <3>2, <3>3
  <2>11. taken.tuples \in Seq(I) /\ Lists(taken.tuples, { t \in I : D[t] = {} })
    <3>1. I \subseteq I /\ IsInjective(unc)
      BY <2>1 DEF Lists
    <3>2. TookOut(taken, I, I, unc, map, places)
      BY <2>1, <2>4, <2>8, <3>1, TakenOutIs
    <3>3. Range(taken.tuples) = { unc[q] : q \in { q \in DOMAIN unc : unc[q] \notin hit } }
      BY <2>5, <3>2 DEF TookOut
    <3>4. Range(taken.tuples) = { t \in Range(unc) : t \notin hit }
      BY <3>3, RangeOutside
    <3>5. Range(unc) = { t \in I : C[t] = {} }
      BY <2>1 DEF Lists
    <3>6. { t \in Range(unc) : t \notin hit } = { t \in I : D[t] = {} }
      BY <1>2, <1>3, <3>5
    <3>7. QED  BY <3>2, <3>4, <3>6 DEF TookOut, Lists
  <2>12. d.tuplesIdxToPos = map
    BY <1>5 DEF map
  <2>13. QED  BY <1>5, <1>6, <2>2, <2>8, <2>9, <2>10, <2>11, <2>12 DEF Placed
<1>14. Named(d, P)
  BY <1>1, <1>5, <1>6 DEF Named
<1>15. NamesListed(d, D)
  <2> DEFINE T == 1 .. k
  <2>1. b.coveredTestcases \in [I -> Seq(T)]
    BY <1>1 DEF NamesListed, I, k
  <2>2. k \in T /\ k \in Alive(b) /\ b.testcasePosToIdx[p] = k
    <3>1. b.testcasePosToIdx[p] \in 1 .. k /\ b.testcasePosToIdx[p] = k
      BY <1>1 DEF Named, k
    <3>2. b.testcasePosToIdx[p] \in Alive(b)
      BY <1>1, NamesDiffer DEF Shape
    <3>3. QED  BY <3>1, <3>2
  <2> HIDE DEF T
  <2>3. ASSUME NEW t \in I
        PROVE  /\ d.coveredTestcases[t] \in Seq(T) /\ IsInjective(d.coveredTestcases[t])
               /\ Range(d.coveredTestcases[t]) \cap Alive(b) = NamesOf(b, D[t])
    <3> DEFINE list == b.coveredTestcases[t]
               new == Append(list, k)
    <3>1. /\ list \in Seq(T) /\ IsInjective(list)
          /\ Range(list) \cap Alive(b) = NamesOf(b, C[t])
      BY <1>1, <2>1 DEF NamesListed, I
    <3>2. d.coveredTestcases[t] = IF t \in A THEN new ELSE list
      BY <1>4, <1>5, <2>1
    <3> HIDE DEF list
    <3>3. CASE t \notin A
      BY <1>3, <3>1, <3>2, <3>3
    <3>4. CASE t \in A
      <4>1. C[t] = {} /\ D[t] = {p}
        BY <1>2, <1>3, <3>4
      <4>2. NamesOf(b, C[t]) = {} /\ NamesOf(b, D[t]) = {k}
        BY <2>2, <4>1 DEF NamesOf
      <4>3. k \notin Range(list)
        BY <2>2, <3>1, <4>2
      <4>4. new \in Seq(T) /\ Range(new) = Range(list) \cup {k} /\ IsInjective(new)
        BY <2>2, <3>1, <4>3, ListAppend
      <4>5. Range(new) \cap Alive(b) = {k}
        BY <2>2, <3>1, <4>2, <4>4
      <4>6. QED  BY <3>2, <3>4, <4>2, <4>4, <4>5
    <3>5. QED  BY <3>3, <3>4
  <2>4. d.coveredTestcases \in [I -> Seq(T)]
    <3>1. d.coveredTestcases = [t \in I |-> d.coveredTestcases[t]]
      BY <1>4, <1>5, <2>1
    <3>2. QED  BY <2>3, <3>1
  <2>5. QED  BY <1>5, <1>6, <2>3, <2>4 DEF NamesListed, T, k
<1>16. QED  BY <1>5, <1>7, <1>11, <1>12, <1>13, <1>14, <1>15 DEF Exact, CoveredMore, Kindred, d, D, A, P

(* Which rows cover a tuple, and what holds between the steps.             *)
RowsCovering(b) ==
  [t \in IdsOf(b) |-> { p \in PlacesOf(b) : Covers(b.testcases[p], b.tuplesU[t]) }]

Full(b) ==
  /\ Exact(b, PlacesOf(b), RowsCovering(b))
  /\ b.clausesCov = [p \in PlacesOf(b) |-> ClausesCov(b.testcases[p])]

(* An overwriting, from the old row's going to the new row's last tuple,   *)
(* leaves the fields exact.                                                *)
LEMMA ForcedIs ==
  ASSUME NEW b, NEW p, NEW row, Full(b), p \in PlacesOf(b), row \in Row, b.testcaseIdx < MaxIdx
  PROVE  LET d == Forced(b, p, row)
         IN /\ Full(d) /\ Kindred(b, d)
            /\ d.testcases = [b.testcases EXCEPT ![p] = row]
            /\ PlacesOf(d) = PlacesOf(b)
<1> DEFINE I == IdsOf(b)
           P == PlacesOf(b)
           C == RowsCovering(b)
           g == RowGone(b, p)
           w == Overwritten(g, p, row)
           hit == { t \in DOMAIN b.tuplesU : Covers(row, b.tuplesU[t]) }
           again == Kept(w.coveredTuples, hit)
           a == CoverAgain(w, p, again)
           first == Kept(a.uncoveredTuples, hit)
           e == CoverFirst(a, p, first)
           places == { q \in DOMAIN e.uncoveredTuples : e.uncoveredTuples[q] \in hit }
           taken == TakenOut([tuples |-> e.uncoveredTuples, places |-> e.tuplesIdxToPos], places)
           d == [e EXCEPT !.uncoveredTuples = taken.tuples]
           C1 == Without(C, p)
           C2 == Plus(C1, Range(again), p)
           C3 == Plus(C2, Range(first), p)
<1>0. p \in P
  OBVIOUS
<1>1. Forced(b, p, row) = d
  BY DEF Forced
<1>2. hit \subseteq I
  BY DEF IdsOf
<1>3. /\ Exact(g, P \ {p}, C1) /\ g.tuplesU = b.tuplesU /\ g.testcases = b.testcases
      /\ g.clausesCov = b.clausesCov /\ g.testcaseIdx = b.testcaseIdx /\ g.weight = b.weight
      /\ g.greedyLimit = b.greedyLimit /\ g.lastGreedyTime = b.lastGreedyTime
  <2> HIDE DEF g, C1, C
  <2>1. Exact(b, PlacesOf(b), C)
    BY DEF Full, C
  <2>2. Bereft(b, C, p, RowGone(b, p))
    BY <2>1, RowGoneIs
  <2>3. QED  BY <2>2 DEF g, C1, Bereft
<1> HIDE DEF g
<1>4. PlacesOf(g) = P /\ IdsOf(g) = I
  BY <1>3 DEF PlacesOf, IdsOf
<1> HIDE DEF C1
<1>5. /\ Exact(w, P, C1) /\ PlacesOf(w) = P /\ Kindred(g, w)
      /\ w.testcases = [b.testcases EXCEPT ![p] = row]
      /\ w.clausesCov = [b.clausesCov EXCEPT ![p] = ClausesCov(row)]
      /\ w.testcasePosToIdx[p] = w.testcaseIdx /\ \A t \in I : p \notin C1[t]
  <2>1. DOMAIN b.clausesCov = P
    BY DEF Full
  <2> HIDE DEF w, P
  <2>2. /\ Exact(g, PlacesOf(g) \ {p}, C1) /\ p \in PlacesOf(g) /\ g.testcaseIdx < MaxIdx
        /\ DOMAIN g.clausesCov = PlacesOf(g)
    BY <1>3, <1>4, <2>1 DEF P
  <2>3. QED  BY <1>3, <1>4, <2>2, OverwrittenIs DEF w
<1> HIDE DEF w
<1>6. IdsOf(w) = I
  BY <1>3, <1>5 DEF Kindred, IdsOf
<1>7. again \in Seq(I) /\ IsInjective(again) /\ Range(again) = { t \in I : C1[t] # {} } \cap hit
  <2> DEFINE list == w.coveredTuples
  <2>1. list \in Seq(I) /\ IsInjective(list) /\ Range(list) = { t \in I : C1[t] # {} }
    BY <1>5, <1>6 DEF Exact, Placed, Lists
  <2> HIDE DEF list, hit
  <2>2. /\ Kept(list, hit) \in Seq(I) /\ Range(Kept(list, hit)) = Range(list) \cap hit
        /\ IsInjective(Kept(list, hit))
    BY <2>1, KeptIs
  <2>3. QED  BY <2>1, <2>2 DEF list
<1> HIDE DEF again, hit
<1> HIDE DEF C2
<1>8. /\ Exact(a, P, C2) /\ Kindred(w, a) /\ a.testcases = w.testcases
      /\ a.clausesCov = w.clausesCov /\ a.testcasePosToIdx[p] = a.testcaseIdx
  <2>1. \A t \in Range(again) : C1[t] # {}
    BY <1>7
  <2>2. p \in P
    BY <1>0
  <2> HIDE DEF P, I, a
  <2>3. /\ Exact(w, PlacesOf(w), C1) /\ p \in PlacesOf(w) /\ \A t \in IdsOf(w) : p \notin C1[t]
        /\ again \in Seq(IdsOf(w)) /\ w.testcasePosToIdx[p] = w.testcaseIdx
    BY <1>5, <1>6, <1>7, <2>2
  <2>4. CoveredMore(w, C1, Range(again), p, a)
    BY <1>7, <2>1, <2>3, CoverAgainIs DEF a
  <2>5. QED  BY <1>5, <2>3, <2>4 DEF CoveredMore, C2
<1> HIDE DEF a
<1>9. IdsOf(a) = I /\ PlacesOf(a) = P
  BY <1>5, <1>6, <1>8 DEF Kindred, IdsOf, PlacesOf
<1>10. first \in Seq(I) /\ IsInjective(first) /\ Range(first) = { t \in I : C2[t] = {} } \cap hit
  <2> DEFINE list == a.uncoveredTuples
  <2>1. list \in Seq(I) /\ IsInjective(list) /\ Range(list) = { t \in I : C2[t] = {} }
    BY <1>8, <1>9 DEF Exact, Placed, Lists
  <2> HIDE DEF list
  <2>2. /\ Kept(list, hit) \in Seq(I) /\ Range(Kept(list, hit)) = Range(list) \cap hit
        /\ IsInjective(Kept(list, hit))
    BY <2>1, KeptIs
  <2>3. QED  BY <2>1, <2>2 DEF list
<1> HIDE DEF first
<1>11. e.uncoveredTuples = a.uncoveredTuples
  <2>1. Fields \subseteq DOMAIN a
    BY <1>8 DEF Exact, Shape
  <2>2. QED  BY <2>1 DEF Fields, CoverFirst
<1> HIDE DEF C3
<1>12. /\ Exact(d, P, C3) /\ Kindred(a, d) /\ d.testcases = a.testcases /\ d.clausesCov = a.clausesCov
  <2>1. p \in P
    BY <1>0
  <2>2. places = { q \in DOMAIN a.uncoveredTuples : a.uncoveredTuples[q] \in hit }
    BY <1>11
  <2>3. /\ e = CoverFirst(a, p, first)
        /\ taken = TakenOut([tuples |-> e.uncoveredTuples, places |-> e.tuplesIdxToPos], places)
    OBVIOUS
  <2>4. d = [e EXCEPT !.uncoveredTuples = taken.tuples]
    OBVIOUS
  <2> HIDE DEF P, I, d, taken, places, e
  <2>5. /\ Exact(a, PlacesOf(a), C2) /\ p \in PlacesOf(a) /\ first \in Seq(IdsOf(a))
        /\ a.testcasePosToIdx[p] = a.testcaseIdx
        /\ Range(first) = { t \in IdsOf(a) : C2[t] = {} } \cap hit
    BY <1>8, <1>9, <1>10, <2>1
  <2>6. CoveredMore(a, C2, Range(first), p, [e EXCEPT !.uncoveredTuples = taken.tuples])
    BY ZenonT(60), <1>10, <2>2, <2>3, <2>5, CoverFirstIs
  <2>7. QED  BY <1>9, <2>4, <2>6 DEF C3, CoveredMore
<1> HIDE DEF d
<1>13. /\ d.tuplesU = b.tuplesU /\ d.testcases = [b.testcases EXCEPT ![p] = row]
       /\ d.clausesCov = [b.clausesCov EXCEPT ![p] = ClausesCov(row)] /\ Kindred(b, d)
  BY <1>3, <1>5, <1>8, <1>12 DEF Kindred
<1>14. b.testcases \in Seq(Row) /\ DOMAIN b.testcases = P /\ C \in [I -> SUBSET P] /\ DOMAIN C = I
  <2>1. b.testcases \in Seq(Row)
    BY DEF Full, Exact, Shape
  <2>2. QED  BY <2>1 DEF RowsCovering, PlacesOf
<1>15. IdsOf(d) = I /\ PlacesOf(d) = P
  BY <1>13, <1>14 DEF IdsOf, PlacesOf
<1>16. RowsCovering(d) = C3
  <2> DEFINE now(t) == { q \in P : Covers(d.testcases[q], b.tuplesU[t]) }
  <2>1. RowsCovering(d) = [t \in I |-> now(t)]
    BY <1>13, <1>15 DEF RowsCovering
  <2>2. \A q \in P : d.testcases[q] = IF q = p THEN row ELSE b.testcases[q]
    BY <1>13, <1>14
  <2>3. \A t \in I : C[t] = { q \in P : Covers(b.testcases[q], b.tuplesU[t]) }
    BY DEF RowsCovering
  <2>4. \A t \in I : t \in hit <=> Covers(row, b.tuplesU[t])
    BY DEF hit, IdsOf
  <2> HIDE DEF C
  <2>5. DOMAIN C1 = I /\ \A t \in I : C1[t] = C[t] \ {p}
    BY <1>14 DEF C1, Without
  <2>6. DOMAIN C2 = I /\ \A t \in I : C2[t] = IF t \in Range(again) THEN C1[t] \cup {p} ELSE C1[t]
    BY <2>5 DEF C2, Plus
  <2>7. C3 = [t \in I |-> IF t \in Range(first) THEN C2[t] \cup {p} ELSE C2[t]]
    BY <2>6 DEF C3, Plus
  <2> HIDE DEF I
  <2>8. ASSUME NEW t \in I PROVE C3[t] = now(t)
    <3>1. \A q \in P : q # p => (q \in C1[t] <=> Covers(b.testcases[q], b.tuplesU[t]))
      BY <2>3, <2>5
    <3>2. C1[t] \subseteq P /\ p \notin C1[t] /\ p \in P
      BY <2>3, <2>5
    <3>3. now(t) = C1[t] \cup (IF t \in hit THEN {p} ELSE {})
      BY <2>2, <2>4, <3>1, <3>2
    <3>4. C3[t] = C1[t] \cup (IF t \in hit THEN {p} ELSE {})
      <4>1. C3[t] = IF t \in Range(first) THEN C2[t] \cup {p} ELSE C2[t]
        BY <2>7
      <4>2. C2[t] = IF t \in Range(again) THEN C1[t] \cup {p} ELSE C1[t]
        BY <2>6
      <4>3. t \in Range(again) <=> C1[t] # {} /\ t \in hit
        BY <1>7
      <4>4. t \in Range(first) <=> C2[t] = {} /\ t \in hit
        BY <1>10
      <4>5. QED  BY <4>1, <4>2, <4>3, <4>4
    <3>5. QED  BY <3>3, <3>4
  <2>9. C3 = [t \in I |-> C3[t]]
    BY <2>7
  <2> HIDE DEF now
  <2>10. QED  BY <2>1, <2>8, <2>9
<1>17. d.clausesCov = [q \in P |-> ClausesCov(d.testcases[q])]
  <2>1. b.clausesCov = [q \in P |-> ClausesCov(b.testcases[q])]
    BY DEF Full
  <2>2. \A q \in P : d.testcases[q] = IF q = p THEN row ELSE b.testcases[q]
    BY <1>13, <1>14
  <2> HIDE DEF P
  <2>3. QED  BY <1>13, <2>1, <2>2
<1>18. QED  BY <1>1, <1>12, <1>13, <1>15, <1>16, <1>17 DEF Full

(* The row that a place has after the last row of n took the place p.      *)
From(p, n, q) == IF q = p THEN n ELSE q

MovedTo(C, p, n) == [t \in DOMAIN C |-> { q \in 1 .. n - 1 : From(p, n, q) \in C[t] }]

SwappedOut(f, out, n, p, S) ==
  /\ out \in Seq(S) /\ out \in [1 .. n - 1 -> S] /\ Len(out) = n - 1
  /\ \A q \in 1 .. n - 1 : out[q] = f[From(p, n, q)]

(* SwapOut of a list with a place for each row.                            *)
LEMMA SwapRows ==
  ASSUME NEW S, NEW n \in Nat, NEW p \in 1 .. n, NEW f \in [1 .. n -> S]
  PROVE  SwappedOut(f, SwapOut(f, p), n, p, S)
<1>1. f \in Seq(S) /\ Len(f) = n /\ p \in 1 .. Len(f)
  OBVIOUS
<1> DEFINE out == SwapOut(f, p)
<1>2. /\ out \in Seq(S) /\ Len(out) = n - 1 /\ DOMAIN out = 1 .. n - 1
      /\ \A q \in 1 .. n - 1 : out[q] = IF q = p THEN f[n] ELSE f[q]
  <2>1. /\ out \in Seq(S) /\ Len(out) = Len(f) - 1 /\ DOMAIN out = 1 .. Len(f) - 1
        /\ \A q \in 1 .. Len(f) - 1 : out[q] = IF q = p THEN f[Len(f)] ELSE f[q]
    BY ONLY ZenonT(60), <1>1, SwapOutIs
  <2> HIDE DEF out
  <2>2. QED  BY <1>1, <2>1
<1> HIDE DEF out
<1>3. out \in [1 .. n - 1 -> S]
  BY <1>2
<1>4. QED  BY <1>2, <1>3 DEF out, From, SwappedOut

Moved(C, M, I, n, p) ==
  /\ M \in [I -> SUBSET (1 .. n - 1)]
  /\ \A q \in 1 .. n - 1 : /\ From(p, n, q) \in (1 .. n) \ {p}
                          /\ Held(M, q) = Held(C, From(p, n, q))
                          /\ Sole(M, q) = Sole(C, From(p, n, q))
  /\ \A r \in (1 .. n) \ {p} : \E q \in 1 .. n - 1 : From(p, n, q) = r
  /\ \A t \in I : /\ Cardinality(M[t]) = Cardinality(C[t])
                  /\ M[t] = {} <=> C[t] = {}
                  /\ C[t] = { From(p, n, q) : q \in M[t] }

(* The relation between tuples and rows after the last row has moved.      *)
LEMMA MovedIs ==
  ASSUME NEW I, NEW n \in Nat, NEW p \in 1 .. n, NEW C \in [I -> SUBSET ((1 .. n) \ {p})]
  PROVE  Moved(C, MovedTo(C, p, n), I, n, p)
<1> DEFINE M == MovedTo(C, p, n)
           R == 1 .. n - 1
           P == (1 .. n) \ {p}
           from(q) == From(p, n, q)
<1>1. /\ \A q \in R : from(q) \in P
      /\ \A q, r \in R : from(q) = from(r) => q = r
  BY DEF From
<1>2. \A r \in P : \E q \in R : from(q) = r
  <2>1. ASSUME NEW r \in P, r = n PROVE \E q \in R : from(q) = r
    <3>1. p \in R /\ from(p) = n
      BY <2>1 DEF From
    <3>2. QED  BY <2>1, <3>1
  <2>2. ASSUME NEW r \in P, r # n PROVE \E q \in R : from(q) = r
    <3>1. r \in R /\ from(r) = r
      BY <2>2 DEF From
    <3>2. QED  BY <3>1
  <2>3. QED  BY <2>1, <2>2
<1>3. DOMAIN C = I /\ DOMAIN M = I /\ \A t \in I : C[t] \subseteq P /\ M[t] = { q \in R : from(q) \in C[t] }
  BY DEF MovedTo
<1>4. IsFiniteSet(1 .. n)
  <2>1. 1 \in Int /\ n \in Int
    OBVIOUS
  <2>2. QED  BY <2>1, FS_Interval
<1>5. R \subseteq 1 .. n
  OBVIOUS
<1> HIDE DEF M, R, P, from
<1>6. ASSUME NEW t \in I
      PROVE  /\ Cardinality(M[t]) = Cardinality(C[t]) /\ (M[t] = {} <=> C[t] = {})
             /\ C[t] = { from(q) : q \in M[t] } /\ M[t] \subseteq R
  <2>1. M[t] = { q \in R : from(q) \in C[t] } /\ C[t] \subseteq P
    BY <1>3
  <2>2. C[t] = { from(q) : q \in M[t] }
    BY <1>2, <2>1
  <2> DEFINE X == M[t]
             Y == C[t]
             g == [q \in X |-> from(q)]
  <2>3. X \subseteq R /\ Y = { from(q) : q \in X }
    BY <2>1, <2>2
  <2> HIDE DEF X, Y
  <2>4. g \in Bijection(X, Y)
    <3>1. g \in [X -> Y]
      BY <2>3
    <3>2. \A y \in Y : \E q \in X : g[q] = y
      BY <2>3
    <3>3. \A q, r \in X : g[q] = g[r] => q = r
      BY <1>1, <2>3
    <3>4. QED  BY <3>1, <3>2, <3>3 DEF Bijection, Injection, Surjection, IsInjective
  <2> HIDE DEF g
  <2>5. IsFiniteSet(X) /\ ExistsBijection(X, Y)
    <3>1. X \subseteq 1 .. n
      BY <1>5, <2>3
    <3>2. IsFiniteSet(X)
      BY <1>4, <3>1, FS_Subset
    <3>3. QED  BY <2>4, <3>2 DEF ExistsBijection
  <2>7. Cardinality(X) = Cardinality(Y)
    BY <2>5, FS_Bijection
  <2>8. QED  BY <2>1, <2>2, <2>3, <2>7 DEF X, Y
<1>7. ASSUME NEW q \in R PROVE Held(M, q) = Held(C, from(q)) /\ Sole(M, q) = Sole(C, from(q))
  <2>1. ASSUME NEW t \in I
        PROVE  (q \in M[t] <=> from(q) \in C[t]) /\ (M[t] = {q} <=> C[t] = {from(q)})
    <3>1. q \in M[t] <=> from(q) \in C[t]
      BY <1>3
    <3>2. ASSUME M[t] = {q} PROVE C[t] = {from(q)}
      BY <1>6, <3>2
    <3>3. ASSUME C[t] = {from(q)} PROVE M[t] = {q}
      BY <1>1, <1>3, <3>3
    <3>4. QED  BY <3>1, <3>2, <3>3
  <2>2. QED  BY <1>3, <2>1 DEF Held, Sole
<1>8. M = [t \in I |-> M[t]]
  BY DEF M, MovedTo
<1>9. M \in [I -> SUBSET R]
  BY <1>6, <1>8
<1>10. QED  BY <1>1, <1>2, <1>6, <1>7, <1>9 DEF M, R, P, from, Moved

(* What a removal leaves, the last row taking the place of the row.        *)
Shrunk(b, p, d) ==
  /\ Full(d) /\ d.tuplesU = b.tuplesU /\ d.weight = b.weight /\ d.greedyLimit = b.greedyLimit
  /\ d.testcases = SwapOut(b.testcases, p) /\ d.lastGreedyTime = SwapOut(b.lastGreedyTime, p)

(* A removal leaves the fields exact for the rows as they then stand.      *)
LEMMA RemovedIs ==
  ASSUME NEW b, NEW p, Full(b), p \in PlacesOf(b)
  PROVE  Shrunk(b, p, Removed(b, p))
<1> DEFINE I == IdsOf(b)
           n == Len(b.testcases)
           R == 1 .. n - 1
           P == (1 .. n) \ {p}
           C == Without(RowsCovering(b), p)
           M == MovedTo(C, p, n)
           g == RowGone(b, p)
           d == Removed(b, p)
           idx == b.testcasePosToIdx[n]
           from(q) == From(p, n, q)
<1>1. /\ b.testcases \in Seq(Row) /\ PlacesOf(b) = 1 .. n /\ n \in Nat /\ p \in 1 .. n
      /\ n \in 1 .. n /\ n - 1 \in Nat
  <2>1. b.testcases \in Seq(Row)
    BY DEF Full, Exact, Shape
  <2>2. QED  BY <2>1 DEF PlacesOf
<1>2. Exact(g, P, C) /\ Bereft(b, RowsCovering(b), p, g)
  <2> HIDE DEF g, C, P, n
  <2>1. Exact(b, PlacesOf(b), RowsCovering(b))
    BY DEF Full
  <2>2. Bereft(b, RowsCovering(b), p, RowGone(b, p))
    BY <2>1, RowGoneIs
  <2>3. QED  BY <1>1, <2>2 DEF Bereft, C, P, g
<1> HIDE DEF g, C
<1>3. /\ g.tuplesU = b.tuplesU /\ g.testcases = b.testcases /\ g.clausesCov = b.clausesCov
      /\ g.testcaseIdx = b.testcaseIdx /\ g.weight = b.weight
      /\ g.testcasePosToIdx = b.testcasePosToIdx
      /\ g.greedyLimit = b.greedyLimit /\ g.lastGreedyTime = b.lastGreedyTime
      /\ IdsOf(g) = I /\ PlacesOf(g) = 1 .. n
  BY <1>1, <1>2 DEF Bereft, IdsOf, PlacesOf
<1>4. /\ Shape(g, P, C) /\ Counted(g, P, C) /\ Placed(g, C) /\ Weighed(g, P, C)
      /\ Named(g, P) /\ NamesListed(g, C) /\ Fields \subseteq DOMAIN g
      /\ C \in [I -> SUBSET P] /\ DOMAIN C = I
  BY <1>2, <1>3 DEF Exact, Shape
<1>5. /\ Fields \subseteq DOMAIN d
      /\ d.testcases = SwapOut(g.testcases, p) /\ d.lastGreedyTime = SwapOut(g.lastGreedyTime, p)
      /\ d.clausesCov = SwapOut(g.clausesCov, p)
      /\ d.tcCoveredTuples = SwapOut(g.tcCoveredTuples, p)
      /\ d.uniqueCoveredTuples = SwapOut(g.uniqueCoveredTuples, p)
      /\ d.sumWeight = SwapOut(g.sumWeight, p)
      /\ d.testcaseIdxToPos =
           [g.testcaseIdxToPos EXCEPT ![idx] = IF p = n THEN g.testcaseIdxToPos[idx] ELSE p]
      /\ d.testcasePosToIdx = [g.testcasePosToIdx EXCEPT ![p] = idx]
      /\ d.tuplesU = g.tuplesU /\ d.coveredTimes = g.coveredTimes
      /\ d.coveredTuples = g.coveredTuples /\ d.uncoveredTuples = g.uncoveredTuples
      /\ d.tuplesIdxToPos = g.tuplesIdxToPos /\ d.testcaseIdx = g.testcaseIdx
      /\ d.coveredTestcases = g.coveredTestcases
      /\ d.weight = g.weight /\ d.greedyLimit = g.greedyLimit
  <2> DEFINE x == IF p = n THEN g.testcaseIdxToPos[idx] ELSE p
  <2>1. d = [g EXCEPT !.testcases = SwapOut(@, p), !.lastGreedyTime = SwapOut(@, p),
                      !.clausesCov = SwapOut(@, p), !.tcCoveredTuples = SwapOut(@, p),
                      !.uniqueCoveredTuples = SwapOut(@, p), !.sumWeight = SwapOut(@, p),
                      !.testcaseIdxToPos[idx] = IF p = n THEN @ ELSE p,
                      !.testcasePosToIdx[p] = idx]
    BY DEF Removed, g
  <2> HIDE DEF d, idx, n
  <2>2. QED  BY <1>4, <2>1 DEF Fields
<1> HIDE DEF d
<1>6. ASSUME NEW S, NEW f \in [1 .. n -> S]
      PROVE  /\ SwapOut(f, p) \in Seq(S) /\ SwapOut(f, p) \in [R -> S] /\ Len(SwapOut(f, p)) = n - 1
             /\ \A q \in R : SwapOut(f, p)[q] = f[from(q)]
  <2> HIDE DEF n
  <2>1. SwappedOut(f, SwapOut(f, p), n, p, S)
    BY <1>1, SwapRows
  <2>2. QED  BY <2>1 DEF SwappedOut
<1>8. /\ M \in [I -> SUBSET R] /\ DOMAIN M = I
      /\ \A q \in R : /\ from(q) \in P
                      /\ Held(M, q) = Held(C, from(q)) /\ Sole(M, q) = Sole(C, from(q))
      /\ \A r \in P : \E q \in R : from(q) = r
      /\ \A t \in I : /\ Cardinality(M[t]) = Cardinality(C[t]) /\ (M[t] = {} <=> C[t] = {})
                      /\ C[t] = { from(q) : q \in M[t] }
  <2>1. n \in Nat /\ p \in 1 .. n /\ C \in [I -> SUBSET ((1 .. n) \ {p})]
    BY <1>1, <1>4
  <2> HIDE DEF n, I
  <2>2. Moved(C, M, I, n, p)
    BY <2>1, MovedIs
  <2> HIDE DEF M
  <2>3. QED  BY <2>2 DEF Moved
<1> HIDE DEF M
<1>9. P \subseteq 1 .. n /\ \A q \in R : from(q) \in 1 .. n /\ q \in Nat /\ q > 0
  BY <1>1, <1>8
<1>10. /\ d.testcases \in Seq(Row) /\ Len(d.testcases) = n - 1
       /\ \A q \in R : d.testcases[q] = b.testcases[from(q)]
  <2>1. b.testcases \in [1 .. n -> Row]
    BY <1>1
  <2> HIDE DEF R, n, from
  <2>2. QED  BY <1>3, <1>5, <1>6, <2>1
<1>11. IdsOf(d) = I /\ PlacesOf(d) = R
  BY <1>1, <1>3, <1>5, <1>10 DEF IdsOf, PlacesOf
<1> HIDE DEF n, from, R, P, I
<1>12. Shape(d, R, M)
  <2>1. d.tuplesU \in Seq(Tuple)
    BY <1>4, <1>5 DEF Shape
  <2>2. QED  BY <1>5, <1>8, <1>10, <1>11, <2>1 DEF Shape
<1>13. Counted(d, R, M)
  <2>1. /\ g.coveredTimes \in [I -> Nat] /\ g.tcCoveredTuples \in [1 .. n -> Seq(I)]
        /\ \A t \in I : g.coveredTimes[t] = Cardinality(C[t])
        /\ \A q \in P : Lists(g.tcCoveredTuples[q], Held(C, q))
    BY <1>3, <1>4 DEF Counted
  <2>2. d.tcCoveredTuples \in [R -> Seq(I)] /\ \A q \in R : d.tcCoveredTuples[q] = g.tcCoveredTuples[from(q)]
    <3> DEFINE T == Seq(I)
               f == g.tcCoveredTuples
    <3>1. f \in [1 .. n -> T] /\ d.tcCoveredTuples = SwapOut(f, p)
      BY <1>5, <2>1
    <3> HIDE DEF T, f
    <3>2. d.tcCoveredTuples \in [R -> T] /\ \A q \in R : d.tcCoveredTuples[q] = f[from(q)]
      BY <1>6, <3>1
    <3>3. QED  BY <3>2 DEF T, f
  <2>3. QED  BY <1>5, <1>8, <1>11, <2>1, <2>2 DEF Counted
<1>14. Placed(d, M)
  <2>1. { t \in I : M[t] # {} } = { t \in I : C[t] # {} } /\ { t \in I : M[t] = {} } = { t \in I : C[t] = {} }
    BY <1>8
  <2>2. QED  BY <1>3, <1>4, <1>5, <1>11, <2>1 DEF Placed
<1>15. Weighed(d, R, M)
  <2>1. /\ g.uniqueCoveredTuples \in [1 .. n -> Seq(I)] /\ g.sumWeight \in [1 .. n -> Nat]
        /\ g.weight \in [I -> 1 .. MaxWeight]
        /\ \A q \in P : /\ Lists(g.uniqueCoveredTuples[q], Sole(C, q))
                        /\ g.sumWeight[q] = WeightIn(g, Sole(C, q))
    BY <1>3, <1>4 DEF Weighed
  <2>2. /\ d.uniqueCoveredTuples \in [R -> Seq(I)] /\ d.sumWeight \in [R -> Nat]
        /\ \A q \in R : /\ d.uniqueCoveredTuples[q] = g.uniqueCoveredTuples[from(q)]
                        /\ d.sumWeight[q] = g.sumWeight[from(q)]
    <3> DEFINE T == Seq(I)
               f == g.uniqueCoveredTuples
               e == g.sumWeight
    <3>1. /\ f \in [1 .. n -> T] /\ d.uniqueCoveredTuples = SwapOut(f, p)
          /\ e \in [1 .. n -> Nat] /\ d.sumWeight = SwapOut(e, p)
      BY <1>5, <2>1
    <3> HIDE DEF T, f, e
    <3>2. d.uniqueCoveredTuples \in [R -> T] /\ \A q \in R : d.uniqueCoveredTuples[q] = f[from(q)]
      BY ZenonT(60), <1>6, <3>1
    <3>3. d.sumWeight \in [R -> Nat] /\ \A q \in R : d.sumWeight[q] = e[from(q)]
      BY ZenonT(60), <1>6, <3>1
    <3>4. QED  BY <3>2, <3>3 DEF T, f, e
  <2>3. \A s : WeightIn(d, s) = WeightIn(g, s)
    BY <1>5 DEF WeightIn
  <2>4. \A q \in R : /\ Lists(d.uniqueCoveredTuples[q], Sole(M, q))
                     /\ d.sumWeight[q] = WeightIn(d, Sole(M, q))
    BY <1>8, <2>1, <2>2, <2>3
  <2>5. QED  BY <1>5, <1>11, <2>1, <2>2, <2>4 DEF Weighed
<1>16. /\ g.testcaseIdx \in 0 .. MaxIdx /\ g.testcaseIdxToPos \in Seq(Nat)
       /\ DOMAIN g.testcaseIdxToPos = 1 .. g.testcaseIdx /\ Len(g.testcaseIdxToPos) = g.testcaseIdx
       /\ g.testcasePosToIdx \in Seq(1 .. MaxIdx) /\ n <= Len(g.testcasePosToIdx)
       /\ idx = g.testcasePosToIdx[n]
       /\ \A q \in P : g.testcasePosToIdx[q] \in 1 .. g.testcaseIdx
       /\ \A q \in P : g.testcaseIdxToPos[g.testcasePosToIdx[q]] = q
       /\ \A i \in Alive(g) : /\ g.testcaseIdxToPos[i] \in P
                              /\ g.testcasePosToIdx[g.testcaseIdxToPos[i]] = i
  BY <1>3, <1>4 DEF Named, n
<1> HIDE DEF idx
<1>17. /\ d.testcasePosToIdx \in Seq(1 .. MaxIdx) /\ Len(d.testcasePosToIdx) = Len(g.testcasePosToIdx)
       /\ \A q \in R : d.testcasePosToIdx[q] = g.testcasePosToIdx[from(q)]
  <2> DEFINE f == g.testcasePosToIdx
             T == 1 .. MaxIdx
             m == Len(f)
  <2>1. f \in Seq(T) /\ p \in 1 .. Len(f) /\ R \subseteq 1 .. Len(f) /\ idx \in T /\ idx = f[n]
        /\ d.testcasePosToIdx = [f EXCEPT ![p] = idx]
    <3>1. n \in 1 .. m /\ p \in 1 .. m /\ R \subseteq 1 .. m /\ m \in Nat
      BY <1>1, <1>16 DEF R
    <3>2. f[n] \in T
      <4>1. f \in Seq(T) /\ n \in 1 .. Len(f)
        BY <1>16, <3>1
      <4> HIDE DEF f, T, m, n
      <4>2. QED  BY <4>1
    <3>3. QED  BY <1>5, <1>16, <3>1, <3>2
  <2> HIDE DEF f, T, m
  <2>2. /\ [f EXCEPT ![p] = idx] \in Seq(T) /\ Len([f EXCEPT ![p] = idx]) = Len(f)
        /\ \A q \in R : [f EXCEPT ![p] = idx][q] = IF q = p THEN idx ELSE f[q]
    BY <2>1
  <2>3. QED  BY <2>1, <2>2 DEF f, T, from, From
<1>18. /\ d.testcaseIdxToPos \in Seq(Nat) /\ Len(d.testcaseIdxToPos) = g.testcaseIdx
       /\ DOMAIN d.testcaseIdxToPos = 1 .. g.testcaseIdx
       /\ \A i \in 1 .. g.testcaseIdx :
            d.testcaseIdxToPos[i] = IF i = idx /\ p # n THEN p ELSE g.testcaseIdxToPos[i]
  <2> DEFINE f == g.testcaseIdxToPos
             k == g.testcaseIdx
             x == IF p = n THEN f[idx] ELSE p
  <2>1. f \in Seq(Nat) /\ Len(f) = k /\ DOMAIN f = 1 .. k /\ d.testcaseIdxToPos = [f EXCEPT ![idx] = x]
    BY <1>5, <1>16
  <2>2. p # n => x = p /\ p \in Nat
    BY <1>1
  <2>3. p = n => x = f[idx]
    OBVIOUS
  <2> HIDE DEF f, x
  <2>4. ASSUME idx \in DOMAIN f
        PROVE  /\ [f EXCEPT ![idx] = x] \in Seq(Nat) /\ Len([f EXCEPT ![idx] = x]) = k
               /\ \A i \in 1 .. k : [f EXCEPT ![idx] = x][i] = IF i = idx THEN x ELSE f[i]
    <3>1. x \in Nat
      BY <2>1, <2>2, <2>3, <2>4
    <3> HIDE DEF k
    <3>2. QED  BY <2>1, <2>4, <3>1
  <2>5. ASSUME idx \notin DOMAIN f
        PROVE  /\ [f EXCEPT ![idx] = x] = f /\ idx \notin 1 .. k
    BY <2>1, <2>5
  <2>6. /\ d.testcaseIdxToPos \in Seq(Nat) /\ Len(d.testcaseIdxToPos) = k
        /\ \A i \in 1 .. k : d.testcaseIdxToPos[i] = IF i = idx THEN x ELSE f[i]
    <3> HIDE DEF k
    <3>1. QED  BY <2>1, <2>4, <2>5
  <2>7. DOMAIN d.testcaseIdxToPos = 1 .. k
    <3> HIDE DEF k
    <3>1. QED  BY <2>6
  <2>8. QED  BY <2>2, <2>3, <2>6, <2>7 DEF f
<1>19. p # n => n \in P /\ idx \in 1 .. g.testcaseIdx /\ g.testcaseIdxToPos[idx] = n
  BY <1>1, <1>16 DEF P
<1>20. Alive(d) = Alive(g) /\ Alive(g) \subseteq 1 .. g.testcaseIdx
  <2>1. ASSUME NEW i \in 1 .. g.testcaseIdx
        PROVE  d.testcaseIdxToPos[i] > 0 <=> g.testcaseIdxToPos[i] > 0
    <3>1. CASE i = idx /\ p # n
      BY SMTT(60), <1>1, <1>18, <1>19, <3>1
    <3>2. CASE ~(i = idx /\ p # n)
      BY <1>18, <3>2
    <3>3. QED  BY <3>1, <3>2
  <2>2. QED  BY <1>16, <1>18, <2>1 DEF Alive
<1>21. Named(d, R)
  <2>1. ASSUME NEW q \in R
        PROVE  /\ d.testcasePosToIdx[q] \in 1 .. g.testcaseIdx
               /\ d.testcaseIdxToPos[d.testcasePosToIdx[q]] = q
    <3>1. d.testcasePosToIdx[q] = g.testcasePosToIdx[from(q)] /\ from(q) \in P
      BY <1>8, <1>17
    <3>2. d.testcasePosToIdx[q] \in 1 .. g.testcaseIdx /\ g.testcaseIdxToPos[d.testcasePosToIdx[q]] = from(q)
      BY <1>16, <3>1
    <3>3. CASE q = p
      <4>1. from(q) = n /\ p # n
        BY <1>1, <3>3 DEF from, From, R
      <4>2. QED  BY <1>16, <1>18, <3>1, <3>2, <3>3, <4>1
    <3>4. CASE q # p
      <4>1. from(q) = q /\ q # n
        BY <1>1, <3>4 DEF from, From, R
      <4>2. p # n => d.testcasePosToIdx[q] # idx
        BY <1>19, <3>2, <4>1
      <4>3. QED  BY <1>18, <3>2, <4>1, <4>2
    <3>5. QED  BY <3>2, <3>3, <3>4
  <2>2. ASSUME NEW i \in Alive(d)
        PROVE  /\ d.testcaseIdxToPos[i] \in R
               /\ d.testcasePosToIdx[d.testcaseIdxToPos[i]] = i
    <3>1. /\ i \in 1 .. g.testcaseIdx /\ g.testcaseIdxToPos[i] \in P
          /\ g.testcasePosToIdx[g.testcaseIdxToPos[i]] = i
      BY <1>16, <1>20
    <3>2. PICK q \in R : from(q) = g.testcaseIdxToPos[i]
      BY <1>8, <3>1
    <3>3. d.testcasePosToIdx[q] = i
      BY <1>17, <3>1, <3>2
    <3>4. d.testcaseIdxToPos[i] = q
      BY <2>1, <3>3
    <3>5. QED  BY <3>3, <3>4
  <2>3. Len(d.testcases) <= Len(d.testcasePosToIdx)
    BY <1>1, <1>10, <1>16, <1>17
  <2>4. QED  BY <1>5, <1>16, <1>17, <1>18, <2>1, <2>2, <2>3 DEF Named
<1>22. NamesListed(d, M)
  <2>1. \A t \in I : NamesOf(d, M[t]) = NamesOf(g, C[t])
    <3>1. ASSUME NEW t \in I PROVE NamesOf(d, M[t]) = NamesOf(g, C[t])
      <4>1. M[t] \subseteq R /\ C[t] = { from(q) : q \in M[t] }
        BY <1>8
      <4>2. \A q \in M[t] : d.testcasePosToIdx[q] = g.testcasePosToIdx[from(q)]
        BY <1>17, <4>1
      <4>3. QED  BY <4>1, <4>2 DEF NamesOf
    <3>2. QED  BY <3>1
  <2>2. /\ g.coveredTestcases \in [I -> Seq(1 .. g.testcaseIdx)]
        /\ \A t \in I : /\ IsInjective(g.coveredTestcases[t])
                        /\ Range(g.coveredTestcases[t]) \cap Alive(g) = NamesOf(g, C[t])
    BY <1>3, <1>4 DEF NamesListed
  <2>3. QED  BY <1>5, <1>11, <1>20, <2>1, <2>2 DEF NamesListed
<1>23. Exact(d, R, M)
  BY <1>12, <1>13, <1>14, <1>15, <1>21, <1>22 DEF Exact
<1>24. RowsCovering(d) = M
  <2> DEFINE now(t) == { q \in R : Covers(d.testcases[q], b.tuplesU[t]) }
  <2>1. RowsCovering(d) = [t \in I |-> now(t)]
    BY <1>3, <1>5, <1>11 DEF RowsCovering
  <2>2. C = [t \in I |-> { q \in 1 .. n : Covers(b.testcases[q], b.tuplesU[t]) } \ {p}]
    BY <1>1 DEF RowsCovering, Without, C, I
  <2>3. M = [t \in I |-> { q \in R : from(q) \in C[t] }]
    BY <1>4 DEF M, MovedTo, R, from
  <2>4. ASSUME NEW t \in I PROVE now(t) = M[t]
    <3>1. \A q \in R : from(q) \in C[t] <=> Covers(b.testcases[from(q)], b.tuplesU[t])
      <4>1. \A q \in R : from(q) \in 1 .. n /\ from(q) # p
        BY <1>8, <1>9 DEF P
      <4>2. QED  BY <2>2, <4>1
    <3>2. M[t] = { q \in R : from(q) \in C[t] }
      BY <2>3
    <3>3. \A q \in R : d.testcases[q] = b.testcases[from(q)]
      BY <1>10
    <3>4. QED  BY <3>1, <3>2, <3>3
  <2> HIDE DEF now
  <2>5. QED  BY <1>8, <2>1, <2>3, <2>4
<1>25. d.clausesCov = [q \in PlacesOf(d) |-> ClausesCov(d.testcases[q])]
  <2> DEFINE f == b.clausesCov
             S == { ClausesCov(b.testcases[q]) : q \in 1 .. n }
  <2>1. f = [q \in 1 .. n |-> ClausesCov(b.testcases[q])]
    BY <1>1 DEF Full
  <2>2. f \in [1 .. n -> S]
    BY <2>1
  <2>3. d.clausesCov = SwapOut(f, p)
    BY <1>3, <1>5
  <2> HIDE DEF f, S
  <2>4. d.clausesCov \in [R -> S] /\ \A q \in R : d.clausesCov[q] = f[from(q)]
    BY <1>6, <2>2, <2>3
  <2>5. \A q \in R : d.clausesCov[q] = ClausesCov(d.testcases[q])
    BY <1>9, <1>10, <2>1, <2>4
  <2>6. d.clausesCov = [q \in R |-> d.clausesCov[q]]
    BY <2>4
  <2>7. QED  BY <1>11, <2>5, <2>6
<1>26. Full(d)
  BY <1>11, <1>23, <1>24, <1>25 DEF Full
<1>27. QED  BY <1>3, <1>5, <1>26 DEF Shrunk, d

(* The marks of the rows: those that are set differ, and the next one is   *)
(* beyond all of them.                                                     *)
Marks(b) ==
  /\ b.greedyLimit \in Nat /\ b.lastGreedyTime \in [PlacesOf(b) -> Int]
  /\ \A p \in PlacesOf(b) : b.lastGreedyTime[p] <= b.greedyLimit
  /\ \A p, q \in PlacesOf(b) :
       p # q /\ b.lastGreedyTime[p] > 0 => b.lastGreedyTime[p] # b.lastGreedyTime[q]

Steady(b) == Full(b) /\ Marks(b)

(* What a step does to the fields that the coverage sets are made of.      *)
Draws(b, d) ==
  /\ d.tuplesU = b.tuplesU /\ d.testcases = b.testcases /\ d.testcaseIdx = b.testcaseIdx
  /\ Range(d.uncoveredTuples) = Range(b.uncoveredTuples)

(* The types that the proofs need most.                                    *)
LEMMA FieldsOf ==
  ASSUME NEW b, Full(b)
  PROVE  /\ Fields \subseteq DOMAIN b /\ b.tuplesU \in Seq(Tuple) /\ b.testcases \in Seq(Row)
         /\ RowsCovering(b) \in [IdsOf(b) -> SUBSET PlacesOf(b)]
  BY DEF Full, Exact, Shape

(* A write, whether it marks its row or not, keeps what holds between      *)
(* steps.                                                                  *)
LEMMA ForcedSteady ==
  ASSUME NEW b, NEW w \in Writes(b), Steady(b)
  PROVE  LET d == Written(b, w)
         IN /\ Steady(d) /\ d.tuplesU = b.tuplesU
            /\ d.testcases = [b.testcases EXCEPT ![w.p] = w.row]
            /\ w.p \in PlacesOf(b) /\ w.row \in Row
<1> DEFINE f == Forced(b, w.p, w.row)
           d == Written(b, w)
<1>1. b.testcaseIdx < MaxIdx /\ w.p \in PlacesOf(b) /\ w.row \in Row
  BY DEF Writes, PlacesOf
<1>2. /\ Full(f) /\ Kindred(b, f) /\ f.testcases = [b.testcases EXCEPT ![w.p] = w.row]
      /\ PlacesOf(f) = PlacesOf(b)
  <2>1. Full(b)
    BY DEF Steady
  <2>2. QED  BY ONLY <1>1, <2>1, ForcedIs DEF f
<1>3. Marks(f)
  BY <1>2 DEF Steady, Marks, Kindred
<1>4. Fields \subseteq DOMAIN f
  BY <1>2, FieldsOf
<1> HIDE DEF f
<1>5. CASE ~w.marked
  <2>1. d = f
    BY <1>5 DEF Written, f
  <2>2. QED  BY <1>1, <1>2, <1>3, <2>1 DEF Steady, Kindred
<1>6. CASE w.marked
  <2> DEFINE m == Marked(f, w.p)
  <2>1. d = m
    BY <1>6 DEF Written, f
  <2>2. /\ Fields \subseteq DOMAIN m
        /\ m.greedyLimit = f.greedyLimit + 1
        /\ m.lastGreedyTime = [f.lastGreedyTime EXCEPT ![w.p] = f.greedyLimit + 1]
        /\ m.tuplesU = f.tuplesU /\ m.testcases = f.testcases /\ m.coveredTimes = f.coveredTimes
        /\ m.coveredTuples = f.coveredTuples /\ m.uncoveredTuples = f.uncoveredTuples
        /\ m.tuplesIdxToPos = f.tuplesIdxToPos /\ m.testcaseIdx = f.testcaseIdx
        /\ m.testcasePosToIdx = f.testcasePosToIdx /\ m.testcaseIdxToPos = f.testcaseIdxToPos
        /\ m.tcCoveredTuples = f.tcCoveredTuples /\ m.uniqueCoveredTuples = f.uniqueCoveredTuples
        /\ m.coveredTestcases = f.coveredTestcases /\ m.weight = f.weight
        /\ m.sumWeight = f.sumWeight /\ m.clausesCov = f.clausesCov
    BY <1>4 DEF Fields, Marked
  <2> HIDE DEF m
  <2>3. Full(m)
    <3>1. IdsOf(m) = IdsOf(f) /\ PlacesOf(m) = PlacesOf(f) /\ RowsCovering(m) = RowsCovering(f)
          /\ Alive(m) = Alive(f) /\ \A ps : NamesOf(m, ps) = NamesOf(f, ps)
          /\ \A s : WeightIn(m, s) = WeightIn(f, s)
      BY <2>2 DEF IdsOf, PlacesOf, RowsCovering, Alive, NamesOf, WeightIn
    <3> DEFINE C == RowsCovering(f)
               P == PlacesOf(f)
    <3>2. Exact(f, P, C) /\ f.clausesCov = [q \in P |-> ClausesCov(f.testcases[q])]
      BY <1>2 DEF Full
    <3>3. m.clausesCov = [q \in P |-> ClausesCov(m.testcases[q])]
      BY <2>2, <3>2
    <3> HIDE DEF C, P
    <3>4. PlacesOf(f) = P /\ PlacesOf(m) = P /\ RowsCovering(m) = C
      BY <3>1 DEF C, P
    <3>5. Shape(m, P, C) /\ Counted(m, P, C) /\ Placed(m, C)
      BY <2>2, <3>1, <3>2 DEF Exact, Shape, Counted, Placed
    <3>6. Weighed(m, P, C)
      BY <2>2, <3>1, <3>2 DEF Exact, Weighed
    <3>7. Named(f, P) /\ NamesListed(f, C)
      BY <3>2 DEF Exact
    <3>8. Named(m, P)
      <4>1. /\ m.testcaseIdx = f.testcaseIdx /\ m.testcaseIdxToPos = f.testcaseIdxToPos
            /\ m.testcasePosToIdx = f.testcasePosToIdx /\ m.testcases = f.testcases
            /\ Alive(m) = Alive(f)
        BY ONLY <2>2, <3>1
      <4>2. QED  BY ONLY <3>7, <4>1 DEF Named
    <3>9. NamesListed(m, C)
      <4>1. /\ m.coveredTestcases = f.coveredTestcases /\ m.testcaseIdx = f.testcaseIdx
            /\ IdsOf(m) = IdsOf(f) /\ Alive(m) = Alive(f) /\ \A ps : NamesOf(m, ps) = NamesOf(f, ps)
        BY ONLY <2>2, <3>1
      <4>2. QED  BY ONLY <3>7, <4>1 DEF NamesListed
    <3>10. QED  BY <3>3, <3>4, <3>5, <3>6, <3>8, <3>9 DEF Full, Exact
  <2>4. Marks(m)
    <3>1. PlacesOf(m) = PlacesOf(f)
      BY <2>2 DEF PlacesOf
    <3> DEFINE l == f.lastGreedyTime
               g == f.greedyLimit
               P == PlacesOf(f)
               p == w.p
    <3>2. /\ l \in [P -> Int] /\ g \in Nat /\ p \in P /\ \A q \in P : l[q] <= g
          /\ \A q, r \in P : q # r /\ l[q] > 0 => l[q] # l[r]
          /\ m.lastGreedyTime = [l EXCEPT ![p] = g + 1] /\ m.greedyLimit = g + 1
      BY <1>1, <1>2, <1>3, <2>2 DEF Marks
    <3> HIDE DEF l, g, P, p
    <3>3. /\ m.lastGreedyTime \in [P -> Int] /\ m.greedyLimit \in Nat
          /\ \A q \in P : m.lastGreedyTime[q] = IF q = p THEN g + 1 ELSE l[q]
      BY <3>2
    <3>4. \A q \in P : m.lastGreedyTime[q] <= g + 1 /\ l[q] # g + 1 /\ l[q] \in Int
      BY <3>2, <3>3
    <3>5. QED  BY <3>1, <3>2, <3>3, <3>4 DEF Marks, P
  <2>5. QED  BY <1>1, <1>2, <2>1, <2>2, <2>3, <2>4 DEF Steady, Kindred
<1>7. QED  BY <1>5, <1>6 DEF d

(* A removal keeps what holds between steps.                               *)
LEMMA RemovedSteady ==
  ASSUME NEW b, NEW p \in PlacesOf(b), Steady(b)
  PROVE  LET d == Removed(b, p)
         IN /\ Steady(d) /\ d.tuplesU = b.tuplesU /\ d.testcases = SwapOut(b.testcases, p)
            /\ PlacesOf(d) = 1 .. Len(b.testcases) - 1 /\ Len(d.testcases) = Len(b.testcases) - 1
            /\ \A q \in PlacesOf(d) : d.testcases[q] = b.testcases[From(p, Len(b.testcases), q)]
<1> DEFINE d == Removed(b, p)
           n == Len(b.testcases)
           f == b.testcases
           l == b.lastGreedyTime
           P == 1 .. n
           R == 1 .. n - 1
           from(q) == From(p, n, q)
<1>1. Shrunk(b, p, d)
  BY RemovedIs DEF Steady
<1>2. f \in Seq(Row) /\ n \in Nat /\ PlacesOf(b) = P /\ p \in P /\ f \in [P -> Row]
  BY FieldsOf DEF Steady, PlacesOf
<1>3. l \in [P -> Int]
  BY <1>2 DEF Steady, Marks
<1> HIDE DEF d, f, l, n
<1>4. /\ SwappedOut(f, SwapOut(f, p), n, p, Row)
      /\ SwappedOut(l, SwapOut(l, p), n, p, Int)
  BY <1>2, <1>3, SwapRows
<1>5. /\ d.testcases = SwapOut(f, p) /\ d.lastGreedyTime = SwapOut(l, p)
      /\ d.greedyLimit = b.greedyLimit /\ d.tuplesU = b.tuplesU /\ Full(d)
  BY <1>1 DEF Shrunk, f, l
<1>6. /\ Len(d.testcases) = n - 1 /\ d.testcases \in Seq(Row)
      /\ \A q \in R : d.testcases[q] = f[from(q)]
      /\ d.lastGreedyTime \in [R -> Int] /\ \A q \in R : d.lastGreedyTime[q] = l[from(q)]
  BY <1>4, <1>5 DEF SwappedOut
<1>7. PlacesOf(d) = R
  BY <1>6 DEF PlacesOf
<1>8. /\ \A q \in R : from(q) \in P
      /\ \A q, r \in R : q # r => from(q) # from(r)
  BY <1>2 DEF From
<1>9. Marks(d)
  <2>1. /\ b.greedyLimit \in Nat /\ \A q \in P : l[q] <= b.greedyLimit
        /\ \A q, r \in P : q # r /\ l[q] > 0 => l[q] # l[r]
    BY <1>2 DEF Steady, Marks, l
  <2> HIDE DEF R, P, from
  <2>2. \A q \in R : d.lastGreedyTime[q] <= d.greedyLimit
    BY <1>5, <1>6, <1>8, <2>1
  <2>3. \A q, r \in R : q # r /\ d.lastGreedyTime[q] > 0 => d.lastGreedyTime[q] # d.lastGreedyTime[r]
    BY <1>6, <1>8, <2>1
  <2>4. QED  BY <1>5, <1>6, <1>7, <2>1, <2>2, <2>3 DEF Marks
<1>10. QED  BY <1>5, <1>6, <1>7, <1>9 DEF Steady, d, n, f

(* What Full says of fields that a step leaves as they are.                *)
LEMMA FullAgain ==
  ASSUME NEW b, NEW d, Full(b), Fields \subseteq DOMAIN d,
         d.tuplesU = b.tuplesU, d.testcases = b.testcases, d.coveredTimes = b.coveredTimes,
         d.coveredTuples = b.coveredTuples, d.tuplesIdxToPos = b.tuplesIdxToPos,
         d.testcaseIdx = b.testcaseIdx, d.testcasePosToIdx = b.testcasePosToIdx,
         d.testcaseIdxToPos = b.testcaseIdxToPos, d.tcCoveredTuples = b.tcCoveredTuples,
         d.coveredTestcases = b.coveredTestcases, d.clausesCov = b.clausesCov,
         d.uncoveredTuples \in Seq(IdsOf(b)), IsInjective(d.uncoveredTuples),
         Range(d.uncoveredTuples) = Range(b.uncoveredTuples),
         Weighed(d, PlacesOf(b), RowsCovering(b))
  PROVE  Full(d)
<1> DEFINE C == RowsCovering(b)
           P == PlacesOf(b)
<1>1. /\ Exact(b, P, C) /\ b.clausesCov = [q \in P |-> ClausesCov(b.testcases[q])]
      /\ Weighed(d, P, C)
  BY DEF Full
<1>2. d.clausesCov = [q \in P |-> ClausesCov(d.testcases[q])]
  BY <1>1
<1>3. /\ IdsOf(d) = IdsOf(b) /\ PlacesOf(d) = P /\ RowsCovering(d) = C
      /\ Alive(d) = Alive(b) /\ \A ps : NamesOf(d, ps) = NamesOf(b, ps)
  BY DEF IdsOf, PlacesOf, RowsCovering, Alive, NamesOf
<1> HIDE DEF C, P
<1>4. PlacesOf(b) = P
  BY DEF P
<1>5. Shape(d, P, C) /\ Counted(d, P, C)
  BY <1>1, <1>3, <1>4 DEF Exact, Shape, Counted
<1>6. Placed(d, C)
  BY <1>1, <1>3 DEF Exact, Placed, Lists
<1>7. Named(d, P) /\ NamesListed(d, C)
  BY ZenonT(60), <1>1, <1>3, <1>4 DEF Exact, Named, NamesListed
<1>8. QED  BY <1>1, <1>2, <1>3, <1>5, <1>6, <1>7 DEF Full, Exact

(* Drawing a tuple to the front.                                           *)
LEMMA DrawnList ==
  ASSUME NEW S, NEW list \in Seq(S), NEW k \in 1 .. Len(list), IsInjective(list)
  PROVE  LET drawn == [[list EXCEPT ![1] = list[k]] EXCEPT ![k] = list[1]]
         IN drawn \in Seq(S) /\ IsInjective(drawn) /\ Range(drawn) = Range(list)
<1> DEFINE n == Len(list)
           drawn == [[list EXCEPT ![1] = list[k]] EXCEPT ![k] = list[1]]
           from(i) == IF i = k THEN 1 ELSE IF i = 1 THEN k ELSE i
<1>1. /\ n \in Nat /\ DOMAIN list = 1 .. n /\ 1 \in 1 .. n /\ k \in 1 .. n
      /\ \A i \in 1 .. n : list[i] \in S
  OBVIOUS
<1>2. drawn \in Seq(S) /\ DOMAIN drawn = 1 .. n
  BY <1>1
<1>3. \A i \in 1 .. n : drawn[i] = list[from(i)] /\ from(i) \in 1 .. n /\ from(from(i)) = i
  BY <1>1
<1> HIDE DEF drawn, n, from
<1>4. IsInjective(drawn)
  <2>1. ASSUME NEW i \in 1 .. n, NEW j \in 1 .. n, drawn[i] = drawn[j] PROVE i = j
    <3>1. from(i) = from(j)
      BY <1>1, <1>3, <2>1 DEF IsInjective
    <3>2. QED  BY <1>3, <3>1
  <2>2. QED  BY <1>2, <2>1 DEF IsInjective
<1>5. Range(drawn) = Range(list)
  BY <1>1, <1>2, <1>3 DEF Range
<1>6. QED  BY <1>2, <1>4, <1>5 DEF drawn

(* Drawing an uncovered tuple to the front does so, too.                   *)
LEMMA SampledSteady ==
  ASSUME NEW b, NEW k \in DOMAIN b.uncoveredTuples, Steady(b)
  PROVE  Steady(Sampled(b, k)) /\ Draws(b, Sampled(b, k)) /\ Sampled(b, k).weight = b.weight
<1> DEFINE d == Sampled(b, k)
           list == b.uncoveredTuples
           drawn == [[list EXCEPT ![1] = list[k]] EXCEPT ![k] = list[1]]
<1>1. Full(b) /\ Fields \subseteq DOMAIN b /\ list \in Seq(IdsOf(b)) /\ IsInjective(list) /\ k \in 1 .. Len(list)
  <2>1. Full(b) /\ Fields \subseteq DOMAIN b
    BY FieldsOf DEF Steady
  <2>2. list \in Seq(IdsOf(b)) /\ IsInjective(list)
    BY <2>1 DEF Full, Exact, Placed, Lists
  <2>3. k \in 1 .. Len(list)
    BY <2>2
  <2>4. QED  BY <2>1, <2>2, <2>3
<1>2. /\ Fields \subseteq DOMAIN d /\ d.uncoveredTuples = drawn
      /\ d.tuplesU = b.tuplesU /\ d.testcases = b.testcases /\ d.coveredTimes = b.coveredTimes
      /\ d.coveredTuples = b.coveredTuples /\ d.tuplesIdxToPos = b.tuplesIdxToPos
      /\ d.testcaseIdx = b.testcaseIdx /\ d.testcasePosToIdx = b.testcasePosToIdx
      /\ d.testcaseIdxToPos = b.testcaseIdxToPos /\ d.tcCoveredTuples = b.tcCoveredTuples
      /\ d.coveredTestcases = b.coveredTestcases /\ d.clausesCov = b.clausesCov
      /\ d.uniqueCoveredTuples = b.uniqueCoveredTuples /\ d.weight = b.weight
      /\ d.sumWeight = b.sumWeight
      /\ d.greedyLimit = b.greedyLimit /\ d.lastGreedyTime = b.lastGreedyTime
  BY <1>1 DEF Fields, Sampled
<1> HIDE DEF list, d
<1>3. drawn \in Seq(IdsOf(b)) /\ IsInjective(drawn) /\ Range(drawn) = Range(list)
  <2> DEFINE T == IdsOf(b)
  <2>1. list \in Seq(T)
    BY <1>1
  <2> HIDE DEF T
  <2>2. QED  BY <1>1, <2>1, DrawnList DEF T
<1> HIDE DEF drawn
<1>4. Weighed(d, PlacesOf(b), RowsCovering(b))
  <2>1. /\ IdsOf(d) = IdsOf(b) /\ PlacesOf(d) = PlacesOf(b) /\ \A s : WeightIn(d, s) = WeightIn(b, s)
    BY <1>2 DEF IdsOf, PlacesOf, WeightIn
  <2>2. QED  BY <1>1, <1>2, <2>1 DEF Full, Exact, Weighed
<1>5. Full(d)
  BY <1>1, <1>2, <1>3, <1>4, FullAgain DEF list
<1>6. Marks(d)
  BY <1>2 DEF Steady, Marks, PlacesOf
<1>7. QED  BY <1>2, <1>3, <1>5, <1>6 DEF Steady, Draws, d, list

(* Raising the weight of what no row covers.                               *)
LEMMA ReweighedSteady ==
  ASSUME NEW b, Steady(b), \A t \in Range(b.uncoveredTuples) : b.weight[t] < MaxWeight
  PROVE  Steady(Reweighed(b)) /\ Draws(b, Reweighed(b))
<1> DEFINE d == Reweighed(b)
           U == Range(b.uncoveredTuples)
           I == IdsOf(b)
           P == PlacesOf(b)
           C == RowsCovering(b)
<1>1. /\ Full(b) /\ Fields \subseteq DOMAIN b /\ b.uncoveredTuples \in Seq(I) /\ IsInjective(b.uncoveredTuples)
      /\ U = { t \in I : C[t] = {} } /\ C \in [I -> SUBSET P] /\ b.tuplesU \in Seq(Tuple)
  BY FieldsOf DEF Steady, Full, Exact, Placed, Lists
<1>2. /\ Fields \subseteq DOMAIN d
      /\ d.weight = [t \in DOMAIN b.weight |-> b.weight[t] + (IF t \in U THEN 1 ELSE 0)]
      /\ d.tuplesU = b.tuplesU /\ d.testcases = b.testcases /\ d.coveredTimes = b.coveredTimes
      /\ d.coveredTuples = b.coveredTuples /\ d.uncoveredTuples = b.uncoveredTuples
      /\ d.tuplesIdxToPos = b.tuplesIdxToPos
      /\ d.testcaseIdx = b.testcaseIdx /\ d.testcasePosToIdx = b.testcasePosToIdx
      /\ d.testcaseIdxToPos = b.testcaseIdxToPos /\ d.tcCoveredTuples = b.tcCoveredTuples
      /\ d.coveredTestcases = b.coveredTestcases /\ d.clausesCov = b.clausesCov
      /\ d.uniqueCoveredTuples = b.uniqueCoveredTuples /\ d.sumWeight = b.sumWeight
      /\ d.greedyLimit = b.greedyLimit /\ d.lastGreedyTime = b.lastGreedyTime
  BY <1>1 DEF Fields, Reweighed
<1> HIDE DEF d
<1>3. /\ b.uniqueCoveredTuples \in [P -> Seq(I)]
      /\ b.weight \in [I -> 1 .. MaxWeight] /\ DOMAIN b.weight = I
      /\ b.sumWeight \in [P -> Nat]
      /\ \A p \in P : /\ Lists(b.uniqueCoveredTuples[p], Sole(C, p))
                      /\ b.sumWeight[p] = WeightIn(b, Sole(C, p))
  BY <1>1 DEF Full, Exact, Weighed
<1>4. IdsOf(d) = I /\ PlacesOf(d) = P
  BY <1>2 DEF IdsOf, PlacesOf
<1>5. IsFiniteSet(I)
  <2>1. b.weight \in [IdsOf(b) -> 1 .. MaxWeight]
    BY <1>3
  <2>2. QED  BY <1>1, <2>1, WeightIs
<1>6. MaxWeight \in Nat
  BY BookkeepingAssumption
<1> HIDE DEF U, I, P, C
<1>7. d.weight \in [I -> 1 .. MaxWeight] /\ \A t \in I \ U : d.weight[t] = b.weight[t]
  <2>1. \A t \in I : b.weight[t] \in 1 .. MaxWeight /\ d.weight[t] = b.weight[t] + (IF t \in U THEN 1 ELSE 0)
    BY <1>2, <1>3
  <2>2. \A t \in U : b.weight[t] < MaxWeight
    BY DEF U
  <2>3. ASSUME NEW t \in I PROVE d.weight[t] \in 1 .. MaxWeight
    BY <1>6, <2>1, <2>2
  <2>4. d.weight = [t \in I |-> d.weight[t]]
    BY <1>2, <1>3
  <2>5. \A t \in I \ U : d.weight[t] = b.weight[t]
    BY <2>1
  <2>6. QED  BY <2>3, <2>4, <2>5
<1>8. ASSUME NEW p \in P PROVE WeightIn(d, Sole(C, p)) = WeightIn(b, Sole(C, p))
  <2> DEFINE S == Sole(C, p)
             f == b.weight
             e == d.weight
  <2>1. S \subseteq I \ U
    <3>1. DOMAIN C = I
      BY <1>1
    <3>2. QED  BY <1>1, <3>1 DEF Sole
  <2>2. IsFiniteSet(S)
    BY <1>5, <2>1, FS_Subset
  <2>3. \A t \in S : f[t] \in Int /\ e[t] = f[t]
    BY <1>3, <1>6, <1>7, <2>1
  <2> HIDE DEF S, f, e
  <2>4. SumFunctionOnSet(e, S) = SumFunctionOnSet(f, S)
    BY <2>2, <2>3, SumSame
  <2>5. QED  BY <2>4 DEF WeightIn, S, e, f
<1>9. Weighed(d, P, C)
  BY <1>2, <1>3, <1>4, <1>7, <1>8 DEF Weighed
<1>10. Full(d)
  BY <1>1, <1>2, <1>9, FullAgain DEF I, P, C
<1>11. Marks(d)
  BY <1>2 DEF Steady, Marks, PlacesOf
<1>12. QED  BY <1>2, <1>10, <1>11 DEF Steady, Draws, d

(* Cleaning the unique lists never finds anything to clean.                *)
LEMMA CleanedSteady ==
  ASSUME NEW b, NEW rows, Steady(b)
  PROVE  /\ Steady(Cleaned(b, rows)) /\ Draws(b, Cleaned(b, rows))
         /\ Cleaned(b, rows).uncoveredTuples = b.uncoveredTuples
<1> DEFINE d == Cleaned(b, rows)
           I == IdsOf(b)
           P == PlacesOf(b)
           C == RowsCovering(b)
           unique(t) == b.coveredTimes[t] = 1
<1>1. /\ Full(b) /\ Fields \subseteq DOMAIN b /\ b.uncoveredTuples \in Seq(I) /\ IsInjective(b.uncoveredTuples)
      /\ Exact(b, P, C) /\ Shape(b, P, C) /\ C \in [I -> SUBSET P]
      /\ \A t \in I : b.coveredTimes[t] = Cardinality(C[t])
  BY FieldsOf DEF Steady, Full, Exact, Placed, Lists, Counted
<1>2. /\ Fields \subseteq DOMAIN d
      /\ d.uniqueCoveredTuples =
           [p \in DOMAIN b.uniqueCoveredTuples |->
              IF p \in rows
                THEN Kept(b.uniqueCoveredTuples[p],
                          { t \in Range(b.uniqueCoveredTuples[p]) : b.coveredTimes[t] = 1 })
                ELSE b.uniqueCoveredTuples[p]]
      /\ d.weight = b.weight
      /\ d.tuplesU = b.tuplesU /\ d.testcases = b.testcases /\ d.coveredTimes = b.coveredTimes
      /\ d.coveredTuples = b.coveredTuples /\ d.uncoveredTuples = b.uncoveredTuples
      /\ d.tuplesIdxToPos = b.tuplesIdxToPos
      /\ d.testcaseIdx = b.testcaseIdx /\ d.testcasePosToIdx = b.testcasePosToIdx
      /\ d.testcaseIdxToPos = b.testcaseIdxToPos /\ d.tcCoveredTuples = b.tcCoveredTuples
      /\ d.coveredTestcases = b.coveredTestcases /\ d.clausesCov = b.clausesCov
      /\ d.sumWeight = b.sumWeight
      /\ d.greedyLimit = b.greedyLimit /\ d.lastGreedyTime = b.lastGreedyTime
  BY <1>1 DEF Fields, Cleaned
<1> HIDE DEF d
<1>3. /\ b.uniqueCoveredTuples \in [P -> Seq(I)]
      /\ b.weight \in [I -> 1 .. MaxWeight] /\ b.sumWeight \in [P -> Nat]
      /\ \A p \in P : /\ Lists(b.uniqueCoveredTuples[p], Sole(C, p))
                      /\ b.sumWeight[p] = WeightIn(b, Sole(C, p))
  BY <1>1 DEF Exact, Weighed
<1>4. IdsOf(d) = I /\ PlacesOf(d) = P /\ \A s : WeightIn(d, s) = WeightIn(b, s)
  BY <1>2 DEF IdsOf, PlacesOf, WeightIn
<1>5. ASSUME NEW p \in P
      PROVE  d.uniqueCoveredTuples[p] \in Seq(I) /\ Lists(d.uniqueCoveredTuples[p], Sole(C, p))
  <2> DEFINE list == b.uniqueCoveredTuples[p]
             S == { t \in Range(list) : b.coveredTimes[t] = 1 }
  <2>1. list \in Seq(I) /\ IsInjective(list) /\ Range(list) = Sole(C, p)
    BY <1>3 DEF Lists
  <2>2. d.uniqueCoveredTuples[p] = IF p \in rows THEN Kept(list, S) ELSE list
    BY <1>2, <1>3
  <2>3. ASSUME NEW t \in Sole(C, p) PROVE b.coveredTimes[t] = 1
    <3>1. t \in I /\ C[t] = {p}
      BY <1>1 DEF Sole
    <3>2. t \in IdsOf(b) /\ t \in OneRow(C, P)
      BY <1>1, <3>1 DEF OneRow
    <3>3. Cardinality(C[t]) = 1
      BY <1>1, <3>2, RowsCount
    <3>4. QED  BY <1>1, <3>1, <3>3
  <2>4. S = Range(list)
    BY <2>1, <2>3
  <2> HIDE DEF list, S
  <2>5. /\ Kept(list, S) \in Seq(I) /\ Range(Kept(list, S)) = Range(list) \cap S
        /\ IsInjective(Kept(list, S))
    <3> HIDE DEF I
    <3>1. QED  BY <2>1, KeptIs
  <2>6. QED  BY <2>1, <2>2, <2>4, <2>5 DEF Lists
<1>6. Weighed(d, P, C)
  <2>1. d.uniqueCoveredTuples \in [P -> Seq(I)]
    <3>1. d.uniqueCoveredTuples = [p \in P |-> d.uniqueCoveredTuples[p]]
      BY <1>2, <1>3
    <3>2. QED  BY <1>5, <3>1
  <2>2. QED  BY <1>2, <1>3, <1>4, <1>5, <2>1 DEF Weighed
<1>7. Full(d)
  <2> HIDE DEF I, P, C
  <2>1. QED  BY <1>1, <1>2, <1>6, FullAgain DEF I, P, C
<1>8. Marks(d)
  BY <1>2 DEF Steady, Marks, PlacesOf
<1>9. QED  BY <1>2, <1>7, <1>8 DEF Steady, Draws, d

(* Lists that are put together one after the other.                        *)
LEMMA JoinedIs ==
  ASSUME NEW S, NEW lists \in [Thread -> Seq(S)]
  PROVE  /\ Joined(lists) \in Seq(S)
         /\ Range(Joined(lists)) = UNION { Range(lists[id]) : id \in Thread }
         /\ (/\ \A id \in Thread : IsInjective(lists[id])
             /\ \A i, j \in Thread : i # j => Range(lists[i]) \cap Range(lists[j]) = {})
              => IsInjective(Joined(lists))
<1> DEFINE T == Seq(S)
           m == ThreadNum
           step == [n \in Nat |-> [l \in T |-> IF n < m THEN l \o lists[n] ELSE l]]
           F(u) == [n \in 0 .. m |-> IF n = 0 THEN <<>> ELSE u[n - 1] \o lists[n - 1]]
           upto == CHOOSE u : u = F(u)
           Apart == /\ \A id \in Thread : IsInjective(lists[id])
                    /\ \A i, j \in Thread : i # j => Range(lists[i]) \cap Range(lists[j]) = {}
           Seen(n) == UNION { Range(lists[id]) : id \in 0 .. n - 1 }
           Good == { n \in 0 .. m : /\ upto[n] \in T /\ Range(upto[n]) = Seen(n)
                                    /\ Apart => IsInjective(upto[n]) }
<1>1. /\ m \in Nat \ {0} /\ m \in Nat /\ Thread = 0 .. m - 1
      /\ \A n \in 0 .. m - 1 : lists[n] \in T
  BY BookkeepingAssumption DEF Thread
<1>2. <<>> \in T /\ \A l, r \in T : l \o r \in T
  OBVIOUS
<1>3. Joined(lists) = upto[m]
  BY DEF Joined
<1> HIDE DEF T, m
<1>4. step \in [Nat -> [T -> T]]
  BY <1>1, <1>2
<1>5. PICK g : FollowsTo(g, T, m, <<>>, step)
  <2> HIDE DEF step
  <2>1. QED  BY <1>1, <1>2, <1>4, RecursionTo
<1>6. g = F(g)
  <2>1. /\ g \in [0 .. m -> T]
        /\ g = [n \in 0 .. m |-> IF n = 0 THEN <<>> ELSE step[n - 1][g[n - 1]]]
    BY <1>5 DEF FollowsTo
  <2>2. ASSUME NEW n \in 0 .. m, n # 0 PROVE step[n - 1][g[n - 1]] = g[n - 1] \o lists[n - 1]
    <3>1. n - 1 \in Nat /\ n - 1 < m /\ n - 1 \in 0 .. m
      BY <1>1, <2>2
    <3>2. g[n - 1] \in T
      BY <2>1, <3>1
    <3>3. QED  BY <3>1, <3>2
  <2> HIDE DEF step
  <2>3. QED  BY <2>1, <2>2
<1>7. upto = F(upto)
  <2>1. \E u : u = F(u)
    BY <1>6
  <2> HIDE DEF F
  <2>2. QED  BY <2>1
<1> HIDE DEF upto, step
<1>8. upto[0] = <<>> /\ \A n \in 0 .. m - 1 : upto[n + 1] = upto[n] \o lists[n]
  <2>1. \A n \in 0 .. m : upto[n] = IF n = 0 THEN <<>> ELSE upto[n - 1] \o lists[n - 1]
    <3>1. \A n \in 0 .. m : F(upto)[n] = IF n = 0 THEN <<>> ELSE upto[n - 1] \o lists[n - 1]
      OBVIOUS
    <3> HIDE DEF F
    <3>2. QED  BY <1>7, <3>1
  <2>2. 0 \in 0 .. m
    BY <1>1
  <2>3. ASSUME NEW n \in 0 .. m - 1 PROVE upto[n + 1] = upto[n] \o lists[n]
    <3>1. n + 1 \in 0 .. m /\ n + 1 # 0 /\ (n + 1) - 1 = n
      BY <1>1
    <3>2. QED  BY <2>1, <3>1
  <2>4. QED  BY <2>1, <2>2, <2>3
<1> HIDE DEF F
<1>9. 0 \in Good
  <2>1. Range(<<>>) = {} /\ IsInjective(<<>>)
    BY DEF Range, IsInjective
  <2>2. Seen(0) = {} /\ 0 \in 0 .. m
    BY <1>1
  <2>3. QED  BY <1>2, <1>8, <2>1, <2>2
<1>10. ASSUME NEW n \in 0 .. m - 1, n \in Good PROVE n + 1 \in Good
  <2> DEFINE a == upto[n]
             b == lists[n]
             c == upto[n + 1]
  <2>1. a \in T /\ Range(a) = Seen(n) /\ (Apart => IsInjective(a)) /\ b \in T /\ c = a \o b
    BY <1>1, <1>8, <1>10
  <2> HIDE DEF a, b, c
  <2>2. /\ a \o b \in Seq(S) /\ Range(a \o b) = Range(a) \cup Range(b)
        /\ IsInjective(a) /\ IsInjective(b) /\ Range(a) \cap Range(b) = {} => IsInjective(a \o b)
    BY <2>1, ListConcat DEF T
  <2>3. Seen(n + 1) = Seen(n) \cup Range(b)
    <3>1. 0 .. (n + 1) - 1 = (0 .. n - 1) \cup {n}
      OBVIOUS
    <3>2. QED  BY <3>1 DEF b
  <2>4. ASSUME Apart PROVE IsInjective(b) /\ Range(a) \cap Range(b) = {}
    <3>1. n \in Thread /\ \A id \in 0 .. n - 1 : id \in Thread /\ id # n
      BY <1>1
    <3>2. \A id \in 0 .. n - 1 : Range(lists[id]) \cap Range(b) = {}
      BY <2>4, <3>1 DEF b
    <3>3. QED  BY <2>1, <2>4, <3>1, <3>2 DEF b
  <2>5. n + 1 \in 0 .. m
    BY <1>1
  <2> HIDE DEF Apart, Seen
  <2>6. QED  BY <2>1, <2>2, <2>3, <2>4, <2>5 DEF c, T
<1>11. m \in Good
  <2> HIDE DEF Good
  <2>1. \A n \in 0 .. m : n \in Good
    BY <1>1, <1>9, <1>10, Upward
  <2>2. QED  BY <1>1, <2>1
<1>12. Seen(m) = UNION { Range(lists[id]) : id \in Thread }
  BY <1>1
<1>13. QED  BY <1>3, <1>11, <1>12 DEF T

(* The values that a list of pairs has for a key.                          *)
Picked(list, pairs, key, B) ==
  list \in Seq(B) /\ Lists(list, { v \in B : <<key, v>> \in Range(pairs) })

(* ValuesOf picks, each once, what the pairs join with the key.            *)
LEMMA ValuesIs ==
  ASSUME NEW A, NEW B, NEW pairs \in Seq(A \X B), IsInjective(pairs), NEW key \in A
  PROVE  Picked(ValuesOf(pairs, key), pairs, key, B)
<1> DEFINE S == A \X B
           set == { pair \in Range(pairs) : pair[1] = key }
           mine == Kept(pairs, set)
           n == Len(mine)
           out == ValuesOf(pairs, key)
<1>1. mine \in Seq(S) /\ IsInjective(mine) /\ Range(mine) = Range(pairs) \cap set
  <2>1. pairs \in Seq(S)
    OBVIOUS
  <2> HIDE DEF S, set
  <2>2. QED  BY <2>1, KeptIs
<1>2. out = [i \in DOMAIN mine |-> mine[i][2]]
  BY DEF ValuesOf
<1>3. n \in Nat /\ DOMAIN mine = 1 .. n /\ \A i \in 1 .. n : mine[i] \in S /\ mine[i][1] = key
  <2> HIDE DEF S
  <2>1. n \in Nat /\ DOMAIN mine = 1 .. n /\ \A i \in 1 .. n : mine[i] \in S
    <3>1. mine \in Seq(S)
      BY <1>1
    <3> HIDE DEF mine
    <3>2. QED  BY <3>1
  <2>2. \A i \in 1 .. n : mine[i] \in set
    <3> HIDE DEF set, mine
    <3>1. QED  BY <1>1, <2>1 DEF Range
  <2>3. QED  BY <2>1, <2>2
<1>4. \A pair \in S : pair = <<pair[1], pair[2]>> /\ pair[2] \in B
  OBVIOUS
<1>5. Range(pairs) \subseteq S
  <2>1. pairs \in Seq(S)
    OBVIOUS
  <2> HIDE DEF S
  <2>2. QED  BY <2>1 DEF Range
<1>6. { v \in B : <<key, v>> \in Range(pairs) } = { pair[2] : pair \in Range(mine) }
  <2>1. ASSUME NEW v \in B, <<key, v>> \in Range(pairs) PROVE \E pair \in Range(mine) : pair[2] = v
    <3>1. <<key, v>> \in set
      BY <2>1
    <3> HIDE DEF mine, set
    <3>2. <<key, v>> \in Range(mine)
      BY <1>1, <2>1, <3>1
    <3>3. QED  BY <3>2
  <2>2. ASSUME NEW pair \in Range(mine) PROVE pair[2] \in B /\ <<key, pair[2]>> \in Range(pairs)
    <3>1. pair \in set /\ pair \in S
      <4> HIDE DEF mine, set
      <4>1. QED  BY <1>1, <1>5
    <3>2. pair = <<key, pair[2]>>
      <4>1. pair = <<pair[1], pair[2]>> /\ pair[1] = key
        BY <1>4, <3>1
      <4>2. QED  BY <4>1
    <3>3. QED  BY <1>4, <3>1, <3>2
  <2> HIDE DEF mine
  <2>3. QED  BY <2>1, <2>2
<1> HIDE DEF mine, n, S, out
<1>7. out \in Seq(B)
  BY <1>2, <1>3, <1>4
<1>8. Range(out) = { pair[2] : pair \in Range(mine) }
  BY <1>2, <1>3 DEF Range
<1>9. IsInjective(out)
  <2>1. ASSUME NEW i \in 1 .. n, NEW j \in 1 .. n, out[i] = out[j] PROVE i = j
    <3>1. mine[i][2] = mine[j][2] /\ mine[i][1] = mine[j][1]
      BY <1>2, <1>3, <2>1
    <3>2. mine[i] = mine[j]
      BY <1>3, <1>4, <3>1
    <3>3. QED  BY <1>1, <1>3, <3>2 DEF IsInjective
  <2>2. QED  BY <1>2, <1>3, <2>1 DEF IsInjective
<1>10. QED  BY <1>6, <1>7, <1>8, <1>9 DEF Picked, Lists, out

-----------------------------------------------------------------------------
(* The fields as rebind_pos_to_idx clears them, but for the counters.      *)
Fresh(b) ==
  LET T == IdsOf(b)
      P == PlacesOf(b)
  IN /\ Fields \subseteq DOMAIN b
     /\ b.tuplesU \in Seq(Tuple) /\ b.testcases \in Seq(Row) /\ Len(b.testcases) <= MaxIdx
     /\ b.coveredTimes \in [T -> Nat]
     /\ b.coveredTuples = Upto(Len(b.tuplesU)) /\ b.uncoveredTuples = <<>>
     /\ b.tuplesIdxToPos = Upto(Len(b.tuplesU))
     /\ b.testcaseIdx = Len(b.testcases)
     /\ b.testcasePosToIdx = Upto(Len(b.testcases)) /\ b.testcaseIdxToPos = Upto(Len(b.testcases))
     /\ b.tcCoveredTuples = [p \in P |-> <<>>] /\ b.uniqueCoveredTuples = [p \in P |-> <<>>]
     /\ b.coveredTestcases = [t \in T |-> <<>>]
     /\ b.weight = [t \in T |-> 1] /\ b.sumWeight = [p \in P |-> 0]
     /\ b.clausesCov = [p \in P |-> ClausesCov(b.testcases[p])]
     /\ b.greedyLimit = 0 /\ b.lastGreedyTime = [p \in P |-> -TabooSize - 1]

(* What rebind_pos_to_idx sets before the scan.                            *)
LEMMA ClearedFresh ==
  ASSUME NEW tuples \in Seq(Tuple), NEW rows \in Seq(Row), Len(rows) <= MaxIdx
  PROVE  /\ Fresh(Cleared(tuples, rows))
         /\ Cleared(tuples, rows).tuplesU = tuples /\ Cleared(tuples, rows).testcases = rows
         /\ Cleared(tuples, rows).coveredTimes = [t \in DOMAIN tuples |-> 0]
<1> DEFINE b == Cleared(tuples, rows)
<1>1. /\ b.tuplesU = tuples /\ b.testcases = rows /\ b.coveredTimes = [t \in DOMAIN tuples |-> 0]
      /\ Fields \subseteq DOMAIN b
      /\ b.coveredTuples = Upto(Len(tuples)) /\ b.uncoveredTuples = <<>>
      /\ b.tuplesIdxToPos = Upto(Len(tuples))
      /\ b.testcaseIdx = Len(rows)
      /\ b.testcasePosToIdx = Upto(Len(rows)) /\ b.testcaseIdxToPos = Upto(Len(rows))
      /\ b.tcCoveredTuples = [p \in DOMAIN rows |-> <<>>]
      /\ b.uniqueCoveredTuples = [p \in DOMAIN rows |-> <<>>]
      /\ b.coveredTestcases = [t \in DOMAIN tuples |-> <<>>]
      /\ b.weight = [t \in DOMAIN tuples |-> 1] /\ b.sumWeight = [p \in DOMAIN rows |-> 0]
      /\ b.clausesCov = [p \in DOMAIN rows |-> ClausesCov(rows[p])]
      /\ b.greedyLimit = 0 /\ b.lastGreedyTime = [p \in DOMAIN rows |-> -TabooSize - 1]
  BY DEF Cleared, Fields
<1> HIDE DEF b
<1>2. IdsOf(b) = DOMAIN tuples /\ PlacesOf(b) = DOMAIN rows
  BY <1>1 DEF IdsOf, PlacesOf
<1>3. b.coveredTimes \in [IdsOf(b) -> Nat]
  BY <1>1, <1>2
<1>4. Fresh(b)
  BY <1>1, <1>2, <1>3 DEF Fresh
<1>5. QED  BY <1>1, <1>4 DEF b

(* The list of the first numbers.                                          *)
LEMMA UptoIs ==
  ASSUME NEW n \in Nat
  PROVE  /\ Upto(n) \in Seq(1 .. n) /\ Upto(n) \in Seq(Nat) /\ Len(Upto(n)) = n
         /\ DOMAIN Upto(n) = 1 .. n /\ \A i \in 1 .. n : Upto(n)[i] = i
         /\ Lists(Upto(n), 1 .. n)
<1>1. Upto(n) = [i \in 1 .. n |-> i]
  BY DEF Upto
<1>2. /\ Upto(n) \in Seq(1 .. n) /\ Upto(n) \in Seq(Nat) /\ Len(Upto(n)) = n
      /\ DOMAIN Upto(n) = 1 .. n /\ \A i \in 1 .. n : Upto(n)[i] = i
  BY <1>1
<1>3. Lists(Upto(n), 1 .. n)
  BY <1>2 DEF Lists, Range, IsInjective
<1>4. QED  BY <1>2, <1>3

(* No row is marked in a new binding.                                      *)
LEMMA FreshMarks ==
  ASSUME NEW b, Fresh(b)
  PROVE  Marks(b)
<1>1. b.greedyLimit = 0 /\ b.lastGreedyTime = [p \in PlacesOf(b) |-> -TabooSize - 1]
  BY DEF Fresh
<1>2. TabooSize \in Nat
  BY BookkeepingAssumption
<1> DEFINE P == PlacesOf(b)
<1> HIDE DEF P
<1>3. b.lastGreedyTime = [p \in P |-> -TabooSize - 1]
  BY <1>1 DEF P
<1>4. /\ b.lastGreedyTime \in [P -> Int]
      /\ \A p \in P : b.lastGreedyTime[p] <= 0
  BY <1>2, <1>3
<1>5. \A p \in P : ~(b.lastGreedyTime[p] > 0)
  BY <1>4
<1>6. QED  BY <1>1, <1>4, <1>5 DEF Marks, P

(* What the threads of the last scan hand over: the counters, and the      *)
(* pairs of a tuple and a row in either order.                             *)
Counts(b, rowsOfTuples, tuplesOfRows) ==
  LET C == RowsCovering(b)
      T == IdsOf(b)
      P == PlacesOf(b)
  IN /\ \A t \in T : C[t] # {} /\ b.coveredTimes[t] = Cardinality(C[t])
     /\ rowsOfTuples \in Seq(T \X P) /\ tuplesOfRows \in Seq(P \X T)
     /\ IsInjective(rowsOfTuples) /\ IsInjective(tuplesOfRows)
     /\ \A t \in T, p \in P : <<t, p>> \in Range(rowsOfTuples) <=> p \in C[t]
     /\ \A t \in T, p \in P : <<p, t>> \in Range(tuplesOfRows) <=> p \in C[t]

(* A scan that has counted all tuples makes a new binding exact.           *)
LEMMA BoundIs ==
  ASSUME NEW b, Fresh(b), NEW rowsOfTuples, NEW tuplesOfRows,
         Counts(b, rowsOfTuples, tuplesOfRows)
  PROVE  LET d == Bound(b, rowsOfTuples, tuplesOfRows)
         IN Steady(d) /\ d.tuplesU = b.tuplesU /\ d.testcases = b.testcases
            /\ d.uncoveredTuples = b.uncoveredTuples
<1> DEFINE I == IdsOf(b)
           P == PlacesOf(b)
           m == Len(b.tuplesU)
           n == Len(b.testcases)
           C == RowsCovering(b)
           covering == [t \in DOMAIN b.tuplesU |-> ValuesOf(rowsOfTuples, t)]
           holds(p) == { t \in DOMAIN b.tuplesU :
                           b.coveredTimes[t] = 1 /\ b.testcaseIdxToPos[Head(covering[t])] = p }
           only(p) == Kept(Upto(Len(b.tuplesU)), holds(p))
           d == Bound(b, rowsOfTuples, tuplesOfRows)
<1>1. /\ Fields \subseteq DOMAIN b /\ b.tuplesU \in Seq(Tuple) /\ b.testcases \in Seq(Row)
      /\ m \in Nat /\ n \in Nat /\ n <= MaxIdx /\ MaxIdx \in Nat /\ MaxWeight \in Nat \ {0}
      /\ I = 1 .. m /\ P = 1 .. n /\ I = DOMAIN b.tuplesU /\ P = DOMAIN b.testcases
  BY BookkeepingAssumption DEF Fresh, IdsOf, PlacesOf
<1>2. /\ C \in [I -> SUBSET P] /\ DOMAIN C = I
  BY DEF RowsCovering
<1>3. /\ b.coveredTimes \in [I -> Nat]
      /\ b.coveredTuples = Upto(m) /\ b.uncoveredTuples = <<>>
      /\ b.tuplesIdxToPos = Upto(m) /\ b.testcaseIdx = n
      /\ b.testcasePosToIdx = Upto(n) /\ b.testcaseIdxToPos = Upto(n)
      /\ b.tcCoveredTuples = [p \in P |-> <<>>] /\ b.uniqueCoveredTuples = [p \in P |-> <<>>]
      /\ b.weight = [t \in I |-> 1] /\ b.sumWeight = [p \in P |-> 0]
      /\ b.clausesCov = [p \in P |-> ClausesCov(b.testcases[p])]
  BY DEF Fresh
<1>4. /\ \A t \in I : C[t] # {} /\ b.coveredTimes[t] = Cardinality(C[t])
      /\ rowsOfTuples \in Seq(I \X P) /\ tuplesOfRows \in Seq(P \X I)
      /\ IsInjective(rowsOfTuples) /\ IsInjective(tuplesOfRows)
      /\ \A t \in I, p \in P : <<t, p>> \in Range(rowsOfTuples) <=> p \in C[t]
      /\ \A t \in I, p \in P : <<p, t>> \in Range(tuplesOfRows) <=> p \in C[t]
  BY DEF Counts
<1>5. /\ Fields \subseteq DOMAIN d
      /\ d.coveredTestcases = covering
      /\ d.tcCoveredTuples = [p \in DOMAIN b.tcCoveredTuples |-> ValuesOf(tuplesOfRows, p)]
      /\ d.uniqueCoveredTuples = [p \in DOMAIN b.uniqueCoveredTuples |-> only(p)]
      /\ d.sumWeight = [p \in DOMAIN b.sumWeight |-> Len(only(p))]
      /\ d.tuplesU = b.tuplesU /\ d.testcases = b.testcases /\ d.coveredTimes = b.coveredTimes
      /\ d.coveredTuples = b.coveredTuples /\ d.uncoveredTuples = b.uncoveredTuples
      /\ d.tuplesIdxToPos = b.tuplesIdxToPos
      /\ d.testcaseIdx = b.testcaseIdx /\ d.testcasePosToIdx = b.testcasePosToIdx
      /\ d.testcaseIdxToPos = b.testcaseIdxToPos
      /\ d.weight = b.weight /\ d.clausesCov = b.clausesCov
      /\ d.greedyLimit = b.greedyLimit /\ d.lastGreedyTime = b.lastGreedyTime
  <2>1. d = [b EXCEPT !.coveredTestcases = covering,
                      !.tcCoveredTuples = [p \in DOMAIN @ |-> ValuesOf(tuplesOfRows, p)],
                      !.uniqueCoveredTuples = [p \in DOMAIN @ |-> only(p)],
                      !.sumWeight = [p \in DOMAIN @ |-> Len(only(p))]]
    BY DEF Bound
  <2> HIDE DEF d, covering, only
  <2>2. QED  BY <1>1, <2>1 DEF Fields
<1> HIDE DEF d
<1>6. IdsOf(d) = I /\ PlacesOf(d) = P /\ RowsCovering(d) = C
  BY <1>5 DEF IdsOf, PlacesOf, RowsCovering
<1>7. /\ Upto(m) \in Seq(I) /\ Upto(m) \in [I -> Nat] /\ DOMAIN Upto(m) = I /\ Lists(Upto(m), I)
      /\ \A i \in I : Upto(m)[i] = i
      /\ Upto(n) \in Seq(P) /\ Upto(n) \in Seq(Nat) /\ Len(Upto(n)) = n /\ DOMAIN Upto(n) = P
      /\ \A i \in P : Upto(n)[i] = i
  <2>1. Upto(m) \in [I -> Nat]
    BY <1>1 DEF Upto
  <2>2. m \in Nat /\ n \in Nat
    BY <1>1
  <2>3. \A k \in Nat : /\ Upto(k) \in Seq(1 .. k) /\ DOMAIN Upto(k) = 1 .. k
                       /\ Upto(k) \in Seq(Nat) /\ Len(Upto(k)) = k /\ Lists(Upto(k), 1 .. k)
                       /\ \A i \in 1 .. k : Upto(k)[i] = i
    BY ONLY UptoIs
  <2>4. I = 1 .. m /\ P = 1 .. n
    BY <1>1
  <2> HIDE DEF I, P, m, n
  <2>5. QED  BY ONLY <2>1, <2>2, <2>3, <2>4
<1>8. ASSUME NEW t \in I
      PROVE  covering[t] \in Seq(P) /\ Lists(covering[t], C[t])
  <2>1. covering[t] = ValuesOf(rowsOfTuples, t)
    BY <1>1
  <2> HIDE DEF I, P, C, covering
  <2>2. Picked(ValuesOf(rowsOfTuples, t), rowsOfTuples, t, P)
    BY <1>4, ValuesIs
  <2>3. { p \in P : <<t, p>> \in Range(rowsOfTuples) } = C[t]
    BY <1>2, <1>4
  <2>4. QED  BY <2>1, <2>2, <2>3 DEF Picked
<1>9. ASSUME NEW p \in P
      PROVE  d.tcCoveredTuples[p] \in Seq(I) /\ Lists(d.tcCoveredTuples[p], Held(C, p))
  <2>1. d.tcCoveredTuples[p] = ValuesOf(tuplesOfRows, p)
    BY <1>3, <1>5
  <2> HIDE DEF I, P, C
  <2>2. Picked(ValuesOf(tuplesOfRows, p), tuplesOfRows, p, I)
    BY <1>4, ValuesIs
  <2>3. { t \in I : <<p, t>> \in Range(tuplesOfRows) } = Held(C, p)
    BY <1>2, <1>4 DEF Held
  <2>4. QED  BY <2>1, <2>2, <2>3 DEF Picked
<1> HIDE DEF covering
<1>10. ASSUME NEW p \in P PROVE holds(p) = Sole(C, p)
  <2>1. ASSUME NEW t \in I
        PROVE  b.coveredTimes[t] = 1 /\ b.testcaseIdxToPos[Head(covering[t])] = p <=> C[t] = {p}
    <3>1. Cardinality(C[t]) = 1 <=> \E q \in P : C[t] = {q}
      <4>1. IsFiniteSet(C[t])
        <5>1. IsFiniteSet(1 .. n)
          <6>1. 1 \in Int /\ n \in Int
            BY <1>1
          <6>2. QED  BY <6>1, FS_Interval
        <5>2. C[t] \subseteq 1 .. n
          BY <1>1, <1>2
        <5>3. QED  BY <5>1, <5>2, FS_Subset
      <4>2. C[t] \subseteq P
        BY <1>2
      <4> DEFINE X == C[t]
      <4> HIDE DEF X, P
      <4>3. Cardinality(X) = 1 <=> \E q : X = {q}
        BY <4>1, FS_Singleton DEF X
      <4>4. QED  BY <4>2, <4>3 DEF X
    <3>2. ASSUME NEW q \in P, C[t] = {q} PROVE b.testcaseIdxToPos[Head(covering[t])] = q
      <4> DEFINE s == covering[t]
      <4>1. s \in Seq(P) /\ Range(s) = {q}
        BY <1>8, <3>2 DEF Lists
      <4> HIDE DEF s, P
      <4>2. \E i \in DOMAIN s : s[i] = q
        BY <4>1 DEF Range
      <4>3. 1 \in DOMAIN s /\ Head(s) = s[1]
        BY <4>1, <4>2
      <4>4. Head(s) = q
        BY <4>1, <4>3 DEF Range
      <4>5. QED  BY <1>3, <1>7, <4>4 DEF s
    <3>3. b.coveredTimes[t] = Cardinality(C[t])
      BY <1>4
    <3> HIDE DEF C, P
    <3>4. QED  BY <3>1, <3>2, <3>3
  <2> HIDE DEF C
  <2>2. QED  BY <1>1, <1>2, <2>1 DEF Sole
<1> HIDE DEF holds
<1>11. ASSUME NEW p \in P
       PROVE  only(p) \in Seq(I) /\ Lists(only(p), Sole(C, p)) /\ Len(only(p)) = Cardinality(Sole(C, p))
  <2>1. Sole(C, p) \subseteq I
    BY <1>2 DEF Sole
  <2>2. only(p) = Kept(Upto(m), Sole(C, p))
    BY <1>10
  <2> HIDE DEF I, P, C, m, only
  <2> DEFINE l == Upto(m)
             S == Sole(C, p)
  <2> HIDE DEF l, S
  <2>3. l \in Seq(I) /\ IsInjective(l) /\ Range(l) = I /\ S \subseteq I /\ only(p) = Kept(l, S)
    BY <1>7, <2>1, <2>2 DEF l, S, Lists
  <2>4. Kept(l, S) \in Seq(I) /\ Range(Kept(l, S)) = Range(l) \cap S /\ IsInjective(Kept(l, S))
    BY <2>3, KeptIs
  <2>5. Range(only(p)) = S /\ only(p) \in Seq(I) /\ IsInjective(only(p))
    BY <2>3, <2>4
  <2>6. Cardinality(Range(only(p))) = Len(only(p))
    BY <2>5, ListLength
  <2>7. QED  BY <2>5, <2>6 DEF Lists, S
<1> HIDE DEF only
<1>12. ASSUME NEW p \in P PROVE WeightIn(d, Sole(C, p)) = Len(only(p)) /\ Len(only(p)) \in Nat
  <2> DEFINE S == Sole(C, p)
             f == d.weight
  <2>1. S \subseteq 1 .. m
    BY <1>1, <1>2 DEF Sole
  <2>2. IsFiniteSet(S)
    <3>1. IsFiniteSet(1 .. m)
      <4>1. 1 \in Int /\ m \in Int
        BY <1>1
      <4>2. QED  BY <4>1, FS_Interval
    <3>2. QED  BY <2>1, <3>1, FS_Subset
  <2>3. \A t \in S : f[t] \in Nat /\ f[t] = 1
    BY <1>1, <1>3, <1>5, <2>1
  <2> HIDE DEF S, f
  <2>4. SumFunctionOnSet(f, S) = Cardinality(S)
    BY <2>2, <2>3, SumNatural
  <2>5. Cardinality(S) \in Nat
    BY <2>2, FS_CardinalityType
  <2>6. QED  BY <1>11, <2>4, <2>5 DEF WeightIn, S, f
<1>13. Shape(d, P, C) /\ Counted(d, P, C)
  <2>1. d.tcCoveredTuples \in [P -> Seq(I)]
    <3>1. d.tcCoveredTuples = [p \in P |-> d.tcCoveredTuples[p]]
      BY <1>3, <1>5
    <3>2. QED  BY <1>9, <3>1
  <2> HIDE DEF I, P, C
  <2>2. Shape(d, P, C)
    BY <1>1, <1>2, <1>5, <1>6 DEF Shape
  <2>3. Counted(d, P, C)
    BY <1>3, <1>4, <1>5, <1>6, <1>9, <2>1 DEF Counted
  <2>4. QED  BY <2>2, <2>3
<1>14. Placed(d, C)
  <2> HIDE DEF I, P, C
  <2>1. { t \in I : C[t] # {} } = I /\ { t \in I : C[t] = {} } = {}
    BY <1>4
  <2>2. <<>> \in Seq(I) /\ Lists(<<>>, {})
    BY DEF Lists, IsInjective, Range
  <2> DEFINE l == Upto(m)
  <2>3. d.coveredTuples = l /\ d.uncoveredTuples = <<>> /\ d.tuplesIdxToPos = l /\ IdsOf(d) = I
    BY <1>3, <1>5, <1>6
  <2>4. l \in Seq(I) /\ l \in [I -> Nat] /\ DOMAIN l = I /\ Lists(l, I) /\ \A i \in I : l[i] = i
    BY <1>7
  <2> HIDE DEF l
  <2>5. Lists(d.coveredTuples, { t \in I : C[t] # {} }) /\ Lists(d.uncoveredTuples, { t \in I : C[t] = {} })
    BY <2>1, <2>2, <2>3, <2>4
  <2>6. \A q \in DOMAIN d.coveredTuples : d.tuplesIdxToPos[d.coveredTuples[q]] = q
    BY <2>3, <2>4
  <2>7. d.coveredTuples \in Seq(I) /\ d.uncoveredTuples \in Seq(I) /\ d.tuplesIdxToPos \in [I -> Nat]
    BY <2>2, <2>3, <2>4
  <2>8. QED  BY <2>3, <2>5, <2>6, <2>7 DEF Placed
<1>15. Weighed(d, P, C)
  <2> HIDE DEF C
  <2>1. d.weight \in [I -> 1 .. MaxWeight]
    <3>1. 1 \in 1 .. MaxWeight
      BY <1>1
    <3>2. QED  BY <1>3, <1>5, <3>1
  <2> HIDE DEF I, P
  <2>2. \A p \in P : /\ d.uniqueCoveredTuples[p] = only(p) /\ d.sumWeight[p] = Len(only(p))
    BY <1>3, <1>5
  <2>3. d.uniqueCoveredTuples \in [P -> Seq(I)] /\ d.sumWeight \in [P -> Nat]
    <3>1. /\ d.uniqueCoveredTuples = [p \in P |-> d.uniqueCoveredTuples[p]]
          /\ d.sumWeight = [p \in P |-> d.sumWeight[p]]
      BY <1>3, <1>5
    <3>2. QED  BY <1>11, <1>12, <2>2, <3>1
  <2>4. QED  BY <1>6, <1>11, <1>12, <2>1, <2>2, <2>3 DEF Weighed
<1>16. Alive(d) = P
  <2>1. \A i \in P : Upto(n)[i] > 0
    BY SMTT(60), <1>1, <1>7
  <2>2. QED  BY <1>3, <1>5, <1>7, <2>1 DEF Alive
<1>17. Named(d, P)
  <2>1. d.testcaseIdx \in 0 .. MaxIdx /\ Upto(n) \in Seq(1 .. MaxIdx)
    <3>1. \A i \in P : Upto(n)[i] \in 1 .. MaxIdx
      BY SMTT(60), <1>1, <1>7
    <3>2. Upto(n) = [i \in 1 .. n |-> Upto(n)[i]]
      BY DEF Upto
    <3>3. Upto(n) \in [1 .. n -> 1 .. MaxIdx]
      BY <1>1, <3>1, <3>2
    <3> DEFINE f == Upto(n)
               S == 1 .. MaxIdx
    <3>4. f \in [1 .. n -> S] /\ n \in Nat
      BY <1>1, <3>3
    <3> HIDE DEF f, S, n
    <3>5. f \in Seq(S)
      BY <3>4
    <3> USE DEF n
    <3>6. QED  BY <1>1, <1>3, <1>5, <3>5 DEF f, S
  <2>2. \A p \in P : p \in 1 .. d.testcaseIdx
    BY <1>1, <1>3, <1>5
  <2>3. Len(d.testcases) <= Len(d.testcasePosToIdx) /\ Len(d.testcaseIdxToPos) = d.testcaseIdx
    BY <1>1, <1>3, <1>5, <1>7
  <2> HIDE DEF P
  <2>4. QED  BY <1>3, <1>5, <1>7, <1>16, <2>1, <2>2, <2>3 DEF Named
<1>18. NamesListed(d, C)
  <2>1. 1 .. d.testcaseIdx = P
    BY <1>1, <1>3, <1>5
  <2> HIDE DEF I, P, C
  <2>2. ASSUME NEW t \in I
        PROVE  /\ IsInjective(d.coveredTestcases[t])
               /\ Range(d.coveredTestcases[t]) \cap Alive(d) = NamesOf(d, C[t])
    <3>1. C[t] \subseteq P
      BY <1>2
    <3>2. NamesOf(d, C[t]) = C[t]
      BY SMTT(60), <1>3, <1>5, <1>7, <3>1 DEF NamesOf
    <3>3. QED  BY <1>5, <1>8, <1>16, <3>1, <3>2 DEF Lists
  <2>3. d.coveredTestcases \in [I -> Seq(P)]
    <3>1. d.coveredTestcases = [t \in I |-> covering[t]]
      BY <1>1, <1>5 DEF covering
    <3>2. QED  BY <1>8, <3>1
  <2>4. QED  BY <1>6, <2>1, <2>2, <2>3 DEF NamesListed
<1>19. Full(d)
  <2>1. d.clausesCov = [p \in P |-> ClausesCov(d.testcases[p])]
    BY <1>3, <1>5
  <2> HIDE DEF P, C
  <2>2. QED  BY <1>6, <1>13, <1>14, <1>15, <1>17, <1>18, <2>1 DEF Full, Exact
<1>20. Marks(d)
  <2>1. Marks(b)
    BY FreshMarks
  <2>2. QED  BY <1>5, <2>1 DEF Marks, PlacesOf
<1>21. QED  BY <1>5, <1>19, <1>20 DEF Steady, d

-----------------------------------------------------------------------------
(* The numbers of the threads and the ranges that they are given.          *)
LEMMA ThreadRanges ==
  ASSUME NEW n \in Nat
  PROVE  /\ ThreadNum \in Nat \ {0} /\ Thread \subseteq Nat
         /\ \A id \in Thread :
              /\ Start(id, n, ThreadNum) \in Nat /\ Start(id + 1, n, ThreadNum) \in Nat
              /\ Start(id, n, ThreadNum) <= Start(id + 1, n, ThreadNum)
              /\ AtStart(n)[id] = Start(id, n, ThreadNum)
              /\ AtEnd(n)[id] = Start(id + 1, n, ThreadNum)
<1>1. ThreadNum \in Nat \ {0} /\ Thread \subseteq Nat
  BY BookkeepingAssumption DEF Thread
<1>2. ASSUME NEW id \in Thread
      PROVE  /\ Start(id, n, ThreadNum) \in Nat /\ Start(id + 1, n, ThreadNum) \in Nat
             /\ Start(id, n, ThreadNum) <= Start(id + 1, n, ThreadNum)
  <2>1. id \in Nat /\ id + 1 \in Nat
    BY <1>1
  <2>2. QED  BY <1>1, <2>1, Starting
<1>3. QED  BY <1>1, <1>2 DEF AtStart, AtEnd

(* The threads of restart, for any number of columns.  The strength whose  *)
(* combinations they scan.                                                 *)
Width == IF phase = "cover" THEN Strength - 1 ELSE Strength

ColumnsExact == phase \in {"cover", "collect"} =>
  \A id \in Thread : AtWork(id) => job.col[id] = Decode(job.at[id], Width, NumVar)

(* Each thread is somewhere in its range, at the combination of its number.*)
ColumnsInv == phase \in {"cover", "collect"} =>
  LET n == nCr[NumVar][Width]
  IN /\ {"at", "end", "col"} \subseteq DOMAIN job
     /\ job.at \in [Thread -> Nat]
     /\ job.end = AtEnd(n)
     /\ DOMAIN job.col = Thread
     /\ \A id \in Thread :
          /\ job.at[id] <= job.end[id]
          /\ AtWork(id) => job.col[id] = Decode(job.at[id], Width, NumVar)

(* What a thread may scan is not past the last combination.                *)
LEMMA InRange ==
  ASSUME NEW n \in Nat, NEW id \in Thread
  PROVE  Start(id + 1, n, ThreadNum) <= n
<1>1. /\ ThreadNum \in Nat \ {0} /\ id \in Nat /\ id + 1 \in Nat /\ id + 1 <= ThreadNum
      /\ ThreadNum \in Nat
  BY BookkeepingAssumption DEF Thread
<1>2. Start(ThreadNum, n, ThreadNum) = n
  BY <1>1, Starting
<1>3. CASE id + 1 = ThreadNum
  BY <1>2, <1>3
<1>4. CASE id + 1 < ThreadNum
  <2>1. Start((id + 1) + 1, n, ThreadNum) <= Start(ThreadNum, n, ThreadNum)
    BY <1>1, <1>4, StartingLater
  <2>2. /\ Start(id + 1, n, ThreadNum) \in Nat /\ Start((id + 1) + 1, n, ThreadNum) \in Nat
        /\ Start(id + 1, n, ThreadNum) <= Start((id + 1) + 1, n, ThreadNum)
    <3>1. (id + 1) + 1 \in Nat
      BY <1>1
    <3>2. QED  BY <1>1, <3>1, Starting
  <2>3. QED  BY <1>2, <2>1, <2>2
<1>5. QED  BY <1>1, <1>3, <1>4

(* A phase over combinations begins with each thread at its first.         *)
LEMMA ColumnsBegin ==
  ASSUME NEW s, NEW covered, NEW k \in Nat \ {0}, NEW n \in Nat, n = nCr[NumVar][k]
  PROVE  LET j == Phase(s, n, k, covered)
         IN /\ {"at", "end", "col"} \subseteq DOMAIN j
            /\ j.at \in [Thread -> Nat]
            /\ j.end = AtEnd(n)
            /\ DOMAIN j.col = Thread
            /\ \A id \in Thread : /\ j.at[id] <= j.end[id]
                                  /\ j.col[id] = Decode(j.at[id], k, NumVar)
<1> DEFINE j == Phase(s, n, k, covered)
<1>1. /\ j.at = AtStart(n) /\ j.end = AtEnd(n) /\ j.col = Firsts(k)
      /\ {"at", "end", "col"} \subseteq DOMAIN j
  BY DEF Phase
<1> HIDE DEF j
<1>2. j.at \in [Thread -> Nat]
  BY <1>1, ThreadRanges DEF AtStart
<1>3. ASSUME NEW id \in Thread
      PROVE  j.at[id] <= j.end[id] /\ j.col[id] = Decode(j.at[id], k, NumVar)
  <2>1. /\ j.at[id] = Start(id, n, ThreadNum) /\ j.end[id] = Start(id + 1, n, ThreadNum)
        /\ Start(id, n, ThreadNum) <= Start(id + 1, n, ThreadNum)
    BY <1>1, ThreadRanges
  <2>2. j.col[id] = Decode(Start(id, n, ThreadNum), k, NumVar)
    BY <1>1 DEF Firsts
  <2>3. QED  BY <2>1, <2>2
<1>4. DOMAIN j.col = Thread
  BY <1>1 DEF Firsts
<1>5. QED  BY <1>1, <1>2, <1>3, <1>4 DEF j

(* A thread that has done a combination goes to the next.                  *)
LEMMA ColumnsStep ==
  ASSUME ColumnsInv, phase \in {"cover", "collect"}, phase' = phase, NEW id \in Thread,
         AtWork(id), DOMAIN job' = DOMAIN job,
         job'.at = [job.at EXCEPT ![id] = @ + 1], job'.end = job.end,
         job'.col = [job.col EXCEPT ![id] = NextColumns(job.col[id])]
  PROVE  ColumnsInv'
<1> DEFINE k == Width
           n == nCr[NumVar][k]
<1>1. k \in 1 .. NumVar /\ NumVar \in Nat /\ Width' = k
  BY FormulaAssumption DEF Width
<1>2. n \in Nat
  <2>1. k \in Nat
    BY <1>1
  <2>2. QED  BY <1>1, <2>1, Edges
<1>3. /\ {"at", "end", "col"} \subseteq DOMAIN job
      /\ job.at \in [Thread -> Nat] /\ job.end = AtEnd(n) /\ DOMAIN job.col = Thread
      /\ \A i \in Thread : /\ job.at[i] <= job.end[i]
                           /\ AtWork(i) => job.col[i] = Decode(job.at[i], k, NumVar)
  BY DEF ColumnsInv
<1> HIDE DEF k
<1>4. ASSUME NEW i \in Thread
      PROVE  /\ job'.at[i] <= job'.end[i]
             /\ AtWork(i)' => job'.col[i] = Decode(job'.at[i], k, NumVar)
  <2>1. CASE i # id
    <3>1. job'.at[i] = job.at[i] /\ job'.end[i] = job.end[i] /\ job'.col[i] = job.col[i]
      BY <1>3, <2>1
    <3>2. AtWork(i)' => AtWork(i)
      BY <3>1 DEF AtWork
    <3>3. QED  BY <1>3, <3>1, <3>2
  <2>2. CASE i = id
    <3>1. /\ job'.at[i] = job.at[i] + 1 /\ job'.end[i] = job.end[i]
          /\ job'.col[i] = NextColumns(job.col[i]) /\ job.at[i] \in Nat
      BY <1>3, <2>2
    <3>2. job.at[i] < job.end[i]
      BY <2>2 DEF AtWork
    <3>3. job.col[i] = Decode(job.at[i], k, NumVar)
      BY <1>3, <2>2
    <3>4. job.end[i] = Start(i + 1, n, ThreadNum) /\ job.end[i] \in Nat /\ job.end[i] <= n
      <4>1. AtEnd(n)[i] = Start(i + 1, n, ThreadNum) /\ Start(i + 1, n, ThreadNum) \in Nat
        BY <1>2, ThreadRanges
      <4>2. Start(i + 1, n, ThreadNum) <= n
        BY <1>2, InRange
      <4>3. QED  BY <1>3, <4>1, <4>2
    <3>5. job'.at[i] <= job'.end[i]
      BY <3>1, <3>2, <3>4
    <3>6. ASSUME AtWork(i)'
          PROVE  job'.col[i] = Decode(job'.at[i], k, NumVar)
      <4>1. job.at[i] + 1 < job.end[i]
        BY <3>1, <3>6 DEF AtWork
      <4>2. job.at[i] + 1 < nCr[NumVar][k]
        BY <1>2, <3>1, <3>4, <4>1
      <4>3. NextColumns(Decode(job.at[i], k, NumVar)) = Decode(job.at[i] + 1, k, NumVar)
        BY <1>1, <3>1, <4>2, StepsDecode
      <4>4. QED  BY <3>1, <3>3, <4>3
    <3>7. QED  BY <3>5, <3>6
  <2>3. QED  BY <2>1, <2>2
<1>5. job'.at \in [Thread -> Nat] /\ DOMAIN job'.col = Thread
  BY <1>3
<1>6. QED  BY <1>1, <1>3, <1>4, <1>5 DEF ColumnsInv

(* However many threads and columns there are: a thread that has decoded   *)
(* its first combination and stepped from there is always at the one whose *)
(* number its counter has.  With RangesPartition and DecodeBijective, the  *)
(* threads together come to each combination exactly once.                 *)
THEOREM ColumnsInStep == Spec => []ColumnsExact
<1>1. Init => ColumnsInv
  BY DEF Init, ColumnsInv
<1>2. ColumnsInv /\ [Next]_vars => ColumnsInv'
  <2> SUFFICES ASSUME ColumnsInv, [Next]_vars PROVE ColumnsInv'
    OBVIOUS
  <2>1. /\ Strength \in Nat \ {0} /\ Strength - 1 \in Nat \ {0}
        /\ nCr[NumVar][Strength] \in Nat /\ nCr[NumVar][Strength - 1] \in Nat
    <3>1. Strength \in Nat \ {0} /\ Strength - 1 \in Nat \ {0} /\ NumVar \in Nat
      BY FormulaAssumption
    <3>2. QED  BY <3>1, Edges
  <2>2. CASE UNCHANGED vars
    BY <2>2 DEF vars, ColumnsInv, Width, AtWork
  <2>3. CASE \E id \in Thread : CoverColumns(id)
    <3>1. PICK id \in Thread : CoverColumns(id)
      BY <2>3
    <3>2. phase = "cover" /\ AtWork(id) /\ phase' = phase
      BY <3>1 DEF CoverColumns
    <3>3. {"at", "end", "col"} \subseteq DOMAIN job
      BY <3>2 DEF ColumnsInv
    <3>4. /\ DOMAIN job' = DOMAIN job
          /\ job'.at = [job.at EXCEPT ![id] = @ + 1] /\ job'.end = job.end
          /\ job'.col = [job.col EXCEPT ![id] = NextColumns(job.col[id])]
      BY <3>1, <3>3 DEF CoverColumns
    <3>5. QED  BY <3>2, <3>4, ColumnsStep
  <2>4. CASE \E id \in Thread : CollectColumns(id)
    <3>1. PICK id \in Thread : CollectColumns(id)
      BY <2>4
    <3>2. phase = "collect" /\ AtWork(id) /\ phase' = phase
      BY <3>1 DEF CollectColumns
    <3>3. {"at", "end", "col"} \subseteq DOMAIN job
      BY <3>2 DEF ColumnsInv
    <3>4. /\ DOMAIN job' = DOMAIN job
          /\ job'.at = [job.at EXCEPT ![id] = @ + 1] /\ job'.end = job.end
          /\ job'.col = [job.col EXCEPT ![id] = NextColumns(job.col[id])]
      BY <3>1, <3>3 DEF CollectColumns
    <3>5. QED  BY <3>2, <3>4, ColumnsStep
  <2>5. CASE Restart
    <3>1. PICK s : job' = CoverPhase(s)
      BY <2>5 DEF Restart
    <3>2. phase' = "cover"
      BY <2>5 DEF Restart
    <3>3. job' = Phase(s, nCr[NumVar][Strength - 1], Strength - 1, {})
      BY <3>1 DEF CoverPhase
    <3>4. Width' = Strength - 1
      BY <3>2 DEF Width
    <3> DEFINE n == nCr[NumVar][Strength - 1]
    <3>5. /\ {"at", "end", "col"} \subseteq DOMAIN job'
          /\ job'.at \in [Thread -> Nat] /\ job'.end = AtEnd(n) /\ DOMAIN job'.col = Thread
          /\ \A id \in Thread : /\ job'.at[id] <= job'.end[id]
                                /\ job'.col[id] = Decode(job'.at[id], Strength - 1, NumVar)
      <4>1. n \in Nat /\ n = nCr[NumVar][Strength - 1]
        BY <2>1
      <4> HIDE DEF n
      <4> DEFINE k == Strength - 1
      <4>2. job' = Phase(s, n, k, {})
        BY <3>3, <4>1
      <4>3. k \in Nat \ {0} /\ n = nCr[NumVar][k]
        BY <2>1, <4>1
      <4> HIDE DEF k
      <4> DEFINE j == Phase(s, n, k, {})
      <4>4. /\ {"at", "end", "col"} \subseteq DOMAIN j
            /\ j.at \in [Thread -> Nat] /\ j.end = AtEnd(n) /\ DOMAIN j.col = Thread
            /\ \A id \in Thread : /\ j.at[id] <= j.end[id]
                                  /\ j.col[id] = Decode(j.at[id], k, NumVar)
        BY <4>1, <4>3, ColumnsBegin
      <4>5. job' = j
        BY <4>2
      <4> HIDE DEF j
      <4>6. QED  BY <4>4, <4>5 DEF k
    <3>6. QED  BY <3>4, <3>5 DEF ColumnsInv
  <2>6. CASE Covered
    <3>1. phase' = "collect" /\ job' = CollectPhase(job.start, job.covered)
      BY <2>6 DEF Covered
    <3>2. job' = Phase(job.start, nCr[NumVar][Strength], Strength, job.covered)
      BY <3>1 DEF CollectPhase
    <3>3. Width' = Strength
      BY <3>1 DEF Width
    <3> DEFINE n == nCr[NumVar][Strength]
    <3>4. /\ {"at", "end", "col"} \subseteq DOMAIN job'
          /\ job'.at \in [Thread -> Nat] /\ job'.end = AtEnd(n) /\ DOMAIN job'.col = Thread
          /\ \A id \in Thread : /\ job'.at[id] <= job'.end[id]
                                /\ job'.col[id] = Decode(job'.at[id], Strength, NumVar)
      <4>1. n \in Nat /\ n = nCr[NumVar][Strength]
        BY <2>1
      <4> HIDE DEF n
      <4> DEFINE k == Strength
      <4>2. job' = Phase(job.start, n, k, job.covered)
        BY <3>2, <4>1
      <4>3. k \in Nat \ {0} /\ n = nCr[NumVar][k]
        BY <2>1, <4>1
      <4> HIDE DEF k
      <4> DEFINE j == Phase(job.start, n, k, job.covered)
      <4>4. /\ {"at", "end", "col"} \subseteq DOMAIN j
            /\ j.at \in [Thread -> Nat] /\ j.end = AtEnd(n) /\ DOMAIN j.col = Thread
            /\ \A id \in Thread : /\ j.at[id] <= j.end[id]
                                  /\ j.col[id] = Decode(j.at[id], k, NumVar)
        BY SMTT(60), <4>1, <4>3, ColumnsBegin
      <4>5. job' = j
        BY <4>2
      <4> HIDE DEF j
      <4>6. QED  BY <4>4, <4>5 DEF k
    <3>5. QED  BY <3>3, <3>4 DEF ColumnsInv
  <2>7. CASE Collected \/ Scanned \/ \E id \in Thread : ScanTuple(id)
    BY ZenonT(60), <2>7 DEF Collected, Scanned, ScanTuple, ColumnsInv
  <2>8. CASE CellRemove \/ TupleRemove \/ CellStep \/ TupleStep \/ Backtrack
    BY <2>8 DEF CellRemove, TupleRemove, CanRemove, CellStep, TupleStep, Incomplete,
                Backtrack, ColumnsInv
  <2>9. QED  BY <2>2, <2>3, <2>4, <2>5, <2>6, <2>7, <2>8 DEF Next
<1>3. ColumnsInv => ColumnsExact
  BY DEF ColumnsInv, ColumnsExact
<1>4. QED  BY <1>1, <1>2, <1>3, PTL DEF Spec

-----------------------------------------------------------------------------
(* The tuples and their places in the bitmaps of restart.                  *)
AllColumns == Combinations(Strength, NumVar)
FewColumns == Combinations(Strength - 1, NumVar)
SignsAt(k) == [1 .. k -> Bit]

(* The numbers of columns that the loops of restart combine.               *)
LEMMA Widths ==
  /\ NumVar \in Nat /\ NumVar \in Nat \ {0}
  /\ Strength \in Nat /\ Strength >= 2 /\ Strength \in 1 .. NumVar
  /\ Strength - 1 \in Nat /\ Strength - 1 >= 1 /\ Strength - 1 \in 1 .. NumVar
  /\ Strength \in Nat \ {0} /\ Strength - 1 \in Nat \ {0}
BY FormulaAssumption

(* A place in the bitmap of restart belongs to one combination of all      *)
(* columns but the last, one choice of signs for them and one sign.        *)
LEMMA CellOnce ==
  ASSUME NEW p \in FewColumns, NEW b \in SignsAt(Strength - 1), NEW x \in Bit,
         NEW q \in FewColumns, NEW c \in SignsAt(Strength - 1), NEW y \in Bit,
         CellOf(p, b, x) = CellOf(q, c, y)
  PROVE  p = q /\ b = c /\ x = y
<1> DEFINE m == Strength - 1
           i == TupleToIndex(NumVar, p, b)
           j == TupleToIndex(NumVar, q, c)
<1>1. /\ m \in Nat /\ m >= 1 /\ NumVar \in Nat
      /\ p \in Combinations(m, NumVar) /\ q \in Combinations(m, NumVar)
      /\ b \in [1 .. m -> {0, 1}] /\ c \in [1 .. m -> {0, 1}]
  BY Widths DEF FewColumns, SignsAt, Bit
<1> HIDE DEF m
<1>2. /\ p \in [1 .. m -> 0 .. NumVar - 1] /\ q \in [1 .. m -> 0 .. NumVar - 1]
      /\ Len(p) = m /\ Len(q) = m
  BY <1>1 DEF Combinations
<1>3. i \in Nat /\ j \in Nat /\ (i = j => p = q /\ b = c)
  <2>1. CASE m = 1
    <3> DEFINE u == p[1]
               v == q[1]
               e == b[1]
               f == c[1]
    <3>1. u \in 0 .. NumVar - 1 /\ v \in 0 .. NumVar - 1 /\ e \in {0, 1} /\ f \in {0, 1}
      BY <1>1, <1>2, <2>1
    <3>2. i = e * NumVar + u /\ j = f * NumVar + v
      BY <1>2, <2>1 DEF TupleToIndex
    <3> HIDE DEF u, v, e, f, i, j
    <3>3. /\ (e = 0 /\ i = u) \/ (e = 1 /\ i = NumVar + u)
          /\ (f = 0 /\ j = v) \/ (f = 1 /\ j = NumVar + v)
      BY <1>1, <3>1, <3>2
    <3>4. i \in Nat /\ j \in Nat /\ (i = j => u = v /\ e = f)
      BY <1>1, <3>1, <3>3
    <3>5. ASSUME u = v /\ e = f PROVE p = q /\ b = c
      <4>1. \A k \in 1 .. m : k = 1
        BY <2>1
      <4>2. \A k \in 1 .. m : p[k] = q[k] /\ b[k] = c[k]
        BY <3>5, <4>1 DEF u, v, e, f
      <4>3. QED  BY <1>1, <1>2, <4>2
    <3>6. QED  BY <3>4, <3>5
  <2>2. CASE m # 1
    <3>1. m >= 2
      BY <1>1, <2>2
    <3>2. i = MapIndex(NumVar, p, b) /\ j = MapIndex(NumVar, q, c)
      BY <1>2, <2>2 DEF TupleToIndex
    <3>3. MapIndex(NumVar, p, b) \in Nat /\ MapIndex(NumVar, q, c) \in Nat
      BY <1>1, <3>1, IndexParts
    <3>4. MapIndex(NumVar, p, b) = MapIndex(NumVar, q, c) => p = q /\ b = c
      BY <1>1, <3>1, MapIndexOnce
    <3>5. QED  BY <3>2, <3>3, <3>4
  <2>3. QED  BY <2>1, <2>2
<1>4. 2 * i + x = 2 * j + y
  BY DEF CellOf
<1> HIDE DEF i, j
<1>5. i = j /\ x = y
  BY <1>3, <1>4 DEF Bit
<1>6. QED  BY <1>3, <1>5

(* The first columns of a combination.                                     *)
LEMMA FewOf ==
  ASSUME NEW cols \in AllColumns, NEW bits \in SignsAt(Strength)
  PROVE  /\ SubSeq(cols, 1, Strength - 1) \in FewColumns
         /\ SubSeq(bits, 1, Strength - 1) \in SignsAt(Strength - 1)
         /\ SubSeq(cols, 1, Strength - 1) = [i \in 1 .. Strength - 1 |-> cols[i]]
         /\ SubSeq(bits, 1, Strength - 1) = [i \in 1 .. Strength - 1 |-> bits[i]]
         /\ Len(cols) = Strength /\ DOMAIN cols = 1 .. Strength /\ DOMAIN bits = 1 .. Strength
         /\ bits[Strength] \in Bit /\ cols[Strength] \in Nat
<1> DEFINE k == Strength
           m == Strength - 1
           p == SubSeq(cols, 1, m)
           b == SubSeq(bits, 1, m)
<1>1. k \in Nat /\ k >= 2 /\ m \in Nat /\ m = k - 1 /\ NumVar \in Nat
  BY Widths
<1>2. /\ cols \in [1 .. k -> 0 .. NumVar - 1] /\ \A i \in 1 .. k - 1 : cols[i] < cols[i + 1]
  BY DEF AllColumns, Combinations
<1>3. bits \in [1 .. k -> Bit]
  BY DEF SignsAt
<1> HIDE DEF m, k
<1>4. cols \in Seq(0 .. NumVar - 1) /\ bits \in Seq(Bit) /\ Len(cols) = k /\ Len(bits) = k
  BY <1>1, <1>2, <1>3
<1>5. p = [i \in 1 .. m |-> cols[i]] /\ b = [i \in 1 .. m |-> bits[i]]
  BY <1>1, <1>4
<1>6. \A i \in 1 .. m : i \in 1 .. k
  BY <1>1
<1>7. b \in [1 .. m -> Bit] /\ p \in [1 .. m -> 0 .. NumVar - 1]
  BY <1>2, <1>3, <1>5, <1>6
<1>8. \A i \in 1 .. m - 1 : p[i] < p[i + 1]
  <2> SUFFICES ASSUME NEW i \in 1 .. m - 1 PROVE p[i] < p[i + 1]
    OBVIOUS
  <2>1. i \in 1 .. m /\ i + 1 \in 1 .. m /\ i \in 1 .. k - 1
    BY <1>1
  <2>2. p[i] = cols[i] /\ p[i + 1] = cols[i + 1]
    BY <1>5, <2>1
  <2>3. QED  BY <1>2, <2>1, <2>2
<1>9. p \in Combinations(m, NumVar)
  <2> HIDE DEF p
  <2>1. QED  BY <1>7, <1>8 DEF Combinations
<1>10. k \in 1 .. k
  BY <1>1
<1>11. QED  BY <1>2, <1>3, <1>4, <1>5, <1>7, <1>9, <1>10 DEF FewColumns, SignsAt, m, k, p, b

(* A bit belongs to one combination and one choice of signs.               *)
LEMMA BitOnce ==
  ASSUME NEW cols \in AllColumns, NEW bits \in SignsAt(Strength),
         NEW cols2 \in AllColumns, NEW bits2 \in SignsAt(Strength),
         BitOf(cols, bits) = BitOf(cols2, bits2)
  PROVE  cols = cols2 /\ bits = bits2
<1> DEFINE k == Strength
           m == Strength - 1
           p == SubSeq(cols, 1, m)
           b == SubSeq(bits, 1, m)
           q == SubSeq(cols2, 1, m)
           c == SubSeq(bits2, 1, m)
           u == cols[k]
           v == cols2[k]
           x == bits[k]
           y == bits2[k]
<1>1. /\ p \in FewColumns /\ b \in SignsAt(m) /\ Len(cols) = k /\ u \in Nat /\ x \in Bit
      /\ p = [i \in 1 .. m |-> cols[i]] /\ b = [i \in 1 .. m |-> bits[i]]
  BY FewOf
<1>2. /\ q \in FewColumns /\ c \in SignsAt(m) /\ Len(cols2) = k /\ v \in Nat /\ y \in Bit
      /\ q = [i \in 1 .. m |-> cols2[i]] /\ c = [i \in 1 .. m |-> bits2[i]]
  BY FewOf
<1>3. BitOf(cols, bits) = <<CellOf(p, b, x), u + 1>> /\ BitOf(cols2, bits2) = <<CellOf(q, c, y), v + 1>>
  BY <1>1, <1>2 DEF BitOf
<1>4. CellOf(p, b, x) = CellOf(q, c, y) /\ u + 1 = v + 1
  <2> DEFINE r == CellOf(p, b, x)
             s == CellOf(q, c, y)
             g == u + 1
             h == v + 1
  <2>1. <<r, g>> = <<s, h>>
    BY <1>3
  <2> HIDE DEF r, s, g, h
  <2>2. r = s /\ g = h
    BY <2>1
  <2>3. QED  BY <2>2 DEF r, s, g, h
<1>5. cols \in [1 .. k -> 0 .. NumVar - 1] /\ cols2 \in [1 .. k -> 0 .. NumVar - 1]
      /\ bits \in [1 .. k -> Bit] /\ bits2 \in [1 .. k -> Bit] /\ k \in Nat /\ m = k - 1
  BY Widths DEF AllColumns, Combinations, SignsAt
<1>6. u = v
  <2> HIDE DEF u, v
  <2>1. QED  BY <1>1, <1>2, <1>4
<1>7. p = q /\ b = c /\ x = y
  <2> HIDE DEF p, b, x, q, c, y
  <2>1. QED  BY <1>1, <1>2, <1>4, CellOnce DEF m
<1>8. ASSUME NEW i \in 1 .. k PROVE cols[i] = cols2[i] /\ bits[i] = bits2[i]
  <2>1. CASE i = k
    BY <1>6, <1>7, <2>1
  <2>2. CASE i # k
    <3>1. i \in 1 .. m
      BY <1>5, <2>2
    <3> HIDE DEF m
    <3>2. p[i] = cols[i] /\ b[i] = bits[i] /\ q[i] = cols2[i] /\ c[i] = bits2[i]
      BY <1>1, <1>2, <3>1
    <3> HIDE DEF p, b, q, c
    <3>3. QED  BY <1>7, <3>2
  <2>3. QED  BY <2>1, <2>2
<1> HIDE DEF k
<1>9. QED  BY <1>5, <1>8

(* The tuple with these columns and signs.                                 *)
LEMMA TupleAtIs ==
  ASSUME NEW cols \in AllColumns, NEW bits \in SignsAt(Strength)
  PROVE  /\ TupleAt(cols, bits) \in Tuple
         /\ DOMAIN TupleAt(cols, bits) = { cols[i] + 1 : i \in 1 .. Strength }
         /\ \A i \in 1 .. Strength : TupleAt(cols, bits)[cols[i] + 1] = bits[i]
<1> DEFINE k == Strength
           D == { cols[i] + 1 : i \in 1 .. k }
           t == TupleAt(cols, bits)
<1>1. /\ k \in Nat /\ NumVar \in Nat /\ cols \in Combinations(k, NumVar)
      /\ DOMAIN cols = 1 .. k /\ bits \in [1 .. k -> Bit]
  BY Widths, FewOf DEF AllColumns, SignsAt
<1>2. /\ cols \in [1 .. k -> 0 .. NumVar - 1] /\ \A i \in 1 .. k : cols[i] \in Nat
      /\ \A i, j \in 1 .. k : i < j => cols[i] < cols[j]
  BY <1>1, Ascending
<1>3. t = [v \in D |-> bits[CHOOSE i \in 1 .. k : cols[i] + 1 = v]]
  BY <1>1 DEF TupleAt
<1> HIDE DEF k, t
<1>4. ASSUME NEW i \in 1 .. k PROVE t[cols[i] + 1] = bits[i]
  <2> DEFINE v == cols[i] + 1
             j == CHOOSE j \in 1 .. k : cols[j] + 1 = v
  <2>1. v \in D /\ t[v] = bits[j]
    BY <1>3
  <2>2. j \in 1 .. k /\ cols[j] + 1 = v
    OBVIOUS
  <2> HIDE DEF j
  <2>3. cols[i] \in Nat /\ cols[j] \in Nat /\ cols[j] = cols[i]
    BY <1>2, <2>2
  <2>4. ~(i < j) /\ ~(j < i)
    BY <1>2, <2>2, <2>3
  <2>5. i = j
    BY <2>2, <2>4
  <2>6. QED  BY <2>1, <2>5
<1>5. DOMAIN t = D
  BY <1>3
<1>6. D \subseteq Var
  BY <1>1, <1>2 DEF Var
<1>7. Cardinality(D) = k
  BY <1>1, ColumnsCount
<1>8. t \in [D -> Bit]
  <2>1. \A v \in D : t[v] \in Bit
    BY <1>1, <1>4
  <2>2. t = [v \in D |-> t[v]]
    BY <1>3
  <2> HIDE DEF D
  <2>3. QED  BY <2>1, <2>2
<1>9. t \in Tuple
  <2> HIDE DEF D
  <2>1. D \in kSubset(k, Var)
    BY <1>6, <1>7 DEF kSubset
  <2>2. QED  BY <1>8, <2>1 DEF Tuple, TuplesOf, k
<1>10. QED  BY <1>4, <1>5, <1>9 DEF t, k

(* So does a tuple.                                                        *)
LEMMA TupleAtOnce ==
  ASSUME NEW cols \in AllColumns, NEW bits \in SignsAt(Strength),
         NEW cols2 \in AllColumns, NEW bits2 \in SignsAt(Strength),
         TupleAt(cols, bits) = TupleAt(cols2, bits2)
  PROVE  cols = cols2 /\ bits = bits2
<1> DEFINE k == Strength
           t == TupleAt(cols, bits)
<1>1. /\ DOMAIN t = { cols[i] + 1 : i \in 1 .. k }
      /\ \A i \in 1 .. k : t[cols[i] + 1] = bits[i]
  BY TupleAtIs
<1>2. /\ DOMAIN t = { cols2[i] + 1 : i \in 1 .. k }
      /\ \A i \in 1 .. k : t[cols2[i] + 1] = bits2[i]
  <2> DEFINE s == TupleAt(cols2, bits2)
  <2>1. /\ DOMAIN s = { cols2[i] + 1 : i \in 1 .. k }
        /\ \A i \in 1 .. k : s[cols2[i] + 1] = bits2[i]
    BY TupleAtIs
  <2>2. s = t
    OBVIOUS
  <2> HIDE DEF s, t
  <2>3. QED  BY <2>1, <2>2
<1>3. /\ k \in Nat /\ NumVar \in Nat /\ cols \in Combinations(k, NumVar)
      /\ cols2 \in Combinations(k, NumVar)
      /\ bits \in [1 .. k -> Bit] /\ bits2 \in [1 .. k -> Bit]
  BY Widths DEF AllColumns, SignsAt
<1>4. /\ \A i \in 1 .. k : cols[i] \in Nat
      /\ \A i \in 1 .. k : cols2[i] \in Nat
  BY <1>3, Ascending
<1> HIDE DEF k, t
<1>5. { cols[i] : i \in 1 .. k } = { cols2[i] : i \in 1 .. k }
  <2>1. ASSUME NEW i \in 1 .. k PROVE \E j \in 1 .. k : cols[i] = cols2[j]
    <3>1. cols[i] + 1 \in DOMAIN t
      BY <1>1
    <3>2. PICK j \in 1 .. k : cols[i] + 1 = cols2[j] + 1
      BY <1>2, <3>1
    <3>3. QED  BY <1>4, <3>2
  <2>2. ASSUME NEW i \in 1 .. k PROVE \E j \in 1 .. k : cols2[i] = cols[j]
    <3>1. cols2[i] + 1 \in DOMAIN t
      BY <1>2
    <3>2. PICK j \in 1 .. k : cols2[i] + 1 = cols[j] + 1
      BY <1>1, <3>1
    <3>3. QED  BY <1>4, <3>2
  <2>3. QED  BY <2>1, <2>2
<1>6. cols = cols2
  BY <1>3, <1>5, ColumnsOnce
<1>7. QED  BY <1>1, <1>2, <1>3, <1>6

(* Every tuple has its columns and signs.                                  *)
LEMMA ColumnsOfIs ==
  ASSUME NEW t \in Tuple
  PROVE  /\ ColumnsOf(t) \in AllColumns
         /\ Signs(t, ColumnsOf(t)) \in SignsAt(Strength)
         /\ TupleAt(ColumnsOf(t), Signs(t, ColumnsOf(t))) = t
<1> DEFINE k == Strength
           Right(c) == Increasing(c) /\ { c[i] + 1 : i \in 1 .. k } = DOMAIN t
           cols == CHOOSE c \in [1 .. k -> 0 .. NumVar - 1] : Right(c)
           bits == Signs(t, cols)
<1>1. k \in Nat /\ NumVar \in Nat
  BY Widths
<1>2. DOMAIN t \subseteq Var /\ Cardinality(DOMAIN t) = k /\ t \in [DOMAIN t -> Bit]
  BY DEF Tuple, TuplesOf, kSubset
<1> DEFINE E == { v - 1 : v \in DOMAIN t }
<1>3. E \subseteq 0 .. NumVar - 1 /\ \A v \in DOMAIN t : v \in Nat
  BY <1>1, <1>2 DEF Var
<1>4. Cardinality(E) = k
  <2> DEFINE f == [v \in DOMAIN t |-> v - 1]
  <2>1. IsFiniteSet(DOMAIN t)
    <3>1. IsFiniteSet(1 .. NumVar)
      <4>1. 1 \in Int /\ NumVar \in Int
        BY <1>1
      <4>2. QED  BY <4>1, FS_Interval
    <3>2. QED  BY <1>2, <3>1, FS_Subset DEF Var
  <2>2. ASSUME NEW v \in DOMAIN t, NEW w \in DOMAIN t, v - 1 = w - 1 PROVE v = w
    BY <1>3, <2>2
  <2>3. f \in [DOMAIN t -> E] /\ (\A e \in E : \E v \in DOMAIN t : f[v] = e)
        /\ \A v, w \in DOMAIN f : f[v] = f[w] => v = w
    BY <2>2
  <2> HIDE DEF f, E
  <2>4. f \in Surjection(DOMAIN t, E) /\ f \in Injection(DOMAIN t, E)
    BY <2>3 DEF Surjection, Injection, IsInjective
  <2>5. QED  BY <1>2, <2>1, <2>4, FS_Surjection
<1>5. PICK c \in Combinations(k, NumVar) : { c[i] : i \in 1 .. k } = E
  <2> HIDE DEF E
  <2>1. QED  BY <1>1, <1>3, <1>4, Enumerated
<1>6. /\ c \in [1 .. k -> 0 .. NumVar - 1] /\ (\A i \in 1 .. k : c[i] \in Nat)
      /\ \A i, j \in 1 .. k : i < j => c[i] < c[j]
  BY <1>1, Ascending
<1>7. Right(c)
  <2>1. Increasing(c)
    <3>1. DOMAIN c = 1 .. k
      BY <1>6
    <3>2. QED  BY <1>6, <3>1 DEF Increasing
  <2>2. ASSUME NEW i \in 1 .. k PROVE c[i] + 1 \in DOMAIN t
    <3>1. c[i] \in E
      BY <1>5
    <3>2. PICK v \in DOMAIN t : c[i] = v - 1
      BY <3>1
    <3>3. c[i] + 1 = v
      BY <1>3, <3>2
    <3>4. QED  BY <3>3
  <2>3. ASSUME NEW v \in DOMAIN t PROVE \E i \in 1 .. k : c[i] + 1 = v
    <3>1. v - 1 \in E
      OBVIOUS
    <3>2. PICK i \in 1 .. k : c[i] = v - 1
      BY <1>5, <3>1
    <3>3. QED  BY <1>3, <3>2
  <2>4. QED  BY <2>1, <2>2, <2>3
<1>8. cols \in [1 .. k -> 0 .. NumVar - 1] /\ Right(cols)
  <2> HIDE DEF Right
  <2>1. QED  BY <1>6, <1>7
<1>9. cols = ColumnsOf(t)
  BY DEF ColumnsOf
<1> HIDE DEF cols
<1>10. cols \in Combinations(k, NumVar)
  <2>1. \A i \in 1 .. k - 1 : cols[i] < cols[i + 1]
    <3> SUFFICES ASSUME NEW i \in 1 .. k - 1 PROVE cols[i] < cols[i + 1]
      OBVIOUS
    <3>1. i \in 1 .. k /\ i + 1 \in 1 .. k /\ i < i + 1 /\ DOMAIN cols = 1 .. k
      BY <1>1, <1>8
    <3>2. QED  BY <1>8, <3>1 DEF Increasing
  <2>2. QED  BY <1>8, <2>1 DEF Combinations
<1>11. bits \in [1 .. k -> Bit] /\ \A i \in 1 .. k : bits[i] = t[cols[i] + 1]
  <2>1. bits = [i \in 1 .. k |-> t[cols[i] + 1]]
    BY <1>8 DEF Signs
  <2>2. \A i \in 1 .. k : cols[i] + 1 \in DOMAIN t
    BY <1>8
  <2>3. \A i \in 1 .. k : t[cols[i] + 1] \in Bit
    BY <1>2, <2>2
  <2>4. QED  BY <2>1, <2>3
<1> HIDE DEF bits
<1>12. cols \in AllColumns /\ bits \in SignsAt(Strength)
  BY <1>10, <1>11 DEF AllColumns, SignsAt
<1>13. TupleAt(cols, bits) = t
  <2> DEFINE s == TupleAt(cols, bits)
  <2>1. /\ s \in Tuple /\ DOMAIN s = { cols[i] + 1 : i \in 1 .. k }
        /\ \A i \in 1 .. k : s[cols[i] + 1] = bits[i]
    BY <1>12, TupleAtIs
  <2> HIDE DEF s
  <2>2. s \in [DOMAIN s -> Bit] /\ DOMAIN s = DOMAIN t
    BY <1>8, <2>1 DEF Tuple, TuplesOf
  <2>3. ASSUME NEW v \in DOMAIN t PROVE s[v] = t[v]
    <3>1. PICK i \in 1 .. k : v = cols[i] + 1
      BY <1>8
    <3>2. QED  BY <1>11, <2>1, <3>1
  <2>4. QED  BY <1>2, <2>2, <2>3 DEF s
<1>14. QED  BY <1>9, <1>12, <1>13 DEF bits

(* All signs, each once.                                                   *)
With(list, sign) == [j \in 1 .. Len(list) |-> Append(list[j], sign)]

(* The same sign behind all of a list of signs.                            *)
LEMMA WithIs ==
  ASSUME NEW m \in Nat, NEW list \in Seq(SignsAt(m)), NEW sign \in Bit
  PROVE  /\ With(list, sign) \in Seq(SignsAt(m + 1))
         /\ Range(With(list, sign)) = { s \in SignsAt(m + 1) : /\ s[m + 1] = sign
                                                               /\ \E r \in Range(list) : s = Append(r, sign) }
         /\ IsInjective(list) => IsInjective(With(list, sign))
<1> DEFINE S == SignsAt(m)
           T == SignsAt(m + 1)
           n == Len(list)
           w == With(list, sign)
<1>1. ASSUME NEW r \in S
      PROVE  /\ Append(r, sign) \in T /\ Append(r, sign)[m + 1] = sign
             /\ \A i \in 1 .. m : Append(r, sign)[i] = r[i]
  <2>1. r \in Seq(Bit) /\ Len(r) = m /\ r \in [1 .. m -> Bit]
    BY DEF SignsAt
  <2>2. /\ Append(r, sign) \in Seq(Bit) /\ Len(Append(r, sign)) = m + 1
        /\ Append(r, sign)[m + 1] = sign
        /\ \A i \in 1 .. m : Append(r, sign)[i] = r[i]
    BY <2>1
  <2> DEFINE a == Append(r, sign)
             k == m + 1
  <2>3. a \in Seq(Bit) /\ Len(a) = k /\ k \in Nat
    BY <2>2
  <2> HIDE DEF a, k
  <2>4. a \in [1 .. k -> Bit]
    BY <2>3
  <2>5. QED  BY <2>2, <2>4 DEF SignsAt, a, k
<1>2. /\ n \in Nat /\ DOMAIN list = 1 .. n /\ \A j \in 1 .. n : list[j] \in S
  <2>1. list \in Seq(S)
    OBVIOUS
  <2> HIDE DEF S
  <2>2. QED  BY <2>1
<1>3. w = [j \in 1 .. n |-> Append(list[j], sign)]
  BY DEF With
<1> HIDE DEF S, T, n, w
<1>4. w \in Seq(T)
  BY <1>1, <1>2, <1>3
<1>5. DOMAIN w = 1 .. n /\ \A j \in 1 .. n : w[j] = Append(list[j], sign)
  BY <1>3
<1>6. Range(w) = { s \in T : s[m + 1] = sign /\ \E r \in Range(list) : s = Append(r, sign) }
  <2>1. ASSUME NEW j \in 1 .. n
        PROVE  w[j] \in T /\ w[j][m + 1] = sign /\ \E r \in Range(list) : w[j] = Append(r, sign)
    <3>1. list[j] \in Range(list)
      BY <1>2 DEF Range
    <3>2. QED  BY ZenonT(60), <1>1, <1>2, <1>5, <3>1
  <2>2. ASSUME NEW r \in Range(list) PROVE Append(r, sign) \in Range(w)
    <3>1. PICK j \in 1 .. n : list[j] = r
      BY <1>2 DEF Range
    <3>2. QED  BY <1>5, <3>1 DEF Range
  <2>3. Range(w) = { w[j] : j \in 1 .. n }
    BY <1>5 DEF Range
  <2>4. QED  BY <2>1, <2>2, <2>3
<1>7. ASSUME IsInjective(list) PROVE IsInjective(w)
  <2>1. ASSUME NEW i \in 1 .. n, NEW j \in 1 .. n, w[i] = w[j] PROVE i = j
    <3>1. list[i] \in [1 .. m -> Bit] /\ list[j] \in [1 .. m -> Bit]
      BY <1>2 DEF S, SignsAt
    <3>2. \A k \in 1 .. m : list[i][k] = list[j][k]
      <4>1. \A k \in 1 .. m : /\ Append(list[i], sign)[k] = list[i][k]
                              /\ Append(list[j], sign)[k] = list[j][k]
        BY <1>1, <1>2
      <4>2. Append(list[i], sign) = Append(list[j], sign)
        BY <1>5, <2>1
      <4>3. QED  BY <4>1, <4>2
    <3>3. list[i] = list[j]
      BY <3>1, <3>2
    <3>4. QED  BY <1>2, <1>7, <3>3 DEF IsInjective
  <2>2. QED  BY <1>5, <2>1 DEF IsInjective
<1>8. QED  BY <1>4, <1>6, <1>7 DEF T, w

(* What doubling does to a list of all signs.                              *)
AllOf(list, m) == list \in Seq(SignsAt(m)) /\ Lists(list, SignsAt(m))

(* All choices of m signs give all choices of one more.                    *)
LEMMA Doubled ==
  ASSUME NEW m \in Nat, NEW list, AllOf(list, m)
  PROVE  AllOf(With(list, 0) \o With(list, 1), m + 1)
<1> DEFINE T == SignsAt(m + 1)
           a == With(list, 0)
           b == With(list, 1)
<1>1. list \in Seq(SignsAt(m)) /\ IsInjective(list) /\ Range(list) = SignsAt(m)
  BY DEF AllOf, Lists
<1>2. /\ a \in Seq(T) /\ IsInjective(a)
      /\ Range(a) = { s \in T : s[m + 1] = 0 /\ \E r \in Range(list) : s = Append(r, 0) }
  BY <1>1, WithIs DEF Bit
<1>3. /\ b \in Seq(T) /\ IsInjective(b)
      /\ Range(b) = { s \in T : s[m + 1] = 1 /\ \E r \in Range(list) : s = Append(r, 1) }
  BY <1>1, WithIs DEF Bit
<1>4. ASSUME NEW s \in T
      PROVE  s[m + 1] \in {0, 1} /\ \E r \in SignsAt(m) : s = Append(r, s[m + 1])
  <2>1. s \in [1 .. m + 1 -> Bit] /\ s[m + 1] \in {0, 1}
    <3>1. s \in [1 .. m + 1 -> Bit]
      BY DEF SignsAt
    <3>2. m + 1 \in 1 .. m + 1
      OBVIOUS
    <3>3. QED  BY <3>1, <3>2 DEF Bit
  <2> DEFINE r == [i \in 1 .. m |-> s[i]]
  <2>2. r \in [1 .. m -> Bit] /\ r \in Seq(Bit) /\ Len(r) = m
    BY <2>1
  <2> DEFINE x == Append(r, s[m + 1])
  <2>3. x \in Seq(Bit) /\ Len(x) = m + 1 /\ x[m + 1] = s[m + 1] /\ \A i \in 1 .. m : x[i] = s[i]
    <3>1. s[m + 1] \in Bit
      BY <2>1 DEF Bit
    <3>2. \A i \in 1 .. m : r[i] = s[i]
      OBVIOUS
    <3> HIDE DEF r
    <3>3. QED  BY <2>2, <3>1, <3>2
  <2> HIDE DEF x
  <2>4. x = s
    <3>1. x \in [1 .. m + 1 -> Bit]
      BY <2>3
    <3>2. \A i \in 1 .. m + 1 : x[i] = s[i]
      <4>1. \A i \in 1 .. m + 1 : i = m + 1 \/ i \in 1 .. m
        OBVIOUS
      <4>2. QED  BY <2>3, <4>1
    <3>3. QED  BY <2>1, <3>1, <3>2
  <2>5. QED  BY <2>1, <2>2, <2>4 DEF SignsAt, x
<1> HIDE DEF a, b, T
<1>5. Range(a) \cup Range(b) = T /\ Range(a) \cap Range(b) = {}
  BY SMTT(60), <1>1, <1>2, <1>3, <1>4
<1>6. a \o b \in Seq(T) /\ Range(a \o b) = T /\ IsInjective(a \o b)
  <2>1. a \in Seq(T) /\ b \in Seq(T) /\ IsInjective(a) /\ IsInjective(b)
    BY <1>2, <1>3
  <2>2. /\ a \o b \in Seq(T) /\ Range(a \o b) = Range(a) \cup Range(b)
        /\ IsInjective(a) /\ IsInjective(b) /\ Range(a) \cap Range(b) = {} => IsInjective(a \o b)
    BY <2>1, ListConcat
  <2>3. QED  BY <1>5, <2>1, <2>2
<1>7. QED  BY <1>6 DEF AllOf, Lists, T, a, b

(* AllSigns lists each choice of signs once.                               *)
LEMMA AllSignsIs ==
  ASSUME NEW k \in Nat
  PROVE  AllOf(AllSigns[k], k)
<1> DEFINE Twice(x) == [j \in 1 .. Len(x) |-> Append(x[j], 0)]
                         \o [j \in 1 .. Len(x) |-> Append(x[j], 1)]
           F(u) == [n \in Nat |-> IF n = 0 THEN <<<<>>>> ELSE Twice(u[n - 1])]
           all == CHOOSE u : u = F(u)
           S == Seq(Seq(Bit))
           first == <<<<>>>>
           step == [n \in Nat |-> [x \in S |-> Twice(x)]]
<1>1. AllSigns = all
  BY DEF AllSigns
<1>2. \A x : Twice(x) = With(x, 0) \o With(x, 1)
  BY DEF With
<1>3. ASSUME NEW x \in S PROVE Twice(x) \in S
  <2> DEFINE T == Seq(Bit)
             a == [j \in 1 .. Len(x) |-> Append(x[j], 0)]
             b == [j \in 1 .. Len(x) |-> Append(x[j], 1)]
  <2>1. \A y \in T : Append(y, 0) \in T /\ Append(y, 1) \in T
    BY DEF Bit
  <2> HIDE DEF T
  <2>2. x \in Seq(T)
    BY DEF T
  <2>3. a \in Seq(T) /\ b \in Seq(T)
    BY <2>1, <2>2
  <2> HIDE DEF a, b
  <2>4. a \o b \in Seq(T)
    BY <2>3
  <2>5. QED  BY <2>4 DEF a, b, T
<1>4. first \in S
  OBVIOUS
<1> HIDE DEF Twice
<1>5. PICK g : Follows(g, S, first, step)
  <2>1. step \in [Nat -> [S -> S]]
    BY <1>3
  <2> HIDE DEF step, S, first
  <2>2. QED  BY <1>4, <2>1, Recursion
<1>6. g = F(g)
  <2>1. g \in [Nat -> S] /\ g[0] = first /\ \A n \in Nat : g[n + 1] = step[n][g[n]]
    BY <1>5 DEF Follows
  <2>2. ASSUME NEW n \in Nat, n # 0 PROVE g[n] = Twice(g[n - 1])
    <3>1. n - 1 \in Nat /\ (n - 1) + 1 = n
      BY <2>2
    <3>2. g[n - 1] \in S /\ g[(n - 1) + 1] = step[n - 1][g[n - 1]]
      BY <2>1, <3>1
    <3> HIDE DEF S
    <3>3. step[n - 1][g[n - 1]] = Twice(g[n - 1])
      BY <3>1, <3>2
    <3>4. QED  BY <3>1, <3>2, <3>3
  <2> HIDE DEF S, step
  <2>3. g = [n \in Nat |-> g[n]]
    BY <2>1
  <2>4. QED  BY <2>1, <2>2, <2>3
<1>7. all = F(all)
  <2>1. \E u : u = F(u)
    BY <1>6
  <2> HIDE DEF F
  <2>2. QED  BY <2>1
<1> HIDE DEF all
<1>8. \A n \in Nat : all[n] = IF n = 0 THEN first ELSE Twice(all[n - 1])
  <2>1. \A n \in Nat : F(all)[n] = IF n = 0 THEN first ELSE Twice(all[n - 1])
    OBVIOUS
  <2> HIDE DEF F
  <2>2. QED  BY <1>7, <2>1
<1> DEFINE Good == { n \in Nat : AllOf(all[n], n) }
<1>9. 0 \in Good
  <2>1. all[0] = first
    BY <1>8
  <2> DEFINE N == SignsAt(0)
             e == <<>>
  <2>2. e \in N /\ \A s \in N : s = e
    BY DEF SignsAt
  <2> HIDE DEF N, e
  <2>3. <<e>> \in Seq(N) /\ Range(<<e>>) = N /\ IsInjective(<<e>>)
    BY <2>2 DEF Range, IsInjective
  <2>4. AllOf(first, 0)
    BY <2>3 DEF AllOf, Lists, N, e
  <2>5. QED  BY <2>1, <2>4
<1>10. ASSUME NEW n \in 0 .. k - 1, n \in Good PROVE n + 1 \in Good
  <2>1. n \in Nat /\ n + 1 \in Nat /\ n + 1 # 0 /\ (n + 1) - 1 = n
    OBVIOUS
  <2>2. all[n + 1] = Twice(all[n])
    BY <1>8, <2>1
  <2>3. AllOf(all[n], n)
    BY <1>10
  <2>4. AllOf(With(all[n], 0) \o With(all[n], 1), n + 1)
    BY <2>1, <2>3, Doubled
  <2>5. AllOf(all[n + 1], n + 1)
    BY <1>2, <2>2, <2>4
  <2>6. QED  BY <2>1, <2>5
<1>11. k \in Good
  <2> HIDE DEF Good
  <2>1. \A n \in 0 .. k : n \in Good
    BY <1>9, <1>10, Upward
  <2>2. QED  BY <2>1
<1>12. QED  BY <1>1, <1>11

-----------------------------------------------------------------------------
(* How far threads are in their ranges of n items.                         *)
Progress(at, end, n) ==
  /\ at \in [Thread -> Nat] /\ end = AtEnd(n)
  /\ \A id \in Thread : Start(id, n, ThreadNum) <= at[id] /\ at[id] <= end[id]

DoneBy(at, id, n) == Start(id, n, ThreadNum) .. at[id] - 1

(* What a thread has done is in its range, so that no other thread has     *)
(* done it, and together they come to do everything.                       *)
LEMMA ProgressIs ==
  ASSUME NEW n \in Nat, NEW at, NEW end, Progress(at, end, n)
  PROVE  /\ \A id \in Thread : DoneBy(at, id, n) \subseteq 0 .. n - 1
         /\ \A i, j \in Thread : i # j => DoneBy(at, i, n) \cap DoneBy(at, j, n) = {}
         /\ (\A id \in Thread : ~(at[id] < end[id]))
              => UNION { DoneBy(at, id, n) : id \in Thread } = 0 .. n - 1
<1> DEFINE R(id) == RangeOf(id, n, ThreadNum)
           D(id) == DoneBy(at, id, n)
<1>1. /\ ThreadNum \in Nat \ {0} /\ Thread = 0 .. ThreadNum - 1
  BY ThreadRanges DEF Thread
<1>2. /\ UNION { R(id) : id \in Thread } = 0 .. n - 1
      /\ \A i, j \in Thread : i # j => R(i) \cap R(j) = {}
  BY <1>1, RangesPartition
<1>3. ASSUME NEW id \in Thread
      PROVE  /\ Start(id, n, ThreadNum) \in Nat /\ Start(id + 1, n, ThreadNum) \in Nat
             /\ end[id] = Start(id + 1, n, ThreadNum) /\ at[id] \in Nat
             /\ Start(id, n, ThreadNum) <= at[id] /\ at[id] <= end[id]
  BY ThreadRanges DEF Progress
<1>4. ASSUME NEW id \in Thread
      PROVE  D(id) \subseteq R(id) /\ (~(at[id] < end[id]) => D(id) = R(id))
  BY <1>3 DEF RangeOf, DoneBy
<1> HIDE DEF R, D
<1>5. \A id \in Thread : D(id) \subseteq 0 .. n - 1
  BY <1>2, <1>4
<1>6. \A i, j \in Thread : i # j => D(i) \cap D(j) = {}
  BY <1>2, <1>4
<1>7. ASSUME \A id \in Thread : ~(at[id] < end[id])
      PROVE  UNION { D(id) : id \in Thread } = 0 .. n - 1
  <2>1. \A id \in Thread : D(id) = R(id)
    BY <1>4, <1>7
  <2>2. QED  BY <1>2, <2>1
<1>8. QED  BY <1>5, <1>6, <1>7 DEF D

(* One more done.                                                          *)
Advanced(at, more, end, id, n) ==
  /\ Progress(more, end, n)
  /\ at[id] \in 0 .. n - 1 /\ at[id] \notin DoneBy(at, id, n)
  /\ \A i \in Thread : DoneBy(more, i, n) = IF i = id THEN DoneBy(at, i, n) \cup {at[id]}
                                            ELSE DoneBy(at, i, n)

(* A thread that does an item has done that item more, and the others what *)
(* they had.                                                               *)
LEMMA ProgressStep ==
  ASSUME NEW n \in Nat, NEW at, NEW end, Progress(at, end, n), NEW id \in Thread,
         at[id] < end[id], NEW more, more = [at EXCEPT ![id] = @ + 1]
  PROVE  Advanced(at, more, end, id, n)
<1>1. ASSUME NEW i \in Thread
      PROVE  /\ Start(i, n, ThreadNum) \in Nat /\ Start(i + 1, n, ThreadNum) \in Nat
             /\ end[i] = Start(i + 1, n, ThreadNum) /\ at[i] \in Nat
             /\ Start(i, n, ThreadNum) <= at[i] /\ at[i] <= end[i]
             /\ Start(i + 1, n, ThreadNum) <= n
  BY ThreadRanges, InRange DEF Progress
<1>2. at \in [Thread -> Nat] /\ end = AtEnd(n)
  BY DEF Progress
<1>3. more \in [Thread -> Nat]
  BY <1>2
<1>4. ASSUME NEW i \in Thread
      PROVE  /\ Start(i, n, ThreadNum) <= more[i] /\ more[i] <= end[i]
             /\ DoneBy(more, i, n) = IF i = id THEN DoneBy(at, i, n) \cup {at[id]}
                                     ELSE DoneBy(at, i, n)
  <2>1. CASE i = id
    <3>1. more[i] = at[i] + 1 /\ at[i] < end[i]
      BY <1>2, <2>1
    <3>2. QED  BY <1>1, <2>1, <3>1 DEF DoneBy
  <2>2. CASE i # id
    <3>1. more[i] = at[i]
      BY <1>2, <2>2
    <3>2. QED  BY <1>1, <2>2, <3>1 DEF DoneBy
  <2>3. QED  BY <2>1, <2>2
<1>5. Progress(more, end, n)
  BY <1>2, <1>3, <1>4 DEF Progress
<1>6. at[id] \in 0 .. n - 1 /\ at[id] \notin DoneBy(at, id, n)
  BY <1>1 DEF DoneBy
<1>7. QED  BY <1>4, <1>5, <1>6 DEF Advanced

(* In the beginning no thread has done an item.                            *)
LEMMA ProgressBegins ==
  ASSUME NEW n \in Nat
  PROVE  /\ Progress(AtStart(n), AtEnd(n), n)
         /\ \A id \in Thread : DoneBy(AtStart(n), id, n) = {}
<1>1. ASSUME NEW id \in Thread
      PROVE  /\ Start(id, n, ThreadNum) \in Nat
             /\ AtStart(n)[id] = Start(id, n, ThreadNum)
             /\ AtEnd(n)[id] = Start(id + 1, n, ThreadNum)
             /\ Start(id, n, ThreadNum) <= Start(id + 1, n, ThreadNum)
             /\ Start(id + 1, n, ThreadNum) \in Nat
  BY ThreadRanges
<1>2. AtStart(n) \in [Thread -> Nat]
  <2>1. AtStart(n) = [id \in Thread |-> AtStart(n)[id]]
    BY DEF AtStart
  <2>2. QED  BY <1>1, <2>1
<1>3. QED  BY <1>1, <1>2 DEF Progress, DoneBy

-----------------------------------------------------------------------------
(* What a phase of restart makes of the combination of a number: the cells *)
(* that are written for it, the bits that are set, the tuples that are     *)
(* found.                                                                  *)
Few(m) == Decode(m, Strength - 1, NumVar)
All(m) == Decode(m, Strength, NumVar)

CellsFor(s, m) ==
  { CellOf(Few(m), Signs(row, Few(m)), last) : row \in Range(s.old), last \in Bit }

BitsFor(s, m) ==
  { <<CellOf(Few(m), Signs(row, Few(m)), row[v]), v>> : row \in Range(s.old), v \in Var }

FewNumber == nCr[NumVar][Strength - 1]
AllNumber == nCr[NumVar][Strength]

AllBits(s) == UNION { BitsFor(s, m) : m \in 0 .. FewNumber - 1 }

MissingAt(s, cols) ==
  { bits \in SignsAt(Strength) : BitOf(cols, bits) \in KnownBits(s) /\ BitOf(cols, bits) \notin AllBits(s) }

FoundFor(s, m) == { TupleAt(All(m), bits) : bits \in MissingAt(s, All(m)) }

(* The numbers of the items stand for the combinations, each for one.      *)
LEMMA NumbersAre ==
  /\ FewNumber \in Nat /\ AllNumber \in Nat
  /\ \A m \in 0 .. FewNumber - 1 : Few(m) \in FewColumns
  /\ \A m, n \in 0 .. FewNumber - 1 : Few(m) = Few(n) => m = n
  /\ \A cols \in FewColumns : \E m \in 0 .. FewNumber - 1 : Few(m) = cols
  /\ \A m \in 0 .. AllNumber - 1 : All(m) \in AllColumns
  /\ \A m, n \in 0 .. AllNumber - 1 : All(m) = All(n) => m = n
  /\ \A cols \in AllColumns : \E m \in 0 .. AllNumber - 1 : All(m) = cols
<1>1. FewNumber \in Nat /\ AllNumber \in Nat
  BY Widths, Edges DEF FewNumber, AllNumber
<1>2. /\ \A m \in 0 .. FewNumber - 1 : Few(m) \in FewColumns
      /\ \A m, n \in 0 .. FewNumber - 1 : Few(m) = Few(n) => m = n
      /\ \A cols \in FewColumns : \E m \in 0 .. FewNumber - 1 : Few(m) = cols
  <2> DEFINE k == Strength - 1
  <2>1. NumVar \in Nat /\ k \in 1 .. NumVar
    BY Widths
  <2> HIDE DEF k
  <2>2. /\ \A m \in 0 .. nCr[NumVar][k] - 1 : Decode(m, k, NumVar) \in Combinations(k, NumVar)
        /\ \A m, n \in 0 .. nCr[NumVar][k] - 1 : Decode(m, k, NumVar) = Decode(n, k, NumVar) => m = n
        /\ \A col \in Combinations(k, NumVar) :
             \E m \in 0 .. nCr[NumVar][k] - 1 : Decode(m, k, NumVar) = col
    BY <2>1, DecodeBijective
  <2>3. QED  BY <2>2 DEF k, Few, FewNumber, FewColumns
<1>3. /\ \A m \in 0 .. AllNumber - 1 : All(m) \in AllColumns
      /\ \A m, n \in 0 .. AllNumber - 1 : All(m) = All(n) => m = n
      /\ \A cols \in AllColumns : \E m \in 0 .. AllNumber - 1 : All(m) = cols
  <2> DEFINE k == Strength
  <2>1. NumVar \in Nat /\ k \in 1 .. NumVar
    BY Widths
  <2> HIDE DEF k
  <2>2. /\ \A m \in 0 .. nCr[NumVar][k] - 1 : Decode(m, k, NumVar) \in Combinations(k, NumVar)
        /\ \A m, n \in 0 .. nCr[NumVar][k] - 1 : Decode(m, k, NumVar) = Decode(n, k, NumVar) => m = n
        /\ \A col \in Combinations(k, NumVar) :
             \E m \in 0 .. nCr[NumVar][k] - 1 : Decode(m, k, NumVar) = col
    BY <2>1, DecodeBijective
  <2>3. QED  BY <2>2 DEF k, All, AllNumber, AllColumns
<1>4. QED  BY <1>1, <1>2, <1>3

(* The signs of a row at some columns.                                     *)
LEMMA SignsAre ==
  ASSUME NEW row \in Assignment
  PROVE  /\ \A cols \in FewColumns : /\ Signs(row, cols) \in SignsAt(Strength - 1)
                                     /\ \A i \in 1 .. Strength - 1 : Signs(row, cols)[i] = row[cols[i] + 1]
         /\ \A cols \in AllColumns : /\ Signs(row, cols) \in SignsAt(Strength)
                                     /\ \A i \in 1 .. Strength : Signs(row, cols)[i] = row[cols[i] + 1]
<1>1. ASSUME NEW k \in Nat, NEW cols \in Combinations(k, NumVar)
      PROVE  /\ Signs(row, cols) \in [1 .. k -> Bit]
             /\ \A i \in 1 .. k : Signs(row, cols)[i] = row[cols[i] + 1]
  <2>1. cols \in [1 .. k -> 0 .. NumVar - 1] /\ NumVar \in Nat
    BY Widths DEF Combinations
  <2>2. \A i \in 1 .. k : cols[i] + 1 \in Var
    BY <2>1 DEF Var
  <2>3. row \in [Var -> Bit]
    BY DEF Assignment
  <2>4. Signs(row, cols) = [i \in 1 .. k |-> row[cols[i] + 1]]
    BY <2>1 DEF Signs
  <2>5. QED  BY <2>2, <2>3, <2>4
<1>2. Strength \in Nat /\ Strength - 1 \in Nat
  BY Widths
<1>3. \A cols \in AllColumns : /\ Signs(row, cols) \in SignsAt(Strength)
                               /\ \A i \in 1 .. Strength : Signs(row, cols)[i] = row[cols[i] + 1]
  BY <1>1, <1>2 DEF AllColumns, SignsAt
<1> DEFINE m == Strength - 1
<1>4. \A cols \in FewColumns : /\ Signs(row, cols) \in SignsAt(m)
                               /\ \A i \in 1 .. m : Signs(row, cols)[i] = row[cols[i] + 1]
  <2> HIDE DEF m
  <2>1. FewColumns = Combinations(m, NumVar) /\ m \in Nat
    BY <1>2 DEF FewColumns, m
  <2>2. QED  BY <1>1, <2>1 DEF SignsAt
<1>5. QED  BY <1>3, <1>4

(* Threads write different cells for different combinations.               *)
LEMMA CellsApart ==
  ASSUME NEW s \in Starts, NEW m \in 0 .. FewNumber - 1, NEW n \in 0 .. FewNumber - 1, m # n
  PROVE  CellsFor(s, m) \cap CellsFor(s, n) = {}
<1> SUFFICES ASSUME NEW x, x \in CellsFor(s, m), x \in CellsFor(s, n) PROVE FALSE
  OBVIOUS
<1>1. PICK row \in Range(s.old), last \in Bit : x = CellOf(Few(m), Signs(row, Few(m)), last)
  BY DEF CellsFor
<1>2. PICK row2 \in Range(s.old), last2 \in Bit : x = CellOf(Few(n), Signs(row2, Few(n)), last2)
  BY DEF CellsFor
<1>3. Few(m) \in FewColumns /\ Few(n) \in FewColumns
  BY NumbersAre
<1>4. row \in Assignment /\ row2 \in Assignment
  <2>1. s.old \in Seq(Assignment)
    BY BookkeepingAssumption
  <2>2. QED  BY <2>1 DEF Range
<1>5. Signs(row, Few(m)) \in SignsAt(Strength - 1) /\ Signs(row2, Few(n)) \in SignsAt(Strength - 1)
  BY <1>3, <1>4, SignsAre
<1>6. Few(m) = Few(n)
  <2> DEFINE p == Few(m)
             q == Few(n)
             b == Signs(row, p)
             c == Signs(row2, q)
  <2>1. /\ p \in FewColumns /\ q \in FewColumns /\ b \in SignsAt(Strength - 1)
        /\ c \in SignsAt(Strength - 1) /\ last \in Bit /\ last2 \in Bit
        /\ CellOf(p, b, last) = CellOf(q, c, last2)
    BY <1>1, <1>2, <1>3, <1>5
  <2> HIDE DEF p, q, b, c
  <2>2. p = q
    BY <2>1, CellOnce
  <2>3. QED  BY <2>2 DEF p, q
<1>7. QED  BY <1>6, NumbersAre

(* A tuple has its bit set among those of the rows of the strength before  *)
(* exactly if one of these rows covers it.                                 *)
LEMMA BitCovered ==
  ASSUME NEW s \in Starts, NEW cols \in AllColumns, NEW bits \in SignsAt(Strength)
  PROVE  BitOf(cols, bits) \in AllBits(s) <=> CoveredBy(s.old, TupleAt(cols, bits))
<1> DEFINE k == Strength
           m == Strength - 1
           p == SubSeq(cols, 1, m)
           b == SubSeq(bits, 1, m)
           t == TupleAt(cols, bits)
<1>1. /\ p \in FewColumns /\ b \in SignsAt(m)
      /\ p = [i \in 1 .. m |-> cols[i]] /\ b = [i \in 1 .. m |-> bits[i]]
      /\ Len(cols) = k /\ bits[k] \in Bit /\ cols[k] \in Nat
  BY FewOf
<1>2. BitOf(cols, bits) = <<CellOf(p, b, bits[k]), cols[k] + 1>>
  BY <1>1 DEF BitOf
<1>3. /\ DOMAIN t = { cols[i] + 1 : i \in 1 .. k } /\ t \in Tuple
      /\ \A i \in 1 .. k : t[cols[i] + 1] = bits[i]
  BY TupleAtIs
<1>4. k \in Nat /\ m = k - 1 /\ k >= 2 /\ \A i \in 1 .. k : i = k \/ i \in 1 .. m
  BY Widths
<1>5. \A row \in Range(s.old) : row \in Assignment
  <2>1. s.old \in Seq(Assignment)
    BY BookkeepingAssumption
  <2>2. QED  BY <2>1 DEF Range
<1>6. cols[k] + 1 \in Var
  <2>1. cols \in [1 .. k -> 0 .. NumVar - 1] /\ NumVar \in Nat
    BY Widths DEF AllColumns, Combinations
  <2>2. cols[k] \in 0 .. NumVar - 1
    BY <1>4, <2>1
  <2>3. QED  BY <2>1, <2>2 DEF Var
<1>7. b \in [1 .. m -> Bit]
  BY <1>1 DEF SignsAt
<1>8. ASSUME NEW row \in Assignment
      PROVE  Covers(row, t) <=> Signs(row, p) = b /\ row[cols[k] + 1] = bits[k]
  <2>1. /\ Signs(row, p) \in SignsAt(m)
        /\ \A i \in 1 .. m : Signs(row, p)[i] = row[p[i] + 1]
    BY <1>1, SignsAre
  <2> DEFINE c == Signs(row, p)
  <2>2. c \in [1 .. m -> Bit]
    BY <2>1 DEF SignsAt
  <2>3. \A i \in 1 .. m : c[i] = row[p[i] + 1]
    BY <2>1
  <2> HIDE DEF c
  <2>4. \A i \in 1 .. m : p[i] = cols[i] /\ b[i] = bits[i]
    <3> HIDE DEF p, b
    <3>1. QED  BY <1>1
  <2> HIDE DEF p, b, t, m, k
  <2>5. ASSUME Covers(row, t) PROVE c = b /\ row[cols[k] + 1] = bits[k]
    <3>1. \A i \in 1 .. k : row[cols[i] + 1] = bits[i]
      <4> SUFFICES ASSUME NEW i \in 1 .. k PROVE row[cols[i] + 1] = bits[i]
        OBVIOUS
      <4> DEFINE v == cols[i] + 1
      <4>1. v \in DOMAIN t /\ t[v] = bits[i]
        BY <1>3
      <4> HIDE DEF v
      <4>2. row[v] = bits[i]
        BY <2>5, <4>1 DEF Covers
      <4>3. QED  BY <4>2 DEF v
    <3>2. \A i \in 1 .. m : c[i] = b[i]
      <4>1. \A i \in 1 .. m : i \in 1 .. k
        BY <1>4
      <4>2. QED  BY <2>3, <2>4, <3>1, <4>1
    <3>3. c = b
      <4>1. c = [i \in 1 .. m |-> c[i]] /\ b = [i \in 1 .. m |-> b[i]]
        BY <1>7, <2>2
      <4>2. QED  BY <3>2, <4>1
    <3>4. k \in 1 .. k
      BY <1>4
    <3>5. QED  BY <3>1, <3>3, <3>4
  <2>6. ASSUME c = b, row[cols[k] + 1] = bits[k] PROVE Covers(row, t)
    <3>1. \A i \in 1 .. k : row[cols[i] + 1] = bits[i]
      <4>1. ASSUME NEW i \in 1 .. m PROVE row[cols[i] + 1] = bits[i]
        BY <2>3, <2>4, <2>6
      <4>2. QED  BY <1>4, <2>6, <4>1
    <3>2. QED  BY <1>3, <3>1 DEF Covers
  <2>7. QED  BY <2>5, <2>6 DEF c
<1>9. ASSUME CoveredBy(s.old, t) PROVE BitOf(cols, bits) \in AllBits(s)
  <2>1. PICK j \in DOMAIN s.old : Covers(s.old[j], t)
    BY <1>9 DEF CoveredBy
  <2> DEFINE row == s.old[j]
  <2>2. row \in Range(s.old)
    BY DEF Range
  <2> HIDE DEF row
  <2>3. Signs(row, p) = b /\ row[cols[k] + 1] = bits[k]
    BY <1>5, <1>8, <2>1, <2>2 DEF row
  <2>4. PICK x \in 0 .. FewNumber - 1 : Few(x) = p
    BY <1>1, NumbersAre
  <2> DEFINE v == cols[k] + 1
  <2>5. <<CellOf(Few(x), Signs(row, Few(x)), row[v]), v>> \in BitsFor(s, x)
    <3>1. v \in Var
      BY <1>6
    <3> HIDE DEF v
    <3>2. QED  BY <2>2, <3>1 DEF BitsFor
  <2>6. BitOf(cols, bits) = <<CellOf(Few(x), Signs(row, Few(x)), row[v]), v>>
    BY <1>2, <2>3, <2>4
  <2>7. QED  BY <2>5, <2>6 DEF AllBits
<1>10. ASSUME BitOf(cols, bits) \in AllBits(s) PROVE CoveredBy(s.old, t)
  <2>1. PICK x \in 0 .. FewNumber - 1 : BitOf(cols, bits) \in BitsFor(s, x)
    BY <1>10 DEF AllBits
  <2>2. PICK row \in Range(s.old), v \in Var :
          BitOf(cols, bits) = <<CellOf(Few(x), Signs(row, Few(x)), row[v]), v>>
    BY <2>1 DEF BitsFor
  <2> DEFINE q == Few(x)
             c == Signs(row, q)
             e == row[v]
             f == bits[k]
             g == CellOf(q, c, e)
             h == CellOf(p, b, f)
             u == cols[k] + 1
  <2>3. <<g, v>> = <<h, u>>
    BY <1>2, <2>2
  <2>4. row \in Assignment /\ q \in FewColumns
    BY <1>5, <2>1, NumbersAre
  <2>5. c \in SignsAt(m)
    BY <2>4, SignsAre
  <2>6. e \in Bit /\ f \in Bit
    BY <1>1, <2>4 DEF Assignment
  <2>7. g = h /\ v = u
    <3> HIDE DEF g, h, u
    <3>1. QED  BY <2>3
  <2>8. q = p /\ c = b /\ e = f
    <3>1. p \in FewColumns /\ b \in SignsAt(m) /\ CellOf(q, c, e) = CellOf(p, b, f)
      BY <1>1, <2>7
    <3> HIDE DEF q, c, e, f, p, b
    <3>2. QED  BY <2>4, <2>5, <2>6, <3>1, CellOnce DEF m
  <2>9. Signs(row, p) = b /\ row[cols[k] + 1] = bits[k]
    BY <2>7, <2>8
  <2>10. Covers(row, t)
    BY <1>8, <2>4, <2>9
  <2>11. PICK j \in DOMAIN s.old : row = s.old[j]
    BY DEF Range
  <2>12. QED  BY <2>10, <2>11 DEF CoveredBy
<1>11. QED  BY <1>9, <1>10

(* ... and a bit in the bitmap exactly if the bitmap knows it.             *)
LEMMA BitKnown ==
  ASSUME NEW s \in Starts, NEW cols \in AllColumns, NEW bits \in SignsAt(Strength)
  PROVE  BitOf(cols, bits) \in KnownBits(s) <=> TupleAt(cols, bits) \in s.known
<1> DEFINE t == TupleAt(cols, bits)
<1>1. t \in Tuple
  BY TupleAtIs
<1>2. ASSUME NEW r \in Tuple
      PROVE  /\ ColumnsOf(r) \in AllColumns /\ Signs(r, ColumnsOf(r)) \in SignsAt(Strength)
             /\ TupleAt(ColumnsOf(r), Signs(r, ColumnsOf(r))) = r
  BY ColumnsOfIs
<1>3. s.known \subseteq Tuple
  BY BookkeepingAssumption
<1>4. ASSUME t \in s.known PROVE BitOf(cols, bits) \in KnownBits(s)
  <2> DEFINE c == ColumnsOf(t)
             b == Signs(t, c)
  <2>1. c \in AllColumns /\ b \in SignsAt(Strength) /\ TupleAt(c, b) = t
    BY <1>1, <1>2
  <2>2. c = cols /\ b = bits
    <3>1. TupleAt(c, b) = TupleAt(cols, bits)
      BY <2>1
    <3> HIDE DEF c, b, t
    <3>2. QED  BY <2>1, <3>1, TupleAtOnce
  <2>3. BitOf(c, b) \in KnownBits(s)
    BY <1>4 DEF KnownBits
  <2>4. QED  BY <2>2, <2>3
<1>5. ASSUME BitOf(cols, bits) \in KnownBits(s) PROVE t \in s.known
  <2>1. PICK r \in s.known : BitOf(cols, bits) = BitOf(ColumnsOf(r), Signs(r, ColumnsOf(r)))
    BY <1>5 DEF KnownBits
  <2> DEFINE c == ColumnsOf(r)
             b == Signs(r, c)
  <2>2. c \in AllColumns /\ b \in SignsAt(Strength) /\ TupleAt(c, b) = r
    BY <1>2, <1>3
  <2>3. c = cols /\ b = bits
    <3>1. BitOf(cols, bits) = BitOf(c, b)
      BY <2>1
    <3> HIDE DEF c, b
    <3>2. QED  BY <2>2, <3>1, BitOnce
  <2>4. QED  BY <2>2, <2>3
<1>6. QED  BY <1>4, <1>5

(* What is found for all combinations together.                            *)
Target(s) == { t \in s.known : ~CoveredBy(s.old, t) }

(* All combinations together give the tuples that restart is to find.      *)
LEMMA FoundIs ==
  ASSUME NEW s \in Starts
  PROVE  UNION { FoundFor(s, m) : m \in 0 .. AllNumber - 1 } = Target(s)
<1>1. ASSUME NEW m \in 0 .. AllNumber - 1, NEW t \in FoundFor(s, m)
      PROVE  t \in Target(s)
  <2>1. PICK bits \in MissingAt(s, All(m)) : t = TupleAt(All(m), bits)
    BY DEF FoundFor
  <2> DEFINE c == All(m)
  <2>2. c \in AllColumns
    BY NumbersAre
  <2>3. bits \in SignsAt(Strength) /\ BitOf(c, bits) \in KnownBits(s) /\ BitOf(c, bits) \notin AllBits(s)
    BY <2>1 DEF MissingAt
  <2> HIDE DEF c
  <2>4. TupleAt(c, bits) \in s.known /\ ~CoveredBy(s.old, TupleAt(c, bits))
    BY <2>2, <2>3, BitKnown, BitCovered
  <2>5. QED  BY <2>1, <2>4 DEF Target, c
<1>2. ASSUME NEW t \in Target(s)
      PROVE  \E m \in 0 .. AllNumber - 1 : t \in FoundFor(s, m)
  <2>1. t \in Tuple /\ t \in s.known /\ ~CoveredBy(s.old, t)
    BY BookkeepingAssumption DEF Target
  <2> DEFINE c == ColumnsOf(t)
             b == Signs(t, c)
  <2>2. c \in AllColumns /\ b \in SignsAt(Strength) /\ TupleAt(c, b) = t
    BY <2>1, ColumnsOfIs
  <2> HIDE DEF c, b
  <2>3. BitOf(c, b) \in KnownBits(s) /\ BitOf(c, b) \notin AllBits(s)
    BY <2>1, <2>2, BitKnown, BitCovered
  <2>4. PICK m \in 0 .. AllNumber - 1 : All(m) = c
    BY <2>2, NumbersAre
  <2>5. b \in MissingAt(s, All(m)) /\ t = TupleAt(All(m), b)
    BY <2>2, <2>3, <2>4 DEF MissingAt
  <2>6. QED  BY <2>5 DEF FoundFor
<1>3. QED  BY <1>1, <1>2

(* Tuples of different combinations differ.                                *)
LEMMA FoundApart ==
  ASSUME NEW s, NEW m \in 0 .. AllNumber - 1, NEW n \in 0 .. AllNumber - 1, m # n
  PROVE  FoundFor(s, m) \cap FoundFor(s, n) = {}
<1> SUFFICES ASSUME NEW t, t \in FoundFor(s, m), t \in FoundFor(s, n) PROVE FALSE
  OBVIOUS
<1> DEFINE p == All(m)
           q == All(n)
<1>1. PICK b \in MissingAt(s, p) : t = TupleAt(p, b)
  BY DEF FoundFor
<1>2. PICK c \in MissingAt(s, q) : t = TupleAt(q, c)
  BY DEF FoundFor
<1>3. /\ p \in AllColumns /\ q \in AllColumns /\ b \in SignsAt(Strength) /\ c \in SignsAt(Strength)
      /\ TupleAt(p, b) = TupleAt(q, c)
  BY <1>1, <1>2, NumbersAre DEF MissingAt
<1>4. p = q
  <2> HIDE DEF p, q
  <2>1. QED  BY <1>3, TupleAtOnce
<1>5. QED  BY <1>4, NumbersAre

(* What a thread finds for a combination.                                  *)
FoundList(s, m) ==
  LET mine == Kept(AllSigns[Strength], MissingAt(s, All(m)))
  IN [j \in DOMAIN mine |-> TupleAt(All(m), mine[j])]

(* What a thread finds for one combination is listed without repetitions.  *)
LEMMA FoundListIs ==
  ASSUME NEW s \in Starts, NEW m \in 0 .. AllNumber - 1
  PROVE  FoundList(s, m) \in Seq(Tuple) /\ Lists(FoundList(s, m), FoundFor(s, m))
<1> DEFINE c == All(m)
           M == MissingAt(s, c)
           S == SignsAt(Strength)
           mine == Kept(AllSigns[Strength], M)
           list == [j \in DOMAIN mine |-> TupleAt(c, mine[j])]
<1>1. c \in AllColumns /\ Strength \in Nat
  BY NumbersAre, Widths
<1>2. M \subseteq S
  BY DEF MissingAt
<1> DEFINE signs == AllSigns[Strength]
<1>3. signs \in Seq(S) /\ IsInjective(signs) /\ Range(signs) = S
  BY <1>1, AllSignsIs DEF AllOf, Lists
<1>4. mine \in Seq(S) /\ Range(mine) = M /\ IsInjective(mine)
  <2>1. mine = Kept(signs, M)
    OBVIOUS
  <2> HIDE DEF mine, signs, M, S
  <2>2. Kept(signs, M) \in Seq(S) /\ Range(Kept(signs, M)) = Range(signs) \cap M
        /\ (IsInjective(signs) => IsInjective(Kept(signs, M)))
    BY <1>3, KeptIs
  <2>3. QED  BY <1>2, <1>3, <2>1, <2>2
<1> HIDE DEF M, S, signs
<1> HIDE DEF mine, c
<1>5. DOMAIN mine = 1 .. Len(mine) /\ Len(mine) \in Nat /\ \A j \in DOMAIN mine : mine[j] \in S
  BY <1>4
<1>6. list \in Seq(Tuple)
  <2>1. \A b \in S : TupleAt(c, b) \in Tuple
    BY <1>1, TupleAtIs DEF S
  <2>2. QED  BY <1>5, <2>1
<1>7. IsInjective(list)
  <2>1. ASSUME NEW i \in DOMAIN mine, NEW j \in DOMAIN mine, TupleAt(c, mine[i]) = TupleAt(c, mine[j])
        PROVE  i = j
    <3>1. mine[i] = mine[j]
      BY <1>1, <1>5, <2>1, TupleAtOnce DEF S
    <3>2. QED  BY <1>4, <3>1 DEF IsInjective
  <2>2. QED  BY <2>1 DEF IsInjective
<1>8. Range(list) = { TupleAt(c, b) : b \in M }
  BY <1>4 DEF Range
<1>9. QED  BY <1>6, <1>7, <1>8 DEF FoundList, Lists, FoundFor, mine, M, c

-----------------------------------------------------------------------------
(* What holds while threads are at work: the fields of a phase, and for    *)
(* each thread what it has made of the numbers it has done.                *)
JobFields == {"start", "at", "end", "col", "covered", "found", "rowsOf", "tuplesOf", "wrote"}

DoneByAll(at, n) == UNION { DoneBy(at, id, n) : id \in Thread }

CellsBy(s, at, id) == UNION { CellsFor(s, m) : m \in DoneBy(at, id, FewNumber) }
BitsBy(s, at) == UNION { BitsFor(s, m) : m \in DoneByAll(at, FewNumber) }
FoundBy(s, at, id) == UNION { FoundFor(s, m) : m \in DoneBy(at, id, AllNumber) }

Covering(b, j) ==
  /\ JobFields \subseteq DOMAIN j /\ j.start \in Starts
  /\ b = Cleared(<<>>, j.start.rows)
  /\ Progress(j.at, j.end, FewNumber)
  /\ j.wrote = [id \in Thread |-> CellsBy(j.start, j.at, id)]
  /\ j.covered = BitsBy(j.start, j.at)

Collecting(b, j) ==
  /\ JobFields \subseteq DOMAIN j /\ j.start \in Starts
  /\ b = Cleared(<<>>, j.start.rows)
  /\ Progress(j.at, j.end, AllNumber)
  /\ j.wrote = [id \in Thread |-> {}]
  /\ j.covered = AllBits(j.start)
  /\ j.found \in [Thread -> Seq(Tuple)]
  /\ \A id \in Thread : Lists(j.found[id], FoundBy(j.start, j.at, id))

(* What all threads have done after one of them has gone on.               *)
LEMMA DoneMore ==
  ASSUME NEW n \in Nat, NEW at, NEW more, NEW end, NEW id \in Thread, Advanced(at, more, end, id, n)
  PROVE  DoneByAll(more, n) = DoneByAll(at, n) \cup {at[id]}
<1>1. \A i \in Thread : DoneBy(more, i, n) = IF i = id THEN DoneBy(at, i, n) \cup {at[id]}
                                            ELSE DoneBy(at, i, n)
  BY DEF Advanced
<1> DEFINE D(i) == DoneBy(at, i, n)
           E(i) == DoneBy(more, i, n)
<1>2. \A i \in Thread : E(i) = IF i = id THEN D(i) \cup {at[id]} ELSE D(i)
  BY <1>1
<1> HIDE DEF D, E
<1>3. UNION { E(i) : i \in Thread } = (UNION { D(i) : i \in Thread }) \cup {at[id]}
  BY <1>2
<1>4. QED  BY <1>3 DEF DoneByAll, D, E

(* restart begins.                                                         *)
LEMMA CoverBegins ==
  ASSUME NEW s \in Starts
  PROVE  Covering(Cleared(<<>>, s.rows), CoverPhase(s))
<1> DEFINE j == CoverPhase(s)
           n == FewNumber
<1>1. /\ JobFields \subseteq DOMAIN j /\ j.start = s /\ j.at = AtStart(n) /\ j.end = AtEnd(n)
      /\ j.covered = {} /\ j.wrote = [id \in Thread |-> {}]
  BY DEF CoverPhase, FewNumber, Phase, JobFields
<1>2. n \in Nat
  BY NumbersAre
<1> HIDE DEF j, n
<1>3. Progress(j.at, j.end, n) /\ \A id \in Thread : DoneBy(j.at, id, n) = {}
  BY <1>1, <1>2, ProgressBegins
<1>4. DoneByAll(j.at, n) = {}
  BY <1>3 DEF DoneByAll
<1>5. j.wrote = [id \in Thread |-> CellsBy(j.start, j.at, id)]
  <2>1. \A id \in Thread : CellsBy(j.start, j.at, id) = {}
    BY <1>3 DEF CellsBy, n
  <2>2. QED  BY <1>1, <2>1
<1>6. j.covered = BitsBy(j.start, j.at)
  BY <1>1, <1>4 DEF BitsBy, n
<1>7. QED  BY <1>1, <1>3, <1>5, <1>6 DEF Covering, j, n

(* A thread of the first loop goes on: the bits are those of all that is   *)
(* done.                                                                   *)
LEMMA CoverStep ==
  ASSUME NEW b, NEW j, Covering(b, j), NEW id \in Thread, j.at[id] < j.end[id],
         NEW cols, cols = Few(j.at[id]), NEW d,
         DOMAIN d = DOMAIN j, d.start = j.start, d.end = j.end,
         d.at = [j.at EXCEPT ![id] = @ + 1],
         d.covered = j.covered \cup { <<CellOf(cols, Signs(row, cols), row[v]), v>> :
                                        row \in Range(j.start.old), v \in Var },
         d.wrote = [j.wrote EXCEPT ![id] = @ \cup { CellOf(cols, Signs(row, cols), last) :
                                                     row \in Range(j.start.old), last \in Bit }]
  PROVE  Covering(b, d)
<1> DEFINE n == FewNumber
           s == j.start
           x == j.at[id]
           C(m) == CellsFor(s, m)
           B(m) == BitsFor(s, m)
           U(i) == CellsBy(s, j.at, i)
           W(i) == CellsBy(s, d.at, i)
<1>1. n \in Nat /\ Progress(j.at, j.end, n)
  BY NumbersAre DEF Covering
<1>2. Advanced(j.at, d.at, j.end, id, n)
  <2> HIDE DEF n
  <2>1. QED  BY <1>1, ProgressStep
<1>3. Progress(d.at, d.end, n) /\ DoneByAll(d.at, n) = DoneByAll(j.at, n) \cup {x}
  <2> HIDE DEF n
  <2>1. Progress(d.at, d.end, n)
    BY <1>2 DEF Advanced
  <2>2. DoneByAll(d.at, n) = DoneByAll(j.at, n) \cup {j.at[id]}
    BY <1>1, <1>2, DoneMore
  <2>3. QED  BY <2>1, <2>2
<1>4. \A i \in Thread : DoneBy(d.at, i, n) = IF i = id THEN DoneBy(j.at, i, n) \cup {x}
                                             ELSE DoneBy(j.at, i, n)
  BY <1>2 DEF Advanced
<1>5. j.wrote = [i \in Thread |-> U(i)] /\ j.covered = BitsBy(s, j.at)
  BY DEF Covering
<1>6. d.wrote = [j.wrote EXCEPT ![id] = @ \cup C(x)] /\ d.covered = j.covered \cup B(x)
  BY DEF CellsFor, BitsFor
<1>7. /\ \A i \in Thread : U(i) = UNION { C(m) : m \in DoneBy(j.at, i, n) }
      /\ \A i \in Thread : W(i) = UNION { C(m) : m \in DoneBy(d.at, i, n) }
      /\ BitsBy(s, j.at) = UNION { B(m) : m \in DoneByAll(j.at, n) }
      /\ BitsBy(s, d.at) = UNION { B(m) : m \in DoneByAll(d.at, n) }
  BY DEF CellsBy, BitsBy
<1> HIDE DEF C, B, n, x, U, W
<1>7a. \A i \in Thread : W(i) = IF i = id THEN U(i) \cup C(x) ELSE U(i)
  <2> SUFFICES ASSUME NEW i \in Thread
               PROVE  W(i) = IF i = id THEN U(i) \cup C(x) ELSE U(i)
    OBVIOUS
  <2>1. CASE i = id
    <3>1. DoneBy(d.at, i, n) = DoneBy(j.at, i, n) \cup {x}
      BY <1>4, <2>1
    <3>2. (UNION { C(m) : m \in DoneBy(d.at, i, n) })
            = (UNION { C(m) : m \in DoneBy(j.at, i, n) }) \cup C(x)
      BY <3>1
    <3>3. QED  BY <1>7, <2>1, <3>2
  <2>2. CASE i # id
    BY <1>4, <1>7, <2>2
  <2>3. QED  BY <2>1, <2>2
<1>8. d.wrote = [i \in Thread |-> W(i)]
  <2> DEFINE f == j.wrote
             g == d.wrote
  <2>1. f = [i \in Thread |-> U(i)] /\ g = [f EXCEPT ![id] = f[id] \cup C(x)]
    BY <1>5, <1>6
  <2> HIDE DEF f, g
  <2>2. g = [i \in Thread |-> IF i = id THEN U(i) \cup C(x) ELSE U(i)]
    BY <2>1
  <2>3. g = [i \in Thread |-> W(i)]
    BY <1>7a, <2>2
  <2>4. QED  BY <2>3 DEF g
<1>9. d.covered = BitsBy(s, d.at)
  BY <1>3, <1>5, <1>6, <1>7
<1>10. JobFields \subseteq DOMAIN d /\ d.start \in Starts /\ b = Cleared(<<>>, d.start.rows)
  BY DEF Covering
<1>11. QED  BY <1>3, <1>8, <1>9, <1>10 DEF Covering, W, n

(* The first loop is done: the second starts with the bits of all the      *)
(* rows.                                                                   *)
LEMMA CoverEnds ==
  ASSUME NEW b, NEW j, Covering(b, j), \A id \in Thread : ~(j.at[id] < j.end[id])
  PROVE  Collecting(b, CollectPhase(j.start, j.covered))
<1> DEFINE d == CollectPhase(j.start, j.covered)
           n == AllNumber
<1>1. /\ JobFields \subseteq DOMAIN d /\ d.start = j.start /\ d.at = AtStart(n) /\ d.end = AtEnd(n)
      /\ d.covered = j.covered /\ d.found = Idle /\ d.wrote = [id \in Thread |-> {}]
  BY DEF CollectPhase, AllNumber, Phase, JobFields
<1>2. n \in Nat /\ FewNumber \in Nat
  BY NumbersAre
<1> HIDE DEF d, n
<1>3. Progress(d.at, d.end, n) /\ \A id \in Thread : DoneBy(d.at, id, n) = {}
  BY <1>1, <1>2, ProgressBegins
<1>4. d.covered = AllBits(d.start)
  <2>1. Progress(j.at, j.end, FewNumber)
    BY DEF Covering
  <2>2. DoneByAll(j.at, FewNumber) = 0 .. FewNumber - 1
    BY <1>2, <2>1, ProgressIs DEF DoneByAll
  <2>3. QED  BY <1>1, <2>2 DEF Covering, AllBits, BitsBy
<1>5. d.found \in [Thread -> Seq(Tuple)]
  BY <1>1 DEF Idle
<1>6. ASSUME NEW id \in Thread
      PROVE  Lists(d.found[id], FoundBy(d.start, d.at, id))
  <2>1. d.found[id] = <<>>
    BY <1>1 DEF Idle
  <2>2. FoundBy(d.start, d.at, id) = {}
    BY <1>3 DEF FoundBy, n
  <2>3. Lists(<<>>, {})
    BY DEF Lists, IsInjective, Range
  <2>4. QED  BY <2>1, <2>2, <2>3
<1>7. d.start \in Starts /\ b = Cleared(<<>>, d.start.rows)
  BY <1>1 DEF Covering
<1>8. QED  BY <1>1, <1>3, <1>4, <1>5, <1>6, <1>7 DEF Collecting, d, n

(* A thread of the second loop goes on.                                    *)
LEMMA CollectStep ==
  ASSUME NEW b, NEW j, Collecting(b, j), NEW id \in Thread, j.at[id] < j.end[id], NEW d,
         DOMAIN d = DOMAIN j, d.start = j.start, d.end = j.end, d.covered = j.covered,
         d.wrote = j.wrote, d.at = [j.at EXCEPT ![id] = @ + 1],
         d.found = [j.found EXCEPT ![id] = @ \o FoundList(j.start, j.at[id])]
  PROVE  Collecting(b, d)
<1> DEFINE n == AllNumber
           s == j.start
           x == j.at[id]
           F(m) == FoundFor(s, m)
           U(i) == FoundBy(s, j.at, i)
           W(i) == FoundBy(s, d.at, i)
           list == FoundList(s, x)
<1>1. n \in Nat /\ Progress(j.at, j.end, n) /\ s \in Starts
  BY NumbersAre DEF Collecting
<1>2. Advanced(j.at, d.at, j.end, id, n)
  <2> HIDE DEF n
  <2>1. QED  BY <1>1, ProgressStep
<1>3. /\ Progress(d.at, d.end, n) /\ x \in 0 .. n - 1 /\ x \notin DoneBy(j.at, id, n)
      /\ \A i \in Thread : DoneBy(d.at, i, n) = IF i = id THEN DoneBy(j.at, i, n) \cup {x}
                                                ELSE DoneBy(j.at, i, n)
  BY <1>2 DEF Advanced
<1>4. DoneBy(j.at, id, n) \subseteq 0 .. n - 1
  <2> HIDE DEF n
  <2>1. QED  BY <1>1, ProgressIs
<1>5. /\ j.found \in [Thread -> Seq(Tuple)]
      /\ \A i \in Thread : Lists(j.found[i], U(i))
  BY DEF Collecting
<1>6. list \in Seq(Tuple) /\ IsInjective(list) /\ Range(list) = F(x)
  <2>1. x \in 0 .. AllNumber - 1
    BY <1>3
  <2> HIDE DEF x, s
  <2>2. QED  BY <1>1, <2>1, FoundListIs DEF Lists
<1>6a. /\ \A i \in Thread : U(i) = UNION { F(m) : m \in DoneBy(j.at, i, n) }
       /\ \A i \in Thread : W(i) = UNION { F(m) : m \in DoneBy(d.at, i, n) }
  BY DEF FoundBy
<1>7. U(id) \cap F(x) = {}
  <2>1. ASSUME NEW m \in DoneBy(j.at, id, n) PROVE F(m) \cap F(x) = {}
    <3>1. m \in 0 .. AllNumber - 1 /\ x \in 0 .. AllNumber - 1 /\ m # x
      BY <1>3, <1>4
    <3> HIDE DEF x, s
    <3>2. QED  BY <3>1, FoundApart
  <2> HIDE DEF F, U
  <2>2. QED  BY <1>6a, <2>1
<1> HIDE DEF F, n, x, list, U, W
<1>8. \A i \in Thread : W(i) = IF i = id THEN U(i) \cup F(x) ELSE U(i)
  <2> SUFFICES ASSUME NEW i \in Thread
               PROVE  W(i) = IF i = id THEN U(i) \cup F(x) ELSE U(i)
    OBVIOUS
  <2>1. CASE i = id
    <3>1. DoneBy(d.at, i, n) = DoneBy(j.at, i, n) \cup {x}
      BY <1>3, <2>1
    <3>2. (UNION { F(m) : m \in DoneBy(d.at, i, n) })
            = (UNION { F(m) : m \in DoneBy(j.at, i, n) }) \cup F(x)
      BY <3>1
    <3>3. QED  BY <1>6a, <2>1, <3>2
  <2>2. CASE i # id
    BY <1>3, <1>6a, <2>2
  <2>3. QED  BY <2>1, <2>2
<1>9. /\ d.found \in [Thread -> Seq(Tuple)]
      /\ \A i \in Thread : d.found[i] = IF i = id THEN j.found[i] \o list ELSE j.found[i]
  <2>1. d.found = [j.found EXCEPT ![id] = @ \o list]
    BY DEF list, x
  <2> DEFINE f == j.found
             g == d.found
             S == Seq(Tuple)
  <2>2. f \in [Thread -> S] /\ g = [f EXCEPT ![id] = f[id] \o list]
    BY <1>5, <2>1
  <2>3. f[id] \o list \in S
    BY <1>5, <1>6
  <2> HIDE DEF f, g, S
  <2>4. g \in [Thread -> S] /\ \A i \in Thread : g[i] = IF i = id THEN f[i] \o list ELSE f[i]
    BY <2>2, <2>3
  <2>5. QED  BY <2>4 DEF f, g, S
<1>10. ASSUME NEW i \in Thread PROVE Lists(d.found[i], W(i))
  <2>1. CASE i = id
    <3> DEFINE a == j.found[i]
    <3>1. a \in Seq(Tuple) /\ IsInjective(a) /\ Range(a) = U(id)
      BY <1>5, <2>1 DEF Lists
    <3>2. d.found[i] = a \o list /\ W(i) = U(id) \cup F(x)
      BY <1>8, <1>9, <2>1
    <3> HIDE DEF a
    <3>3. /\ Range(a \o list) = Range(a) \cup Range(list)
          /\ IsInjective(a) /\ IsInjective(list) /\ Range(a) \cap Range(list) = {} => IsInjective(a \o list)
      BY <1>6, <3>1, ListConcat
    <3>4. QED  BY <1>6, <1>7, <3>1, <3>2, <3>3 DEF Lists
  <2>2. CASE i # id
    BY <1>5, <1>8, <1>9, <2>2
  <2>3. QED  BY <2>1, <2>2
<1>11. /\ JobFields \subseteq DOMAIN d /\ d.start \in Starts /\ b = Cleared(<<>>, d.start.rows)
       /\ d.wrote = [i \in Thread |-> {}] /\ d.covered = AllBits(d.start)
  BY DEF Collecting
<1>12. QED  BY <1>3, <1>9, <1>10, <1>11 DEF Collecting, W, n

(* What the threads have found together.                                   *)
LEMMA CollectEnds ==
  ASSUME NEW b, NEW j, Collecting(b, j), \A id \in Thread : ~(j.at[id] < j.end[id])
  PROVE  Joined(j.found) \in Seq(Tuple) /\ Lists(Joined(j.found), Target(j.start))
<1> DEFINE n == AllNumber
           F(m) == FoundFor(j.start, m)
           D(i) == DoneBy(j.at, i, n)
           found == j.found
<1>1. n \in Nat /\ Progress(j.at, j.end, n) /\ j.start \in Starts
  BY NumbersAre DEF Collecting
<1>2. /\ \A i, k \in Thread : i # k => D(i) \cap D(k) = {}
      /\ \A i \in Thread : D(i) \subseteq 0 .. n - 1
      /\ UNION { D(i) : i \in Thread } = 0 .. n - 1
  <2> HIDE DEF n
  <2>1. QED  BY <1>1, ProgressIs
<1>3. /\ found \in [Thread -> Seq(Tuple)]
      /\ \A i \in Thread : IsInjective(found[i]) /\ Range(found[i]) = UNION { F(m) : m \in D(i) }
  BY DEF Collecting, Lists, FoundBy
<1>4. \A m, k \in 0 .. n - 1 : m # k => F(m) \cap F(k) = {}
  BY FoundApart
<1>5. UNION { F(m) : m \in 0 .. n - 1 } = Target(j.start)
  BY <1>1, FoundIs
<1> HIDE DEF n, F, D, found
<1>6. \A i, k \in Thread : i # k => Range(found[i]) \cap Range(found[k]) = {}
  BY <1>2, <1>3, <1>4
<1>7. UNION { Range(found[i]) : i \in Thread } = UNION { F(m) : m \in 0 .. n - 1 }
  <2>1. \A x : x \in UNION { Range(found[i]) : i \in Thread } <=> \E i \in Thread : \E m \in D(i) : x \in F(m)
    BY <1>3
  <2>2. \A x : x \in UNION { F(m) : m \in 0 .. n - 1 } <=> \E i \in Thread : \E m \in D(i) : x \in F(m)
    BY <1>2
  <2>3. QED  BY <2>1, <2>2
<1>8. /\ Joined(found) \in Seq(Tuple)
      /\ Range(Joined(found)) = UNION { Range(found[i]) : i \in Thread }
      /\ IsInjective(Joined(found))
  BY <1>3, <1>6, JoinedIs
<1>9. QED  BY <1>5, <1>7, <1>8 DEF Lists, found

-----------------------------------------------------------------------------
(* The scan of rebind_pos_to_idx: what is counted and queued is exact for  *)
(* the tuples that are done.                                               *)
RowsQueued(b, list, D) ==
  /\ list \in Seq(IdsOf(b) \X PlacesOf(b)) /\ IsInjective(list)
  /\ \A t \in IdsOf(b), p \in PlacesOf(b) :
       <<t, p>> \in Range(list) <=> t - 1 \in D /\ p \in RowsCovering(b)[t]

TuplesQueued(b, list, D) ==
  /\ list \in Seq(PlacesOf(b) \X IdsOf(b)) /\ IsInjective(list)
  /\ \A t \in IdsOf(b), p \in PlacesOf(b) :
       <<p, t>> \in Range(list) <=> t - 1 \in D /\ p \in RowsCovering(b)[t]

Tallied(b, D) ==
  \A t \in IdsOf(b) :
    b.coveredTimes[t] = IF t - 1 \in D THEN Cardinality(RowsCovering(b)[t]) ELSE 0

Scanning(b, j) ==
  LET n == Len(b.tuplesU)
  IN /\ JobFields \subseteq DOMAIN j /\ j.start \in Starts
     /\ Fresh(b) /\ b.testcases = j.start.rows
     /\ Lists(b.tuplesU, Target(j.start))
     /\ Progress(j.at, j.end, n)
     /\ j.wrote = [id \in Thread |-> { m + 1 : m \in DoneBy(j.at, id, n) }]
     /\ j.rowsOf \in [Thread -> Seq(IdsOf(b) \X PlacesOf(b))]
     /\ j.tuplesOf \in [Thread -> Seq(PlacesOf(b) \X IdsOf(b))]
     /\ \A id \in Thread : /\ RowsQueued(b, j.rowsOf[id], DoneBy(j.at, id, n))
                           /\ TuplesQueued(b, j.tuplesOf[id], DoneBy(j.at, id, n))
     /\ Tallied(b, DoneByAll(j.at, n))

(* A tuple that the rows of the strength before leave out is covered by    *)
(* those that are bound.                                                   *)
LEMMA TargetCovered ==
  ASSUME NEW s \in Starts, NEW b, Fresh(b), b.testcases = s.rows, Lists(b.tuplesU, Target(s))
  PROVE  \A t \in IdsOf(b) : RowsCovering(b)[t] # {}
<1> SUFFICES ASSUME NEW t \in IdsOf(b) PROVE RowsCovering(b)[t] # {}
  OBVIOUS
<1> DEFINE u == b.tuplesU[t]
<1>1. u \in Target(s)
  <2>1. u \in Range(b.tuplesU)
    BY DEF IdsOf, Range
  <2>2. QED  BY <2>1 DEF Lists
<1> HIDE DEF u
<1>2. s.old \in Seq(Assignment) /\ s.rows \in Seq(Row)
      /\ CoveredBy(s.old \o s.rows, u) /\ ~CoveredBy(s.old, u)
  BY <1>1, BookkeepingAssumption DEF Target
<1> DEFINE a == s.old
           r == s.rows
           S == Assignment \cup Row
<1>3. a \in Seq(S) /\ r \in Seq(S)
  <2>1. Assignment \subseteq S /\ Row \subseteq S
    OBVIOUS
  <2>2. \A x \in Seq(Assignment) : x \in Seq(S)
    <3> HIDE DEF S
    <3>1. QED  BY <2>1
  <2>3. \A x \in Seq(Row) : x \in Seq(S)
    <3> HIDE DEF S
    <3>1. QED  BY <2>1
  <2>4. QED  BY <1>2, <2>2, <2>3
<1> HIDE DEF a, r, S
<1>4. PICK i \in DOMAIN (a \o r) : Covers((a \o r)[i], u)
  BY <1>2 DEF CoveredBy, a, r
<1>5. CASE i <= Len(a)
  <2>1. i \in DOMAIN a /\ (a \o r)[i] = a[i]
    BY <1>3, <1>5
  <2>2. QED  BY <1>2, <1>4, <2>1 DEF CoveredBy, a
<1>6. CASE ~(i <= Len(a))
  <2>1. i - Len(a) \in DOMAIN r /\ (a \o r)[i] = r[i - Len(a)]
    BY <1>3, <1>6
  <2> DEFINE p == i - Len(a)
  <2>2. p \in PlacesOf(b) /\ Covers(b.testcases[p], u)
    BY <1>4, <2>1 DEF PlacesOf, r
  <2> HIDE DEF p
  <2>3. p \in RowsCovering(b)[t]
    BY <2>2 DEF RowsCovering, u
  <2>4. QED  BY <2>3
<1>7. QED  BY <1>5, <1>6

(* The scan begins.                                                        *)
LEMMA ScanningBegins ==
  ASSUME NEW s \in Starts, NEW tuples \in Seq(Tuple), Lists(tuples, Target(s))
  PROVE  Scanning(Cleared(tuples, s.rows), ScanPhase(s, tuples))
<1> DEFINE b == Cleared(tuples, s.rows)
           j == ScanPhase(s, tuples)
           n == Len(tuples)
<1>1. /\ JobFields \subseteq DOMAIN j /\ j.start = s /\ j.at = AtStart(n) /\ j.end = AtEnd(n)
      /\ j.rowsOf = Idle /\ j.tuplesOf = Idle /\ j.wrote = [id \in Thread |-> {}]
  BY DEF ScanPhase, Phase, JobFields
<1>2. /\ Fresh(b) /\ b.tuplesU = tuples /\ b.testcases = s.rows
      /\ b.coveredTimes = [t \in DOMAIN tuples |-> 0]
  BY ClearedFresh, BookkeepingAssumption
<1>3. n \in Nat
  OBVIOUS
<1> HIDE DEF b, j, n
<1>4. Progress(j.at, j.end, n) /\ \A id \in Thread : DoneBy(j.at, id, n) = {}
  BY <1>1, <1>3, ProgressBegins
<1>5. DoneByAll(j.at, n) = {}
  BY <1>4 DEF DoneByAll
<1>6. Tallied(b, DoneByAll(j.at, n))
  BY <1>2, <1>5 DEF Tallied, IdsOf
<1>7. j.wrote = [id \in Thread |-> { m + 1 : m \in DoneBy(j.at, id, n) }]
  <2>1. \A id \in Thread : { m + 1 : m \in DoneBy(j.at, id, n) } = {}
    BY <1>4
  <2>2. QED  BY <1>1, <2>1
<1>8. ASSUME NEW id \in Thread
      PROVE  /\ RowsQueued(b, j.rowsOf[id], DoneBy(j.at, id, n))
             /\ TuplesQueued(b, j.tuplesOf[id], DoneBy(j.at, id, n))
  <2>1. j.rowsOf[id] = <<>> /\ j.tuplesOf[id] = <<>> /\ DoneBy(j.at, id, n) = {}
    BY <1>1, <1>4 DEF Idle
  <2>2. /\ \A S : <<>> \in Seq(S)
        /\ IsInjective(<<>>) /\ Range(<<>>) = {}
    BY DEF IsInjective, Range
  <2>3. QED  BY <2>1, <2>2 DEF RowsQueued, TuplesQueued
<1>9. /\ j.rowsOf \in [Thread -> Seq(IdsOf(b) \X PlacesOf(b))]
      /\ j.tuplesOf \in [Thread -> Seq(PlacesOf(b) \X IdsOf(b))]
  <2>1. \A S : Idle \in [Thread -> Seq(S)]
    BY DEF Idle
  <2>2. QED  BY <1>1, <2>1
<1>10. QED  BY <1>1, <1>2, <1>4, <1>6, <1>7, <1>8, <1>9 DEF Scanning, b, j, n

(* The pairs of one tuple, and those of more tuples.                       *)
LEMMA QueuesMore ==
  ASSUME NEW b, Fresh(b), NEW D, NEW t \in IdsOf(b), t - 1 \notin D,
         NEW covering \in Seq(PlacesOf(b)), Lists(covering, RowsCovering(b)[t]),
         NEW rows, RowsQueued(b, rows, D), NEW tuples, TuplesQueued(b, tuples, D)
  PROVE  /\ RowsQueued(b, rows \o [i \in DOMAIN covering |-> <<t, covering[i]>>], D \cup {t - 1})
         /\ TuplesQueued(b, tuples \o [i \in DOMAIN covering |-> <<covering[i], t>>], D \cup {t - 1})
<1> DEFINE T == IdsOf(b)
           P == PlacesOf(b)
           C == RowsCovering(b)
           f == [i \in DOMAIN covering |-> <<t, covering[i]>>]
           g == [i \in DOMAIN covering |-> <<covering[i], t>>]
<1>1. /\ Len(covering) \in Nat /\ DOMAIN covering = 1 .. Len(covering)
      /\ \A i \in DOMAIN covering : covering[i] \in P
      /\ \A i, k \in DOMAIN covering : covering[i] = covering[k] => i = k
      /\ \A p : p \in C[t] <=> \E i \in DOMAIN covering : covering[i] = p
  <2>1. IsInjective(covering) /\ Range(covering) = C[t]
    BY DEF Lists
  <2>2. covering \in Seq(P)
    OBVIOUS
  <2> HIDE DEF P, C
  <2>3. QED  BY <2>1, <2>2 DEF IsInjective, Range
<1>2. \A u \in T : u \in Nat
  BY DEF Fresh, IdsOf
<1>3. t \in T /\ t - 1 \notin D
  OBVIOUS
<1>4. /\ rows \in Seq(T \X P) /\ IsInjective(rows)
      /\ \A u \in T, p \in P : <<u, p>> \in Range(rows) <=> u - 1 \in D /\ p \in C[u]
  BY DEF RowsQueued
<1>5. /\ tuples \in Seq(P \X T) /\ IsInjective(tuples)
      /\ \A u \in T, p \in P : <<p, u>> \in Range(tuples) <=> u - 1 \in D /\ p \in C[u]
  BY DEF TuplesQueued
<1> HIDE DEF T, P, C
<1>6. /\ f \in Seq(T \X P) /\ IsInjective(f)
      /\ \A x : x \in Range(f) <=> \E i \in DOMAIN covering : x = <<t, covering[i]>>
  <2>1. f \in Seq(T \X P)
    BY <1>1, <1>3
  <2>2. IsInjective(f)
    BY <1>1 DEF IsInjective
  <2>3. QED  BY <2>1, <2>2 DEF Range
<1>7. /\ g \in Seq(P \X T) /\ IsInjective(g)
      /\ \A x : x \in Range(g) <=> \E i \in DOMAIN covering : x = <<covering[i], t>>
  <2>1. g \in Seq(P \X T)
    BY <1>1, <1>3
  <2>2. IsInjective(g)
    BY <1>1 DEF IsInjective
  <2>3. QED  BY <2>1, <2>2 DEF Range
<1> HIDE DEF f, g
<1>8. Range(rows) \cap Range(f) = {} /\ Range(tuples) \cap Range(g) = {}
  <2>1. \A i \in DOMAIN covering : <<t, covering[i]>> \notin Range(rows)
    BY <1>1, <1>3, <1>4
  <2>2. \A i \in DOMAIN covering : <<covering[i], t>> \notin Range(tuples)
    BY <1>1, <1>3, <1>5
  <2>3. QED  BY <1>6, <1>7, <2>1, <2>2
<1>9. /\ rows \o f \in Seq(T \X P) /\ IsInjective(rows \o f)
      /\ Range(rows \o f) = Range(rows) \cup Range(f)
  BY <1>4, <1>6, <1>8, ListConcat
<1>10. /\ tuples \o g \in Seq(P \X T) /\ IsInjective(tuples \o g)
       /\ Range(tuples \o g) = Range(tuples) \cup Range(g)
  BY <1>5, <1>7, <1>8, ListConcat
<1>11. ASSUME NEW u \in T, NEW p \in P
       PROVE  /\ <<u, p>> \in Range(f) <=> u = t /\ p \in C[t]
              /\ <<p, u>> \in Range(g) <=> u = t /\ p \in C[t]
              /\ u - 1 \in D \cup {t - 1} <=> u - 1 \in D \/ u = t
  BY <1>1, <1>2, <1>3, <1>6, <1>7
<1>12. \A u \in T, p \in P :
         <<u, p>> \in Range(rows \o f) <=> u - 1 \in D \cup {t - 1} /\ p \in C[u]
  BY <1>4, <1>9, <1>11
<1>13. \A u \in T, p \in P :
         <<p, u>> \in Range(tuples \o g) <=> u - 1 \in D \cup {t - 1} /\ p \in C[u]
  BY <1>5, <1>10, <1>11
<1>14. QED  BY <1>9, <1>10, <1>12, <1>13 DEF RowsQueued, TuplesQueued, T, P, C, f, g

(* A tuple is scanned.                                                     *)
ScannedOne(b, j, id, d, e) ==
  LET t == j.at[id] + 1
      covering == Kept(Upto(Len(b.testcases)),
                       { p \in DOMAIN b.testcases : Covers(b.testcases[p], b.tuplesU[t]) })
  IN /\ d = [b EXCEPT !.coveredTimes[t] = @ + Len(covering)]
     /\ e = [j EXCEPT
          !.rowsOf[id] = @ \o [i \in DOMAIN covering |-> <<t, b.testcasePosToIdx[covering[i]]>>],
          !.tuplesOf[id] = @ \o [i \in DOMAIN covering |-> <<covering[i], t>>],
          !.wrote[id] = @ \cup {t},
          !.at[id] = @ + 1]

CoveredFrom(b, t, covering) ==
  /\ covering \in Seq(PlacesOf(b)) /\ Lists(covering, RowsCovering(b)[t])
  /\ Len(covering) = Cardinality(RowsCovering(b)[t]) /\ Len(covering) \in Nat
  /\ [i \in DOMAIN covering |-> <<t, b.testcasePosToIdx[covering[i]]>>]
       = [i \in DOMAIN covering |-> <<t, covering[i]>>]

(* The places that ScanTuple collects are those of the rows that cover it. *)
LEMMA CoveringIs ==
  ASSUME NEW b, Fresh(b), NEW t \in IdsOf(b), NEW covering,
         covering = Kept(Upto(Len(b.testcases)),
                         { p \in DOMAIN b.testcases : Covers(b.testcases[p], b.tuplesU[t]) })
  PROVE  CoveredFrom(b, t, covering)
<1> DEFINE n == Len(b.testcases)
           P == PlacesOf(b)
           H == { p \in DOMAIN b.testcases : Covers(b.testcases[p], b.tuplesU[t]) }
           u == Upto(n)
<1>1. /\ n \in Nat /\ P = 1 .. n /\ b.testcasePosToIdx = u
      /\ H = RowsCovering(b)[t] /\ H \subseteq P
  BY DEF Fresh, PlacesOf, RowsCovering
<1>2. /\ covering = Kept(u, H)
  OBVIOUS
<1> HIDE DEF n, P, H
<1>3. /\ u \in Seq(P) /\ IsInjective(u) /\ Range(u) = P /\ \A i \in P : u[i] = i
  BY <1>1, UptoIs DEF Lists
<1> HIDE DEF u
<1>4. covering \in Seq(P) /\ Range(covering) = H /\ IsInjective(covering)
  <2>1. /\ Kept(u, H) \in Seq(P) /\ Range(Kept(u, H)) = Range(u) \cap H
        /\ IsInjective(u) => IsInjective(Kept(u, H))
    BY <1>3, KeptIs
  <2>2. QED  BY <1>1, <1>2, <1>3, <2>1
<1>5. Len(covering) = Cardinality(H) /\ Len(covering) \in Nat
  <2>1. Cardinality(Range(covering)) = Len(covering)
    BY <1>4, ListLength
  <2>2. QED  BY <1>4, <2>1
<1>6. \A i \in DOMAIN covering : u[covering[i]] = covering[i]
  <2>1. \A i \in DOMAIN covering : covering[i] \in P
    BY <1>4
  <2>2. QED  BY <1>3, <2>1
<1>7. [i \in DOMAIN covering |-> <<t, b.testcasePosToIdx[covering[i]]>>]
        = [i \in DOMAIN covering |-> <<t, covering[i]>>]
  BY <1>1, <1>6
<1>8. QED  BY <1>1, <1>4, <1>5, <1>7 DEF CoveredFrom, Lists, P

(* A thread of rebind_pos_to_idx goes on: its tuple is counted, and queued *)
(* with each row that covers it.                                           *)
LEMMA ScanningStep ==
  ASSUME NEW b, NEW j, Scanning(b, j), NEW id \in Thread, j.at[id] < j.end[id],
         NEW d, NEW e, ScannedOne(b, j, id, d, e)
  PROVE  Scanning(d, e) /\ d.tuplesU = b.tuplesU /\ d.testcases = b.testcases
         /\ d.uncoveredTuples = b.uncoveredTuples
<1> DEFINE n == Len(b.tuplesU)
           t == j.at[id] + 1
           covering == Kept(Upto(Len(b.testcases)),
                            { p \in DOMAIN b.testcases : Covers(b.testcases[p], b.tuplesU[t]) })
           m == Len(covering)
           more == [i \in DOMAIN covering |-> <<t, covering[i]>>]
           others == [i \in DOMAIN covering |-> <<covering[i], t>>]
           C == RowsCovering(b)
           A == DoneByAll(j.at, n)
           D(i) == DoneBy(j.at, i, n)
           E(i) == DoneBy(e.at, i, n)
           RQ == Seq(IdsOf(b) \X PlacesOf(b))
           TQ == Seq(PlacesOf(b) \X IdsOf(b))
<1>1. /\ Fresh(b) /\ JobFields \subseteq DOMAIN j /\ j.start \in Starts
      /\ b.testcases = j.start.rows /\ Lists(b.tuplesU, Target(j.start))
      /\ Progress(j.at, j.end, n)
      /\ j.wrote = [i \in Thread |-> { x + 1 : x \in D(i) }]
      /\ j.rowsOf \in [Thread -> RQ] /\ j.tuplesOf \in [Thread -> TQ]
      /\ \A i \in Thread : RowsQueued(b, j.rowsOf[i], D(i)) /\ TuplesQueued(b, j.tuplesOf[i], D(i))
      /\ Tallied(b, A)
  BY DEF Scanning
<1>2. n \in Nat /\ IdsOf(b) = 1 .. n /\ b.coveredTimes \in [IdsOf(b) -> Nat]
      /\ Fields \subseteq DOMAIN b
  BY <1>1 DEF Fresh, IdsOf
<1>3. DOMAIN j.at = Thread /\ \A i \in Thread : j.at[i] \in Nat
  BY SMTT(60), <1>1 DEF Progress
<1>4. /\ e.at = [j.at EXCEPT ![id] = @ + 1] /\ e.end = j.end /\ e.start = j.start
      /\ DOMAIN e = DOMAIN j
      /\ e.wrote = [j.wrote EXCEPT ![id] = @ \cup {t}]
      /\ e.rowsOf = [j.rowsOf EXCEPT ![id] = @ \o
                       [i \in DOMAIN covering |-> <<t, b.testcasePosToIdx[covering[i]]>>]]
      /\ e.tuplesOf = [j.tuplesOf EXCEPT ![id] = @ \o others]
  BY ZenonT(60), <1>1 DEF ScannedOne, JobFields
<1>5. d = [b EXCEPT !.coveredTimes = [b.coveredTimes EXCEPT ![t] = @ + m]]
  BY SMTT(60), <1>2 DEF ScannedOne, Fields
<1> HIDE DEF n, m
<1>6. Advanced(j.at, e.at, j.end, id, n)
  BY ZenonT(60), <1>1, <1>2, <1>4, ProgressStep
<1>7. /\ Progress(e.at, e.end, n) /\ j.at[id] \in 0 .. n - 1 /\ j.at[id] \notin D(id)
      /\ \A i \in Thread : E(i) = IF i = id THEN D(i) \cup {j.at[id]} ELSE D(i)
  BY ZenonT(60), <1>4, <1>6 DEF Advanced
<1>8. DoneByAll(e.at, n) = A \cup {j.at[id]}
  BY <1>2, <1>6, DoneMore
<1>9. j.at[id] \notin A
  <2>1. \A i \in Thread : i # id => E(i) \cap E(id) = {}
    BY <1>2, <1>7, ProgressIs
  <2> HIDE DEF E, D
  <2>2. \A i \in Thread : j.at[id] \notin D(i)
    BY <1>7, <2>1
  <2>3. QED  BY <2>2 DEF DoneByAll, D
<1>10. t \in IdsOf(b) /\ t - 1 = j.at[id] /\ t \in Nat
  BY <1>2, <1>3, <1>7
<1> HIDE DEF t, D, E, A
<1>11. /\ covering \in Seq(PlacesOf(b)) /\ Lists(covering, C[t])
       /\ m = Cardinality(C[t]) /\ m \in Nat
       /\ [i \in DOMAIN covering |-> <<t, b.testcasePosToIdx[covering[i]]>>] = more
  <2> DEFINE w == covering
  <2>1. w = Kept(Upto(Len(b.testcases)),
                 { p \in DOMAIN b.testcases : Covers(b.testcases[p], b.tuplesU[t]) })
    OBVIOUS
  <2> HIDE DEF w
  <2>2. CoveredFrom(b, t, w)
    BY ZenonT(60), <1>1, <1>10, <2>1, CoveringIs
  <2>3. QED  BY <2>2 DEF CoveredFrom, w, m
<1>12. e.rowsOf = [j.rowsOf EXCEPT ![id] = @ \o more]
  BY ZenonT(60), <1>4, <1>11
<1>13. /\ RowsQueued(b, j.rowsOf[id] \o more, D(id) \cup {t - 1})
       /\ TuplesQueued(b, j.tuplesOf[id] \o others, D(id) \cup {t - 1})
  <2>1. RowsQueued(b, j.rowsOf[id], D(id)) /\ TuplesQueued(b, j.tuplesOf[id], D(id)) /\ t - 1 \notin D(id)
    BY <1>1, <1>7, <1>10
  <2> HIDE DEF covering
  <2>2. QED  BY ZenonT(60), <1>1, <1>10, <1>11, <2>1, QueuesMore
<1> HIDE DEF covering, more, others, C
<1>14. /\ e.rowsOf \in [Thread -> RQ] /\ e.tuplesOf \in [Thread -> TQ]
       /\ \A i \in Thread : RowsQueued(b, e.rowsOf[i], E(i)) /\ TuplesQueued(b, e.tuplesOf[i], E(i))
  <2> DEFINE f == j.rowsOf
             g == j.tuplesOf
             x == f[id] \o more
             y == g[id] \o others
  <2>1. x \in RQ /\ y \in TQ
    BY <1>13 DEF RowsQueued, TuplesQueued
  <2>2. e.rowsOf = [f EXCEPT ![id] = x] /\ e.tuplesOf = [g EXCEPT ![id] = y]
    BY <1>4, <1>12
  <2>3. f \in [Thread -> RQ] /\ g \in [Thread -> TQ]
    BY <1>1
  <2>4. RowsQueued(b, x, E(id)) /\ TuplesQueued(b, y, E(id))
    BY <1>7, <1>10, <1>13
  <2>5. ASSUME NEW i \in Thread, i # id
        PROVE  RowsQueued(b, f[i], E(i)) /\ TuplesQueued(b, g[i], E(i))
    BY <1>1, <1>7, <2>5
  <2> HIDE DEF f, g, x, y, RQ, TQ
  <2>6. /\ e.rowsOf \in [Thread -> RQ] /\ e.tuplesOf \in [Thread -> TQ]
        /\ \A i \in Thread : /\ e.rowsOf[i] = IF i = id THEN x ELSE f[i]
                             /\ e.tuplesOf[i] = IF i = id THEN y ELSE g[i]
    BY <2>1, <2>2, <2>3
  <2>7. QED  BY <2>4, <2>5, <2>6
<1>15. e.wrote = [i \in Thread |-> { x + 1 : x \in E(i) }]
  <2> DEFINE W(i) == { x + 1 : x \in D(i) }
             V(i) == { x + 1 : x \in E(i) }
             f == j.wrote
  <2>1. \A i \in Thread : V(i) = IF i = id THEN W(i) \cup {t} ELSE W(i)
    <3>1. V(id) = W(id) \cup {t}
      <4>1. E(id) = D(id) \cup {j.at[id]} /\ t = j.at[id] + 1
        BY <1>7 DEF t
      <4>2. QED  BY <4>1
    <3>2. ASSUME NEW i \in Thread, i # id PROVE V(i) = W(i)
      BY <1>7, <3>2
    <3>3. QED  BY <3>1, <3>2
  <2>2. f = [i \in Thread |-> W(i)] /\ e.wrote = [f EXCEPT ![id] = f[id] \cup {t}]
    BY <1>1, <1>4
  <2> HIDE DEF W, V, f
  <2>3. e.wrote = [i \in Thread |-> IF i = id THEN W(i) \cup {t} ELSE W(i)]
    BY <2>2
  <2>4. e.wrote = [i \in Thread |-> V(i)]
    BY <2>1, <2>3
  <2>5. QED  BY <2>4 DEF V
<1>16. /\ d.tuplesU = b.tuplesU /\ d.testcases = b.testcases /\ DOMAIN d = DOMAIN b
       /\ d.coveredTimes = [b.coveredTimes EXCEPT ![t] = @ + m]
       /\ d.coveredTuples = b.coveredTuples /\ d.uncoveredTuples = b.uncoveredTuples
       /\ d.tuplesIdxToPos = b.tuplesIdxToPos /\ d.testcaseIdx = b.testcaseIdx
       /\ d.testcasePosToIdx = b.testcasePosToIdx /\ d.testcaseIdxToPos = b.testcaseIdxToPos
       /\ d.tcCoveredTuples = b.tcCoveredTuples /\ d.uniqueCoveredTuples = b.uniqueCoveredTuples
       /\ d.coveredTestcases = b.coveredTestcases /\ d.weight = b.weight
       /\ d.sumWeight = b.sumWeight /\ d.clausesCov = b.clausesCov
       /\ d.greedyLimit = b.greedyLimit /\ d.lastGreedyTime = b.lastGreedyTime
  BY <1>2, <1>5 DEF Fields
<1>17. IdsOf(d) = IdsOf(b) /\ PlacesOf(d) = PlacesOf(b) /\ RowsCovering(d) = C
  BY <1>16 DEF IdsOf, PlacesOf, RowsCovering, C
<1>18. /\ d.coveredTimes \in [IdsOf(b) -> Nat]
       /\ \A u \in IdsOf(b) : d.coveredTimes[u] = IF u = t THEN b.coveredTimes[t] + m
                                                  ELSE b.coveredTimes[u]
  <2> DEFINE f == b.coveredTimes
             g == d.coveredTimes
             T == IdsOf(b)
  <2>1. f \in [T -> Nat] /\ g = [f EXCEPT ![t] = f[t] + m] /\ t \in T /\ m \in Nat
    BY <1>2, <1>10, <1>11, <1>16
  <2> HIDE DEF f, g, T
  <2>2. g \in [T -> Nat] /\ \A u \in T : g[u] = IF u = t THEN f[t] + m ELSE f[u]
    BY <2>1
  <2>3. QED  BY <2>2 DEF f, g, T
<1>19. Fresh(d)
  <2>1. d.coveredTimes \in [IdsOf(d) -> Nat]
    BY <1>17, <1>18
  <2>2. QED  BY <1>1, <1>16, <1>17, <2>1 DEF Fresh
<1>20. Tallied(d, DoneByAll(e.at, n))
  <2>1. ASSUME NEW u \in IdsOf(b)
        PROVE  d.coveredTimes[u] = IF u - 1 \in A \cup {t - 1} THEN Cardinality(C[u]) ELSE 0
    <3>1. u \in Nat /\ b.coveredTimes[u] = IF u - 1 \in A THEN Cardinality(C[u]) ELSE 0
      BY <1>1, <1>2 DEF Tallied, C
    <3>2. CASE u = t
      <4>1. u - 1 \notin A
        BY <1>9, <1>10, <3>2
      <4>2. d.coveredTimes[u] = 0 + m
        BY <1>18, <3>1, <3>2, <4>1
      <4>3. QED  BY <1>11, <3>2, <4>2
    <3>3. CASE u # t
      <4>1. u - 1 # t - 1
        BY <1>10, <3>1, <3>3
      <4>2. QED  BY <1>18, <3>1, <3>3, <4>1
    <3>4. QED  BY <3>2, <3>3
  <2>2. QED  BY <1>8, <1>10, <1>17, <2>1 DEF Tallied
<1>21. \A i \in Thread : RowsQueued(d, e.rowsOf[i], E(i)) /\ TuplesQueued(d, e.tuplesOf[i], E(i))
  BY <1>14, <1>17 DEF RowsQueued, TuplesQueued, C
<1>22. Len(d.tuplesU) = n /\ Lists(d.tuplesU, Target(e.start)) /\ d.testcases = e.start.rows
       /\ e.start \in Starts /\ JobFields \subseteq DOMAIN e
  BY <1>1, <1>4, <1>16 DEF n
<1>23. e.rowsOf \in [Thread -> Seq(IdsOf(d) \X PlacesOf(d))]
       /\ e.tuplesOf \in [Thread -> Seq(PlacesOf(d) \X IdsOf(d))]
  BY <1>14, <1>17
<1>24. Scanning(d, e)
  BY <1>7, <1>15, <1>19, <1>20, <1>21, <1>22, <1>23 DEF Scanning, E
<1>25. QED  BY <1>16, <1>24

(* What the threads hand over is exact.                                    *)
LEMMA ScanningEnds ==
  ASSUME NEW b, NEW j, Scanning(b, j), \A id \in Thread : ~(j.at[id] < j.end[id])
  PROVE  Counts(b, Joined(j.rowsOf), Joined(j.tuplesOf))
<1> DEFINE n == Len(b.tuplesU)
           T == IdsOf(b)
           P == PlacesOf(b)
           C == RowsCovering(b)
           D(i) == DoneBy(j.at, i, n)
           f == j.rowsOf
           g == j.tuplesOf
<1>1. /\ Fresh(b) /\ j.start \in Starts
      /\ b.testcases = j.start.rows /\ Lists(b.tuplesU, Target(j.start))
      /\ Progress(j.at, j.end, n)
      /\ f \in [Thread -> Seq(T \X P)] /\ g \in [Thread -> Seq(P \X T)]
      /\ \A i \in Thread : RowsQueued(b, f[i], D(i)) /\ TuplesQueued(b, g[i], D(i))
      /\ Tallied(b, DoneByAll(j.at, n))
  BY DEF Scanning
<1>2. n \in Nat /\ T = 1 .. n
  BY <1>1 DEF Fresh, IdsOf
<1> HIDE DEF n
<1>3. /\ \A i, k \in Thread : i # k => D(i) \cap D(k) = {}
      /\ DoneByAll(j.at, n) = 0 .. n - 1
  BY <1>1, <1>2, ProgressIs DEF DoneByAll
<1>4. \A t \in T : t - 1 \in 0 .. n - 1 /\ \E i \in Thread : t - 1 \in D(i)
  BY <1>2, <1>3 DEF DoneByAll
<1>5. \A t \in T : C[t] # {}
  BY <1>1, TargetCovered
<1>6. \A t \in T : b.coveredTimes[t] = Cardinality(C[t])
  BY <1>1, <1>3, <1>4 DEF Tallied
<1>7. \A i \in Thread :
        /\ IsInjective(f[i]) /\ f[i] \in Seq(T \X P)
        /\ \A t \in T, p \in P : <<t, p>> \in Range(f[i]) <=> t - 1 \in D(i) /\ p \in C[t]
  BY <1>1 DEF RowsQueued
<1>8. \A i \in Thread :
        /\ IsInjective(g[i]) /\ g[i] \in Seq(P \X T)
        /\ \A t \in T, p \in P : <<p, t>> \in Range(g[i]) <=> t - 1 \in D(i) /\ p \in C[t]
  BY <1>1 DEF TuplesQueued
<1> HIDE DEF T, P, C, D, f, g
<1>9. \A i \in Thread : Range(f[i]) \subseteq T \X P /\ Range(g[i]) \subseteq P \X T
  BY <1>7, <1>8 DEF Range
<1>10. ASSUME NEW i \in Thread, NEW k \in Thread, i # k
       PROVE  Range(f[i]) \cap Range(f[k]) = {} /\ Range(g[i]) \cap Range(g[k]) = {}
  <2>1. ASSUME NEW x, x \in Range(f[i]), x \in Range(f[k]) PROVE FALSE
    <3>1. PICK t \in T, p \in P : x = <<t, p>>
      BY <1>9, <2>1
    <3>2. t - 1 \in D(i) /\ t - 1 \in D(k)
      BY <1>7, <2>1, <3>1
    <3>3. QED  BY <1>3, <1>10, <3>2
  <2>2. ASSUME NEW x, x \in Range(g[i]), x \in Range(g[k]) PROVE FALSE
    <3>1. PICK t \in T, p \in P : x = <<p, t>>
      BY <1>9, <2>2
    <3>2. t - 1 \in D(i) /\ t - 1 \in D(k)
      BY <1>8, <2>2, <3>1
    <3>3. QED  BY <1>3, <1>10, <3>2
  <2>3. QED  BY <2>1, <2>2
<1>11. /\ Joined(f) \in Seq(T \X P) /\ IsInjective(Joined(f))
       /\ Range(Joined(f)) = UNION { Range(f[i]) : i \in Thread }
  <2> DEFINE S == T \X P
  <2>1. f \in [Thread -> Seq(S)]
    BY <1>1
  <2> HIDE DEF S
  <2>2. /\ Joined(f) \in Seq(S) /\ Range(Joined(f)) = UNION { Range(f[i]) : i \in Thread }
        /\ IsInjective(Joined(f))
    BY <1>7, <1>10, <2>1, JoinedIs
  <2>3. QED  BY <2>2 DEF S
<1>12. /\ Joined(g) \in Seq(P \X T) /\ IsInjective(Joined(g))
       /\ Range(Joined(g)) = UNION { Range(g[i]) : i \in Thread }
  <2> DEFINE S == P \X T
  <2>1. g \in [Thread -> Seq(S)]
    BY <1>1
  <2> HIDE DEF S
  <2>2. /\ Joined(g) \in Seq(S) /\ Range(Joined(g)) = UNION { Range(g[i]) : i \in Thread }
        /\ IsInjective(Joined(g))
    BY <1>8, <1>10, <2>1, JoinedIs
  <2>3. QED  BY <2>2 DEF S
<1>13. ASSUME NEW t \in T, NEW p \in P
       PROVE  /\ <<t, p>> \in Range(Joined(f)) <=> p \in C[t]
              /\ <<p, t>> \in Range(Joined(g)) <=> p \in C[t]
  <2>1. /\ <<t, p>> \in Range(Joined(f)) <=> \E i \in Thread : <<t, p>> \in Range(f[i])
        /\ <<p, t>> \in Range(Joined(g)) <=> \E i \in Thread : <<p, t>> \in Range(g[i])
    BY <1>11, <1>12
  <2>2. QED  BY <1>4, <1>7, <1>8, <2>1
<1>14. QED  BY <1>5, <1>6, <1>11, <1>12, <1>13 DEF Counts, T, P, C, f, g

-----------------------------------------------------------------------------
(* What a step does to the rows and tuples: nothing, one row less, another *)
(* row, or a new binding.                                                  *)
Keeps(b, d) ==
  /\ d.testcases = b.testcases /\ d.tuplesU = b.tuplesU
  /\ Range(d.uncoveredTuples) = Range(b.uncoveredTuples)

Removes(b, d) ==
  /\ Steady(b) /\ Steady(d) /\ d.tuplesU = b.tuplesU
  /\ \E p \in PlacesOf(b) : d.testcases = SwapOut(b.testcases, p)

Forces(b, d) ==
  /\ Steady(b) /\ Steady(d) /\ d.tuplesU = b.tuplesU
  /\ \E p \in PlacesOf(b), row \in Row : d.testcases = [b.testcases EXCEPT ![p] = row]

Rebinds(d) == Fresh(d) /\ \A t \in IdsOf(d) : RowsCovering(d)[t] # {}

Outcome(b, d) == Keeps(b, d) \/ Removes(b, d) \/ Forces(b, d) \/ Rebinds(d)

(* A removal is an outcome, also behind a draw.                            *)
LEMMA RemovedOutcome ==
  ASSUME NEW b, Steady(b), NEW c, Steady(c), Draws(b, c), NEW p \in PlacesOf(b)
  PROVE  Steady(Removed(c, p)) /\ Outcome(b, Removed(c, p))
<1> DEFINE d == Removed(c, p)
<1>1. c.testcases = b.testcases /\ c.tuplesU = b.tuplesU /\ p \in PlacesOf(c)
  BY DEF Draws, PlacesOf
<1>2. Steady(d) /\ d.tuplesU = c.tuplesU /\ d.testcases = SwapOut(c.testcases, p)
  BY <1>1, RemovedSteady
<1> HIDE DEF d
<1>3. Removes(b, d)
  BY <1>1, <1>2 DEF Removes
<1>4. QED  BY <1>2, <1>3 DEF Outcome, d

(* A write is one, also behind a draw or a reweighing.                     *)
LEMMA WrittenOutcome ==
  ASSUME NEW b, Steady(b), NEW c, Steady(c), Draws(b, c), NEW w \in Writes(c)
  PROVE  Steady(Written(c, w)) /\ Outcome(b, Written(c, w))
<1> DEFINE d == Written(c, w)
<1>1. c.testcases = b.testcases /\ c.tuplesU = b.tuplesU
  BY DEF Draws
<1>2. Steady(d) /\ d.tuplesU = c.tuplesU /\ d.testcases = [c.testcases EXCEPT ![w.p] = w.row]
      /\ w.p \in PlacesOf(c) /\ w.row \in Row
  BY ForcedSteady
<1> HIDE DEF d
<1>3. w.p \in PlacesOf(b) /\ d.testcases = [b.testcases EXCEPT ![w.p] = w.row]
  BY <1>1, <1>2 DEF PlacesOf
<1>4. Forces(b, d)
  BY <1>1, <1>2, <1>3 DEF Forces
<1>5. QED  BY <1>2, <1>4 DEF Outcome, d

(* A draw or a reweighing alone changes no row.                            *)
LEMMA KeptOutcome ==
  ASSUME NEW b, NEW c, Draws(b, c)
  PROVE  Outcome(b, c)
BY DEF Draws, Keeps, Outcome

(* Nor does a step that leaves the fields alone.                           *)
LEMMA DrawsSame ==
  ASSUME NEW b
  PROVE  Draws(b, b)
BY DEF Draws

(* The row that the tuple neighbourhood removes is the first of those with *)
(* the shortest unique list: there is one.                                 *)
LEMMA TupleRemoveIs ==
  ASSUME Steady(book), TupleRemove
  PROVE  Steady(book') /\ Outcome(book, book')
<1> DEFINE rows == DOMAIN book.testcases
           all == Cleaned(book, rows)
           len(p) == Len(all.uniqueCoveredTuples[p])
           best == CHOOSE p \in rows :
                     \A q \in rows : len(p) < len(q) \/ (len(p) = len(q) /\ p <= q)
           seen == IF len(best) = 0 THEN 1 .. best ELSE rows
           n == Len(book.testcases)
<1>1. book' = Removed(Cleaned(book, seen), best) /\ book.testcases # <<>>
  BY DEF TupleRemove, CanRemove
<1>2. book.testcases \in Seq(Row)
  BY FieldsOf DEF Steady
<1>3. n \in Nat /\ rows = 1 .. n /\ n # 0
  BY <1>1, <1>2
<1>4. Steady(all) /\ Draws(book, all)
  BY CleanedSteady
<1> HIDE DEF all, n
<1>5. \A p \in rows : len(p) \in Nat
  <2>1. PlacesOf(all) = rows
    BY <1>4 DEF Draws, PlacesOf
  <2>2. all.uniqueCoveredTuples \in [PlacesOf(all) -> Seq(IdsOf(all))]
    BY <1>4 DEF Steady, Full, Exact, Weighed
  <2>3. QED  BY <2>1, <2>2
<1>6. best \in rows
  <2> HIDE DEF len
  <2>1. \E p \in 1 .. n : \A q \in 1 .. n : len(p) < len(q) \/ (len(p) = len(q) /\ p <= q)
    <3> DEFINE L == { len(p) : p \in 1 .. n }
    <3>1. L \in SUBSET Nat /\ L # {}
      <4>1. 1 \in 1 .. n
        BY <1>3
      <4>2. QED  BY <1>3, <1>5, <4>1
    <3>2. PICK m \in L : \A y \in L : m <= y
      <4> HIDE DEF L
      <4>1. QED  BY <3>1, Least
    <3> DEFINE M == { p \in 1 .. n : len(p) = m }
    <3>3. M \in SUBSET Nat /\ M # {}
      BY <1>3, <3>2
    <3>4. PICK p \in M : \A q \in M : p <= q
      <4> HIDE DEF M
      <4>1. QED  BY <3>3, Least
    <3>5. \A q \in 1 .. n : m <= len(q) /\ len(q) \in Nat /\ m \in Nat
      BY <1>3, <1>5, <3>1, <3>2
    <3>6. ASSUME NEW q \in 1 .. n PROVE len(p) < len(q) \/ (len(p) = len(q) /\ p <= q)
      <4>1. CASE len(q) = m
        BY <3>4, <4>1
      <4>2. CASE len(q) # m
        BY <3>4, <3>5, <4>2
      <4>3. QED  BY <4>1, <4>2
    <3>7. QED  BY <3>4, <3>6
  <2>2. QED  BY <1>3, <2>1
<1>7. Steady(Cleaned(book, seen)) /\ Draws(book, Cleaned(book, seen))
  BY CleanedSteady
<1>8. best \in PlacesOf(book)
  BY <1>6 DEF PlacesOf
<1> HIDE DEF best, seen
<1>9. QED  BY <1>1, <1>7, <1>8, RemovedOutcome

(* A step of the cell neighbourhood: one of its ways to draw, weigh and    *)
(* write.                                                                  *)
LEMMA CellStepIs ==
  ASSUME Steady(book), CellStep
  PROVE  Steady(book') /\ Outcome(book, book')
<1>1. PICK k \in DOMAIN book.uncoveredTuples :
        LET drawn == Sampled(book, k)
            weighed == IF UseWeight THEN Reweighed(drawn) ELSE drawn
        IN \/ \E w \in Writes(drawn) : book' = Written(drawn, w)
           \/ /\ UseWeight => CanReweigh
              /\ book' = weighed \/ \E w \in Writes(weighed) : book' = Written(weighed, w)
  BY DEF CellStep
<1> DEFINE drawn == Sampled(book, k)
           weighed == IF UseWeight THEN Reweighed(drawn) ELSE drawn
<1>2. \/ \E w \in Writes(drawn) : book' = Written(drawn, w)
      \/ /\ UseWeight => CanReweigh
         /\ book' = weighed \/ \E w \in Writes(weighed) : book' = Written(weighed, w)
  BY <1>1
<1>3. Steady(drawn) /\ Draws(book, drawn) /\ drawn.weight = book.weight
  BY SampledSteady
<1> HIDE DEF drawn
<1>4. CASE \E w \in Writes(drawn) : book' = Written(drawn, w)
  BY <1>3, <1>4, WrittenOutcome
<1>5. CASE /\ UseWeight => CanReweigh
           /\ book' = weighed \/ \E w \in Writes(weighed) : book' = Written(weighed, w)
  <2>1. Steady(weighed) /\ Draws(book, weighed)
    <3>1. CASE UseWeight
      <4>1. \A t \in Range(drawn.uncoveredTuples) : drawn.weight[t] < MaxWeight
        BY <1>3, <1>5, <3>1 DEF CanReweigh, Draws
      <4>2. Steady(Reweighed(drawn)) /\ Draws(drawn, Reweighed(drawn))
        BY <1>3, <4>1, ReweighedSteady
      <4>3. weighed = Reweighed(drawn)
        BY <3>1
      <4> HIDE DEF weighed
      <4>4. QED  BY <1>3, <4>2, <4>3 DEF Draws
    <3>2. CASE ~UseWeight
      BY <1>3, <3>2
    <3>3. QED  BY <3>1, <3>2
  <2> HIDE DEF weighed
  <2>2. QED  BY <1>5, <2>1, WrittenOutcome, KeptOutcome
<1>6. QED  BY <1>2, <1>4, <1>5

(* The other steps on rows.                                                *)
LEMMA OthersAre ==
  ASSUME Steady(book), CellRemove \/ TupleStep \/ Backtrack
  PROVE  Steady(book') /\ Outcome(book, book')
<1>1. Draws(book, book)
  BY DrawsSame
<1>2. CASE CellRemove
  <2>1. PICK p \in DOMAIN book.testcases : book' = Removed(book, p)
    BY <1>2 DEF CellRemove
  <2>2. QED  BY <1>1, <2>1, RemovedOutcome DEF PlacesOf
<1>3. CASE TupleStep
  <2>1. PICK w \in Writes(book) : book' = Written(book, w)
    BY <1>3 DEF TupleStep
  <2>2. QED  BY <1>1, <2>1, WrittenOutcome
<1>4. CASE Backtrack
  <2>1. book' = book \/ \E w \in Writes(book) : book' = Written(book, w)
    BY <1>4 DEF Backtrack
  <2>2. QED  BY <1>1, <2>1, WrittenOutcome, KeptOutcome
<1>5. QED  BY <1>2, <1>3, <1>4

-----------------------------------------------------------------------------
(* The invariant: in each phase what its threads rely on, and in between   *)
(* that the fields are exact.                                              *)
BookInv ==
  /\ phase \in {"cover", "collect", "scan", "step", "backtrack"}
  /\ phase = "cover" => Covering(book, job)
  /\ phase = "collect" => Collecting(book, job)
  /\ phase = "scan" => Scanning(book, job)
  /\ AtRest => Steady(book) /\ job = NoJob

(* The constructor binds, and its scan begins.                             *)
LEMMA BookInit ==
  ASSUME Init
  PROVE  BookInv
<1>1. PICK s \in Starts : book = Cleared(s.tuples, s.rows) /\ job = ScanPhase(s, s.tuples)
  BY DEF Init
<1>2. s.tuples \in Seq(Tuple) /\ Lists(s.tuples, Target(s))
  BY BookkeepingAssumption DEF Lists, Target
<1>3. Scanning(book, job)
  <2> DEFINE u == s.tuples
  <2>1. u \in Seq(Tuple) /\ Lists(u, Target(s)) /\ book = Cleared(u, s.rows) /\ job = ScanPhase(s, u)
    BY <1>1, <1>2
  <2> HIDE DEF u
  <2>2. QED  BY <2>1, ScanningBegins
<1>4. phase = "scan"
  BY DEF Init
<1>5. QED  BY <1>3, <1>4 DEF BookInv, AtRest

(* A step between two bindings.                                            *)
LEMMA RestSteps ==
  ASSUME BookInv, CellRemove \/ TupleRemove \/ CellStep \/ Backtrack \/ TupleStep
  PROVE  BookInv' /\ Outcome(book, book')
<1>1. AtRest /\ AtRest' /\ job' = job
  BY DEF AtRest, CellRemove, TupleRemove, CellStep, Backtrack, TupleStep, CanRemove, Incomplete
<1>2. Steady(book) /\ job = NoJob
  BY <1>1 DEF BookInv
<1>3. Steady(book') /\ Outcome(book, book')
  BY <1>2, TupleRemoveIs, CellStepIs, OthersAre
<1>4. NoJob' = NoJob
  BY DEF NoJob, Phase, AtStart, AtEnd, Idle, Firsts, Thread
<1>5. QED  BY <1>1, <1>2, <1>3, <1>4 DEF BookInv, AtRest

(* A restart begins with the first loop over combinations.                 *)
LEMMA RestartIs ==
  ASSUME BookInv, Restart
  PROVE  BookInv' /\ Outcome(book, book')
<1>1. PICK s \in Starts : book' = Cleared(<<>>, s.rows) /\ job' = CoverPhase(s)
  BY DEF Restart
<1>2. phase' = "cover"
  BY DEF Restart
<1>3. Covering(book', job')
  BY <1>1, CoverBegins
<1>4. Fresh(book') /\ IdsOf(book') = {}
  <2> DEFINE none == <<>>
  <2>1. none \in Seq(Tuple) /\ s.rows \in Seq(Row) /\ Len(s.rows) <= MaxIdx /\ DOMAIN none = {}
    BY BookkeepingAssumption
  <2>2. book' = Cleared(none, s.rows)
    BY <1>1
  <2> HIDE DEF none
  <2>3. Fresh(book') /\ book'.tuplesU = none
    BY <2>1, <2>2, ClearedFresh
  <2>4. QED  BY <2>1, <2>3 DEF IdsOf
<1>5. Rebinds(book')
  BY <1>4 DEF Rebinds
<1>6. QED  BY <1>2, <1>3, <1>5 DEF BookInv, AtRest, Outcome

(* The action of a thread of the first loop is the step above.             *)
LEMMA CoverColumnsIs ==
  ASSUME BookInv, ColumnsExact, NEW id \in Thread, CoverColumns(id)
  PROVE  BookInv' /\ Outcome(book, book')
<1> DEFINE cols == job.col[id]
<1>1. phase = "cover" /\ phase' = "cover" /\ book' = book /\ job.at[id] < job.end[id]
  BY DEF CoverColumns, AtWork
<1>2. Covering(book, job)
  BY <1>1 DEF BookInv
<1>3. cols = Few(job.at[id])
  BY <1>1 DEF ColumnsExact, AtWork, Width, Few
<1>4. JobFields \subseteq DOMAIN job
  BY <1>2 DEF Covering
<1>5. /\ DOMAIN job' = DOMAIN job /\ job'.start = job.start /\ job'.end = job.end
      /\ job'.at = [job.at EXCEPT ![id] = @ + 1]
      /\ job'.covered = job.covered \cup { <<CellOf(cols, Signs(row, cols), row[v]), v>> :
                                             row \in Range(job.start.old), v \in Var }
      /\ job'.wrote = [job.wrote EXCEPT ![id] = @ \cup { CellOf(cols, Signs(row, cols), last) :
                                                          row \in Range(job.start.old), last \in Bit }]
  BY <1>4 DEF CoverColumns, JobFields
<1> HIDE DEF cols
<1>6. Covering(book, job')
  BY SMTT(60), <1>1, <1>2, <1>3, <1>5, CoverStep
<1>7. Outcome(book, book')
  BY <1>1 DEF Outcome, Keeps
<1>8. QED  BY <1>1, <1>6, <1>7 DEF BookInv, AtRest

(* The threads of the first loop are joined.                               *)
LEMMA CoveredIs ==
  ASSUME BookInv, Covered
  PROVE  BookInv' /\ Outcome(book, book')
<1>1. phase = "cover" /\ phase' = "collect" /\ book' = book /\ job' = CollectPhase(job.start, job.covered)
      /\ \A id \in Thread : ~(job.at[id] < job.end[id])
  BY DEF Covered, AllDone, AtWork
<1>2. Collecting(book', job')
  BY <1>1, CoverEnds DEF BookInv
<1>3. Outcome(book, book')
  BY <1>1 DEF Outcome, Keeps
<1>4. QED  BY <1>1, <1>2, <1>3 DEF BookInv, AtRest

(* The action of a thread of the second loop is the step above.            *)
LEMMA CollectColumnsIs ==
  ASSUME BookInv, ColumnsExact, NEW id \in Thread, CollectColumns(id)
  PROVE  BookInv' /\ Outcome(book, book')
<1> DEFINE cols == job.col[id]
           missing == { bits \in [1 .. Strength -> Bit] :
                          /\ BitOf(cols, bits) \in KnownBits(job.start)
                          /\ BitOf(cols, bits) \notin job.covered }
           mine == Kept(AllSigns[Strength], missing)
           list == [i \in DOMAIN mine |-> TupleAt(cols, mine[i])]
<1>1. phase = "collect" /\ phase' = "collect" /\ book' = book /\ job.at[id] < job.end[id]
  BY DEF CollectColumns, AtWork
<1>2. Collecting(book, job)
  BY <1>1 DEF BookInv
<1>3. cols = All(job.at[id])
  BY <1>1 DEF ColumnsExact, AtWork, Width, All
<1>4. JobFields \subseteq DOMAIN job /\ job.covered = AllBits(job.start)
  BY <1>2 DEF Collecting
<1>5. /\ DOMAIN job' = DOMAIN job /\ job'.start = job.start /\ job'.end = job.end
      /\ job'.at = [job.at EXCEPT ![id] = @ + 1]
      /\ job'.covered = job.covered /\ job'.wrote = job.wrote
      /\ job'.found = [job.found EXCEPT ![id] = @ \o list]
  BY <1>4 DEF CollectColumns, JobFields
<1>6. list = FoundList(job.start, job.at[id])
  <2>1. missing = MissingAt(job.start, cols)
    BY <1>4 DEF MissingAt, SignsAt
  <2> HIDE DEF missing
  <2>2. QED  BY <1>3, <2>1 DEF FoundList
<1> HIDE DEF list
<1>7. Collecting(book, job')
  BY <1>1, <1>2, <1>5, <1>6, CollectStep
<1>8. Outcome(book, book')
  BY <1>1 DEF Outcome, Keeps
<1>9. QED  BY <1>1, <1>7, <1>8 DEF BookInv, AtRest

(* What is scanned is a new binding, and its rows cover all its tuples.    *)
LEMMA ScanningRebinds ==
  ASSUME NEW b, NEW j, Scanning(b, j)
  PROVE  Rebinds(b) /\ b.uncoveredTuples = <<>>
<1>1. j.start \in Starts /\ Fresh(b) /\ b.testcases = j.start.rows /\ Lists(b.tuplesU, Target(j.start))
  BY DEF Scanning
<1> DEFINE s == j.start
<1> HIDE DEF s
<1>2. \A t \in IdsOf(b) : RowsCovering(b)[t] # {}
  <2>1. s \in Starts /\ Fresh(b) /\ b.testcases = s.rows /\ Lists(b.tuplesU, Target(s))
    BY <1>1 DEF s
  <2>2. QED  BY <2>1, TargetCovered
<1>3. QED  BY <1>1, <1>2 DEF Rebinds, Fresh

(* The threads of the second loop are joined: what they found is bound.    *)
LEMMA CollectedIs ==
  ASSUME BookInv, Collected
  PROVE  BookInv' /\ Outcome(book, book')
<1> DEFINE tuples == Joined(job.found)
           s == job.start
<1>1. /\ phase = "collect" /\ phase' = "scan"
      /\ book' = Cleared(tuples, book.testcases) /\ job' = ScanPhase(s, book'.tuplesU)
      /\ \A id \in Thread : ~(job.at[id] < job.end[id])
  BY DEF Collected, AllDone, AtWork
<1>2. Collecting(book, job)
  BY <1>1 DEF BookInv
<1>3. tuples \in Seq(Tuple) /\ Lists(tuples, Target(s))
  BY <1>1, <1>2, CollectEnds
<1>4. s \in Starts /\ book = Cleared(<<>>, s.rows)
  BY <1>2 DEF Collecting
<1> HIDE DEF tuples, s
<1>5. book.testcases = s.rows /\ book'.tuplesU = tuples
  BY <1>1, <1>4 DEF Cleared
<1>6. Scanning(book', job')
  BY <1>1, <1>3, <1>4, <1>5, ScanningBegins
<1>7. Rebinds(book')
  BY <1>6, ScanningRebinds
<1>8. QED  BY <1>1, <1>6, <1>7 DEF BookInv, AtRest, Outcome

(* The action of a thread of rebind_pos_to_idx is the step above.          *)
LEMMA ScanTupleIs ==
  ASSUME BookInv, NEW id \in Thread, ScanTuple(id)
  PROVE  BookInv' /\ Outcome(book, book')
<1>1. phase = "scan" /\ phase' = "scan" /\ job.at[id] < job.end[id]
  BY ZenonT(60) DEF ScanTuple, AtWork
<1>2. Scanning(book, job)
  BY SMTT(60), <1>1 DEF BookInv
<1>3. ScannedOne(book, job, id, book', job')
  BY ZenonT(60) DEF ScanTuple, ScannedOne
<1>4. /\ Scanning(book', job') /\ book'.tuplesU = book.tuplesU /\ book'.testcases = book.testcases
      /\ book'.uncoveredTuples = book.uncoveredTuples
  BY <1>1, <1>2, <1>3, ScanningStep
<1>5. Outcome(book, book')
  BY <1>4 DEF Outcome, Keeps
<1>6. QED  BY SMTT(60), <1>1, <1>4, <1>5 DEF BookInv, AtRest

(* The threads of rebind_pos_to_idx are joined: the lists are exact.       *)
LEMMA ScannedIs ==
  ASSUME BookInv, Scanned
  PROVE  BookInv' /\ Outcome(book, book')
<1> DEFINE d == Bound(book, Joined(job.rowsOf), Joined(job.tuplesOf))
<1>1. /\ phase = "scan" /\ phase' = "step" /\ book' = d /\ job' = NoJob
      /\ \A id \in Thread : ~(job.at[id] < job.end[id])
  BY DEF Scanned, AllDone, AtWork
<1>2. Scanning(book, job)
  BY <1>1 DEF BookInv
<1>3. Counts(book, Joined(job.rowsOf), Joined(job.tuplesOf)) /\ Fresh(book)
  BY <1>1, <1>2, ScanningEnds DEF Scanning
<1>4. Steady(d) /\ d.tuplesU = book.tuplesU /\ d.testcases = book.testcases
      /\ d.uncoveredTuples = book.uncoveredTuples
  BY <1>3, BoundIs
<1> HIDE DEF d
<1>5. Outcome(book, book')
  BY <1>1, <1>4 DEF Outcome, Keeps
<1>6. NoJob' = NoJob
  BY DEF NoJob, Phase, AtStart, AtEnd, Idle, Firsts, Thread
<1>7. QED  BY <1>1, <1>4, <1>5, <1>6 DEF BookInv, AtRest

(* Every step keeps the invariant and has an outcome.                      *)
LEMMA BookStep ==
  ASSUME BookInv, ColumnsExact, [Next]_vars
  PROVE  BookInv' /\ Outcome(book, book')
<1>1. CASE UNCHANGED vars
  <2>1. BookInv'
    BY <1>1 DEF BookInv, vars, AtRest, NoJob, Phase, AtStart, AtEnd, Idle, Firsts, Thread
  <2>2. Outcome(book, book')
    BY <1>1 DEF vars, Outcome, Keeps
  <2>3. QED  BY <2>1, <2>2
<1>2. CASE CellRemove \/ TupleRemove \/ CellStep \/ Backtrack \/ TupleStep
  BY <1>2, RestSteps
<1>3. CASE Restart
  BY <1>3, RestartIs
<1>4. CASE \E id \in Thread : CoverColumns(id) \/ CollectColumns(id) \/ ScanTuple(id)
  BY <1>4, CoverColumnsIs, CollectColumnsIs, ScanTupleIs
<1>5. CASE Covered \/ Collected \/ Scanned
  BY <1>5, CoveredIs, CollectedIs, ScannedIs
<1>6. QED  BY <1>1, <1>2, <1>3, <1>4, <1>5 DEF Next

(* The invariant holds throughout.                                         *)
LEMMA BookInvariance == Spec => [](BookInv /\ ColumnsExact)
<1>1. Init => BookInv
  BY BookInit
<1>2. BookInv /\ ColumnsExact /\ [Next]_vars => BookInv'
  BY BookStep
<1>3. Spec => []ColumnsExact
  BY ColumnsInStep
<1>4. QED  BY <1>1, <1>2, <1>3, PTL DEF Spec

-----------------------------------------------------------------------------
(* In terms of the module's own names.                                     *)
LEMMA NamesAre ==
  /\ Ids = IdsOf(book) /\ Places = PlacesOf(book)
  /\ \A t \in Ids : CoveringRows(t) = RowsCovering(book)[t]
  /\ \A t \in Ids, p \in Places : RowCovers(p, t) <=> p \in RowsCovering(book)[t]
  /\ \A p \in Places : { t \in Ids : RowCovers(p, t) } = Held(RowsCovering(book), p)
  /\ \A p \in Places : AloneAt(p) = Sole(RowsCovering(book), p)
BY DEF Ids, Places, IdsOf, PlacesOf, CoveringRows, RowsCovering, RowCovers, AloneAt, Held, Sole

(* The invariant between two bindings.                                     *)
LEMMA AtRestSteady ==
  ASSUME BookInv, AtRest
  PROVE  /\ Steady(book) /\ Exact(book, PlacesOf(book), RowsCovering(book))
         /\ book.clausesCov = [p \in PlacesOf(book) |-> ClausesCov(book.testcases[p])]
         /\ Marks(book) /\ job = NoJob
BY DEF BookInv, Steady, Full

(* The invariant while threads are at work.                                *)
LEMMA AtWorkRebinds ==
  ASSUME BookInv, ~AtRest
  PROVE  Rebinds(book)
<1>1. CASE phase \in {"cover", "collect"}
  <2>1. job.start \in Starts /\ book = Cleared(<<>>, job.start.rows)
    BY <1>1 DEF BookInv, Covering, Collecting
  <2> DEFINE none == <<>>
             s == job.start
  <2>2. /\ none \in Seq(Tuple) /\ DOMAIN none = {} /\ book = Cleared(none, s.rows)
        /\ s.rows \in Seq(Row) /\ Len(s.rows) <= MaxIdx
    BY <2>1, BookkeepingAssumption
  <2> HIDE DEF none, s
  <2>3. Fresh(book) /\ book.tuplesU = none
    BY <2>2, ClearedFresh
  <2>4. QED  BY <2>2, <2>3 DEF Rebinds, IdsOf
<1>2. CASE phase = "scan"
  BY <1>2, ScanningRebinds DEF BookInv
<1>3. QED  BY <1>1, <1>2 DEF BookInv, AtRest

(* The types.                                                              *)
LEMMA ClausesCount ==
  ASSUME NEW row
  PROVE  ClausesCov(row) \in [Clause -> Nat]
<1>1. ASSUME NEW c \in Clause PROVE Cardinality({ v \in DOMAIN c : row[v] = c[v] }) \in Nat
  <2>1. DOMAIN c \subseteq Var
    BY FormulaAssumption
  <2>2. IsFiniteSet(Var)
    <3>1. 1 \in Int /\ NumVar \in Int
      BY Widths
    <3>2. QED  BY <3>1, FS_Interval DEF Var
  <2>3. IsFiniteSet({ v \in DOMAIN c : row[v] = c[v] })
    BY <2>1, <2>2, FS_Subset
  <2>4. QED  BY <2>3, FS_CardinalityType
<1>2. QED  BY <1>1 DEF ClausesCov

BookTyped(b) ==
  LET T == IdsOf(b)
      P == PlacesOf(b)
  IN /\ b.tuplesU \in Seq(Tuple) /\ b.testcases \in Seq(Row)
     /\ b.coveredTimes \in [T -> Nat]
     /\ b.coveredTuples \in Seq(T) /\ b.uncoveredTuples \in Seq(T)
     /\ b.tuplesIdxToPos \in [T -> Nat]
     /\ b.testcaseIdx \in 0 .. MaxIdx
     /\ b.testcasePosToIdx \in Seq(1 .. MaxIdx) /\ b.testcaseIdxToPos \in Seq(Nat)
     /\ b.tcCoveredTuples \in [P -> Seq(T)] /\ b.uniqueCoveredTuples \in [P -> Seq(T)]
     /\ b.coveredTestcases \in [T -> Seq(1 .. MaxIdx)]
     /\ b.weight \in [T -> 1 .. MaxWeight] /\ b.sumWeight \in [P -> Nat]
     /\ b.clausesCov \in [P -> [Clause -> Nat]]
     /\ b.greedyLimit \in Nat /\ b.lastGreedyTime \in [P -> Int]

(* The types between two bindings.                                         *)
LEMMA SteadyTyped ==
  ASSUME NEW b, Steady(b)
  PROVE  BookTyped(b)
<1> DEFINE T == IdsOf(b)
           P == PlacesOf(b)
<1>1. b.clausesCov \in [P -> [Clause -> Nat]]
  <2>1. b.clausesCov = [p \in P |-> ClausesCov(b.testcases[p])]
    BY DEF Steady, Full
  <2>2. QED  BY <2>1, ClausesCount
<1>2. b.coveredTestcases \in [T -> Seq(1 .. MaxIdx)] /\ b.testcaseIdx \in 0 .. MaxIdx
  <2> DEFINE n == b.testcaseIdx
             f == b.coveredTestcases
  <2>1. n \in 0 .. MaxIdx /\ f \in [T -> Seq(1 .. n)] /\ MaxIdx \in Nat
    BY BookkeepingAssumption DEF Steady, Full, Exact, Named, NamesListed
  <2> HIDE DEF n, f, T
  <2>2. \A x \in Seq(1 .. n) : x \in Seq(1 .. MaxIdx)
    <3> DEFINE A == 1 .. n
               B == 1 .. MaxIdx
    <3>1. A \subseteq B
      BY <2>1
    <3> HIDE DEF A, B
    <3>2. \A x \in Seq(A) : x \in Seq(B)
      BY <3>1
    <3>3. QED  BY <3>2 DEF A, B
  <2>3. QED  BY <2>1, <2>2 DEF n, f
<1>3. /\ b.tuplesU \in Seq(Tuple) /\ b.testcases \in Seq(Row)
      /\ b.coveredTimes \in [T -> Nat] /\ b.tcCoveredTuples \in [P -> Seq(T)]
  BY DEF Steady, Full, Exact, Shape, Counted
<1>4. /\ b.coveredTuples \in Seq(T) /\ b.uncoveredTuples \in Seq(T)
      /\ b.tuplesIdxToPos \in [T -> Nat]
  BY DEF Steady, Full, Exact, Placed
<1>5. /\ b.uniqueCoveredTuples \in [P -> Seq(T)] /\ b.weight \in [T -> 1 .. MaxWeight]
      /\ b.sumWeight \in [P -> Nat]
  BY DEF Steady, Full, Exact, Weighed
<1>6. b.testcaseIdxToPos \in Seq(Nat) /\ b.testcasePosToIdx \in Seq(1 .. MaxIdx)
  BY DEF Steady, Full, Exact, Named
<1>7. b.greedyLimit \in Nat /\ b.lastGreedyTime \in [P -> Int]
  BY DEF Steady, Marks
<1>8. QED
  <2> HIDE DEF T, P
  <2>1. BookTyped(b) <=>
          /\ b.tuplesU \in Seq(Tuple) /\ b.testcases \in Seq(Row)
          /\ b.coveredTimes \in [T -> Nat]
          /\ b.coveredTuples \in Seq(T) /\ b.uncoveredTuples \in Seq(T)
          /\ b.tuplesIdxToPos \in [T -> Nat]
          /\ b.testcaseIdx \in 0 .. MaxIdx
          /\ b.testcasePosToIdx \in Seq(1 .. MaxIdx) /\ b.testcaseIdxToPos \in Seq(Nat)
          /\ b.tcCoveredTuples \in [P -> Seq(T)] /\ b.uniqueCoveredTuples \in [P -> Seq(T)]
          /\ b.coveredTestcases \in [T -> Seq(1 .. MaxIdx)]
          /\ b.weight \in [T -> 1 .. MaxWeight] /\ b.sumWeight \in [P -> Nat]
          /\ b.clausesCov \in [P -> [Clause -> Nat]]
          /\ b.greedyLimit \in Nat /\ b.lastGreedyTime \in [P -> Int]
    BY Zenon DEF BookTyped, T, P
  <2>2. QED  BY Zenon, <2>1, <1>1, <1>2, <1>3, <1>4, <1>5, <1>6, <1>7

(* The types in a new binding.                                             *)
LEMMA FreshTyped ==
  ASSUME NEW b, Fresh(b)
  PROVE  BookTyped(b)
<1> DEFINE n == Len(b.tuplesU)
           m == Len(b.testcases)
           T == IdsOf(b)
           P == PlacesOf(b)
<1>1. /\ b.tuplesU \in Seq(Tuple) /\ b.testcases \in Seq(Row)
      /\ n \in Nat /\ m \in Nat /\ m <= MaxIdx /\ T = 1 .. n /\ P = 1 .. m
      /\ b.coveredTimes \in [T -> Nat]
      /\ b.coveredTuples = Upto(n) /\ b.uncoveredTuples = <<>> /\ b.tuplesIdxToPos = Upto(n)
      /\ b.testcaseIdx = m /\ b.testcasePosToIdx = Upto(m) /\ b.testcaseIdxToPos = Upto(m)
      /\ b.tcCoveredTuples = [p \in P |-> <<>>] /\ b.uniqueCoveredTuples = [p \in P |-> <<>>]
      /\ b.coveredTestcases = [t \in T |-> <<>>]
      /\ b.weight = [t \in T |-> 1] /\ b.sumWeight = [p \in P |-> 0]
      /\ b.clausesCov = [p \in P |-> ClausesCov(b.testcases[p])]
      /\ b.greedyLimit = 0 /\ b.lastGreedyTime = [p \in P |-> -TabooSize - 1]
  BY DEF Fresh, IdsOf, PlacesOf
<1> DEFINE u == Upto(n)
           w == Upto(m)
<1>2. /\ u \in Seq(1 .. n) /\ u \in Seq(Nat) /\ DOMAIN u = 1 .. n /\ \A i \in 1 .. n : u[i] = i
      /\ w \in Seq(1 .. m) /\ w \in Seq(Nat) /\ DOMAIN w = 1 .. m /\ \A i \in 1 .. m : w[i] = i
  BY <1>1, UptoIs
<1>3. MaxIdx \in Nat /\ TabooSize \in Nat /\ MaxWeight \in Nat \ {0}
  BY BookkeepingAssumption
<1> HIDE DEF n, m, T, P, u, w
<1>4. u \in [T -> Nat] /\ u \in Seq(T)
  <2>1. u = [i \in 1 .. n |-> u[i]]
    BY <1>2
  <2>2. \A i \in 1 .. n : u[i] \in Nat
    BY <1>2
  <2>3. QED  BY <1>1, <1>2, <2>1, <2>2
<1>5. w \in Seq(1 .. MaxIdx)
  <2> DEFINE A == 1 .. m
             B == 1 .. MaxIdx
  <2>1. A \subseteq B /\ w \in Seq(A)
    BY <1>1, <1>2, <1>3
  <2> HIDE DEF A, B
  <2>2. w \in Seq(B)
    BY <2>1
  <2>3. QED  BY <2>2 DEF B
<1>6. b.clausesCov \in [P -> [Clause -> Nat]]
  BY <1>1, ClausesCount
<1>7. /\ b.weight \in [T -> 1 .. MaxWeight] /\ b.sumWeight \in [P -> Nat]
      /\ b.lastGreedyTime \in [P -> Int] /\ b.greedyLimit \in Nat
      /\ b.testcaseIdx \in 0 .. MaxIdx
  BY <1>1, <1>3
<1>8. /\ \A S : <<>> \in Seq(S)
      /\ \A S : [p \in P |-> <<>>] \in [P -> Seq(S)] /\ [t \in T |-> <<>>] \in [T -> Seq(S)]
  OBVIOUS
<1>9. /\ b.coveredTuples \in Seq(T) /\ b.uncoveredTuples \in Seq(T)
      /\ b.tuplesIdxToPos \in [T -> Nat]
  <2>1. b.coveredTuples = u /\ b.uncoveredTuples = <<>> /\ b.tuplesIdxToPos = u
    BY <1>1 DEF u
  <2>2. <<>> \in Seq(T)
    BY <1>8
  <2>3. QED  BY Zenon, <1>4, <2>1, <2>2
<1>10. /\ b.testcasePosToIdx \in Seq(1 .. MaxIdx) /\ b.testcaseIdxToPos \in Seq(Nat)
  <2>1. b.testcasePosToIdx = w /\ b.testcaseIdxToPos = w
    BY <1>1 DEF w
  <2>2. w \in Seq(Nat)
    BY <1>2
  <2>3. QED  BY Zenon, <1>5, <2>1, <2>2
<1>11. /\ b.tcCoveredTuples \in [P -> Seq(T)] /\ b.uniqueCoveredTuples \in [P -> Seq(T)]
       /\ b.coveredTestcases \in [T -> Seq(1 .. MaxIdx)]
  <2> DEFINE e == [p \in P |-> <<>>]
             f == [t \in T |-> <<>>]
  <2>1. b.tcCoveredTuples = e /\ b.uniqueCoveredTuples = e /\ b.coveredTestcases = f
    BY <1>1
  <2>2. e \in [P -> Seq(T)] /\ f \in [T -> Seq(1 .. MaxIdx)]
    OBVIOUS
  <2> HIDE DEF e, f
  <2>3. QED  BY <2>1, <2>2
<1>12. /\ b.tuplesU \in Seq(Tuple) /\ b.testcases \in Seq(Row)
       /\ b.coveredTimes \in [T -> Nat]
  BY Zenon, <1>1
<1>13. QED  BY Zenon, <1>6, <1>7, <1>9, <1>10, <1>11, <1>12 DEF BookTyped, T, P

(* The counters of the threads.                                            *)
LEMMA JobTyped ==
  ASSUME BookInv
  PROVE  job.at \in [Thread -> Nat] /\ \A id \in Thread : job.at[id] <= job.end[id]
<1>1. CASE AtRest
  <2>1. job = NoJob
    BY <1>1 DEF BookInv
  <2>2. job.at = AtStart(0) /\ job.end = AtEnd(0)
    BY <2>1 DEF NoJob, Phase
  <2>3. Progress(AtStart(0), AtEnd(0), 0)
    BY ProgressBegins
  <2>4. QED  BY <2>2, <2>3 DEF Progress
<1>2. CASE phase = "cover"
  BY <1>2 DEF BookInv, Covering, Progress
<1>3. CASE phase = "collect"
  BY <1>3 DEF BookInv, Collecting, Progress
<1>4. CASE phase = "scan"
  BY <1>4 DEF BookInv, Scanning, Progress
<1>5. QED  BY <1>1, <1>2, <1>3, <1>4 DEF BookInv, AtRest

(* Together they are the type invariant.                                   *)
LEMMA InvTyped ==
  ASSUME BookInv
  PROVE  TypeOK
<1>1. BookTyped(book)
  <2>1. CASE AtRest
    BY <2>1, AtRestSteady, SteadyTyped
  <2>2. CASE ~AtRest
    BY <2>2, AtWorkRebinds, FreshTyped DEF Rebinds
  <2>3. QED  BY <2>1, <2>2
<1>2. phase \in {"cover", "collect", "scan", "step", "backtrack"}
  BY DEF BookInv
<1>3. QED  BY <1>1, <1>2, JobTyped DEF BookTyped, TypeOK, TuplesListed, Ids, Places, IdsOf, PlacesOf

(* The counters, the lists and the weights.                                *)
LEMMA InvCounts ==
  ASSUME BookInv
  PROVE  CountsExact /\ UniqueExact /\ WeightsExact
<1> SUFFICES ASSUME AtRest PROVE CountsExact /\ UniqueExact /\ WeightsExact
  BY DEF CountsExact, UniqueExact, WeightsExact
<1> DEFINE C == RowsCovering(book)
           S == PlacesOf(book)
<1>1. /\ Shape(book, S, C) /\ Counted(book, S, C) /\ Weighed(book, S, C)
      /\ Named(book, S) /\ NamesListed(book, C)
      /\ book.clausesCov = [p \in S |-> ClausesCov(book.testcases[p])]
  BY AtRestSteady DEF Exact
<1> HIDE DEF C
<1>2. CountsExact
  <2>1. \A t \in IdsOf(book) : book.coveredTimes[t] = Cardinality(C[t])
    BY <1>1 DEF Counted
  <2>2. \A p \in S : Lists(book.tcCoveredTuples[p], Held(C, p))
    BY <1>1 DEF Counted
  <2>3. \A p \in S : book.clausesCov[p] = ClausesCov(book.testcases[p])
    BY <1>1
  <2>4. QED  BY <2>1, <2>2, <2>3, NamesAre DEF CountsExact, C
<1>3. UniqueExact
  <2>1. \A p \in S : Lists(book.uniqueCoveredTuples[p], Sole(C, p))
    BY <1>1 DEF Weighed
  <2>2. \A t \in IdsOf(book) : Lists(Live(book, t), NamesOf(book, C[t]))
    BY <1>1, LiveIs DEF Lists
  <2>3. \A t \in IdsOf(book) : NamesOf(book, C[t]) = { book.testcasePosToIdx[p] : p \in C[t] }
    BY DEF NamesOf
  <2>4. QED  BY <2>1, <2>2, <2>3, NamesAre DEF UniqueExact, C
<1>4. WeightsExact
  <2>1. \A p \in S : book.sumWeight[p] = WeightIn(book, Sole(C, p))
    BY <1>1 DEF Weighed
  <2>2. QED  BY <2>1, NamesAre DEF WeightsExact, WeightOf, C
<1>5. QED  BY <1>2, <1>3, <1>4

(* The tabu marks.                                                         *)
LEMMA InvMarks ==
  ASSUME BookInv
  PROVE  MarksDistinct
<1>1. Marks(book)
  BY AtRestSteady, AtWorkRebinds, FreshMarks DEF Rebinds
<1>2. QED  BY <1>1, NamesAre DEF Marks, MarksDistinct

(* The tuple lists and the maps from names to places.                      *)
LEMMA InvPlaces ==
  ASSUME BookInv
  PROVE  PlacesExact
<1> DEFINE C == RowsCovering(book)
           S == PlacesOf(book)
           T == IdsOf(book)
<1>1. SUFFICES
        /\ Lists(book.coveredTuples, { t \in T : C[t] # {} })
        /\ Lists(book.uncoveredTuples, { t \in T : C[t] = {} })
        /\ \A q \in DOMAIN book.coveredTuples : book.tuplesIdxToPos[book.coveredTuples[q]] = q
        /\ \A p \in S : book.testcaseIdxToPos[book.testcasePosToIdx[p]] = p
        /\ \A idx \in DOMAIN book.testcaseIdxToPos :
             book.testcaseIdxToPos[idx] # 0 =>
               /\ book.testcaseIdxToPos[idx] \in S
               /\ book.testcasePosToIdx[book.testcaseIdxToPos[idx]] = idx
  <2>1. { t \in T : C[t] # {} } = { t \in Ids : CoveringRows(t) # {} }
    BY NamesAre
  <2>2. { t \in T : C[t] = {} } = { t \in Ids : CoveringRows(t) = {} }
    BY NamesAre
  <2>3. S = Places
    BY NamesAre
  <2> HIDE DEF C, S, T
  <2>4. QED  BY <2>1, <2>2, <2>3 DEF PlacesExact
<1>2. CASE AtRest
  <2>1. Placed(book, C) /\ Named(book, S)
    BY <1>2, AtRestSteady DEF Exact
  <2> HIDE DEF C, S
  <2>2. /\ Lists(book.coveredTuples, { t \in T : C[t] # {} })
        /\ Lists(book.uncoveredTuples, { t \in T : C[t] = {} })
        /\ \A q \in DOMAIN book.coveredTuples : book.tuplesIdxToPos[book.coveredTuples[q]] = q
    BY <2>1 DEF Placed
  <2>3. \A p \in S : book.testcaseIdxToPos[book.testcasePosToIdx[p]] = p
    BY <2>1 DEF Named
  <2>4. ASSUME NEW idx \in DOMAIN book.testcaseIdxToPos, book.testcaseIdxToPos[idx] # 0
        PROVE  /\ book.testcaseIdxToPos[idx] \in S
               /\ book.testcasePosToIdx[book.testcaseIdxToPos[idx]] = idx
    <3>1. book.testcaseIdxToPos[idx] \in Nat
      BY <2>1 DEF Named
    <3>2. idx \in Alive(book)
      BY <2>4, <3>1 DEF Alive
    <3>3. QED  BY <2>1, <3>2 DEF Named
  <2>5. QED  BY <2>2, <2>3, <2>4
<1>3. CASE ~AtRest
  <2>1. Fresh(book) /\ \A t \in T : C[t] # {}
    BY <1>3, AtWorkRebinds DEF Rebinds
  <2> DEFINE n == Len(book.tuplesU)
             m == Len(book.testcases)
             u == Upto(n)
             w == Upto(m)
  <2>2. /\ n \in Nat /\ m \in Nat /\ T = 1 .. n /\ S = 1 .. m
        /\ book.coveredTuples = u /\ book.tuplesIdxToPos = u /\ book.uncoveredTuples = <<>>
        /\ book.testcasePosToIdx = w /\ book.testcaseIdxToPos = w
    BY <2>1 DEF Fresh, IdsOf, PlacesOf
  <2>3. /\ DOMAIN u = 1 .. n /\ (\A i \in 1 .. n : u[i] = i) /\ Lists(u, 1 .. n)
        /\ DOMAIN w = 1 .. m /\ \A i \in 1 .. m : w[i] = i
    BY <2>2, UptoIs
  <2> HIDE DEF C, S, T, n, m, u, w
  <2>4. { t \in T : C[t] # {} } = 1 .. n /\ { t \in T : C[t] = {} } = {}
    BY <2>1, <2>2
  <2>5. Lists(<<>>, {})
    BY DEF Lists, IsInjective, Range
  <2>6. /\ Lists(book.coveredTuples, { t \in T : C[t] # {} })
        /\ Lists(book.uncoveredTuples, { t \in T : C[t] = {} })
    BY <2>2, <2>3, <2>4, <2>5
  <2>7. \A q \in DOMAIN book.coveredTuples : book.tuplesIdxToPos[book.coveredTuples[q]] = q
    <3>1. \A q \in DOMAIN u : u[u[q]] = q
      BY <2>3
    <3>2. QED  BY <2>2, <3>1
  <2>8. \A p \in S : book.testcaseIdxToPos[book.testcasePosToIdx[p]] = p
    <3>1. \A p \in S : w[w[p]] = p
      BY <2>2, <2>3
    <3>2. QED  BY <2>2, <3>1
  <2>9. \A idx \in DOMAIN book.testcaseIdxToPos :
          /\ book.testcaseIdxToPos[idx] \in S
          /\ book.testcasePosToIdx[book.testcaseIdxToPos[idx]] = idx
    <3>1. \A idx \in DOMAIN w : w[idx] \in S /\ w[w[idx]] = idx
      BY <2>2, <2>3
    <3>2. QED  BY <2>2, <3>1
  <2>10. QED  BY <2>6, <2>7, <2>8, <2>9
<1>4. QED  BY <1>2, <1>3

(* The threads.                                                            *)
LEMMA InvScan ==
  ASSUME BookInv
  PROVE  ScanExact
<1>1. ASSUME phase = "scan" PROVE Lists(book.tuplesU, { t \in job.start.known : ~CoveredBy(job.start.old, t) })
  BY <1>1 DEF BookInv, Scanning, Target
<1>2. ASSUME NEW i \in Thread, NEW k \in Thread, i # k PROVE job.wrote[i] \cap job.wrote[k] = {}
  <2>1. CASE AtRest
    <3>1. job.wrote = [id \in Thread |-> {}]
      BY <2>1 DEF BookInv, NoJob, Phase
    <3>2. QED  BY <3>1
  <2>2. CASE phase = "cover"
    <3> DEFINE s == job.start
               n == FewNumber
               D(id) == DoneBy(job.at, id, n)
               F(m) == CellsFor(s, m)
    <3>1. /\ s \in Starts /\ Progress(job.at, job.end, n) /\ n \in Nat
          /\ job.wrote = [id \in Thread |-> CellsBy(s, job.at, id)]
      BY <2>2, NumbersAre DEF BookInv, Covering
    <3>2. D(i) \subseteq 0 .. n - 1 /\ D(k) \subseteq 0 .. n - 1 /\ D(i) \cap D(k) = {}
      <4> HIDE DEF n
      <4>1. QED  BY <1>2, <3>1, ProgressIs
    <3>3. \A x, y \in 0 .. n - 1 : x # y => F(x) \cap F(y) = {}
      <4> HIDE DEF s
      <4>1. QED  BY <3>1, CellsApart
    <3>4. job.wrote[i] = UNION { F(m) : m \in D(i) } /\ job.wrote[k] = UNION { F(m) : m \in D(k) }
      BY <3>1 DEF CellsBy
    <3> HIDE DEF F, D, n
    <3>5. QED  BY <3>2, <3>3, <3>4
  <2>3. CASE phase = "collect"
    <3>1. job.wrote = [id \in Thread |-> {}]
      BY <2>3 DEF BookInv, Collecting
    <3>2. QED  BY <3>1
  <2>4. CASE phase = "scan"
    <3> DEFINE n == Len(book.tuplesU)
               D(id) == DoneBy(job.at, id, n)
    <3>1. /\ Progress(job.at, job.end, n) /\ n \in Nat
          /\ job.wrote = [id \in Thread |-> { m + 1 : m \in D(id) }]
      BY <2>4 DEF BookInv, Scanning, Fresh
    <3>2. D(i) \subseteq 0 .. n - 1 /\ D(k) \subseteq 0 .. n - 1 /\ D(i) \cap D(k) = {}
      <4> HIDE DEF n
      <4>1. QED  BY <1>2, <3>1, ProgressIs
    <3> HIDE DEF D, n
    <3>3. job.wrote[i] = { m + 1 : m \in D(i) } /\ job.wrote[k] = { m + 1 : m \in D(k) }
      BY <3>1
    <3>4. QED  BY <3>1, <3>2, <3>3
  <2>5. QED  BY <2>1, <2>2, <2>3, <2>4 DEF BookInv, AtRest
<1>3. QED  BY <1>1, <1>2 DEF ScanExact

(* The fields have their types, for any number of variables, rows, tuples  *)
(* and threads.                                                            *)
THEOREM Typed == Spec => []TypeOK
BY BookInvariance, InvTyped, PTL

(* The counters always agree with the rows: after any sequence of removals,*)
(* overwritings, reweighings and restarts, however the threads that count  *)
(* first have interleaved.                                                 *)
THEOREM CountersAgree == Spec => []CountsExact
BY BookInvariance, InvCounts, PTL

(* The tuple lists stay a partition and the maps the inverses of lists.    *)
THEOREM PlacesAgree == Spec => []PlacesExact
BY BookInvariance, InvPlaces, PTL

(* The unique lists name what their rows cover alone, and the live names   *)
(* in a tuple's lazily cleaned list are those of the rows that cover it.   *)
THEOREM UniqueAgree == Spec => []UniqueExact
BY BookInvariance, InvCounts, PTL

(* What rows are compared by is the weight that would be lost with them.   *)
THEOREM WeightsAgree == Spec => []WeightsExact
BY BookInvariance, InvCounts, PTL

(* The tabu marks that are set differ.                                     *)
THEOREM MarksDiffer == Spec => []MarksDistinct
BY BookInvariance, InvMarks, PTL

(* No two threads write to the same place, in any phase, and a restart     *)
(* finds each of the tuples that are left exactly once.                    *)
THEOREM ScansExact == Spec => []ScanExact
BY BookInvariance, InvScan, PTL

-----------------------------------------------------------------------------
(* The sets of the abstract bookkeeping, in terms of the fields.           *)
UncoveredOf(b) == { b.tuplesU[t] : t \in Range(b.uncoveredTuples) }

LostOf(b, p) ==
  { x \in Range(b.tuplesU) \ UncoveredOf(b) :
      /\ Covers(b.testcases[p], x)
      /\ \A q \in DOMAIN b.testcases \ {p} : ~Covers(b.testcases[q], x) }

(* What is listed as uncovered is what no row covers.                      *)
LEMMA UncoveredIs ==
  ASSUME NEW b, Steady(b)
  PROVE  UncoveredOf(b) = { x \in Range(b.tuplesU) : ~CoveredBy(b.testcases, x) }
<1> DEFINE C == RowsCovering(b)
<1>1. Range(b.uncoveredTuples) = { t \in IdsOf(b) : C[t] = {} }
  BY DEF Steady, Full, Exact, Placed, Lists
<1>2. \A t \in IdsOf(b) : C[t] = {} <=> ~CoveredBy(b.testcases, b.tuplesU[t])
  BY DEF RowsCovering, CoveredBy, PlacesOf
<1>3. Range(b.tuplesU) = { b.tuplesU[t] : t \in IdsOf(b) }
  BY DEF Range, IdsOf
<1> HIDE DEF C
<1>4. QED  BY <1>1, <1>2, <1>3 DEF UncoveredOf

(* A row leaves: what it alone covered is lost.                            *)
LEMMA RemovesIs ==
  ASSUME NEW b, NEW d, Steady(b), Steady(d), d.tuplesU = b.tuplesU,
         NEW p \in PlacesOf(b), d.testcases = SwapOut(b.testcases, p)
  PROVE  UncoveredOf(d) = UncoveredOf(b) \cup LostOf(b, p)
<1> DEFINE rows == b.testcases
           n == Len(rows)
           U == Range(b.tuplesU)
<1>1. rows \in Seq(Row) /\ n \in Nat /\ DOMAIN rows = 1 .. n /\ p \in 1 .. n /\ rows \in [1 .. n -> Row]
  <2>1. rows \in Seq(Row)
    BY FieldsOf DEF Steady
  <2>2. QED  BY <2>1 DEF PlacesOf
<1>2. DOMAIN d.testcases = 1 .. n - 1 /\ \A q \in 1 .. n - 1 : d.testcases[q] = rows[From(p, n, q)]
  <2> HIDE DEF rows, n
  <2>1. SwappedOut(rows, SwapOut(rows, p), n, p, Row)
    BY <1>1, SwapRows
  <2>2. d.testcases = SwapOut(rows, p)
    BY DEF rows
  <2>3. QED  BY <2>1, <2>2 DEF SwappedOut
<1> HIDE DEF rows, n, U
<1>3. \A x : CoveredBy(d.testcases, x) <=> \E q \in DOMAIN rows \ {p} : Covers(rows[q], x)
  <2>1. TAKE x
  <2>2. ASSUME NEW q \in 1 .. n - 1, Covers(d.testcases[q], x)
        PROVE  \E r \in DOMAIN rows \ {p} : Covers(rows[r], x)
    <3>1. From(p, n, q) \in 1 .. n /\ From(p, n, q) # p
      BY <1>1 DEF From
    <3>2. QED  BY <1>1, <1>2, <2>2, <3>1
  <2>3. ASSUME NEW r \in 1 .. n, r # p, Covers(rows[r], x)
        PROVE  \E q \in 1 .. n - 1 : Covers(d.testcases[q], x)
    <3> DEFINE q == IF r = n THEN p ELSE r
    <3>1. q \in 1 .. n - 1 /\ From(p, n, q) = r
      BY <1>1, <2>3 DEF From
    <3>2. QED  BY <1>2, <2>3, <3>1
  <2>4. QED  BY <1>1, <1>2, <2>2, <2>3 DEF CoveredBy
<1>4. UncoveredOf(d) = { x \in U : ~CoveredBy(d.testcases, x) }
  BY UncoveredIs DEF U
<1>5. UncoveredOf(b) = { x \in U : ~CoveredBy(rows, x) }
  BY UncoveredIs DEF U, rows
<1>6. LostOf(b, p) = { x \in U \ UncoveredOf(b) :
                         Covers(rows[p], x) /\ \A q \in DOMAIN rows \ {p} : ~Covers(rows[q], x) }
  BY DEF LostOf, U, rows
<1>7. ASSUME NEW x \in U PROVE x \in UncoveredOf(d) <=> x \in UncoveredOf(b) \/ x \in LostOf(b, p)
  <2>1. CoveredBy(rows, x) <=> Covers(rows[p], x) \/ \E q \in DOMAIN rows \ {p} : Covers(rows[q], x)
    BY <1>1 DEF CoveredBy
  <2>2. QED  BY <1>3, <1>4, <1>5, <1>6, <2>1
<1>8. QED  BY <1>4, <1>5, <1>6, <1>7

(* A row gives way to another: what it alone covered is lost, but for what *)
(* the other covers.                                                       *)
LEMMA ForcesIs ==
  ASSUME NEW b, NEW d, Steady(b), Steady(d), d.tuplesU = b.tuplesU,
         NEW p \in PlacesOf(b), NEW row \in Row, d.testcases = [b.testcases EXCEPT ![p] = row]
  PROVE  UncoveredOf(d) = { x \in UncoveredOf(b) \cup LostOf(b, p) : ~Covers(row, x) }
<1> DEFINE rows == b.testcases
           U == Range(b.tuplesU)
<1>1. rows \in Seq(Row) /\ p \in DOMAIN rows
  <2>1. rows \in Seq(Row)
    BY FieldsOf DEF Steady
  <2>2. QED  BY <2>1 DEF PlacesOf
<1>2. /\ DOMAIN d.testcases = DOMAIN rows /\ d.testcases[p] = row
      /\ \A q \in DOMAIN rows \ {p} : d.testcases[q] = rows[q]
  BY <1>1
<1> HIDE DEF rows, U
<1>3. \A x : CoveredBy(d.testcases, x) <=>
               Covers(row, x) \/ \E q \in DOMAIN rows \ {p} : Covers(rows[q], x)
  BY <1>1, <1>2 DEF CoveredBy
<1>4. UncoveredOf(d) = { x \in U : ~CoveredBy(d.testcases, x) }
  BY UncoveredIs DEF U
<1>5. UncoveredOf(b) = { x \in U : ~CoveredBy(rows, x) }
  BY UncoveredIs DEF U, rows
<1>6. LostOf(b, p) = { x \in U \ UncoveredOf(b) :
                         Covers(rows[p], x) /\ \A q \in DOMAIN rows \ {p} : ~Covers(rows[q], x) }
  BY DEF LostOf, U, rows
<1>7. ASSUME NEW x \in U
      PROVE  x \in UncoveredOf(d) <=> (x \in UncoveredOf(b) \/ x \in LostOf(b, p)) /\ ~Covers(row, x)
  <2>1. CoveredBy(rows, x) <=> Covers(rows[p], x) \/ \E q \in DOMAIN rows \ {p} : Covers(rows[q], x)
    BY <1>1 DEF CoveredBy
  <2>2. QED  BY <1>3, <1>4, <1>5, <1>6, <2>1
<1>8. QED  BY <1>4, <1>5, <1>6, <1>7

(* A new binding covers all of what it lists.                              *)
LEMMA RebindsIs ==
  ASSUME NEW b, Rebinds(b)
  PROVE  /\ b.testcases \in Seq(Row) /\ Range(b.tuplesU) \in SUBSET Tuple
         /\ \A x \in Range(b.tuplesU) : CoveredBy(b.testcases, x)
         /\ UncoveredOf(b) = {}
<1>1. /\ b.tuplesU \in Seq(Tuple) /\ b.testcases \in Seq(Row) /\ b.uncoveredTuples = <<>>
      /\ \A t \in IdsOf(b) : RowsCovering(b)[t] # {}
  BY DEF Rebinds, Fresh
<1>2. \A t \in IdsOf(b) : CoveredBy(b.testcases, b.tuplesU[t])
  BY <1>1 DEF RowsCovering, CoveredBy, PlacesOf
<1>3. Range(b.tuplesU) \in SUBSET Tuple /\ \A x \in Range(b.tuplesU) : CoveredBy(b.testcases, x)
  BY <1>1, <1>2 DEF Range, IdsOf
<1>4. UncoveredOf(b) = {}
  BY <1>1 DEF UncoveredOf, Range
<1>5. QED  BY <1>1, <1>3, <1>4

(* The abstract module removes a row in other words.                       *)
LEMMA SameRemoval ==
  ASSUME NEW S, NEW rows \in Seq(S), NEW p \in DOMAIN rows
  PROVE  SwapOut(rows, p) = Abstract!WithoutRow(rows, p)
<1> DEFINE n == Len(rows)
           moved == [rows EXCEPT ![p] = rows[n]]
<1>1. Last(rows) = rows[n] /\ Len(moved) = n
  BY DEF Last
<1> HIDE DEF n, moved
<1>2. SwapOut(rows, p) = Front(moved) /\ Front(moved) = SubSeq(moved, 1, n - 1)
  BY <1>1 DEF SwapOut, Front, moved, n
<1>3. QED  BY <1>2 DEF Abstract!WithoutRow, moved, n

(* The words of the abstract module mean the same.                         *)
LEMMA SameWords ==
  /\ \A row, t : Abstract!Covers(row, t) <=> Covers(row, t)
  /\ \A rows, t : Abstract!CoveredBy(rows, t) <=> CoveredBy(rows, t)
  /\ Abstract!Tuple = Tuple
<1>1. \A row, t : Abstract!Covers(row, t) <=> Covers(row, t)
  BY DEF Abstract!Covers, Covers
<1>2. \A rows, t : Abstract!CoveredBy(rows, t) <=> CoveredBy(rows, t)
  BY <1>1 DEF Abstract!CoveredBy, CoveredBy
<1>3. \A S : Abstract!Cardinality(S) = Cardinality(S)
  BY Zenon DEF Abstract!Cardinality, Cardinality
<1>4. Abstract!Tuple = Tuple
  BY <1>3 DEF Abstract!Tuple, Tuple, Abstract!TuplesOf, TuplesOf, Abstract!Var, Var, Abstract!Bit, Bit,
         Abstract!kSubset, kSubset
<1>5. QED  BY <1>1, <1>2, <1>4

(* And it says what is lost with the row in other words.                   *)
LEMMA SameLoss ==
  ASSUME NEW p
  PROVE  LostOf(book, p) = Abstract!Lost(book.testcases, p)
<1> DEFINE X == Range(book.tuplesU) \ UncoveredOf(book)
<1>1. \A row, t : Abstract!Covers(row, t) <=> Covers(row, t)
  BY SameWords
<1>2. Abstract!Lost(book.testcases, p) =
        { x \in X : /\ Abstract!Covers(book.testcases[p], x)
                    /\ \A q \in DOMAIN book.testcases \ {p} : ~Abstract!Covers(book.testcases[q], x) }
  BY DEF Abstract!Lost, UncoveredOf
<1> HIDE DEF X
<1>3. QED  BY <1>1, <1>2 DEF LostOf, X

-----------------------------------------------------------------------------
(* An initial state is one of the abstract module.                         *)
LEMMA BeginsAbstractly ==
  ASSUME Init
  PROVE  Abstract!CoverageInit
<1>1. Rebinds(book)
  BY BookInit, ScanningRebinds DEF Init, BookInv
<1> DEFINE r == Range(book.tuplesU)
<1>2. /\ book.testcases \in Seq(Row) /\ r \in SUBSET Tuple
      /\ \A x \in r : CoveredBy(book.testcases, x)
      /\ UncoveredOf(book) = {}
  BY <1>1, RebindsIs
<1>3. r \in SUBSET Abstract!Tuple /\ \A x \in r : Abstract!CoveredBy(book.testcases, x)
  BY <1>2, SameWords
<1>4. QED  BY <1>2, <1>3 DEF Abstract!CoverageInit, Abstract!Complete, UncoveredOf

(* Every outcome is a step of the abstract module, or none at all.         *)
LEMMA StepsAbstractly ==
  ASSUME Outcome(book, book')
  PROVE  [Abstract!CoverageNext]_(Abstract!coverageVars)
<1>1. CASE Keeps(book, book')
  <2>1. /\ book'.testcases = book.testcases /\ book'.tuplesU = book.tuplesU
        /\ Range(book'.uncoveredTuples) = Range(book.uncoveredTuples)
    BY <1>1 DEF Keeps
  <2>2. QED  BY <2>1 DEF Abstract!coverageVars
<1>2. CASE Removes(book, book')
  <2>1. PICK p \in PlacesOf(book) : book'.testcases = SwapOut(book.testcases, p)
    BY <1>2 DEF Removes
  <2>2. Steady(book) /\ Steady(book') /\ book'.tuplesU = book.tuplesU /\ book.testcases \in Seq(Row)
    BY <1>2, FieldsOf DEF Removes, Steady
  <2>3. UncoveredOf(book') = UncoveredOf(book) \cup LostOf(book, p)
    BY <2>1, <2>2, RemovesIs
  <2>4. book'.testcases = Abstract!WithoutRow(book.testcases, p) /\ p \in DOMAIN book.testcases
    BY <2>1, <2>2, SameRemoval DEF PlacesOf
  <2>5. LostOf(book, p) = Abstract!Lost(book.testcases, p)
    BY SameLoss
  <2>6. Abstract!Remove(p)
    BY <2>3, <2>4, <2>5 DEF Abstract!Remove, UncoveredOf
  <2>7. QED  BY <2>2, <2>4, <2>6 DEF Abstract!CoverageNext, Abstract!RowRemoved
<1>3. CASE Forces(book, book')
  <2>1. PICK p \in PlacesOf(book), row \in Row : book'.testcases = [book.testcases EXCEPT ![p] = row]
    BY <1>3 DEF Forces
  <2>2. Steady(book) /\ Steady(book') /\ book'.tuplesU = book.tuplesU
    BY <1>3 DEF Forces
  <2>3. UncoveredOf(book') = { x \in UncoveredOf(book) \cup LostOf(book, p) : ~Covers(row, x) }
    BY <2>1, <2>2, ForcesIs
  <2>4. LostOf(book, p) = Abstract!Lost(book.testcases, p)
    BY SameLoss
  <2>5. Abstract!ForceRow(p, row)
    <3> DEFINE U == UncoveredOf(book)
               L == LostOf(book, p)
    <3>1. { x \in U \cup L : ~Covers(row, x) } = { x \in U \cup L : ~Abstract!Covers(row, x) }
      BY SameWords
    <3>2. UncoveredOf(book') = { x \in UncoveredOf(book) \cup Abstract!Lost(book.testcases, p) : ~Abstract!Covers(row, x) }
      BY <2>3, <2>4, <3>1
    <3>3. QED  BY <2>1, <3>2 DEF Abstract!ForceRow, UncoveredOf
  <2>6. QED  BY <2>1, <2>2, <2>5 DEF Abstract!CoverageNext, Abstract!RowForced, PlacesOf
<1>4. CASE Rebinds(book')
  <2> DEFINE r == Range(book'.tuplesU)
  <2>1. /\ book'.testcases \in Seq(Row) /\ r \in SUBSET Tuple
        /\ \A x \in r : CoveredBy(book'.testcases, x)
        /\ UncoveredOf(book') = {}
    BY <1>4, RebindsIs
  <2>2. Abstract!Rebound
    <3>1. r \in SUBSET Abstract!Tuple /\ \A x \in r : Abstract!CoveredBy(book'.testcases, x)
      BY <2>1, SameWords
    <3>2. QED  BY <2>1, <3>1 DEF Abstract!Rebound, Abstract!Complete, Abstract!Rebind, UncoveredOf
  <2>3. QED  BY <2>2 DEF Abstract!CoverageNext
<1>5. QED  BY <1>1, <1>2, <1>3, <1>4 DEF Outcome

(* The lists and counters implement the coverage sets that the search is   *)
(* built on: what is removed, overwritten or bound there is so here.       *)
THEOREM Implements == Spec => ImplementsCoverage
<1>1. Init => Abstract!CoverageInit
  BY BeginsAbstractly
<1>2. BookInv /\ ColumnsExact /\ [Next]_vars => [Abstract!CoverageNext]_(Abstract!coverageVars)
  BY BookStep, StepsAbstractly
<1>3. QED  BY <1>1, <1>2, BookInvariance, PTL DEF Spec, ImplementsCoverage, Abstract!CoverageSpec

(* What the threads of a scan have written.                                *)
ScanApart == phase = "scan" =>
  \A i, j \in Thread : i # j => job.wrote[i] \cap job.wrote[j] = {}

ScanWhole == phase = "scan" /\ AllDone => UNION { job.wrote[id] : id \in Thread } = Ids

(* However many threads there are, however long the list of tuples is and  *)
(* whatever their speed: no two threads of rebind_pos_to_idx write to the  *)
(* same counter, and when all are done, each counter has been written.     *)
THEOREM ScanShared == Spec => [](ScanApart /\ ScanWhole)
<1>1. BookInv => ScanApart
  BY InvScan DEF ScanExact, ScanApart
<1>2. BookInv => ScanWhole
  <2> SUFFICES ASSUME BookInv, phase = "scan", AllDone
               PROVE  UNION { job.wrote[id] : id \in Thread } = Ids
    BY DEF ScanWhole
  <2> DEFINE n == Len(book.tuplesU)
             D(id) == DoneBy(job.at, id, n)
  <2>1. /\ Progress(job.at, job.end, n) /\ n \in Nat /\ Ids = 1 .. n
        /\ job.wrote = [id \in Thread |-> { m + 1 : m \in D(id) }]
    BY DEF BookInv, Scanning, Fresh, Ids
  <2>2. \A id \in Thread : ~(job.at[id] < job.end[id])
    BY DEF AllDone, AtWork
  <2>3. /\ \A id \in Thread : D(id) \subseteq 0 .. n - 1
        /\ UNION { D(id) : id \in Thread } = 0 .. n - 1
    <3> HIDE DEF n
    <3>1. QED  BY <2>1, <2>2, ProgressIs
  <2> HIDE DEF D, n
  <2>4. ASSUME NEW id \in Thread PROVE job.wrote[id] = { m + 1 : m \in D(id) }
    BY <2>1
  <2>5. ASSUME NEW t \in 1 .. n PROVE \E id \in Thread : t \in job.wrote[id]
    <3>1. t - 1 \in 0 .. n - 1 /\ t = (t - 1) + 1
      BY <2>1
    <3>2. PICK id \in Thread : t - 1 \in D(id)
      BY <2>3, <3>1
    <3>3. QED  BY <2>4, <3>1, <3>2
  <2>6. ASSUME NEW id \in Thread, NEW t \in job.wrote[id] PROVE t \in 1 .. n
    <3>1. PICK m \in D(id) : t = m + 1
      BY <2>4
    <3>2. m \in 0 .. n - 1
      BY <2>3
    <3>3. QED  BY <2>1, <3>1, <3>2
  <2>7. QED  BY <2>1, <2>5, <2>6
<1>3. QED  BY <1>1, <1>2, BookInvariance, PTL

=============================================================================
