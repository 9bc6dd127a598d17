----------------------------- MODULE CdclProof -----------------------------
(***************************************************************************)
(* Proofs about the extended MiniSat, for any files, questions, settings   *)
(* and bounds.                                                             *)
(***************************************************************************)
EXTENDS Cdcl, Foundations

-----------------------------------------------------------------------------
(* The parts of the invariant speak of the fields of the solver, so that   *)
(* an operation that leaves a field alone keeps what is said of it.  n is  *)
(* the number of variables; C are the clauses, T the trail, M the limits   *)
(* of its levels, q how far it is propagated, and W the watches.           *)
LitsOf(n) == (-n .. n) \ {0}

Entries(n) == [lit : LitsOf(n), reason : Nat, level : Nat]

Item(l, from, level) == [lit |-> l, reason |-> from, level |-> level]

Watchers(n) == [cref : Nat, blocker : LitsOf(n)]

Form(t) ==
  t = [ ok |-> t.ok, clause |-> t.clause, orig |-> t.orig, learnt |-> t.learnt,
        watches |-> t.watches, trail |-> t.trail, lim |-> t.lim, qhead |-> t.qhead,
        heap |-> t.heap, polarity |-> t.polarity, userPol |-> t.userPol,
        simpAssigns |-> t.simpAssigns, simpProps |-> t.simpProps ]

(* No clause names a variable twice.                                       *)
IsClause(n, c) ==
  c \in Seq(LitsOf(n)) /\ IsInjective(c) /\ \A l \in Range(c) : -l \notin Range(c)

ClausesOk(n, C) ==
  /\ C = [c \in DOMAIN C |-> C[c]]
  /\ DOMAIN C \subseteq Nat \ {0}
  /\ IsFiniteSet(DOMAIN C)
  /\ \A c \in DOMAIN C : IsClause(n, C[c]) /\ Len(C[c]) >= 2

(* A variable is on the trail once, on the level of its place.             *)
TrailOk(n, T, M, q) ==
  /\ T \in Seq(Entries(n)) /\ M \in Seq(Nat) /\ q \in 0 .. Len(T)
  /\ \A k \in 1 .. Len(M) : M[k] <= q
  /\ \A i, j \in 1 .. Len(T) : Var(T[i].lit) = Var(T[j].lit) => i = j
  /\ \A i \in 1 .. Len(T) : T[i].level <= Len(M)
  /\ \A i \in 1 .. Len(T) : \A k \in 1 .. Len(M) : T[i].level >= k <=> i > M[k]

OnTrail(T, l) == \E i \in 1 .. Len(T) : T[i].lit = l

(* A list of elements of S for each of A.                                  *)
Lists(A, S, f) == f \in [A -> Seq(S)]

(* The watchers S of the literal l.                                        *)
WatchAt(C, l, S) ==
  /\ \A w \in S : /\ w.cref \in DOMAIN C
                  /\ -l \in {C[w.cref][1], C[w.cref][2]}
                  /\ w.blocker \in Range(C[w.cref]) /\ w.blocker # -l
  /\ \A w, v \in S : w.cref = v.cref => w = v
  /\ \A c \in DOMAIN C : -l \in {C[c][1], C[c][2]} => \E w \in S : w.cref = c

WatchOk(n, C, W) ==
  /\ Lists(LitsOf(n), Watchers(n), W)
  /\ \A l \in LitsOf(n) : IsInjective(W[l]) /\ WatchAt(C, l, Range(W[l]))

ReasonOk(C, T) ==
  \A i \in 1 .. Len(T) : T[i].reason # 0 =>
    /\ T[i].reason \in DOMAIN C
    /\ C[T[i].reason][1] = T[i].lit
    /\ \A k \in 2 .. Len(C[T[i].reason]) :
         \E j \in 1 .. i - 1 : T[j].lit = -C[T[i].reason][k]

(* On a level above 0 only the first literal is a decision.                *)
DecisionsOk(T, M) ==
  \A i \in 1 .. Len(T) : T[i].reason = 0 /\ T[i].level > 0 => i = M[T[i].level] + 1

(* The literals that are propagated, up to a level, have left no clause    *)
(* unnoticed: one that watches such a false literal has a true one of the  *)
(* same level or a lower one.                                              *)
Looked(C, T, q, level) ==
  \A c \in DOMAIN C : \A i \in 1 .. q :
    T[i].level <= level /\ -T[i].lit \in {C[c][1], C[c][2]} =>
      \E j \in 1 .. Len(T) : T[j].lit \in Range(C[c]) /\ T[j].level <= T[i].level

Unassigned(n, T) == { v \in 1 .. n : ~OnTrail(T, v) /\ ~OnTrail(T, -v) }

Good(n, t) ==
  /\ Form(t)
  /\ t.ok \in BOOLEAN
  /\ ClausesOk(n, t.clause)
  /\ t.orig \cup t.learnt = DOMAIN t.clause /\ t.orig \cap t.learnt = {}
  /\ TrailOk(n, t.trail, t.lim, t.qhead)
  /\ WatchOk(n, t.clause, t.watches)
  /\ ReasonOk(t.clause, t.trail)
  /\ DecisionsOk(t.trail, t.lim)
  /\ t.polarity \in [1 .. n -> BOOLEAN]
  /\ t.userPol \in [1 .. n -> {-1, 0, 1}]
  /\ t.heap \subseteq 1 .. n /\ Unassigned(n, t.trail) \subseteq t.heap
  /\ t.simpProps \in Int

(* All clauses in memory and the literals of level 0 follow from F.        *)
Makers(m, c) == \E l \in Range(c) : Makes(m, l)

Sound(F, C, T) ==
  \A m \in F : /\ \A c \in DOMAIN C : Makers(m, C[c])
               /\ \A i \in 1 .. Len(T) : T[i].level = 0 => Makes(m, T[i].lit)

(* What the clauses orig and the literals of level 0 leave is in F.        *)
Assignments(n) == [1 .. n -> {0, 1}]

Lossless(n, F, O, C, T) ==
  \A m \in Assignments(n) :
    /\ \A c \in O : Makers(m, C[c])
    /\ \A i \in 1 .. Len(T) : T[i].level = 0 => Makes(m, T[i].lit)
    => m \in F

(* The assumptions A that have a level are true, and decisions on their    *)
(* levels are among them.                                                  *)
AssumedOk(T, M, A) ==
  /\ \A k \in 1 .. Len(A) : k <= Len(M) =>
       \E i \in 1 .. Len(T) : T[i].lit = A[k] /\ T[i].level <= k
  /\ \A i \in 1 .. Len(T) :
       T[i].reason = 0 /\ T[i].level > 0 /\ T[i].level <= Len(A) => T[i].lit \in Range(A)

AllFalse(T, c) == \A l \in Range(c) : OnTrail(T, -l)

Through(t) == t.qhead = Len(t.trail) /\ Looked(t.clause, t.trail, t.qhead, Len(t.lim))

-----------------------------------------------------------------------------
Searching == {"propagate", "calm", "branch", "conflict"}

ControlOk ==
  /\ pc \in {"read", "ready", "end"} \cup Searching
  /\ file \in Files
  /\ read \in 0 .. Len(file.clauses)
  /\ pc # "read" => read = Len(file.clauses)
  /\ pc \in {"read", "ready"} => status \in {"none", "answered"}
  /\ pc \notin {"read", "ready"} => status = "pending" /\ answer = <<>>
  /\ pc \in Searching => s.ok /\ conflict = {}
  /\ assumptions \in Seq(LitsOf(file.vars))

(* The assignments that satisfy the first k clauses of a file.             *)
ModelsOf(f, k) ==
  { m \in Assignments(f.vars) : \A i \in 1 .. k : Makers(m, f.clauses[i]) }

Known == ModelsOf(file, read)

Meant(n, F, t) ==
  /\ Good(n, t) /\ Sound(F, t.clause, t.trail)
  /\ t.ok => Lossless(n, F, t.orig, t.clause, t.trail)
  /\ ~t.ok => F = {}

MeaningOk == Meant(file.vars, Known, s)

ConflictOk ==
  /\ conflict # {} => \A m \in Known : \E l \in conflict : Makes(m, l)
  /\ \A l \in conflict : l \in LitsOf(file.vars) /\ -l \in Range(assumptions)

IdleOk ==
  pc \in {"read", "ready"} => s.lim = <<>> /\ (s.ok => Through(s))

(* Before propagate every level has a literal.                             *)
Opened(T, M) == \A k \in 1 .. Len(M) : M[k] < Len(T)

Clash(C, T, M, q, c) ==
  /\ q = Len(T) /\ Looked(C, T, q, Len(M) - 1)
  /\ c \in DOMAIN C /\ AllFalse(T, C[c])

SearchOk ==
  /\ pc \in Searching => AssumedOk(s.trail, s.lim, assumptions)
  /\ pc = "propagate" =>
       Looked(s.clause, s.trail, s.qhead, Len(s.lim)) /\ Opened(s.trail, s.lim)
  /\ pc \in {"calm", "branch"} => Through(s)
  /\ pc = "conflict" => Clash(s.clause, s.trail, s.lim, s.qhead, confl)

EndOk ==
  pc = "end" =>
    /\ model # <<>> =>
         /\ s.ok /\ Through(s) /\ conflict = {}
         /\ model \in Known /\ \A l \in Range(assumptions) : Makes(model, l)
    /\ model = <<>> /\ conflict # {} => s.ok /\ Through(s)
    /\ model = <<>> /\ conflict = {} => Known = {}

CdclInv ==
  /\ ControlOk
  /\ MeaningOk
  /\ ConflictOk
  /\ IdleOk
  /\ SearchOk
  /\ EndOk

-----------------------------------------------------------------------------
(* Literals and assignments.                                               *)
LEMMA Literals ==
  ASSUME NEW n \in Nat
  PROVE  /\ \A l \in LitsOf(n) : -l \in LitsOf(n) /\ -(-l) = l /\ -l # l /\ Var(l) \in 1 .. n /\ Var(-l) = Var(l)
         /\ \A k, l \in LitsOf(n) : Var(k) = Var(l) <=> k = l \/ k = -l
         /\ \A v \in 1 .. n : v \in LitsOf(n) /\ -v \in LitsOf(n) /\ Var(v) = v
         /\ \A m \in Assignments(n) : \A l \in LitsOf(n) : Makes(m, -l) <=> ~Makes(m, l)
  BY DEF LitsOf, Var, Assignments, Makes

LEMMA LitsFinite ==
  ASSUME NEW n \in Nat
  PROVE  IsFiniteSet(LitsOf(n))
<1>1. IsFiniteSet(-n .. n)
  <2> DEFINE a == -n
  <2>1. a \in Int /\ n \in Int
    OBVIOUS
  <2> HIDE DEF a
  <2>2. IsFiniteSet(a .. n)
    BY <2>1, FS_Interval
  <2>3. QED  BY <2>2 DEF a
<1>2. LitsOf(n) \in SUBSET (-n .. n)
  BY DEF LitsOf
<1>3. QED  BY <1>1, <1>2, FS_Subset

(* One entry more on the trail.                                            *)
Free(T, l) == ~OnTrail(T, l) /\ ~OnTrail(T, -l)

Grown(T, M, l, from, U) == U = Append(T, Item(l, from, Len(M)))

LEMMA TrailGrows ==
  ASSUME NEW n \in Nat, NEW T, NEW M, NEW q, TrailOk(n, T, M, q),
         NEW l \in LitsOf(n), Free(T, l), NEW from \in Nat,
         NEW U, Grown(T, M, l, from, U)
  PROVE  /\ TrailOk(n, U, M, q)
         /\ Len(U) = Len(T) + 1 /\ \A i \in 1 .. Len(T) : i \in 1 .. Len(U) /\ U[i] = T[i]
         /\ U[Len(U)] = Item(l, from, Len(M))
         /\ \A k : OnTrail(U, k) <=> OnTrail(T, k) \/ k = l
         /\ Unassigned(n, U) \subseteq Unassigned(n, T)
<1> DEFINE e == Item(l, from, Len(M))
<1>1. /\ T \in Seq(Entries(n)) /\ M \in Seq(Nat) /\ q \in 0 .. Len(T) /\ Len(T) \in Nat /\ Len(M) \in Nat
      /\ e \in Entries(n) /\ e.lit = l /\ e.level = Len(M) /\ e.reason = from
  BY DEF TrailOk, Entries, Item
<1>2. \A i \in 1 .. Len(T) : T[i] \in Entries(n) /\ T[i].lit \in LitsOf(n)
  <2>1. \A x \in Entries(n) : x.lit \in LitsOf(n)
    BY DEF Entries
  <2>2. \A i \in 1 .. Len(T) : T[i] \in Entries(n)
    BY <1>1
  <2>3. QED  BY <2>1, <2>2
<1> HIDE DEF e
<1>3. /\ U \in Seq(Entries(n)) /\ Len(U) = Len(T) + 1 /\ U[Len(T) + 1] = e
      /\ \A i \in 1 .. Len(T) : U[i] = T[i]
  BY <1>1 DEF Grown, e
<1>4. \A i \in 1 .. Len(U) : i \in 1 .. Len(T) \/ i = Len(T) + 1
  BY <1>1, <1>3
<1>5. \A k : OnTrail(U, k) <=> OnTrail(T, k) \/ k = l
  <2>1. /\ \A i \in 1 .. Len(T) : i \in 1 .. Len(U) /\ U[i].lit = T[i].lit
        /\ Len(T) + 1 \in 1 .. Len(U) /\ U[Len(T) + 1].lit = l
    BY <1>1, <1>3
  <2>2. ASSUME NEW k, OnTrail(U, k) PROVE OnTrail(T, k) \/ k = l
    <3>1. PICK i \in 1 .. Len(U) : U[i].lit = k
      BY <2>2 DEF OnTrail
    <3>2. CASE i \in 1 .. Len(T)
      BY <2>1, <3>1, <3>2 DEF OnTrail
    <3>3. CASE i = Len(T) + 1
      BY ONLY <2>1, <3>1, <3>3
    <3>4. QED  BY <1>4, <3>2, <3>3
  <2>3. ASSUME NEW k, OnTrail(T, k) \/ k = l PROVE OnTrail(U, k)
    <3>1. CASE OnTrail(T, k)
      BY <2>1, <3>1 DEF OnTrail
    <3>2. CASE k = l
      BY <2>1, <3>2 DEF OnTrail
    <3>3. QED  BY <2>3, <3>1, <3>2
  <2>4. QED  BY <2>2, <2>3
<1>6. ASSUME NEW i \in 1 .. Len(T) PROVE Var(T[i].lit) # Var(l)
  <2>1. T[i].lit # l /\ T[i].lit # -l
    BY DEF OnTrail, Free
  <2>2. QED  BY <1>2, <2>1, Literals
<1>7. \A i, j \in 1 .. Len(U) : Var(U[i].lit) = Var(U[j].lit) => i = j
  <2>1. SUFFICES ASSUME NEW i \in 1 .. Len(U), NEW j \in 1 .. Len(U), Var(U[i].lit) = Var(U[j].lit) PROVE i = j
    OBVIOUS
  <2>2. CASE i \in 1 .. Len(T) /\ j \in 1 .. Len(T)
    <3>1. Var(T[i].lit) = Var(T[j].lit)
      BY <1>3, <2>1, <2>2
    <3>2. QED  BY <2>2, <3>1 DEF TrailOk
  <2>3. QED  BY <1>1, <1>3, <1>4, <1>6, <2>1, <2>2
<1>8. \A i \in 1 .. Len(U) : U[i].level <= Len(M) /\ \A k \in 1 .. Len(M) : U[i].level >= k <=> i > M[k]
  <2>1. ASSUME NEW k \in 1 .. Len(M) PROVE M[k] <= Len(T) /\ M[k] \in Nat
    <3>1. M[k] <= q
      BY DEF TrailOk
    <3>2. M[k] \in Nat
      <4>1. M \in Seq(Nat)
        BY <1>1
      <4>2. QED  BY <4>1
    <3>3. QED  BY <1>1, <3>1, <3>2
  <2>2. \A i \in 1 .. Len(T) : T[i].level <= Len(M) /\ \A k \in 1 .. Len(M) : T[i].level >= k <=> i > M[k]
    BY DEF TrailOk
  <2>3. ASSUME NEW i \in 1 .. Len(U)
        PROVE  U[i].level <= Len(M) /\ \A k \in 1 .. Len(M) : U[i].level >= k <=> i > M[k]
    <3>1. CASE i \in 1 .. Len(T)
      <4>1. U[i] = T[i]
        BY <1>3, <3>1
      <4>2. T[i].level <= Len(M) /\ \A k \in 1 .. Len(M) : T[i].level >= k <=> i > M[k]
        BY <2>2, <3>1
      <4>3. QED  BY ONLY <4>1, <4>2
    <3>2. CASE i = Len(T) + 1
      <4>1. U[i].level = Len(M)
        BY <1>1, <1>3, <3>2
      <4>2. QED  BY <1>1, <2>1, <3>2, <4>1
    <3>3. QED  BY <1>4, <3>1, <3>2
  <2>4. QED  BY <2>3
<1>9. TrailOk(n, U, M, q)
  <2>1. \A k \in 1 .. Len(M) : M[k] <= q
    BY DEF TrailOk
  <2>2. q \in 0 .. Len(U)
    BY <1>1, <1>3
  <2>3. QED  BY <1>1, <1>3, <1>7, <1>8, <2>1, <2>2 DEF TrailOk
<1>10. QED  BY <1>1, <1>3, <1>4, <1>5, <1>9 DEF Unassigned, e

(* A trail that continues another.                                         *)
Continues(U, T) == Len(T) <= Len(U) /\ \A i \in 1 .. Len(T) : U[i] = T[i]

LEMMA LookedContinues ==
  ASSUME NEW C, NEW T, NEW q \in 0 .. Len(T), NEW level, Looked(C, T, q, level),
         NEW U, Continues(U, T), Len(T) \in Nat, Len(U) \in Nat
  PROVE  Looked(C, U, q, level)
<1>1. SUFFICES ASSUME NEW c \in DOMAIN C, NEW i \in 1 .. q, U[i].level <= level,
                      -U[i].lit \in {C[c][1], C[c][2]}
               PROVE  \E j \in 1 .. Len(U) : U[j].lit \in Range(C[c]) /\ U[j].level <= U[i].level
  BY DEF Looked
<1>2. i \in 1 .. Len(T) /\ U[i] = T[i]
  BY DEF Continues
<1>3. PICK j \in 1 .. Len(T) : T[j].lit \in Range(C[c]) /\ T[j].level <= T[i].level
  BY <1>1, <1>2 DEF Looked
<1>4. j \in 1 .. Len(U) /\ U[j] = T[j]
  BY DEF Continues
<1>5. QED  BY <1>2, <1>3, <1>4

LEMMA ReasonGrows ==
  ASSUME NEW C, NEW T, ReasonOk(C, T), NEW e, NEW U,
         Len(T) \in Nat, Len(U) = Len(T) + 1, \A i \in 1 .. Len(T) : U[i] = T[i], U[Len(U)] = e,
         e.reason # 0 => /\ e.reason \in DOMAIN C /\ C[e.reason][1] = e.lit
                         /\ \A k \in 2 .. Len(C[e.reason]) : OnTrail(T, -C[e.reason][k])
  PROVE  ReasonOk(C, U)
<1>1. SUFFICES ASSUME NEW i \in 1 .. Len(U), U[i].reason # 0
               PROVE  /\ U[i].reason \in DOMAIN C
                      /\ C[U[i].reason][1] = U[i].lit
                      /\ \A k \in 2 .. Len(C[U[i].reason]) :
                           \E j \in 1 .. i - 1 : U[j].lit = -C[U[i].reason][k]
  BY DEF ReasonOk
<1>2. CASE i \in 1 .. Len(T)
  <2>1. U[i] = T[i]
    BY <1>2
  <2>2. /\ T[i].reason \in DOMAIN C
        /\ C[T[i].reason][1] = T[i].lit
        /\ \A k \in 2 .. Len(C[T[i].reason]) :
             \E j \in 1 .. i - 1 : T[j].lit = -C[T[i].reason][k]
    BY <1>1, <1>2, <2>1 DEF ReasonOk
  <2>3. \A j \in 1 .. i - 1 : U[j] = T[j]
    BY <1>2
  <2>4. QED  BY <2>1, <2>2, <2>3
<1>3. CASE i = Len(T) + 1
  <2>1. U[i] = e /\ i - 1 = Len(T)
    BY <1>3
  <2>2. \A k \in 2 .. Len(C[e.reason]) : \E j \in 1 .. Len(T) : T[j].lit = -C[e.reason][k]
    BY <1>1, <2>1 DEF OnTrail
  <2>3. \A k \in 2 .. Len(C[e.reason]) : \E j \in 1 .. i - 1 : U[j].lit = -C[e.reason][k]
    BY <2>1, <2>2
  <2>4. QED  BY <1>1, <2>1, <2>3
<1>4. QED  BY <1>2, <1>3

LEMMA DecisionsGrow ==
  ASSUME NEW T, NEW M, DecisionsOk(T, M), NEW U, NEW e,
         Len(T) \in Nat, Len(U) = Len(T) + 1, \A i \in 1 .. Len(T) : U[i] = T[i], U[Len(U)] = e,
         e.reason = 0 /\ e.level > 0 => Len(U) = M[e.level] + 1
  PROVE  DecisionsOk(U, M)
<1>1. SUFFICES ASSUME NEW i \in 1 .. Len(U), U[i].reason = 0, U[i].level > 0 PROVE i = M[U[i].level] + 1
  BY DEF DecisionsOk
<1>2. CASE i \in 1 .. Len(T)
  BY <1>1, <1>2 DEF DecisionsOk
<1>3. CASE i = Len(T) + 1
  BY <1>1, <1>3
<1>4. QED  BY <1>2, <1>3

LEMMA SoundGrows ==
  ASSUME NEW F, NEW C, NEW T, Sound(F, C, T), NEW e, NEW U,
         Len(T) \in Nat, Len(U) = Len(T) + 1, \A i \in 1 .. Len(T) : U[i] = T[i], U[Len(U)] = e,
         e.level = 0 => \A m \in F : Makes(m, e.lit)
  PROVE  Sound(F, C, U)
<1>1. \A i \in 1 .. Len(U) : i \in 1 .. Len(T) \/ i = Len(U)
  OBVIOUS
<1>2. SUFFICES ASSUME NEW m \in F
               PROVE  /\ \A c \in DOMAIN C : Makers(m, C[c])
                      /\ \A i \in 1 .. Len(U) : U[i].level = 0 => Makes(m, U[i].lit)
  BY DEF Sound
<1>3. /\ \A c \in DOMAIN C : Makers(m, C[c])
      /\ \A i \in 1 .. Len(T) : T[i].level = 0 => Makes(m, T[i].lit)
  BY DEF Sound
<1>4. QED  BY <1>1, <1>3

LEMMA LosslessContinues ==
  ASSUME NEW n, NEW F, NEW O, NEW C, NEW T, Lossless(n, F, O, C, T), NEW U, Continues(U, T),
         Len(T) \in Nat, Len(U) \in Nat
  PROVE  Lossless(n, F, O, C, U)
<1>1. \A i \in 1 .. Len(T) : i \in 1 .. Len(U) /\ U[i] = T[i]
  BY DEF Continues
<1>2. QED  BY <1>1 DEF Lossless

-----------------------------------------------------------------------------
(* A function with one value changed.                                      *)
Put(f, a, v) == [f EXCEPT ![a] = v]

(* One element more in one of a family of lists.                           *)
LEMMA ListedIs ==
  ASSUME NEW A, NEW S, NEW f, Lists(A, S, f), NEW a \in A, NEW v \in S, v \notin Range(f[a]),
         IsInjective(f[a]), NEW g, g = Listed(f, a, v)
  PROVE  /\ Lists(A, S, g) /\ Range(g[a]) = Range(f[a]) \cup {v} /\ IsInjective(g[a])
         /\ \A b \in A : b # a => g[b] = f[b]
<1> DEFINE L == Append(f[a], v)
<1>1. g = [f EXCEPT ![a] = L]
  BY DEF Listed
<1>2. L \in Seq(S) /\ Range(L) = Range(f[a]) \cup {v} /\ IsInjective(L)
  <2>1. f[a] \in Seq(S)
    BY DEF Lists
  <2>2. QED  BY <2>1, ListAppend
<1> HIDE DEF L
<1>3. g[a] = L /\ Lists(A, S, g) /\ \A b \in A : b # a => g[b] = f[b]
  BY <1>1, <1>2 DEF Lists
<1>4. QED  BY <1>2, <1>3

(* Clauses.  Two literals change places.                                   *)
Swapped(c, i, j) == [c EXCEPT ![i] = c[j], ![j] = c[i]]

LEMMA SwapPlaces ==
  ASSUME NEW S, NEW c \in Seq(S), NEW i \in 1 .. Len(c), NEW j \in 1 .. Len(c),
         NEW d, d = Swapped(c, i, j)
  PROVE  /\ d \in Seq(S) /\ Len(d) = Len(c) /\ Range(d) = Range(c)
         /\ d[i] = c[j] /\ d[j] = c[i] /\ \A k \in 1 .. Len(c) : k # i /\ k # j => d[k] = c[k]
         /\ IsInjective(c) => IsInjective(d)
<1>1. DOMAIN c = 1 .. Len(c) /\ Len(c) \in Nat /\ \A k \in 1 .. Len(c) : c[k] \in S
  OBVIOUS
<1>2. /\ DOMAIN d = 1 .. Len(c) /\ d = [k \in 1 .. Len(c) |-> d[k]]
      /\ d[i] = c[j] /\ d[j] = c[i] /\ \A k \in 1 .. Len(c) : k # i /\ k # j => d[k] = c[k]
  BY <1>1 DEF Swapped
<1>3. d \in Seq(S) /\ Len(d) = Len(c)
  <2>1. \A k \in 1 .. Len(c) : d[k] \in S
    <3>1. \A k \in 1 .. Len(c) : k = i \/ k = j \/ d[k] = c[k]
      BY <1>2
    <3>2. QED  BY <1>1, <1>2, <3>1
  <2> DEFINE m == Len(c)
  <2> HIDE DEF m
  <2>2. d = [k \in 1 .. m |-> d[k]] /\ m \in Nat /\ \A k \in 1 .. m : d[k] \in S
    BY <1>1, <1>2, <2>1 DEF m
  <2>3. d \in [1 .. m -> S]
    BY <2>2
  <2>4. d \in Seq(S) /\ Len(d) = m
    BY <2>2, <2>3
  <2>5. QED  BY <2>4 DEF m
<1>4. Range(d) = Range(c)
  <2>1. \A k \in 1 .. Len(c) : (\E x \in 1 .. Len(c) : d[x] = c[k]) /\ (\E x \in 1 .. Len(c) : c[x] = d[k])
    BY <1>2
  <2>2. ASSUME NEW x PROVE x \in Range(d) <=> x \in Range(c)
    <3>1. x \in Range(d) <=> \E k \in 1 .. Len(c) : x = d[k]
      BY <1>2 DEF Range
    <3>2. x \in Range(c) <=> \E k \in 1 .. Len(c) : x = c[k]
      BY <1>1 DEF Range
    <3>3. ASSUME x \in Range(d) PROVE x \in Range(c)
      <4>1. PICK k \in 1 .. Len(c) : x = d[k]
        BY <3>1, <3>3
      <4>2. PICK y \in 1 .. Len(c) : c[y] = d[k]
        BY <2>1
      <4>3. QED  BY <3>2, <4>1, <4>2
    <3>4. ASSUME x \in Range(c) PROVE x \in Range(d)
      <4>1. PICK k \in 1 .. Len(c) : x = c[k]
        BY <3>2, <3>4
      <4>2. PICK y \in 1 .. Len(c) : d[y] = c[k]
        BY <2>1
      <4>3. QED  BY <3>1, <4>1, <4>2
    <3>5. QED  BY <3>3, <3>4
  <2>3. QED  BY <2>2
<1>5. IsInjective(c) => IsInjective(d)
  BY <1>1, <1>2 DEF IsInjective
<1>6. QED  BY <1>2, <1>3, <1>4, <1>5

(* The literals of a clause.                                               *)
LEMMA ClauseIs ==
  ASSUME NEW n \in Nat, NEW c, IsClause(n, c)
  PROVE  /\ Len(c) \in Nat /\ DOMAIN c = 1 .. Len(c) /\ c \in Seq(LitsOf(n))
         /\ \A k \in 1 .. Len(c) : c[k] \in LitsOf(n) /\ c[k] \in Range(c)
         /\ \A i, j \in 1 .. Len(c) : i # j => c[i] # c[j] /\ c[i] # -c[j]
         /\ \A l : l \in Range(c) <=> \E k \in 1 .. Len(c) : c[k] = l
         /\ Range(c) \subseteq LitsOf(n)
<1>1. c \in Seq(LitsOf(n)) /\ IsInjective(c) /\ \A l \in Range(c) : -l \notin Range(c)
  BY DEF IsClause
<1>2. Len(c) \in Nat /\ DOMAIN c = 1 .. Len(c)
  BY <1>1
<1>3. \A k \in 1 .. Len(c) : c[k] \in LitsOf(n)
  BY <1>1
<1>4. \A l : l \in Range(c) <=> \E k \in 1 .. Len(c) : c[k] = l
  BY <1>2 DEF Range
<1>5. \A i, j \in 1 .. Len(c) : i # j => c[i] # c[j] /\ c[i] # -c[j]
  <2>1. \A i, j \in 1 .. Len(c) : c[i] = c[j] => i = j
    BY <1>1, <1>2 DEF IsInjective
  <2>2. \A i, j \in 1 .. Len(c) : c[i] # -c[j]
    BY <1>1, <1>4
  <2>3. QED  BY <2>1, <2>2
<1>6. QED  BY <1>1, <1>2, <1>3, <1>4, <1>5

(* FalseSecond puts the false watched literal second.                      *)
LEMMA FalseSecondIs ==
  ASSUME NEW n \in Nat, NEW c, IsClause(n, c), Len(c) >= 2, NEW p \in LitsOf(n), -p \in {c[1], c[2]},
         NEW d, d = FalseSecond(c, p)
  PROVE  /\ IsClause(n, d) /\ Len(d) = Len(c) /\ Range(d) = Range(c)
         /\ d[2] = -p /\ d[1] # -p /\ {d[1], d[2]} = {c[1], c[2]}
         /\ \A k \in 3 .. Len(c) : d[k] = c[k]
         /\ c[1] # -p => d = c
<1>1. c[1] # c[2] /\ 1 \in 1 .. Len(c) /\ 2 \in 1 .. Len(c) /\ c \in Seq(LitsOf(n)) /\ IsInjective(c)
  BY ClauseIs DEF IsClause
<1>2. CASE c[1] = -p
  <2>1. d = Swapped(c, 1, 2)
    BY <1>2 DEF FalseSecond, Swapped
  <2>2. /\ d \in Seq(LitsOf(n)) /\ Len(d) = Len(c) /\ Range(d) = Range(c)
        /\ d[1] = c[2] /\ d[2] = c[1] /\ \A k \in 1 .. Len(c) : k # 1 /\ k # 2 => d[k] = c[k]
        /\ IsInjective(d)
    <3> DEFINE i == 1
               j == 2
    <3>1. c \in Seq(LitsOf(n)) /\ i \in 1 .. Len(c) /\ j \in 1 .. Len(c) /\ d = Swapped(c, i, j)
      BY <1>1, <2>1
    <3> HIDE DEF i, j
    <3>2. /\ d \in Seq(LitsOf(n)) /\ Len(d) = Len(c) /\ Range(d) = Range(c)
          /\ d[i] = c[j] /\ d[j] = c[i] /\ \A k \in 1 .. Len(c) : k # i /\ k # j => d[k] = c[k]
          /\ IsInjective(c) => IsInjective(d)
      BY <3>1, SwapPlaces
    <3>3. QED  BY <1>1, <3>2 DEF i, j
  <2>3. \A k \in 3 .. Len(c) : d[k] = c[k]
    BY <2>2
  <2>4. IsClause(n, d)
    BY <2>2 DEF IsClause
  <2>5. QED  BY <1>1, <1>2, <2>2, <2>3, <2>4
<1>3. CASE c[1] # -p
  <2>1. d = c
    BY <1>3 DEF FalseSecond
  <2>2. QED  BY <1>3, <2>1
<1>4. QED  BY <1>2, <1>3

(* The trail.                                                              *)
LEMMA TrailIs ==
  ASSUME NEW n \in Nat, NEW T, NEW M, NEW q, TrailOk(n, T, M, q)
  PROVE  /\ Len(T) \in Nat /\ Len(M) \in Nat /\ q \in Nat /\ q <= Len(T)
         /\ DOMAIN T = 1 .. Len(T)
         /\ \A i \in 1 .. Len(T) : /\ T[i].lit \in LitsOf(n) /\ T[i].reason \in Nat
                                   /\ T[i].level \in 0 .. Len(M)
         /\ \A k \in 1 .. Len(M) : M[k] \in 0 .. q
         /\ \A l \in LitsOf(n) : ~(OnTrail(T, l) /\ OnTrail(T, -l))
<1>1. T \in Seq(Entries(n)) /\ M \in Seq(Nat) /\ q \in 0 .. Len(T)
  BY DEF TrailOk
<1>2. Len(T) \in Nat /\ Len(M) \in Nat /\ DOMAIN T = 1 .. Len(T)
  BY <1>1
<1>3. ASSUME NEW i \in 1 .. Len(T)
      PROVE  T[i].lit \in LitsOf(n) /\ T[i].reason \in Nat /\ T[i].level \in 0 .. Len(M)
  <2>1. T[i] \in Entries(n)
    BY <1>1
  <2>2. T[i].level <= Len(M)
    BY DEF TrailOk
  <2>3. T[i].lit \in LitsOf(n) /\ T[i].reason \in Nat /\ T[i].level \in Nat
    BY <2>1 DEF Entries
  <2>4. QED  BY <1>2, <2>2, <2>3
<1>4. ASSUME NEW k \in 1 .. Len(M) PROVE M[k] \in 0 .. q
  <2>1. M \in Seq(Nat)
    BY <1>1
  <2>2. M[k] \in Nat
    BY <2>1
  <2>3. M[k] <= q
    BY DEF TrailOk
  <2>4. QED  BY <1>1, <1>2, <2>2, <2>3
<1>5. ASSUME NEW l \in LitsOf(n), OnTrail(T, l), OnTrail(T, -l) PROVE FALSE
  <2>1. PICK i \in 1 .. Len(T) : T[i].lit = l
    BY <1>5 DEF OnTrail
  <2>2. PICK j \in 1 .. Len(T) : T[j].lit = -l
    BY <1>5 DEF OnTrail
  <2>3. Var(l) = Var(-l) /\ l # -l
    BY Literals
  <2>4. i = j
    BY <2>1, <2>2, <2>3 DEF TrailOk
  <2>5. QED  BY <2>1, <2>2, <2>3, <2>4
<1>6. q \in Nat /\ q <= Len(T)
  BY <1>1, <1>2
<1>7. QED  BY <1>2, <1>3, <1>4, <1>5, <1>6

(* The clauses.                                                            *)
LEMMA ClausesAre ==
  ASSUME NEW n \in Nat, NEW C, ClausesOk(n, C), NEW c \in DOMAIN C
  PROVE  /\ IsClause(n, C[c]) /\ Len(C[c]) >= 2 /\ c \in Nat /\ c # 0
         /\ C[c][1] # C[c][2] /\ C[c][1] \in LitsOf(n) /\ C[c][2] \in LitsOf(n)
         /\ C[c][1] \in Range(C[c]) /\ C[c][2] \in Range(C[c])
         /\ Range(C[c]) \subseteq LitsOf(n)
<1>1. IsClause(n, C[c]) /\ Len(C[c]) >= 2 /\ c \in Nat /\ c # 0
  BY DEF ClausesOk
<1>2. Len(C[c]) \in Nat
  BY <1>1, ClauseIs
<1>3. 1 \in 1 .. Len(C[c]) /\ 2 \in 1 .. Len(C[c])
  BY <1>1, <1>2
<1> DEFINE d == C[c]
<1>4. IsClause(n, d) /\ n \in Nat /\ 1 \in 1 .. Len(d) /\ 2 \in 1 .. Len(d)
  BY <1>1, <1>3
<1> HIDE DEF d
<1>5. Range(d) \subseteq LitsOf(n) /\ d[1] \in Range(d) /\ d[2] \in Range(d) /\ d[1] # d[2]
  BY ONLY <1>4, ClauseIs
<1>6. d[1] \in LitsOf(n) /\ d[2] \in LitsOf(n)
  BY <1>5
<1>7. QED  BY <1>1, <1>5, <1>6 DEF d

(* The clauses C, some of their literals having changed places.            *)
Permuted(C, D) ==
  DOMAIN D = DOMAIN C /\ \A c \in DOMAIN C : Range(D[c]) = Range(C[c]) /\ Len(D[c]) = Len(C[c])

SameWatched(C, D) == \A c \in DOMAIN C : {D[c][1], D[c][2]} = {C[c][1], C[c][2]}

LEMMA WatchSame ==
  ASSUME NEW C, NEW D, Permuted(C, D), SameWatched(C, D), NEW l, NEW S, WatchAt(C, l, S)
  PROVE  WatchAt(D, l, S)
  BY DEF Permuted, SameWatched, WatchAt

LEMMA WatchSameAt ==
  ASSUME NEW C, NEW D, Permuted(C, D), NEW l,
         \A c \in DOMAIN C : -l \in {D[c][1], D[c][2]} <=> -l \in {C[c][1], C[c][2]},
         NEW S, WatchAt(C, l, S)
  PROVE  WatchAt(D, l, S)
<1>1. \A c \in DOMAIN C : Range(D[c]) = Range(C[c]) /\ c \in DOMAIN D
  BY DEF Permuted
<1>2. \A w \in S : /\ w.cref \in DOMAIN C /\ -l \in {C[w.cref][1], C[w.cref][2]}
                   /\ w.blocker \in Range(C[w.cref]) /\ w.blocker # -l
  BY DEF WatchAt
<1>3. \A w \in S : /\ w.cref \in DOMAIN D /\ -l \in {D[w.cref][1], D[w.cref][2]}
                   /\ w.blocker \in Range(D[w.cref]) /\ w.blocker # -l
  BY <1>1, <1>2
<1>4. \A w, v \in S : w.cref = v.cref => w = v
  BY DEF WatchAt
<1>5. \A c \in DOMAIN D : -l \in {D[c][1], D[c][2]} => \E w \in S : w.cref = c
  BY DEF WatchAt, Permuted
<1>6. QED  BY <1>3, <1>4, <1>5 DEF WatchAt

(* The watchers not looked at yet.                                         *)
Rest(ws, k) == { ws[i] : i \in k + 1 .. Len(ws) }

MidWatch(n, p, ws, C, W, K, k) ==
  /\ Lists(LitsOf(n), Watchers(n), W)
  /\ W[p] = ws
  /\ \A l \in LitsOf(n) : l # p => IsInjective(W[l]) /\ WatchAt(C, l, Range(W[l]))
  /\ K \in Seq(Watchers(n)) /\ IsInjective(K)
  /\ WatchAt(C, p, Range(K) \cup Rest(ws, k))
  /\ Range(K) \cap Rest(ws, k) = {}

(* One watcher less to look at.                                            *)
LEMMA RestIs ==
  ASSUME NEW S, NEW ws \in Seq(S), IsInjective(ws), NEW k \in 0 .. Len(ws) - 1
  PROVE  /\ Rest(ws, k + 1) = Rest(ws, k) \ {ws[k + 1]}
         /\ ws[k + 1] \in Rest(ws, k) /\ ws[k + 1] \in S
<1>1. Len(ws) \in Nat /\ DOMAIN ws = 1 .. Len(ws) /\ k + 1 \in 1 .. Len(ws)
  OBVIOUS
<1>2. \A i \in (k + 1) + 1 .. Len(ws) : ws[i] # ws[k + 1]
  BY <1>1 DEF IsInjective
<1>3. \A i : i \in k + 1 .. Len(ws) <=> i = k + 1 \/ i \in (k + 1) + 1 .. Len(ws)
  BY <1>1
<1>4. QED  BY <1>1, <1>2, <1>3 DEF Rest

(* A watcher of p is kept, perhaps with another blocker.                   *)
LEMMA WatcherKept ==
  ASSUME NEW n \in Nat, NEW p \in LitsOf(n), NEW ws \in Seq(Watchers(n)), IsInjective(ws),
         NEW C, NEW W, NEW K, NEW k \in 0 .. Len(ws) - 1, MidWatch(n, p, ws, C, W, K, k),
         NEW v \in Watchers(n), v.cref = ws[k + 1].cref, v.blocker \in Range(C[v.cref]), v.blocker # -p
  PROVE  MidWatch(n, p, ws, C, W, Append(K, v), k + 1)
<1> DEFINE w == ws[k + 1]
           L == Append(K, v)
           R == Rest(ws, k)
           Q == Rest(ws, k + 1)
<1>1. Q = R \ {w} /\ w \in R
  <2> DEFINE S == Watchers(n)
  <2>1. ws \in Seq(S) /\ IsInjective(ws) /\ k \in 0 .. Len(ws) - 1
    OBVIOUS
  <2> HIDE DEF S
  <2>2. Rest(ws, k + 1) = Rest(ws, k) \ {ws[k + 1]} /\ ws[k + 1] \in Rest(ws, k)
    BY ONLY <2>1, RestIs
  <2>3. QED  BY <2>2
<1>2. K \in Seq(Watchers(n)) /\ IsInjective(K) /\ WatchAt(C, p, Range(K) \cup R) /\ Range(K) \cap R = {}
  BY DEF MidWatch
<1>3. \A x \in Range(K) : x.cref # w.cref
  BY <1>1, <1>2 DEF WatchAt
<1>4. v \notin Range(K)
  BY <1>3
<1>5. L \in Seq(Watchers(n)) /\ Range(L) = Range(K) \cup {v} /\ IsInjective(L)
  BY <1>2, <1>4, ListAppend
<1> HIDE DEF L, R, Q
<1>6. \A x \in Q : x.cref # v.cref
  BY <1>1, <1>2 DEF WatchAt
<1>7. Range(L) \cap Q = {}
  BY <1>1, <1>2, <1>5, <1>6
<1>8. WatchAt(C, p, Range(L) \cup Q)
  <2> DEFINE old == Range(K) \cup R
             new == Range(L) \cup Q
  <2>1. \A x : x \in new <=> x = v \/ (x \in old /\ x # w)
    BY <1>1, <1>2, <1>3, <1>5
  <2>2. \A x \in old : x # w => x.cref # v.cref
    BY <1>1, <1>2 DEF WatchAt
  <2> HIDE DEF old, new
  <2>3. WatchAt(C, p, old) /\ w \in old
    BY <1>1, <1>2 DEF old
  <2>4. WatchAt(C, p, new)
    BY <2>1, <2>2, <2>3 DEF WatchAt
  <2>5. QED  BY <2>4 DEF new
<1>9. /\ Lists(LitsOf(n), Watchers(n), W) /\ W[p] = ws
      /\ \A l \in LitsOf(n) : l # p => IsInjective(W[l]) /\ WatchAt(C, l, Range(W[l]))
  BY DEF MidWatch
<1>10. QED  BY <1>5, <1>7, <1>8, <1>9 DEF MidWatch, L, Q

(* The clause of a watcher of p is watched by another literal instead.     *)
Rewatched(C, x, j) == [C EXCEPT ![x] = Swapped(C[x], 2, j)]

LEMMA RewatchedIs ==
  ASSUME NEW n \in Nat, NEW C, ClausesOk(n, C), NEW x \in DOMAIN C, NEW j \in 3 .. Len(C[x]),
         NEW D, D = Rewatched(C, x, j)
  PROVE  /\ ClausesOk(n, D) /\ Permuted(C, D)
         /\ \A c \in DOMAIN C : c # x => D[c] = C[c]
         /\ D[x][1] = C[x][1] /\ D[x][2] = C[x][j]
<1>1. IsClause(n, C[x]) /\ Len(C[x]) >= 2 /\ Len(C[x]) \in Nat /\ C[x] \in Seq(LitsOf(n)) /\ IsInjective(C[x])
  BY ClausesAre, ClauseIs DEF IsClause
<1> DEFINE i == 2
           one == 1
           d == Swapped(C[x], i, j)
<1>2. i \in 1 .. Len(C[x]) /\ j \in 1 .. Len(C[x]) /\ one \in 1 .. Len(C[x]) /\ one # i /\ one # j
  BY <1>1
<1> HIDE DEF i, one
<1>3. /\ d \in Seq(LitsOf(n)) /\ Len(d) = Len(C[x]) /\ Range(d) = Range(C[x])
      /\ d[i] = C[x][j] /\ d[one] = C[x][one] /\ IsInjective(d)
  BY <1>1, <1>2, SwapPlaces
<1>4. IsClause(n, d)
  BY <1>1, <1>3 DEF IsClause
<1>5. C = [c \in DOMAIN C |-> C[c]] /\ D = [C EXCEPT ![x] = d]
  BY DEF ClausesOk, Rewatched, i
<1> HIDE DEF d
<1>6. DOMAIN D = DOMAIN C /\ D = [c \in DOMAIN D |-> D[c]] /\ D[x] = d /\ \A c \in DOMAIN C : c # x => D[c] = C[c]
  BY <1>5
<1>7. ClausesOk(n, D)
  BY <1>3, <1>4, <1>6 DEF ClausesOk
<1>8. Permuted(C, D)
  BY <1>3, <1>6 DEF Permuted
<1>9. QED  BY <1>3, <1>6, <1>7, <1>8 DEF i, one

(* What that does to the watchers of one literal.                          *)
Moved(n, C, D, x, a, b) ==
  /\ Permuted(C, D) /\ x \in DOMAIN C /\ \A c \in DOMAIN C : c # x => D[c] = C[c]
  /\ D[x][1] = C[x][1] /\ C[x][2] = a /\ D[x][2] = b /\ C[x][1] # a /\ C[x][1] # b /\ a # b
  /\ C[x][1] \in Range(C[x]) /\ a \in LitsOf(n) /\ b \in LitsOf(n)

LEMMA MovedElsewhere ==
  ASSUME NEW n, NEW C, NEW D, NEW x, NEW a, NEW b, Moved(n, C, D, x, a, b),
         NEW l, -l # a, -l # b, NEW S, WatchAt(C, l, S)
  PROVE  WatchAt(D, l, S)
<1>1. \A c \in DOMAIN C : -l \in {D[c][1], D[c][2]} <=> -l \in {C[c][1], C[c][2]}
  BY DEF Moved
<1>2. Permuted(C, D)
  BY DEF Moved
<1>3. QED  BY <1>1, <1>2, WatchSameAt

LEMMA MovedTo ==
  ASSUME NEW n, NEW C, NEW D, NEW x, NEW a, NEW b, Moved(n, C, D, x, a, b),
         NEW z, -z = b, NEW S, WatchAt(C, z, S),
         NEW v, v.cref = x, v.blocker = C[x][1]
  PROVE  WatchAt(D, z, S \cup {v}) /\ v \notin S
<1>1. \A u \in S : u.cref # x
  BY DEF WatchAt, Moved
<1>2. ASSUME NEW u \in S \cup {v}
      PROVE  /\ u.cref \in DOMAIN D /\ -z \in {D[u.cref][1], D[u.cref][2]}
             /\ u.blocker \in Range(D[u.cref]) /\ u.blocker # -z
  <2>1. CASE u \in S
    <3>1. /\ u.cref \in DOMAIN C /\ u.cref # x /\ -z \in {C[u.cref][1], C[u.cref][2]}
          /\ u.blocker \in Range(C[u.cref]) /\ u.blocker # -z
      BY <1>1, <2>1 DEF WatchAt
    <3>2. D[u.cref] = C[u.cref] /\ DOMAIN D = DOMAIN C
      BY <3>1 DEF Moved, Permuted
    <3>3. QED  BY <3>1, <3>2
  <2>2. CASE u = v
    BY <2>2 DEF Moved, Permuted
  <2>3. QED  BY <2>1, <2>2
<1>3. \A u, e \in S \cup {v} : u.cref = e.cref => u = e
  BY <1>1 DEF WatchAt
<1>4. ASSUME NEW c \in DOMAIN D, -z \in {D[c][1], D[c][2]} PROVE \E u \in S \cup {v} : u.cref = c
  <2>1. CASE c = x
    BY <2>1
  <2>2. CASE c # x
    BY <1>4, <2>2 DEF WatchAt, Moved, Permuted
  <2>3. QED  BY <2>1, <2>2
<1>5. QED  BY <1>1, <1>2, <1>3, <1>4 DEF WatchAt

LEMMA MovedFrom ==
  ASSUME NEW n, NEW C, NEW D, NEW x, NEW a, NEW b, Moved(n, C, D, x, a, b),
         NEW p, -p = a, NEW S, WatchAt(C, p, S), NEW w \in S, w.cref = x
  PROVE  WatchAt(D, p, S \ {w})
<1> DEFINE T == S \ {w}
<1>1. \A u \in T : u.cref # x
  BY DEF WatchAt
<1>2. \A u : u \in T <=> u \in S /\ u # w
  OBVIOUS
<1> HIDE DEF T
<1>3. ASSUME NEW u \in T
      PROVE  /\ u.cref \in DOMAIN D /\ -p \in {D[u.cref][1], D[u.cref][2]}
             /\ u.blocker \in Range(D[u.cref]) /\ u.blocker # -p
  <2>1. /\ u.cref \in DOMAIN C /\ u.cref # x /\ -p \in {C[u.cref][1], C[u.cref][2]}
        /\ u.blocker \in Range(C[u.cref]) /\ u.blocker # -p
    BY <1>1, <1>2 DEF WatchAt
  <2>2. D[u.cref] = C[u.cref] /\ DOMAIN D = DOMAIN C
    BY <2>1 DEF Moved, Permuted
  <2>3. QED  BY <2>1, <2>2
<1>4. \A u, e \in T : u.cref = e.cref => u = e
  BY <1>2 DEF WatchAt
<1>5. ASSUME NEW c \in DOMAIN D, -p \in {D[c][1], D[c][2]} PROVE \E u \in T : u.cref = c
  <2>1. c \in DOMAIN C /\ c # x /\ -p \in {C[c][1], C[c][2]}
    BY <1>5 DEF Moved, Permuted
  <2>2. PICK u \in S : u.cref = c
    BY <2>1 DEF WatchAt
  <2>3. QED  BY <1>2, <2>1, <2>2
<1>6. WatchAt(D, p, T)
  BY <1>3, <1>4, <1>5 DEF WatchAt
<1>7. QED  BY <1>6 DEF T

LEMMA WatcherMoved ==
  ASSUME NEW n \in Nat, NEW p \in LitsOf(n), NEW ws \in Seq(Watchers(n)), IsInjective(ws),
         NEW C, NEW D, NEW x, NEW a, NEW y, Moved(n, C, D, x, a, y), a = -p, x \in Nat, C[x][1] \in LitsOf(n),
         NEW W, NEW K, NEW k \in 0 .. Len(ws) - 1,
         MidWatch(n, p, ws, C, W, K, k), x = ws[k + 1].cref,
         NEW v, v = Watcher(x, C[x][1]),
         NEW z, z = -y,
         NEW V, V = Listed(W, z, v)
  PROVE  MidWatch(n, p, ws, D, V, K, k + 1)
<1> DEFINE w == ws[k + 1]
           R == Rest(ws, k)
           Q == Rest(ws, k + 1)
<1>1. y \in LitsOf(n) /\ y # -p
  BY DEF Moved
<1>2. z \in LitsOf(n) /\ z # p /\ -z = y /\ \A l \in LitsOf(n) : l # z => -l # y
  <2>1. -y \in LitsOf(n) /\ -(-y) = y /\ -(-p) = p
    BY <1>1, Literals
  <2>2. \A l \in LitsOf(n) : -(-l) = l
    BY Literals
  <2>3. QED  BY <1>1, <2>1, <2>2
<1>3. v \in Watchers(n) /\ v.cref = x /\ v.blocker = C[x][1]
  BY DEF Watcher, Watchers
<1>4. /\ Lists(LitsOf(n), Watchers(n), W) /\ W[p] = ws
      /\ \A l \in LitsOf(n) : l # p => IsInjective(W[l]) /\ WatchAt(C, l, Range(W[l]))
      /\ K \in Seq(Watchers(n)) /\ IsInjective(K)
      /\ WatchAt(C, p, Range(K) \cup R) /\ Range(K) \cap R = {}
  BY DEF MidWatch
<1>5. WatchAt(C, z, Range(W[z])) /\ IsInjective(W[z])
  BY <1>2, <1>4
<1>6. WatchAt(D, z, Range(W[z]) \cup {v}) /\ v \notin Range(W[z])
  <2> DEFINE S == Range(W[z])
  <2>1. /\ Moved(n, C, D, x, a, y) /\ -z = y /\ WatchAt(C, z, S)
        /\ v.cref = x /\ v.blocker = C[x][1]
    BY <1>2, <1>3, <1>5
  <2> HIDE DEF S
  <2>2. WatchAt(D, z, S \cup {v}) /\ v \notin S
    BY ONLY <2>1, MovedTo
  <2>3. QED  BY <2>2 DEF S
<1>7. /\ Lists(LitsOf(n), Watchers(n), V) /\ Range(V[z]) = Range(W[z]) \cup {v} /\ IsInjective(V[z])
      /\ \A l \in LitsOf(n) : l # z => V[l] = W[l]
  <2> DEFINE A == LitsOf(n)
             S == Watchers(n)
  <2>1. Lists(A, S, W) /\ z \in A /\ v \in S /\ v \notin Range(W[z]) /\ IsInjective(W[z])
    BY <1>2, <1>3, <1>4, <1>5, <1>6
  <2> HIDE DEF A, S
  <2>2. /\ Lists(A, S, V) /\ Range(V[z]) = Range(W[z]) \cup {v} /\ IsInjective(V[z])
        /\ \A l \in A : l # z => V[l] = W[l]
    BY <2>1, ListedIs
  <2>3. QED  BY <2>2 DEF A, S
<1>8. WatchAt(D, z, Range(V[z]))
  BY <1>6, <1>7
<1>9. ASSUME NEW l \in LitsOf(n), l # p PROVE IsInjective(V[l]) /\ WatchAt(D, l, Range(V[l]))
  <2>1. CASE l = z
    BY <1>7, <1>8, <2>1
  <2>2. CASE l # z
    <3>1. V[l] = W[l] /\ IsInjective(W[l]) /\ WatchAt(C, l, Range(W[l]))
      BY <1>4, <1>7, <1>9, <2>2
    <3>2. -l # y /\ -l # a
      <4>1. -(-l) = l /\ -(-p) = p
        BY Literals
      <4>2. QED  BY <1>2, <1>9, <2>2, <4>1
    <3>3. WatchAt(D, l, Range(W[l]))
      BY <3>1, <3>2, MovedElsewhere
    <3>4. QED  BY <3>1, <3>3
  <2>3. QED  BY <2>1, <2>2
<1>10. Q = R \ {w} /\ w \in R
  BY RestIs
<1> HIDE DEF w, R, Q
<1>11. WatchAt(D, p, (Range(K) \cup R) \ {w})
  <2>1. w.cref = x /\ w \in Range(K) \cup R /\ -p = a
    BY <1>10 DEF w
  <2>2. QED  BY <1>4, <2>1, MovedFrom
<1>12. Range(K) \cup Q = (Range(K) \cup R) \ {w} /\ Range(K) \cap Q = {}
  BY <1>4, <1>10
<1>13. V[p] = ws
  BY <1>2, <1>4, <1>7
<1>14. WatchAt(D, p, Range(K) \cup Q)
  BY <1>11, <1>12
<1> HIDE DEF Q
<1>15. /\ Lists(LitsOf(n), Watchers(n), V) /\ V[p] = ws
       /\ \A l \in LitsOf(n) : l # p => IsInjective(V[l]) /\ WatchAt(D, l, Range(V[l]))
       /\ K \in Seq(Watchers(n)) /\ IsInjective(K)
       /\ WatchAt(D, p, Range(K) \cup Q) /\ Range(K) \cap Q = {}
  BY <1>4, <1>7, <1>9, <1>12, <1>13, <1>14, Zenon
<1>16. QED  BY <1>15, Zenon DEF MidWatch, Q

-----------------------------------------------------------------------------
(* The solver's operations, field by field.                                *)
Frame(t, u) ==
  /\ Form(u)
  /\ u.ok = t.ok /\ u.orig = t.orig /\ u.learnt = t.learnt /\ u.lim = t.lim
  /\ u.heap = t.heap /\ u.polarity = t.polarity /\ u.userPol = t.userPol
  /\ u.simpAssigns = t.simpAssigns /\ u.simpProps = t.simpProps

LEMMA EnqueueIs ==
  ASSUME NEW t, Form(t), NEW l, NEW from, NEW u, u = uncheckedEnqueue(t, l, from)
  PROVE  /\ Frame(t, u) /\ u.clause = t.clause /\ u.watches = t.watches /\ u.qhead = t.qhead
         /\ Grown(t.trail, t.lim, l, from, u.trail)
  BY DEF Form, Frame, uncheckedEnqueue, decisionLevel, Item, Grown

LEMMA OrderedIs ==
  ASSUME NEW t, Form(t), NEW p, NEW c, NEW C, C = t.clause, NEW d, d = FalseSecond(C[c], p), NEW u, u = Ordered(t, p, c)
  PROVE  /\ Frame(t, u) /\ u.watches = t.watches /\ u.qhead = t.qhead /\ u.trail = t.trail
         /\ u.clause = Put(C, c, d)
  BY DEF Form, Frame, Ordered, Put

Instead(t, k, p, v, x, c, z, u) ==
  /\ Form(t) /\ x = v.cref /\ c = t.clause[x] /\ c[2] = -p /\ z = -c[k]
  /\ u = WatchInstead(t, k, p, v, c)

LEMMA InsteadIs ==
  ASSUME NEW t, NEW k, NEW p, NEW v, NEW x, NEW c, NEW z, NEW u, Instead(t, k, p, v, x, c, z, u)
  PROVE  /\ Frame(t, u) /\ u.qhead = t.qhead /\ u.trail = t.trail
         /\ u.clause = Rewatched(t.clause, x, k)
         /\ u.watches = Listed(t.watches, z, v)
<1>1. /\ Form(t) /\ x = v.cref /\ c = t.clause[x] /\ c[2] = -p /\ z = -c[k]
      /\ u = WatchInstead(t, k, p, v, c)
  BY DEF Instead
<1>2. QED  BY <1>1 DEF Form, Frame, WatchInstead, Listed, Rewatched, Swapped

LEMMA KeepIs ==
  ASSUME NEW r, NEW t, NEW v, r = [s |-> r.s, kept |-> r.kept, confl |-> r.confl], NEW x, x = Keep(r, t, v)
  PROVE  x = [s |-> t, kept |-> Append(r.kept, v), confl |-> r.confl]
  BY DEF Keep

LEMMA TrueIs ==
  ASSUME NEW n \in Nat, NEW t, NEW M, NEW q, TrailOk(n, t.trail, M, q)
  PROVE  /\ \A l : IsTrue(t, l) <=> OnTrail(t.trail, l)
         /\ \A l : IsFalse(t, l) <=> OnTrail(t.trail, -l)
<1>1. DOMAIN t.trail = 1 .. Len(t.trail)
  BY TrailIs
<1>2. QED  BY <1>1 DEF IsTrue, IsFalse, TrueLits, OnTrail

-----------------------------------------------------------------------------
(* propagate.  While the watchers of the literal at place q of the trail   *)
(* are looked at, this stays true of the clauses and the trail.            *)
Core(n, F, M, q, C, T) ==
  /\ ClausesOk(n, C) /\ TrailOk(n, T, M, q)
  /\ ReasonOk(C, T) /\ DecisionsOk(T, M)
  /\ Sound(F, C, T)
  /\ Looked(C, T, q - 1, Len(M))

LEMMA SoundSame ==
  ASSUME NEW F, NEW C, NEW D, Permuted(C, D), NEW T, Sound(F, C, T)
  PROVE  Sound(F, D, T)
  BY DEF Permuted, Sound, Makers

(* A clause puts its false watched literal second.                         *)
LEMMA OrderedCore ==
  ASSUME NEW n \in Nat, NEW F, NEW M, NEW q, NEW C, NEW T, Core(n, F, M, q, C, T),
         NEW p \in LitsOf(n), OnTrail(T, p), NEW x \in DOMAIN C, -p \in {C[x][1], C[x][2]},
         NEW d, d = FalseSecond(C[x], p), NEW D, D = Put(C, x, d)
  PROVE  /\ Core(n, F, M, q, D, T) /\ Permuted(C, D) /\ SameWatched(C, D)
         /\ x \in DOMAIN D /\ D[x][2] = -p /\ D[x][1] # -p
<1>1. IsClause(n, C[x]) /\ Len(C[x]) >= 2 /\ ClausesOk(n, C) /\ C = [c \in DOMAIN C |-> C[c]]
  BY ClausesAre DEF Core, ClausesOk
<1> DEFINE e == C[x]
<1>2. IsClause(n, e) /\ Len(e) >= 2 /\ -p \in {e[1], e[2]} /\ d = FalseSecond(e, p)
  BY <1>1
<1> HIDE DEF e
<1>3. /\ IsClause(n, d) /\ Len(d) = Len(e) /\ Range(d) = Range(e)
      /\ d[2] = -p /\ d[1] # -p /\ {d[1], d[2]} = {e[1], e[2]}
      /\ e[1] # -p => d = e
  BY <1>2, FalseSecondIs
<1>4. DOMAIN D = DOMAIN C /\ D = [c \in DOMAIN D |-> D[c]] /\ D[x] = d /\ \A c \in DOMAIN C : c # x => D[c] = C[c]
  BY <1>1 DEF Put
<1>5. ClausesOk(n, D)
  BY <1>1, <1>2, <1>3, <1>4 DEF ClausesOk
<1>6. Permuted(C, D) /\ SameWatched(C, D)
  <2>1. \A c \in DOMAIN C : Range(D[c]) = Range(C[c]) /\ Len(D[c]) = Len(C[c]) /\ {D[c][1], D[c][2]} = {C[c][1], C[c][2]}
    <3>1. SUFFICES ASSUME NEW c \in DOMAIN C
                   PROVE  Range(D[c]) = Range(C[c]) /\ Len(D[c]) = Len(C[c]) /\ {D[c][1], D[c][2]} = {C[c][1], C[c][2]}
      OBVIOUS
    <3>2. CASE c = x
      <4>1. D[c] = d /\ C[c] = e
        BY <1>4, <3>2 DEF e
      <4>2. QED  BY <1>3, <4>1, Zenon
    <3>3. QED  BY <1>4, <3>2
  <2>2. QED  BY <1>4, <2>1 DEF Permuted, SameWatched
<1>7. TrailOk(n, T, M, q) /\ ReasonOk(C, T) /\ DecisionsOk(T, M) /\ Sound(F, C, T) /\ Looked(C, T, q - 1, Len(M))
  BY DEF Core
<1>8. ReasonOk(D, T)
  <2>1. ~OnTrail(T, -p)
    BY <1>7, TrailIs
  <2>2. ASSUME NEW i \in 1 .. Len(T), T[i].reason # 0
        PROVE  T[i].reason \in DOMAIN C /\ D[T[i].reason] = C[T[i].reason]
    <3>1. T[i].reason \in DOMAIN C /\ C[T[i].reason][1] = T[i].lit
      BY <1>7, <2>2 DEF ReasonOk
    <3>2. CASE T[i].reason = x
      <4>1. T[i].lit # -p
        BY <2>1 DEF OnTrail
      <4>2. e[1] # -p
        BY <3>1, <3>2, <4>1 DEF e
      <4>3. d = e /\ D[x] = d
        BY <1>3, <1>4, <4>2
      <4>4. QED  BY <3>1, <3>2, <4>3 DEF e
    <3>3. QED  BY <1>4, <3>1, <3>2
  <2>3. QED  BY <1>4, <1>7, <2>2 DEF ReasonOk
<1>9. Looked(D, T, q - 1, Len(M))
  <2>1. ASSUME NEW c \in DOMAIN D PROVE {D[c][1], D[c][2]} = {C[c][1], C[c][2]} /\ Range(D[c]) = Range(C[c]) /\ c \in DOMAIN C
    BY <1>4, <1>6 DEF Permuted, SameWatched
  <2>2. QED  BY <1>7, <2>1 DEF Looked
<1>10. Sound(F, D, T)
  BY <1>6, <1>7, SoundSame
<1>11. x \in DOMAIN D /\ D[x][2] = -p /\ D[x][1] # -p
  BY <1>3, <1>4
<1>12. QED  BY <1>5, <1>6, <1>7, <1>8, <1>9, <1>10, <1>11 DEF Core

(* A clause watches a literal that is not false instead.                   *)
LEMMA RewatchedCore ==
  ASSUME NEW n \in Nat, NEW F, NEW M, NEW q, NEW C, NEW T, Core(n, F, M, q, C, T),
         NEW x, NEW a, NEW y, NEW D, Moved(n, C, D, x, a, y), ClausesOk(n, D),
         ~OnTrail(T, -y), ~OnTrail(T, C[x][1])
  PROVE  Core(n, F, M, q, D, T)
<1>1. /\ TrailOk(n, T, M, q) /\ ReasonOk(C, T) /\ DecisionsOk(T, M) /\ Sound(F, C, T)
      /\ Looked(C, T, q - 1, Len(M))
  BY DEF Core
<1>2. /\ Permuted(C, D) /\ \A c \in DOMAIN C : c # x => D[c] = C[c]
      /\ D[x][1] = C[x][1] /\ D[x][2] = y /\ y \in LitsOf(n)
  BY DEF Moved
<1>3. \A c : c \in DOMAIN D <=> c \in DOMAIN C
  BY <1>2 DEF Permuted
<1>4. ReasonOk(D, T)
  <2>1. ASSUME NEW i \in 1 .. Len(T), T[i].reason # 0
        PROVE  T[i].reason \in DOMAIN C /\ D[T[i].reason] = C[T[i].reason]
    <3>1. T[i].reason \in DOMAIN C /\ C[T[i].reason][1] = T[i].lit
      BY <1>1, <2>1 DEF ReasonOk
    <3>2. T[i].reason # x
      BY <3>1 DEF OnTrail
    <3>3. QED  BY <1>2, <3>1, <3>2
  <2>2. QED  BY <1>1, <1>3, <2>1 DEF ReasonOk
<1>5. Looked(D, T, q - 1, Len(M))
  <2>1. SUFFICES ASSUME NEW c \in DOMAIN D, NEW i \in 1 .. q - 1, T[i].level <= Len(M),
                        -T[i].lit \in {D[c][1], D[c][2]}
                 PROVE  \E j \in 1 .. Len(T) : T[j].lit \in Range(D[c]) /\ T[j].level <= T[i].level
    BY DEF Looked
  <2>2. i \in 1 .. Len(T) /\ T[i].lit \in LitsOf(n)
    <3>1. i \in 1 .. Len(T)
      BY <1>1, TrailIs
    <3>2. QED  BY <1>1, <3>1, TrailIs
  <2>3. -T[i].lit # y
    <3>1. -(-T[i].lit) = T[i].lit
      BY <2>2, Literals
    <3>2. T[i].lit # -y
      BY <2>2 DEF OnTrail
    <3>3. QED  BY <3>1, <3>2
  <2>4. c \in DOMAIN C /\ -T[i].lit \in {C[c][1], C[c][2]} /\ Range(D[c]) = Range(C[c])
    BY <1>2, <1>3, <2>1, <2>3 DEF Permuted
  <2>5. QED  BY <1>1, <2>1, <2>4 DEF Looked
<1>6. Sound(F, D, T)
  BY <1>1, <1>2, SoundSame
<1>7. QED  BY <1>1, <1>4, <1>5, <1>6 DEF Core

(* The only literal of a clause that is not false comes true.              *)
LEMMA EnqueuedCore ==
  ASSUME NEW n \in Nat, NEW F \in SUBSET Assignments(n), NEW M, NEW q, NEW C, NEW T, Core(n, F, M, q, C, T),
         NEW x \in DOMAIN C, NEW l, l = C[x][1], Free(T, l),
         \A k \in 2 .. Len(C[x]) : OnTrail(T, -C[x][k]),
         NEW U, Grown(T, M, l, x, U)
  PROVE  Core(n, F, M, q, C, U) /\ Continues(U, T) /\ OnTrail(U, l)
<1>1. /\ ClausesOk(n, C) /\ TrailOk(n, T, M, q) /\ ReasonOk(C, T) /\ DecisionsOk(T, M) /\ Sound(F, C, T)
      /\ Looked(C, T, q - 1, Len(M))
  BY DEF Core
<1>2. IsClause(n, C[x]) /\ l \in LitsOf(n) /\ x \in Nat /\ x # 0
  BY <1>1, ClausesAre
<1> DEFINE e == Item(l, x, Len(M))
<1>3. e.lit = l /\ e.reason = x /\ e.level = Len(M)
  BY DEF Item
<1>4. /\ TrailOk(n, U, M, q)
      /\ Len(U) = Len(T) + 1 /\ \A i \in 1 .. Len(T) : i \in 1 .. Len(U) /\ U[i] = T[i]
      /\ U[Len(U)] = e
      /\ \A k : OnTrail(U, k) <=> OnTrail(T, k) \/ k = l
  <2>1. n \in Nat /\ TrailOk(n, T, M, q) /\ l \in LitsOf(n) /\ Free(T, l) /\ x \in Nat /\ Grown(T, M, l, x, U)
    BY <1>1, <1>2
  <2>2. QED  BY ONLY <2>1, TrailGrows
<1> HIDE DEF e
<1>5. Len(T) \in Nat /\ Len(U) \in Nat /\ q \in Nat /\ q <= Len(T) /\ Len(M) \in Nat
  BY <1>1, <1>4, TrailIs
<1>6. Continues(U, T)
  BY <1>4, <1>5 DEF Continues
<1>7. ReasonOk(C, U)
  <2>1. /\ e.reason \in DOMAIN C /\ C[e.reason][1] = e.lit
        /\ \A k \in 2 .. Len(C[e.reason]) : OnTrail(T, -C[e.reason][k])
    BY <1>3
  <2>2. ReasonOk(C, T)
    BY <1>1
  <2>3. QED  BY ONLY <1>4, <1>5, <2>1, <2>2, ReasonGrows
<1>8. DecisionsOk(U, M)
  <2>1. DecisionsOk(T, M) /\ e.reason # 0
    BY <1>1, <1>2, <1>3
  <2>2. QED  BY ONLY <1>4, <1>5, <2>1, DecisionsGrow
<1>9. Sound(F, C, U)
  <2>1. ASSUME e.level = 0, NEW m \in F PROVE Makes(m, e.lit)
    <3>1. PICK k \in 1 .. Len(C[x]) : Makes(m, C[x][k])
      BY <1>1, <1>2, ClauseIs DEF Sound, Makers
    <3>2. CASE k = 1
      BY <1>3, <3>1, <3>2
    <3>3. CASE k # 1
      <4>1. k \in 2 .. Len(C[x]) /\ C[x][k] \in LitsOf(n) /\ m \in Assignments(n)
        BY <1>2, <3>3, ClauseIs
      <4>2. PICK i \in 1 .. Len(T) : T[i].lit = -C[x][k]
        BY <4>1 DEF OnTrail
      <4>3. T[i].level = 0
        <5>1. T[i].level \in 0 .. Len(M)
          BY <1>1, TrailIs
        <5>2. Len(M) = 0
          BY <1>3, <2>1
        <5>3. QED  BY <5>1, <5>2
      <4>4. Makes(m, -C[x][k])
        BY <1>1, <4>2, <4>3 DEF Sound
      <4>5. QED  BY <3>1, <4>1, <4>4, Literals
    <3>4. QED  BY <3>2, <3>3
  <2>2. QED  BY <1>1, <1>4, <1>5, <2>1, SoundGrows
<1>10. Looked(C, U, q - 1, Len(M))
  <2>1. CASE q = 0
    BY <2>1, <1>5 DEF Looked
  <2>2. CASE q # 0
    <3> DEFINE z == q - 1
               L == Len(M)
    <3>1. z \in 0 .. Len(T) /\ Looked(C, T, z, L)
      BY <1>1, <1>5, <2>2
    <3> HIDE DEF z, L
    <3>2. Looked(C, U, z, L)
      BY <1>5, <1>6, <3>1, LookedContinues
    <3>3. QED  BY <3>2 DEF z, L
  <2>3. QED  BY <2>1, <2>2
<1>11. QED  BY <1>1, <1>4, <1>6, <1>7, <1>8, <1>9, <1>10 DEF Core

(* The loop of propagate over the watchers ws of p, k of them looked at; b *)
(* is the solver it began with.                                            *)
HasTrue(T, c) == \E l \in Range(c) : OnTrail(T, l)

At(n, b, p, ws) ==
  /\ n \in Nat /\ p \in LitsOf(n) /\ OnTrail(b.trail, p) /\ Len(b.trail) \in Nat
  /\ ws \in Seq(Watchers(n)) /\ IsInjective(ws)

Mid(n, F, b, p, ws, r, k) ==
  /\ r = [s |-> r.s, kept |-> r.kept, confl |-> r.confl]
  /\ Frame(b, r.s) /\ Permuted(b.clause, r.s.clause) /\ Continues(r.s.trail, b.trail)
  /\ Core(n, F, b.lim, b.qhead, r.s.clause, r.s.trail)
  /\ MidWatch(n, p, ws, r.s.clause, r.s.watches, r.kept, k)
  /\ r.confl = 0 => /\ r.s.qhead = b.qhead
                    /\ \A w \in Range(r.kept) : HasTrue(r.s.trail, r.s.clause[w.cref])
  /\ r.confl # 0 => /\ r.s.qhead = Len(r.s.trail)
                    /\ r.confl \in DOMAIN r.s.clause /\ AllFalse(r.s.trail, r.s.clause[r.confl])

(* The watcher to look at next.                                            *)
LEMMA NextWatcher ==
  ASSUME NEW n, NEW F, NEW b, NEW p, NEW ws, At(n, b, p, ws),
         NEW r, NEW k \in 0 .. Len(ws) - 1, Mid(n, F, b, p, ws, r, k),
         NEW w, w = ws[k + 1], NEW C, C = r.s.clause
  PROVE  /\ w \in Watchers(n) /\ w.cref \in DOMAIN C /\ -p \in {C[w.cref][1], C[w.cref][2]}
         /\ w.blocker \in Range(C[w.cref]) /\ w.blocker # -p
         /\ ClausesOk(n, C) /\ OnTrail(r.s.trail, p)
<1>1. ws \in Seq(Watchers(n)) /\ IsInjective(ws)
  BY DEF At
<1>2. w \in Rest(ws, k) /\ w \in Watchers(n)
  BY <1>1, RestIs
<1>3. WatchAt(C, p, Range(r.kept) \cup Rest(ws, k))
  BY DEF Mid, MidWatch
<1>4. ClausesOk(n, C) /\ Continues(r.s.trail, b.trail)
  BY DEF Mid, Core
<1>5. OnTrail(r.s.trail, p)
  <2>1. PICK i \in 1 .. Len(b.trail) : b.trail[i].lit = p
    BY DEF At, OnTrail
  <2>2. Len(r.s.trail) \in Nat
    BY TrailIs DEF Mid, Core, At
  <2>3. i \in 1 .. Len(r.s.trail) /\ r.s.trail[i] = b.trail[i]
    BY <1>4, <2>2 DEF Continues, At
  <2>4. QED  BY <2>1, <2>3 DEF OnTrail
<1>6. /\ w.cref \in DOMAIN C /\ -p \in {C[w.cref][1], C[w.cref][2]}
      /\ w.blocker \in Range(C[w.cref]) /\ w.blocker # -p
  BY <1>2, <1>3 DEF WatchAt
<1>7. QED  BY <1>2, <1>4, <1>5, <1>6

(* It is kept.                                                             *)
LEMMA MidKeep ==
  ASSUME NEW n, NEW F, NEW b, NEW p, NEW ws, At(n, b, p, ws),
         NEW r, NEW k \in 0 .. Len(ws) - 1, Mid(n, F, b, p, ws, r, k),
         NEW v \in Watchers(n), v.cref = ws[k + 1].cref,
         v.blocker \in Range(r.s.clause[v.cref]), v.blocker # -p,
         r.confl = 0 => HasTrue(r.s.trail, r.s.clause[v.cref]),
         NEW x, x = [s |-> r.s, kept |-> Append(r.kept, v), confl |-> r.confl]
  PROVE  Mid(n, F, b, p, ws, x, k + 1)
<1> DEFINE L == Append(r.kept, v)
<1>1. n \in Nat /\ p \in LitsOf(n) /\ ws \in Seq(Watchers(n)) /\ IsInjective(ws)
  BY DEF At
<1>2. MidWatch(n, p, ws, r.s.clause, r.s.watches, r.kept, k)
  BY DEF Mid
<1>3. MidWatch(n, p, ws, r.s.clause, r.s.watches, L, k + 1)
  BY <1>1, <1>2, WatcherKept
<1>4. Range(L) = Range(r.kept) \cup {v}
  BY <1>2, ListAppend DEF MidWatch
<1> HIDE DEF L
<1>5. x.s = r.s /\ x.kept = L /\ x.confl = r.confl /\ x = [s |-> x.s, kept |-> x.kept, confl |-> x.confl]
  BY DEF L
<1>6. r.confl = 0 => \A w \in Range(L) : HasTrue(r.s.trail, r.s.clause[w.cref])
  BY <1>4 DEF Mid
<1>7. QED  BY <1>3, <1>5, <1>6 DEF Mid

(* Its clause puts the false literal second.                               *)
NextAt(ws, k, c) == k \in 0 .. Len(ws) - 1 /\ c = ws[k + 1].cref

OrderedStep(r, p, c, t, x) ==
  t = Ordered(r.s, p, c) /\ x = [s |-> t, kept |-> r.kept, confl |-> r.confl] /\ r.confl = 0

SecondFalse(C, c, p) == c \in DOMAIN C /\ C[c][2] = -p /\ C[c][1] # -p

LEMMA MidOrdered ==
  ASSUME NEW n, NEW F, NEW b, NEW p, NEW ws, At(n, b, p, ws),
         NEW r, NEW k, Mid(n, F, b, p, ws, r, k),
         NEW c, NEW t, NEW x, OrderedStep(r, p, c, t, x), NextAt(ws, k, c)
  PROVE  Mid(n, F, b, p, ws, x, k) /\ x.s = t /\ x.kept = r.kept /\ x.confl = 0 /\ SecondFalse(t.clause, c, p)
<1>14. r.confl = 0
  BY DEF OrderedStep
<1> DEFINE C == r.s.clause
           d == FalseSecond(C[c], p)
           T == r.s.trail
           D == t.clause
<1>1. c \in DOMAIN C /\ -p \in {C[c][1], C[c][2]} /\ OnTrail(T, p) /\ n \in Nat /\ p \in LitsOf(n)
  BY NextWatcher DEF At, NextAt
<1>2. Form(r.s)
  BY DEF Mid, Frame
<1>3. /\ Frame(r.s, t) /\ t.watches = r.s.watches /\ t.qhead = r.s.qhead /\ t.trail = T
      /\ D = Put(C, c, d)
  BY <1>2, OrderedIs DEF OrderedStep
<1>4. Core(n, F, b.lim, b.qhead, C, T)
  BY DEF Mid
<1>5. /\ Core(n, F, b.lim, b.qhead, D, T) /\ Permuted(C, D) /\ SameWatched(C, D)
      /\ c \in DOMAIN D /\ D[c][2] = -p /\ D[c][1] # -p
  <2> DEFINE M == b.lim
             q == b.qhead
  <2>1. Core(n, F, M, q, C, T)
    BY <1>4
  <2> HIDE DEF M, q
  <2>2. d = FalseSecond(C[c], p)
    OBVIOUS
  <2> HIDE DEF d
  <2>3. D = Put(C, c, d)
    BY <1>3
  <2> HIDE DEF C, D, T
  <2>4. Core(n, F, M, q, D, T) /\ Permuted(C, D) /\ SameWatched(C, D)
        /\ c \in DOMAIN D /\ D[c][2] = -p /\ D[c][1] # -p
    BY ONLY <1>1, <2>1, <2>2, <2>3, OrderedCore
  <2>5. QED  BY <2>4 DEF M, q
<1> HIDE DEF d
<1>6. MidWatch(n, p, ws, C, r.s.watches, r.kept, k)
  BY DEF Mid
<1>7. MidWatch(n, p, ws, D, t.watches, r.kept, k)
  <2> DEFINE W == r.s.watches
             K == r.kept
             S == Range(r.kept) \cup Rest(ws, k)
  <2>1. /\ Lists(LitsOf(n), Watchers(n), W) /\ W[p] = ws
        /\ K \in Seq(Watchers(n)) /\ IsInjective(K) /\ Range(K) \cap Rest(ws, k) = {}
        /\ \A l \in LitsOf(n) : l # p => IsInjective(W[l]) /\ WatchAt(C, l, Range(W[l]))
        /\ WatchAt(C, p, S)
    BY <1>6 DEF MidWatch
  <2> HIDE DEF S, C, D, W, K
  <2>2. \A l \in LitsOf(n) : l # p => IsInjective(W[l]) /\ WatchAt(D, l, Range(W[l]))
    BY <1>5, <2>1, WatchSame
  <2>3. WatchAt(D, p, S)
    BY <1>5, <2>1, WatchSame
  <2>4. t.watches = W /\ r.kept = K
    BY <1>3 DEF W, K
  <2>5. MidWatch(n, p, ws, D, W, K, k)
    BY <2>1, <2>2, <2>3 DEF MidWatch, S, K
  <2>6. QED  BY <2>4, <2>5
<1>8. x.s = t /\ x.kept = r.kept /\ x.confl = r.confl /\ x = [s |-> x.s, kept |-> x.kept, confl |-> x.confl]
  BY DEF OrderedStep
<1>9. Frame(b, t) /\ Permuted(b.clause, D)
  <2>1. Frame(b, r.s) /\ Permuted(b.clause, C)
    BY DEF Mid
  <2>2. QED  BY <1>3, <1>5, <2>1 DEF Frame, Permuted
<1>10. t.qhead = b.qhead /\ \A w \in Range(r.kept) : HasTrue(T, D[w.cref])
  <2>1. \A w \in Range(r.kept) : HasTrue(T, C[w.cref]) /\ w.cref \in DOMAIN C
    BY <1>6, <1>14 DEF Mid, MidWatch, WatchAt
  <2>2. r.s.qhead = b.qhead
    BY <1>14 DEF Mid
  <2>3. QED  BY <1>3, <1>5, <2>1, <2>2 DEF HasTrue, Permuted
<1>11. Continues(T, b.trail)
  BY DEF Mid
<1>12. Mid(n, F, b, p, ws, x, k)
  <2>1. /\ Frame(b, x.s) /\ Permuted(b.clause, x.s.clause) /\ Continues(x.s.trail, b.trail)
        /\ Core(n, F, b.lim, b.qhead, x.s.clause, x.s.trail)
        /\ MidWatch(n, p, ws, x.s.clause, x.s.watches, x.kept, k)
        /\ x.confl = 0 /\ x.s.qhead = b.qhead /\ \A w \in Range(x.kept) : HasTrue(x.s.trail, x.s.clause[w.cref])
    BY <1>3, <1>5, <1>7, <1>8, <1>9, <1>10, <1>11, <1>14
  <2>2. QED  BY <1>8, <2>1 DEF Mid
<1>13. QED  BY <1>5, <1>8, <1>12, <1>14 DEF SecondFalse

(* Its clause watches another literal.                                     *)
Rewatching(p, r, c, j, v, t) ==
  /\ r.s.clause[c][2] = -p /\ r.s.clause[c][1] # -p
  /\ j \in 3 .. Len(r.s.clause[c])
  /\ ~OnTrail(r.s.trail, -r.s.clause[c][j]) /\ ~OnTrail(r.s.trail, r.s.clause[c][1])
  /\ v = Watcher(c, r.s.clause[c][1])
  /\ t = WatchInstead(r.s, j, p, v, r.s.clause[c])

LEMMA MidMoved ==
  ASSUME NEW n, NEW F, NEW b, NEW p, NEW ws, At(n, b, p, ws),
         NEW r, r.confl = 0, NEW k \in 0 .. Len(ws) - 1, Mid(n, F, b, p, ws, r, k),
         NEW c, c = ws[k + 1].cref, NEW j, NEW v, NEW t, Rewatching(p, r, c, j, v, t),
         NEW x, x = [s |-> t, kept |-> r.kept, confl |-> r.confl]
  PROVE  Mid(n, F, b, p, ws, x, k + 1)
<1> DEFINE C == r.s.clause
           T == r.s.trail
           W == r.s.watches
           D == t.clause
           e == C[c]
           y == C[c][j]
           z == -y
           a == -p
<1>1. /\ c \in DOMAIN C /\ OnTrail(T, p) /\ n \in Nat /\ p \in LitsOf(n) /\ ClausesOk(n, C)
      /\ k \in 0 .. Len(ws) - 1 /\ c = ws[k + 1].cref
  BY NextWatcher DEF At
<1>2. Form(r.s) /\ Core(n, F, b.lim, b.qhead, C, T) /\ MidWatch(n, p, ws, C, W, r.kept, k)
  BY DEF Mid, Frame
<1>3. /\ e[2] = -p /\ e[1] # -p /\ j \in 3 .. Len(e) /\ ~OnTrail(T, -y) /\ ~OnTrail(T, e[1])
      /\ v = Watcher(c, e[1]) /\ t = WatchInstead(r.s, j, p, v, e)
  BY Zenon DEF Rewatching
<1> HIDE DEF e
<1>4. /\ Frame(r.s, t) /\ t.qhead = r.s.qhead /\ t.trail = T
      /\ D = Rewatched(C, c, j)
      /\ t.watches = Listed(W, z, v)
  <2>1. v.cref = c
    BY <1>3 DEF Watcher
  <2>2. e = C[v.cref] /\ z = -e[j]
    BY <2>1 DEF e
  <2> HIDE DEF z
  <2>3. Form(r.s) /\ e[2] = -p /\ t = WatchInstead(r.s, j, p, v, e) /\ C = r.s.clause /\ W = r.s.watches /\ T = r.s.trail /\ D = t.clause
    BY <1>2, <1>3
  <2> DEFINE u == r.s
  <2>4. Form(u) /\ t = WatchInstead(u, j, p, v, e) /\ C = u.clause /\ W = u.watches /\ T = u.trail /\ D = t.clause /\ u = r.s
    BY <2>3
  <2> HIDE DEF C, W, T, D, u
  <2>5. Frame(u, t) /\ t.qhead = u.qhead /\ t.trail = u.trail /\ t.clause = Rewatched(C, c, j) /\ t.watches = Listed(W, z, v)
    <3>1. Instead(u, j, p, v, c, e, z, t)
      BY ONLY <2>1, <2>2, <2>3, <2>4 DEF Instead
    <3>2. QED  BY ONLY <2>4, <3>1, InsteadIs
  <2>6. QED  BY <2>4, <2>5
<1>5. D = Rewatched(C, c, j)
  BY <1>4
<1>6. /\ ClausesOk(n, D) /\ Permuted(C, D)
      /\ \A d \in DOMAIN C : d # c => D[d] = C[d]
      /\ D[c][1] = C[c][1] /\ D[c][2] = y
  <2>1. j \in 3 .. Len(C[c])
    BY <1>3, Zenon DEF e
  <2> HIDE DEF C, D
  <2>2. QED  BY ONLY <1>1, <1>5, <2>1, RewatchedIs DEF y
<1>7. /\ IsClause(n, e) /\ e[1] \in LitsOf(n) /\ e[1] \in Range(e) /\ c \in Nat
      /\ Len(e) \in Nat /\ Len(e) >= 2
  <2> HIDE DEF C
  <2>1. /\ IsClause(n, C[c]) /\ C[c][1] \in LitsOf(n) /\ C[c][1] \in Range(C[c]) /\ c \in Nat
        /\ Len(C[c]) >= 2
    BY ONLY <1>1, ClausesAre
  <2>2. Len(C[c]) \in Nat
    BY ONLY <1>1, <2>1, ClauseIs
  <2>3. QED  BY <2>1, <2>2 DEF e
<1>8. y \in LitsOf(n) /\ y # e[1] /\ y # -p /\ -p \in LitsOf(n)
  <2>1. 1 \in 1 .. Len(e) /\ 2 \in 1 .. Len(e) /\ j \in 1 .. Len(e) /\ j # 1 /\ j # 2
    BY ONLY <1>3, <1>7
  <2>2. e[j] # e[1] /\ e[j] # e[2] /\ e[j] \in LitsOf(n)
    BY ONLY <1>1, <1>7, <2>1, ClauseIs
  <2>3. -p \in LitsOf(n)
    BY ONLY <1>1, Literals
  <2>4. e[j] = y
    BY DEF e
  <2>5. QED  BY ONLY <1>3, <2>2, <2>3, <2>4
<1>9. Moved(n, C, D, c, a, y)
  <2>1. C[c] = e
    BY DEF e
  <2>2. QED  BY ONLY <1>1, <1>3, <1>6, <1>7, <1>8, <2>1 DEF Moved
<1>10. Core(n, F, b.lim, b.qhead, D, T)
  <2>1. ~OnTrail(T, -y) /\ ~OnTrail(T, C[c][1])
    BY <1>3, Zenon DEF e
  <2> HIDE DEF C, T, D, y, z, a
  <2> DEFINE M == b.lim
             q == b.qhead
  <2>2. Core(n, F, M, q, C, T)
    BY <1>2
  <2> HIDE DEF M, q
  <2>3. Core(n, F, M, q, D, T)
    BY ONLY <1>1, <1>6, <1>9, <2>1, <2>2, RewatchedCore
  <2>4. QED  BY <2>3 DEF M, q
<1>11. MidWatch(n, p, ws, D, t.watches, r.kept, k + 1)
  <2>1. v = Watcher(c, C[c][1]) /\ C[c][1] \in LitsOf(n)
    BY <1>3, <1>7, Zenon DEF e
  <2> HIDE DEF C, T, D, y
  <2> DEFINE K == r.kept
             V == t.watches
  <2>2. /\ ws \in Seq(Watchers(n)) /\ IsInjective(ws) /\ k \in 0 .. Len(ws) - 1 /\ MidWatch(n, p, ws, C, W, K, k)
        /\ c = ws[k + 1].cref /\ z = -y /\ V = Listed(W, z, v) /\ a = -p
    BY <1>1, <1>2, <1>4, <2>1 DEF At
  <2> HIDE DEF W, K, V, z, a
  <2>3. MidWatch(n, p, ws, D, V, K, k + 1)
    BY ONLY <1>1, <1>7, <1>9, <2>1, <2>2, WatcherMoved
  <2>4. QED  BY <2>3 DEF K, V
<1>12. x.s = t /\ x.kept = r.kept /\ x.confl = r.confl /\ x = [s |-> x.s, kept |-> x.kept, confl |-> x.confl]
  OBVIOUS
<1>13. Frame(b, t) /\ Permuted(b.clause, D)
  <2>1. Frame(b, r.s) /\ Permuted(b.clause, C)
    BY DEF Mid
  <2> HIDE DEF C, D
  <2>2. QED  BY ONLY <1>4, <1>6, <2>1 DEF Frame, Permuted
<1>14. t.qhead = b.qhead /\ \A w \in Range(r.kept) : HasTrue(T, D[w.cref])
  <2>1. \A w \in Range(r.kept) : HasTrue(T, C[w.cref]) /\ w.cref \in DOMAIN C
    BY <1>2 DEF Mid, MidWatch, WatchAt
  <2>2. r.s.qhead = b.qhead
    BY DEF Mid
  <2> HIDE DEF C, T, D
  <2>3. QED  BY ONLY <1>4, <1>6, <2>1, <2>2 DEF HasTrue, Permuted
<1>15. Continues(T, b.trail)
  BY DEF Mid
<1>16. r.confl = 0 /\ t.trail = T /\ t.clause = D
  BY <1>4
<1> HIDE DEF C, T, W, D, y, z, a
<1>17. /\ Frame(b, x.s) /\ Permuted(b.clause, x.s.clause) /\ Continues(x.s.trail, b.trail)
       /\ Core(n, F, b.lim, b.qhead, x.s.clause, x.s.trail)
       /\ MidWatch(n, p, ws, x.s.clause, x.s.watches, x.kept, k + 1)
       /\ x.confl = 0 /\ x.s.qhead = b.qhead /\ \A w \in Range(x.kept) : HasTrue(x.s.trail, x.s.clause[w.cref])
  BY ONLY <1>10, <1>11, <1>12, <1>13, <1>14, <1>15, <1>16
<1>18. QED  BY ONLY <1>12, <1>17 DEF Mid

(* Its clause makes its first literal true.                                *)
EnqueuedStep(r, l, c, t, x) ==
  /\ c \in DOMAIN r.s.clause /\ l = r.s.clause[c][1] /\ Free(r.s.trail, l)
  /\ \A i \in 2 .. Len(r.s.clause[c]) : OnTrail(r.s.trail, -r.s.clause[c][i])
  /\ r.confl = 0
  /\ t = uncheckedEnqueue(r.s, l, c) /\ x = [s |-> t, kept |-> r.kept, confl |-> r.confl]

LEMMA MidEnqueued ==
  ASSUME NEW n, NEW F \in SUBSET Assignments(n), NEW b, NEW p, NEW ws, At(n, b, p, ws),
         NEW r, NEW k, Mid(n, F, b, p, ws, r, k),
         NEW c, NEW l, NEW t, NEW x, EnqueuedStep(r, l, c, t, x)
  PROVE  /\ Mid(n, F, b, p, ws, x, k) /\ x.s = t /\ x.kept = r.kept /\ x.confl = 0
         /\ t.clause = r.s.clause /\ OnTrail(t.trail, l)
<1> DEFINE u == r.s
           C == u.clause
           T == u.trail
           U == t.trail
           M == b.lim
           q == b.qhead
<1>1. Form(u) /\ t = uncheckedEnqueue(u, l, c) /\ c \in DOMAIN C /\ l = C[c][1] /\ Free(T, l)
      /\ \A i \in 2 .. Len(C[c]) : OnTrail(T, -C[c][i])
  BY DEF Mid, Frame, EnqueuedStep
<1>2. /\ Frame(b, u) /\ Permuted(b.clause, C) /\ Continues(T, b.trail) /\ Core(n, F, M, q, C, T)
      /\ MidWatch(n, p, ws, C, u.watches, r.kept, k)
      /\ u.qhead = b.qhead /\ \A w \in Range(r.kept) : HasTrue(T, C[w.cref])
  BY DEF Mid, EnqueuedStep
<1>3. n \in Nat /\ Len(b.trail) \in Nat
  BY DEF At
<1>4. x.s = t /\ x.kept = r.kept /\ x.confl = 0 /\ x = [s |-> x.s, kept |-> x.kept, confl |-> x.confl]
  BY DEF EnqueuedStep
<1> HIDE DEF u
<1>5. /\ Frame(u, t) /\ t.clause = u.clause /\ t.watches = u.watches /\ t.qhead = u.qhead
      /\ Grown(u.trail, u.lim, l, c, t.trail)
  BY ONLY <1>1, EnqueueIs
<1>6. u.lim = M
  BY <1>2 DEF Frame
<1>7. Grown(T, M, l, c, U)
  BY <1>5, <1>6
<1>8. Frame(b, t)
  BY ONLY <1>2, <1>5 DEF Frame
<1> HIDE DEF C, T, U, M, q
<1>9. Core(n, F, M, q, C, U) /\ Continues(U, T) /\ OnTrail(U, l)
  <2>1. F \in SUBSET Assignments(n)
    OBVIOUS
  <2>2. QED  BY ONLY <1>1, <1>2, <1>3, <1>7, <2>1, EnqueuedCore
<1>10. Continues(U, b.trail) /\ \A a : OnTrail(T, a) => OnTrail(U, a)
  <2>1. TrailOk(n, T, M, q) /\ TrailOk(n, U, M, q)
    BY <1>2, <1>9 DEF Core
  <2>2. Len(T) \in Nat /\ Len(U) \in Nat
    BY ONLY <1>3, <2>1, TrailIs
  <2>3. Len(T) <= Len(U) /\ \A i \in 1 .. Len(T) : i \in 1 .. Len(U) /\ U[i] = T[i]
    BY ONLY <1>9, <2>2 DEF Continues
  <2>4. Len(b.trail) <= Len(T) /\ \A i \in 1 .. Len(b.trail) : i \in 1 .. Len(T) /\ T[i] = b.trail[i]
    BY ONLY <1>2, <1>3, <2>2 DEF Continues
  <2>5. Continues(U, b.trail)
    BY ONLY <1>3, <2>2, <2>3, <2>4 DEF Continues
  <2>6. \A a : OnTrail(T, a) => OnTrail(U, a)
    BY ONLY <2>3 DEF OnTrail
  <2>7. QED  BY <2>5, <2>6
<1>11. \A w \in Range(r.kept) : HasTrue(U, C[w.cref])
  BY ONLY <1>2, <1>10 DEF HasTrue
<1>12. t.clause = C /\ t.trail = U /\ M = b.lim /\ q = b.qhead
  BY <1>5 DEF C, U, M, q
<1>13. Mid(n, F, b, p, ws, x, k)
  <2>1. /\ Frame(b, x.s) /\ Permuted(b.clause, x.s.clause) /\ Continues(x.s.trail, b.trail)
        /\ Core(n, F, b.lim, b.qhead, x.s.clause, x.s.trail)
        /\ MidWatch(n, p, ws, x.s.clause, x.s.watches, x.kept, k)
        /\ x.confl = 0 /\ x.s.qhead = b.qhead /\ \A w \in Range(x.kept) : HasTrue(x.s.trail, x.s.clause[w.cref])
    BY ONLY <1>2, <1>4, <1>5, <1>8, <1>9, <1>10, <1>11, <1>12
  <2>2. QED  BY ONLY <1>4, <2>1 DEF Mid
<1>14. QED  BY <1>4, <1>5, <1>9, <1>12, <1>13 DEF C, u

(* Its clause is false: a conflict.                                        *)
LEMMA MidConflict ==
  ASSUME NEW n, NEW F, NEW b, NEW p, NEW ws, At(n, b, p, ws),
         NEW r, NEW k, Mid(n, F, b, p, ws, r, k),
         NEW c \in DOMAIN r.s.clause, AllFalse(r.s.trail, r.s.clause[c]),
         NEW t, t = [r.s EXCEPT !.qhead = Len(r.s.trail)],
         NEW x, x = [s |-> t, kept |-> r.kept, confl |-> c]
  PROVE  Mid(n, F, b, p, ws, x, k)
<1> DEFINE u == r.s
<1>1. Form(u) /\ t = [u EXCEPT !.qhead = Len(u.trail)] /\ c \in DOMAIN u.clause /\ AllFalse(u.trail, u.clause[c])
  BY DEF Mid, Frame
<1>2. /\ Frame(b, u) /\ Permuted(b.clause, u.clause) /\ Continues(u.trail, b.trail)
      /\ Core(n, F, b.lim, b.qhead, u.clause, u.trail)
      /\ MidWatch(n, p, ws, u.clause, u.watches, r.kept, k)
  BY DEF Mid
<1>3. n \in Nat
  BY DEF At
<1>4. x.s = t /\ x.kept = r.kept /\ x.confl = c /\ x = [s |-> x.s, kept |-> x.kept, confl |-> x.confl]
  OBVIOUS
<1> HIDE DEF u
<1>5. /\ Frame(u, t) /\ t.clause = u.clause /\ t.watches = u.watches /\ t.trail = u.trail
      /\ t.qhead = Len(u.trail)
  BY ONLY <1>1 DEF Form, Frame
<1>6. c # 0
  BY ONLY <1>1, <1>2, <1>3, ClausesAre DEF Core
<1>7. Frame(b, t)
  BY ONLY <1>2, <1>5 DEF Frame
<1>8. /\ Frame(b, x.s) /\ Permuted(b.clause, x.s.clause) /\ Continues(x.s.trail, b.trail)
      /\ Core(n, F, b.lim, b.qhead, x.s.clause, x.s.trail)
      /\ MidWatch(n, p, ws, x.s.clause, x.s.watches, x.kept, k)
      /\ x.confl # 0 /\ x.s.qhead = Len(x.s.trail)
      /\ x.confl \in DOMAIN x.s.clause /\ AllFalse(x.s.trail, x.s.clause[x.confl])
  BY ONLY <1>1, <1>2, <1>4, <1>5, <1>6, <1>7
<1>9. QED  BY ONLY <1>4, <1>8 DEF Mid

(* One watcher is looked at.                                               *)
LEMMA MinIs ==
  ASSUME NEW S \in SUBSET Nat, S # {}
  PROVE  Min(S) \in S /\ \A y \in S : Min(S) <= y
<1>1. PICK x \in S : \A y \in S : x <= y
  BY Least
<1>2. QED  BY <1>1 DEF Min

LEMMA ExamineCases ==
  ASSUME NEW r, NEW t, NEW p, NEW v, NEW c, NEW x, x = Examine(r, t, p, v, c)
  PROVE  /\ IsTrue(t, c[1]) /\ ~IsFalse(t, c[1]) => x = Keep(r, t, v)
         /\ ~IsTrue(t, c[1]) /\ NotFalse(t, c) # {} =>
              x = [r EXCEPT !.s = WatchInstead(t, Min(NotFalse(t, c)), p, v, c)]
         /\ ~IsTrue(t, c[1]) /\ IsFalse(t, c[1]) /\ NotFalse(t, c) = {} =>
              x = [Keep(r, [t EXCEPT !.qhead = Len(t.trail)], v) EXCEPT !.confl = v.cref]
         /\ ~IsTrue(t, c[1]) /\ ~IsFalse(t, c[1]) /\ NotFalse(t, c) = {} =>
              x = Keep(r, uncheckedEnqueue(t, c[1], v.cref), v)
  BY DEF Examine

LEMMA MidStep ==
  ASSUME NEW n, NEW F \in SUBSET Assignments(n), NEW b, NEW p, NEW ws, At(n, b, p, ws),
         NEW r, NEW k \in 0 .. Len(ws) - 1, Mid(n, F, b, p, ws, r, k),
         NEW w, w = ws[k + 1], NEW x, x = LookAt(r, p, w)
  PROVE  Mid(n, F, b, p, ws, x, k + 1)
<1> DEFINE C == r.s.clause
           T == r.s.trail
           c == w.cref
<1>1. /\ w \in Watchers(n) /\ c \in DOMAIN C /\ -p \in {C[c][1], C[c][2]}
      /\ w.blocker \in Range(C[c]) /\ w.blocker # -p
      /\ ClausesOk(n, C) /\ OnTrail(T, p) /\ n \in Nat /\ p \in LitsOf(n)
  BY NextWatcher DEF At
<1>2. \A l : IsTrue(r.s, l) <=> OnTrail(T, l)
  <2>1. TrailOk(n, T, b.lim, b.qhead)
    BY DEF Mid, Core
  <2>2. QED  BY <1>1, <2>1, TrueIs
<1>3. r = [s |-> r.s, kept |-> r.kept, confl |-> r.confl]
  BY DEF Mid
<1>4. CASE r.confl # 0 \/ IsTrue(r.s, w.blocker)
  <2>1. x = Keep(r, r.s, w)
    BY <1>4 DEF LookAt
  <2>2. x = [s |-> r.s, kept |-> Append(r.kept, w), confl |-> r.confl]
    BY <1>3, <2>1 DEF Keep
  <2>3. r.confl = 0 => HasTrue(T, C[c])
    BY <1>1, <1>2, <1>4 DEF HasTrue
  <2>4. QED  BY <1>1, <2>2, <2>3, MidKeep
<1>5. CASE r.confl = 0 /\ ~IsTrue(r.s, w.blocker)
  <2> DEFINE t == Ordered(r.s, p, c)
             y == [s |-> t, kept |-> r.kept, confl |-> r.confl]
             D == t.clause
             e == D[c]
             v == Watcher(c, e[1])
             U == t.trail
  <2>1. x = Examine(r, t, p, v, e)
    BY <1>5 DEF LookAt, ExamineOrdered
  <2>2. c = ws[k + 1].cref /\ r.confl = 0
    BY <1>5
  <2> HIDE DEF c, C, T
  <2>3. /\ Mid(n, F, b, p, ws, y, k) /\ y.s = t /\ y.kept = r.kept /\ y.confl = 0
        /\ c \in DOMAIN D /\ e[2] = -p /\ e[1] # -p
    <3>1. At(n, b, p, ws) /\ k \in 0 .. Len(ws) - 1 /\ Mid(n, F, b, p, ws, r, k)
      OBVIOUS
    <3>2. t = Ordered(r.s, p, c) /\ y = [s |-> t, kept |-> r.kept, confl |-> r.confl]
      OBVIOUS
    <3> HIDE DEF t, y
    <3>3. OrderedStep(r, p, c, t, y)
      BY <2>2, <3>2 DEF OrderedStep
    <3>4. NextAt(ws, k, c)
      BY <2>2 DEF NextAt
    <3>6. Mid(n, F, b, p, ws, y, k) /\ y.s = t /\ y.kept = r.kept /\ y.confl = 0 /\ SecondFalse(t.clause, c, p)
      BY ONLY <3>1, <3>3, <3>4, MidOrdered
    <3>7. QED  BY <3>6 DEF SecondFalse
  <2>4. v.cref = c /\ v.blocker = e[1]
    BY DEF Watcher
  <2> HIDE DEF t, v, y
  <2>5. /\ TrailOk(n, U, b.lim, b.qhead) /\ ClausesOk(n, D) /\ OnTrail(U, p)
    <3>1. Core(n, F, b.lim, b.qhead, D, U)
      BY <2>3 DEF Mid
    <3>2. OnTrail(U, p)
      BY <2>3, NextWatcher
    <3>3. QED  BY <3>1, <3>2 DEF Core
  <2>6. /\ IsClause(n, e) /\ Len(e) >= 2 /\ Len(e) \in Nat /\ e[1] \in LitsOf(n) /\ e[1] \in Range(e)
        /\ \A l : l \in Range(e) <=> \E i \in 1 .. Len(e) : e[i] = l
    <3>1. IsClause(n, e) /\ Len(e) >= 2 /\ e[1] \in LitsOf(n) /\ e[1] \in Range(e)
      BY <1>1, <2>3, <2>5, ClausesAre
    <3> HIDE DEF e
    <3>2. QED  BY ONLY <1>1, <3>1, ClauseIs
  <2>7. /\ \A l : IsTrue(t, l) <=> OnTrail(U, l)
        /\ \A l : IsFalse(t, l) <=> OnTrail(U, -l)
        /\ ~(OnTrail(U, e[1]) /\ OnTrail(U, -e[1]))
    <3>1. n \in Nat /\ e[1] \in LitsOf(n) /\ TrailOk(n, t.trail, b.lim, b.qhead)
      BY <1>1, <2>5, <2>6
    <3>2. QED  BY ONLY <3>1, TrueIs, TrailIs
  <2>8. v \in Watchers(n)
    <3>1. c \in Nat
      BY <1>1, <2>3, <2>5, ClausesAre
    <3>2. QED  BY <2>6, <3>1 DEF v, Watcher, Watchers
  <2>9. NotFalse(t, e) = { i \in 3 .. Len(e) : ~OnTrail(U, -e[i]) }
    BY <2>7 DEF NotFalse
  <2>10. y = [s |-> t, kept |-> r.kept, confl |-> r.confl]
    BY DEF y
  <2> HIDE DEF D, e, U
  <2>11. CASE IsTrue(t, e[1])
    <3>1. x = Keep(r, t, v)
      BY <2>1, <2>7, <2>11, ExamineCases
    <3>2. x = [s |-> y.s, kept |-> Append(y.kept, v), confl |-> y.confl]
      BY <1>3, <2>2, <2>3, <3>1 DEF Keep
    <3>3. HasTrue(U, e)
      BY <2>6, <2>7, <2>11 DEF HasTrue
    <3>4. v.cref = ws[k + 1].cref /\ v.blocker \in Range(y.s.clause[v.cref]) /\ v.blocker # -p
          /\ HasTrue(y.s.trail, y.s.clause[v.cref])
      BY <2>2, <2>3, <2>4, <2>6, <3>3 DEF D, e, U
    <3>5. QED  BY <2>3, <2>8, <3>2, <3>4, MidKeep
  <2>12. CASE ~IsTrue(t, e[1]) /\ NotFalse(t, e) # {}
    <3> DEFINE j == Min(NotFalse(t, e))
               u == WatchInstead(t, j, p, v, e)
    <3>1. j \in NotFalse(t, e)
      <4>1. NotFalse(t, e) \subseteq Nat
        BY <2>6, <2>9
      <4>2. QED  BY <2>12, <4>1, MinIs
    <3>2. x = [r EXCEPT !.s = u]
      BY <2>1, <2>12, ExamineCases
    <3> HIDE DEF j
    <3>3. Rewatching(p, y, c, j, v, u)
      BY <2>3, <2>7, <2>9, <2>12, <3>1 DEF Rewatching, D, e, U, v
    <3> HIDE DEF u
    <3>4. x = [s |-> u, kept |-> y.kept, confl |-> y.confl]
      BY <1>3, <2>2, <2>3, <3>2
    <3>5. QED  BY <2>2, <2>3, <3>3, <3>4, MidMoved
  <2>13. ASSUME NotFalse(t, e) = {} PROVE \A i \in 2 .. Len(e) : OnTrail(U, -e[i])
    <3>1. \A i \in 3 .. Len(e) : OnTrail(U, -e[i])
      BY <2>9, <2>13
    <3>2. -(-p) = p
      BY <1>1, Literals
    <3>3. OnTrail(U, -e[2])
      BY <2>3, <2>5, <3>2 DEF e
    <3>4. \A i \in 2 .. Len(e) : i = 2 \/ i \in 3 .. Len(e)
      BY <2>6
    <3>5. QED  BY ONLY <3>1, <3>3, <3>4
  <2>14. CASE ~IsTrue(t, e[1]) /\ IsFalse(t, e[1]) /\ NotFalse(t, e) = {}
    <3> DEFINE u == [t EXCEPT !.qhead = Len(t.trail)]
               z == [s |-> u, kept |-> y.kept, confl |-> c]
    <3>1. x = [Keep(r, u, v) EXCEPT !.confl = v.cref]
      BY <2>1, <2>14, ExamineCases
    <3>2. AllFalse(y.s.trail, y.s.clause[c])
      <4>1. \A i \in 1 .. Len(e) : OnTrail(U, -e[i])
        <5>1. \A i \in 2 .. Len(e) : OnTrail(U, -e[i])
          BY <2>13, <2>14
        <5>2. OnTrail(U, -e[1])
          BY <2>7, <2>14
        <5>3. \A i \in 1 .. Len(e) : i = 1 \/ i \in 2 .. Len(e)
          BY <2>6
        <5>4. QED  BY ONLY <5>1, <5>2, <5>3
      <4>2. AllFalse(U, e)
        BY <2>6, <4>1 DEF AllFalse
      <4>3. QED  BY <2>3, <4>2 DEF D, e, U
    <3>3. u = [y.s EXCEPT !.qhead = Len(y.s.trail)] /\ c \in DOMAIN y.s.clause
      BY <2>3 DEF D
    <3>4. z.s = u /\ z.kept = y.kept /\ z.confl = c
      OBVIOUS
    <3> HIDE DEF u
    <3>5. x = [s |-> z.s, kept |-> Append(z.kept, v), confl |-> z.confl]
      <4>1. x = [s |-> u, kept |-> Append(r.kept, v), confl |-> c]
        BY ONLY <1>3, <2>4, <3>1 DEF Keep
      <4>2. y.kept = r.kept
        BY <2>3
      <4> HIDE DEF z
      <4>3. QED  BY ONLY <3>4, <4>1, <4>2
    <3>6. Mid(n, F, b, p, ws, z, k)
      BY <2>3, <3>2, <3>3, MidConflict DEF u
    <3>7. u.clause = D /\ c # 0
      <4>1. Form(t)
        BY <2>3 DEF Mid, Frame
      <4>2. u.clause = t.clause
        BY ONLY <4>1 DEF Form, u
      <4>3. c # 0
        BY <1>1, <2>3, <2>5, ClausesAre DEF D
      <4>4. QED  BY <4>2, <4>3 DEF D
    <3> HIDE DEF z
    <3>8. /\ v.cref = ws[k + 1].cref /\ v.blocker \in Range(z.s.clause[v.cref]) /\ v.blocker # -p
          /\ z.confl # 0
      BY <2>2, <2>3, <2>4, <2>6, <3>4, <3>7 DEF e
    <3>9. QED  BY <2>8, <3>5, <3>6, <3>8, MidKeep
  <2>15. CASE ~IsTrue(t, e[1]) /\ ~IsFalse(t, e[1]) /\ NotFalse(t, e) = {}
    <3> DEFINE l == e[1]
               u == uncheckedEnqueue(t, l, c)
               z == [s |-> u, kept |-> y.kept, confl |-> y.confl]
    <3>1. x = Keep(r, u, v)
      BY <2>1, <2>4, <2>15, ExamineCases
    <3>2. /\ c \in DOMAIN y.s.clause /\ l = y.s.clause[c][1] /\ Free(y.s.trail, l)
          /\ \A i \in 2 .. Len(y.s.clause[c]) : OnTrail(y.s.trail, -y.s.clause[c][i])
          /\ u = uncheckedEnqueue(y.s, l, c)
      BY <2>3, <2>7, <2>13, <2>15 DEF D, e, U, Free
    <3> HIDE DEF l, u
    <3>9. z = [s |-> u, kept |-> y.kept, confl |-> y.confl]
      OBVIOUS
    <3> HIDE DEF z
    <3>3. /\ Mid(n, F, b, p, ws, z, k) /\ z.s = u /\ z.kept = y.kept /\ z.confl = 0
          /\ u.clause = y.s.clause /\ OnTrail(u.trail, l)
      <4>1. F \in SUBSET Assignments(n) /\ At(n, b, p, ws)
        OBVIOUS
      <4>2. EnqueuedStep(y, l, c, u, z) /\ Mid(n, F, b, p, ws, y, k)
        BY <2>3, <3>2, <3>9 DEF EnqueuedStep
      <4>3. QED  BY ONLY <4>1, <4>2, MidEnqueued
    <3>4. x = [s |-> z.s, kept |-> Append(z.kept, v), confl |-> z.confl]
      BY ONLY <1>3, <2>2, <2>3, <3>1, <3>3 DEF Keep
    <3>5. /\ v.cref = ws[k + 1].cref /\ v.blocker \in Range(z.s.clause[v.cref]) /\ v.blocker # -p
          /\ HasTrue(z.s.trail, z.s.clause[v.cref])
      BY <2>2, <2>3, <2>4, <2>6, <3>3 DEF D, e, l, HasTrue
    <3>6. QED  BY <2>8, <3>3, <3>4, <3>5, MidKeep
  <2>16. QED  BY <2>11, <2>12, <2>14, <2>15
<1>6. QED  BY <1>4, <1>5

(* The loop is done.                                                       *)
Solvers(n, b) ==
  [ ok : {b.ok}, clause : [DOMAIN b.clause -> Seq(LitsOf(n))], orig : {b.orig}, learnt : {b.learnt},
    watches : [LitsOf(n) -> Seq(Watchers(n))], trail : Seq(Entries(n)), lim : {b.lim}, qhead : Nat,
    heap : {b.heap}, polarity : {b.polarity}, userPol : {b.userPol},
    simpAssigns : {b.simpAssigns}, simpProps : Int ]

Results(n, b) == [s : Solvers(n, b), kept : Seq(Watchers(n)), confl : Nat]

LEMMA SolverIn ==
  ASSUME NEW n \in Nat, NEW b, NEW t, Form(t),
         t.ok = b.ok, t.orig = b.orig, t.learnt = b.learnt, t.lim = b.lim,
         t.heap = b.heap, t.polarity = b.polarity, t.userPol = b.userPol,
         t.simpAssigns = b.simpAssigns, t.simpProps \in Int,
         Permuted(b.clause, t.clause), ClausesOk(n, t.clause),
         NEW M, NEW q, TrailOk(n, t.trail, M, q), t.qhead \in Nat,
         Lists(LitsOf(n), Watchers(n), t.watches)
  PROVE  t \in Solvers(n, b)
<1>1. t.clause \in [DOMAIN b.clause -> Seq(LitsOf(n))]
  <2>1. DOMAIN t.clause = DOMAIN b.clause
    BY DEF Permuted
  <2>2. t.clause = [c \in DOMAIN t.clause |-> t.clause[c]] /\ \A c \in DOMAIN t.clause : t.clause[c] \in Seq(LitsOf(n))
    BY DEF ClausesOk, IsClause
  <2>3. QED  BY <2>1, <2>2
<1>2. t.trail \in Seq(Entries(n))
  BY DEF TrailOk
<1>3. t.watches \in [LitsOf(n) -> Seq(Watchers(n))]
  BY DEF Lists
<1>4. QED  BY <1>1, <1>2, <1>3 DEF Form, Solvers

LEMMA MidIn ==
  ASSUME NEW n, NEW F, NEW b, NEW p, NEW ws, At(n, b, p, ws), b.qhead \in Nat, b.simpProps \in Int,
         NEW r, NEW k, Mid(n, F, b, p, ws, r, k)
  PROVE  r \in Results(n, b)
<1> DEFINE t == r.s
<1>1. n \in Nat
  BY DEF At
<1>2. /\ r = [s |-> r.s, kept |-> r.kept, confl |-> r.confl]
      /\ Frame(b, t) /\ Permuted(b.clause, t.clause)
      /\ Core(n, F, b.lim, b.qhead, t.clause, t.trail)
      /\ MidWatch(n, p, ws, t.clause, t.watches, r.kept, k)
      /\ r.confl = 0 => t.qhead = b.qhead
      /\ r.confl # 0 => t.qhead = Len(t.trail) /\ r.confl \in DOMAIN t.clause
  BY DEF Mid
<1> HIDE DEF t
<1>3. /\ ClausesOk(n, t.clause) /\ TrailOk(n, t.trail, b.lim, b.qhead)
      /\ Lists(LitsOf(n), Watchers(n), t.watches) /\ r.kept \in Seq(Watchers(n))
  BY <1>2 DEF Core, MidWatch
<1>4. t.qhead \in Nat /\ r.confl \in Nat
  <2>1. Len(t.trail) \in Nat
    BY <1>1, <1>3, TrailIs
  <2>2. r.confl # 0 => r.confl \in Nat
    BY <1>1, <1>2, <1>3, ClausesAre
  <2>3. QED  BY <1>2, <2>1, <2>2
<1>5. /\ Form(t) /\ t.ok = b.ok /\ t.orig = b.orig /\ t.learnt = b.learnt /\ t.lim = b.lim
      /\ t.heap = b.heap /\ t.polarity = b.polarity /\ t.userPol = b.userPol
      /\ t.simpAssigns = b.simpAssigns /\ t.simpProps \in Int
  BY <1>2 DEF Frame
<1>6. t \in Solvers(n, b)
  BY ONLY <1>1, <1>2, <1>3, <1>4, <1>5, SolverIn
<1>7. QED  BY ONLY <1>2, <1>3, <1>4, <1>6 DEF Results, t

LEMMA WatchersDone ==
  ASSUME NEW n, NEW F \in SUBSET Assignments(n), NEW b, NEW p, NEW ws, At(n, b, p, ws),
         b.qhead \in Nat, b.simpProps \in Int,
         NEW first, Mid(n, F, b, p, ws, first, 0)
  PROVE  Mid(n, F, b, p, ws, LookAtAll(first, p, ws), Len(ws))
<1> DEFINE m == Len(ws)
           Turn(k, x) == LookAt(x, p, ws[k])
           X == [k \in 0 .. m |-> { x \in Results(n, b) : Mid(n, F, b, p, ws, x, k) }]
           turn == [k \in 1 .. m |-> [x \in X[k - 1] |-> Turn(k, x)]]
           Is(g) == g = [k \in 0 .. m |-> IF k = 0 THEN first ELSE Turn(k, g[k - 1])]
           run == CHOOSE g : Is(g)
<1>50. LookAtAll(first, p, ws) = run[m]
  BY DEF Loop, LookAtAll
<1>60. m \in Nat
  BY DEF At
<1>40. first \in Results(n, b) /\ Mid(n, F, b, p, ws, first, 0)
  BY MidIn
<1>41. ASSUME NEW k \in 1 .. m, NEW x \in Results(n, b), Mid(n, F, b, p, ws, x, k - 1)
       PROVE  Turn(k, x) \in Results(n, b) /\ Mid(n, F, b, p, ws, Turn(k, x), k)
  <2> DEFINE j == k - 1
             w == ws[j + 1]
             y == LookAt(x, p, w)
  <2>1. j \in 0 .. Len(ws) - 1 /\ j + 1 = k /\ Mid(n, F, b, p, ws, x, j)
    BY <1>41, <1>60
  <2>2. Turn(k, x) = y
    BY <2>1
  <2> HIDE DEF j, y, Turn
  <2>3. Mid(n, F, b, p, ws, y, j + 1)
    BY <2>1, MidStep DEF y
  <2>4. y \in Results(n, b)
    BY <2>3, MidIn
  <2>5. QED  BY <2>1, <2>2, <2>3, <2>4
<1>61. m \in Nat
  BY <1>60
<1>62. \A k \in 0 .. m : \A x : x \in X[k] <=> x \in Results(n, b) /\ Mid(n, F, b, p, ws, x, k)
  OBVIOUS
<1> HIDE DEF X
<1>63. first \in X[0]
  <2>1. 0 \in 0 .. m
    BY <1>61
  <2>2. QED  BY <1>40, <1>62, <2>1
<1>64. ASSUME NEW k \in 1 .. m, NEW x \in X[k - 1] PROVE Turn(k, x) \in X[k]
  <2>1. k - 1 \in 0 .. m /\ k \in 0 .. m
    BY <1>61
  <2>2. x \in Results(n, b) /\ Mid(n, F, b, p, ws, x, (k - 1))
    BY <1>62, <2>1
  <2>3. Turn(k, x) \in Results(n, b) /\ Mid(n, F, b, p, ws, Turn(k, x), k)
    BY <1>41, <2>2
  <2> HIDE DEF Turn
  <2>4. QED  BY <1>62, <2>1, <2>3
<1>65. \A k \in 1 .. m : \A x \in X[k - 1] : turn[k][x] \in X[k] /\ turn[k][x] = Turn(k, x)
  BY <1>64
<1> HIDE DEF turn, Is, Turn, m
<1>66. PICK g : Turns(g, m, first, turn) /\ \A k \in 0 .. m : g[k] \in X[k]
  <2>1. \A k \in 1 .. m : \A x \in X[k - 1] : turn[k][x] \in X[k]
    BY <1>65
  <2>2. QED  BY <1>61, <1>63, <2>1, Stepwise
<1>67. Is(g)
  <2>1. \A k \in 1 .. m : k - 1 \in 0 .. m /\ k \in 0 .. m /\ k # 0
    BY <1>61
  <2>2. \A k \in 1 .. m : g[k] = Turn(k, g[k - 1])
    BY <1>65, <1>66, <2>1 DEF Turns
  <2>3. DOMAIN g = 0 .. m /\ g = [k \in DOMAIN g |-> g[k]]
    BY <1>66 DEF Turns
  <2>4. g[0] = first /\ \A k \in 0 .. m : k # 0 => k \in 1 .. m
    BY <1>61, <1>66 DEF Turns
  <2>5. QED  BY <2>2, <2>3, <2>4 DEF Is
<1>68. Is(run)
  BY <1>67
<1> HIDE DEF run
<1>69. run[m] \in X[m]
  <2>1. run[0] \in X[0]
    BY <1>61, <1>63, <1>68 DEF Is
  <2>2. ASSUME NEW k \in 1 .. m, run[k - 1] \in X[k - 1] PROVE run[k] \in X[k]
    <3>1. k \in 0 .. m /\ k # 0
      BY <1>61
    <3>2. run[k] = Turn(k, run[k - 1])
      BY <1>68, <3>1 DEF Is
    <3>3. QED  BY <1>65, <2>2, <3>2
  <2>3. QED  BY <1>61, <2>1, <2>2, RunStays
<1>70. run[m] \in Results(n, b) /\ Mid(n, F, b, p, ws, run[m], m)
  <2>1. m \in 0 .. m
    BY <1>61
  <2>2. QED  BY <1>62, <1>69, <2>1
<1>71. QED  BY <1>50, <1>70 DEF m

(* The solver between two literals of the trail.                           *)
Kin(b, t) ==
  /\ Form(t)
  /\ t.ok = b.ok /\ t.orig = b.orig /\ t.learnt = b.learnt /\ t.lim = b.lim
  /\ t.heap = b.heap /\ t.polarity = b.polarity /\ t.userPol = b.userPol
  /\ t.simpAssigns = b.simpAssigns /\ t.simpProps \in Int

Steady(n, F, C, T, M, q, W) ==
  /\ ClausesOk(n, C) /\ TrailOk(n, T, M, q) /\ WatchOk(n, C, W)
  /\ ReasonOk(C, T) /\ DecisionsOk(T, M) /\ Sound(F, C, T)

Round(n, F, b, r) ==
  /\ r = [s |-> r.s, confl |-> r.confl]
  /\ Kin(b, r.s) /\ Permuted(b.clause, r.s.clause) /\ Continues(r.s.trail, b.trail)
  /\ Steady(n, F, r.s.clause, r.s.trail, r.s.lim, r.s.qhead, r.s.watches)
  /\ r.confl = 0 => Looked(r.s.clause, r.s.trail, r.s.qhead, Len(r.s.lim))
  /\ r.confl # 0 => Clash(r.s.clause, r.s.trail, r.s.lim, r.s.qhead, r.confl)

(* The next literal of the trail.                                          *)
Beginning(t, p, ws, u, first) ==
  /\ t.qhead < Len(t.trail)
  /\ p = t.trail[t.qhead + 1].lit /\ ws = t.watches[p]
  /\ u = [t EXCEPT !.qhead = @ + 1]
  /\ first = [s |-> u, kept |-> <<>>, confl |-> 0]

LEMMA LiteralStarts ==
  ASSUME NEW n \in Nat, NEW F, NEW t, Form(t), t.simpProps \in Int,
         Steady(n, F, t.clause, t.trail, t.lim, t.qhead, t.watches),
         Looked(t.clause, t.trail, t.qhead, Len(t.lim)),
         NEW p, NEW ws, NEW u, NEW first, Beginning(t, p, ws, u, first)
  PROVE  /\ Frame(t, u) /\ u.clause = t.clause /\ u.trail = t.trail /\ u.watches = t.watches
         /\ u.qhead = t.qhead + 1 /\ u.qhead \in Nat
         /\ At(n, u, p, ws) /\ Mid(n, F, u, p, ws, first, 0)
<1> DEFINE C == t.clause
           T == t.trail
           M == t.lim
           q == t.qhead
           W == t.watches
           z == q + 1
<1>1. /\ ClausesOk(n, C) /\ TrailOk(n, T, M, q) /\ WatchOk(n, C, W)
      /\ ReasonOk(C, T) /\ DecisionsOk(T, M) /\ Sound(F, C, T) /\ Looked(C, T, q, Len(M))
  BY DEF Steady
<1>2. /\ q < Len(T) /\ p = T[z].lit /\ ws = W[p] /\ u = [t EXCEPT !.qhead = q + 1]
      /\ first = [s |-> u, kept |-> <<>>, confl |-> 0]
  BY DEF Beginning
<1>3. /\ Frame(t, u) /\ u.clause = C /\ u.trail = T /\ u.watches = W /\ u.qhead = z /\ u.lim = M
  BY <1>2 DEF Frame, Form
<1>4. Len(T) \in Nat /\ q \in Nat /\ Len(M) \in Nat /\ \A k \in 1 .. Len(M) : M[k] \in 0 .. q
  BY <1>1, TrailIs
<1>5. z \in 1 .. Len(T) /\ z - 1 = q
  BY <1>2, <1>4
<1>6. p \in LitsOf(n) /\ OnTrail(T, p)
  BY <1>1, <1>2, <1>5, TrailIs DEF OnTrail
<1>7. ws \in Seq(Watchers(n)) /\ IsInjective(ws) /\ WatchAt(C, p, Range(ws)) /\ Lists(LitsOf(n), Watchers(n), W)
  BY <1>1, <1>2, <1>6 DEF WatchOk, Lists
<1> HIDE DEF z
<1>8. TrailOk(n, T, M, z)
  <2>1. \A k \in 1 .. Len(M) : M[k] <= z
    BY <1>4, <1>5
  <2>2. z \in 0 .. Len(T)
    BY <1>4, <1>5
  <2>3. QED  BY <1>1, <2>1, <2>2 DEF TrailOk
<1>9. Core(n, F, M, z, C, T)
  BY <1>1, <1>5, <1>8 DEF Core
<1>10. MidWatch(n, p, ws, C, W, <<>>, 0)
  <2> DEFINE K == <<>>
             o == 0
  <2>1. Rest(ws, o) = Range(ws)
    BY <1>7 DEF Rest, Range
  <2>2. K \in Seq(Watchers(n)) /\ IsInjective(K) /\ Range(K) = {}
    BY DEF Range, IsInjective
  <2>3. Range(K) \cup Rest(ws, o) = Range(ws) /\ Range(K) \cap Rest(ws, o) = {}
    BY <2>1, <2>2
  <2> HIDE DEF K, o
  <2>4. \A l \in LitsOf(n) : IsInjective(W[l]) /\ WatchAt(C, l, Range(W[l]))
    BY <1>1 DEF WatchOk
  <2>5. MidWatch(n, p, ws, C, W, K, o)
    BY <1>2, <1>7, <2>2, <2>3, <2>4 DEF MidWatch
  <2>6. QED  BY <2>5 DEF K, o
<1>11. Permuted(C, C) /\ Continues(T, T) /\ Frame(u, u)
  BY <1>3, <1>4 DEF Permuted, Continues, Frame
<1>12. first.s = u /\ first.kept = <<>> /\ first.confl = 0 /\ first = [s |-> first.s, kept |-> first.kept, confl |-> first.confl]
  BY <1>2
<1>13. Mid(n, F, u, p, ws, first, 0)
  <2>1. \A w \in Range(first.kept) : HasTrue(first.s.trail, first.s.clause[w.cref])
    BY <1>12 DEF Range
  <2>2. QED  BY <1>3, <1>9, <1>10, <1>11, <1>12, <2>1 DEF Mid
<1>14. At(n, u, p, ws)
  BY <1>3, <1>4, <1>6, <1>7 DEF At
<1>15. QED  BY <1>3, <1>4, <1>5, <1>13, <1>14 DEF z

Ending(u, p) ==
  /\ u.simpProps \in Int
  /\ u.qhead \in 1 .. Len(u.trail) /\ u.trail[u.qhead].lit = p
  /\ \A k \in 1 .. Len(u.lim) : u.lim[k] < u.qhead

LEMMA LiteralEnds ==
  ASSUME NEW n, NEW F, NEW u, NEW p, NEW ws, At(n, u, p, ws), Ending(u, p),
         NEW y, NEW m, m = Len(ws), Mid(n, F, u, p, ws, y, m),
         NEW x, x = Settled(y, p)
  PROVE  Round(n, F, u, x) /\ x.confl = y.confl /\ (x.confl = 0 => x.s.qhead = u.qhead)
<1> DEFINE t == y.s
           C == t.clause
           T == t.trail
           M == u.lim
           z == u.qhead
           v == x.s
           W == v.watches
           K == y.kept
<1>1. n \in Nat /\ p \in LitsOf(n) /\ ws \in Seq(Watchers(n)) /\ IsInjective(ws) /\ Len(u.trail) \in Nat
  BY DEF At
<1>16. /\ u.simpProps \in Int /\ z \in 1 .. Len(u.trail) /\ u.trail[z].lit = p
       /\ \A k \in 1 .. Len(M) : M[k] < z
  BY DEF Ending
<1>2. /\ Frame(u, t) /\ Permuted(u.clause, C) /\ Continues(T, u.trail)
      /\ Core(n, F, M, z, C, T) /\ MidWatch(n, p, ws, C, t.watches, K, m)
      /\ y.confl = 0 => /\ t.qhead = z
                        /\ \A w \in Range(K) : HasTrue(T, C[w.cref])
      /\ y.confl # 0 => /\ t.qhead = Len(T)
                        /\ y.confl \in DOMAIN C /\ AllFalse(T, C[y.confl])
  BY DEF Mid
<1>3. /\ x = [s |-> x.s, confl |-> x.confl] /\ x.confl = y.confl
      /\ v = [t EXCEPT !.watches[p] = K, !.simpProps = @ - 1]
  BY DEF Settled
<1>4. Form(t) /\ t.lim = M /\ t.simpProps \in Int
  BY <1>2, <1>16 DEF Frame
<1> HIDE DEF t, K, v
<1>5. /\ Kin(t, v) /\ v.clause = C /\ v.trail = T /\ v.qhead = t.qhead /\ v.lim = M
      /\ W = Put(t.watches, p, K)
  <2> DEFINE A == Put(t.watches, p, K)
             j == t.simpProps - 1
  <2>1. v = [t EXCEPT !.watches = A, !.simpProps = j]
    BY ONLY <1>3 DEF Put
  <2>2. j \in Int
    BY <1>4
  <2> HIDE DEF A, j
  <2>3. /\ Kin(t, v) /\ v.clause = t.clause /\ v.trail = t.trail /\ v.qhead = t.qhead /\ v.lim = t.lim
        /\ v.watches = A
    BY ONLY <1>4, <2>1, <2>2 DEF Form, Kin
  <2>4. QED  BY ONLY <1>4, <2>3 DEF A
<1>6. Kin(u, v)
  BY ONLY <1>2, <1>5, <1>16 DEF Kin, Frame
<1>7. /\ ClausesOk(n, C) /\ TrailOk(n, T, M, z) /\ ReasonOk(C, T) /\ DecisionsOk(T, M) /\ Sound(F, C, T)
      /\ Looked(C, T, z - 1, Len(M))
  BY <1>2 DEF Core
<1>8. /\ Len(T) \in Nat /\ Len(M) \in Nat /\ z \in Nat /\ z <= Len(T)
      /\ \A i \in 1 .. Len(T) : T[i].lit \in LitsOf(n) /\ T[i].level \in 0 .. Len(M)
      /\ \A k \in 1 .. Len(M) : M[k] \in 0 .. z
  BY <1>1, <1>7, TrailIs
<1>9. /\ Lists(LitsOf(n), Watchers(n), t.watches)
      /\ \A l \in LitsOf(n) : l # p => IsInjective(t.watches[l]) /\ WatchAt(C, l, Range(t.watches[l]))
      /\ K \in Seq(Watchers(n)) /\ IsInjective(K) /\ WatchAt(C, p, Range(K))
  <2>1. Rest(ws, m) = {}
    BY <1>1 DEF Rest
  <2>2. QED  BY <1>2, <2>1 DEF MidWatch
<1>10. WatchOk(n, C, W)
  <2>1. W[p] = K /\ Lists(LitsOf(n), Watchers(n), W) /\ \A l \in LitsOf(n) : l # p => W[l] = t.watches[l]
    BY <1>1, <1>5, <1>9 DEF Lists, Put
  <2> HIDE DEF W
  <2>2. QED  BY <1>9, <2>1 DEF WatchOk
<1>11. T[z].lit = p
  BY <1>2, <1>16 DEF Continues
<1>12. \A i \in z .. Len(T) : T[i].level = Len(M)
  <2>0. SUFFICES ASSUME NEW i, i \in z .. Len(T) PROVE T[i].level = Len(M)
    OBVIOUS
  <2>1. i \in z .. Len(T)
    BY <2>0
  <2>6. z \in 1 .. Len(u.trail)
    BY <1>16
  <2>2. i \in 1 .. Len(T) /\ T[i].level \in 0 .. Len(M)
    BY ONLY <1>8, <2>1, <2>6
  <2>3. CASE Len(M) = 0
    BY <2>2, <2>3
  <2>4. CASE Len(M) # 0
    <3> DEFINE k == Len(M)
    <3>1. k \in 1 .. Len(M)
      BY <1>8, <2>4
    <3>2. M[k] \in 0 .. z /\ M[k] < z
      BY <1>8, <1>16, <3>1
    <3>3. i > M[k]
      BY ONLY <1>8, <2>1, <3>2
    <3> HIDE DEF k, T, M
    <3>4. T[i].level >= k
      BY ONLY <1>7, <2>2, <3>1, <3>3 DEF TrailOk
    <3> USE DEF k
    <3>5. QED  BY ONLY <1>8, <2>2, <3>4
  <2>5. QED  BY <2>3, <2>4
<1>13. CASE y.confl = 0
  <2>1. Looked(C, T, z, Len(M))
    <3>1. SUFFICES ASSUME NEW c \in DOMAIN C, NEW i \in 1 .. z, T[i].level <= Len(M), -T[i].lit \in {C[c][1], C[c][2]}
                   PROVE  \E j \in 1 .. Len(T) : T[j].lit \in Range(C[c]) /\ T[j].level <= T[i].level
      BY DEF Looked
    <3>2. CASE i \in 1 .. z - 1
      BY <1>7, <3>1, <3>2 DEF Looked
    <3>3. CASE i = z
      <4>1. PICK w \in Range(K) : w.cref = c
        BY <1>9, <1>11, <3>1, <3>3 DEF WatchAt
      <4>2. HasTrue(T, C[c])
        BY <1>2, <1>13, <4>1
      <4>3. PICK j \in 1 .. Len(T) : T[j].lit \in Range(C[c])
        BY <4>2 DEF HasTrue, OnTrail
      <4>4. T[j].level \in 0 .. Len(M) /\ T[i].level = Len(M)
        BY <1>8, <1>12, <3>3
      <4>5. QED  BY ONLY <1>8, <4>3, <4>4
    <3>4. QED  BY <1>8, <3>2, <3>3
  <2>2. Steady(n, F, C, T, M, z, W)
    BY <1>7, <1>10 DEF Steady
  <2>3. t.qhead = z
    BY <1>2, <1>13
  <2> HIDE DEF C, T, W, v, M, z
  <2>4. Round(n, F, u, x)
    <3>1. x.s = v /\ v.clause = C /\ v.trail = T /\ v.qhead = z /\ v.lim = M /\ v.watches = W
      BY <1>5, <2>3 DEF v, W
    <3>2. QED  BY ONLY <1>2, <1>3, <1>6, <1>13, <2>1, <2>2, <3>1 DEF Round
  <2>5. QED  BY <1>3, <1>5, <2>3, <2>4 DEF v, z
<1>14. CASE y.confl # 0
  <2> DEFINE L == Len(T)
  <2>1. TrailOk(n, T, M, L)
    <3>1. \A k \in 1 .. Len(M) : M[k] <= L
      BY ONLY <1>8
    <3>2. L \in 0 .. Len(T)
      BY <1>8
    <3>3. QED  BY <1>7, <3>1, <3>2 DEF TrailOk
  <2>2. Looked(C, T, L, Len(M) - 1)
    <3>1. SUFFICES ASSUME NEW c \in DOMAIN C, NEW i \in 1 .. L, T[i].level <= Len(M) - 1, -T[i].lit \in {C[c][1], C[c][2]}
                   PROVE  \E j \in 1 .. Len(T) : T[j].lit \in Range(C[c]) /\ T[j].level <= T[i].level
      BY DEF Looked
    <3>2. T[i].level \in 0 .. Len(M) /\ T[i].level # Len(M)
      BY ONLY <1>8, <3>1
    <3>3. i \in 1 .. z - 1
      BY <1>8, <1>12, <3>2
    <3>4. T[i].level <= Len(M)
      BY <3>2
    <3>5. QED  BY <1>7, <3>1, <3>3, <3>4 DEF Looked
  <2>3. Clash(C, T, M, L, y.confl)
    BY <1>2, <1>14, <2>2 DEF Clash
  <2>4. Steady(n, F, C, T, M, L, W)
    BY <1>7, <1>10, <2>1 DEF Steady
  <2>5. t.qhead = L
    BY <1>2, <1>14
  <2> HIDE DEF C, T, W, v, M, z, L
  <2>6. Round(n, F, u, x)
    <3>1. x.s = v /\ v.clause = C /\ v.trail = T /\ v.qhead = L /\ v.lim = M /\ v.watches = W
      BY <1>5, <2>5 DEF v, W
    <3>2. QED  BY ONLY <1>2, <1>3, <1>6, <1>14, <2>3, <2>4, <3>1 DEF Round
  <2>7. QED  BY <1>3, <1>14, <2>6
<1>15. QED  BY <1>13, <1>14

LEMMA ContinuesOn ==
  ASSUME NEW R, NEW T, NEW U, Continues(T, R), Continues(U, T), Len(R) \in Nat, Len(T) \in Nat, Len(U) \in Nat
  PROVE  Continues(U, R)
<1>1. \A i \in 1 .. Len(R) : i \in 1 .. Len(T) /\ T[i] = R[i]
  BY DEF Continues
<1>2. QED  BY <1>1 DEF Continues

Behind(r) == r.s.qhead < Len(r.s.trail)

(* A literal more is propagated, unless there was a conflict.              *)
Advanced(r, x) == x.s.qhead = Len(x.s.trail) \/ x.s.qhead = r.s.qhead + 1

LEMMA RoundStep ==
  ASSUME NEW n \in Nat, NEW F \in SUBSET Assignments(n), NEW b, Len(b.trail) \in Nat,
         NEW r, Round(n, F, b, r), Behind(r),
         NEW x, x = PropagateNext(r)
  PROVE  Round(n, F, b, x) /\ Advanced(r, x)
<1> DEFINE t == r.s
           p == t.trail[t.qhead + 1].lit
           ws == t.watches[p]
           u == [t EXCEPT !.qhead = @ + 1]
           first == [s |-> u, kept |-> <<>>, confl |-> 0]
           y == LookAtAll(first, p, ws)
<1>1. x = Settled(y, p)
  BY DEF Behind, PropagateNext, PropagateOne
<1>2. Beginning(t, p, ws, u, first) /\ t.qhead < Len(t.trail)
  BY DEF Beginning, Behind
<1>3. r.confl = 0
  BY <1>2 DEF Round, Clash
<1>4. /\ Kin(b, t) /\ Permuted(b.clause, t.clause) /\ Continues(t.trail, b.trail)
      /\ Steady(n, F, t.clause, t.trail, t.lim, t.qhead, t.watches)
      /\ Looked(t.clause, t.trail, t.qhead, Len(t.lim)) /\ t.qhead < Len(t.trail)
  BY <1>2, <1>3 DEF Round
<1>5. Form(t) /\ t.simpProps \in Int
  BY <1>4 DEF Kin
<1>6. n \in Nat /\ F \in SUBSET Assignments(n) /\ Len(b.trail) \in Nat
  OBVIOUS
<1> HIDE DEF t, p, ws, u, first
<1>7. /\ Frame(t, u) /\ u.clause = t.clause /\ u.trail = t.trail /\ u.watches = t.watches
      /\ u.qhead = t.qhead + 1 /\ u.qhead \in Nat
      /\ At(n, u, p, ws) /\ Mid(n, F, u, p, ws, first, 0)
  BY ONLY <1>2, <1>4, <1>5, <1>6, LiteralStarts
<1>8. u.simpProps \in Int
  BY <1>5, <1>7 DEF Frame
<1>9. Mid(n, F, u, p, ws, y, Len(ws))
  BY ONLY <1>6, <1>7, <1>8, WatchersDone
<1> HIDE DEF y
<1>10. Ending(u, p)
  <2>1. /\ Len(t.trail) \in Nat /\ t.qhead \in Nat
        /\ \A k \in 1 .. Len(t.lim) : t.lim[k] \in 0 .. t.qhead
    <3>1. TrailOk(n, t.trail, t.lim, t.qhead)
      BY <1>4 DEF Steady
    <3>2. QED  BY ONLY <1>6, <3>1, TrailIs
  <2>2. u.lim = t.lim
    BY <1>7 DEF Frame
  <2>3. p = t.trail[t.qhead + 1].lit
    BY DEF p
  <2>6. t.qhead < Len(t.trail)
    BY <1>4
  <2>4. t.qhead + 1 \in 1 .. Len(t.trail) /\ \A k \in 1 .. Len(t.lim) : t.lim[k] < t.qhead + 1
    BY ONLY <2>1, <2>6
  <2>5. QED  BY ONLY <1>7, <1>8, <2>2, <2>3, <2>4 DEF Ending
<1>11. Round(n, F, u, x) /\ x.confl = y.confl /\ (x.confl = 0 => x.s.qhead = u.qhead)
  <2> DEFINE m == Len(ws)
  <2>1. Mid(n, F, u, p, ws, y, m)
    BY <1>9
  <2>2. m = Len(ws)
    OBVIOUS
  <2> HIDE DEF m
  <2>3. QED  BY ONLY <1>1, <1>7, <1>10, <2>1, <2>2, LiteralEnds
<1> DEFINE v == x.s
<1> HIDE DEF v
<1>12. /\ x = [s |-> x.s, confl |-> x.confl]
       /\ Kin(u, v) /\ Permuted(u.clause, v.clause) /\ Continues(v.trail, u.trail)
       /\ Steady(n, F, v.clause, v.trail, v.lim, v.qhead, v.watches)
       /\ x.confl = 0 => Looked(v.clause, v.trail, v.qhead, Len(v.lim))
       /\ x.confl # 0 => Clash(v.clause, v.trail, v.lim, v.qhead, x.confl)
  BY <1>11 DEF Round, v
<1>13. Kin(b, v)
  BY ONLY <1>4, <1>7, <1>12 DEF Kin, Frame
<1>14. Permuted(b.clause, v.clause)
  BY ONLY <1>4, <1>7, <1>12 DEF Permuted
<1>15. Continues(v.trail, b.trail)
  <2>1. TrailOk(n, t.trail, t.lim, t.qhead) /\ TrailOk(n, v.trail, v.lim, v.qhead)
    BY <1>4, <1>12 DEF Steady
  <2>2. Len(t.trail) \in Nat /\ Len(v.trail) \in Nat
    BY ONLY <1>6, <2>1, TrailIs
  <2>3. QED  BY ONLY <1>4, <1>6, <1>7, <1>12, <2>2, ContinuesOn
<1>16. Round(n, F, b, x)
  BY ONLY <1>12, <1>13, <1>14, <1>15 DEF Round, v
<1>17. x.confl # 0 => x.s.qhead = Len(x.s.trail)
  BY <1>12 DEF Clash, v
<1>18. QED  BY <1>7, <1>11, <1>16, <1>17 DEF t, Advanced

(* No more literals than variables.                                        *)
LEMMA TrailShort ==
  ASSUME NEW n \in Nat, NEW T, NEW M, NEW q, TrailOk(n, T, M, q)
  PROVE  Len(T) <= n
<1>1. Len(T) \in Nat /\ \A i \in 1 .. Len(T) : T[i].lit \in LitsOf(n)
  BY TrailIs
<1> DEFINE list == [i \in 1 .. Len(T) |-> Var(T[i].lit)]
<1>2. \A i \in 1 .. Len(T) : Var(T[i].lit) \in 1 .. n
  BY <1>1, Literals
<1>3. list \in Seq(1 .. n) /\ Len(list) = Len(T)
  BY <1>1, <1>2
<1>4. IsInjective(list)
  BY <1>1 DEF TrailOk, IsInjective
<1>5. Range(list) \subseteq 1 .. n
  BY <1>2, <1>3 DEF Range
<1> HIDE DEF list
<1>6. Cardinality(Range(list)) = Len(list)
  BY <1>3, <1>4, ListLength
<1>7. IsFiniteSet(1 .. n) /\ Cardinality(1 .. n) = n
  <2>1. n \in Int /\ 1 \in Int
    OBVIOUS
  <2>2. IsFiniteSet(1 .. n) /\ Cardinality(1 .. n) = IF 1 > n THEN 0 ELSE n - 1 + 1
    BY <2>1, FS_Interval
  <2>3. QED  BY <2>2
<1>8. Cardinality(Range(list)) <= Cardinality(1 .. n)
  BY <1>5, <1>7, FS_Subset
<1>9. QED  BY <1>3, <1>6, <1>7, <1>8

Pairs(n, b) == [s : Solvers(n, b), confl : Nat]

Progress(r, k) == r.s.qhead = Len(r.s.trail) \/ r.s.qhead >= k

LEMMA RoundIn ==
  ASSUME NEW n \in Nat, NEW F, NEW b, NEW r, Round(n, F, b, r)
  PROVE  r \in Pairs(n, b) /\ Len(r.s.trail) \in Nat /\ r.s.qhead \in Nat /\ r.s.qhead <= Len(r.s.trail) /\ Len(r.s.trail) <= n
<1> DEFINE t == r.s
<1>1. /\ r = [s |-> r.s, confl |-> r.confl]
      /\ Kin(b, t) /\ Permuted(b.clause, t.clause)
      /\ Steady(n, F, t.clause, t.trail, t.lim, t.qhead, t.watches)
      /\ r.confl # 0 => r.confl \in DOMAIN t.clause
  BY DEF Round, Clash
<1> HIDE DEF t
<1>2. ClausesOk(n, t.clause) /\ TrailOk(n, t.trail, t.lim, t.qhead) /\ Lists(LitsOf(n), Watchers(n), t.watches)
  BY <1>1 DEF Steady, WatchOk
<1>3. Len(t.trail) \in Nat /\ t.qhead \in Nat /\ t.qhead <= Len(t.trail) /\ Len(t.trail) <= n
  BY <1>2, TrailIs, TrailShort
<1>4. r.confl \in Nat
  BY <1>1, <1>2, ClausesAre
<1>5. t \in Solvers(n, b)
  <2>1. /\ Form(t) /\ t.ok = b.ok /\ t.orig = b.orig /\ t.learnt = b.learnt /\ t.lim = b.lim
        /\ t.heap = b.heap /\ t.polarity = b.polarity /\ t.userPol = b.userPol
        /\ t.simpAssigns = b.simpAssigns /\ t.simpProps \in Int
    BY <1>1 DEF Kin
  <2>2. QED  BY <1>1, <1>2, <1>3, <2>1, SolverIn
<1>6. QED  BY <1>1, <1>3, <1>4, <1>5 DEF Pairs, t

LEMMA RoundsDone ==
  ASSUME NEW n \in Nat, NEW F \in SUBSET Assignments(n), NEW b, Len(b.trail) \in Nat,
         NEW seq, Len(seq) = n,
         NEW first, Round(n, F, b, first)
  PROVE  Round(n, F, b, PropagateFor(first, seq)) /\ Progress(PropagateFor(first, seq), n)
<1> DEFINE m == Len(seq)
           Turn(k, x) == PropagateNext(x)
           X == [k \in 0 .. m |-> { x \in Pairs(n, b) : (Round(n, F, b, x) /\ Progress(x, k)) }]
           turn == [k \in 1 .. m |-> [x \in X[k - 1] |-> Turn(k, x)]]
           Is(g) == g = [k \in 0 .. m |-> IF k = 0 THEN first ELSE Turn(k, g[k - 1])]
           run == CHOOSE g : Is(g)
<1>50. PropagateFor(first, seq) = run[m]
  BY DEF Loop, PropagateFor
<1>60. m \in Nat
  OBVIOUS
<1>40. first \in Pairs(n, b) /\ (Round(n, F, b, first) /\ Progress(first, 0))
  <2>1. first \in Pairs(n, b) /\ first.s.qhead \in Nat
    BY RoundIn
  <2>2. QED  BY <2>1 DEF Progress
<1>41. ASSUME NEW k \in 1 .. m, NEW x \in Pairs(n, b), Round(n, F, b, x) /\ Progress(x, k - 1)
       PROVE  Turn(k, x) \in Pairs(n, b) /\ (Round(n, F, b, Turn(k, x)) /\ Progress(Turn(k, x), k))
  <2> DEFINE y == PropagateNext(x)
  <2>1. Len(x.s.trail) \in Nat /\ x.s.qhead \in Nat /\ x.s.qhead <= Len(x.s.trail)
    BY <1>41, RoundIn
  <2>2. Round(n, F, b, y) /\ Progress(y, k)
    <3>1. CASE x.s.qhead < Len(x.s.trail)
      <4>4. y = PropagateNext(x) /\ Round(n, F, b, x) /\ Behind(x)
        BY <1>41, <3>1 DEF Behind
      <4>5. n \in Nat /\ F \in SUBSET Assignments(n) /\ Len(b.trail) \in Nat
        OBVIOUS
      <4> HIDE DEF y
      <4>1. Round(n, F, b, y) /\ Advanced(x, y)
        BY ONLY <4>4, <4>5, RoundStep
      <4>2. x.s.qhead >= k - 1
        BY <1>41, <2>1, <3>1 DEF Progress
      <4>3. QED  BY <1>60, <2>1, <4>1, <4>2 DEF Progress, Advanced
    <3>2. CASE x.s.qhead = Len(x.s.trail)
      <4>1. y = x
        BY <2>1, <3>2 DEF PropagateNext
      <4> HIDE DEF y
      <4>2. QED  BY <1>41, <3>2, <4>1 DEF Progress
    <3>3. QED  BY <2>1, <3>1, <3>2
  <2>3. Turn(k, x) = y
    OBVIOUS
  <2> HIDE DEF y, Turn
  <2>4. QED  BY <2>2, <2>3, RoundIn
<1>61. m \in Nat
  BY <1>60
<1>62. \A k \in 0 .. m : \A x : x \in X[k] <=> x \in Pairs(n, b) /\ (Round(n, F, b, x) /\ Progress(x, k))
  OBVIOUS
<1> HIDE DEF X
<1>63. first \in X[0]
  <2>1. 0 \in 0 .. m
    BY <1>61
  <2>2. QED  BY <1>40, <1>62, <2>1
<1>64. ASSUME NEW k \in 1 .. m, NEW x \in X[k - 1] PROVE Turn(k, x) \in X[k]
  <2>1. k - 1 \in 0 .. m /\ k \in 0 .. m
    BY <1>61
  <2>2. x \in Pairs(n, b) /\ (Round(n, F, b, x) /\ Progress(x, (k - 1)))
    BY <1>62, <2>1
  <2>3. Turn(k, x) \in Pairs(n, b) /\ (Round(n, F, b, Turn(k, x)) /\ Progress(Turn(k, x), k))
    BY <1>41, <2>2
  <2> HIDE DEF Turn
  <2>4. QED  BY <1>62, <2>1, <2>3
<1>65. \A k \in 1 .. m : \A x \in X[k - 1] : turn[k][x] \in X[k] /\ turn[k][x] = Turn(k, x)
  BY <1>64
<1> HIDE DEF turn, Is, Turn, m
<1>66. PICK g : Turns(g, m, first, turn) /\ \A k \in 0 .. m : g[k] \in X[k]
  <2>1. \A k \in 1 .. m : \A x \in X[k - 1] : turn[k][x] \in X[k]
    BY <1>65
  <2>2. QED  BY <1>61, <1>63, <2>1, Stepwise
<1>67. Is(g)
  <2>1. \A k \in 1 .. m : k - 1 \in 0 .. m /\ k \in 0 .. m /\ k # 0
    BY <1>61
  <2>2. \A k \in 1 .. m : g[k] = Turn(k, g[k - 1])
    BY <1>65, <1>66, <2>1 DEF Turns
  <2>3. DOMAIN g = 0 .. m /\ g = [k \in DOMAIN g |-> g[k]]
    BY <1>66 DEF Turns
  <2>4. g[0] = first /\ \A k \in 0 .. m : k # 0 => k \in 1 .. m
    BY <1>61, <1>66 DEF Turns
  <2>5. QED  BY <2>2, <2>3, <2>4 DEF Is
<1>68. Is(run)
  BY <1>67
<1> HIDE DEF run
<1>69. run[m] \in X[m]
  <2>1. run[0] \in X[0]
    BY <1>61, <1>63, <1>68 DEF Is
  <2>2. ASSUME NEW k \in 1 .. m, run[k - 1] \in X[k - 1] PROVE run[k] \in X[k]
    <3>1. k \in 0 .. m /\ k # 0
      BY <1>61
    <3>2. run[k] = Turn(k, run[k - 1])
      BY <1>68, <3>1 DEF Is
    <3>3. QED  BY <1>65, <2>2, <3>2
  <2>3. QED  BY <1>61, <2>1, <2>2, RunStays
<1>70. run[m] \in Pairs(n, b) /\ (Round(n, F, b, run[m]) /\ Progress(run[m], m))
  <2>1. m \in 0 .. m
    BY <1>61
  <2>2. QED  BY <1>62, <1>69, <2>1
<1>71. QED  BY <1>50, <1>70 DEF m

(* What propagate does.                                                    *)
LEMMA PropagatedIs ==
  ASSUME NEW n \in Nat, NEW F \in SUBSET Assignments(n), NEW t, Good(n, t),
         Sound(F, t.clause, t.trail), Looked(t.clause, t.trail, t.qhead, Len(t.lim)),
         NEW r, r = Propagated(t), NEW u, u = r.s
  PROVE  /\ Good(n, u) /\ Kin(t, u) /\ Permuted(t.clause, u.clause) /\ Continues(u.trail, t.trail)
         /\ Sound(F, u.clause, u.trail)
         /\ r.confl = 0 => Through(u)
         /\ r.confl # 0 => Clash(u.clause, u.trail, u.lim, u.qhead, r.confl)
<1> DEFINE first == [s |-> t, confl |-> 0]
           seq == [v \in DOMAIN t.polarity |-> v]
<1>1. /\ Form(t) /\ t.ok \in BOOLEAN /\ ClausesOk(n, t.clause)
      /\ t.orig \cup t.learnt = DOMAIN t.clause /\ t.orig \cap t.learnt = {}
      /\ TrailOk(n, t.trail, t.lim, t.qhead) /\ WatchOk(n, t.clause, t.watches)
      /\ ReasonOk(t.clause, t.trail) /\ DecisionsOk(t.trail, t.lim)
      /\ t.polarity \in [1 .. n -> BOOLEAN] /\ t.userPol \in [1 .. n -> {-1, 0, 1}]
      /\ t.heap \subseteq 1 .. n /\ Unassigned(n, t.trail) \subseteq t.heap
      /\ t.simpProps \in Int
  BY DEF Good
<1>2. Len(seq) = n
  <2>1. seq = [v \in 1 .. n |-> v]
    BY <1>1
  <2> HIDE DEF seq
  <2>2. seq \in Seq(1 .. n) /\ Len(seq) = n
    BY <2>1
  <2>3. QED  BY <2>2
<1>3. r = PropagateFor(first, seq)
  BY DEF Propagated
<1>4. Len(t.trail) \in Nat
  BY <1>1, TrailIs
<1>5. first.s = t /\ first.confl = 0 /\ first = [s |-> first.s, confl |-> first.confl]
  OBVIOUS
<1> HIDE DEF first, seq
<1>6. Round(n, F, t, first)
  <2>1. Kin(t, t) /\ Permuted(t.clause, t.clause) /\ Continues(t.trail, t.trail)
    BY <1>1, <1>4 DEF Kin, Permuted, Continues
  <2>2. Steady(n, F, t.clause, t.trail, t.lim, t.qhead, t.watches)
    BY <1>1 DEF Steady
  <2>3. QED  BY <1>5, <2>1, <2>2 DEF Round
<1>7. Round(n, F, t, r) /\ Progress(r, n)
  BY <1>2, <1>3, <1>4, <1>6, RoundsDone
<1>8. /\ Kin(t, u) /\ Permuted(t.clause, u.clause) /\ Continues(u.trail, t.trail)
      /\ Steady(n, F, u.clause, u.trail, u.lim, u.qhead, u.watches)
      /\ r.confl = 0 => Looked(u.clause, u.trail, u.qhead, Len(u.lim))
      /\ r.confl # 0 => Clash(u.clause, u.trail, u.lim, u.qhead, r.confl)
  BY <1>7 DEF Round
<1>9. u.qhead = Len(u.trail)
  <2>1. Len(u.trail) \in Nat /\ u.qhead \in Nat /\ u.qhead <= Len(u.trail) /\ Len(u.trail) <= n
    BY <1>7, RoundIn
  <2>2. QED  BY <1>7, <2>1 DEF Progress
<1>10. Unassigned(n, u.trail) \subseteq Unassigned(n, t.trail)
  <2>1. Len(u.trail) \in Nat
    BY <1>7, RoundIn
  <2>2. \A i \in 1 .. Len(t.trail) : i \in 1 .. Len(u.trail) /\ u.trail[i] = t.trail[i]
    BY <1>4, <1>8, <2>1 DEF Continues
  <2>3. QED  BY <2>2 DEF Unassigned, OnTrail
<1>11. Good(n, u)
  BY <1>1, <1>8, <1>10 DEF Kin, Steady, Permuted, Good
<1>12. QED  BY <1>8, <1>9, <1>11 DEF Steady, Through

-----------------------------------------------------------------------------
(* cancelUntil.                                                            *)
Cut(T, M, lev, m, U, N) ==
  /\ lev \in Nat /\ lev < Len(M) /\ m = M[lev + 1]
  /\ U = SubSeq(T, 1, m) /\ N = SubSeq(M, 1, lev)

LEMMA CutIs ==
  ASSUME NEW n \in Nat, NEW T, NEW M, NEW q, TrailOk(n, T, M, q), NEW lev, NEW m, NEW U, NEW N, Cut(T, M, lev, m, U, N)
  PROVE  /\ TrailOk(n, U, N, m)
         /\ m \in 0 .. q /\ Len(U) = m /\ Len(N) = lev
         /\ \A i \in 1 .. m : i \in 1 .. Len(T) /\ U[i] = T[i]
         /\ \A k \in 1 .. lev : k \in 1 .. Len(M) /\ N[k] = M[k]
         /\ \A i \in 1 .. Len(T) : i \in 1 .. m <=> T[i].level <= lev
<1>1. /\ T \in Seq(Entries(n)) /\ M \in Seq(Nat)
      /\ \A i, j \in 1 .. Len(T) : Var(T[i].lit) = Var(T[j].lit) => i = j
      /\ \A i \in 1 .. Len(T) : \A k \in 1 .. Len(M) : T[i].level >= k <=> i > M[k]
  BY DEF TrailOk
<1>2. /\ Len(T) \in Nat /\ Len(M) \in Nat /\ q \in Nat /\ q <= Len(T)
      /\ \A i \in 1 .. Len(T) : T[i].level \in 0 .. Len(M)
      /\ \A k \in 1 .. Len(M) : M[k] \in 0 .. q
  BY TrailIs
<1>3. /\ lev \in Nat /\ lev < Len(M) /\ m = M[lev + 1]
      /\ U = SubSeq(T, 1, m) /\ N = SubSeq(M, 1, lev)
  BY DEF Cut
<1>4. lev + 1 \in 1 .. Len(M) /\ m \in 0 .. q /\ m <= Len(T)
  BY ONLY <1>2, <1>3
<1>5. U \in Seq(Entries(n)) /\ Len(U) = m /\ \A i \in 1 .. m : i \in 1 .. Len(T) /\ U[i] = T[i]
  <2>1. m \in Nat /\ m <= Len(T) /\ T \in Seq(Entries(n)) /\ U = SubSeq(T, 1, m)
    BY ONLY <1>1, <1>2, <1>3, <1>4
  <2> HIDE <1>1, <1>2, <1>3
  <2>2. QED  BY ONLY <2>1
<1>6. N \in Seq(Nat) /\ Len(N) = lev /\ \A k \in 1 .. lev : k \in 1 .. Len(M) /\ N[k] = M[k]
  <2>1. lev \in Nat /\ lev <= Len(M) /\ M \in Seq(Nat) /\ N = SubSeq(M, 1, lev) /\ Len(M) \in Nat
    BY ONLY <1>1, <1>2, <1>3
  <2>2. QED  BY ONLY <2>1
<1>7. ASSUME NEW i, i \in 1 .. Len(T) PROVE i \in 1 .. m <=> T[i].level <= lev
  <2>1. T[i].level >= lev + 1 <=> i > m
    BY <1>1, <1>3, <1>4, <1>7
  <2>2. T[i].level \in Int /\ i \in Int /\ i >= 1 /\ m \in Int /\ lev \in Int
    <3>1. T[i].level \in 0 .. Len(M)
      BY <1>2, <1>7
    <3>2. Len(M) \in Nat /\ Len(T) \in Nat /\ lev \in Nat
      BY <1>2, <1>3
    <3>3. m \in Nat
      BY <1>2, <1>4
    <3>4. i \in Int /\ i >= 1 /\ T[i].level \in Int
      BY ONLY <3>1, <3>2, <1>7
    <3>5. QED  BY ONLY <3>2, <3>3, <3>4
  <2>3. QED  BY ONLY <2>1, <2>2
<1>8. \A k \in 1 .. lev : N[k] <= m
  <2>1. SUFFICES ASSUME NEW k \in 1 .. lev, M[k] > m PROVE FALSE
    <3>1. \A k \in 1 .. lev : N[k] \in Nat /\ N[k] = M[k]
      BY ONLY <1>2, <1>6
    <3>2. m \in Nat
      BY <1>2, <1>4
    <3>3. QED  BY <3>1, <3>2
  <2> DEFINE i == M[k]
  <2>2. k \in 1 .. Len(M) /\ i \in 1 .. Len(T)
    <3>1. k \in 1 .. Len(M)
      BY ONLY <1>6, <2>1
    <3>2. i \in 0 .. q
      BY <1>2, <3>1
    <3>3. QED  BY ONLY <1>2, <1>4, <2>1, <3>1, <3>2
  <2>3. T[i].level >= lev + 1
    BY <1>1, <1>3, <1>4, <2>1, <2>2
  <2>4. T[i].level >= k
    <3>1. T[i].level \in 0 .. Len(M)
      BY <1>2, <2>2
    <3>2. QED  BY ONLY <1>3, <2>1, <2>3, <3>1
  <2>5. i > M[k]
    BY <1>1, <2>2, <2>4
  <2>6. QED  BY <1>2, <2>2, <2>5
<1>9. \A i, j \in 1 .. Len(U) : Var(U[i].lit) = Var(U[j].lit) => i = j
  BY <1>1, <1>5
<1>10. \A i \in 1 .. Len(U) : U[i].level <= Len(N)
  <2>1. SUFFICES ASSUME NEW i \in 1 .. m PROVE T[i].level <= lev
    BY <1>5, <1>6
  <2>2. QED  BY <1>5, <1>7, <2>1
<1>11. \A i \in 1 .. Len(U) : \A k \in 1 .. Len(N) : U[i].level >= k <=> i > N[k]
  <2>1. SUFFICES ASSUME NEW i \in 1 .. m, NEW k \in 1 .. lev PROVE T[i].level >= k <=> i > M[k]
    BY <1>5, <1>6
  <2>2. i \in 1 .. Len(T) /\ k \in 1 .. Len(M)
    BY <1>5, <1>6
  <2>3. QED  BY <1>1, <2>2
<1>12. m \in 0 .. Len(U)
  BY <1>4, <1>5
<1>13. TrailOk(n, U, N, m)
  BY <1>5, <1>6, <1>8, <1>9, <1>10, <1>11, <1>12 DEF TrailOk
<1>14. QED  BY <1>4, <1>5, <1>6, <1>7, <1>13

LEMMA CutKeeps ==
  ASSUME NEW n \in Nat, NEW T, NEW M, NEW q, TrailOk(n, T, M, q), NEW lev, NEW m, NEW U, NEW N, Cut(T, M, lev, m, U, N),
         NEW C, NEW F, NEW O
  PROVE  /\ ReasonOk(C, T) => ReasonOk(C, U)
         /\ DecisionsOk(T, M) => DecisionsOk(U, N)
         /\ Sound(F, C, T) => Sound(F, C, U)
         /\ Lossless(n, F, O, C, T) => Lossless(n, F, O, C, U)
         /\ \A high \in Nat : lev <= high /\ Looked(C, T, q, high) => Looked(C, U, m, lev)
         /\ \A A \in Seq(LitsOf(n)) : AssumedOk(T, M, A) => AssumedOk(U, N, A)
<1>1. /\ TrailOk(n, U, N, m)
      /\ m \in 0 .. q /\ Len(U) = m /\ Len(N) = lev
      /\ \A i \in 1 .. m : i \in 1 .. Len(T) /\ U[i] = T[i]
      /\ \A k \in 1 .. lev : k \in 1 .. Len(M) /\ N[k] = M[k]
      /\ \A i \in 1 .. Len(T) : i \in 1 .. m <=> T[i].level <= lev
  BY CutIs
<1>2. /\ Len(T) \in Nat /\ Len(M) \in Nat /\ q \in Nat /\ q <= Len(T) /\ lev \in Nat /\ m \in Nat
      /\ \A i \in 1 .. Len(T) : T[i].level \in 0 .. Len(M)
  BY <1>1, TrailIs DEF Cut
<1>3. \A i \in 1 .. m : U[i].level \in 0 .. lev
  BY <1>1, <1>2
<1>4. \A i \in 1 .. m : \A j \in 1 .. i - 1 : j \in 1 .. m /\ U[j] = T[j]
  BY <1>1, <1>2
<1>5. ASSUME ReasonOk(C, T) PROVE ReasonOk(C, U)
  <2>1. SUFFICES ASSUME NEW i \in 1 .. m, U[i].reason # 0
                 PROVE  /\ U[i].reason \in DOMAIN C /\ C[U[i].reason][1] = U[i].lit
                        /\ \A k \in 2 .. Len(C[U[i].reason]) :
                             \E j \in 1 .. i - 1 : U[j].lit = -C[U[i].reason][k]
    BY <1>1 DEF ReasonOk
  <2>2. U[i] = T[i] /\ i \in 1 .. Len(T)
    BY <1>1
  <2>3. /\ T[i].reason \in DOMAIN C /\ C[T[i].reason][1] = T[i].lit
        /\ \A k \in 2 .. Len(C[T[i].reason]) :
             \E j \in 1 .. i - 1 : T[j].lit = -C[T[i].reason][k]
    BY <1>5, <2>1, <2>2 DEF ReasonOk
  <2>4. \A j \in 1 .. i - 1 : U[j] = T[j]
    BY <1>4
  <2>5. QED  BY <2>2, <2>3, <2>4
<1>6. ASSUME DecisionsOk(T, M) PROVE DecisionsOk(U, N)
  <2>1. SUFFICES ASSUME NEW i \in 1 .. m, U[i].reason = 0, U[i].level > 0 PROVE i = N[U[i].level] + 1
    BY <1>1 DEF DecisionsOk
  <2>2. U[i] = T[i] /\ i \in 1 .. Len(T) /\ U[i].level \in 1 .. lev
    BY <1>1, <1>3, <2>1
  <2>3. i = M[T[i].level] + 1
    BY <1>6, <2>1, <2>2 DEF DecisionsOk
  <2>4. QED  BY <1>1, <2>2, <2>3
<1>7. ASSUME Sound(F, C, T) PROVE Sound(F, C, U)
  BY <1>1, <1>7 DEF Sound
<1>8. ASSUME Lossless(n, F, O, C, T) PROVE Lossless(n, F, O, C, U)
  <2>1. \A i \in 1 .. Len(T) : T[i].level = 0 => i \in 1 .. m /\ U[i] = T[i]
    BY <1>1, <1>2
  <2>2. QED  BY <1>1, <1>8, <2>1 DEF Lossless
<1>9. ASSUME NEW high \in Nat, lev <= high, Looked(C, T, q, high) PROVE Looked(C, U, m, lev)
  <2>1. SUFFICES ASSUME NEW c \in DOMAIN C, NEW i \in 1 .. m, U[i].level <= lev, -U[i].lit \in {C[c][1], C[c][2]}
                 PROVE  \E j \in 1 .. Len(U) : U[j].lit \in Range(C[c]) /\ U[j].level <= U[i].level
    BY DEF Looked
  <2>2. U[i] = T[i] /\ i \in 1 .. q /\ i \in 1 .. Len(T)
    BY <1>1, <1>2
  <2>8. T[i].level \in Int /\ lev \in Int /\ high \in Int
    BY <1>2, <2>2
  <2>3. T[i].level <= high
    BY <1>9, <2>1, <2>2, <2>8
  <2>4. PICK j \in 1 .. Len(T) : T[j].lit \in Range(C[c]) /\ T[j].level <= T[i].level
    BY <1>9, <2>1, <2>2, <2>3 DEF Looked
  <2>9. T[j].level \in Int
    BY <1>2
  <2>5. T[j].level <= lev
    BY <2>1, <2>2, <2>4, <2>8, <2>9
  <2>6. j \in 1 .. m /\ U[j] = T[j]
    BY <1>1, <2>5
  <2>7. QED  BY <1>1, <2>2, <2>4, <2>6
<1>10. ASSUME NEW A \in Seq(LitsOf(n)), AssumedOk(T, M, A) PROVE AssumedOk(U, N, A)
  <2>1. ASSUME NEW k \in 1 .. Len(A), k <= lev PROVE \E i \in 1 .. m : U[i].lit = A[k] /\ U[i].level <= k
    <3>1. k <= Len(M)
      BY <1>2, <2>1 DEF Cut
    <3>2. PICK i \in 1 .. Len(T) : T[i].lit = A[k] /\ T[i].level <= k
      BY <1>10, <3>1 DEF AssumedOk
    <3>5. T[i].level \in Int /\ lev \in Int /\ k \in Int
      BY <1>2
    <3>3. T[i].level <= lev
      BY <2>1, <3>2, <3>5
    <3>4. QED  BY <1>1, <3>2, <3>3
  <2>2. \A i \in 1 .. m : U[i].reason = 0 /\ U[i].level > 0 /\ U[i].level <= Len(A) => U[i].lit \in Range(A)
    BY <1>1, <1>10 DEF AssumedOk
  <2>3. QED  BY <1>1, <2>1, <2>2 DEF AssumedOk
<1>11. QED  BY <1>5, <1>6, <1>7, <1>8, <1>9, <1>10

CancelFrame(t, u) ==
  /\ Form(u)
  /\ u.ok = t.ok /\ u.clause = t.clause /\ u.orig = t.orig /\ u.learnt = t.learnt
  /\ u.watches = t.watches /\ u.userPol = t.userPol
  /\ u.simpAssigns = t.simpAssigns /\ u.simpProps = t.simpProps

LEMMA CancelIs ==
  ASSUME NEW n \in Nat, NEW t, Good(n, t), NEW lev \in Nat, lev < Len(t.lim),
         NEW u, u = cancelUntil(t, lev)
  PROVE  /\ Good(n, u) /\ CancelFrame(t, u)
         /\ Cut(t.trail, t.lim, lev, u.qhead, u.trail, u.lim)
         /\ u.qhead = Len(u.trail) /\ Len(u.lim) = lev
<1> DEFINE T == t.trail
           M == t.lim
           m == M[lev + 1]
           undone == { T[i].lit : i \in m + 1 .. Len(T) }
           P == [v \in DOMAIN t.polarity |-> IF v \in undone THEN FALSE
                                             ELSE IF -v \in undone THEN TRUE
                                             ELSE t.polarity[v]]
           H == t.heap \cup { Var(l) : l \in undone }
           U == SubSeq(T, 1, m)
           N == SubSeq(M, 1, lev)
<1>1. /\ Form(t) /\ t.ok \in BOOLEAN /\ ClausesOk(n, t.clause)
      /\ t.orig \cup t.learnt = DOMAIN t.clause /\ t.orig \cap t.learnt = {}
      /\ TrailOk(n, T, M, t.qhead) /\ WatchOk(n, t.clause, t.watches)
      /\ ReasonOk(t.clause, T) /\ DecisionsOk(T, M)
      /\ t.polarity \in [1 .. n -> BOOLEAN] /\ t.userPol \in [1 .. n -> {-1, 0, 1}]
      /\ t.heap \subseteq 1 .. n /\ Unassigned(n, T) \subseteq t.heap
      /\ t.simpProps \in Int
  BY DEF Good
<1>2. /\ Len(T) \in Nat /\ Len(M) \in Nat /\ t.qhead \in Nat /\ t.qhead <= Len(T)
      /\ \A i \in 1 .. Len(T) : T[i].lit \in LitsOf(n)
  BY <1>1, TrailIs
<1>3. u = [t EXCEPT !.polarity = P, !.heap = H, !.qhead = m, !.trail = U, !.lim = N]
  <2>1. ~(Len(M) <= lev)
    BY <1>2
  <2>2. QED  BY <2>1 DEF cancelUntil, decisionLevel
<1>4. Cut(T, M, lev, m, U, N)
  BY DEF Cut
<1>5. P \in [1 .. n -> BOOLEAN]
  BY <1>1
<1> HIDE DEF P, H, U, N, m
<1>6. /\ CancelFrame(t, u)
      /\ u.trail = U /\ u.lim = N /\ u.qhead = m /\ u.heap = H /\ u.polarity = P
  BY <1>1, <1>3 DEF Form, CancelFrame
<1>7. /\ TrailOk(n, U, N, m)
      /\ m \in 0 .. t.qhead /\ Len(U) = m /\ Len(N) = lev
      /\ \A i \in 1 .. m : i \in 1 .. Len(T) /\ U[i] = T[i]
  BY <1>1, <1>4, CutIs
<1>8. ReasonOk(t.clause, U) /\ DecisionsOk(U, N)
  <2> DEFINE C == t.clause
             q == t.qhead
  <2>1. n \in Nat /\ TrailOk(n, T, M, q) /\ ReasonOk(C, T) /\ DecisionsOk(T, M)
    BY <1>1
  <2> HIDE DEF C, q, T, M
  <2>2. ReasonOk(C, U) /\ DecisionsOk(U, N)
    BY ONLY <1>4, <2>1, CutKeeps
  <2>3. QED  BY <2>2 DEF C
<1>9. H \subseteq 1 .. n
  <2>1. \A l \in undone : Var(l) \in 1 .. n
    <3>1. m \in Nat
      BY <1>2, <1>7
    <3>2. \A i \in m + 1 .. Len(T) : i \in 1 .. Len(T)
      BY <1>2, <3>1
    <3>3. undone \subseteq LitsOf(n)
      BY <1>2, <3>2
    <3>4. QED  BY <3>3, Literals
  <2> HIDE DEF undone
  <2>2. QED  BY <1>1, <2>1 DEF H
<1>10. Unassigned(n, U) \subseteq H
  <2>1. SUFFICES ASSUME NEW v \in Unassigned(n, U) PROVE v \in H
    OBVIOUS
  <2>2. v \in 1 .. n /\ ~OnTrail(U, v) /\ ~OnTrail(U, -v)
    BY DEF Unassigned
  <2>3. CASE OnTrail(T, v) \/ OnTrail(T, -v)
    <3>1. PICK i \in 1 .. Len(T) : T[i].lit = v \/ T[i].lit = -v
      BY <2>3 DEF OnTrail
    <3>2. i \notin 1 .. m
      BY <1>7, <2>2, <3>1 DEF OnTrail
    <3>3. m \in Nat
      BY <1>2, <1>7
    <3>4. i \in m + 1 .. Len(T)
      BY <1>2, <3>2, <3>3
    <3>5. T[i].lit \in undone
      BY <3>4
    <3>6. Var(T[i].lit) = v
      <4>1. v \in 1 .. n
        BY <2>2
      <4>2. v \in LitsOf(n) /\ Var(v) = v /\ Var(-v) = Var(v)
        BY <4>1, Literals
      <4>3. QED  BY ONLY <3>1, <4>2
    <3> HIDE DEF undone
    <3>7. QED  BY <3>5, <3>6 DEF H
  <2>4. CASE ~OnTrail(T, v) /\ ~OnTrail(T, -v)
    BY <1>1, <2>2, <2>4 DEF Unassigned, H
  <2>5. QED  BY <2>3, <2>4
<1>11. Good(n, u)
  <2>1. /\ Form(u) /\ u.ok = t.ok /\ u.clause = t.clause /\ u.orig = t.orig /\ u.learnt = t.learnt
        /\ u.watches = t.watches /\ u.userPol = t.userPol /\ u.simpProps = t.simpProps
    BY <1>6 DEF CancelFrame
  <2> HIDE DEF T, M
  <2>2. QED  BY <1>1, <1>5, <1>6, <1>7, <1>8, <1>9, <1>10, <2>1 DEF Good
<1>12. QED  BY <1>4, <1>6, <1>7, <1>11

LEMMA CancelNothing ==
  ASSUME NEW t, NEW lev, Len(t.lim) <= lev, NEW u, u = cancelUntil(t, lev)
  PROVE  u = t
  BY DEF cancelUntil, decisionLevel

-----------------------------------------------------------------------------
(* uncheckedEnqueue, newDecisionLevel and a decision.                      *)
Enqueuing(n, t, l, from) ==
  /\ l \in LitsOf(n) /\ Free(t.trail, l) /\ from \in Nat
  /\ from = 0 /\ Len(t.lim) > 0 => t.lim[Len(t.lim)] = Len(t.trail)
  /\ from # 0 => /\ from \in DOMAIN t.clause /\ t.clause[from][1] = l
                 /\ \A k \in 2 .. Len(t.clause[from]) : OnTrail(t.trail, -t.clause[from][k])

LEMMA EnqueueGood ==
  ASSUME NEW n \in Nat, NEW t, Good(n, t), NEW l, NEW from, Enqueuing(n, t, l, from),
         NEW u, u = uncheckedEnqueue(t, l, from)
  PROVE  /\ Good(n, u) /\ Frame(t, u) /\ u.clause = t.clause /\ u.watches = t.watches /\ u.qhead = t.qhead
         /\ Grown(t.trail, t.lim, l, from, u.trail)
         /\ Continues(u.trail, t.trail) /\ Len(t.trail) \in Nat /\ Len(u.trail) = Len(t.trail) + 1
<1> DEFINE T == t.trail
           M == t.lim
           q == t.qhead
           C == t.clause
           U == u.trail
           e == Item(l, from, Len(M))
<1>1. /\ Form(t) /\ t.ok \in BOOLEAN /\ ClausesOk(n, C)
      /\ t.orig \cup t.learnt = DOMAIN C /\ t.orig \cap t.learnt = {}
      /\ TrailOk(n, T, M, q) /\ WatchOk(n, C, t.watches)
      /\ ReasonOk(C, T) /\ DecisionsOk(T, M)
      /\ t.polarity \in [1 .. n -> BOOLEAN] /\ t.userPol \in [1 .. n -> {-1, 0, 1}]
      /\ t.heap \subseteq 1 .. n /\ Unassigned(n, T) \subseteq t.heap
      /\ t.simpProps \in Int
  BY DEF Good
<1>2. /\ n \in Nat /\ l \in LitsOf(n) /\ Free(T, l) /\ from \in Nat
      /\ from = 0 /\ Len(M) > 0 => M[Len(M)] = Len(T)
      /\ from # 0 => /\ from \in DOMAIN C /\ C[from][1] = l
                     /\ \A k \in 2 .. Len(C[from]) : OnTrail(T, -C[from][k])
  BY DEF Enqueuing
<1>3. /\ Frame(t, u) /\ u.clause = C /\ u.watches = t.watches /\ u.qhead = q
      /\ Grown(T, M, l, from, U)
  BY <1>1, EnqueueIs
<1>4. u.lim = M /\ u.ok = t.ok /\ u.orig = t.orig /\ u.learnt = t.learnt /\ u.polarity = t.polarity
      /\ u.userPol = t.userPol /\ u.heap = t.heap /\ u.simpProps = t.simpProps /\ Form(u)
  BY <1>3 DEF Frame
<1>5. e.lit = l /\ e.reason = from /\ e.level = Len(M)
  BY DEF Item
<1> HIDE DEF T, M, q, C, U
<1>6. /\ TrailOk(n, U, M, q)
      /\ Len(U) = Len(T) + 1 /\ \A i \in 1 .. Len(T) : i \in 1 .. Len(U) /\ U[i] = T[i]
      /\ U[Len(U)] = e
      /\ Unassigned(n, U) \subseteq Unassigned(n, T)
  BY ONLY <1>1, <1>2, <1>3, TrailGrows
<1>7. Len(T) \in Nat /\ Len(U) \in Nat /\ Len(M) \in Nat
  BY ONLY <1>1, <1>2, <1>6, TrailIs
<1> HIDE DEF e
<1>8. ReasonOk(C, U)
  <2>1. /\ ReasonOk(C, T) /\ Len(T) \in Nat /\ Len(U) = Len(T) + 1 /\ \A i \in 1 .. Len(T) : U[i] = T[i]
        /\ U[Len(U)] = e
        /\ e.reason # 0 => /\ e.reason \in DOMAIN C /\ C[e.reason][1] = e.lit
                           /\ \A k \in 2 .. Len(C[e.reason]) : OnTrail(T, -C[e.reason][k])
    BY ONLY <1>1, <1>2, <1>5, <1>6, <1>7
  <2>2. QED  BY ONLY <2>1, ReasonGrows
<1>9. DecisionsOk(U, M)
  <2>1. e.reason = 0 /\ e.level > 0 => Len(U) = M[e.level] + 1
    BY ONLY <1>2, <1>5, <1>6
  <2>2. DecisionsOk(T, M)
    BY <1>1
  <2>3. QED  BY ONLY <1>6, <1>7, <2>1, <2>2, DecisionsGrow
<1>10. Good(n, u)
  BY ONLY <1>1, <1>3, <1>4, <1>6, <1>8, <1>9 DEF Good, U
<1>11. Continues(U, T)
  BY ONLY <1>6, <1>7 DEF Continues
<1>12. QED  BY <1>3, <1>6, <1>7, <1>10, <1>11 DEF U, T, M, q, C

LEMMA LevelIs ==
  ASSUME NEW n \in Nat, NEW t, Good(n, t), Through(t), NEW u, u = newDecisionLevel(t)
  PROVE  /\ Good(n, u) /\ Form(u)
         /\ u.ok = t.ok /\ u.clause = t.clause /\ u.orig = t.orig /\ u.learnt = t.learnt
         /\ u.watches = t.watches /\ u.trail = t.trail /\ u.qhead = t.qhead /\ u.heap = t.heap
         /\ u.lim = Append(t.lim, Len(t.trail)) /\ Len(u.lim) = Len(t.lim) + 1 /\ u.lim[Len(u.lim)] = Len(t.trail)
         /\ \A k \in 1 .. Len(t.lim) : k \in 1 .. Len(u.lim) /\ u.lim[k] = t.lim[k]
         /\ Len(t.lim) \in Nat /\ Len(t.trail) \in Nat
         /\ Through(u)
<1> DEFINE T == t.trail
           M == t.lim
           q == t.qhead
           C == t.clause
           N == Append(M, Len(T))
<1>1. /\ Form(t) /\ t.ok \in BOOLEAN /\ ClausesOk(n, C)
      /\ t.orig \cup t.learnt = DOMAIN C /\ t.orig \cap t.learnt = {}
      /\ TrailOk(n, T, M, q) /\ WatchOk(n, C, t.watches)
      /\ ReasonOk(C, T) /\ DecisionsOk(T, M)
      /\ t.polarity \in [1 .. n -> BOOLEAN] /\ t.userPol \in [1 .. n -> {-1, 0, 1}]
      /\ t.heap \subseteq 1 .. n /\ Unassigned(n, T) \subseteq t.heap
      /\ t.simpProps \in Int
  BY DEF Good
<1>2. u = [t EXCEPT !.lim = N]
  BY DEF newDecisionLevel
<1>3. q = Len(T) /\ Looked(C, T, q, Len(M))
  BY DEF Through
<1>4. /\ Len(T) \in Nat /\ Len(M) \in Nat /\ M \in Seq(Nat) /\ T \in Seq(Entries(n))
      /\ \A i \in 1 .. Len(T) : T[i].level \in 0 .. Len(M)
      /\ \A k \in 1 .. Len(M) : M[k] \in 0 .. q
      /\ \A i, j \in 1 .. Len(T) : Var(T[i].lit) = Var(T[j].lit) => i = j
      /\ \A i \in 1 .. Len(T) : \A k \in 1 .. Len(M) : T[i].level >= k <=> i > M[k]
  BY <1>1, TrailIs DEF TrailOk
<1> HIDE DEF T, M, q, C
<1>5. N \in Seq(Nat) /\ Len(N) = Len(M) + 1 /\ N[Len(M) + 1] = Len(T) /\ \A k \in 1 .. Len(M) : N[k] = M[k]
  <2>1. M \in Seq(Nat) /\ Len(T) \in Nat /\ Len(M) \in Nat
    BY <1>4
  <2>2. QED  BY ONLY <2>1
<1> HIDE DEF N
<1>6. \A k \in 1 .. Len(N) : k \in 1 .. Len(M) \/ k = Len(M) + 1
  BY ONLY <1>4, <1>5
<1>7. TrailOk(n, T, N, q)
  <2>1. ASSUME NEW k \in 1 .. Len(N) PROVE N[k] <= q
    <3>1. CASE k \in 1 .. Len(M)
      <4>1. M[k] \in 0 .. q /\ N[k] = M[k] /\ q \in Nat
        BY ONLY <1>3, <1>4, <1>5, <3>1
      <4>2. QED  BY ONLY <4>1
    <3>2. CASE k = Len(M) + 1
      BY <1>3, <1>4, <1>5, <3>2
    <3>3. QED  BY <1>6, <3>1, <3>2
  <2>2. ASSUME NEW i \in 1 .. Len(T) PROVE T[i].level <= Len(N)
    BY <1>4, <1>5
  <2>3. ASSUME NEW i \in 1 .. Len(T), NEW k \in 1 .. Len(N) PROVE T[i].level >= k <=> i > N[k]
    <3>1. CASE k \in 1 .. Len(M)
      BY <1>4, <1>5, <3>1
    <3>2. CASE k = Len(M) + 1
      BY <1>4, <1>5, <3>2
    <3>3. QED  BY <1>6, <3>1, <3>2
  <2>4. q \in 0 .. Len(T)
    BY <1>3, <1>4
  <2>5. QED  BY ONLY <1>4, <1>5, <2>1, <2>2, <2>3, <2>4 DEF TrailOk
<1>8. DecisionsOk(T, N)
  <2>1. SUFFICES ASSUME NEW i \in 1 .. Len(T), T[i].reason = 0, T[i].level > 0 PROVE i = N[T[i].level] + 1
    BY DEF DecisionsOk
  <2>2. T[i].level \in 1 .. Len(M)
    BY <1>4, <2>1
  <2>3. i = M[T[i].level] + 1
    BY <1>1, <2>1 DEF DecisionsOk
  <2>4. QED  BY <1>5, <2>2, <2>3
<1>9. Looked(C, T, q, Len(N))
  <2>1. SUFFICES ASSUME NEW c \in DOMAIN C, NEW i \in 1 .. q, T[i].level <= Len(N), -T[i].lit \in {C[c][1], C[c][2]}
                 PROVE  \E j \in 1 .. Len(T) : T[j].lit \in Range(C[c]) /\ T[j].level <= T[i].level
    BY DEF Looked
  <2>2. T[i].level <= Len(M)
    BY <1>3, <1>4
  <2>3. QED  BY <1>3, <2>1, <2>2 DEF Looked
<1>10. /\ Form(u) /\ u.ok = t.ok /\ u.clause = C /\ u.orig = t.orig /\ u.learnt = t.learnt
       /\ u.watches = t.watches /\ u.trail = T /\ u.qhead = q /\ u.heap = t.heap /\ u.lim = N
       /\ u.polarity = t.polarity /\ u.userPol = t.userPol /\ u.simpProps = t.simpProps
  BY ONLY <1>1, <1>2 DEF Form, T, C, q
<1>11. Good(n, u)
  BY ONLY <1>1, <1>7, <1>8, <1>10 DEF Good
<1>12. Through(u)
  BY ONLY <1>3, <1>9, <1>10 DEF Through
<1>13. Len(u.lim) = Len(M) + 1 /\ u.lim[Len(u.lim)] = Len(T) /\ \A k \in 1 .. Len(M) : k \in 1 .. Len(u.lim) /\ u.lim[k] = M[k]
  <2>1. Len(N) = Len(M) + 1 /\ N[Len(N)] = Len(T) /\ \A k \in 1 .. Len(M) : k \in 1 .. Len(N) /\ N[k] = M[k]
    BY ONLY <1>4, <1>5
  <2>2. u.lim = N
    BY <1>10
  <2>3. QED  BY ONLY <2>1, <2>2
<1>14. QED  BY <1>4, <1>10, <1>11, <1>12, <1>13 DEF T, M, q, C, N

(* What is said of a trail stays true of a longer one.                     *)
Root(M, F, l) == Len(M) = 0 => \A m \in F : Makes(m, l)

LEMMA GrownKeeps ==
  ASSUME NEW n \in Nat, NEW T, NEW M, NEW q, TrailOk(n, T, M, q),
         NEW l \in LitsOf(n), NEW from \in Nat, NEW U, Grown(T, M, l, from, U)
  PROVE  /\ \A F, C : Sound(F, C, T) /\ Root(M, F, l) => Sound(F, C, U)
         /\ \A F, O, C : Lossless(n, F, O, C, T) => Lossless(n, F, O, C, U)
         /\ \A C, lev : Looked(C, T, q, lev) => Looked(C, U, q, lev)
         /\ Len(U) = Len(T) + 1 /\ Continues(U, T) /\ U[Len(U)] = Item(l, from, Len(M))
         /\ \A k : OnTrail(U, k) <=> OnTrail(T, k) \/ k = l
<1> DEFINE e == Item(l, from, Len(M))
<1>1. T \in Seq(Entries(n)) /\ Len(T) \in Nat /\ q \in 0 .. Len(T)
  BY TrailIs DEF TrailOk
<1>2. e.lit = l /\ e.reason = from /\ e.level = Len(M)
  BY DEF Item
<1>3. U = Append(T, e)
  BY DEF Grown
<1> HIDE DEF e
<1>4. Len(U) = Len(T) + 1 /\ U[Len(T) + 1] = e /\ \A i \in 1 .. Len(T) : U[i] = T[i]
  BY ONLY <1>1, <1>3
<1>5. Len(U) \in Nat /\ U[Len(U)] = e /\ Continues(U, T)
  BY ONLY <1>1, <1>4 DEF Continues
<1>6. ASSUME NEW F, NEW C, Sound(F, C, T), Root(M, F, l) PROVE Sound(F, C, U)
  <2>1. e.level = 0 => \A m \in F : Makes(m, e.lit)
    BY <1>2, <1>6 DEF Root
  <2>2. Sound(F, C, T)
    BY <1>6
  <2>3. QED  BY ONLY <1>1, <1>4, <1>5, <2>1, <2>2, SoundGrows
<1>7. ASSUME NEW F, NEW O, NEW C, Lossless(n, F, O, C, T) PROVE Lossless(n, F, O, C, U)
  BY ONLY <1>1, <1>5, <1>7, LosslessContinues
<1>8. ASSUME NEW C, NEW lev, Looked(C, T, q, lev) PROVE Looked(C, U, q, lev)
  BY ONLY <1>1, <1>5, <1>8, LookedContinues
<1>9. ASSUME NEW k PROVE OnTrail(U, k) <=> OnTrail(T, k) \/ k = l
  <2>1. \A i \in 1 .. Len(T) : i \in 1 .. Len(U) /\ U[i].lit = T[i].lit
    BY ONLY <1>1, <1>4
  <2>2. Len(U) \in 1 .. Len(U) /\ U[Len(U)].lit = l
    BY ONLY <1>1, <1>2, <1>4, <1>5
  <2>3. \A i \in 1 .. Len(U) : i \in 1 .. Len(T) \/ i = Len(U)
    BY ONLY <1>1, <1>4
  <2>4. ASSUME OnTrail(T, k) \/ k = l PROVE OnTrail(U, k)
    BY <2>1, <2>2, <2>4 DEF OnTrail
  <2>5. ASSUME OnTrail(U, k) PROVE OnTrail(T, k) \/ k = l
    <3>1. PICK i \in 1 .. Len(U) : U[i].lit = k
      BY <2>5 DEF OnTrail
    <3>2. CASE i \in 1 .. Len(T)
      BY <2>1, <3>1, <3>2 DEF OnTrail
    <3>3. CASE i = Len(U)
      BY <2>2, <3>1, <3>3
    <3>4. QED  BY <2>3, <3>2, <3>3
  <2>6. QED  BY <2>4, <2>5
<1>10. QED  BY <1>4, <1>5, <1>6, <1>7, <1>8, <1>9 DEF e

-----------------------------------------------------------------------------
(* A clause more in memory.                                                *)
LEMMA FreshIs ==
  ASSUME NEW n \in Nat, NEW t, ClausesOk(n, t.clause)
  PROVE  FreshRef(t) \in Nat \ {0} /\ FreshRef(t) \notin DOMAIN t.clause
<1> DEFINE X == DOMAIN t.clause
           k == Cardinality(X)
<1>1. IsFiniteSet(X) /\ k \in Nat
  <2>1. IsFiniteSet(X)
    BY DEF ClausesOk
  <2>2. QED  BY <2>1, FS_CardinalityType
<1>2. FreshRef(t) = CHOOSE c \in 1 .. k + 1 : c \notin X
  BY DEF FreshRef
<1> HIDE DEF X, k
<1>3. \E c \in 1 .. k + 1 : c \notin X
  <2>1. SUFFICES ASSUME 1 .. k + 1 \subseteq X PROVE FALSE
    OBVIOUS
  <2> DEFINE j == k + 1
  <2>2. j \in Nat /\ j \in Int /\ 1 \in Int /\ j >= 1
    BY <1>1
  <2> HIDE DEF j
  <2>3. Cardinality(1 .. j) = IF 1 > j THEN 0 ELSE j - 1 + 1
    BY <2>2, FS_Interval
  <2>4. Cardinality(1 .. j) = j
    BY <2>2, <2>3
  <2>5. 1 .. j \subseteq X
    BY <2>1 DEF j
  <2>6. Cardinality(1 .. j) <= k
    BY <1>1, <2>5, FS_Subset DEF k
  <2>7. QED  BY <1>1, <2>4, <2>6 DEF j
<1>4. FreshRef(t) \in 1 .. k + 1 /\ FreshRef(t) \notin X
  BY <1>2, <1>3
<1>5. QED  BY <1>1, <1>4 DEF X

Addable(n, C, c, lits) ==
  /\ ClausesOk(n, C) /\ c \in Nat \ {0} /\ c \notin DOMAIN C
  /\ IsClause(n, lits) /\ Len(lits) >= 2

Extends(C, D, c, lits) ==
  /\ DOMAIN D = DOMAIN C \cup {c} /\ D[c] = lits /\ \A d \in DOMAIN C : D[d] = C[d] /\ d # c

Adding(n, C, c, lits, D) == Addable(n, C, c, lits) /\ D = Added(C, c, lits)

LEMMA AddedIs ==
  ASSUME NEW n \in Nat, NEW C, NEW c, NEW lits, NEW D, Adding(n, C, c, lits, D)
  PROVE  ClausesOk(n, D) /\ Extends(C, D, c, lits)
<1>1. /\ IsFiniteSet(DOMAIN C) /\ DOMAIN C \subseteq Nat \ {0} /\ \A d \in DOMAIN C : IsClause(n, C[d]) /\ Len(C[d]) >= 2
      /\ c \in Nat \ {0} /\ c \notin DOMAIN C /\ IsClause(n, lits) /\ Len(lits) >= 2
  BY DEF ClausesOk, Addable, Adding
<1>2. /\ DOMAIN D = DOMAIN C \cup {c} /\ D[c] = lits
      /\ \A d \in DOMAIN C : D[d] = C[d] /\ d # c
      /\ D = [d \in DOMAIN D |-> D[d]]
  BY <1>1 DEF Added, Adding
<1>3. IsFiniteSet(DOMAIN D)
  BY <1>1, <1>2, FS_AddElement
<1>4. \A d \in DOMAIN D : IsClause(n, D[d]) /\ Len(D[d]) >= 2
  BY <1>1, <1>2
<1>5. QED  BY <1>1, <1>2, <1>3, <1>4 DEF ClausesOk, Extends

(* The watchers of a literal, with one more clause.                        *)
LEMMA AddedAt ==
  ASSUME NEW C, NEW D, NEW c, NEW lits, Extends(C, D, c, lits), NEW l, NEW S, WatchAt(C, l, S),
         -l \in {lits[1], lits[2]}, NEW v, v.cref = c, v.blocker \in Range(lits), v.blocker # -l
  PROVE  WatchAt(D, l, S \cup {v}) /\ v \notin S
<1>1. /\ DOMAIN D = DOMAIN C \cup {c} /\ D[c] = lits /\ \A d \in DOMAIN C : D[d] = C[d] /\ d # c
  BY DEF Extends
<1>2. \A w \in S : /\ w.cref \in DOMAIN C /\ -l \in {C[w.cref][1], C[w.cref][2]}
                   /\ w.blocker \in Range(C[w.cref]) /\ w.blocker # -l
  BY DEF WatchAt
<1>3. \A w \in S : w.cref # c
  BY <1>1, <1>2
<1>4. ASSUME NEW w \in S \cup {v}
      PROVE  /\ w.cref \in DOMAIN D /\ -l \in {D[w.cref][1], D[w.cref][2]}
             /\ w.blocker \in Range(D[w.cref]) /\ w.blocker # -l
  <2>1. CASE w \in S
    BY <1>1, <1>2, <2>1
  <2>2. CASE w = v
    BY <1>1, <2>2
  <2>3. QED  BY <2>1, <2>2
<1>5. \A w, u \in S \cup {v} : w.cref = u.cref => w = u
  BY <1>3 DEF WatchAt
<1>6. ASSUME NEW d \in DOMAIN D, -l \in {D[d][1], D[d][2]} PROVE \E w \in S \cup {v} : w.cref = d
  <2>1. CASE d = c
    BY <2>1
  <2>2. CASE d # c
    <3>1. d \in DOMAIN C /\ -l \in {C[d][1], C[d][2]}
      BY <1>1, <1>6, <2>2
    <3>2. QED  BY <3>1 DEF WatchAt
  <2>3. QED  BY <2>1, <2>2
<1>7. QED  BY <1>3, <1>4, <1>5, <1>6 DEF WatchAt

LEMMA AddedElsewhere ==
  ASSUME NEW C, NEW D, NEW c, NEW lits, Extends(C, D, c, lits), NEW l, NEW S, WatchAt(C, l, S),
         -l \notin {lits[1], lits[2]}
  PROVE  WatchAt(D, l, S)
<1>1. /\ DOMAIN D = DOMAIN C \cup {c} /\ D[c] = lits /\ \A d \in DOMAIN C : D[d] = C[d] /\ d # c
  BY DEF Extends
<1>2. \A w \in S : /\ w.cref \in DOMAIN C /\ -l \in {C[w.cref][1], C[w.cref][2]}
                   /\ w.blocker \in Range(C[w.cref]) /\ w.blocker # -l
  BY DEF WatchAt
<1>3. \A w \in S : /\ w.cref \in DOMAIN D /\ -l \in {D[w.cref][1], D[w.cref][2]}
                   /\ w.blocker \in Range(D[w.cref]) /\ w.blocker # -l
  BY <1>1, <1>2
<1>4. \A w, u \in S : w.cref = u.cref => w = u
  BY DEF WatchAt
<1>5. \A d \in DOMAIN D : -l \in {D[d][1], D[d][2]} => d \in DOMAIN C /\ -l \in {C[d][1], C[d][2]}
  BY <1>1
<1>6. \A d \in DOMAIN D : -l \in {D[d][1], D[d][2]} => \E w \in S : w.cref = d
  BY <1>5 DEF WatchAt
<1>7. QED  BY <1>3, <1>4, <1>6 DEF WatchAt

LEMMA AddedWatched ==
  ASSUME NEW n \in Nat, NEW C, NEW c, NEW lits, Addable(n, C, c, lits), NEW D, D = Added(C, c, lits),
         NEW W, WatchOk(n, C, W), NEW a, a = -lits[1], NEW b, b = -lits[2],
         NEW v, v = Watcher(c, lits[2]), NEW w, w = Watcher(c, lits[1]),
         NEW V, V = TwiceListed(W, a, v, b, w)
  PROVE  WatchOk(n, D, V)
<1>1. ClausesOk(n, C) /\ c \in Nat \ {0} /\ IsClause(n, lits) /\ Len(lits) >= 2
  BY DEF Addable
<1>2. Len(lits) \in Nat
  BY <1>1, ClauseIs
<1>3. 1 \in 1 .. Len(lits) /\ 2 \in 1 .. Len(lits)
  BY ONLY <1>1, <1>2
<1>4. /\ lits[1] \in LitsOf(n) /\ lits[2] \in LitsOf(n) /\ lits[1] \in Range(lits) /\ lits[2] \in Range(lits)
      /\ lits[1] # lits[2]
  BY <1>1, <1>3, ClauseIs
<1>5. a \in LitsOf(n) /\ b \in LitsOf(n) /\ a # b /\ -a = lits[1] /\ -b = lits[2]
      /\ \A l \in LitsOf(n) : l # a => -l # lits[1]
      /\ \A k \in LitsOf(n) : k # b => -k # lits[2]
  <2>1. \A l \in LitsOf(n) : -l \in LitsOf(n) /\ -(-l) = l
    BY Literals
  <2>2. QED  BY ONLY <1>4, <2>1, a = -lits[1], b = -lits[2]
<1>6. /\ v \in Watchers(n) /\ v.cref = c /\ v.blocker = lits[2]
      /\ w \in Watchers(n) /\ w.cref = c /\ w.blocker = lits[1]
  BY <1>1, <1>4 DEF Watcher, Watchers
<1>7. Extends(C, D, c, lits)
  <2>1. n \in Nat /\ Adding(n, C, c, lits, D)
    BY DEF Adding
  <2>2. QED  BY ONLY <2>1, AddedIs
<1>8. /\ Lists(LitsOf(n), Watchers(n), W)
      /\ \A l \in LitsOf(n) : IsInjective(W[l]) /\ WatchAt(C, l, Range(W[l]))
  BY DEF WatchOk
<1> DEFINE Q == Listed(W, a, v)
<1>9. V = Listed(Q, b, w)
  BY DEF TwiceListed
<1>10. Q = Listed(W, a, v)
  OBVIOUS
<1> HIDE DEF Q
<1>11. WatchAt(D, a, Range(W[a]) \cup {v}) /\ v \notin Range(W[a])
  <2>1. WatchAt(C, a, Range(W[a])) /\ -a \in {lits[1], lits[2]} /\ v.cref = c /\ v.blocker \in Range(lits) /\ v.blocker # -a
    BY ONLY <1>4, <1>5, <1>6, <1>8
  <2>2. QED  BY ONLY <1>7, <2>1, AddedAt
<1>12. WatchAt(D, b, Range(W[b]) \cup {w}) /\ w \notin Range(W[b])
  <2>1. WatchAt(C, b, Range(W[b])) /\ -b \in {lits[1], lits[2]} /\ w.cref = c /\ w.blocker \in Range(lits) /\ w.blocker # -b
    BY ONLY <1>4, <1>5, <1>6, <1>8
  <2>2. QED  BY ONLY <1>7, <2>1, AddedAt
<1>13. /\ Lists(LitsOf(n), Watchers(n), Q) /\ Range(Q[a]) = Range(W[a]) \cup {v} /\ IsInjective(Q[a])
       /\ \A l \in LitsOf(n) : l # a => Q[l] = W[l]
  <2>1. v \in Watchers(n) /\ v \notin Range(W[a]) /\ IsInjective(W[a]) /\ a \in LitsOf(n)
    BY <1>5, <1>6, <1>8, <1>11
  <2>2. QED  BY ONLY <1>8, <1>10, <2>1, ListedIs
<1>14. /\ Lists(LitsOf(n), Watchers(n), V) /\ Range(V[b]) = Range(Q[b]) \cup {w} /\ IsInjective(V[b])
       /\ \A l \in LitsOf(n) : l # b => V[l] = Q[l]
  <2>1. w \in Watchers(n) /\ w \notin Range(Q[b]) /\ IsInjective(Q[b]) /\ b \in LitsOf(n)
    BY <1>5, <1>6, <1>8, <1>12, <1>13
  <2>2. QED  BY ONLY <1>9, <1>13, <2>1, ListedIs
<1>15. ASSUME NEW l \in LitsOf(n) PROVE IsInjective(V[l]) /\ WatchAt(D, l, Range(V[l]))
  <2>1. CASE l = a
    BY <1>5, <1>11, <1>13, <1>14, <2>1
  <2>2. CASE l = b
    BY <1>5, <1>12, <1>13, <1>14, <2>2
  <2>3. CASE l # a /\ l # b
    <3>1. V[l] = W[l] /\ -l \notin {lits[1], lits[2]}
      BY <1>5, <1>13, <1>14, <2>3
    <3>2. IsInjective(W[l]) /\ WatchAt(C, l, Range(W[l]))
      BY <1>8
    <3>3. WatchAt(D, l, Range(W[l]))
      BY ONLY <1>7, <3>1, <3>2, AddedElsewhere
    <3>4. QED  BY <3>1, <3>2, <3>3
  <2>4. QED  BY <2>1, <2>2, <2>3
<1>16. QED  BY <1>14, <1>15 DEF WatchOk

(* The clause is one of those read, or learnt.                             *)
Joined(t, c, lits, u, kind) ==
  \/ kind = "read" /\ u = [Attached(t, c, lits) EXCEPT !.orig = @ \cup {c}]
  \/ kind = "learnt" /\ u = [Attached(t, c, lits) EXCEPT !.learnt = @ \cup {c}]

JoinFrame(t, c, lits, u, kind) ==
  /\ Form(u) /\ u.clause = Added(t.clause, c, lits)
  /\ u.watches = Watched(t.watches, c, lits)
  /\ u.ok = t.ok /\ u.trail = t.trail /\ u.lim = t.lim /\ u.qhead = t.qhead /\ u.heap = t.heap
  /\ u.polarity = t.polarity /\ u.userPol = t.userPol /\ u.simpProps = t.simpProps
  /\ u.orig \cup u.learnt = t.orig \cup t.learnt \cup {c}
  /\ c \notin t.orig \cup t.learnt => u.orig \cap u.learnt = t.orig \cap t.learnt
  /\ u.orig = IF kind = "read" THEN t.orig \cup {c} ELSE t.orig

LEMMA JoinedIs ==
  ASSUME NEW t, Form(t), NEW c, NEW lits, NEW u, NEW kind, Joined(t, c, lits, u, kind)
  PROVE  JoinFrame(t, c, lits, u, kind)
<1> DEFINE V == Watched(t.watches, c, lits)
           D == Added(t.clause, c, lits)
<1>1. Attached(t, c, lits) = [t EXCEPT !.clause = D, !.watches = V]
  BY DEF Attached
<1> DEFINE y == Attached(t, c, lits)
<1> HIDE DEF D, V
<1>3. Form(t) /\ y = [t EXCEPT !.clause = D, !.watches = V]
  BY <1>1
<1> HIDE DEF y
<1>4. /\ Form(y) /\ y.clause = D /\ y.watches = V
      /\ y.ok = t.ok /\ y.trail = t.trail /\ y.lim = t.lim /\ y.qhead = t.qhead /\ y.heap = t.heap
      /\ y.polarity = t.polarity /\ y.userPol = t.userPol /\ y.simpProps = t.simpProps
      /\ y.orig = t.orig /\ y.learnt = t.learnt
  BY ONLY <1>3 DEF Form
<1>5. CASE kind = "read"
  <2>1. u = [y EXCEPT !.orig = y.orig \cup {c}]
    BY <1>5 DEF Joined, y
  <2>2. /\ Form(u) /\ u.clause = D /\ u.watches = V
        /\ u.ok = t.ok /\ u.trail = t.trail /\ u.lim = t.lim /\ u.qhead = t.qhead /\ u.heap = t.heap
        /\ u.polarity = t.polarity /\ u.userPol = t.userPol /\ u.simpProps = t.simpProps
        /\ u.orig = t.orig \cup {c} /\ u.learnt = t.learnt
    BY ONLY <1>4, <2>1 DEF Form
  <2>3. QED  BY <1>5, <2>2 DEF D, V, JoinFrame
<1>6. CASE kind = "learnt"
  <2>1. u = [y EXCEPT !.learnt = y.learnt \cup {c}]
    BY <1>6 DEF Joined, y
  <2>2. /\ Form(u) /\ u.clause = D /\ u.watches = V
        /\ u.ok = t.ok /\ u.trail = t.trail /\ u.lim = t.lim /\ u.qhead = t.qhead /\ u.heap = t.heap
        /\ u.polarity = t.polarity /\ u.userPol = t.userPol /\ u.simpProps = t.simpProps
        /\ u.orig = t.orig /\ u.learnt = t.learnt \cup {c}
    BY ONLY <1>4, <2>1 DEF Form
  <2>3. QED  BY <1>6, <2>2 DEF D, V, JoinFrame
<1>7. QED  BY <1>5, <1>6 DEF Joined

LEMMA JoinedGood ==
  ASSUME NEW n \in Nat, NEW t, Good(n, t), NEW c, NEW lits, Addable(n, t.clause, c, lits),
         NEW u, NEW kind, Joined(t, c, lits, u, kind)
  PROVE  Good(n, u)
<1> DEFINE C == t.clause
           D == u.clause
           a == -lits[1]
           b == -lits[2]
           v == Watcher(c, lits[2])
           w == Watcher(c, lits[1])
<1>1. /\ Form(t) /\ t.ok \in BOOLEAN
      /\ t.orig \cup t.learnt = DOMAIN C /\ t.orig \cap t.learnt = {}
      /\ TrailOk(n, t.trail, t.lim, t.qhead) /\ WatchOk(n, C, t.watches)
      /\ ReasonOk(C, t.trail) /\ DecisionsOk(t.trail, t.lim)
      /\ t.polarity \in [1 .. n -> BOOLEAN] /\ t.userPol \in [1 .. n -> {-1, 0, 1}]
      /\ t.heap \subseteq 1 .. n /\ Unassigned(n, t.trail) \subseteq t.heap
      /\ t.simpProps \in Int
  BY DEF Good
<1>2. /\ Form(u) /\ D = Added(C, c, lits)
      /\ u.watches = Watched(t.watches, c, lits)
      /\ u.ok = t.ok /\ u.trail = t.trail /\ u.lim = t.lim /\ u.qhead = t.qhead /\ u.heap = t.heap
      /\ u.polarity = t.polarity /\ u.userPol = t.userPol /\ u.simpProps = t.simpProps
      /\ u.orig \cup u.learnt = t.orig \cup t.learnt \cup {c}
      /\ c \notin t.orig \cup t.learnt => u.orig \cap u.learnt = t.orig \cap t.learnt
  <2>1. Form(t) /\ Joined(t, c, lits, u, kind)
    BY <1>1
  <2>2. JoinFrame(t, c, lits, u, kind)
    BY ONLY <2>1, JoinedIs
  <2>3. QED  BY <2>2 DEF JoinFrame
<1>3. n \in Nat /\ Addable(n, C, c, lits)
  OBVIOUS
<1> HIDE DEF C, D
<1>4. /\ ClausesOk(n, D) /\ DOMAIN D = DOMAIN C \cup {c} /\ D[c] = lits
      /\ \A d \in DOMAIN C : D[d] = C[d] /\ d # c
  <2>1. n \in Nat /\ Adding(n, C, c, lits, D)
    BY <1>2, <1>3 DEF Adding
  <2>2. ClausesOk(n, D) /\ Extends(C, D, c, lits)
    BY ONLY <2>1, AddedIs
  <2>3. QED  BY <2>2 DEF Extends
<1>5. u.orig \cup u.learnt = DOMAIN D /\ u.orig \cap u.learnt = {}
  <2>1. c \notin DOMAIN C
    BY <1>3 DEF Addable
  <2>2. QED  BY ONLY <1>1, <1>2, <1>4, <2>1
<1>6. WatchOk(n, D, u.watches)
  <2> DEFINE W == t.watches
             V == u.watches
  <2>1. /\ WatchOk(n, C, W) /\ V = TwiceListed(W, a, v, b, w) /\ D = Added(C, c, lits)
        /\ a = -lits[1] /\ b = -lits[2] /\ v = Watcher(c, lits[2]) /\ w = Watcher(c, lits[1])
    BY <1>1, <1>2 DEF Watched
  <2> HIDE DEF V, W, a, b, v, w
  <2>2. WatchOk(n, D, V)
    BY ONLY <1>3, <2>1, AddedWatched
  <2>3. QED  BY <2>2 DEF V
<1>7. ReasonOk(D, u.trail)
  <2> DEFINE T == t.trail
  <2>1. ReasonOk(C, T) /\ u.trail = T
    BY <1>1, <1>2
  <2> HIDE DEF T
  <2>2. \A i \in 1 .. Len(T) : T[i].reason # 0 => T[i].reason \in DOMAIN C
    BY <2>1 DEF ReasonOk
  <2>3. ReasonOk(D, T)
    BY ONLY <1>4, <2>1, <2>2 DEF ReasonOk
  <2>4. QED  BY <2>1, <2>3
<1>8. QED  BY ONLY <1>1, <1>2, <1>4, <1>5, <1>6, <1>7 DEF Good, D

(* What a clause more means.                                               *)
LEMMA JoinedMeans ==
  ASSUME NEW C, NEW D, NEW c, NEW lits, Extends(C, D, c, lits)
  PROVE  /\ \A F, T : Sound(F, C, T) /\ (\A m \in F : Makers(m, lits)) => Sound(F, D, T)
         /\ \A n, F, O, T : O \subseteq DOMAIN C /\ Lossless(n, F, O, C, T) => Lossless(n, F, O, D, T)
         /\ \A n, F, E, O, T :
              /\ O \subseteq DOMAIN C /\ Lossless(n, F, O, C, T)
              /\ \A m \in F : Makers(m, lits) => m \in E
              => Lossless(n, E, O \cup {c}, D, T)
         /\ \A T, q, lev :
              /\ Looked(C, T, q, lev)
              /\ \A i \in 1 .. q : T[i].level <= lev /\ -T[i].lit \in {lits[1], lits[2]} =>
                   \E j \in 1 .. Len(T) : T[j].lit \in Range(lits) /\ T[j].level <= T[i].level
              => Looked(D, T, q, lev)
<1>1. /\ DOMAIN D = DOMAIN C \cup {c} /\ D[c] = lits /\ \A d \in DOMAIN C : D[d] = C[d] /\ d # c
  BY DEF Extends
<1>2. ASSUME NEW F, NEW T, Sound(F, C, T), \A m \in F : Makers(m, lits) PROVE Sound(F, D, T)
  BY <1>1, <1>2 DEF Sound
<1>3. ASSUME NEW n, NEW F, NEW O, NEW T, O \subseteq DOMAIN C, Lossless(n, F, O, C, T)
      PROVE  Lossless(n, F, O, D, T)
  BY <1>1, <1>3 DEF Lossless
<1>4. ASSUME NEW n, NEW F, NEW E, NEW O, NEW T, O \subseteq DOMAIN C, Lossless(n, F, O, C, T),
             \A m \in F : Makers(m, lits) => m \in E
      PROVE  Lossless(n, E, O \cup {c}, D, T)
  <2>1. SUFFICES ASSUME NEW m \in Assignments(n), \A d \in O \cup {c} : Makers(m, D[d]),
                        \A i \in 1 .. Len(T) : T[i].level = 0 => Makes(m, T[i].lit)
                 PROVE  m \in E
    BY DEF Lossless
  <2>2. \A d \in O : Makers(m, C[d])
    <3>1. \A d \in O : D[d] = C[d]
      BY <1>1, <1>4
    <3>2. QED  BY <2>1, <3>1
  <2>3. m \in F
    BY <1>4, <2>1, <2>2 DEF Lossless
  <2>4. Makers(m, lits)
    BY <1>1, <2>1
  <2>5. QED  BY <1>4, <2>3, <2>4
<1>5. ASSUME NEW T, NEW q, NEW lev, Looked(C, T, q, lev),
             \A i \in 1 .. q : T[i].level <= lev /\ -T[i].lit \in {lits[1], lits[2]} =>
               \E j \in 1 .. Len(T) : T[j].lit \in Range(lits) /\ T[j].level <= T[i].level
      PROVE  Looked(D, T, q, lev)
  <2>1. SUFFICES ASSUME NEW d \in DOMAIN D, NEW i \in 1 .. q, T[i].level <= lev, -T[i].lit \in {D[d][1], D[d][2]}
                 PROVE  \E j \in 1 .. Len(T) : T[j].lit \in Range(D[d]) /\ T[j].level <= T[i].level
    BY DEF Looked
  <2>2. CASE d \in DOMAIN C
    <3>1. D[d] = C[d]
      BY <1>1, <2>2
    <3>2. QED  BY <1>5, <2>1, <2>2, <3>1 DEF Looked
  <2>3. CASE d = c
    <3>1. D[d] = lits
      BY <1>1, <2>3
    <3>2. QED  BY <1>5, <2>1, <3>1
  <2>4. QED  BY <1>1, <2>2, <2>3
<1>6. QED  BY <1>2, <1>3, <1>4, <1>5

-----------------------------------------------------------------------------
(* Fewer clauses in memory.                                                *)
Fewer(C, D, cs) == DOMAIN D = DOMAIN C \ cs /\ \A d \in DOMAIN D : D[d] = C[d]

Dropping(n, C, cs, D) == ClausesOk(n, C) /\ D = Dropped(C, cs)

LEMMA DroppedIs ==
  ASSUME NEW n, NEW C, NEW cs, NEW D, Dropping(n, C, cs, D)
  PROVE  ClausesOk(n, D) /\ Fewer(C, D, cs)
<1>1. /\ IsFiniteSet(DOMAIN C) /\ DOMAIN C \subseteq Nat \ {0}
      /\ \A d \in DOMAIN C : IsClause(n, C[d]) /\ Len(C[d]) >= 2
  BY DEF ClausesOk, Dropping
<1>2. Fewer(C, D, cs) /\ D = [d \in DOMAIN D |-> D[d]]
  BY DEF Dropped, Dropping, Fewer
<1>3. DOMAIN D \subseteq DOMAIN C
  BY <1>2 DEF Fewer
<1>4. IsFiniteSet(DOMAIN D)
  BY <1>1, <1>3, FS_Subset
<1>5. \A d \in DOMAIN D : IsClause(n, D[d]) /\ Len(D[d]) >= 2
  BY <1>1, <1>2, <1>3 DEF Fewer
<1>6. QED  BY <1>1, <1>2, <1>3, <1>4, <1>5 DEF ClausesOk

LEMMA UnwatchedIs ==
  ASSUME NEW n, NEW C, NEW W, WatchOk(n, C, W), NEW cs, NEW D, Fewer(C, D, cs),
         NEW V, V = Unwatched(W, cs)
  PROVE  WatchOk(n, D, V)
<1>1. /\ W \in [LitsOf(n) -> Seq(Watchers(n))]
      /\ \A l \in LitsOf(n) : IsInjective(W[l]) /\ WatchAt(C, l, Range(W[l]))
  BY DEF WatchOk, Lists
<1> DEFINE Others(l) == { w \in Range(W[l]) : w.cref \notin cs }
<1>2. ASSUME NEW l \in LitsOf(n)
      PROVE  /\ V[l] \in Seq(Watchers(n)) /\ Range(V[l]) = Others(l) /\ IsInjective(V[l])
  <2>1. V[l] = Only(W[l], Others(l))
    BY <1>1 DEF Unwatched
  <2>2. W[l] \in Seq(Watchers(n)) /\ IsInjective(W[l])
    BY <1>1
  <2> DEFINE X == W[l]
             O == Others(l)
  <2>3. X \in Seq(Watchers(n)) /\ IsInjective(X) /\ V[l] = Only(X, O) /\ O \subseteq Range(X)
    BY <2>1, <2>2
  <2> HIDE DEF X, O
  <2>4. Only(X, O) \in Seq(Watchers(n)) /\ Range(Only(X, O)) = Range(X) \cap O /\ IsInjective(Only(X, O))
    BY <2>3, OnlyIs
  <2>5. Range(V[l]) = O
    BY <2>3, <2>4
  <2>6. QED  BY <2>3, <2>4, <2>5 DEF O
<1>3. ASSUME NEW l \in LitsOf(n) PROVE WatchAt(D, l, Others(l))
  <2>1. /\ \A w \in Range(W[l]) : /\ w.cref \in DOMAIN C
                                  /\ -l \in {C[w.cref][1], C[w.cref][2]}
                                  /\ w.blocker \in Range(C[w.cref]) /\ w.blocker # -l
        /\ \A w, v \in Range(W[l]) : w.cref = v.cref => w = v
        /\ \A c \in DOMAIN C : -l \in {C[c][1], C[c][2]} => \E w \in Range(W[l]) : w.cref = c
    BY <1>1 DEF WatchAt
  <2> HIDE DEF Others
  <2>2. \A w : w \in Others(l) <=> w \in Range(W[l]) /\ w.cref \notin cs
    BY DEF Others
  <2>3. DOMAIN D = DOMAIN C \ cs /\ \A d \in DOMAIN D : D[d] = C[d]
    BY DEF Fewer
  <2>4. /\ \A w \in Others(l) : /\ w.cref \in DOMAIN D
                                /\ -l \in {D[w.cref][1], D[w.cref][2]}
                                /\ w.blocker \in Range(D[w.cref]) /\ w.blocker # -l
    BY <2>1, <2>2, <2>3
  <2>5. \A w, v \in Others(l) : w.cref = v.cref => w = v
    BY <2>1, <2>2
  <2>6. \A c \in DOMAIN D : -l \in {D[c][1], D[c][2]} => \E w \in Others(l) : w.cref = c
    BY <2>1, <2>2, <2>3
  <2>7. QED  BY <2>4, <2>5, <2>6 DEF WatchAt
<1>4. Lists(LitsOf(n), Watchers(n), V)
  <2>1. DOMAIN V = LitsOf(n) /\ V = [l \in LitsOf(n) |-> V[l]]
    BY <1>1 DEF Unwatched
  <2>2. QED  BY <1>2, <2>1 DEF Lists
<1> HIDE DEF Others
<1>5. \A l \in LitsOf(n) : WatchAt(D, l, Range(V[l])) /\ IsInjective(V[l])
  BY <1>2, <1>3
<1>6. QED  BY <1>4, <1>5 DEF WatchOk

(* A trail some of whose reasons are gone.                                 *)
Eased(n, T, U, cs) ==
  /\ U \in Seq(Entries(n)) /\ Len(U) = Len(T)
  /\ \A i \in 1 .. Len(T) : /\ U[i].lit = T[i].lit /\ U[i].level = T[i].level
                            /\ U[i].reason = IF T[i].reason \in cs THEN 0 ELSE T[i].reason

LEMMA UnreasonedIs ==
  ASSUME NEW n, NEW T, T \in Seq(Entries(n)), NEW cs, NEW U, U = Unreasoned(T, cs)
  PROVE  Eased(n, T, U, cs)
<1>1. DOMAIN T = 1 .. Len(T) /\ Len(T) \in Nat /\ \A i \in 1 .. Len(T) : T[i] \in Entries(n)
  OBVIOUS
<1>2. ASSUME NEW i \in 1 .. Len(T)
      PROVE  /\ U[i] \in Entries(n) /\ U[i].lit = T[i].lit /\ U[i].level = T[i].level
             /\ U[i].reason = IF T[i].reason \in cs THEN 0 ELSE T[i].reason
  <2> DEFINE e == T[i]
  <2>1. e \in Entries(n) /\ U[i] = IF e.reason \in cs THEN [e EXCEPT !.reason = 0] ELSE e
    BY <1>1 DEF Unreasoned
  <2> HIDE DEF e
  <2>2. CASE e.reason \in cs
    <3>1. U[i] = [e EXCEPT !.reason = 0]
      BY <2>1, <2>2
    <3>2. U[i] \in Entries(n) /\ U[i].lit = e.lit /\ U[i].level = e.level /\ U[i].reason = 0
      BY <2>1, <3>1 DEF Entries
    <3>3. QED  BY <2>2, <3>2 DEF e
  <2>3. CASE e.reason \notin cs
    BY <2>1, <2>3 DEF e
  <2>4. QED  BY <2>2, <2>3
<1>3. U = [i \in 1 .. Len(T) |-> U[i]]
  BY <1>1 DEF Unreasoned
<1>4. U \in Seq(Entries(n)) /\ Len(U) = Len(T)
  <2> DEFINE m == Len(T)
  <2>1. m \in Nat /\ U = [i \in 1 .. m |-> U[i]] /\ \A i \in 1 .. m : U[i] \in Entries(n)
    BY <1>1, <1>2, <1>3
  <2> HIDE DEF m
  <2>2. U \in [1 .. m -> Entries(n)]
    BY <2>1
  <2>3. QED  BY <2>1, <2>2 DEF m
<1>5. QED  BY <1>2, <1>4 DEF Eased

Removal(n, C, T, M, q, cs) ==
  /\ TrailOk(n, T, M, q) /\ ReasonOk(C, T) /\ DecisionsOk(T, M) /\ ClausesOk(n, C)
  /\ cs \subseteq DOMAIN C
  /\ \A i \in 1 .. Len(T) : T[i].reason \in cs => T[i].level = 0

LEMMA EasedKeeps ==
  ASSUME NEW n, NEW C, NEW T, NEW M, NEW q, NEW cs, Removal(n, C, T, M, q, cs),
         NEW D, Fewer(C, D, cs), NEW U, Eased(n, T, U, cs)
  PROVE  /\ TrailOk(n, U, M, q) /\ ReasonOk(D, U) /\ DecisionsOk(U, M)
         /\ \A l : OnTrail(U, l) <=> OnTrail(T, l)
         /\ Unassigned(n, U) = Unassigned(n, T)
<1>1. /\ T \in Seq(Entries(n)) /\ M \in Seq(Nat) /\ q \in 0 .. Len(T)
      /\ \A k \in 1 .. Len(M) : M[k] <= q
      /\ \A i, j \in 1 .. Len(T) : Var(T[i].lit) = Var(T[j].lit) => i = j
      /\ \A i \in 1 .. Len(T) : T[i].level <= Len(M)
      /\ \A i \in 1 .. Len(T) : \A k \in 1 .. Len(M) : T[i].level >= k <=> i > M[k]
  BY DEF TrailOk, Removal
<1>2. /\ U \in Seq(Entries(n)) /\ Len(U) = Len(T)
      /\ \A i \in 1 .. Len(T) : /\ U[i].lit = T[i].lit /\ U[i].level = T[i].level
                                /\ U[i].reason = IF T[i].reason \in cs THEN 0 ELSE T[i].reason
  BY DEF Eased
<1>3. TrailOk(n, U, M, q)
  BY <1>1, <1>2 DEF TrailOk
<1>4. ReasonOk(D, U)
  <2>1. SUFFICES ASSUME NEW i \in 1 .. Len(U), U[i].reason # 0
                 PROVE  /\ U[i].reason \in DOMAIN D
                        /\ D[U[i].reason][1] = U[i].lit
                        /\ \A k \in 2 .. Len(D[U[i].reason]) :
                             \E j \in 1 .. i - 1 : U[j].lit = -D[U[i].reason][k]
    BY DEF ReasonOk
  <2> DEFINE c == T[i].reason
  <2>2. U[i].reason = c /\ c \notin cs /\ c # 0 /\ i \in 1 .. Len(T) /\ U[i].lit = T[i].lit
    BY <1>2, <2>1
  <2>3. /\ c \in DOMAIN C /\ C[c][1] = T[i].lit
        /\ \A k \in 2 .. Len(C[c]) : \E j \in 1 .. i - 1 : T[j].lit = -C[c][k]
    BY <2>2 DEF Removal, ReasonOk
  <2> HIDE DEF c
  <2>4. c \in DOMAIN D /\ D[c] = C[c]
    BY <2>2, <2>3 DEF Fewer
  <2>5. Len(T) \in Nat
    BY <1>1
  <2>6. \A j \in 1 .. i - 1 : j \in 1 .. Len(T) /\ U[j].lit = T[j].lit
    BY <1>2, <2>2, <2>5
  <2>7. QED  BY <2>2, <2>3, <2>4, <2>6
<1>5. DecisionsOk(U, M)
  <2>1. SUFFICES ASSUME NEW i \in 1 .. Len(U), U[i].reason = 0, U[i].level > 0 PROVE i = M[U[i].level] + 1
    BY DEF DecisionsOk
  <2>2. i \in 1 .. Len(T) /\ U[i].level = T[i].level
    BY <1>2
  <2>3. T[i].level # 0
    BY <2>1, <2>2
  <2>4. T[i].reason \notin cs
    BY <2>2, <2>3 DEF Removal
  <2>5. T[i].reason = 0 /\ T[i].level > 0
    BY <1>2, <2>1, <2>2, <2>4
  <2>6. QED  BY <2>2, <2>5 DEF Removal, DecisionsOk
<1>6. \A l : OnTrail(U, l) <=> OnTrail(T, l)
  BY <1>2 DEF OnTrail
<1>7. QED  BY <1>3, <1>4, <1>5, <1>6 DEF Unassigned

(* What is said of the rest.                                               *)
LEMMA EasedMeans ==
  ASSUME NEW n, NEW C, NEW D, NEW T, NEW U, NEW cs, Fewer(C, D, cs), Eased(n, T, U, cs)
  PROVE  /\ \A F : Sound(F, C, T) => Sound(F, D, U)
         /\ \A q \in 0 .. Len(T) : \A lev : Looked(C, T, q, lev) => Looked(D, U, q, lev)
         /\ \A M, A : AssumedOk(T, M, A) /\ (\A i \in 1 .. Len(T) : T[i].reason \in cs => T[i].level = 0) => AssumedOk(U, M, A)
         /\ \A m, F, O :
              /\ O \subseteq DOMAIN C /\ Lossless(m, F, O, C, T)
              /\ \A c \in O \cap cs : \E i \in 1 .. Len(T) : T[i].level = 0 /\ T[i].lit \in Range(C[c])
              => Lossless(m, F, O \ cs, D, U)
<1>1. /\ Len(U) = Len(T)
      /\ \A i \in 1 .. Len(T) : /\ U[i].lit = T[i].lit /\ U[i].level = T[i].level
                                /\ U[i].reason = IF T[i].reason \in cs THEN 0 ELSE T[i].reason
  BY DEF Eased
<1>2. DOMAIN D = DOMAIN C \ cs /\ \A d \in DOMAIN D : d \in DOMAIN C /\ D[d] = C[d]
  BY DEF Fewer
<1>3. ASSUME NEW F, Sound(F, C, T) PROVE Sound(F, D, U)
  <2>1. \A m \in F : /\ \A c \in DOMAIN C : Makers(m, C[c])
                     /\ \A i \in 1 .. Len(T) : T[i].level = 0 => Makes(m, T[i].lit)
    BY <1>3 DEF Sound
  <2>2. QED  BY <1>1, <1>2, <2>1 DEF Sound
<1>4. ASSUME NEW q \in 0 .. Len(T), NEW lev, Looked(C, T, q, lev) PROVE Looked(D, U, q, lev)
  <2>1. SUFFICES ASSUME NEW c \in DOMAIN D, NEW i \in 1 .. q,
                        U[i].level <= lev, -U[i].lit \in {D[c][1], D[c][2]}
                 PROVE  \E j \in 1 .. Len(U) : U[j].lit \in Range(D[c]) /\ U[j].level <= U[i].level
    BY DEF Looked
  <2>2. c \in DOMAIN C /\ D[c] = C[c]
    BY <1>2
  <2>3. i \in 1 .. Len(T)
    BY <1>1
  <2>4. T[i].level <= lev /\ -T[i].lit \in {C[c][1], C[c][2]} /\ U[i].level = T[i].level
    BY <1>1, <2>1, <2>2, <2>3
  <2>5. \E j \in 1 .. Len(T) : T[j].lit \in Range(C[c]) /\ T[j].level <= T[i].level
    BY <1>4, <2>2, <2>4 DEF Looked
  <2>6. QED  BY <1>1, <2>2, <2>4, <2>5
<1>5. ASSUME NEW M, NEW A, AssumedOk(T, M, A), \A i \in 1 .. Len(T) : T[i].reason \in cs => T[i].level = 0
      PROVE  AssumedOk(U, M, A)
  <2>1. /\ \A k \in 1 .. Len(A) : k <= Len(M) =>
             \E i \in 1 .. Len(T) : T[i].lit = A[k] /\ T[i].level <= k
        /\ \A i \in 1 .. Len(T) :
             T[i].reason = 0 /\ T[i].level > 0 /\ T[i].level <= Len(A) => T[i].lit \in Range(A)
    BY <1>5 DEF AssumedOk
  <2>2. \A k \in 1 .. Len(A) : k <= Len(M) =>
             \E i \in 1 .. Len(U) : U[i].lit = A[k] /\ U[i].level <= k
    BY <1>1, <2>1
  <2>3. ASSUME NEW i \in 1 .. Len(U), U[i].reason = 0, U[i].level > 0, U[i].level <= Len(A)
        PROVE  U[i].lit \in Range(A)
    <3>1. i \in 1 .. Len(T) /\ U[i].level = T[i].level /\ U[i].lit = T[i].lit
      BY <1>1
    <3>2. T[i].level # 0
      BY <2>3, <3>1
    <3>3. T[i].reason \notin cs
      BY <1>5, <3>1, <3>2
    <3>4. T[i].reason = 0
      BY <1>1, <2>3, <3>1, <3>3
    <3>5. QED  BY <2>1, <2>3, <3>1, <3>4
  <2>4. QED  BY <2>2, <2>3 DEF AssumedOk
<1>6. ASSUME NEW m, NEW F, NEW O, O \subseteq DOMAIN C, Lossless(m, F, O, C, T),
             \A c \in O \cap cs : \E i \in 1 .. Len(T) : T[i].level = 0 /\ T[i].lit \in Range(C[c])
      PROVE  Lossless(m, F, O \ cs, D, U)
  <2>1. SUFFICES ASSUME NEW x \in Assignments(m), \A c \in O \ cs : Makers(x, D[c]),
                        \A i \in 1 .. Len(U) : U[i].level = 0 => Makes(x, U[i].lit)
                 PROVE  x \in F
    BY DEF Lossless
  <2>2. \A i \in 1 .. Len(T) : T[i].level = 0 => Makes(x, T[i].lit)
    BY <1>1, <2>1
  <2>3. ASSUME NEW c \in O PROVE Makers(x, C[c])
    <3>1. CASE c \in cs
      BY <1>6, <2>2, <3>1 DEF Makers
    <3>2. CASE c \notin cs
      <4>1. c \in DOMAIN D /\ D[c] = C[c]
        BY <1>2, <1>6, <3>2
      <4>2. QED  BY <2>1, <3>2, <4>1
    <3>3. QED  BY <3>1, <3>2
  <2>4. QED  BY <1>6, <2>2, <2>3 DEF Lossless
<1>7. QED  BY <1>3, <1>4, <1>5, <1>6

(* removeClause.                                                           *)
RemoveFrame(t, cs, u) ==
  /\ Form(u)
  /\ u.ok = t.ok /\ u.lim = t.lim /\ u.qhead = t.qhead /\ u.heap = t.heap
  /\ u.polarity = t.polarity /\ u.userPol = t.userPol
  /\ u.simpAssigns = t.simpAssigns /\ u.simpProps = t.simpProps
  /\ u.orig = t.orig \ cs /\ u.learnt = t.learnt \ cs

LEMMA RemovedIs ==
  ASSUME NEW n \in Nat, NEW t, Good(n, t), NEW cs, Removal(n, t.clause, t.trail, t.lim, t.qhead, cs),
         NEW u, u = Removed(t, cs)
  PROVE  /\ Good(n, u) /\ RemoveFrame(t, cs, u)
         /\ Fewer(t.clause, u.clause, cs) /\ Eased(n, t.trail, u.trail, cs)
<1> DEFINE C == t.clause
           T == t.trail
           L == { c \in cs : Locked(t, c) }
<1>1. /\ Form(t) /\ t.ok \in BOOLEAN /\ ClausesOk(n, C)
      /\ t.orig \cup t.learnt = DOMAIN C /\ t.orig \cap t.learnt = {}
      /\ TrailOk(n, T, t.lim, t.qhead) /\ WatchOk(n, C, t.watches)
      /\ ReasonOk(C, T) /\ DecisionsOk(T, t.lim)
      /\ t.polarity \in [1 .. n -> BOOLEAN] /\ t.userPol \in [1 .. n -> {-1, 0, 1}]
      /\ t.heap \subseteq 1 .. n /\ Unassigned(n, T) \subseteq t.heap
      /\ t.simpProps \in Int
  BY DEF Good
<1>2. T \in Seq(Entries(n)) /\ DOMAIN T = 1 .. Len(T) /\ cs \subseteq DOMAIN C /\ 0 \notin cs
  BY <1>1 DEF TrailOk, Removal, ClausesOk
<1>3. \A i \in 1 .. Len(T) : T[i].reason \in L <=> T[i].reason \in cs
  <2>1. ASSUME NEW i \in 1 .. Len(T), T[i].reason \in cs PROVE Locked(t, T[i].reason)
    <3>1. T[i].reason # 0
      BY <1>2, <2>1
    <3>2. C[T[i].reason][1] = T[i].lit
      BY <1>1, <3>1 DEF ReasonOk
    <3>3. QED  BY <1>2, <3>2 DEF Locked
  <2>2. QED  BY <2>1
<1> DEFINE D == Dropped(C, cs)
           V == Unwatched(t.watches, cs)
           U == Unreasoned(T, L)
           o == t.orig \ cs
           k == t.learnt \ cs
<1>4. u = [t EXCEPT !.clause = D, !.orig = o, !.learnt = k, !.watches = V, !.trail = U]
  BY DEF Removed
<1>5. o \cup k = (t.orig \cup t.learnt) \ cs /\ o \cap k = {}
  BY <1>1
<1>6. ClausesOk(n, D) /\ Fewer(C, D, cs)
  <2>1. Dropping(n, C, cs, D)
    BY <1>1 DEF Dropping
  <2>2. QED  BY ONLY <2>1, DroppedIs
<1>7. Eased(n, T, U, cs)
  <2>1. Eased(n, T, U, L)
    BY <1>2, UnreasonedIs
  <2> HIDE DEF L, U
  <2>2. QED  BY <1>3, <2>1 DEF Eased
<1> HIDE DEF C, D, U, T, L
<1>8. WatchOk(n, D, V)
  <2> DEFINE W == t.watches
  <2>1. WatchOk(n, C, W) /\ V = Unwatched(W, cs)
    BY <1>1
  <2> HIDE DEF W, V
  <2>2. QED  BY ONLY <1>6, <2>1, UnwatchedIs
<1> HIDE DEF V, o, k
<1>9. /\ Form(u) /\ u.clause = D /\ u.orig = o /\ u.learnt = k /\ u.watches = V /\ u.trail = U
      /\ u.ok = t.ok /\ u.lim = t.lim /\ u.qhead = t.qhead /\ u.heap = t.heap
      /\ u.polarity = t.polarity /\ u.userPol = t.userPol
      /\ u.simpAssigns = t.simpAssigns /\ u.simpProps = t.simpProps
  BY ONLY <1>1, <1>4 DEF Form
<1>10. /\ TrailOk(n, U, t.lim, t.qhead) /\ ReasonOk(D, U) /\ DecisionsOk(U, t.lim)
       /\ Unassigned(n, U) = Unassigned(n, T)
  <2> DEFINE M == t.lim
             q == t.qhead
  <2>1. Removal(n, C, T, M, q, cs)
    BY DEF C, T
  <2> HIDE DEF M, q
  <2>2. /\ TrailOk(n, U, M, q) /\ ReasonOk(D, U) /\ DecisionsOk(U, M)
        /\ Unassigned(n, U) = Unassigned(n, T)
    BY ONLY <1>6, <1>7, <2>1, EasedKeeps
  <2>3. QED  BY <2>2 DEF M, q
<1>11. u.orig \cup u.learnt = DOMAIN u.clause /\ u.orig \cap u.learnt = {}
  BY ONLY <1>1, <1>5, <1>6, <1>9 DEF Fewer
<1>12. Good(n, u)
  BY ONLY <1>1, <1>6, <1>8, <1>9, <1>10, <1>11 DEF Good
<1>13. RemoveFrame(t, cs, u)
  BY ONLY <1>9 DEF RemoveFrame, o, k
<1>14. QED  BY <1>6, <1>7, <1>9, <1>12, <1>13 DEF C, T

-----------------------------------------------------------------------------
(* The solver at level 0, between two searches, and simplify.              *)
Rooted(n, F, t) ==
  /\ Good(n, t) /\ t.lim = <<>>
  /\ Sound(F, t.clause, t.trail)
  /\ t.ok => Through(t) /\ Lossless(n, F, t.orig, t.clause, t.trail)
  /\ ~t.ok => F = {}

LEMMA RootIs ==
  ASSUME NEW n \in Nat, NEW T, NEW M, NEW q, TrailOk(n, T, M, q), M = <<>>
  PROVE  (\A i \in 1 .. Len(T) : T[i].level = 0) /\ \A A : AssumedOk(T, M, A)
<1>1. Len(M) = 0
  OBVIOUS
<1>2. \A i \in 1 .. Len(T) : T[i].level \in 0 .. Len(M)
  BY TrailIs
<1>3. \A i \in 1 .. Len(T) : T[i].level = 0
  BY <1>1, <1>2
<1>4. ASSUME NEW A PROVE AssumedOk(T, M, A)
  <2>1. \A k \in 1 .. Len(A) : ~(k <= Len(M))
    BY <1>1
  <2>2. \A i \in 1 .. Len(T) : ~(T[i].level > 0)
    BY <1>3
  <2>3. QED  BY <2>1, <2>2 DEF AssumedOk
<1>5. QED  BY <1>3, <1>4

LEMMA RootClash ==
  ASSUME NEW n \in Nat, NEW F \in SUBSET Assignments(n), NEW C, ClausesOk(n, C), NEW T, Sound(F, C, T),
         NEW M, NEW q, TrailOk(n, T, M, q), \A i \in 1 .. Len(T) : T[i].level = 0,
         NEW c \in DOMAIN C, AllFalse(T, C[c])
  PROVE  F = {}
<1>1. SUFFICES ASSUME NEW m \in F PROVE FALSE
  OBVIOUS
<1>2. PICK l \in Range(C[c]) : Makes(m, l)
  BY DEF Sound, Makers
<1>3. l \in LitsOf(n) /\ m \in Assignments(n)
  BY ClausesAre
<1>4. PICK i \in 1 .. Len(T) : T[i].lit = -l
  BY <1>2 DEF AllFalse, OnTrail
<1>5. Makes(m, -l)
  BY <1>4 DEF Sound
<1>6. QED  BY <1>2, <1>3, <1>5, Literals

(* A conflict at level 0.                                                  *)
LEMMA CheckedFails ==
  ASSUME NEW n \in Nat, NEW t, Good(n, t), NEW u, u = [t EXCEPT !.ok = FALSE]
  PROVE  Good(n, u) /\ u.ok = FALSE /\ u.lim = t.lim /\ u.clause = t.clause /\ u.trail = t.trail
<1>1. Form(t)
  BY DEF Good
<1>2. /\ Form(u) /\ u.ok = FALSE /\ u.clause = t.clause /\ u.orig = t.orig /\ u.learnt = t.learnt
      /\ u.watches = t.watches /\ u.trail = t.trail /\ u.lim = t.lim /\ u.qhead = t.qhead
      /\ u.heap = t.heap /\ u.polarity = t.polarity /\ u.userPol = t.userPol
      /\ u.simpProps = t.simpProps
  BY ONLY <1>1, u = [t EXCEPT !.ok = FALSE] DEF Form
<1>3. Good(n, u)
  BY ONLY <1>2, Good(n, t) DEF Good
<1>4. QED  BY <1>2, <1>3

LEMMA RebuiltGood ==
  ASSUME NEW n \in Nat, NEW t, Good(n, t), NEW u, u = Rebuilt(t)
  PROVE  /\ Good(n, u) /\ u.ok = t.ok /\ u.lim = t.lim /\ u.clause = t.clause /\ u.trail = t.trail
         /\ u.orig = t.orig /\ u.qhead = t.qhead
<1>1. Form(t) /\ ClausesOk(n, t.clause) /\ t.polarity \in [1 .. n -> BOOLEAN]
      /\ TrailOk(n, t.trail, t.lim, t.qhead)
  BY DEF Good
<1> DEFINE h == DOMAIN t.polarity \ Assigned(t)
           a == Len(t.trail)
           b == SumFunctionOnSet([c \in DOMAIN t.clause |-> Len(t.clause[c])], DOMAIN t.clause)
<1>2. u = [t EXCEPT !.heap = h, !.simpAssigns = a, !.simpProps = b]
  BY DEF Rebuilt
<1>3. b \in Int
  <2> DEFINE S == DOMAIN t.clause
             f == [c \in S |-> Len(t.clause[c])]
  <2>1. IsFiniteSet(S) /\ \A c \in S : t.clause[c] \in Seq(LitsOf(n))
    BY <1>1 DEF ClausesOk, IsClause
  <2>2. \A c \in S : f[c] \in Nat
    BY <2>1
  <2>3. b = SumFunctionOnSet(f, S)
    OBVIOUS
  <2> HIDE DEF S, f, b
  <2>4. b \in Nat
    BY <2>1, <2>2, <2>3, SumNatural
  <2>5. QED  BY <2>4
<1>4. h \subseteq 1 .. n /\ Unassigned(n, t.trail) \subseteq h
  <2>1. DOMAIN t.polarity = 1 .. n
    BY <1>1
  <2>2. ASSUME NEW v \in Unassigned(n, t.trail) PROVE v \notin Assigned(t)
    <3>1. v \in 1 .. n /\ ~OnTrail(t.trail, v) /\ ~OnTrail(t.trail, -v)
      BY DEF Unassigned
    <3>2. SUFFICES ASSUME v \in Assigned(t) PROVE FALSE
      OBVIOUS
    <3>3. PICK l \in TrueLits(t) : v = Var(l)
      BY <3>2 DEF Assigned
    <3>4. PICK i \in DOMAIN t.trail : l = t.trail[i].lit
      BY <3>3 DEF TrueLits
    <3>5. DOMAIN t.trail = 1 .. Len(t.trail) /\ l \in LitsOf(n)
      BY <1>1, <3>4, TrailIs
    <3>6. l = v \/ l = -v
      BY <3>3, <3>5 DEF Var, LitsOf
    <3>7. OnTrail(t.trail, l)
      BY <3>4, <3>5 DEF OnTrail
    <3>8. QED  BY <3>1, <3>6, <3>7
  <2>3. \A v \in Unassigned(n, t.trail) : v \in 1 .. n
    BY DEF Unassigned
  <2>4. QED  BY <2>1, <2>2, <2>3
<1> HIDE DEF h, a, b
<1>5. /\ Form(u) /\ u.ok = t.ok /\ u.clause = t.clause /\ u.orig = t.orig /\ u.learnt = t.learnt
      /\ u.watches = t.watches /\ u.trail = t.trail /\ u.lim = t.lim /\ u.qhead = t.qhead
      /\ u.heap = h /\ u.polarity = t.polarity /\ u.userPol = t.userPol /\ u.simpProps = b
  BY ONLY <1>1, <1>2 DEF Form
<1>6. Good(n, u)
  BY ONLY <1>3, <1>4, <1>5, Good(n, t) DEF Good
<1>7. QED  BY <1>5, <1>6

LEMMA WithoutSatisfiedIs ==
  ASSUME NEW n \in Nat, NEW F, NEW t, Rooted(n, F, t), t.ok, NEW u, u = WithoutSatisfied(t)
  PROVE  Rooted(n, F, u) /\ u.ok
<1>1. /\ Good(n, t) /\ t.lim = <<>> /\ Sound(F, t.clause, t.trail) /\ Through(t)
      /\ Lossless(n, F, t.orig, t.clause, t.trail)
  BY DEF Rooted
<1> DEFINE cs == { c \in DOMAIN t.clause : Satisfied(t, c) }
           y == Removed(t, cs)
           C == t.clause
           T == t.trail
<1>2. u = t \/ u = Rebuilt(y)
  BY DEF WithoutSatisfied
<1>3. CASE u = t
  BY <1>3
<1>4. CASE u = Rebuilt(y)
  <2>1. /\ TrailOk(n, T, t.lim, t.qhead) /\ ReasonOk(C, T) /\ DecisionsOk(T, t.lim) /\ ClausesOk(n, C)
        /\ t.orig \cup t.learnt = DOMAIN C
    BY <1>1 DEF Good
  <2>2. \A i \in 1 .. Len(T) : T[i].level = 0
    <3> DEFINE M == t.lim
               q == t.qhead
    <3>1. n \in Nat /\ TrailOk(n, T, M, q) /\ M = <<>>
      BY <1>1, <2>1
    <3> HIDE DEF M, q, T
    <3>2. QED  BY ONLY <3>1, RootIs
  <2>3. Removal(n, C, T, t.lim, t.qhead, cs)
    BY <2>1, <2>2 DEF Removal
  <2>4. \A c \in cs : \E i \in 1 .. Len(T) : T[i].level = 0 /\ T[i].lit \in Range(C[c])
    <3>1. ASSUME NEW c \in cs PROVE \E i \in 1 .. Len(T) : T[i].level = 0 /\ T[i].lit \in Range(C[c])
      <4>1. PICK l \in Range(C[c]) : IsTrue(t, l)
        BY DEF Satisfied
      <4>2. PICK i \in DOMAIN T : T[i].lit = l
        BY <4>1 DEF IsTrue, TrueLits
      <4>3. DOMAIN T = 1 .. Len(T)
        BY <2>1, TrailIs
      <4>4. QED  BY <2>2, <4>1, <4>2, <4>3
    <3>2. QED  BY <3>1
  <2> HIDE DEF cs, C, T
  <2>5. /\ Good(n, y) /\ RemoveFrame(t, cs, y)
        /\ Fewer(C, y.clause, cs) /\ Eased(n, T, y.trail, cs)
    <3> HIDE DEF y
    <3>1. n \in Nat /\ Good(n, t) /\ Removal(n, t.clause, t.trail, t.lim, t.qhead, cs) /\ y = Removed(t, cs)
      BY <1>1, <2>3 DEF y, C, T
    <3>2. /\ Good(n, y) /\ RemoveFrame(t, cs, y)
          /\ Fewer(t.clause, y.clause, cs) /\ Eased(n, t.trail, y.trail, cs)
      BY ONLY <3>1, RemovedIs
    <3>3. QED  BY <3>2 DEF C, T
  <2> HIDE DEF y
  <2> DEFINE D == y.clause
             U == y.trail
             q == t.qhead
  <2>6. /\ Sound(F, D, U) /\ Looked(D, U, q, Len(t.lim)) /\ Lossless(n, F, t.orig \ cs, D, U)
        /\ q = Len(T) /\ Len(T) = Len(U)
    <3>1. Sound(F, C, T) /\ Looked(C, T, q, Len(t.lim)) /\ q = Len(T) /\ q \in 0 .. Len(T)
          /\ Lossless(n, F, t.orig, C, T) /\ t.orig \subseteq DOMAIN C
          /\ Fewer(C, D, cs) /\ Eased(n, T, U, cs)
      BY <1>1, <2>1, <2>5 DEF C, T, Through, TrailOk
    <3> DEFINE O == t.orig
               lev == Len(t.lim)
    <3>2. \A c \in O \cap cs : \E i \in 1 .. Len(T) : T[i].level = 0 /\ T[i].lit \in Range(C[c])
      BY <2>4
    <3> HIDE DEF D, U, q, O, lev
    <3>3. /\ \A E : Sound(E, C, T) => Sound(E, D, U)
          /\ \A p \in 0 .. Len(T) : \A l : Looked(C, T, p, l) => Looked(D, U, p, l)
          /\ \A m, E, P :
              /\ P \subseteq DOMAIN C /\ Lossless(m, E, P, C, T)
              /\ \A c \in P \cap cs : \E i \in 1 .. Len(T) : T[i].level = 0 /\ T[i].lit \in Range(C[c])
              => Lossless(m, E, P \ cs, D, U)
      BY ONLY <3>1, EasedMeans
    <3>4. Lossless(n, F, O \ cs, D, U)
      BY ONLY <3>1, <3>2, <3>3 DEF O
    <3>5. Sound(F, D, U) /\ Looked(D, U, q, lev)
      BY ONLY <3>1, <3>3 DEF lev
    <3>6. QED  BY <3>1, <3>4, <3>5 DEF O, lev, Eased
  <2>7. /\ y.ok = t.ok /\ y.lim = t.lim /\ y.qhead = t.qhead /\ y.orig = t.orig \ cs
    BY <2>5 DEF RemoveFrame
  <2>8. /\ Good(n, u) /\ u.ok = y.ok /\ u.lim = y.lim /\ u.clause = y.clause /\ u.trail = y.trail
        /\ u.orig = y.orig /\ u.qhead = y.qhead
    BY ONLY <1>4, <2>5, n \in Nat, RebuiltGood
  <2>9. Through(u)
    BY ONLY <2>6, <2>7, <2>8 DEF Through, D, U, q
  <2>10. QED  BY <1>1, <2>6, <2>7, <2>8, <2>9 DEF Rooted, D, U
<1>5. QED  BY <1>2, <1>3, <1>4

(* propagate at level 0.                                                   *)
LEMMA RootPropagated ==
  ASSUME NEW n \in Nat, NEW F \in SUBSET Assignments(n), NEW t, Good(n, t), t.lim = <<>>, t.ok,
         Sound(F, t.clause, t.trail), Lossless(n, F, t.orig, t.clause, t.trail),
         Looked(t.clause, t.trail, t.qhead, Len(t.lim)),
         NEW r, r = Propagated(t)
  PROVE  /\ r.confl = 0 => Rooted(n, F, r.s) /\ r.s.ok
         /\ r.confl # 0 => Rooted(n, F, Checked(r)) /\ ~Checked(r).ok
<1> DEFINE u == r.s
           C == u.clause
           T == u.trail
<1>1. /\ Good(n, u) /\ Kin(t, u) /\ Permuted(t.clause, C) /\ Continues(T, t.trail)
      /\ Sound(F, C, T)
      /\ r.confl = 0 => Through(u)
      /\ r.confl # 0 => Clash(C, T, u.lim, u.qhead, r.confl)
  <2>1. u = r.s
    OBVIOUS
  <2> HIDE DEF u
  <2>2. /\ Good(n, u) /\ Kin(t, u) /\ Permuted(t.clause, u.clause) /\ Continues(u.trail, t.trail)
        /\ Sound(F, u.clause, u.trail)
        /\ r.confl = 0 => Through(u)
        /\ r.confl # 0 => Clash(u.clause, u.trail, u.lim, u.qhead, r.confl)
    BY <2>1, PropagatedIs
  <2>3. QED  BY <2>2
<1>2. u.ok = t.ok /\ u.lim = <<>> /\ u.orig = t.orig
  BY <1>1 DEF Kin
<1>3. TrailOk(n, T, u.lim, u.qhead) /\ ClausesOk(n, C)
      /\ TrailOk(n, t.trail, t.lim, t.qhead) /\ t.orig \subseteq DOMAIN t.clause
  BY <1>1 DEF Good
<1>4. Lossless(n, F, u.orig, C, T)
  <2>1. Len(T) \in Nat /\ Len(t.trail) \in Nat
    BY <1>3 DEF TrailOk
  <2>2. Lossless(n, F, t.orig, t.clause, T)
    <3> DEFINE R == t.trail
               O == t.orig
               B == t.clause
    <3>1. Lossless(n, F, O, B, R) /\ Continues(T, R) /\ Len(T) \in Nat /\ Len(R) \in Nat
      BY <1>1, <2>1
    <3> HIDE DEF R, O, B, T
    <3>2. Lossless(n, F, O, B, T)
      BY ONLY <3>1, LosslessContinues
    <3>3. QED  BY <3>2 DEF O, B
  <2>3. \A m : \A c \in t.orig : Makers(m, C[c]) <=> Makers(m, t.clause[c])
    BY <1>1, <1>3 DEF Permuted, Makers
  <2>4. QED  BY <1>2, <2>2, <2>3 DEF Lossless
<1>5. CASE r.confl = 0
  <2>1. Rooted(n, F, u) /\ u.ok
    BY <1>1, <1>2, <1>4, <1>5 DEF Rooted
  <2>2. QED  BY <1>5, <2>1
<1>6. CASE r.confl # 0
  <2> DEFINE v == Checked(r)
  <2>1. v = [u EXCEPT !.ok = FALSE]
    BY <1>6 DEF Checked
  <2>2. Clash(C, T, u.lim, u.qhead, r.confl)
    BY <1>1, <1>6
  <2>3. r.confl \in DOMAIN C /\ AllFalse(T, C[r.confl])
    BY <2>2 DEF Clash
  <2>4. F = {}
    <3> DEFINE M == u.lim
               q == u.qhead
               c == r.confl
    <3>1. TrailOk(n, T, M, q) /\ M = <<>> /\ ClausesOk(n, C) /\ c \in DOMAIN C /\ AllFalse(T, C[c])
          /\ Sound(F, C, T) /\ n \in Nat /\ F \in SUBSET Assignments(n)
      BY <1>1, <1>2, <1>3, <2>3
    <3> HIDE DEF M, q, c, C, T
    <3>2. \A i \in 1 .. Len(T) : T[i].level = 0
      BY ONLY <3>1, RootIs
    <3>3. QED  BY ONLY <3>1, <3>2, RootClash
  <2> HIDE DEF u, v
  <2>5. Good(n, v) /\ v.ok = FALSE /\ v.lim = u.lim /\ v.clause = u.clause /\ v.trail = u.trail
    BY ONLY n \in Nat, <1>1, <2>1, CheckedFails
  <2>6. Rooted(n, F, v) /\ ~v.ok
    BY <1>1, <1>2, <2>4, <2>5 DEF Rooted, u, C, T
  <2>7. QED  BY <1>6, <2>6 DEF v
<1>7. QED  BY <1>5, <1>6

LEMMA SimplifiedIs ==
  ASSUME NEW n \in Nat, NEW F \in SUBSET Assignments(n), NEW t, Rooted(n, F, t)
  PROVE  Rooted(n, F, Simplified(t))
<1>1. CASE ~t.ok
  BY <1>1 DEF Simplified
<1>2. CASE t.ok
  <2> DEFINE r == Propagated(t)
  <2>1. Simplified(t) = IF r.confl # 0 THEN Checked(r) ELSE WithoutSatisfied(r.s)
    BY <1>2 DEF Simplified, SimplifyPropagated
  <2>2. /\ r.confl = 0 => Rooted(n, F, r.s) /\ r.s.ok
        /\ r.confl # 0 => Rooted(n, F, Checked(r)) /\ ~Checked(r).ok
    <3> HIDE DEF r
    <3>1. /\ Good(n, t) /\ t.lim = <<>> /\ t.ok /\ Sound(F, t.clause, t.trail)
          /\ Lossless(n, F, t.orig, t.clause, t.trail)
          /\ Looked(t.clause, t.trail, t.qhead, Len(t.lim)) /\ r = Propagated(t)
      BY <1>2 DEF Rooted, Through, r
    <3>2. QED  BY <3>1, RootPropagated
  <2> HIDE DEF r
  <2>3. CASE r.confl = 0
    <3>1. Rooted(n, F, r.s) /\ r.s.ok /\ Simplified(t) = WithoutSatisfied(r.s)
      BY <2>1, <2>2, <2>3
    <3> DEFINE v == r.s
               u == Simplified(t)
    <3>2. Rooted(n, F, v) /\ v.ok /\ u = WithoutSatisfied(v)
      BY <3>1
    <3> HIDE DEF u, v
    <3>3. Rooted(n, F, u)
      BY ONLY n \in Nat, <3>2, WithoutSatisfiedIs
    <3>4. QED  BY <3>3 DEF u
  <2>4. CASE r.confl # 0
    BY <2>1, <2>2, <2>4
  <2>5. QED  BY <2>3, <2>4
<1>3. t.ok \in BOOLEAN
  BY DEF Rooted, Good
<1>4. QED  BY <1>1, <1>2, <1>3

-----------------------------------------------------------------------------
(* A clause read.  There is an order of its literals.                      *)
LEMMA InOrderIs ==
  ASSUME NEW n \in Nat, NEW K \in SUBSET LitsOf(n), IsFiniteSet(K), NEW c, c = InOrder(K)
  PROVE  c \in Seq(LitsOf(n)) /\ Len(c) = Cardinality(K) /\ Range(c) = K /\ IsInjective(c)
<1> DEFINE N == Cardinality(K)
           B(l) == { k \in K : Before(k, l) }
           rank(l) == Cardinality(B(l)) + 1
           f == [l \in K |-> rank(l)]
<1>1. N \in Nat /\ IsFiniteSet(1 .. N) /\ Cardinality(1 .. N) = N
  <2>1. N \in Nat
    BY FS_CardinalityType
  <2> HIDE DEF N
  <2>2. 1 \in Int /\ N \in Int
    BY <2>1
  <2>3. IsFiniteSet(1 .. N) /\ Cardinality(1 .. N) = IF 1 > N THEN 0 ELSE N - 1 + 1
    BY <2>2, FS_Interval
  <2>4. QED  BY <2>1, <2>3
<1>2. /\ \A k, l \in K : k # l => Before(k, l) \/ Before(l, k)
      /\ \A k \in K : ~Before(k, k)
      /\ \A k, l, m \in K : Before(k, l) /\ Before(l, m) => Before(k, m)
  <2>1. \A l \in K : l \in Int /\ Var(l) \in Int /\ (Var(l) = l \/ Var(l) = -l)
    BY DEF LitsOf, Var
  <2>2. \A k, l \in K : k # l => Before(k, l) \/ Before(l, k)
    BY <2>1 DEF Before
  <2>3. \A k \in K : ~Before(k, k)
    BY <2>1 DEF Before
  <2>4. ASSUME NEW k \in K, NEW l \in K, NEW m \in K, Before(k, l), Before(l, m) PROVE Before(k, m)
    <3>1. k \in Int /\ l \in Int /\ m \in Int /\ Var(k) \in Int /\ Var(l) \in Int /\ Var(m) \in Int
      BY <2>1
    <3>2. /\ Var(k) < Var(l) \/ (Var(k) = Var(l) /\ k > l)
          /\ Var(l) < Var(m) \/ (Var(l) = Var(m) /\ l > m)
      BY <2>4 DEF Before
    <3> DEFINE a == Var(k)
               b == Var(l)
               d == Var(m)
    <3> HIDE DEF a, b, d
    <3>3. a \in Int /\ b \in Int /\ d \in Int /\ (a < b \/ (a = b /\ k > l)) /\ (b < d \/ (b = d /\ l > m))
      BY <3>1, <3>2 DEF a, b, d
    <3>4. a < d \/ (a = d /\ k > m)
      BY <3>1, <3>3
    <3>5. QED  BY <3>4 DEF Before, a, d
  <2>5. QED  BY <2>2, <2>3, <2>4
<1>3. ASSUME NEW l \in K
      PROVE  IsFiniteSet(B(l)) /\ Cardinality(B(l)) \in Nat /\ Cardinality(B(l)) < N
  <2>1. B(l) \in SUBSET K /\ l \notin B(l)
    BY <1>2
  <2> HIDE DEF B, N
  <2>2. IsFiniteSet(B(l)) /\ Cardinality(B(l)) <= Cardinality(K) /\ (Cardinality(K) = Cardinality(B(l)) => K = B(l))
    BY <2>1, FS_Subset
  <2>3. Cardinality(B(l)) \in Nat
    BY <2>2, FS_CardinalityType
  <2>4. Cardinality(B(l)) # Cardinality(K)
    BY <2>1, <2>2
  <2> DEFINE b == Cardinality(B(l))
  <2>5. b \in Nat /\ N \in Nat /\ b <= N /\ b # N
    BY <1>1, <2>2, <2>3, <2>4 DEF N
  <2> HIDE DEF b
  <2>6. b < N
    BY <2>5
  <2>7. QED  BY <2>2, <2>3, <2>6 DEF b
<1>4. ASSUME NEW k \in K, NEW l \in K, Before(k, l) PROVE Cardinality(B(k)) < Cardinality(B(l))
  <2>1. B(k) \in SUBSET B(l) /\ k \in B(l) /\ k \notin B(k)
    BY <1>2, <1>4
  <2> HIDE DEF B
  <2>2. Cardinality(B(k)) <= Cardinality(B(l)) /\ (Cardinality(B(l)) = Cardinality(B(k)) => B(l) = B(k))
    BY <1>3, <2>1, FS_Subset
  <2> DEFINE a == Cardinality(B(k))
             b == Cardinality(B(l))
  <2>3. a \in Nat /\ b \in Nat /\ a <= b /\ a # b
    BY <1>3, <2>1, <2>2
  <2> HIDE DEF a, b
  <2>4. a < b
    BY <2>3
  <2>5. QED  BY <2>4 DEF a, b
<1> HIDE DEF B, N
<1>5. \A l \in K : f[l] \in 1 .. N
  BY <1>1, <1>3
<1>6. \A k, l \in K : Before(k, l) => f[k] < f[l]
  BY <1>3, <1>4
<1>7. \A k, l \in K : f[k] = f[l] => k = l
  <2> HIDE DEF f
  <2>1. \A k \in K : f[k] \in Int
    BY <1>5
  <2>2. QED  BY <1>2, <1>6, <2>1
<1>8. f \in Injection(K, 1 .. N)
  <2>1. f \in [K -> 1 .. N]
    BY <1>5
  <2> HIDE DEF f
  <2>2. QED  BY <1>7, <2>1 DEF Injection, IsInjective
<1> HIDE DEF f
<1>9. f \in Surjection(K, 1 .. N)
  <2>1. Cardinality(K) = Cardinality(1 .. N)
    BY <1>1 DEF N
  <2>2. QED  BY <1>1, <1>8, <2>1, FS_Injection
<1>10. \A i \in 1 .. N : \E l \in K : f[l] = i
  BY <1>9 DEF Surjection
<1> DEFINE g == [i \in 1 .. N |-> CHOOSE l \in K : f[l] = i]
<1>11. g \in [1 .. N -> K] /\ \A i \in 1 .. N : f[g[i]] = i
  BY <1>10
<1> HIDE DEF g
<1>12. \A i, j \in DOMAIN g : i < j => Before(g[i], g[j])
  <2>1. SUFFICES ASSUME NEW i \in 1 .. N, NEW j \in 1 .. N, i < j PROVE Before(g[i], g[j])
    BY <1>11
  <2>2. g[i] \in K /\ g[j] \in K /\ f[g[i]] = i /\ f[g[j]] = j
    BY <1>11
  <2>3. g[i] # g[j]
    BY <2>1, <2>2
  <2>4. ~Before(g[j], g[i])
    <3>1. Before(g[j], g[i]) => j < i
      BY <1>6, <2>2
    <3>2. QED  BY <1>1, <2>1, <3>1
  <2>5. QED  BY <1>2, <2>2, <2>3, <2>4
<1>13. c \in [1 .. N -> K] /\ \A i, j \in DOMAIN c : i < j => Before(c[i], c[j])
  <2>1. c = CHOOSE x \in [1 .. N -> K] : \A i, j \in DOMAIN x : i < j => Before(x[i], x[j])
    BY DEF InOrder, N
  <2>2. QED  BY <1>11, <1>12, <2>1
<1>14. \A i, j \in 1 .. N : c[i] = c[j] => i = j
  <2>1. SUFFICES ASSUME NEW i \in 1 .. N, NEW j \in 1 .. N, c[i] = c[j], i # j PROVE FALSE
    OBVIOUS
  <2>2. i < j \/ j < i
    BY <1>1, <2>1
  <2>3. Before(c[i], c[j]) \/ Before(c[j], c[i])
    BY <1>13, <2>2
  <2>4. c[i] \in K
    BY <1>13
  <2>5. QED  BY <1>2, <2>1, <2>3, <2>4
<1>15. c \in Injection(1 .. N, K)
  BY <1>13, <1>14 DEF Injection, IsInjective
<1>16. c \in Surjection(1 .. N, K)
  <2>1. Cardinality(K) = Cardinality(1 .. N)
    BY <1>1 DEF N
  <2>2. QED  BY <1>1, <1>15, <2>1, FS_Injection
<1>17. c \in Seq(LitsOf(n)) /\ Len(c) = N /\ DOMAIN c = 1 .. N
  <2>1. c \in Seq(K) /\ Len(c) = N
    BY <1>1, <1>13
  <2>2. QED  BY <1>13, <2>1
<1>18. Range(c) = K
  BY <1>13, <1>16, <1>17 DEF Range, Surjection
<1>19. IsInjective(c)
  BY <1>14, <1>17 DEF IsInjective
<1>20. QED  BY <1>17, <1>18, <1>19 DEF N

(* What addClause_ does with the literals that are left.                   *)
Addition(n, F, t, lits, E) ==
  /\ Rooted(n, F, t) /\ t.ok = TRUE
  /\ IsClause(n, lits) /\ \A k \in 1 .. Len(lits) : Free(t.trail, lits[k])
  /\ E = { m \in F : Makers(m, lits) }

LEMMA AddNone ==
  ASSUME NEW n \in Nat, NEW F, NEW t, NEW lits, NEW E, Addition(n, F, t, lits, E), Len(lits) = 0,
         NEW u, u = AddSorted(t, lits)
  PROVE  Rooted(n, E, u)
<1>1. u = [t EXCEPT !.ok = FALSE]
  BY DEF AddSorted
<1>2. Good(n, t) /\ t.lim = <<>>
  BY DEF Rooted, Addition
<1>3. Good(n, u) /\ u.ok = FALSE /\ u.lim = t.lim /\ u.clause = t.clause /\ u.trail = t.trail
  BY ONLY n \in Nat, <1>1, <1>2, CheckedFails
<1>4. E = {}
  <2>1. DOMAIN lits = 1 .. 0
    BY DEF Addition, IsClause
  <2>2. Range(lits) = {}
    BY <2>1 DEF Range
  <2>3. QED  BY <2>2 DEF Addition, Makers
<1>5. Sound(E, u.clause, u.trail)
  BY <1>4 DEF Sound
<1>6. QED  BY <1>2, <1>3, <1>4, <1>5 DEF Rooted

LEMMA CheckedHolds ==
  ASSUME NEW t, Form(t), t.ok = TRUE, NEW u, u = [t EXCEPT !.ok = TRUE]
  PROVE  u = t
  BY DEF Form

LEMMA AddUnit ==
  ASSUME NEW n \in Nat, NEW F \in SUBSET Assignments(n), NEW t, NEW lits, NEW E, Addition(n, F, t, lits, E),
         Len(lits) = 1, NEW u, u = AddSorted(t, lits)
  PROVE  Rooted(n, E, u)
<1> DEFINE l == lits[1]
           y == uncheckedEnqueue(t, l, 0)
           r == Propagated(y)
<1>1. u = Checked(r)
  BY DEF AddSorted
<1>2. Good(n, t) /\ t.lim = <<>> /\ t.ok = TRUE /\ Sound(F, t.clause, t.trail) /\ Through(t)
      /\ Lossless(n, F, t.orig, t.clause, t.trail)
  BY DEF Rooted, Addition
<1>3. l \in LitsOf(n) /\ Free(t.trail, l) /\ Len(t.lim) = 0 /\ Range(lits) = {l}
  <2>1. lits \in Seq(LitsOf(n)) /\ DOMAIN lits = 1 .. 1
    BY DEF Addition, IsClause
  <2>2. 1 \in 1 .. Len(lits)
    OBVIOUS
  <2>3. l \in LitsOf(n) /\ Free(t.trail, l)
    <3>1. lits[1] \in LitsOf(n)
      BY ONLY <2>1, <2>2
    <3>2. \A k \in 1 .. Len(lits) : Free(t.trail, lits[k])
      BY DEF Addition
    <3>3. QED  BY ONLY <2>2, <3>1, <3>2
  <2>4. Range(lits) = {l}
    BY <2>1 DEF Range
  <2>5. QED  BY <1>2, <2>3, <2>4
<1>4. E = { m \in F : Makes(m, l) }
  BY <1>3 DEF Addition, Makers
<1> DEFINE T == t.trail
           U == y.trail
           M == t.lim
           q == t.qhead
           C == t.clause
           O == t.orig
           o == 0
<1>5. /\ Good(n, y) /\ Frame(t, y) /\ y.clause = C /\ y.qhead = q /\ Grown(T, M, l, o, U)
  <2> HIDE DEF y, l, o
  <2>1. Enqueuing(n, t, l, o)
    BY <1>3 DEF Enqueuing, o
  <2>2. y = uncheckedEnqueue(t, l, o) /\ Good(n, t) /\ n \in Nat
    BY <1>2 DEF y, o
  <2>3. /\ Good(n, y) /\ Frame(t, y) /\ y.clause = t.clause /\ y.watches = t.watches /\ y.qhead = t.qhead
        /\ Grown(t.trail, t.lim, l, o, y.trail)
    BY ONLY <2>1, <2>2, EnqueueGood
  <2>4. QED  BY <2>3
<1>6. y.ok = TRUE /\ y.lim = M /\ M = <<>> /\ y.orig = O
  BY <1>2, <1>5 DEF Frame
<1>7. /\ Sound(E, C, U) /\ Lossless(n, E, O, C, U) /\ Looked(C, U, q, 0)
  <2>1. TrailOk(n, T, M, q) /\ l \in LitsOf(n) /\ o \in Nat /\ Grown(T, M, l, o, U)
    BY <1>2, <1>3, <1>5 DEF Good
  <2>2. Sound(E, C, T) /\ Root(M, E, l) /\ Lossless(n, F, O, C, T) /\ Looked(C, T, q, 0)
    <3>1. Sound(E, C, T)
      BY <1>2, <1>4 DEF Sound
    <3>2. Root(M, E, l)
      BY <1>4 DEF Root
    <3>3. Looked(C, T, q, 0)
      BY <1>2, <1>3 DEF Through
    <3>4. QED  BY <1>2, <3>1, <3>2, <3>3
  <2>3. Len(M) = 0 /\ Len(T) \in Nat
    BY <1>3, <2>1 DEF TrailOk
  <2> HIDE DEF T, U, M, q, C, O, o, l, y
  <2>4. /\ \A G, D : Sound(G, D, T) /\ Root(M, G, l) => Sound(G, D, U)
        /\ \A G, P, D : Lossless(n, G, P, D, T) => Lossless(n, G, P, D, U)
        /\ \A D, lev : Looked(D, T, q, lev) => Looked(D, U, q, lev)
        /\ Len(U) = Len(T) + 1 /\ Continues(U, T) /\ U[Len(U)] = Item(l, o, Len(M))
        /\ \A k : OnTrail(U, k) <=> OnTrail(T, k) \/ k = l
    BY ONLY n \in Nat, <2>1, GrownKeeps
  <2>5. Lossless(n, F, O, C, U) /\ Sound(E, C, U) /\ Looked(C, U, q, 0)
    BY ONLY <2>2, <2>4
  <2>6. Len(U) \in 1 .. Len(U) /\ U[Len(U)].level = 0 /\ U[Len(U)].lit = l
    BY <2>3, <2>4 DEF Item
  <2>7. Lossless(n, E, O, C, U)
    <3>1. ASSUME NEW m \in Assignments(n), \A c \in O : Makers(m, C[c]),
                 \A i \in 1 .. Len(U) : U[i].level = 0 => Makes(m, U[i].lit)
          PROVE  m \in E
      <4>1. m \in F
        BY <2>5, <3>1 DEF Lossless
      <4>2. Makes(m, l)
        BY <2>6, <3>1
      <4>3. QED  BY <1>4, <4>1, <4>2
    <3>2. QED  BY <3>1 DEF Lossless
  <2>8. QED  BY <2>5, <2>7
<1>8. E \in SUBSET Assignments(n)
  BY <1>4
<1>9. /\ r.confl = 0 => Rooted(n, E, r.s) /\ r.s.ok
      /\ r.confl # 0 => Rooted(n, E, Checked(r)) /\ ~Checked(r).ok
  <2> HIDE DEF y, r
  <2>1. /\ Good(n, y) /\ y.lim = <<>> /\ y.ok
        /\ Sound(E, y.clause, y.trail) /\ Lossless(n, E, y.orig, y.clause, y.trail)
        /\ Looked(y.clause, y.trail, y.qhead, Len(y.lim)) /\ r = Propagated(y)
    BY <1>3, <1>5, <1>6, <1>7 DEF r
  <2>2. QED  BY <1>8, <2>1, RootPropagated
<1> HIDE DEF r
<1>10. CASE r.confl = 0
  <2> DEFINE v == r.s
  <2>1. Rooted(n, E, v) /\ v.ok
    BY <1>9, <1>10
  <2> HIDE DEF v
  <2>2. Form(v) /\ v.ok = TRUE
    BY <2>1 DEF Rooted, Good
  <2>3. u = [v EXCEPT !.ok = TRUE]
    BY <1>1, <1>10 DEF Checked, v
  <2>4. u = v
    BY ONLY <2>2, <2>3, CheckedHolds
  <2>5. QED  BY <2>1, <2>4
<1>11. CASE r.confl # 0
  BY <1>1, <1>9, <1>11
<1>12. QED  BY <1>10, <1>11

LEMMA AddSeveral ==
  ASSUME NEW n \in Nat, NEW F, NEW t, NEW lits, NEW E, Addition(n, F, t, lits, E),
         Len(lits) >= 2, NEW u, u = AddSorted(t, lits)
  PROVE  Rooted(n, E, u)
<1> DEFINE c == FreshRef(t)
           C == t.clause
           T == t.trail
           D == u.clause
           O == t.orig
           q == t.qhead
<1>1. Good(n, t) /\ t.lim = <<>> /\ t.ok = TRUE /\ Sound(F, C, T) /\ Through(t) /\ Lossless(n, F, O, C, T)
      /\ IsClause(n, lits)
  BY DEF Rooted, Addition
<1>2. ClausesOk(n, C) /\ TrailOk(n, T, t.lim, q) /\ O \subseteq DOMAIN C /\ t.orig \cup t.learnt = DOMAIN C
  BY <1>1 DEF Good
<1>3. Addable(n, C, c, lits)
  <2>1. c \in Nat \ {0} /\ c \notin DOMAIN C
    BY <1>2, FreshIs
  <2> HIDE DEF c, C
  <2>2. QED  BY <1>1, <1>2, <2>1 DEF Addable
<1> DEFINE kind == "read"
<1>4. Joined(t, c, lits, u, kind)
  <2>1. ~(Len(lits) = 0) /\ ~(Len(lits) = 1)
    <3>1. lits \in Seq(LitsOf(n)) /\ Len(lits) >= 2
      BY <1>1 DEF IsClause
    <3> DEFINE k == Len(lits)
    <3>2. k \in Nat /\ k >= 2
      BY ONLY <3>1
    <3> HIDE DEF k
    <3>3. k # 0 /\ k # 1
      BY ONLY <3>2
    <3>4. QED  BY ONLY <3>3 DEF k
  <2>2. u = [Attached(t, c, lits) EXCEPT !.orig = @ \cup {c}]
    BY <2>1 DEF AddSorted
  <2>3. QED  BY <2>2 DEF Joined
<1> HIDE DEF c, kind
<1>5. Good(n, u)
  BY ONLY n \in Nat, <1>1, <1>3, <1>4, JoinedGood DEF C
<1>6. JoinFrame(t, c, lits, u, kind)
  <2>1. Form(t)
    BY <1>1 DEF Good
  <2>2. QED  BY ONLY <1>4, <2>1, JoinedIs
<1>7. /\ D = Added(C, c, lits) /\ u.ok = t.ok /\ u.trail = T /\ u.lim = t.lim /\ u.qhead = q
      /\ u.orig = O \cup {c}
  BY <1>6 DEF JoinFrame, kind
<1>8. Extends(C, D, c, lits)
  <2>1. Adding(n, C, c, lits, D)
    BY <1>3, <1>7 DEF Adding
  <2> HIDE DEF C, D
  <2>2. ClausesOk(n, D) /\ Extends(C, D, c, lits)
    BY ONLY n \in Nat, <2>1, AddedIs
  <2>3. QED  BY <2>2
<1>9. E = { m \in F : Makers(m, lits) }
  BY DEF Addition
<1> HIDE DEF C, T, D, O, q
<1>10. /\ \A G, R : Sound(G, C, R) /\ (\A m \in G : Makers(m, lits)) => Sound(G, D, R)
       /\ \A k, G, H, P, R :
            /\ P \subseteq DOMAIN C /\ Lossless(k, G, P, C, R)
            /\ \A m \in G : Makers(m, lits) => m \in H
            => Lossless(k, H, P \cup {c}, D, R)
       /\ \A R, p, lev :
            /\ Looked(C, R, p, lev)
            /\ \A i \in 1 .. p : R[i].level <= lev /\ -R[i].lit \in {lits[1], lits[2]} =>
                 \E j \in 1 .. Len(R) : R[j].lit \in Range(lits) /\ R[j].level <= R[i].level
            => Looked(D, R, p, lev)
  BY ONLY <1>8, JoinedMeans
<1>11. Sound(E, D, T)
  <2>1. Sound(E, C, T) /\ \A m \in E : Makers(m, lits)
    BY <1>1, <1>9 DEF Sound
  <2>2. QED  BY ONLY <1>10, <2>1
<1>12. Lossless(n, E, O \cup {c}, D, T)
  <2>1. O \subseteq DOMAIN C /\ Lossless(n, F, O, C, T) /\ \A m \in F : Makers(m, lits) => m \in E
    BY <1>1, <1>2, <1>9
  <2>2. QED  BY ONLY <1>10, <2>1
<1>13. q = Len(T) /\ Looked(D, T, q, Len(t.lim))
  <2>1. q = Len(T) /\ Looked(C, T, q, Len(t.lim))
    BY <1>1 DEF Through, C, T, q
  <2>2. ASSUME NEW i \in 1 .. q PROVE -T[i].lit \notin {lits[1], lits[2]}
    <3>1. i \in 1 .. Len(T) /\ T[i].lit \in LitsOf(n)
      BY <1>2, <2>1, TrailIs
    <3>2. 1 \in 1 .. Len(lits) /\ 2 \in 1 .. Len(lits) /\ lits[1] \in LitsOf(n) /\ lits[2] \in LitsOf(n)
      BY <1>1 DEF IsClause
    <3>3. Free(T, lits[1]) /\ Free(T, lits[2])
      BY <3>2 DEF Addition, T
    <3>4. -(-T[i].lit) = T[i].lit
      BY <3>1, Literals
    <3>5. T[i].lit # -lits[1] /\ T[i].lit # -lits[2]
      BY <3>1, <3>3 DEF Free, OnTrail
    <3>6. QED  BY <3>4, <3>5
  <2> DEFINE lev == Len(t.lim)
  <2>3. Looked(C, T, q, lev) /\ \A i \in 1 .. q : -T[i].lit \notin {lits[1], lits[2]}
    BY <2>1, <2>2
  <2> HIDE DEF lev
  <2>4. Looked(D, T, q, lev)
    BY ONLY <1>10, <2>3
  <2>5. QED  BY <2>1, <2>4 DEF lev
<1>14. Through(u)
  BY <1>7, <1>13 DEF Through, D
<1>15. QED  BY <1>1, <1>5, <1>7, <1>11, <1>12, <1>14 DEF Rooted, D

LEMMA AddSortedIs ==
  ASSUME NEW n \in Nat, NEW F \in SUBSET Assignments(n), NEW t, NEW lits, NEW E, Addition(n, F, t, lits, E)
  PROVE  Rooted(n, E, AddSorted(t, lits))
<1>1. Len(lits) \in Nat
  BY DEF Addition, IsClause
<1>2. Len(lits) = 0 \/ Len(lits) = 1 \/ Len(lits) >= 2
  <2> DEFINE k == Len(lits)
  <2>1. k \in Nat
    BY <1>1
  <2> HIDE DEF k
  <2>2. k = 0 \/ k = 1 \/ k >= 2
    BY ONLY <2>1
  <2>3. QED  BY <2>2 DEF k
<1>3. QED  BY <1>2, AddNone, AddUnit, AddSeveral

(* addClause_.                                                             *)
LEMMA AddClauseIs ==
  ASSUME NEW n \in Nat, NEW F \in SUBSET Assignments(n), NEW t, Rooted(n, F, t),
         NEW raw \in Seq(LitsOf(n)), NEW E, E = { m \in F : Makers(m, raw) }
  PROVE  Rooted(n, E, AddClause(t, raw))
<1> DEFINE K == { l \in Range(raw) : ~IsFalse(t, l) }
           T == t.trail
<1>1. Good(n, t) /\ t.lim = <<>> /\ t.ok \in BOOLEAN /\ Sound(F, t.clause, T) /\ TrailOk(n, T, t.lim, t.qhead)
  BY DEF Rooted, Good
<1>2. CASE ~t.ok
  <2>1. F = {} /\ E = F
    BY <1>2 DEF Rooted
  <2>2. AddClause(t, raw) = t
    BY <1>2 DEF AddClause
  <2>3. QED  BY <2>1, <2>2
<1>3. CASE t.ok
  <2>1. AddClause(t, raw) = AddKept(t, K)
    BY <1>3 DEF AddClause
  <2>2. Range(raw) \subseteq LitsOf(n) /\ IsFiniteSet(Range(raw))
    <3>1. Range(raw) \subseteq LitsOf(n)
      BY DEF Range
    <3>2. IsFiniteSet(LitsOf(n))
      BY LitsFinite
    <3>3. QED  BY <3>1, <3>2, FS_Subset
  <2>3. /\ \A l : IsTrue(t, l) <=> OnTrail(T, l)
        /\ \A l : IsFalse(t, l) <=> OnTrail(T, -l)
    <3> DEFINE M == t.lim
               q == t.qhead
    <3>1. TrailOk(n, t.trail, M, q)
      BY <1>1
    <3> HIDE DEF M, q
    <3>2. /\ \A l : IsTrue(t, l) <=> OnTrail(t.trail, l)
          /\ \A l : IsFalse(t, l) <=> OnTrail(t.trail, -l)
      BY <3>1, TrueIs
    <3>3. QED  BY <3>2
  <2>4. \A l : OnTrail(T, l) => \A m \in F : Makes(m, l)
    <3>1. \A i \in 1 .. Len(T) : T[i].level = 0
      <4> DEFINE M == t.lim
                 q == t.qhead
      <4>1. n \in Nat /\ TrailOk(n, T, M, q) /\ M = <<>>
        BY <1>1
      <4> HIDE DEF M, q, T
      <4>2. QED  BY ONLY <4>1, RootIs
    <3>2. QED  BY <1>1, <3>1 DEF Sound, OnTrail
  <2>5. \A m \in Assignments(n) : \A l \in LitsOf(n) : Makes(m, -l) <=> ~Makes(m, l)
    BY Literals
  <2>6. CASE \E l \in K : IsTrue(t, l) \/ -l \in K
    <3>1. AddKept(t, K) = t
      BY <2>6 DEF AddKept
    <3>2. PICK l \in Range(raw) : OnTrail(T, l) \/ -l \in Range(raw)
      BY <2>3, <2>6
    <3>3. ASSUME NEW m \in F PROVE Makers(m, raw)
      <4>1. Makes(m, l) \/ (-l \in Range(raw) /\ Makes(m, -l))
        BY <2>2, <2>4, <2>5, <3>2
      <4>2. QED  BY <3>2, <4>1 DEF Makers
    <3>4. E = F
      BY <3>3
    <3>5. QED  BY <2>1, <3>1, <3>4
  <2>7. CASE ~(\E l \in K : IsTrue(t, l) \/ -l \in K)
    <3> DEFINE lits == InOrder(K)
    <3>1. AddKept(t, K) = AddSorted(t, lits)
      BY <2>7 DEF AddKept
    <3>2. K \in SUBSET LitsOf(n) /\ IsFiniteSet(K)
      <4>1. K \in SUBSET Range(raw)
        OBVIOUS
      <4> HIDE DEF K
      <4>2. QED  BY <2>2, <4>1, FS_Subset
    <3>3. lits \in Seq(LitsOf(n)) /\ Range(lits) = K /\ IsInjective(lits)
      <4> HIDE DEF K, lits
      <4>1. lits = InOrder(K)
        BY DEF lits
      <4>2. QED  BY <3>2, <4>1, InOrderIs
    <3> HIDE DEF lits
    <3>4. IsClause(n, lits)
      BY <2>7, <3>3 DEF IsClause
    <3>5. ASSUME NEW k \in 1 .. Len(lits) PROVE Free(T, lits[k])
      <4>1. lits[k] \in Range(lits)
        BY <3>3 DEF Range
      <4>2. lits[k] \in K
        BY <3>3, <4>1
      <4>3. ~IsTrue(t, lits[k]) /\ ~IsFalse(t, lits[k])
        BY <2>7, <4>2
      <4>4. QED  BY <2>3, <4>3 DEF Free
    <3>6. ASSUME NEW m \in F PROVE Makers(m, raw) <=> Makers(m, lits)
      <4>1. ASSUME NEW l \in Range(raw), Makes(m, l) PROVE l \in K
        <5>1. l \in LitsOf(n)
          BY <2>2
        <5>2. ~Makes(m, -l)
          BY <2>5, <4>1, <5>1
        <5>3. ~OnTrail(T, -l)
          BY <2>4, <5>2
        <5>4. QED  BY <2>3, <5>3
      <4>2. QED  BY <3>3, <4>1 DEF Makers
    <3>7. E = { m \in F : Makers(m, lits) }
      BY <3>6
    <3>8. Addition(n, F, t, lits, E)
      BY <1>1, <1>3, <3>4, <3>5, <3>7 DEF Addition
    <3>9. Rooted(n, E, AddSorted(t, lits))
      BY <3>8, AddSortedIs
    <3>10. QED  BY <2>1, <3>1, <3>9
  <2>8. QED  BY <2>6, <2>7
<1>4. QED  BY <1>2, <1>3

(* The values that the caller prefers.                                     *)
LEMMA PreferringIs ==
  ASSUME NEW n \in Nat, NEW F, NEW t, Rooted(n, F, t), NEW pol \in [1 .. n -> {-1, 0, 1}],
         NEW u, u = [t EXCEPT !.userPol = pol]
  PROVE  Rooted(n, F, u)
<1>1. Form(t)
  BY DEF Rooted, Good
<1>2. /\ Form(u) /\ u.ok = t.ok /\ u.clause = t.clause /\ u.orig = t.orig /\ u.learnt = t.learnt
      /\ u.watches = t.watches /\ u.trail = t.trail /\ u.lim = t.lim /\ u.qhead = t.qhead
      /\ u.heap = t.heap /\ u.polarity = t.polarity /\ u.userPol = pol
      /\ u.simpProps = t.simpProps
  BY ONLY <1>1, u = [t EXCEPT !.userPol = pol] DEF Form
<1>3. Good(n, t)
  BY DEF Rooted
<1>4. Good(n, u)
  BY ONLY <1>2, <1>3, pol \in [1 .. n -> {-1, 0, 1}] DEF Good
<1>5. Through(t) => Through(u)
  BY ONLY <1>2 DEF Through
<1>6. QED  BY <1>2, <1>4, <1>5 DEF Rooted

-----------------------------------------------------------------------------
(* reduceDB.                                                               *)
LEMMA ReducedIs ==
  ASSUME NEW n \in Nat, NEW t, Good(n, t), Through(t), NEW F, Sound(F, t.clause, t.trail),
         Lossless(n, F, t.orig, t.clause, t.trail), NEW A, AssumedOk(t.trail, t.lim, A),
         NEW u, u \in Reductions(t)
  PROVE  /\ Good(n, u) /\ Through(u) /\ Sound(F, u.clause, u.trail)
         /\ Lossless(n, F, u.orig, u.clause, u.trail) /\ AssumedOk(u.trail, u.lim, A)
         /\ u.ok = t.ok /\ u.lim = t.lim
<1> DEFINE C == t.clause
           T == t.trail
           O == t.orig
           q == t.qhead
           M == t.lim
<1>1. /\ TrailOk(n, T, M, q) /\ ReasonOk(C, T) /\ DecisionsOk(T, M) /\ ClausesOk(n, C)
      /\ O \cup t.learnt = DOMAIN C /\ O \cap t.learnt = {}
  BY DEF Good
<1>2. PICK p \in SUBSET t.learnt : u = Removed(t, { c \in p : ~Locked(t, c) })
  BY DEF Reductions
<1> DEFINE cs == { c \in p : ~Locked(t, c) }
<1>3. \A i \in 1 .. Len(T) : T[i].reason \notin cs
  <2>1. SUFFICES ASSUME NEW i \in 1 .. Len(T), T[i].reason \in cs PROVE FALSE
    OBVIOUS
  <2>2. T[i].reason # 0
    BY <1>1, <1>2, <2>1 DEF ClausesOk
  <2>3. C[T[i].reason][1] = T[i].lit
    BY <1>1, <2>2 DEF ReasonOk
  <2>4. DOMAIN T = 1 .. Len(T)
    BY <1>1, TrailIs
  <2>5. Locked(t, T[i].reason)
    BY <2>3, <2>4 DEF Locked
  <2>6. QED  BY <2>1, <2>5
<1>4. u = Removed(t, cs) /\ cs \cap O = {} /\ cs \subseteq DOMAIN C
  BY <1>1, <1>2
<1> HIDE DEF cs
<1>5. Removal(n, C, T, M, q, cs)
  BY <1>1, <1>3, <1>4 DEF Removal
<1>6. /\ Good(n, u) /\ RemoveFrame(t, cs, u)
      /\ Fewer(C, u.clause, cs) /\ Eased(n, T, u.trail, cs)
  <2>1. /\ Good(n, u) /\ RemoveFrame(t, cs, u)
        /\ Fewer(t.clause, u.clause, cs) /\ Eased(n, t.trail, u.trail, cs)
    BY <1>4, <1>5, RemovedIs
  <2>2. QED  BY <2>1
<1>7. u.ok = t.ok /\ u.lim = M /\ u.qhead = q /\ u.orig = O \ cs
  BY <1>6 DEF RemoveFrame
<1> DEFINE D == u.clause
           U == u.trail
           lev == Len(M)
<1>8. /\ Sound(F, C, T) /\ Lossless(n, F, O, C, T) /\ AssumedOk(T, M, A)
      /\ Looked(C, T, q, lev) /\ q = Len(T) /\ O \subseteq DOMAIN C /\ q \in 0 .. Len(T)
  BY <1>1 DEF Through, TrailOk
<1>9. Fewer(C, D, cs) /\ Eased(n, T, U, cs)
  BY <1>6
<1> HIDE DEF C, T, O, q, D, U, lev, M
<1>10. /\ \A E : Sound(E, C, T) => Sound(E, D, U)
       /\ \A p_1 \in 0 .. Len(T) : \A l : Looked(C, T, p_1, l) => Looked(D, U, p_1, l)
       /\ \A N, B : AssumedOk(T, N, B) /\ (\A i \in 1 .. Len(T) : T[i].reason \in cs => T[i].level = 0) => AssumedOk(U, N, B)
       /\ \A m, E, P :
            /\ P \subseteq DOMAIN C /\ Lossless(m, E, P, C, T)
            /\ \A c \in P \cap cs : \E i \in 1 .. Len(T) : T[i].level = 0 /\ T[i].lit \in Range(C[c])
            => Lossless(m, E, P \ cs, D, U)
  BY ONLY <1>9, EasedMeans
<1>11. Sound(F, D, U) /\ Looked(D, U, q, lev)
  BY ONLY <1>8, <1>10
<1>12. AssumedOk(U, M, A)
  BY ONLY <1>3, <1>8, <1>10
<1>13. Lossless(n, F, O \ cs, D, U)
  <2>1. \A c \in O \cap cs : \E i \in 1 .. Len(T) : T[i].level = 0 /\ T[i].lit \in Range(C[c])
    BY <1>4
  <2>2. QED  BY ONLY <1>8, <1>10, <2>1
<1>14. Through(u)
  BY ONLY <1>7, <1>8, <1>9, <1>11 DEF Through, Eased, D, U, lev
<1>15. QED  BY <1>6, <1>7, <1>11, <1>12, <1>13, <1>14 DEF D, U, M

-----------------------------------------------------------------------------
(* analyze.  The trail entry of a variable, by its place.                  *)
LEMMA EntryIs ==
  ASSUME NEW n \in Nat, NEW t, NEW M, NEW q, TrailOk(n, t.trail, M, q), NEW i \in 1 .. Len(t.trail)
  PROVE  /\ \A v : v = Var(t.trail[i].lit) => Entry(t, v) = t.trail[i]
         /\ \A l \in LitsOf(n) : t.trail[i].lit = -l =>
              Var(l) = Var(t.trail[i].lit) /\ Entry(t, Var(l)) = t.trail[i] /\ LevelOf(t, l) = t.trail[i].level
<1> DEFINE T == t.trail
<1>1. DOMAIN T = 1 .. Len(T) /\ \A x, y \in 1 .. Len(T) : Var(T[x].lit) = Var(T[y].lit) => x = y
  BY DEF TrailOk
<1>2. ASSUME NEW v, v = Var(T[i].lit) PROVE Entry(t, v) = T[i]
  <2>1. \A x \in DOMAIN T : Var(T[x].lit) = v <=> x = i
    BY <1>1, <1>2
  <2>2. (CHOOSE x \in DOMAIN T : Var(T[x].lit) = v) = i
    BY <1>1, <2>1
  <2>3. QED  BY <2>2 DEF Entry
<1>3. ASSUME NEW l \in LitsOf(n), T[i].lit = -l
      PROVE  Var(l) = Var(T[i].lit) /\ Entry(t, Var(l)) = T[i] /\ LevelOf(t, l) = T[i].level
  <2>1. Var(-l) = Var(l)
    BY Literals
  <2>2. Var(l) = Var(T[i].lit)
    BY <1>3, <2>1
  <2>3. QED  BY <1>2, <2>2 DEF LevelOf
<1>4. QED  BY <1>2, <1>3

(* What is found so far: the literals of the level d that are seen have    *)
(* places up to j, and path counts them; the others that are seen are in   *)
(* lits.                                                                   *)
Marks(T, d, seen) == { i \in 1 .. Len(T) : T[i].level = d /\ Var(T[i].lit) \in seen }

Findings(n) == [seen : SUBSET (1 .. n), path : Nat, lits : Seq(LitsOf(n)), uip : Int]

Seen(n, T, d, j, seen) ==
  /\ seen \in SUBSET (1 .. n)
  /\ \A v \in seen : \E i \in 1 .. Len(T) : Var(T[i].lit) = v /\ T[i].level > 0 /\ (T[i].level = d => i <= j)

Collected(n, T, d, seen, lits) ==
  /\ lits \in Seq(LitsOf(n)) /\ IsInjective(lits)
  /\ \A l \in Range(lits) : \E i \in 1 .. Len(T) :
       T[i].lit = -l /\ T[i].level > 0 /\ T[i].level # d /\ Var(T[i].lit) \in seen
  /\ \A i \in 1 .. Len(T) : T[i].level # d /\ Var(T[i].lit) \in seen => -T[i].lit \in Range(lits)

Found(n, T, d, j, r) ==
  /\ r \in Findings(n)
  /\ Seen(n, T, d, j, r.seen)
  /\ r.path = Cardinality(Marks(T, d, r.seen))
  /\ Collected(n, T, d, r.seen, r.lits)

(* The negations of the literals seen follow from F, or one of rest.       *)
Implied(F, T, seen, rest) ==
  \A m \in F : \/ \E i \in 1 .. Len(T) : Var(T[i].lit) \in seen /\ Makes(m, -T[i].lit)
               \/ \E l \in rest : Makes(m, l)

Analysis(n, F, t, C, T, d) ==
  /\ n \in Nat /\ F \in SUBSET Assignments(n)
  /\ C = t.clause /\ T = t.trail /\ d = Len(t.lim) /\ d > 0
  /\ ClausesOk(n, C) /\ TrailOk(n, T, t.lim, t.qhead)
  /\ ReasonOk(C, T) /\ DecisionsOk(T, t.lim) /\ Sound(F, C, T)

LEMMA MarksFinite ==
  ASSUME NEW T, Len(T) \in Nat, NEW d, NEW seen
  PROVE  IsFiniteSet(Marks(T, d, seen)) /\ Cardinality(Marks(T, d, seen)) \in Nat
<1> DEFINE k == Len(T)
<1>1. k \in Int /\ 1 \in Int
  OBVIOUS
<1>2. Marks(T, d, seen) \in SUBSET (1 .. k)
  BY DEF Marks
<1> HIDE DEF k
<1>3. IsFiniteSet(1 .. k)
  BY <1>1, FS_Interval
<1>4. IsFiniteSet(Marks(T, d, seen))
  BY <1>2, <1>3, FS_Subset
<1>5. QED  BY <1>4, FS_CardinalityType

(* One literal of a clause.                                                *)
Absorbing(n, F, t, C, T, d, j, r, l, i, x) ==
  /\ Analysis(n, F, t, C, T, d) /\ j \in 0 .. Len(T) /\ Found(n, T, d, j, r)
  /\ l \in LitsOf(n) /\ i \in 1 .. j /\ T[i].lit = -l
  /\ x = AbsorbOne(t, r, l)

Grew(r, x) == r.seen \subseteq x.seen /\ r.path <= x.path /\ x.uip = r.uip

LEMMA AbsorbOneIs ==
  ASSUME NEW n, NEW F, NEW t, NEW C, NEW T, NEW d, NEW j, NEW r, NEW l, NEW i, NEW x,
         Absorbing(n, F, t, C, T, d, j, r, l, i, x)
  PROVE  /\ Found(n, T, d, j, x) /\ Grew(r, x)
         /\ T[i].level = 0 \/ Var(l) \in x.seen
<1>1. /\ n \in Nat /\ T = t.trail /\ d = Len(t.lim) /\ d > 0 /\ TrailOk(n, T, t.lim, t.qhead)
      /\ j \in 0 .. Len(T) /\ l \in LitsOf(n) /\ i \in 1 .. j /\ T[i].lit = -l /\ x = AbsorbOne(t, r, l)
  BY DEF Absorbing, Analysis
<1>2. /\ Len(T) \in Nat /\ i \in 1 .. Len(T) /\ d \in Nat /\ T[i].level \in 0 .. d
      /\ \A k \in 1 .. Len(T) : T[k].lit \in LitsOf(n) /\ T[k].level \in 0 .. d
  <2>1. /\ Len(T) \in Nat /\ d \in Nat
        /\ \A k \in 1 .. Len(T) : T[k].lit \in LitsOf(n) /\ T[k].level \in 0 .. d
    BY <1>1, TrailIs
  <2>2. i \in 1 .. Len(T)
    BY ONLY <1>1, <2>1
  <2>3. QED  BY <2>1, <2>2
<1>3. LevelOf(t, l) = T[i].level /\ Var(l) = Var(T[i].lit)
  <2> DEFINE M == t.lim
             q == t.qhead
  <2>1. TrailOk(n, t.trail, M, q) /\ i \in 1 .. Len(t.trail)
    BY <1>1, <1>2
  <2> HIDE DEF M, q
  <2>2. QED  BY <1>1, <2>1, EntryIs
<1>4. Var(l) \in 1 .. n
  BY <1>1, Literals
<1>5. decisionLevel(t) = d
  BY <1>1 DEF decisionLevel
<1>6. /\ r \in Findings(n) /\ Seen(n, T, d, j, r.seen)
      /\ r.path = Cardinality(Marks(T, d, r.seen)) /\ Collected(n, T, d, r.seen, r.lits)
  BY DEF Absorbing, Found
<1>7. CASE Var(l) \in r.seen \/ T[i].level = 0
  <2>1. x = r
    <3>1. T[i].level = 0 => ~(T[i].level >= d)
      BY <1>1, <1>2
    <3>2. QED  BY <1>1, <1>3, <1>5, <1>7, <3>1 DEF AbsorbOne
  <2>2. r.path \in Nat
    BY <1>6 DEF Findings
  <2>3. QED  BY <1>7, <2>1, <2>2 DEF Grew, Absorbing
<1> DEFINE v == Var(l)
           S == r.seen \cup {v}
<1>8. ASSUME v \notin r.seen, T[i].level # 0 PROVE Seen(n, T, d, j, S)
  <2>1. /\ r.seen \in SUBSET (1 .. n)
        /\ \A w \in r.seen : \E k \in 1 .. Len(T) : Var(T[k].lit) = w /\ T[k].level > 0 /\ (T[k].level = d => k <= j)
    BY <1>6 DEF Seen
  <2>2. S \in SUBSET (1 .. n)
    BY <1>4, <2>1
  <2>3. i <= j /\ T[i].level > 0 /\ Var(T[i].lit) = v
    BY <1>1, <1>2, <1>3, <1>8
  <2>4. \A w \in S : \E k \in 1 .. Len(T) : Var(T[k].lit) = w /\ T[k].level > 0 /\ (T[k].level = d => k <= j)
    BY <1>2, <2>1, <2>3
  <2>5. QED  BY <2>2, <2>4 DEF Seen
<1>9. \A k \in 1 .. Len(T) : Var(T[k].lit) = v <=> k = i
  BY <1>1, <1>2, <1>3 DEF TrailOk
<1>10. CASE v \notin r.seen /\ T[i].level = d /\ T[i].level # 0
  <2>1. x = [r EXCEPT !.seen = S, !.path = @ + 1]
    <3>1. T[i].level >= d
      BY <1>2, <1>10
    <3>2. LevelOf(t, l) >= decisionLevel(t) /\ LevelOf(t, l) # 0
      BY ONLY <1>3, <1>5, <1>10, <3>1
    <3>3. QED  BY ONLY <1>10, <1>1, <3>2 DEF AbsorbOne
  <2>2. x \in Findings(n) /\ x.seen = S /\ x.path = r.path + 1 /\ x.lits = r.lits /\ x.uip = r.uip /\ r.path \in Nat
    <3>1. S \in SUBSET (1 .. n)
      BY <1>8, <1>10 DEF Seen
    <3> DEFINE p == r.path + 1
    <3>2. r \in Findings(n) /\ p \in Nat /\ x = [r EXCEPT !.seen = S, !.path = p]
      BY <1>6, <2>1 DEF Findings
    <3>3. r.path \in Nat
      BY <3>2 DEF Findings
    <3> HIDE DEF S, p
    <3>4. x \in Findings(n) /\ x.seen = S /\ x.path = p /\ x.lits = r.lits /\ x.uip = r.uip
      BY ONLY <3>1, <3>2 DEF Findings
    <3>5. QED  BY <3>3, <3>4 DEF p
  <2>3. Marks(T, d, S) = Marks(T, d, r.seen) \cup {i} /\ i \notin Marks(T, d, r.seen)
    <3>1. i \notin Marks(T, d, r.seen)
      BY <1>3, <1>10 DEF Marks
    <3>2. ASSUME NEW k \in 1 .. Len(T) PROVE k \in Marks(T, d, S) <=> k \in Marks(T, d, r.seen) \/ k = i
      BY <1>9, <1>10 DEF Marks
    <3>3. \A k : k \in Marks(T, d, S) \/ k \in Marks(T, d, r.seen) => k \in 1 .. Len(T)
      BY DEF Marks
    <3>4. QED  BY <1>2, <3>1, <3>2, <3>3
  <2>4. x.path = Cardinality(Marks(T, d, S))
    <3> DEFINE A == Marks(T, d, r.seen)
    <3>1. IsFiniteSet(A) /\ i \notin A /\ Marks(T, d, S) = A \cup {i} /\ r.path = Cardinality(A)
      BY <1>2, <1>6, <2>3, MarksFinite
    <3> HIDE DEF A
    <3>2. Cardinality(A \cup {i}) = Cardinality(A) + 1
      BY <3>1, FS_AddElement
    <3>3. QED  BY ONLY <2>2, <3>1, <3>2
  <2>5. Collected(n, T, d, S, r.lits)
    <3>1. /\ r.lits \in Seq(LitsOf(n)) /\ IsInjective(r.lits)
          /\ \A k \in Range(r.lits) : \E y \in 1 .. Len(T) :
               T[y].lit = -k /\ T[y].level > 0 /\ T[y].level # d /\ Var(T[y].lit) \in r.seen
          /\ \A y \in 1 .. Len(T) : T[y].level # d /\ Var(T[y].lit) \in r.seen => -T[y].lit \in Range(r.lits)
      BY <1>6 DEF Collected
    <3>2. \A k \in Range(r.lits) : \E y \in 1 .. Len(T) :
               T[y].lit = -k /\ T[y].level > 0 /\ T[y].level # d /\ Var(T[y].lit) \in S
      BY <3>1
    <3>3. \A y \in 1 .. Len(T) : T[y].level # d /\ Var(T[y].lit) \in S => -T[y].lit \in Range(r.lits)
      BY <1>9, <1>10, <3>1
    <3>4. QED  BY <3>1, <3>2, <3>3 DEF Collected
  <2> HIDE DEF S
  <2>6. Found(n, T, d, j, x)
    BY <1>8, <1>10, <2>2, <2>4, <2>5 DEF Found
  <2>7. QED  BY <2>2, <2>6 DEF Grew, S
<1>11. CASE v \notin r.seen /\ T[i].level # d /\ T[i].level # 0
  <2> DEFINE L == Append(r.lits, l)
  <2>1. x = [r EXCEPT !.seen = S, !.lits = L]
    <3>1. ~(T[i].level >= d)
      BY <1>2, <1>11
    <3>2. QED  BY <1>1, <1>3, <1>5, <1>11, <3>1 DEF AbsorbOne
  <2>2. /\ r.lits \in Seq(LitsOf(n)) /\ IsInjective(r.lits)
        /\ \A k \in Range(r.lits) : \E y \in 1 .. Len(T) :
             T[y].lit = -k /\ T[y].level > 0 /\ T[y].level # d /\ Var(T[y].lit) \in r.seen
        /\ \A y \in 1 .. Len(T) : T[y].level # d /\ Var(T[y].lit) \in r.seen => -T[y].lit \in Range(r.lits)
    BY <1>6 DEF Collected
  <2>3. l \notin Range(r.lits)
    <3>1. SUFFICES ASSUME l \in Range(r.lits) PROVE FALSE
      OBVIOUS
    <3>2. PICK y \in 1 .. Len(T) : T[y].lit = -l /\ Var(T[y].lit) \in r.seen
      BY <2>2, <3>1
    <3>3. Var(-l) = Var(l)
      BY <1>1, Literals
    <3>4. QED  BY <1>11, <3>2, <3>3
  <2>4. L \in Seq(LitsOf(n)) /\ Range(L) = Range(r.lits) \cup {l} /\ IsInjective(L)
    <3> DEFINE K == r.lits
    <3>1. K \in Seq(LitsOf(n)) /\ l \in LitsOf(n) /\ IsInjective(K) /\ l \notin Range(K)
      BY <1>1, <2>2, <2>3
    <3> HIDE DEF K
    <3>2. Append(K, l) \in Seq(LitsOf(n)) /\ Range(Append(K, l)) = Range(K) \cup {l} /\ IsInjective(Append(K, l))
      BY ONLY <3>1, ListAppend
    <3>3. QED  BY <3>2 DEF K
  <2> HIDE DEF L
  <2>5. x \in Findings(n) /\ x.seen = S /\ x.path = r.path /\ x.lits = L /\ x.uip = r.uip /\ r.path \in Nat
    <3>1. S \in SUBSET (1 .. n)
      BY <1>8, <1>11 DEF Seen
    <3> HIDE DEF S
    <3>2. QED  BY <1>6, <2>1, <2>4, <3>1 DEF Findings
  <2>6. Marks(T, d, S) = Marks(T, d, r.seen)
    BY <1>9, <1>11 DEF Marks
  <2>7. Collected(n, T, d, S, L)
    <3>1. \A k \in Range(L) : \E y \in 1 .. Len(T) :
               T[y].lit = -k /\ T[y].level > 0 /\ T[y].level # d /\ Var(T[y].lit) \in S
      <4>1. T[i].lit = -l /\ T[i].level > 0 /\ T[i].level # d /\ Var(T[i].lit) \in S
        BY <1>1, <1>2, <1>3, <1>11
      <4>2. QED  BY <1>2, <2>2, <2>4, <4>1
    <3>2. \A y \in 1 .. Len(T) : T[y].level # d /\ Var(T[y].lit) \in S => -T[y].lit \in Range(L)
      <4>1. -T[i].lit = l
        BY <1>1, Literals
      <4>2. QED  BY <1>9, <2>2, <2>4, <4>1
    <3>3. QED  BY <2>4, <3>1, <3>2 DEF Collected
  <2> HIDE DEF S
  <2>8. Found(n, T, d, j, x)
    BY <1>6, <1>8, <1>11, <2>5, <2>6, <2>7 DEF Found
  <2>9. QED  BY <2>5, <2>8 DEF Grew, S
<1>12. QED  BY <1>7, <1>10, <1>11

(* The literals of a clause, k of them absorbed.                           *)
Clausal(n, F, t, C, T, d, j, r, lits) ==
  /\ Analysis(n, F, t, C, T, d) /\ j \in 0 .. Len(T) /\ Found(n, T, d, j, r)
  /\ lits \in Seq(LitsOf(n)) /\ \A z \in 1 .. Len(lits) : \E i \in 1 .. j : T[i].lit = -lits[z]
  /\ Implied(F, T, r.seen, Range(lits))

Absorbed(n, F, T, d, j, r, lits, x, k) ==
  /\ Found(n, T, d, j, x) /\ Grew(r, x)
  /\ Implied(F, T, x.seen, Rest(lits, k))
  /\ \A z \in 1 .. k : \A i \in 1 .. Len(T) :
       T[i].lit = -lits[z] => T[i].level = 0 \/ Var(T[i].lit) \in x.seen

LEMMA AbsorbedStep ==
  ASSUME NEW n, NEW F, NEW t, NEW C, NEW T, NEW d, NEW j, NEW r, NEW lits,
         Clausal(n, F, t, C, T, d, j, r, lits),
         NEW k \in 1 .. Len(lits), NEW x, Absorbed(n, F, T, d, j, r, lits, x, k - 1),
         NEW y, y = AbsorbOne(t, x, lits[k])
  PROVE  Absorbed(n, F, T, d, j, r, lits, y, k)
<1>1. /\ Analysis(n, F, t, C, T, d) /\ j \in 0 .. Len(T)
      /\ lits \in Seq(LitsOf(n)) /\ \A z \in 1 .. Len(lits) : \E i \in 1 .. j : T[i].lit = -lits[z]
  BY DEF Clausal
<1>2. /\ n \in Nat /\ F \in SUBSET Assignments(n) /\ TrailOk(n, T, t.lim, t.qhead) /\ Sound(F, C, T) /\ Len(T) \in Nat
  BY <1>1 DEF Analysis, TrailOk
<1> DEFINE l == lits[k]
<1>3. PICK i \in 1 .. j : T[i].lit = -l
  BY <1>1
<1>4. l \in LitsOf(n) /\ i \in 1 .. Len(T) /\ Len(lits) \in Nat
  <2>1. Len(lits) \in Nat /\ l \in LitsOf(n)
    BY <1>1
  <2>2. i \in 1 .. Len(T)
    BY ONLY <1>1, <1>2, <1>3
  <2>3. QED  BY <2>1, <2>2
<1>5. /\ Found(n, T, d, j, x) /\ Grew(r, x)
      /\ Implied(F, T, x.seen, Rest(lits, k - 1))
      /\ \A z \in 1 .. k - 1 : \A a \in 1 .. Len(T) :
           T[a].lit = -lits[z] => T[a].level = 0 \/ Var(T[a].lit) \in x.seen
  BY DEF Absorbed
<1>6. Absorbing(n, F, t, C, T, d, j, x, l, i, y)
  BY <1>1, <1>3, <1>4, <1>5 DEF Absorbing
<1> HIDE DEF l
<1>7. Found(n, T, d, j, y) /\ Grew(x, y) /\ (T[i].level = 0 \/ Var(l) \in y.seen)
  BY ONLY <1>6, AbsorbOneIs
<1>8. Grew(r, y)
  <2>1. r.path \in Nat /\ x.path \in Nat /\ y.path \in Nat
    BY <1>5, <1>7 DEF Clausal, Found, Findings
  <2>2. QED  BY <1>5, <1>7, <2>1 DEF Grew
<1>9. Implied(F, T, y.seen, Rest(lits, k))
  <2>1. SUFFICES ASSUME NEW m \in F
                 PROVE  \/ \E a \in 1 .. Len(T) : Var(T[a].lit) \in y.seen /\ Makes(m, -T[a].lit)
                        \/ \E h \in Rest(lits, k) : Makes(m, h)
    BY DEF Implied
  <2>2. CASE \E a \in 1 .. Len(T) : Var(T[a].lit) \in x.seen /\ Makes(m, -T[a].lit)
    BY <1>7, <2>2 DEF Grew
  <2>3. CASE \E h \in Rest(lits, k - 1) : Makes(m, h)
    <3>1. PICK a \in k - 1 + 1 .. Len(lits) : Makes(m, lits[a])
      BY <2>3 DEF Rest
    <3>2. CASE a = k
      <4>1. Makes(m, l)
        BY <3>1, <3>2 DEF l
      <4>2. T[i].level # 0
        <5>1. SUFFICES ASSUME T[i].level = 0 PROVE FALSE
          OBVIOUS
        <5>2. Makes(m, -l)
          BY <1>2, <1>3, <1>4, <5>1 DEF Sound
        <5>3. QED  BY <1>2, <1>4, <4>1, <5>2, Literals
      <4>3. Var(-l) = Var(l) /\ -(-l) = l
        BY <1>2, <1>4, Literals
      <4>4. Var(T[i].lit) \in y.seen /\ Makes(m, -T[i].lit)
        BY <1>3, <1>7, <4>1, <4>2, <4>3
      <4>5. QED  BY <1>4, <4>4
    <3>3. CASE a # k
      <4>1. a \in k + 1 .. Len(lits)
        BY <1>4, <3>1, <3>3
      <4>2. QED  BY <3>1, <4>1 DEF Rest
    <3>4. QED  BY <3>2, <3>3
  <2>4. QED  BY <1>5, <2>2, <2>3 DEF Implied
<1>10. \A z \in 1 .. k : \A a \in 1 .. Len(T) :
         T[a].lit = -lits[z] => T[a].level = 0 \/ Var(T[a].lit) \in y.seen
  <2>1. SUFFICES ASSUME NEW z \in 1 .. k, NEW a \in 1 .. Len(T), T[a].lit = -lits[z]
                 PROVE  T[a].level = 0 \/ Var(T[a].lit) \in y.seen
    OBVIOUS
  <2>2. CASE z = k
    <3>1. T[a].lit = T[i].lit
      BY <1>3, <2>1, <2>2 DEF l
    <3>2. a = i
      BY <1>2, <1>4, <3>1 DEF TrailOk
    <3>3. Var(-l) = Var(l)
      BY <1>2, <1>4, Literals
    <3>4. QED  BY <1>3, <1>7, <3>2, <3>3
  <2>3. CASE z # k
    <3>1. z \in 1 .. k - 1
      BY <1>4, <2>3
    <3>2. QED  BY <1>5, <1>7, <2>1, <3>1 DEF Grew
  <2>4. QED  BY <2>2, <2>3
<1>11. QED  BY <1>7, <1>8, <1>9, <1>10 DEF Absorbed

LEMMA AbsorbIs ==
  ASSUME NEW n, NEW F, NEW t, NEW C, NEW T, NEW d, NEW j, NEW r, NEW lits,
         Clausal(n, F, t, C, T, d, j, r, lits)
  PROVE  Absorbed(n, F, T, d, j, r, lits, Absorb(t, r, lits), Len(lits))
<1> DEFINE m == Len(lits)
           Turn(k, x) == AbsorbOne(t, x, lits[k])
           X == [k \in 0 .. m |-> { x \in Findings(n) : Absorbed(n, F, T, d, j, r, lits, x, k) }]
           turn == [k \in 1 .. m |-> [x \in X[k - 1] |-> Turn(k, x)]]
           Is(g) == g = [k \in 0 .. m |-> IF k = 0 THEN r ELSE Turn(k, g[k - 1])]
           run == CHOOSE g : Is(g)
<1>50. Absorb(t, r, lits) = run[m]
  BY DEF Loop, Absorb
<1>60. m \in Nat
  BY DEF Clausal
<1>40. r \in Findings(n) /\ Absorbed(n, F, T, d, j, r, lits, r, 0)
  <2>1. Rest(lits, 0) = Range(lits)
    BY DEF Rest, Range, Clausal
  <2>2. r \in Findings(n) /\ Found(n, T, d, j, r) /\ Implied(F, T, r.seen, Range(lits))
    BY DEF Clausal, Found
  <2>3. Grew(r, r)
    BY <2>2 DEF Grew, Findings
  <2>4. \A z \in 1 .. 0 : FALSE
    OBVIOUS
  <2>5. QED  BY <2>1, <2>2, <2>3, <2>4 DEF Absorbed
<1>41. ASSUME NEW k \in 1 .. m, NEW x \in Findings(n), Absorbed(n, F, T, d, j, r, lits, x, k - 1)
       PROVE  Turn(k, x) \in Findings(n) /\ Absorbed(n, F, T, d, j, r, lits, Turn(k, x), k)
  <2> DEFINE y == Turn(k, x)
  <2>1. y = AbsorbOne(t, x, lits[k]) /\ k \in 1 .. Len(lits)
    OBVIOUS
  <2> HIDE DEF y, m, Turn
  <2>2. Absorbed(n, F, T, d, j, r, lits, y, k)
    BY <1>41, <2>1, AbsorbedStep
  <2>3. y \in Findings(n)
    BY <2>2 DEF Absorbed, Found
  <2>4. QED  BY <2>2, <2>3 DEF y
<1>61. m \in Nat
  BY <1>60
<1>62. \A k \in 0 .. m : \A x : x \in X[k] <=> x \in Findings(n) /\ Absorbed(n, F, T, d, j, r, lits, x, k)
  OBVIOUS
<1> HIDE DEF X
<1>63. r \in X[0]
  <2>1. 0 \in 0 .. m
    BY <1>61
  <2>2. QED  BY <1>40, <1>62, <2>1
<1>64. ASSUME NEW k \in 1 .. m, NEW x \in X[k - 1] PROVE Turn(k, x) \in X[k]
  <2>1. k - 1 \in 0 .. m /\ k \in 0 .. m
    BY <1>61
  <2>2. x \in Findings(n) /\ Absorbed(n, F, T, d, j, r, lits, x, (k - 1))
    BY <1>62, <2>1
  <2>3. Turn(k, x) \in Findings(n) /\ Absorbed(n, F, T, d, j, r, lits, Turn(k, x), k)
    BY <1>41, <2>2
  <2> HIDE DEF Turn
  <2>4. QED  BY <1>62, <2>1, <2>3
<1>65. \A k \in 1 .. m : \A x \in X[k - 1] : turn[k][x] \in X[k] /\ turn[k][x] = Turn(k, x)
  BY <1>64
<1> HIDE DEF turn, Is, Turn, m
<1>66. PICK g : Turns(g, m, r, turn) /\ \A k \in 0 .. m : g[k] \in X[k]
  <2>1. \A k \in 1 .. m : \A x \in X[k - 1] : turn[k][x] \in X[k]
    BY <1>65
  <2>2. QED  BY <1>61, <1>63, <2>1, Stepwise
<1>67. Is(g)
  <2>1. \A k \in 1 .. m : k - 1 \in 0 .. m /\ k \in 0 .. m /\ k # 0
    BY <1>61
  <2>2. \A k \in 1 .. m : g[k] = Turn(k, g[k - 1])
    BY <1>65, <1>66, <2>1 DEF Turns
  <2>3. DOMAIN g = 0 .. m /\ g = [k \in DOMAIN g |-> g[k]]
    BY <1>66 DEF Turns
  <2>4. g[0] = r /\ \A k \in 0 .. m : k # 0 => k \in 1 .. m
    BY <1>61, <1>66 DEF Turns
  <2>5. QED  BY <2>2, <2>3, <2>4 DEF Is
<1>68. Is(run)
  BY <1>67
<1> HIDE DEF run
<1>69. run[m] \in X[m]
  <2>1. run[0] \in X[0]
    BY <1>61, <1>63, <1>68 DEF Is
  <2>2. ASSUME NEW k \in 1 .. m, run[k - 1] \in X[k - 1] PROVE run[k] \in X[k]
    <3>1. k \in 0 .. m /\ k # 0
      BY <1>61
    <3>2. run[k] = Turn(k, run[k - 1])
      BY <1>68, <3>1 DEF Is
    <3>3. QED  BY <1>65, <2>2, <3>2
  <2>3. QED  BY <1>61, <2>1, <2>2, RunStays
<1>70. run[m] \in Findings(n) /\ Absorbed(n, F, T, d, j, r, lits, run[m], m)
  <2>1. m \in 0 .. m
    BY <1>61
  <2>2. QED  BY <1>62, <1>69, <2>1
<1>71. QED  BY <1>50, <1>70 DEF m

(* Going back along the trail, from the place j.                           *)
Derived(n, F, T, d, r) ==
  /\ \E i \in 1 .. Len(T) : T[i].level = d /\ r.uip = -T[i].lit
  /\ r.lits \in Seq(LitsOf(n)) /\ IsInjective(r.lits)
  /\ \A l \in Range(r.lits) : \E i \in 1 .. Len(T) : T[i].lit = -l /\ T[i].level > 0 /\ T[i].level # d
  /\ \A m \in F : Makes(m, r.uip) \/ \E l \in Range(r.lits) : Makes(m, l)

Resolving(n, F, T, d, j, r) ==
  /\ r \in Findings(n)
  /\ r.uip = 0 => Found(n, T, d, j, r) /\ Implied(F, T, r.seen, {}) /\ r.path >= 1
  /\ r.uip # 0 => Derived(n, F, T, d, r)

(* The marked places.                                                      *)
LEMMA MarksAre ==
  ASSUME NEW n, NEW F, NEW t, NEW C, NEW T, NEW d, Analysis(n, F, t, C, T, d),
         NEW j, NEW r, Found(n, T, d, j, r), r.path >= 1
  PROVE  /\ \E i \in Marks(T, d, r.seen) : TRUE
         /\ \A i \in Marks(T, d, r.seen) : i \in 1 .. Len(T) /\ i <= j /\ i > t.lim[d]
<1>1. /\ TrailOk(n, T, t.lim, t.qhead) /\ Len(T) \in Nat /\ d = Len(t.lim) /\ d > 0
  BY DEF Analysis, TrailOk
<1>2. /\ Seen(n, T, d, j, r.seen) /\ r.path = Cardinality(Marks(T, d, r.seen))
  BY DEF Found
<1>3. \E i \in Marks(T, d, r.seen) : TRUE
  <2>1. Cardinality({}) = 0
    BY FS_EmptySet
  <2>2. Marks(T, d, r.seen) # {}
    BY <1>2, <2>1
  <2>3. QED  BY <2>2
<1>4. ASSUME NEW i \in Marks(T, d, r.seen) PROVE i \in 1 .. Len(T) /\ i <= j /\ i > t.lim[d]
  <2>1. i \in 1 .. Len(T) /\ T[i].level = d /\ Var(T[i].lit) \in r.seen
    BY DEF Marks
  <2>2. PICK a \in 1 .. Len(T) : Var(T[a].lit) = Var(T[i].lit) /\ (T[a].level = d => a <= j)
    BY <1>2, <2>1 DEF Seen
  <2>3. a = i
    BY <1>1, <2>1, <2>2 DEF TrailOk
  <2>4. d \in 1 .. Len(t.lim) /\ d \in Nat
    <3>1. d \in Nat
      BY <1>1, TrailIs
    <3>2. QED  BY <1>1, <3>1
  <2>5. \A k \in 1 .. Len(t.lim) : T[i].level >= k <=> i > t.lim[k]
    BY <1>1, <2>1 DEF TrailOk
  <2>6. T[i].level >= d
    BY <2>1, <2>4
  <2>7. i > t.lim[d]
    BY <2>4, <2>5, <2>6
  <2>8. QED  BY <2>1, <2>2, <2>3, <2>7
<1>5. QED  BY <1>3, <1>4

(* A seen entry of the current level gives way to its reason.              *)
Replacing(n, F, t, C, T, d, j, r) ==
  /\ Analysis(n, F, t, C, T, d) /\ j \in 1 .. Len(T)
  /\ Found(n, T, d, j, r) /\ Implied(F, T, r.seen, {}) /\ r.path >= 1
  /\ r.uip = 0 /\ Var(T[j].lit) \in r.seen

LEMMA TopIsMarked ==
  ASSUME NEW n, NEW F, NEW t, NEW C, NEW T, NEW d, NEW j, NEW r, Replacing(n, F, t, C, T, d, j, r)
  PROVE  /\ T[j].level = d /\ j \in Marks(T, d, r.seen)
         /\ r.path # 1 => T[j].reason # 0
<1>1. /\ Analysis(n, F, t, C, T, d) /\ j \in 1 .. Len(T) /\ Found(n, T, d, j, r) /\ r.path >= 1
      /\ Var(T[j].lit) \in r.seen
  BY DEF Replacing
<1>2. /\ TrailOk(n, T, t.lim, t.qhead) /\ d = Len(t.lim) /\ d > 0 /\ DecisionsOk(T, t.lim) /\ Len(T) \in Nat
  BY <1>1 DEF Analysis, TrailOk
<1>3. /\ \E i \in Marks(T, d, r.seen) : TRUE
      /\ \A i \in Marks(T, d, r.seen) : i \in 1 .. Len(T) /\ i <= j /\ i > t.lim[d]
  BY ONLY <1>1, MarksAre
<1>4. d \in 1 .. Len(t.lim) /\ d \in Nat /\ t.lim[d] \in Nat /\ T[j].level \in Nat
  <2> DEFINE M == t.lim
             q == t.qhead
  <2>3a. n \in Nat /\ TrailOk(n, T, M, q) /\ d = Len(M)
    BY <1>1, <1>2 DEF Analysis
  <2> HIDE DEF M, q
  <2>3b. /\ Len(M) \in Nat /\ (\A k \in 1 .. Len(M) : M[k] \in 0 .. q)
         /\ \A i \in 1 .. Len(T) : T[i].level \in 0 .. Len(M)
    BY ONLY <2>3a, TrailIs
  <2>1. d \in Nat /\ T[j].level \in 0 .. d /\ \A k \in 1 .. d : t.lim[k] \in 0 .. t.qhead
    BY <1>1, <2>3a, <2>3b DEF M, q
  <2>2. d \in 1 .. d
    BY <1>2, <2>1
  <2>3. t.lim[d] \in Nat
    BY <2>1, <2>2
  <2>4. QED  BY <1>2, <2>1, <2>2, <2>3
<1>5. T[j].level = d
  <2>1. PICK i \in 1 .. Len(T) : i <= j /\ i > t.lim[d]
    BY <1>3
  <2>2. j > t.lim[d]
    BY ONLY <1>1, <1>2, <1>4, <2>1
  <2>3. T[j].level >= d /\ T[j].level <= d
    BY <1>1, <1>2, <1>4, <2>2 DEF TrailOk
  <2>4. QED  BY ONLY <1>4, <2>3
<1>6. j \in Marks(T, d, r.seen)
  BY <1>1, <1>5 DEF Marks
<1>7. ASSUME r.path # 1 PROVE T[j].reason # 0
  <2>1. SUFFICES ASSUME T[j].reason = 0 PROVE FALSE
    OBVIOUS
  <2>2. j = t.lim[d] + 1
    BY <1>1, <1>2, <1>5, <2>1 DEF DecisionsOk
  <2>3. \A i \in Marks(T, d, r.seen) : i = j
    <3>1. SUFFICES ASSUME NEW i \in Marks(T, d, r.seen) PROVE i = j
      OBVIOUS
    <3>2. i \in Nat /\ i <= j /\ i > t.lim[d]
      BY <1>2, <1>3
    <3>3. QED  BY ONLY <1>4, <2>2, <3>2
  <2>4. Marks(T, d, r.seen) = {j}
    BY <1>6, <2>3
  <2>5. Cardinality(Marks(T, d, r.seen)) = 1
    BY <2>4, FS_Singleton
  <2>6. QED  BY <1>1, <1>7, <2>5 DEF Found
<1>8. QED  BY <1>5, <1>6, <1>7

LEMMA UipFound ==
  ASSUME NEW n, NEW F, NEW t, NEW C, NEW T, NEW d, NEW j, NEW r, Replacing(n, F, t, C, T, d, j, r),
         r.path = 1, NEW e, e = T[j], NEW y, y = Resolve(t, r, e)
  PROVE  Resolving(n, F, T, d, j - 1, y)
<1>1. /\ Analysis(n, F, t, C, T, d) /\ j \in 1 .. Len(T) /\ Found(n, T, d, j, r) /\ Implied(F, T, r.seen, {})
      /\ Var(e.lit) \in r.seen /\ r.uip = 0
  BY DEF Replacing
<1>2. T[j].level = d /\ j \in Marks(T, d, r.seen)
  BY TopIsMarked
<1>3. /\ r \in Findings(n) /\ r.path = Cardinality(Marks(T, d, r.seen)) /\ Collected(n, T, d, r.seen, r.lits)
  BY <1>1 DEF Found
<1>4. Marks(T, d, r.seen) = {j}
  <2> DEFINE A == Marks(T, d, r.seen)
  <2>1. Len(T) \in Nat
    BY <1>1 DEF Analysis, TrailOk
  <2>2. IsFiniteSet(A) /\ Cardinality(A) = 1 /\ j \in A
    BY <1>2, <1>3, <2>1, MarksFinite
  <2> HIDE DEF A
  <2>3. \E x : A = {x}
    BY <2>2, FS_Singleton
  <2>4. A = {j}
    BY <2>2, <2>3
  <2>5. QED  BY <2>4 DEF A
<1>5. e.lit \in LitsOf(n)
  BY <1>1, TrailIs DEF Analysis
<1> DEFINE u == -e.lit
<1>6. u \in Int /\ u # 0
  BY <1>5 DEF LitsOf
<1>7. y = [r EXCEPT !.uip = u, !.path = 0]
  BY <1>1 DEF Resolve
<1> HIDE DEF u
<1>8. y \in Findings(n) /\ y.uip = u /\ y.lits = r.lits
  BY ONLY <1>3, <1>6, <1>7 DEF Findings
<1>9. Derived(n, F, T, d, y)
  <2>1. y.uip = -T[j].lit
    BY <1>8 DEF u
  <2>2. /\ r.lits \in Seq(LitsOf(n)) /\ IsInjective(r.lits)
        /\ \A l \in Range(r.lits) : \E i \in 1 .. Len(T) : T[i].lit = -l /\ T[i].level > 0 /\ T[i].level # d
        /\ \A i \in 1 .. Len(T) : T[i].level # d /\ Var(T[i].lit) \in r.seen => -T[i].lit \in Range(r.lits)
    BY <1>3 DEF Collected
  <2>3. ASSUME NEW m \in F PROVE Makes(m, y.uip) \/ \E l \in Range(y.lits) : Makes(m, l)
    <3>1. PICK i \in 1 .. Len(T) : Var(T[i].lit) \in r.seen /\ Makes(m, -T[i].lit)
      BY <1>1 DEF Implied
    <3>2. CASE T[i].level = d
      <4>1. i = j
        BY <1>4, <3>1, <3>2 DEF Marks
      <4>2. QED  BY <2>1, <3>1, <4>1
    <3>3. CASE T[i].level # d
      BY <1>8, <2>2, <3>1, <3>3
    <3>4. QED  BY <3>2, <3>3
  <2>4. QED  BY <1>1, <1>2, <1>8, <2>1, <2>2, <2>3 DEF Derived
<1>10. QED  BY <1>6, <1>8, <1>9 DEF Resolving

(* The entry j is taken from those seen.                                   *)
Without(r, v, x) == x = [r EXCEPT !.path = @ - 1, !.seen = @ \ {v}]

LEMMA TopTaken ==
  ASSUME NEW n, NEW F, NEW t, NEW C, NEW T, NEW d, NEW j, NEW r, Replacing(n, F, t, C, T, d, j, r),
         r.path # 1, NEW v, v = Var(T[j].lit),
         NEW r0, Without(r, v, r0)
  PROVE  Found(n, T, d, j - 1, r0) /\ r0.path >= 1 /\ r0.uip = 0 /\ r0.seen = r.seen \ {v}
<1>1. /\ Analysis(n, F, t, C, T, d) /\ j \in 1 .. Len(T) /\ Found(n, T, d, j, r) /\ r.path >= 1
      /\ v \in r.seen /\ r.uip = 0
  BY DEF Replacing
<1>2. T[j].level = d /\ j \in Marks(T, d, r.seen)
  BY TopIsMarked
<1>3. /\ r \in Findings(n) /\ r.path = Cardinality(Marks(T, d, r.seen)) /\ Collected(n, T, d, r.seen, r.lits)
      /\ Seen(n, T, d, j, r.seen)
  BY <1>1 DEF Found
<1>4. Len(T) \in Nat /\ \A a, b \in 1 .. Len(T) : Var(T[a].lit) = Var(T[b].lit) => a = b
  BY <1>1 DEF Analysis, TrailOk
<1> DEFINE p == r.path - 1
           S == r.seen \ {v}
<1>5. r.path \in Nat /\ p \in Nat /\ p >= 1 /\ S \in SUBSET (1 .. n)
  <2>1. r.path \in Nat /\ r.seen \in SUBSET (1 .. n)
    BY <1>3 DEF Findings
  <2>2. p \in Nat /\ p >= 1
    BY ONLY <1>1, <2>1, r.path # 1
  <2>3. QED  BY <2>1, <2>2
<1>6. r0 = [r EXCEPT !.path = p, !.seen = S] /\ p = r.path - 1 /\ S = r.seen \ {v}
  BY DEF Without
<1> HIDE DEF p, S
<1>7. r0 \in Findings(n) /\ r0.path = p /\ r0.seen = S /\ r0.uip = r.uip /\ r0.lits = r.lits
  BY ONLY <1>3, <1>5, <1>6 DEF Findings
<1>8. Seen(n, T, d, j - 1, S)
  <2>1. SUFFICES ASSUME NEW x \in S
                 PROVE  \E i \in 1 .. Len(T) : Var(T[i].lit) = x /\ T[i].level > 0 /\ (T[i].level = d => i <= j - 1)
    BY <1>5 DEF Seen
  <2>2. PICK i \in 1 .. Len(T) : Var(T[i].lit) = x /\ T[i].level > 0 /\ (T[i].level = d => i <= j)
    BY <1>3, <1>6 DEF Seen
  <2>3. i # j
    BY <1>6, <2>2
  <2>4. T[i].level = d => i <= j - 1
    BY ONLY <1>1, <1>4, <2>2, <2>3
  <2>5. QED  BY <2>2, <2>4
<1>9. p = Cardinality(Marks(T, d, S))
  <2>1. Marks(T, d, S) = Marks(T, d, r.seen) \ {j}
    BY <1>1, <1>4, <1>6 DEF Marks
  <2> DEFINE A == Marks(T, d, r.seen)
  <2>2. IsFiniteSet(A) /\ j \in A /\ r.path = Cardinality(A)
    BY <1>2, <1>3, <1>4, MarksFinite
  <2> HIDE DEF A
  <2>3. Cardinality(A \ {j}) = Cardinality(A) - 1
    BY ONLY <2>2, FS_RemoveElement
  <2>4. QED  BY <1>6, <2>1, <2>2, <2>3 DEF A
<1>10. Collected(n, T, d, S, r.lits)
  <2>1. ASSUME NEW l \in Range(r.lits)
        PROVE  \E i \in 1 .. Len(T) : T[i].lit = -l /\ T[i].level > 0 /\ T[i].level # d /\ Var(T[i].lit) \in S
    <3>1. PICK i \in 1 .. Len(T) : T[i].lit = -l /\ T[i].level > 0 /\ T[i].level # d /\ Var(T[i].lit) \in r.seen
      BY <1>3 DEF Collected
    <3>2. Var(T[i].lit) # v
      BY <1>1, <1>2, <1>4, <3>1
    <3>3. QED  BY <1>6, <3>1, <3>2
  <2>2. QED  BY <1>3, <1>6, <2>1 DEF Collected
<1>11. QED  BY <1>1, <1>5, <1>6, <1>7, <1>8, <1>9, <1>10 DEF Found

LEMMA ResolveReplaces ==
  ASSUME NEW n, NEW F, NEW t, NEW C, NEW T, NEW d, NEW j, NEW r, Replacing(n, F, t, C, T, d, j, r),
         r.path # 1, NEW e, e = T[j], NEW y, y = Resolve(t, r, e)
  PROVE  Resolving(n, F, T, d, j - 1, y)
<1>1. /\ Analysis(n, F, t, C, T, d) /\ j \in 1 .. Len(T) /\ Found(n, T, d, j, r) /\ Implied(F, T, r.seen, {})
      /\ Var(e.lit) \in r.seen /\ r.uip = 0
  BY DEF Replacing
<1>2. /\ n \in Nat /\ F \in SUBSET Assignments(n) /\ C = t.clause /\ T = t.trail /\ Len(T) \in Nat
      /\ ClausesOk(n, C) /\ ReasonOk(C, T) /\ Sound(F, C, T)
      /\ \A a, b \in 1 .. Len(T) : Var(T[a].lit) = Var(T[b].lit) => a = b
  BY <1>1 DEF Analysis, TrailOk
<1> DEFINE c == e.reason
           K == C[c]
           lits == Tail(K)
           v == Var(e.lit)
           r0 == [r EXCEPT !.path = @ - 1, !.seen = @ \ {v}]
<1>3. c # 0
  BY TopIsMarked
<1>4. /\ c \in DOMAIN C /\ K[1] = e.lit
      /\ \A k \in 2 .. Len(K) : \E i \in 1 .. j - 1 : T[i].lit = -K[k]
  BY <1>1, <1>2, <1>3 DEF ReasonOk
<1>5. y = Absorb(t, r0, lits)
  BY <1>1, <1>2 DEF Resolve
<1>18. Without(r, v, r0) /\ v = Var(T[j].lit)
  BY DEF Without
<1> HIDE DEF r0, c, v
<1>6. Found(n, T, d, j - 1, r0) /\ r0.path >= 1 /\ r0.uip = 0 /\ r0.seen = r.seen \ {v}
  BY <1>18, TopTaken
<1>7. /\ IsClause(n, K) /\ Len(K) >= 2
  BY <1>2, <1>4, ClausesAre
<1>8. /\ K \in Seq(LitsOf(n)) /\ Len(K) \in Nat
      /\ \A l : l \in Range(K) <=> \E k \in 1 .. Len(K) : K[k] = l
      /\ \A k \in 1 .. Len(K) : K[k] \in LitsOf(n)
  <2>1. n \in Nat
    BY <1>2
  <2>2. QED  BY ONLY <1>7, <2>1, ClauseIs
<1> HIDE DEF K
<1>9. lits \in Seq(LitsOf(n)) /\ Len(lits) = Len(K) - 1 /\ \A k \in 1 .. Len(lits) : lits[k] = K[k + 1]
  <2>1. K # <<>>
    BY <1>7
  <2>2. QED  BY <1>8, <2>1
<1> HIDE DEF lits
<1>10. ASSUME NEW z \in 1 .. Len(lits) PROVE \E i \in 1 .. j - 1 : T[i].lit = -lits[z]
  <2>1. z + 1 \in 2 .. Len(K)
    BY <1>8, <1>9
  <2>2. QED  BY <1>4, <1>9, <2>1
<1>11. Implied(F, T, r0.seen, Range(lits))
  <2>1. SUFFICES ASSUME NEW m \in F
                 PROVE  \/ \E i \in 1 .. Len(T) : Var(T[i].lit) \in r0.seen /\ Makes(m, -T[i].lit)
                        \/ \E l \in Range(lits) : Makes(m, l)
    BY DEF Implied
  <2>2. PICK i \in 1 .. Len(T) : Var(T[i].lit) \in r.seen /\ Makes(m, -T[i].lit)
    BY <1>1 DEF Implied
  <2>3. CASE Var(T[i].lit) # v
    BY <1>6, <2>2, <2>3
  <2>4. CASE Var(T[i].lit) = v
    <3>1. i = j
      BY <1>1, <1>2, <2>4 DEF v
    <3>2. Makes(m, -e.lit)
      BY <2>2, <3>1
    <3>3. PICK l \in Range(K) : Makes(m, l)
      BY <1>2, <1>4 DEF Sound, Makers, K
    <3>4. PICK k \in 1 .. Len(K) : K[k] = l
      BY <1>8, <3>3
    <3>5. k # 1
      <4>1. SUFFICES ASSUME k = 1 PROVE FALSE
        OBVIOUS
      <4>2. e.lit \in LitsOf(n) /\ Makes(m, e.lit)
        BY <1>4, <1>8, <3>3, <3>4, <4>1
      <4>3. QED  BY <1>2, <3>2, <4>2, Literals
    <3>6. k - 1 \in 1 .. Len(lits) /\ lits[k - 1] = l
      <4>1. k - 1 \in 1 .. Len(lits) /\ k - 1 + 1 = k
        BY <1>8, <1>9, <3>5
      <4>2. QED  BY <1>9, <3>4, <4>1
    <3>7. l \in Range(lits)
      BY <1>9, <3>6 DEF Range
    <3>8. QED  BY <3>3, <3>7
  <2>5. QED  BY <2>3, <2>4
<1>12. j - 1 \in 0 .. Len(T)
  BY <1>1, <1>2
<1>13. Clausal(n, F, t, C, T, d, j - 1, r0, lits)
  BY <1>1, <1>6, <1>9, <1>10, <1>11, <1>12 DEF Clausal
<1>14. Absorbed(n, F, T, d, j - 1, r0, lits, y, Len(lits))
  BY <1>5, <1>13, AbsorbIs
<1>15. Found(n, T, d, j - 1, y) /\ Grew(r0, y) /\ Implied(F, T, y.seen, {})
  <2>1. Rest(lits, Len(lits)) = {}
    BY <1>9 DEF Rest
  <2>2. QED  BY <1>14, <2>1 DEF Absorbed
<1>16. y \in Findings(n) /\ y.uip = 0 /\ y.path >= 1
  <2>1. y \in Findings(n) /\ y.path \in Nat /\ r0.path \in Nat
    BY <1>6, <1>15 DEF Found, Findings
  <2>2. QED  BY <1>6, <1>15, <2>1 DEF Grew
<1>17. QED  BY <1>15, <1>16 DEF Resolving

LEMMA ResolveStep ==
  ASSUME NEW n, NEW F, NEW t, NEW C, NEW T, NEW d, Analysis(n, F, t, C, T, d), NEW j \in 1 .. Len(T),
         NEW r, Resolving(n, F, T, d, j, r), NEW e, e = T[j], NEW y, y = Resolve(t, r, e)
  PROVE  Resolving(n, F, T, d, j - 1, y)
<1>1. Len(T) \in Nat
  BY DEF Analysis, TrailOk
<1>2. CASE r.uip # 0
  <2>1. y = r
    BY <1>2 DEF Resolve
  <2>2. QED  BY <1>2, <2>1 DEF Resolving
<1>3. CASE r.uip = 0 /\ Var(e.lit) \notin r.seen
  <2>1. y = r
    BY <1>3 DEF Resolve
  <2>2. Found(n, T, d, j, r) /\ Implied(F, T, r.seen, {}) /\ r.path >= 1 /\ r \in Findings(n)
    BY <1>3 DEF Resolving
  <2>3. Seen(n, T, d, j - 1, r.seen)
    <3>1. SUFFICES ASSUME NEW v \in r.seen
                   PROVE  \E i \in 1 .. Len(T) : Var(T[i].lit) = v /\ T[i].level > 0 /\ (T[i].level = d => i <= j - 1)
      BY <2>2 DEF Seen, Findings
    <3>2. PICK i \in 1 .. Len(T) : Var(T[i].lit) = v /\ T[i].level > 0 /\ (T[i].level = d => i <= j)
      BY <2>2 DEF Found, Seen
    <3>3. i # j
      BY <1>3, <3>2
    <3>4. T[i].level = d => i <= j - 1
      BY ONLY <1>1, <3>2, <3>3, j \in 1 .. Len(T)
    <3>5. QED  BY <3>2, <3>4
  <2>4. Found(n, T, d, j - 1, r)
    BY <2>2, <2>3 DEF Found
  <2>5. QED  BY <1>3, <2>1, <2>2, <2>4 DEF Resolving
<1>4. CASE r.uip = 0 /\ Var(e.lit) \in r.seen
  <2>1. Replacing(n, F, t, C, T, d, j, r)
    BY <1>4 DEF Resolving, Replacing
  <2>2. CASE r.path = 1
    BY <2>1, <2>2, UipFound
  <2>3. CASE r.path # 1
    BY <2>1, <2>3, ResolveReplaces
  <2>4. QED  BY <2>2, <2>3
<1>5. QED  BY <1>2, <1>3, <1>4

LEMMA ResolveAllIs ==
  ASSUME NEW n, NEW F, NEW t, NEW C, NEW T, NEW d, Analysis(n, F, t, C, T, d),
         NEW es, es = Reverse(T), NEW first, Resolving(n, F, T, d, Len(T), first)
  PROVE  Derived(n, F, T, d, ResolveAll(t, first, es))
<1> DEFINE m == Len(es)
           Turn(k, x) == Resolve(t, x, es[k])
           X == [k \in 0 .. m |-> { x \in Findings(n) : Resolving(n, F, T, d, Len(T) - k, x) }]
           turn == [k \in 1 .. m |-> [x \in X[k - 1] |-> Turn(k, x)]]
           Is(g) == g = [k \in 0 .. m |-> IF k = 0 THEN first ELSE Turn(k, g[k - 1])]
           run == CHOOSE g : Is(g)
<1>50. ResolveAll(t, first, es) = run[m]
  BY DEF Loop, ResolveAll
<1>1. Len(T) \in Nat /\ T \in Seq(Entries(n))
  BY DEF Analysis, TrailOk
<1>2. m = Len(T) /\ \A k \in 1 .. m : es[k] = T[Len(T) - k + 1] /\ Len(T) - k + 1 \in 1 .. Len(T)
  <2>1. Len(es) = Len(T) /\ \A k \in 1 .. Len(T) : es[k] = T[Len(T) - k + 1]
    BY <1>1 DEF Reverse
  <2>2. \A k \in 1 .. Len(T) : Len(T) - k + 1 \in 1 .. Len(T)
    BY ONLY <1>1
  <2>3. QED  BY <2>1, <2>2
<1>60. m \in Nat
  BY <1>1, <1>2
<1>40. first \in Findings(n) /\ Resolving(n, F, T, d, Len(T) - 0, first)
  <2>1. Len(T) - 0 = Len(T)
    BY ONLY <1>1
  <2>2. QED  BY <2>1 DEF Resolving
<1>41. ASSUME NEW k \in 1 .. m, NEW x \in Findings(n), Resolving(n, F, T, d, Len(T) - (k - 1), x)
       PROVE  Turn(k, x) \in Findings(n) /\ Resolving(n, F, T, d, Len(T) - k, Turn(k, x))
  <2> DEFINE y == Turn(k, x)
             j == Len(T) - k + 1
  <2>1. y = Resolve(t, x, T[j]) /\ j \in 1 .. Len(T)
    BY <1>2
  <2>2. Len(T) - (k - 1) = j /\ Len(T) - k = j - 1
    BY <1>1, <1>60
  <2> HIDE DEF y, m, Turn, j
  <2>3. Resolving(n, F, T, d, j, x)
    BY <1>41, <2>2
  <2>4. Resolving(n, F, T, d, j - 1, y)
    BY <2>1, <2>3, ResolveStep
  <2>5. y \in Findings(n)
    BY <2>4 DEF Resolving
  <2>6. QED  BY <2>2, <2>4, <2>5 DEF y
<1>61. m \in Nat
  BY <1>60
<1>62. \A k \in 0 .. m : \A x : x \in X[k] <=> x \in Findings(n) /\ Resolving(n, F, T, d, Len(T) - k, x)
  OBVIOUS
<1> HIDE DEF X
<1>63. first \in X[0]
  <2>1. 0 \in 0 .. m
    BY <1>61
  <2>2. QED  BY <1>40, <1>62, <2>1
<1>64. ASSUME NEW k \in 1 .. m, NEW x \in X[k - 1] PROVE Turn(k, x) \in X[k]
  <2>1. k - 1 \in 0 .. m /\ k \in 0 .. m
    BY <1>61
  <2>2. x \in Findings(n) /\ Resolving(n, F, T, d, Len(T) - (k - 1), x)
    BY <1>62, <2>1
  <2>3. Turn(k, x) \in Findings(n) /\ Resolving(n, F, T, d, Len(T) - k, Turn(k, x))
    BY <1>41, <2>2
  <2> HIDE DEF Turn
  <2>4. QED  BY <1>62, <2>1, <2>3
<1>65. \A k \in 1 .. m : \A x \in X[k - 1] : turn[k][x] \in X[k] /\ turn[k][x] = Turn(k, x)
  BY <1>64
<1> HIDE DEF turn, Is, Turn, m
<1>66. PICK g : Turns(g, m, first, turn) /\ \A k \in 0 .. m : g[k] \in X[k]
  <2>1. \A k \in 1 .. m : \A x \in X[k - 1] : turn[k][x] \in X[k]
    BY <1>65
  <2>2. QED  BY <1>61, <1>63, <2>1, Stepwise
<1>67. Is(g)
  <2>1. \A k \in 1 .. m : k - 1 \in 0 .. m /\ k \in 0 .. m /\ k # 0
    BY <1>61
  <2>2. \A k \in 1 .. m : g[k] = Turn(k, g[k - 1])
    BY <1>65, <1>66, <2>1 DEF Turns
  <2>3. DOMAIN g = 0 .. m /\ g = [k \in DOMAIN g |-> g[k]]
    BY <1>66 DEF Turns
  <2>4. g[0] = first /\ \A k \in 0 .. m : k # 0 => k \in 1 .. m
    BY <1>61, <1>66 DEF Turns
  <2>5. QED  BY <2>2, <2>3, <2>4 DEF Is
<1>68. Is(run)
  BY <1>67
<1> HIDE DEF run
<1>69. run[m] \in X[m]
  <2>1. run[0] \in X[0]
    BY <1>61, <1>63, <1>68 DEF Is
  <2>2. ASSUME NEW k \in 1 .. m, run[k - 1] \in X[k - 1] PROVE run[k] \in X[k]
    <3>1. k \in 0 .. m /\ k # 0
      BY <1>61
    <3>2. run[k] = Turn(k, run[k - 1])
      BY <1>68, <3>1 DEF Is
    <3>3. QED  BY <1>65, <2>2, <3>2
  <2>3. QED  BY <1>61, <2>1, <2>2, RunStays
<1>70. run[m] \in Findings(n) /\ Resolving(n, F, T, d, Len(T) - m, run[m])
  <2>1. m \in 0 .. m
    BY <1>61
  <2>2. QED  BY <1>62, <1>69, <2>1
<1>71. QED
  <2> DEFINE y == run[m]
  <2>1. Len(T) - m = 0
    BY <1>1, <1>2
  <2>2. Resolving(n, F, T, d, 0, y)
    BY <1>70, <2>1
  <2> HIDE DEF y
  <2>3. y.uip # 0
    <3>1. SUFFICES ASSUME y.uip = 0 PROVE FALSE
      OBVIOUS
    <3>2. Found(n, T, d, 0, y) /\ y.path >= 1
      BY <2>2, <3>1 DEF Resolving
    <3>3. \E i \in 1 .. Len(T) : i <= 0
      BY <3>2, MarksAre
    <3>4. QED  BY <1>1, <3>3
  <2>4. QED  BY <1>50, <2>2, <2>3 DEF Resolving, y

(* What is learnt: the literals are false, the first one alone since the   *)
(* last decision; and it follows from F.                                   *)
Lesson(n, F, T, d, L) ==
  /\ L \in Seq(LitsOf(n)) /\ Len(L) >= 1 /\ IsInjective(L)
  /\ \A k \in 1 .. Len(L) : \E i \in 1 .. Len(T) :
       T[i].lit = -L[k] /\ T[i].level > 0 /\ (T[i].level = d <=> k = 1)
  /\ \A m \in F : Makers(m, L)

(* A sequence with an element before it.                                   *)
Consed(L, a, tail) == L = <<a>> \o tail

LEMMA ConsIs ==
  ASSUME NEW S, NEW a \in S, NEW tail \in Seq(S), NEW L, Consed(L, a, tail)
  PROVE  /\ L \in Seq(S) /\ Len(tail) \in Nat /\ Len(L) = Len(tail) + 1 /\ L[1] = a
         /\ \A k \in 1 .. Len(tail) : L[k + 1] = tail[k]
         /\ \A k \in 2 .. Len(L) : k - 1 \in 1 .. Len(tail) /\ L[k] = tail[k - 1]
         /\ Range(L) = {a} \cup Range(tail)
         /\ IsInjective(tail) /\ a \notin Range(tail) => IsInjective(L)
<1>1. /\ L \in Seq(S) /\ Len(tail) \in Nat /\ Len(L) = Len(tail) + 1 /\ L[1] = a
      /\ \A k \in 1 .. Len(tail) : L[k + 1] = tail[k]
  BY DEF Consed
<1>2. \A k \in 2 .. Len(L) : k - 1 \in 1 .. Len(tail) /\ L[k] = tail[k - 1]
  <2>1. SUFFICES ASSUME NEW k \in 2 .. Len(L) PROVE k - 1 \in 1 .. Len(tail) /\ L[k] = tail[k - 1]
    OBVIOUS
  <2>2. k - 1 \in 1 .. Len(tail) /\ k - 1 + 1 = k
    BY ONLY <1>1, <2>1
  <2>3. QED  BY <1>1, <2>2
<1>3. DOMAIN L = 1 .. Len(L) /\ DOMAIN tail = 1 .. Len(tail) /\ Len(L) \in Nat
  BY <1>1
<1>4. \A k \in 1 .. Len(L) : k = 1 \/ k \in 2 .. Len(L)
  BY ONLY <1>3
<1>5. 1 \in 1 .. Len(L) /\ \A k \in 1 .. Len(tail) : k + 1 \in 1 .. Len(L)
  BY ONLY <1>1, <1>3
<1>6. Range(L) = {a} \cup Range(tail)
  <2>1. ASSUME NEW x \in Range(L) PROVE x \in {a} \cup Range(tail)
    <3>1. PICK k \in 1 .. Len(L) : L[k] = x
      BY <1>3, <2>1 DEF Range
    <3>2. CASE k = 1
      BY <1>1, <3>1, <3>2
    <3>3. CASE k \in 2 .. Len(L)
      BY <1>2, <1>3, <3>1, <3>3 DEF Range
    <3>4. QED  BY <1>4, <3>2, <3>3
  <2>2. ASSUME NEW x \in {a} \cup Range(tail) PROVE x \in Range(L)
    <3>1. CASE x = a
      BY <1>1, <1>3, <1>5, <3>1 DEF Range
    <3>2. CASE x \in Range(tail)
      <4>1. PICK k \in 1 .. Len(tail) : tail[k] = x
        BY <1>3, <3>2 DEF Range
      <4>2. k + 1 \in 1 .. Len(L) /\ L[k + 1] = x
        BY <1>1, <1>5, <4>1
      <4>3. QED  BY <1>3, <4>2 DEF Range
    <3>3. QED  BY <2>2, <3>1, <3>2
  <2>3. QED  BY <2>1, <2>2
<1>7. ASSUME IsInjective(tail), a \notin Range(tail) PROVE IsInjective(L)
  <2>1. SUFFICES ASSUME NEW i \in 1 .. Len(L), NEW k \in 1 .. Len(L), L[i] = L[k] PROVE i = k
    BY <1>3 DEF IsInjective
  <2>2. \A x \in 2 .. Len(L) : L[x] # a
    BY <1>2, <1>3, <1>7 DEF Range
  <2>3. CASE i = 1 \/ k = 1
    BY <1>1, <1>4, <2>1, <2>2, <2>3
  <2>4. CASE i \in 2 .. Len(L) /\ k \in 2 .. Len(L)
    <3>1. i - 1 = k - 1
      BY <1>2, <1>3, <1>7, <2>1, <2>4 DEF IsInjective
    <3>2. QED  BY ONLY <1>3, <3>1, <2>4
  <2>5. QED  BY <1>4, <2>3, <2>4
<1>8. QED  BY <1>1, <1>2, <1>6, <1>7

Clashing(n, F, t, C, T, d, c) == Analysis(n, F, t, C, T, d) /\ Clash(C, T, t.lim, t.qhead, c)

(* The first literal of the clause that is false became so last.           *)
LEMMA ClashLevel ==
  ASSUME NEW n, NEW F, NEW t, NEW C, NEW T, NEW d, NEW c, Clashing(n, F, t, C, T, d, c)
  PROVE  \E i \in 1 .. Len(T) : T[i].lit = -C[c][1] /\ T[i].level = d
<1>1. /\ n \in Nat /\ d = Len(t.lim) /\ d > 0 /\ ClausesOk(n, C) /\ TrailOk(n, T, t.lim, t.qhead)
      /\ t.qhead = Len(T) /\ Looked(C, T, t.qhead, d - 1) /\ c \in DOMAIN C /\ AllFalse(T, C[c])
  BY DEF Clashing, Analysis, Clash
<1> DEFINE K == C[c]
           l == K[1]
<1>2. l \in Range(K) /\ l \in LitsOf(n) /\ Range(K) \subseteq LitsOf(n)
  BY <1>1, ClausesAre
<1>3. PICK i \in 1 .. Len(T) : T[i].lit = -l
  BY <1>1, <1>2 DEF AllFalse, OnTrail
<1>4. d \in Nat /\ T[i].level \in 0 .. d /\ \A x \in LitsOf(n) : ~(OnTrail(T, x) /\ OnTrail(T, -x))
  <2> DEFINE M == t.lim
             q == t.qhead
  <2>1. n \in Nat /\ TrailOk(n, T, M, q) /\ d = Len(M)
    BY <1>1
  <2> HIDE DEF M, q
  <2>2. /\ Len(M) \in Nat /\ (\A x \in 1 .. Len(T) : T[x].level \in 0 .. Len(M))
        /\ \A x \in LitsOf(n) : ~(OnTrail(T, x) /\ OnTrail(T, -x))
    BY ONLY <2>1, TrailIs
  <2>3. QED  BY <2>1, <2>2
<1>5. -(-l) = l
  BY <1>1, <1>2, Literals
<1> HIDE DEF l
<1>6. T[i].level = d
  <2>1. SUFFICES ASSUME T[i].level # d PROVE FALSE
    BY <1>3
  <2>2. T[i].level <= d - 1
    BY ONLY <1>4, <2>1
  <2>3. -T[i].lit \in {K[1], K[2]}
    BY <1>3, <1>5 DEF l
  <2>4. PICK x \in 1 .. Len(T) : T[x].lit \in Range(K)
    BY <1>1, <2>2, <2>3 DEF Looked
  <2>5. OnTrail(T, T[x].lit) /\ OnTrail(T, -T[x].lit)
    BY <1>1, <2>4 DEF AllFalse, OnTrail
  <2>6. QED  BY <1>2, <1>4, <2>4, <2>5
<1>7. QED  BY <1>3, <1>6 DEF l

LEMMA UnresolvedIs ==
  ASSUME NEW n, NEW F, NEW t, NEW C, NEW T, NEW d, NEW c, Clashing(n, F, t, C, T, d, c),
         NEW first, first = Unresolved(t, c)
  PROVE  Resolving(n, F, T, d, Len(T), first)
<1>1. /\ Analysis(n, F, t, C, T, d) /\ n \in Nat /\ C = t.clause /\ d > 0 /\ d = Len(t.lim)
      /\ ClausesOk(n, C) /\ TrailOk(n, T, t.lim, t.qhead)
      /\ Sound(F, C, T) /\ Len(T) \in Nat /\ c \in DOMAIN C /\ AllFalse(T, C[c])
  BY DEF Clashing, Analysis, Clash, TrailOk
<1> DEFINE K == C[c]
           r0 == [seen |-> {}, path |-> 0, lits |-> <<>>, uip |-> 0]
<1>2. first = Absorb(t, r0, K)
  BY <1>1 DEF Unresolved
<1>3. r0 \in Findings(n) /\ r0.seen = {} /\ r0.path = 0 /\ r0.lits = <<>> /\ r0.uip = 0
  BY DEF Findings
<1> HIDE DEF r0
<1>4. Found(n, T, d, Len(T), r0)
  <2>1. Seen(n, T, d, Len(T), {})
    BY DEF Seen
  <2>2. 0 = Cardinality(Marks(T, d, {}))
    <3>1. Marks(T, d, {}) = {}
      BY DEF Marks
    <3>2. QED  BY <3>1, FS_EmptySet
  <2>3. Collected(n, T, d, {}, <<>>)
    BY DEF Collected, IsInjective, Range
  <2>4. QED  BY <1>3, <2>1, <2>2, <2>3 DEF Found
<1>5. IsClause(n, K) /\ K[1] \in LitsOf(n)
  BY <1>1, ClausesAre
<1>6. /\ K \in Seq(LitsOf(n)) /\ Len(K) \in Nat
      /\ \A k \in 1 .. Len(K) : K[k] \in Range(K)
  BY <1>1, <1>5, ClauseIs
<1> HIDE DEF K
<1>7. Clausal(n, F, t, C, T, d, Len(T), r0, K)
  <2>1. \A z \in 1 .. Len(K) : \E i \in 1 .. Len(T) : T[i].lit = -K[z]
    BY <1>1, <1>6 DEF AllFalse, OnTrail, K
  <2>2. Implied(F, T, r0.seen, Range(K))
    BY <1>1 DEF Sound, Makers, Implied, K
  <2>3. Len(T) \in 0 .. Len(T)
    BY ONLY <1>1
  <2>4. QED  BY <1>1, <1>4, <1>6, <2>1, <2>2, <2>3 DEF Clausal
<1>8. Absorbed(n, F, T, d, Len(T), r0, K, first, Len(K))
  BY <1>2, <1>7, AbsorbIs
<1>9. /\ Found(n, T, d, Len(T), first) /\ Grew(r0, first) /\ Implied(F, T, first.seen, {})
      /\ \A z \in 1 .. Len(K) : \A i \in 1 .. Len(T) :
           T[i].lit = -K[z] => T[i].level = 0 \/ Var(T[i].lit) \in first.seen
  <2>1. Rest(K, Len(K)) = {}
    BY <1>6 DEF Rest
  <2>2. QED  BY <1>8, <2>1 DEF Absorbed
<1>10. first.path >= 1
  <2>1. PICK i \in 1 .. Len(T) : T[i].lit = -K[1] /\ T[i].level = d
    BY ClashLevel DEF K
  <2>2. 1 \in 1 .. Len(K)
    <3>1. Len(K) >= 2
      BY <1>1, ClausesAre DEF K
    <3>2. QED  BY ONLY <1>6, <3>1
  <2>3. Var(T[i].lit) \in first.seen
    BY <1>1, <1>9, <2>1, <2>2
  <2>4. i \in Marks(T, d, first.seen)
    BY <2>1, <2>3 DEF Marks
  <2> DEFINE A == Marks(T, d, first.seen)
  <2>5. IsFiniteSet(A) /\ Cardinality(A) \in Nat /\ A # {} /\ first.path = Cardinality(A)
    BY <1>1, <1>9, <2>4, MarksFinite DEF Found
  <2> HIDE DEF A
  <2>6. Cardinality(A) # 0
    BY ONLY <2>5, FS_EmptySet
  <2>7. QED  BY ONLY <2>5, <2>6
<1>11. first \in Findings(n) /\ first.uip = 0
  BY <1>3, <1>9 DEF Found, Grew
<1>12. QED  BY <1>9, <1>10, <1>11 DEF Resolving

LEMMA FirstUipIs ==
  ASSUME NEW n, NEW F, NEW t, NEW C, NEW T, NEW d, NEW c, Clashing(n, F, t, C, T, d, c),
         NEW L, L = FirstUip(t, c)
  PROVE  Lesson(n, F, T, d, L)
<1>1. /\ Analysis(n, F, t, C, T, d) /\ n \in Nat /\ T = t.trail /\ TrailOk(n, T, t.lim, t.qhead)
  BY DEF Clashing, Analysis
<1> DEFINE es == Reverse(T)
           first == Unresolved(t, c)
           r == ResolveAll(t, first, es)
<1>2. L = <<r.uip>> \o r.lits
  BY <1>1 DEF FirstUip
<1>3. es = Reverse(T) /\ first = Unresolved(t, c)
  OBVIOUS
<1>4. r = ResolveAll(t, first, es)
  OBVIOUS
<1> HIDE DEF es, first, r
<1>5. Resolving(n, F, T, d, Len(T), first)
  BY <1>3, UnresolvedIs
<1>6. Derived(n, F, T, d, r)
  BY <1>1, <1>3, <1>4, <1>5, ResolveAllIs
<1>7. PICK i \in 1 .. Len(T) : T[i].level = d /\ r.uip = -T[i].lit
  BY <1>6 DEF Derived
<1>8. /\ r.lits \in Seq(LitsOf(n)) /\ IsInjective(r.lits)
      /\ \A l \in Range(r.lits) : \E a \in 1 .. Len(T) : T[a].lit = -l /\ T[a].level > 0 /\ T[a].level # d
      /\ \A m \in F : Makes(m, r.uip) \/ \E l \in Range(r.lits) : Makes(m, l)
  BY <1>6 DEF Derived
<1>9. T[i].lit \in LitsOf(n)
  BY <1>1, TrailIs
<1>10. r.uip \in LitsOf(n) /\ T[i].lit = -r.uip /\ r.uip \notin Range(r.lits)
  <2>1. r.uip \in LitsOf(n) /\ T[i].lit = -r.uip
    BY <1>1, <1>7, <1>9, Literals
  <2>2. SUFFICES ASSUME r.uip \in Range(r.lits) PROVE FALSE
    BY <2>1
  <2>3. PICK a \in 1 .. Len(T) : T[a].lit = -r.uip /\ T[a].level # d
    BY <1>8, <2>2
  <2>4. a = i
    BY <1>1, <2>1, <2>3 DEF TrailOk
  <2>5. QED  BY <1>7, <2>3, <2>4
<1> DEFINE U == r.uip
           N == r.lits
<1>11. /\ L \in Seq(LitsOf(n)) /\ Len(N) \in Nat /\ Len(L) = Len(N) + 1 /\ L[1] = U
       /\ \A k \in 2 .. Len(L) : k - 1 \in 1 .. Len(N) /\ L[k] = N[k - 1]
       /\ Range(L) = {U} \cup Range(N) /\ IsInjective(L)
  <2>1. U \in LitsOf(n) /\ N \in Seq(LitsOf(n)) /\ L = <<U>> \o N /\ IsInjective(N) /\ U \notin Range(N)
    BY <1>2, <1>8, <1>10
  <2> DEFINE S == LitsOf(n)
  <2>2. U \in S /\ N \in Seq(S) /\ Consed(L, U, N)
    BY <2>1 DEF Consed
  <2> HIDE DEF U, N, S
  <2>3. /\ L \in Seq(S) /\ Len(N) \in Nat /\ Len(L) = Len(N) + 1 /\ L[1] = U
        /\ \A k \in 2 .. Len(L) : k - 1 \in 1 .. Len(N) /\ L[k] = N[k - 1]
        /\ Range(L) = {U} \cup Range(N) /\ (IsInjective(N) /\ U \notin Range(N) => IsInjective(L))
    BY ONLY <2>2, ConsIs
  <2>4. QED  BY ONLY <2>1, <2>3 DEF S
<1>12. ASSUME NEW k \in 1 .. Len(L)
       PROVE  \E a \in 1 .. Len(T) : T[a].lit = -L[k] /\ T[a].level > 0 /\ (T[a].level = d <=> k = 1)
  <2>1. CASE k = 1
    <3>1. T[i].level > 0
      BY <1>7 DEF Clashing, Analysis
    <3>2. QED  BY <1>7, <1>10, <1>11, <2>1, <3>1
  <2>2. CASE k \in 2 .. Len(L)
    <3>1. L[k] \in Range(N) /\ k # 1
      <4>1. k - 1 \in 1 .. Len(N) /\ L[k] = N[k - 1] /\ k # 1
        BY <1>11, <2>2
      <4>2. DOMAIN N = 1 .. Len(N)
        BY <1>8
      <4>3. QED  BY ONLY <4>1, <4>2 DEF Range
    <3>2. QED  BY <1>8, <3>1
  <2>3. k = 1 \/ k \in 2 .. Len(L)
    BY <1>11
  <2>4. QED  BY <2>1, <2>2, <2>3
<1>13. \A m \in F : Makers(m, L)
  BY <1>8, <1>11 DEF Makers
<1>14. Len(L) >= 1
  BY ONLY <1>11
<1>15. QED  BY <1>11, <1>12, <1>13, <1>14 DEF Lesson

(* The variables that are found to be implied.                             *)
Names(L) == { Var(l) : l \in Range(L) }

Followed(n, t, T, L, known) ==
  \A v \in known : \E i \in 1 .. Len(T) :
    /\ Var(T[i].lit) = v
    /\ \/ T[i].level = 0
       \/ v \in Names(L)
       \/ T[i].reason # 0 /\ Antecedents(t, T[i]) \subseteq known

LEMMA FollowIs ==
  ASSUME NEW n \in Nat, NEW t, NEW T, NEW L, NEW i \in 1 .. Len(T), Var(T[i].lit) \in 1 .. n,
         NEW x \in SUBSET (1 .. n), Followed(n, t, T, L, x),
         NEW y, y = Follow(t, L, x, T[i])
  PROVE  y \in SUBSET (1 .. n) /\ Followed(n, t, T, L, y)
<1> DEFINE e == T[i]
           v == Var(e.lit)
<1>1. CASE y = x
  BY <1>1
<1>2. CASE y # x
  <2>1. /\ y = x \cup {v}
        /\ e.level = 0 \/ v \in Names(L) \/ (e.reason # 0 /\ Antecedents(t, e) \subseteq x)
    BY <1>2 DEF Follow, Names
  <2>2. ASSUME NEW w \in y
        PROVE  \E a \in 1 .. Len(T) :
                 /\ Var(T[a].lit) = w
                 /\ \/ T[a].level = 0
                    \/ w \in Names(L)
                    \/ T[a].reason # 0 /\ Antecedents(t, T[a]) \subseteq y
    <3>1. CASE w = v
      BY <2>1, <3>1
    <3>2. CASE w # v
      <4>1. PICK a \in 1 .. Len(T) :
              /\ Var(T[a].lit) = w
              /\ \/ T[a].level = 0
                 \/ w \in Names(L)
                 \/ T[a].reason # 0 /\ Antecedents(t, T[a]) \subseteq x
        BY <2>1, <2>2, <3>2 DEF Followed
      <4>2. Antecedents(t, T[a]) \subseteq x => Antecedents(t, T[a]) \subseteq y
        BY <2>1
      <4>3. QED  BY <4>1, <4>2
    <3>3. QED  BY <3>1, <3>2
  <2>3. QED  BY <2>1, <2>2 DEF Followed
<1>3. QED  BY <1>1, <1>2

LEMMA FollowingIs ==
  ASSUME NEW n \in Nat, NEW t, NEW T, T = t.trail, Len(T) \in Nat,
         \A i \in 1 .. Len(T) : Var(T[i].lit) \in 1 .. n, NEW L
  PROVE  Followed(n, t, T, L, Following(t, L))
<1> DEFINE m == Len(T)
           Turn(k, x) == Follow(t, L, x, T[k])
           X == [k \in 0 .. m |-> { x \in SUBSET (1 .. n) : Followed(n, t, T, L, x) }]
           turn == [k \in 1 .. m |-> [x \in X[k - 1] |-> Turn(k, x)]]
           Is(g) == g = [k \in 0 .. m |-> IF k = 0 THEN {} ELSE Turn(k, g[k - 1])]
           run == CHOOSE g : Is(g)
<1>50. Following(t, L) = run[m]
  BY DEF Loop, Following
<1>60. m \in Nat
  OBVIOUS
<1>40. {} \in SUBSET (1 .. n) /\ Followed(n, t, T, L, {})
  BY DEF Followed
<1>41. ASSUME NEW k \in 1 .. m, NEW x \in SUBSET (1 .. n), Followed(n, t, T, L, x)
       PROVE  Turn(k, x) \in SUBSET (1 .. n) /\ Followed(n, t, T, L, Turn(k, x))
  <2> DEFINE y == Turn(k, x)
  <2>1. y = Follow(t, L, x, T[k]) /\ k \in 1 .. Len(T) /\ Var(T[k].lit) \in 1 .. n
    OBVIOUS
  <2> HIDE DEF y, m, Turn
  <2>2. y \in SUBSET (1 .. n) /\ Followed(n, t, T, L, y)
    <3>1. n \in Nat /\ k \in 1 .. Len(T) /\ Var(T[k].lit) \in 1 .. n
      BY <2>1
    <3>2. y = Follow(t, L, x, T[k]) /\ x \in SUBSET (1 .. n) /\ Followed(n, t, T, L, x)
      BY <1>41, <2>1
    <3>3. QED  BY ONLY <3>1, <3>2, FollowIs
  <2>3. QED  BY <2>2 DEF y
<1>61. m \in Nat
  BY <1>60
<1>62. \A k \in 0 .. m : \A x : x \in X[k] <=> x \in SUBSET (1 .. n) /\ Followed(n, t, T, L, x)
  OBVIOUS
<1> HIDE DEF X
<1>63. {} \in X[0]
  <2>1. 0 \in 0 .. m
    BY <1>61
  <2>2. QED  BY <1>40, <1>62, <2>1
<1>64. ASSUME NEW k \in 1 .. m, NEW x \in X[k - 1] PROVE Turn(k, x) \in X[k]
  <2>1. k - 1 \in 0 .. m /\ k \in 0 .. m
    BY <1>61
  <2>2. x \in SUBSET (1 .. n) /\ Followed(n, t, T, L, x)
    BY <1>62, <2>1
  <2>3. Turn(k, x) \in SUBSET (1 .. n) /\ Followed(n, t, T, L, Turn(k, x))
    BY <1>41, <2>2
  <2> HIDE DEF Turn
  <2>4. QED  BY <1>62, <2>1, <2>3
<1>65. \A k \in 1 .. m : \A x \in X[k - 1] : turn[k][x] \in X[k] /\ turn[k][x] = Turn(k, x)
  BY <1>64
<1> HIDE DEF turn, Is, Turn, m
<1>66. PICK g : Turns(g, m, {}, turn) /\ \A k \in 0 .. m : g[k] \in X[k]
  <2>1. \A k \in 1 .. m : \A x \in X[k - 1] : turn[k][x] \in X[k]
    BY <1>65
  <2>2. QED  BY <1>61, <1>63, <2>1, Stepwise
<1>67. Is(g)
  <2>1. \A k \in 1 .. m : k - 1 \in 0 .. m /\ k \in 0 .. m /\ k # 0
    BY <1>61
  <2>2. \A k \in 1 .. m : g[k] = Turn(k, g[k - 1])
    BY <1>65, <1>66, <2>1 DEF Turns
  <2>3. DOMAIN g = 0 .. m /\ g = [k \in DOMAIN g |-> g[k]]
    BY <1>66 DEF Turns
  <2>4. g[0] = {} /\ \A k \in 0 .. m : k # 0 => k \in 1 .. m
    BY <1>61, <1>66 DEF Turns
  <2>5. QED  BY <2>2, <2>3, <2>4 DEF Is
<1>68. Is(run)
  BY <1>67
<1> HIDE DEF run
<1>69. run[m] \in X[m]
  <2>1. run[0] \in X[0]
    BY <1>61, <1>63, <1>68 DEF Is
  <2>2. ASSUME NEW k \in 1 .. m, run[k - 1] \in X[k - 1] PROVE run[k] \in X[k]
    <3>1. k \in 0 .. m /\ k # 0
      BY <1>61
    <3>2. run[k] = Turn(k, run[k - 1])
      BY <1>68, <3>1 DEF Is
    <3>3. QED  BY <1>65, <2>2, <3>2
  <2>3. QED  BY <1>61, <2>1, <2>2, RunStays
<1>70. run[m] \in SUBSET (1 .. n) /\ Followed(n, t, T, L, run[m])
  <2>1. m \in 0 .. m
    BY <1>61
  <2>2. QED  BY <1>62, <1>69, <2>1
<1>71. QED  BY <1>50, <1>70 DEF m

(* Every literal that is followed back comes from F, unless one of G holds.*)
Backed(t, T, L, G, known) ==
  \A i \in 1 .. Len(T) :
    Var(T[i].lit) \in known \/ (\E l \in Range(L) : T[i].lit = -l) =>
      \/ T[i].level = 0
      \/ \E l \in Range(G) : T[i].lit = -l
      \/ T[i].reason # 0 /\ Antecedents(t, T[i]) \subseteq known

LEMMA BackedHolds ==
  ASSUME NEW n, NEW F, NEW t, NEW C, NEW T, NEW d, Analysis(n, F, t, C, T, d),
         NEW L, NEW G, Range(G) \subseteq LitsOf(n), NEW known, Backed(t, T, L, G, known),
         NEW m \in F, \A l \in Range(G) : ~Makes(m, l)
  PROVE  \A i \in 1 .. Len(T) :
           Var(T[i].lit) \in known \/ (\E l \in Range(L) : T[i].lit = -l) => Makes(m, T[i].lit)
<1>1. /\ n \in Nat /\ m \in Assignments(n) /\ C = t.clause /\ T = t.trail /\ Len(T) \in Nat
      /\ ClausesOk(n, C) /\ ReasonOk(C, T) /\ Sound(F, C, T)
      /\ TrailOk(n, T, t.lim, t.qhead)
  BY DEF Analysis, TrailOk
<1> DEFINE Bad == { i \in 1 .. Len(T) :
                      /\ Var(T[i].lit) \in known \/ (\E l \in Range(L) : T[i].lit = -l)
                      /\ ~Makes(m, T[i].lit) }
<1>2. SUFFICES ASSUME Bad # {} PROVE FALSE
  OBVIOUS
<1>3. PICK i \in Bad : \A y \in Bad : i <= y
  <2>1. Bad \in SUBSET Nat
    OBVIOUS
  <2> HIDE DEF Bad
  <2>2. QED  BY <1>2, <2>1, Least
<1>4. /\ i \in 1 .. Len(T) /\ ~Makes(m, T[i].lit)
      /\ Var(T[i].lit) \in known \/ (\E l \in Range(L) : T[i].lit = -l)
  OBVIOUS
<1>5. \A j \in 1 .. i - 1 : j \in 1 .. Len(T) /\ j \notin Bad
  <2>1. SUFFICES ASSUME NEW j \in 1 .. i - 1 PROVE j \in 1 .. Len(T) /\ j \notin Bad
    OBVIOUS
  <2>2. j \in 1 .. Len(T) /\ ~(i <= j)
    BY ONLY <1>1, <1>4, <2>1
  <2>3. QED  BY <1>3, <2>2
<1>6. \A j \in 1 .. i - 1 : Var(T[j].lit) \in known => Makes(m, T[j].lit)
  BY <1>5
<1> HIDE DEF Bad
<1>7. T[i].lit \in LitsOf(n)
  BY <1>1, <1>4, TrailIs
<1>8. CASE T[i].level = 0
  BY <1>1, <1>4, <1>8 DEF Sound
<1>9. CASE \E l \in Range(G) : T[i].lit = -l
  <2>1. PICK l \in Range(G) : T[i].lit = -l
    BY <1>9
  <2>2. l \in LitsOf(n) /\ ~Makes(m, l)
    BY <2>1
  <2>3. QED  BY <1>1, <1>4, <2>1, <2>2, Literals
<1>10. CASE T[i].reason # 0 /\ Antecedents(t, T[i]) \subseteq known
  <2> DEFINE c == T[i].reason
             K == C[c]
  <2>1. /\ c \in DOMAIN C /\ K[1] = T[i].lit
        /\ \A k \in 2 .. Len(K) : \E j \in 1 .. i - 1 : T[j].lit = -K[k]
    BY <1>1, <1>4, <1>10 DEF ReasonOk
  <2>2. IsClause(n, K) /\ Len(K) >= 2
    BY <1>1, <2>1, ClausesAre
  <2>3. Antecedents(t, T[i]) = { Var(l) : l \in Range(Tail(K)) }
    BY <1>1 DEF Antecedents
  <2>4. PICK l \in Range(K) : Makes(m, l)
    BY <1>1, <2>1 DEF Sound, Makers
  <2> HIDE DEF c, K
  <2>5. /\ K \in Seq(LitsOf(n)) /\ Len(K) \in Nat
        /\ \A x : x \in Range(K) <=> \E k \in 1 .. Len(K) : K[k] = x
        /\ \A k \in 1 .. Len(K) : K[k] \in LitsOf(n)
    BY <1>1, <2>2, ClauseIs
  <2>6. PICK k \in 1 .. Len(K) : K[k] = l
    BY <2>4, <2>5
  <2>7. k \in 2 .. Len(K)
    <3>1. k # 1
      BY <1>4, <2>1, <2>4, <2>6
    <3>2. QED  BY ONLY <2>5, <2>6, <3>1
  <2>8. PICK j \in 1 .. i - 1 : T[j].lit = -l
    BY <2>1, <2>6, <2>7
  <2>9. l \in LitsOf(n)
    BY <2>5, <2>6
  <2>10. Var(l) \in known
    <3>1. Tail(K) \in Seq(LitsOf(n)) /\ Len(Tail(K)) = Len(K) - 1 /\ \A a \in 1 .. Len(Tail(K)) : Tail(K)[a] = K[a + 1]
      <4>1. K # <<>>
        BY <2>2
      <4>2. QED  BY <2>5, <4>1
    <3>2. k - 1 \in 1 .. Len(Tail(K)) /\ k - 1 + 1 = k
      BY ONLY <2>5, <2>7, <3>1
    <3>3. Tail(K)[k - 1] = l
      BY <2>6, <3>1, <3>2
    <3>4. l \in Range(Tail(K))
      <4>1. DOMAIN Tail(K) = 1 .. Len(Tail(K))
        BY <3>1
      <4>2. QED  BY ONLY <3>2, <3>3, <4>1 DEF Range
    <3>5. QED  BY <1>10, <2>3, <3>4
  <2>11. Var(T[j].lit) = Var(l)
    BY <1>1, <2>8, <2>9, Literals
  <2>12. Makes(m, -l)
    BY <1>6, <2>8, <2>10, <2>11
  <2>13. QED  BY <1>1, <2>4, <2>9, <2>12, Literals
<1>11. QED  BY <1>4, <1>8, <1>9, <1>10 DEF Backed

(* The rest of a sequence.                                                 *)
LEMMA TailIs ==
  ASSUME NEW S, NEW L \in Seq(S), Len(L) >= 1, NEW tail, tail = Tail(L)
  PROVE  /\ L[1] \in S /\ Head(L) = L[1] /\ tail \in Seq(S) /\ Len(L) \in Nat /\ Len(tail) = Len(L) - 1
         /\ \A k \in 1 .. Len(tail) : tail[k] = L[k + 1]
         /\ Range(L) = {L[1]} \cup Range(tail)
         /\ IsInjective(L) => IsInjective(tail) /\ L[1] \notin Range(tail)
<1>1. L # <<>> /\ Len(L) \in Nat
  OBVIOUS
<1>2. /\ tail \in Seq(S) /\ Len(tail) = Len(L) - 1 /\ \A k \in 1 .. Len(tail) : tail[k] = L[k + 1]
  BY <1>1
<1>3. DOMAIN L = 1 .. Len(L) /\ DOMAIN tail = 1 .. Len(tail) /\ Len(tail) \in Nat
  BY <1>2
<1>4. 1 \in 1 .. Len(L) /\ \A k \in 1 .. Len(tail) : k + 1 \in 1 .. Len(L) /\ k + 1 # 1
  BY ONLY <1>1, <1>2, <1>3, Len(L) >= 1
<1>5. \A k \in 1 .. Len(L) : k = 1 \/ (k - 1 \in 1 .. Len(tail) /\ k - 1 + 1 = k)
  BY ONLY <1>1, <1>2, <1>3
<1>6. L[1] \in S /\ Head(L) = L[1]
  BY <1>1, <1>4
<1>7. Range(L) = {L[1]} \cup Range(tail)
  <2>1. ASSUME NEW x \in Range(L) PROVE x \in {L[1]} \cup Range(tail)
    <3>1. PICK k \in 1 .. Len(L) : L[k] = x
      BY <1>3, <2>1 DEF Range
    <3>2. k = 1 \/ (tail[k - 1] = x /\ k - 1 \in 1 .. Len(tail))
      BY <1>2, <1>5, <3>1
    <3>3. QED  BY <1>3, <3>1, <3>2 DEF Range
  <2>2. ASSUME NEW x \in {L[1]} \cup Range(tail) PROVE x \in Range(L)
    <3>1. CASE x = L[1]
      BY <1>3, <1>4, <3>1 DEF Range
    <3>2. CASE x \in Range(tail)
      <4>1. PICK k \in 1 .. Len(tail) : tail[k] = x
        BY <1>3, <3>2 DEF Range
      <4>2. k + 1 \in 1 .. Len(L) /\ L[k + 1] = x
        BY <1>2, <1>4, <4>1
      <4>3. QED  BY <1>3, <4>2 DEF Range
    <3>3. QED  BY <2>2, <3>1, <3>2
  <2>3. QED  BY <2>1, <2>2
<1>8. ASSUME IsInjective(L) PROVE IsInjective(tail) /\ L[1] \notin Range(tail)
  <2>1. \A a, b \in 1 .. Len(L) : L[a] = L[b] => a = b
    BY <1>3, <1>8 DEF IsInjective
  <2>2. ASSUME NEW a \in 1 .. Len(tail), NEW b \in 1 .. Len(tail), tail[a] = tail[b] PROVE a = b
    <3>1. a + 1 = b + 1
      BY <1>2, <1>4, <2>1, <2>2
    <3>2. QED  BY ONLY <1>3, <2>2, <3>1
  <2>3. \A a \in 1 .. Len(tail) : tail[a] # L[1]
    BY <1>2, <1>4, <2>1
  <2>4. QED  BY <1>3, <2>2, <2>3 DEF IsInjective, Range
<1>9. QED  BY <1>1, <1>2, <1>6, <1>7, <1>8

Shrinks(n, t, L, G) ==
  /\ G \in Seq(LitsOf(n)) /\ Len(G) >= 1 /\ IsInjective(G) /\ G[1] = L[1]
  /\ Range(G) \subseteq Range(L)
  /\ \A l \in Range(L) \ Range(G) : Redundant(t, L, l)

LEMMA MinimizedShrinks ==
  ASSUME NEW n, NEW t, NEW L \in Seq(LitsOf(n)), Len(L) >= 1, IsInjective(L),
         NEW G, G = Minimized(t, L)
  PROVE  Shrinks(n, t, L, G)
<1> DEFINE S == LitsOf(n)
           keep == { l \in Range(L) : ~Redundant(t, L, l) }
           tail == Tail(L)
           N == Only(tail, keep)
           a == L[1]
<1>1. G = <<Head(L)>> \o N
  BY DEF Minimized
<1>2. L \in Seq(S) /\ tail = Tail(L)
  OBVIOUS
<1>3. N = Only(tail, keep) /\ \A l \in Range(L) : l \notin keep => Redundant(t, L, l)
  OBVIOUS
<1> HIDE DEF S, keep, tail, N
<1>4. /\ a \in S /\ Head(L) = a /\ tail \in Seq(S)
      /\ Range(L) = {a} \cup Range(tail) /\ IsInjective(tail) /\ a \notin Range(tail)
  BY <1>2, TailIs
<1>5. N \in Seq(S) /\ Range(N) = Range(tail) \cap keep /\ IsInjective(N)
  BY <1>3, <1>4, OnlyIs
<1>6. Consed(G, a, N)
  BY <1>1, <1>4 DEF Consed
<1> HIDE DEF a
<1>7. /\ G \in Seq(S) /\ Len(N) \in Nat /\ Len(G) = Len(N) + 1 /\ G[1] = a
      /\ Range(G) = {a} \cup Range(N)
      /\ IsInjective(N) /\ a \notin Range(N) => IsInjective(G)
  BY ONLY <1>4, <1>5, <1>6, ConsIs
<1>8. Len(G) >= 1
  BY ONLY <1>7
<1>9. QED  BY <1>3, <1>4, <1>5, <1>7, <1>8 DEF Shrinks, S, a

LEMMA MinimizedIs ==
  ASSUME NEW n, NEW F, NEW t, NEW C, NEW T, NEW d, Analysis(n, F, t, C, T, d),
         NEW L, Lesson(n, F, T, d, L), NEW G, G = Minimized(t, L)
  PROVE  Lesson(n, F, T, d, G)
<1>14. n \in Nat /\ F \in SUBSET Assignments(n) /\ T = t.trail /\ TrailOk(n, T, t.lim, t.qhead)
  BY DEF Analysis
<1>1. /\ n \in Nat /\ F \in SUBSET Assignments(n) /\ T = t.trail /\ Len(T) \in Nat
      /\ TrailOk(n, T, t.lim, t.qhead)
      /\ \A a, b \in 1 .. Len(T) : Var(T[a].lit) = Var(T[b].lit) => a = b
  <2>1. Len(T) \in Nat /\ \A a, b \in 1 .. Len(T) : Var(T[a].lit) = Var(T[b].lit) => a = b
    BY <1>14 DEF TrailOk
  <2>2. QED  BY <1>14, <2>1
<1>2. /\ L \in Seq(LitsOf(n)) /\ Len(L) >= 1 /\ IsInjective(L)
      /\ \A k \in 1 .. Len(L) : \E i \in 1 .. Len(T) :
           T[i].lit = -L[k] /\ T[i].level > 0 /\ (T[i].level = d <=> k = 1)
      /\ \A m \in F : Makers(m, L)
  BY DEF Lesson
<1>3. Shrinks(n, t, L, G)
  BY <1>2, MinimizedShrinks
<1>4. /\ G \in Seq(LitsOf(n)) /\ Len(G) >= 1 /\ IsInjective(G) /\ G[1] = L[1]
      /\ Range(G) \subseteq Range(L)
      /\ \A l \in Range(L) \ Range(G) : Redundant(t, L, l)
  BY <1>3 DEF Shrinks
<1>5. DOMAIN L = 1 .. Len(L) /\ DOMAIN G = 1 .. Len(G) /\ 1 \in 1 .. Len(L) /\ 1 \in 1 .. Len(G)
  <2>1. DOMAIN L = 1 .. Len(L) /\ DOMAIN G = 1 .. Len(G) /\ Len(L) \in Nat /\ Len(G) \in Nat
    BY <1>2, <1>4
  <2>2. QED  BY ONLY <1>2, <1>4, <2>1
<1>6. ASSUME NEW k \in 1 .. Len(G)
      PROVE  \E i \in 1 .. Len(T) : T[i].lit = -G[k] /\ T[i].level > 0 /\ (T[i].level = d <=> k = 1)
  <2>1. G[k] \in Range(L)
    BY <1>4, <1>5 DEF Range
  <2>2. PICK a \in 1 .. Len(L) : L[a] = G[k]
    BY <1>5, <2>1 DEF Range
  <2>3. a = 1 <=> k = 1
    <3>1. L[a] = L[1] => a = 1
      BY <1>2, <1>5 DEF IsInjective
    <3>2. G[k] = G[1] => k = 1
      BY <1>4, <1>5, <1>6 DEF IsInjective
    <3>3. QED  BY <1>4, <2>2, <3>1, <3>2
  <2>4. QED  BY <1>2, <2>2, <2>3
<1>7. \A l \in Range(L) : l \in LitsOf(n) /\ \E i \in 1 .. Len(T) : T[i].lit = -l
  <2>1. SUFFICES ASSUME NEW l \in Range(L) PROVE l \in LitsOf(n) /\ \E i \in 1 .. Len(T) : T[i].lit = -l
    OBVIOUS
  <2>2. PICK a \in 1 .. Len(L) : L[a] = l
    BY <1>5, <2>1 DEF Range
  <2>3. QED  BY <1>2, <2>2
<1> DEFINE known == Following(t, L)
<1>8. Followed(n, t, T, L, known)
  <2>1. \A i \in 1 .. Len(T) : Var(T[i].lit) \in 1 .. n
    BY <1>1, TrailIs, Literals
  <2>2. QED  BY <1>1, <2>1, FollowingIs
<1>9. known = Following(t, L)
  OBVIOUS
<1> HIDE DEF known
<1>10. ASSUME NEW i \in 1 .. Len(T), NEW l \in Range(L), T[i].lit = -l
       PROVE  \/ \E k \in Range(G) : T[i].lit = -k
              \/ T[i].reason # 0 /\ Antecedents(t, T[i]) \subseteq known
  <2>1. CASE l \in Range(G)
    BY <1>10, <2>1
  <2>2. CASE l \notin Range(G)
    <3>1. Redundant(t, L, l)
      BY <1>4, <2>2
    <3>2. Entry(t, Var(l)) = T[i]
      <4> DEFINE M == t.lim
                 q == t.qhead
      <4>1. n \in Nat /\ TrailOk(n, t.trail, M, q) /\ i \in 1 .. Len(t.trail) /\ l \in LitsOf(n) /\ t.trail[i].lit = -l
        BY <1>1, <1>7, <1>10
      <4> HIDE DEF M, q
      <4>2. Entry(t, Var(l)) = t.trail[i]
        BY ONLY <4>1, EntryIs
      <4>3. QED  BY <1>1, <4>2
    <3>3. QED  BY <1>9, <3>1, <3>2 DEF Redundant
  <2>3. QED  BY <2>1, <2>2
<1>11. Backed(t, T, L, G, known)
  <2>1. SUFFICES ASSUME NEW i \in 1 .. Len(T),
                        Var(T[i].lit) \in known \/ (\E l \in Range(L) : T[i].lit = -l)
                 PROVE  \/ T[i].level = 0
                        \/ \E l \in Range(G) : T[i].lit = -l
                        \/ T[i].reason # 0 /\ Antecedents(t, T[i]) \subseteq known
    BY DEF Backed
  <2>2. CASE \E l \in Range(L) : T[i].lit = -l
    BY <1>10, <2>2
  <2>3. CASE Var(T[i].lit) \in known
    <3>1. PICK a \in 1 .. Len(T) :
            /\ Var(T[a].lit) = Var(T[i].lit)
            /\ \/ T[a].level = 0
               \/ Var(T[i].lit) \in Names(L)
               \/ T[a].reason # 0 /\ Antecedents(t, T[a]) \subseteq known
      BY <1>8, <2>3 DEF Followed
    <3>2. a = i
      BY <1>1, <3>1
    <3>3. CASE Var(T[i].lit) \in Names(L)
      <4>1. PICK l \in Range(L) : Var(l) = Var(T[i].lit)
        BY <3>3 DEF Names
      <4>2. PICK b \in 1 .. Len(T) : T[b].lit = -l
        BY <1>7
      <4>3. Var(T[b].lit) = Var(l)
        BY <1>1, <1>7, <4>2, Literals
      <4>4. b = i
        BY <1>1, <4>1, <4>3
      <4>5. QED  BY <1>10, <4>2, <4>4
    <3>4. QED  BY <3>1, <3>2, <3>3
  <2>4. QED  BY <2>1, <2>2, <2>3
<1>12. ASSUME NEW m \in F PROVE Makers(m, G)
  <2>1. SUFFICES ASSUME \A l \in Range(G) : ~Makes(m, l) PROVE FALSE
    BY DEF Makers
  <2>2. Range(G) \subseteq LitsOf(n)
    BY <1>4, <1>7
  <2>3. \A i \in 1 .. Len(T) :
          Var(T[i].lit) \in known \/ (\E l \in Range(L) : T[i].lit = -l) => Makes(m, T[i].lit)
    BY <1>11, <2>1, <2>2, BackedHolds
  <2>4. PICK l \in Range(L) : Makes(m, l)
    BY <1>2 DEF Makers
  <2>5. PICK i \in 1 .. Len(T) : T[i].lit = -l
    BY <1>7
  <2>6. Makes(m, -l)
    BY <2>3, <2>5
  <2>7. QED  BY <1>1, <1>7, <2>4, <2>6, Literals
<1>13. QED  BY <1>4, <1>6, <1>12 DEF Lesson

(* The second literal is of the highest level but the first.               *)
Headed(T, L) ==
  \A k \in 2 .. Len(L) : \A i, j \in 1 .. Len(T) :
    T[i].lit = -L[k] /\ T[j].lit = -L[2] => T[i].level <= T[j].level

LEMMA LessonPermuted ==
  ASSUME NEW n, NEW F, NEW T, NEW d, NEW L, Lesson(n, F, T, d, L),
         NEW G, G \in Seq(LitsOf(n)), Len(G) >= 1, IsInjective(G), G[1] = L[1], Range(G) = Range(L)
  PROVE  Lesson(n, F, T, d, G)
<1>1. /\ L \in Seq(LitsOf(n)) /\ Len(L) >= 1 /\ IsInjective(L)
      /\ \A k \in 1 .. Len(L) : \E i \in 1 .. Len(T) :
           T[i].lit = -L[k] /\ T[i].level > 0 /\ (T[i].level = d <=> k = 1)
      /\ \A m \in F : Makers(m, L)
  BY DEF Lesson
<1>2. DOMAIN L = 1 .. Len(L) /\ DOMAIN G = 1 .. Len(G) /\ 1 \in 1 .. Len(L) /\ 1 \in 1 .. Len(G)
  <2>1. DOMAIN L = 1 .. Len(L) /\ DOMAIN G = 1 .. Len(G) /\ Len(L) \in Nat /\ Len(G) \in Nat
    BY <1>1
  <2>2. QED  BY ONLY <1>1, <2>1, Len(G) >= 1
<1>3. ASSUME NEW k \in 1 .. Len(G)
      PROVE  \E i \in 1 .. Len(T) : T[i].lit = -G[k] /\ T[i].level > 0 /\ (T[i].level = d <=> k = 1)
  <2>1. G[k] \in Range(L)
    BY <1>2 DEF Range
  <2>2. PICK a \in 1 .. Len(L) : L[a] = G[k]
    BY <1>2, <2>1 DEF Range
  <2>3. a = 1 <=> k = 1
    <3>1. L[a] = L[1] => a = 1
      BY <1>1, <1>2 DEF IsInjective
    <3>2. G[k] = G[1] => k = 1
      BY <1>2, <1>3 DEF IsInjective
    <3>3. QED  BY <2>2, <3>1, <3>2
  <2>4. QED  BY <1>1, <2>2, <2>3
<1>4. \A m \in F : Makers(m, G)
  BY <1>1 DEF Makers
<1>5. QED  BY <1>3, <1>4 DEF Lesson

(* Some number of a list is the highest.                                   *)
LEMMA Highest ==
  ASSUME NEW I, NEW i0 \in I, NEW D \in Nat, NEW f, \A i \in I : f[i] \in 0 .. D
  PROVE  \E i \in I : \A j \in I : f[j] <= f[i]
<1> DEFINE S == { D - f[i] : i \in I }
<1>1. S \in SUBSET Nat /\ S # {}
  <2>1. \A i \in I : D - f[i] \in Nat
    OBVIOUS
  <2>2. QED  BY <2>1
<1>2. PICK x \in S : \A y \in S : x <= y
  <2> HIDE DEF S
  <2>1. QED  BY <1>1, Least
<1>3. PICK i \in I : x = D - f[i]
  BY <1>2
<1>4. \A j \in I : D - f[i] <= D - f[j]
  BY <1>2, <1>3
<1>5. \A j \in I : f[j] <= f[i]
  BY <1>4
<1>6. QED  BY <1>5

LEMMA ArrangedIs ==
  ASSUME NEW n, NEW F, NEW t, NEW C, NEW T, NEW d, Analysis(n, F, t, C, T, d),
         NEW L, Lesson(n, F, T, d, L), NEW G, G = Arranged(t, L)
  PROVE  Lesson(n, F, T, d, G) /\ Headed(T, G)
<1>1. n \in Nat /\ T = t.trail /\ TrailOk(n, T, t.lim, t.qhead) /\ d = Len(t.lim)
  BY DEF Analysis
<1>2. /\ L \in Seq(LitsOf(n)) /\ Len(L) >= 1 /\ IsInjective(L) /\ Len(L) \in Nat
      /\ \A k \in 1 .. Len(L) : \E i \in 1 .. Len(T) : T[i].lit = -L[k]
  <2>1. /\ L \in Seq(LitsOf(n)) /\ Len(L) >= 1 /\ IsInjective(L)
        /\ \A k \in 1 .. Len(L) : \E i \in 1 .. Len(T) : T[i].lit = -L[k]
    BY DEF Lesson
  <2>2. Len(L) \in Nat
    BY <2>1
  <2>3. QED  BY <2>1, <2>2
<1>3. /\ d \in Nat /\ \A i \in 1 .. Len(T) : T[i].level \in 0 .. d
      /\ \A a, b \in 1 .. Len(T) : Var(T[a].lit) = Var(T[b].lit) => a = b
  <2> DEFINE M == t.lim
             q == t.qhead
  <2>1. n \in Nat /\ TrailOk(n, T, M, q) /\ d = Len(M)
    BY <1>1
  <2>2. \A a, b \in 1 .. Len(T) : Var(T[a].lit) = Var(T[b].lit) => a = b
    BY <2>1 DEF TrailOk
  <2> HIDE DEF M, q
  <2>3. Len(M) \in Nat /\ \A x \in 1 .. Len(T) : T[x].level \in 0 .. Len(M)
    BY ONLY <2>1, TrailIs
  <2>4. QED  BY <2>1, <2>2, <2>3
<1>4. ASSUME NEW k \in 1 .. Len(L), NEW i \in 1 .. Len(T), T[i].lit = -L[k]
      PROVE  LevelOf(t, L[k]) = T[i].level
  <2> DEFINE M == t.lim
             q == t.qhead
             l == L[k]
  <2>1. n \in Nat /\ TrailOk(n, t.trail, M, q) /\ i \in 1 .. Len(t.trail) /\ l \in LitsOf(n) /\ t.trail[i].lit = -l
    BY <1>1, <1>2, <1>4
  <2> HIDE DEF M, q, l
  <2>2. LevelOf(t, l) = t.trail[i].level
    BY ONLY <2>1, EntryIs
  <2>3. QED  BY <1>1, <2>2 DEF l
<1>5. CASE Len(L) < 3
  <2>1. G = L
    BY <1>5 DEF Arranged
  <2>2. \A k \in 2 .. Len(L) : k = 2
    BY ONLY <1>2, <1>5
  <2>3. Headed(T, L)
    <3>1. SUFFICES ASSUME NEW k \in 2 .. Len(L), NEW i \in 1 .. Len(T), NEW j \in 1 .. Len(T),
                          T[i].lit = -L[k], T[j].lit = -L[2]
                   PROVE  T[i].level <= T[j].level
      BY DEF Headed
    <3>2. T[i].lit = T[j].lit
      BY <2>2, <3>1
    <3>3. i = j
      BY <1>3, <3>2
    <3>4. T[i].level \in Int
      BY <1>3
    <3>5. QED  BY <3>3, <3>4
  <2>4. QED  BY <2>1, <2>3
<1>6. CASE ~(Len(L) < 3)
  <2> DEFINE f == [k \in 1 .. Len(L) |-> LevelOf(t, L[k])]
             I == 2 .. Len(L)
             top == { i \in I : \A j \in I : LevelOf(t, L[j]) <= LevelOf(t, L[i]) }
             i0 == CHOOSE k \in top : \A j \in top : k <= j
  <2>1. /\ I \subseteq 1 .. Len(L) /\ I \subseteq Nat /\ 2 \in I /\ 1 \notin I
        /\ 1 \in 1 .. Len(L) /\ 2 \in 1 .. Len(L)
    BY ONLY <1>2, <1>6
  <2>2. \A k \in 1 .. Len(L) : f[k] = LevelOf(t, L[k]) /\ f[k] \in 0 .. d
    BY <1>2, <1>3, <1>4
  <2>3. i0 \in top
    <3>1. top # {}
      <4> HIDE DEF f, I
      <4>1. PICK i \in I : \A j \in I : f[j] <= f[i]
        <5>1. 2 \in I /\ d \in Nat /\ \A i \in I : f[i] \in 0 .. d
          BY <1>3, <2>1, <2>2
        <5>2. QED  BY ONLY <5>1, Highest
      <4>2. i \in top
        BY <2>1, <2>2, <4>1
      <4>3. QED  BY <4>2
    <3>2. top \in SUBSET Nat
      BY <2>1
    <3> HIDE DEF top
    <3>3. \E k \in top : \A j \in top : k <= j
      BY <3>1, <3>2, Least
    <3>4. QED  BY <3>3
  <2>4. G = Swapped(L, 2, i0)
    BY <1>6 DEF Arranged, Swapped
  <2>5. i0 \in I /\ \A j \in I : LevelOf(t, L[j]) <= LevelOf(t, L[i0])
    BY <2>3
  <2> HIDE DEF i0, top, f, I
  <2>6. i0 \in 1 .. Len(L) /\ i0 # 1
    BY <2>1, <2>5
  <2>7. /\ G \in Seq(LitsOf(n)) /\ Len(G) = Len(L) /\ Range(G) = Range(L)
        /\ G[2] = L[i0] /\ G[i0] = L[2] /\ \A k \in 1 .. Len(L) : k # 2 /\ k # i0 => G[k] = L[k]
        /\ IsInjective(G)
    <3> DEFINE two == 2
    <3>1. L \in Seq(LitsOf(n)) /\ two \in 1 .. Len(L) /\ i0 \in 1 .. Len(L) /\ G = Swapped(L, two, i0)
      BY <1>2, <2>1, <2>4, <2>6
    <3> HIDE DEF two
    <3>2. /\ G \in Seq(LitsOf(n)) /\ Len(G) = Len(L) /\ Range(G) = Range(L)
          /\ G[two] = L[i0] /\ G[i0] = L[two] /\ \A k \in 1 .. Len(L) : k # two /\ k # i0 => G[k] = L[k]
          /\ IsInjective(L) => IsInjective(G)
      BY <3>1, SwapPlaces
    <3>3. QED  BY <1>2, <3>2 DEF two
  <2>8. G[1] = L[1]
    BY <2>1, <2>6, <2>7
  <2>9. Lesson(n, F, T, d, G)
    BY <1>2, <2>7, <2>8, LessonPermuted
  <2>10. Headed(T, G)
    <3>1. SUFFICES ASSUME NEW k \in 2 .. Len(G), NEW i \in 1 .. Len(T), NEW j \in 1 .. Len(T),
                          T[i].lit = -G[k], T[j].lit = -G[2]
                   PROVE  T[i].level <= T[j].level
      BY DEF Headed
    <3>2. \E a \in I : G[k] = L[a]
      <4>1. k \in I
        BY <2>7 DEF I
      <4>2. QED  BY <2>1, <2>5, <2>7, <4>1
    <3>3. PICK a \in I : G[k] = L[a]
      BY <3>2
    <3>4. LevelOf(t, L[a]) = T[i].level
      BY <1>4, <2>1, <3>1, <3>3
    <3>5. LevelOf(t, L[i0]) = T[j].level
      BY <1>4, <2>6, <2>7, <3>1
    <3>6. QED  BY <2>5, <3>4, <3>5
  <2>11. QED  BY <2>9, <2>10
<1>7. QED  BY <1>5, <1>6

-----------------------------------------------------------------------------
(* Going back and learning the clause.                                     *)
Learning(n, F, t, C, T, d, A, L) ==
  /\ n \in Nat /\ F \in SUBSET Assignments(n)
  /\ Good(n, t) /\ C = t.clause /\ T = t.trail /\ d = Len(t.lim) /\ d > 0
  /\ Sound(F, C, T) /\ Lossless(n, F, t.orig, C, T)
  /\ t.qhead = Len(T) /\ Looked(C, T, t.qhead, d - 1)
  /\ A \in Seq(LitsOf(n)) /\ AssumedOk(T, t.lim, A)
  /\ Lesson(n, F, T, d, L) /\ Headed(T, L)

(* The level b to go back to: the first literal became false after it, the *)
(* second on it and the others not later.                                  *)
Backing(T, d, L, b) ==
  /\ b \in Nat /\ b < d
  /\ \E i \in 1 .. Len(T) : T[i].lit = -L[1] /\ T[i].level = d
  /\ \A k \in 2 .. Len(L) : \E i \in 1 .. Len(T) : T[i].lit = -L[k] /\ T[i].level <= b
  /\ Len(L) = 1 => b = 0
  /\ Len(L) # 1 => Len(L) >= 2 /\ b > 0 /\ \E i \in 1 .. Len(T) : T[i].lit = -L[2] /\ T[i].level = b

(* The levels of the entries.                                              *)
LEMMA LevelsAre ==
  ASSUME NEW n \in Nat, NEW t, NEW T, T = t.trail, TrailOk(n, T, t.lim, t.qhead), NEW d, d = Len(t.lim)
  PROVE  /\ d \in Nat /\ Len(T) \in Nat /\ \A i \in 1 .. Len(T) : T[i].level \in 0 .. d
         /\ \A a, b \in 1 .. Len(T) : Var(T[a].lit) = Var(T[b].lit) => a = b
         /\ \A i \in 1 .. Len(T) : \A l \in LitsOf(n) : T[i].lit = -l => LevelOf(t, l) = T[i].level /\ Entry(t, Var(l)) = T[i]
         /\ \A l \in LitsOf(n) : ~(OnTrail(T, l) /\ OnTrail(T, -l))
         /\ \A i \in 1 .. Len(T) : T[i].lit \in LitsOf(n)
<1> DEFINE M == t.lim
           q == t.qhead
<1>1. n \in Nat /\ TrailOk(n, T, M, q) /\ TrailOk(n, t.trail, M, q) /\ d = Len(M)
  OBVIOUS
<1>2. Len(T) \in Nat /\ \A a, b \in 1 .. Len(T) : Var(T[a].lit) = Var(T[b].lit) => a = b
  BY <1>1 DEF TrailOk
<1> HIDE DEF M, q
<1>3. /\ Len(M) \in Nat /\ (\A x \in 1 .. Len(T) : T[x].level \in 0 .. Len(M))
      /\ \A x \in 1 .. Len(T) : T[x].lit \in LitsOf(n)
      /\ \A l \in LitsOf(n) : ~(OnTrail(T, l) /\ OnTrail(T, -l))
  BY ONLY <1>1, TrailIs
<1>4. ASSUME NEW i \in 1 .. Len(T), NEW l \in LitsOf(n), T[i].lit = -l
      PROVE  LevelOf(t, l) = T[i].level /\ Entry(t, Var(l)) = T[i]
  <2>1. i \in 1 .. Len(t.trail) /\ t.trail[i].lit = -l
    BY <1>4
  <2>2. LevelOf(t, l) = t.trail[i].level /\ Entry(t, Var(l)) = t.trail[i]
    BY ONLY n \in Nat, l \in LitsOf(n), <1>1, <2>1, EntryIs
  <2>3. QED  BY <2>2
<1>5. QED  BY <1>1, <1>2, <1>3, <1>4

LEMMA BackLevelIs ==
  ASSUME NEW n, NEW F, NEW t, NEW C, NEW T, NEW d, NEW A, NEW L, Learning(n, F, t, C, T, d, A, L),
         NEW b, b = BackLevel(t, L)
  PROVE  Backing(T, d, L, b)
<1>1. /\ n \in Nat /\ T = t.trail /\ d = Len(t.lim) /\ d > 0 /\ TrailOk(n, T, t.lim, t.qhead)
      /\ Lesson(n, F, T, d, L) /\ Headed(T, L)
  BY DEF Learning, Good
<1>2. /\ d \in Nat /\ Len(T) \in Nat /\ (\A i \in 1 .. Len(T) : T[i].level \in 0 .. d)
      /\ \A i \in 1 .. Len(T) : \A l \in LitsOf(n) : T[i].lit = -l => LevelOf(t, l) = T[i].level
  BY <1>1, LevelsAre
<1>3. /\ L \in Seq(LitsOf(n)) /\ Len(L) >= 1
      /\ \A k \in 1 .. Len(L) : \E i \in 1 .. Len(T) :
           T[i].lit = -L[k] /\ T[i].level > 0 /\ (T[i].level = d <=> k = 1)
  BY <1>1 DEF Lesson
<1>4. Len(L) \in Nat /\ 1 \in 1 .. Len(L) /\ \A k \in 2 .. Len(L) : k \in 1 .. Len(L) /\ k # 1
  <2>1. Len(L) \in Nat
    BY <1>3
  <2>2. QED  BY ONLY <1>3, <2>1
<1>5. \E i \in 1 .. Len(T) : T[i].lit = -L[1] /\ T[i].level = d
  BY <1>3, <1>4
<1>6. CASE Len(L) = 1
  <2>1. b = 0
    BY <1>6 DEF BackLevel
  <2>2. \A k \in 2 .. Len(L) : FALSE
    BY <1>6
  <2>3. 0 \in Nat /\ 0 < d
    BY ONLY <1>1, <1>2
  <2>4. QED  BY <1>5, <1>6, <2>1, <2>2, <2>3 DEF Backing
<1>7. CASE Len(L) # 1
  <2>1. Len(L) >= 2 /\ 2 \in 1 .. Len(L)
    <3> DEFINE z == Len(L)
    <3>1. z \in Nat /\ z >= 1 /\ z # 1
      BY <1>3, <1>4, <1>7
    <3> HIDE DEF z
    <3>2. z >= 2 /\ 2 \in 1 .. z
      BY ONLY <3>1
    <3>3. QED  BY <3>2 DEF z
  <2>2. PICK j \in 1 .. Len(T) : T[j].lit = -L[2] /\ T[j].level > 0 /\ T[j].level # d
    BY <1>3, <2>1
  <2>3. L[2] \in LitsOf(n)
    BY <1>3, <2>1
  <2>4. b = T[j].level
    BY <1>2, <1>7, <2>2, <2>3 DEF BackLevel
  <2>5. T[j].level \in 0 .. d
    BY <1>2
  <2>6. b \in Nat /\ b < d
    BY ONLY <1>2, <2>2, <2>4, <2>5
  <2>7. ASSUME NEW k \in 2 .. Len(L) PROVE \E i \in 1 .. Len(T) : T[i].lit = -L[k] /\ T[i].level <= b
    <3>1. PICK i \in 1 .. Len(T) : T[i].lit = -L[k]
      BY <1>3, <1>4
    <3>2. QED  BY <1>1, <2>2, <2>4, <3>1 DEF Headed
  <2>8. QED  BY <1>5, <1>7, <2>1, <2>2, <2>4, <2>6, <2>7 DEF Backing
<1>8. QED  BY <1>6, <1>7

(* The solver v at the level b, ready for the clause.                      *)
Back(n, F, A, L, b, v) ==
  /\ Good(n, v) /\ Len(v.lim) = b /\ v.qhead = Len(v.trail)
  /\ Sound(F, v.clause, v.trail) /\ Lossless(n, F, v.orig, v.clause, v.trail)
  /\ Looked(v.clause, v.trail, v.qhead, b) /\ AssumedOk(v.trail, v.lim, A)
  /\ L[1] \in LitsOf(n) /\ Free(v.trail, L[1])
  /\ \A k \in 2 .. Len(L) : OnTrail(v.trail, -L[k])
  /\ \A i \in 1 .. Len(v.trail) : v.trail[i].lit = -L[2] /\ Len(L) # 1 => v.trail[i].level = b
  /\ IsClause(n, L) /\ \A m \in F : Makers(m, L)
  /\ Len(L) # 1 => b > 0

LEMMA LessonClause ==
  ASSUME NEW n, NEW F, NEW t, NEW C, NEW T, NEW d, NEW A, NEW L, Learning(n, F, t, C, T, d, A, L)
  PROVE  IsClause(n, L)
<1>1. /\ n \in Nat /\ T = t.trail /\ TrailOk(n, T, t.lim, t.qhead) /\ d = Len(t.lim)
      /\ Lesson(n, F, T, d, L)
  BY DEF Learning, Good
<1>2. \A l \in LitsOf(n) : ~(OnTrail(T, l) /\ OnTrail(T, -l))
  BY <1>1, LevelsAre
<1>3. /\ L \in Seq(LitsOf(n)) /\ IsInjective(L)
      /\ \A k \in 1 .. Len(L) : \E i \in 1 .. Len(T) : T[i].lit = -L[k]
  BY <1>1 DEF Lesson
<1>4. DOMAIN L = 1 .. Len(L)
  BY <1>3
<1>5. \A l \in Range(L) : l \in LitsOf(n) /\ OnTrail(T, -l)
  BY <1>3, <1>4 DEF Range, OnTrail
<1>6. ASSUME NEW l \in Range(L), -l \in Range(L) PROVE FALSE
  <2>1. OnTrail(T, -l) /\ OnTrail(T, -(-l)) /\ -l \in LitsOf(n)
    BY <1>5, <1>6
  <2>2. QED  BY <1>2, <2>1
<1>7. QED  BY <1>3, <1>6 DEF IsClause

LEMMA LessonBack ==
  ASSUME NEW n, NEW F, NEW t, NEW C, NEW T, NEW d, NEW A, NEW L, Learning(n, F, t, C, T, d, A, L),
         NEW b, Backing(T, d, L, b), NEW v, v = cancelUntil(t, b)
  PROVE  Back(n, F, A, L, b, v) /\ v.clause = C /\ v.ok = t.ok
<1> DEFINE M == t.lim
           q == t.qhead
           U == v.trail
           N == v.lim
           m == v.qhead
           O == t.orig
<1>1. /\ n \in Nat /\ F \in SUBSET Assignments(n) /\ Good(n, t) /\ C = t.clause /\ T = t.trail
      /\ d = Len(M) /\ d > 0 /\ TrailOk(n, T, M, q)
      /\ ReasonOk(C, T) /\ DecisionsOk(T, M)
      /\ Sound(F, C, T) /\ Lossless(n, F, O, C, T)
      /\ q = Len(T) /\ Looked(C, T, q, d - 1)
      /\ A \in Seq(LitsOf(n)) /\ AssumedOk(T, M, A) /\ Lesson(n, F, T, d, L)
  BY DEF Learning, Good
<1>2. /\ d \in Nat /\ Len(T) \in Nat
      /\ \A a, z \in 1 .. Len(T) : Var(T[a].lit) = Var(T[z].lit) => a = z
      /\ \A l \in LitsOf(n) : ~(OnTrail(T, l) /\ OnTrail(T, -l))
  BY <1>1, LevelsAre
<1>3. b \in Nat /\ b < d
  BY DEF Backing
<1>4. /\ Good(n, v) /\ CancelFrame(t, v) /\ Cut(T, M, b, m, U, N) /\ m = Len(U) /\ Len(N) = b
  BY <1>1, <1>3, CancelIs
<1>5. v.ok = t.ok /\ v.clause = C /\ v.orig = O
  BY <1>1, <1>4 DEF CancelFrame
<1> HIDE DEF M, q, U, N, m, O
<1>6. /\ m \in Nat /\ \A i \in 1 .. m : i \in 1 .. Len(T) /\ U[i] = T[i]
      /\ \A i \in 1 .. Len(T) : i \in 1 .. m <=> T[i].level <= b
  <2>1. /\ m \in 0 .. q /\ (\A i \in 1 .. m : i \in 1 .. Len(T) /\ U[i] = T[i])
        /\ \A i \in 1 .. Len(T) : i \in 1 .. m <=> T[i].level <= b
    BY <1>1, <1>4, CutIs
  <2>2. QED  BY <2>1
<1>7. /\ Sound(F, C, U) /\ Lossless(n, F, O, C, U) /\ Looked(C, U, m, b) /\ AssumedOk(U, N, A)
  <2>1. /\ Sound(F, C, T) => Sound(F, C, U)
        /\ Lossless(n, F, O, C, T) => Lossless(n, F, O, C, U)
        /\ \A high \in Nat : b <= high /\ Looked(C, T, q, high) => Looked(C, U, m, b)
        /\ \A B \in Seq(LitsOf(n)) : AssumedOk(T, M, B) => AssumedOk(U, N, B)
    BY ONLY <1>1, <1>4, CutKeeps
  <2>2. d - 1 \in Nat /\ b <= d - 1
    BY ONLY <1>1, <1>2, <1>3
  <2>3. QED  BY <1>1, <2>1, <2>2
<1>8. /\ L \in Seq(LitsOf(n)) /\ Len(L) >= 1 /\ \A x \in F : Makers(x, L)
  BY <1>1 DEF Lesson
<1>9. /\ Len(L) \in Nat /\ 1 \in 1 .. Len(L) /\ L[1] \in LitsOf(n)
      /\ \A k \in 2 .. Len(L) : k \in 1 .. Len(L) /\ L[k] \in LitsOf(n)
  <2>1. Len(L) \in Nat /\ \A k \in 1 .. Len(L) : L[k] \in LitsOf(n)
    BY <1>8
  <2>2. 1 \in 1 .. Len(L) /\ \A k \in 2 .. Len(L) : k \in 1 .. Len(L)
    BY ONLY <1>8, <2>1
  <2>3. QED  BY <2>1, <2>2
<1>10. \A l : OnTrail(U, l) <=> \E i \in 1 .. Len(T) : T[i].lit = l /\ T[i].level <= b
  BY <1>4, <1>6 DEF OnTrail
<1>11. Free(U, L[1])
  <2>1. PICK i \in 1 .. Len(T) : T[i].lit = -L[1] /\ T[i].level = d
    BY DEF Backing
  <2>2. ~OnTrail(U, -L[1])
    <3>1. SUFFICES ASSUME NEW a \in 1 .. Len(T), T[a].lit = -L[1], T[a].level <= b PROVE FALSE
      BY <1>10
    <3>2. a = i
      BY <1>2, <2>1, <3>1
    <3>3. QED  BY ONLY <1>2, <1>3, <2>1, <3>1, <3>2
  <2>3. ~OnTrail(U, L[1])
    <3>1. OnTrail(T, -L[1])
      BY <2>1 DEF OnTrail
    <3>2. ~OnTrail(T, L[1])
      BY <1>2, <1>9, <3>1
    <3>3. QED  BY <1>10, <3>2 DEF OnTrail
  <2>4. QED  BY <2>2, <2>3 DEF Free
<1>12. \A k \in 2 .. Len(L) : OnTrail(U, -L[k])
  BY <1>10 DEF Backing
<1>13. ASSUME NEW i \in 1 .. Len(U), U[i].lit = -L[2], Len(L) # 1 PROVE U[i].level = b
  <2>1. PICK j \in 1 .. Len(T) : T[j].lit = -L[2] /\ T[j].level = b
    BY <1>13 DEF Backing
  <2>2. i \in 1 .. Len(T) /\ U[i] = T[i]
    BY <1>4, <1>6
  <2>3. i = j
    BY <1>2, <1>13, <2>1, <2>2
  <2>4. QED  BY <2>1, <2>2, <2>3
<1>14. IsClause(n, L)
  BY LessonClause
<1>16. Len(L) # 1 => b > 0
  BY DEF Backing
<1>15. QED  BY <1>4, <1>5, <1>7, <1>8, <1>9, <1>11, <1>12, <1>13, <1>14, <1>16 DEF Back, U, N, m, O

(* A literal more that is no decision.                                     *)
LEMMA AssumedGrows ==
  ASSUME NEW T, NEW M, NEW A, AssumedOk(T, M, A), Len(T) \in Nat, NEW l, NEW from, from # 0 \/ Len(M) = 0,
         NEW U, Len(U) = Len(T) + 1, \A i \in 1 .. Len(T) : U[i] = T[i],
         U[Len(U)] = Item(l, from, Len(M))
  PROVE  AssumedOk(U, M, A)
<1>1. \A i \in 1 .. Len(T) : i \in 1 .. Len(U)
  OBVIOUS
<1>2. ASSUME NEW k \in 1 .. Len(A), k <= Len(M)
      PROVE  \E i \in 1 .. Len(U) : U[i].lit = A[k] /\ U[i].level <= k
  <2>1. PICK i \in 1 .. Len(T) : T[i].lit = A[k] /\ T[i].level <= k
    BY <1>2 DEF AssumedOk
  <2>2. QED  BY <1>1, <2>1
<1>3. ASSUME NEW i \in 1 .. Len(U), U[i].reason = 0, U[i].level > 0, U[i].level <= Len(A)
      PROVE  U[i].lit \in Range(A)
  <2>1. CASE i = Len(U)
    <3>1. U[i].reason = from /\ U[i].level = Len(M)
      BY <2>1 DEF Item
    <3>2. QED  BY <1>3, <3>1
  <2>2. CASE i # Len(U)
    <3>1. i \in 1 .. Len(T)
      BY <2>2
    <3>2. QED  BY <1>3, <3>1 DEF AssumedOk
  <2>3. QED  BY <2>1, <2>2
<1>4. QED  BY <1>2, <1>3 DEF AssumedOk

(* The solver u in search.                                                 *)
Continuing(n, F, A, u) ==
  /\ Good(n, u) /\ Sound(F, u.clause, u.trail) /\ Lossless(n, F, u.orig, u.clause, u.trail)
  /\ Looked(u.clause, u.trail, u.qhead, Len(u.lim)) /\ AssumedOk(u.trail, u.lim, A)

LEMMA AssertUnit ==
  ASSUME NEW n \in Nat, NEW F, NEW A, NEW L, NEW b, NEW v, Back(n, F, A, L, b, v),
         Len(L) = 1, b = 0, NEW u, u = uncheckedEnqueue(v, L[1], 0)
  PROVE  Continuing(n, F, A, u) /\ u.ok = v.ok
<1> DEFINE l == L[1]
           C == v.clause
           T == v.trail
           M == v.lim
           U == u.trail
           q == v.qhead
           O == v.orig
           from == 0
<1>1. /\ Good(n, v) /\ Len(M) = 0 /\ TrailOk(n, T, M, q)
      /\ Sound(F, C, T) /\ Lossless(n, F, O, C, T) /\ Looked(C, T, q, 0) /\ AssumedOk(T, M, A)
      /\ l \in LitsOf(n) /\ Free(T, l) /\ \A m \in F : Makers(m, L)
  BY DEF Back, Good
<1>2. Enqueuing(n, v, l, from)
  BY <1>1 DEF Enqueuing
<1>3. u = uncheckedEnqueue(v, l, from) /\ from \in Nat /\ from = 0
  OBVIOUS
<1> HIDE DEF l, from
<1>4. /\ Good(n, u) /\ Frame(v, u) /\ u.clause = v.clause /\ u.qhead = v.qhead
      /\ Grown(v.trail, v.lim, l, from, u.trail)
  BY <1>1, <1>2, <1>3, EnqueueGood
<1>5. u.ok = v.ok /\ u.orig = O /\ u.lim = M
  BY <1>4 DEF Frame
<1>6. Root(M, F, l)
  <2>1. L \in Seq(LitsOf(n))
    BY DEF Back, IsClause
  <2>2. Range(L) = {l}
    BY <2>1 DEF Range, l
  <2>3. QED  BY <1>1, <2>2 DEF Root, Makers
<1> HIDE DEF C, T, M, U, q, O
<1>7. /\ Sound(F, C, T) /\ Root(M, F, l) => Sound(F, C, U)
      /\ Lossless(n, F, O, C, T) => Lossless(n, F, O, C, U)
      /\ Looked(C, T, q, 0) => Looked(C, U, q, 0)
      /\ Len(U) = Len(T) + 1 /\ Continues(U, T) /\ U[Len(U)] = Item(l, from, Len(M))
  <2>1. Grown(T, M, l, from, U)
    BY <1>4 DEF T, M, U
  <2>2. /\ \A G, D : Sound(G, D, T) /\ Root(M, G, l) => Sound(G, D, U)
        /\ \A G, P, D : Lossless(n, G, P, D, T) => Lossless(n, G, P, D, U)
        /\ \A D, lev : Looked(D, T, q, lev) => Looked(D, U, q, lev)
        /\ Len(U) = Len(T) + 1 /\ Continues(U, T) /\ U[Len(U)] = Item(l, from, Len(M))
    BY ONLY n \in Nat, <1>1, <1>3, <2>1, GrownKeeps
  <2>3. QED  BY <2>2
<1>8. AssumedOk(U, M, A)
  <2>1. Len(T) \in Nat
    BY <1>1 DEF TrailOk
  <2>2. QED  BY <1>1, <1>7, <2>1, AssumedGrows DEF Continues
<1>9. QED  BY <1>1, <1>4, <1>5, <1>6, <1>7, <1>8 DEF Continuing, C, T, M, U, q, O

LEMMA AssertClause ==
  ASSUME NEW n \in Nat, NEW F, NEW A, NEW L, NEW b, NEW v, Back(n, F, A, L, b, v),
         Len(L) >= 2, NEW c \in Nat \ {0}, c \notin DOMAIN v.clause,
         NEW w, w = [Attached(v, c, L) EXCEPT !.learnt = @ \cup {c}],
         NEW u, u = uncheckedEnqueue(w, L[1], c)
  PROVE  Continuing(n, F, A, u) /\ u.ok = v.ok
<1> DEFINE l == L[1]
           C == v.clause
           D == w.clause
           T == v.trail
           M == v.lim
           U == u.trail
           q == v.qhead
           O == v.orig
           kind == "learnt"
<1>1. /\ Good(n, v) /\ Len(M) = b /\ TrailOk(n, T, M, q) /\ ClausesOk(n, C) /\ O \subseteq DOMAIN C
      /\ Sound(F, C, T) /\ Lossless(n, F, O, C, T) /\ q = Len(T) /\ Looked(C, T, q, b) /\ AssumedOk(T, M, A)
      /\ l \in LitsOf(n) /\ Free(T, l) /\ IsClause(n, L)
  BY DEF Back, Good
<1>2. /\ \A k \in 2 .. Len(L) : OnTrail(T, -L[k])
      /\ \A i \in 1 .. Len(T) : T[i].lit = -L[2] /\ Len(L) # 1 => T[i].level = b
      /\ \A m \in F : Makers(m, L)
  BY DEF Back
<1>3. Addable(n, C, c, L)
  BY <1>1 DEF Addable
<1>4. Joined(v, c, L, w, kind)
  BY DEF Joined
<1>5. Good(n, w)
  BY <1>1, <1>3, <1>4, JoinedGood
<1>6. JoinFrame(v, c, L, w, kind)
  <2>1. Form(v)
    BY <1>1 DEF Good
  <2> HIDE DEF kind
  <2>2. QED  BY ONLY <1>4, <2>1, JoinedIs
<1>7. /\ D = Added(C, c, L) /\ w.ok = v.ok /\ w.trail = T /\ w.lim = M /\ w.qhead = q /\ w.orig = O
  BY <1>6 DEF JoinFrame
<1> HIDE DEF C, D, O
<1>8. Extends(C, D, c, L)
  <2>1. Adding(n, C, c, L, D)
    BY <1>3, <1>7 DEF Adding
  <2>2. ClausesOk(n, D) /\ Extends(C, D, c, L)
    BY ONLY n \in Nat, <2>1, AddedIs
  <2>3. QED  BY <2>2
<1>9. c \in DOMAIN D /\ D[c] = L
  BY <1>8 DEF Extends
<1>10. Enqueuing(n, w, l, c)
  BY <1>1, <1>2, <1>7, <1>9 DEF Enqueuing, D
<1> HIDE DEF l
<1>11. /\ Good(n, u) /\ Frame(w, u) /\ u.clause = w.clause /\ u.qhead = w.qhead
       /\ Grown(w.trail, w.lim, l, c, u.trail)
  <2>1. u = uncheckedEnqueue(w, l, c)
    BY DEF l
  <2>2. QED  BY ONLY n \in Nat, <1>5, <1>10, <2>1, EnqueueGood
<1>12. u.ok = v.ok /\ u.orig = O /\ u.lim = M /\ u.clause = D /\ u.qhead = q
  BY <1>7, <1>11 DEF Frame, D
<1>13. Grown(T, M, l, c, U)
  BY <1>7, <1>11
<1> HIDE DEF T, M, U, q
<1>14. /\ Sound(F, D, T) /\ Lossless(n, F, O, D, T)
       /\ \A R, p, lev :
            /\ Looked(C, R, p, lev)
            /\ \A i \in 1 .. p : R[i].level <= lev /\ -R[i].lit \in {L[1], L[2]} =>
                 \E j \in 1 .. Len(R) : R[j].lit \in Range(L) /\ R[j].level <= R[i].level
            => Looked(D, R, p, lev)
  <2>1. /\ \A G, R : Sound(G, C, R) /\ (\A m \in G : Makers(m, L)) => Sound(G, D, R)
        /\ \A k, G, P, R : P \subseteq DOMAIN C /\ Lossless(k, G, P, C, R) => Lossless(k, G, P, D, R)
        /\ \A R, p, lev :
             /\ Looked(C, R, p, lev)
             /\ \A i \in 1 .. p : R[i].level <= lev /\ -R[i].lit \in {L[1], L[2]} =>
                  \E j \in 1 .. Len(R) : R[j].lit \in Range(L) /\ R[j].level <= R[i].level
             => Looked(D, R, p, lev)
    BY ONLY <1>8, JoinedMeans
  <2>2. QED  BY <1>1, <1>2, <2>1
<1>15. /\ Sound(F, D, T) /\ Root(M, F, l) => Sound(F, D, U)
       /\ Lossless(n, F, O, D, T) => Lossless(n, F, O, D, U)
       /\ Looked(C, T, q, b) => Looked(C, U, q, b)
       /\ Len(U) = Len(T) + 1 /\ Continues(U, T) /\ U[Len(U)] = Item(l, c, Len(M))
  <2>1. c \in Nat
    OBVIOUS
  <2>2. /\ \A G, E : Sound(G, E, T) /\ Root(M, G, l) => Sound(G, E, U)
        /\ \A G, P, E : Lossless(n, G, P, E, T) => Lossless(n, G, P, E, U)
        /\ \A E, lev : Looked(E, T, q, lev) => Looked(E, U, q, lev)
        /\ Len(U) = Len(T) + 1 /\ Continues(U, T) /\ U[Len(U)] = Item(l, c, Len(M))
    BY ONLY n \in Nat, <1>1, <1>13, <2>1, GrownKeeps
  <2>3. QED  BY <2>2
<1>16. Len(T) \in Nat /\ b \in Nat /\ \A i \in 1 .. Len(T) : U[i] = T[i] /\ T[i].level \in 0 .. b /\ T[i].lit \in LitsOf(n)
  <2>1. /\ Len(T) \in Nat /\ Len(M) \in Nat
        /\ \A i \in 1 .. Len(T) : T[i].level \in 0 .. Len(M) /\ T[i].lit \in LitsOf(n)
    BY <1>1, TrailIs
  <2>2. QED  BY <1>1, <1>15, <2>1 DEF Continues
<1>17. /\ L[1] \in LitsOf(n) /\ L[2] \in LitsOf(n) /\ l \in Range(L) /\ Len(L) # 1 /\ 2 \in 2 .. Len(L)
       /\ OnTrail(T, -L[2])
  <2>1. Len(L) \in Nat /\ \A k \in 1 .. Len(L) : L[k] \in LitsOf(n) /\ L[k] \in Range(L)
    BY <1>1, ClauseIs
  <2>2. 1 \in 1 .. Len(L) /\ 2 \in 1 .. Len(L) /\ Len(L) # 1 /\ 2 \in 2 .. Len(L)
    <3> DEFINE z == Len(L)
    <3>1. z \in Nat /\ z >= 2
      BY <2>1
    <3> HIDE DEF z
    <3>2. 1 \in 1 .. z /\ 2 \in 1 .. z /\ z # 1 /\ 2 \in 2 .. z
      BY ONLY <3>1
    <3>3. QED  BY <3>2 DEF z
  <2>3. QED  BY <1>2, <2>1, <2>2 DEF l
<1>18. Root(M, F, l)
  <2>1. b > 0
    BY <1>17 DEF Back
  <2>2. QED  BY <1>1, <1>16, <2>1 DEF Root
<1>19. Looked(D, U, q, b)
  <2>1. Looked(C, U, q, b)
    BY <1>1, <1>15
  <2>2. ASSUME NEW i \in 1 .. q, U[i].level <= b, -U[i].lit \in {L[1], L[2]}
        PROVE  \E j \in 1 .. Len(U) : U[j].lit \in Range(L) /\ U[j].level <= U[i].level
    <3>1. i \in 1 .. Len(T) /\ U[i] = T[i] /\ T[i].lit \in LitsOf(n)
      BY <1>1, <1>16
    <3>2. T[i].lit = -L[1] \/ T[i].lit = -L[2]
      BY <1>17, <2>2, <3>1, Literals
    <3>3. T[i].lit # -L[1]
      BY <1>1, <3>1 DEF Free, OnTrail, l
    <3>4. U[i].level = b
      BY <1>2, <1>17, <3>1, <3>2, <3>3
    <3>5. Len(U) \in 1 .. Len(U)
      BY <1>15, <1>16
    <3>6. U[Len(U)].lit \in Range(L) /\ U[Len(U)].level = b
      BY <1>1, <1>15, <1>17 DEF Item
    <3>7. b <= b
      BY ONLY <1>16
    <3>8. QED  BY <3>4, <3>5, <3>6, <3>7
  <2>3. QED  BY ONLY <1>14, <2>1, <2>2
<1>20. AssumedOk(U, M, A)
  BY <1>1, <1>15, <1>16, AssumedGrows
<1>21. QED  BY <1>1, <1>11, <1>12, <1>14, <1>15, <1>18, <1>19, <1>20 DEF Continuing, U

(* Learned, from the arranged clause on.                                   *)
LEMMA LearnClauseIs ==
  ASSUME NEW n, NEW F, NEW t, NEW C, NEW T, NEW d, NEW A, NEW L, Learning(n, F, t, C, T, d, A, L),
         NEW u, u = LearnClause(t, L)
  PROVE  Continuing(n, F, A, u) /\ u.ok = t.ok
<1> DEFINE b == BackLevel(t, L)
           v == cancelUntil(t, b)
           c == FreshRef(t)
           w == [Attached(v, c, L) EXCEPT !.learnt = @ \cup {c}]
<1>1. u = Asserting(v, c, L)
  BY DEF LearnClause
<1>2. Backing(T, d, L, b)
  BY BackLevelIs
<1>3. v = cancelUntil(t, b)
  OBVIOUS
<1> HIDE DEF b, v
<1>4. Back(n, F, A, L, b, v) /\ v.clause = C /\ v.ok = t.ok
  BY <1>2, <1>3, LessonBack
<1>5. n \in Nat /\ ClausesOk(n, t.clause) /\ C = t.clause
  BY DEF Learning, Good
<1>6. c \in Nat \ {0} /\ c \notin DOMAIN v.clause
  BY <1>4, <1>5, FreshIs
<1>7. w = [Attached(v, c, L) EXCEPT !.learnt = @ \cup {c}]
  OBVIOUS
<1>8. /\ Len(L) = 1 => u = uncheckedEnqueue(v, L[1], 0)
      /\ Len(L) # 1 => u = uncheckedEnqueue(w, L[1], c)
  BY <1>1 DEF Asserting
<1> HIDE DEF w, c
<1>9. CASE Len(L) = 1
  <2>1. b = 0
    BY <1>2, <1>9 DEF Backing
  <2>2. QED  BY <1>4, <1>5, <1>8, <1>9, <2>1, AssertUnit
<1>10. CASE Len(L) # 1
  <2>1. Len(L) >= 2
    BY <1>2, <1>10 DEF Backing
  <2>2. QED  BY <1>4, <1>5, <1>6, <1>7, <1>8, <1>10, <2>1, AssertClause
<1>11. QED  BY <1>9, <1>10

(* analyze and what search does with the clause.                           *)
LEMMA LearnedIs ==
  ASSUME NEW n \in Nat, NEW F \in SUBSET Assignments(n), NEW t, Good(n, t), Len(t.lim) > 0,
         Sound(F, t.clause, t.trail), Lossless(n, F, t.orig, t.clause, t.trail),
         NEW c, Clash(t.clause, t.trail, t.lim, t.qhead, c),
         NEW A \in Seq(LitsOf(n)), AssumedOk(t.trail, t.lim, A),
         NEW u, u = Learned(t, c)
  PROVE  Continuing(n, F, A, u) /\ u.ok = t.ok
<1> DEFINE C == t.clause
           T == t.trail
           d == Len(t.lim)
           L == FirstUip(t, c)
           G == Minimized(t, L)
           H == Arranged(t, G)
<1>1. Analysis(n, F, t, C, T, d)
  BY DEF Analysis, Good
<1>2. Clashing(n, F, t, C, T, d, c)
  BY <1>1 DEF Clashing
<1>3. t.qhead = Len(T) /\ Looked(C, T, t.qhead, d - 1)
  BY DEF Clash
<1>4. L = FirstUip(t, c) /\ G = Minimized(t, L) /\ H = Arranged(t, G) /\ C = t.clause /\ T = t.trail /\ d = Len(t.lim)
  OBVIOUS
<1>5. u = LearnClause(t, H)
  BY DEF Learned
<1> HIDE DEF L, G, H, C, T, d
<1>6. Lesson(n, F, T, d, L)
  BY <1>2, <1>4, FirstUipIs
<1>7. Lesson(n, F, T, d, G)
  BY <1>1, <1>4, <1>6, MinimizedIs
<1>8. Lesson(n, F, T, d, H) /\ Headed(T, H)
  BY <1>1, <1>4, <1>7, ArrangedIs
<1>9. Learning(n, F, t, C, T, d, A, H)
  BY <1>3, <1>4, <1>8 DEF Learning
<1>10. QED  BY <1>5, <1>9, LearnClauseIs

-----------------------------------------------------------------------------
(* analyzeFinal.  A is what is assumed; one of it is false.                *)
Blames(n) == [seen : SUBSET (1 .. n), out : SUBSET LitsOf(n)]

Refuting(n, F, t, C, T, M, A) ==
  /\ n \in Nat /\ F \in SUBSET Assignments(n) /\ Good(n, t) /\ C = t.clause /\ T = t.trail /\ M = t.lim
  /\ Sound(F, C, T) /\ A \in Seq(LitsOf(n)) /\ AssumedOk(T, M, A) /\ Len(M) < Len(A)

Blaming(n, F, T, A, j, r) ==
  /\ r \in Blames(n)
  /\ \A l \in r.out : -l \in Range(A)
  /\ \A m \in F : \/ \E l \in r.out : Makes(m, l)
                  \/ \E i \in 1 .. j : Var(T[i].lit) \in r.seen /\ T[i].level > 0 /\ Makes(m, -T[i].lit)

LEMMA RefutingIs ==
  ASSUME NEW n, NEW F, NEW t, NEW C, NEW T, NEW M, NEW A, Refuting(n, F, t, C, T, M, A)
  PROVE  /\ n \in Nat /\ F \in SUBSET Assignments(n) /\ T = t.trail /\ C = t.clause /\ M = t.lim
         /\ ClausesOk(n, C) /\ ReasonOk(C, T) /\ Sound(F, C, T) /\ AssumedOk(T, M, A)
         /\ Len(M) \in Nat /\ Len(T) \in Nat /\ A \in Seq(LitsOf(n)) /\ Len(M) < Len(A)
         /\ \A i \in 1 .. Len(T) : T[i].level \in 0 .. Len(M)
         /\ \A a, b \in 1 .. Len(T) : Var(T[a].lit) = Var(T[b].lit) => a = b
         /\ \A i \in 1 .. Len(T) : \A l \in LitsOf(n) : T[i].lit = -l => LevelOf(t, l) = T[i].level
         /\ \A i \in 1 .. Len(T) : T[i].lit \in LitsOf(n)
         /\ Len(M) >= 1 => M[1] \in 0 .. Len(T) /\ \A i \in 1 .. Len(T) : T[i].level >= 1 <=> i > M[1]
<1>1. /\ n \in Nat /\ F \in SUBSET Assignments(n) /\ Good(n, t) /\ C = t.clause /\ T = t.trail /\ M = t.lim
      /\ Sound(F, C, T) /\ A \in Seq(LitsOf(n)) /\ AssumedOk(T, M, A) /\ Len(M) < Len(A)
  BY DEF Refuting
<1>2. ClausesOk(n, C) /\ ReasonOk(C, T) /\ TrailOk(n, T, t.lim, t.qhead)
  BY <1>1 DEF Good
<1> DEFINE d == Len(M)
<1>3. n \in Nat /\ T = t.trail /\ d = Len(t.lim)
  BY <1>1
<1> HIDE DEF d
<1>4. /\ d \in Nat /\ Len(T) \in Nat /\ (\A i \in 1 .. Len(T) : T[i].level \in 0 .. d)
      /\ \A a, b \in 1 .. Len(T) : Var(T[a].lit) = Var(T[b].lit) => a = b
      /\ \A i \in 1 .. Len(T) : \A l \in LitsOf(n) : T[i].lit = -l => LevelOf(t, l) = T[i].level
      /\ \A i \in 1 .. Len(T) : T[i].lit \in LitsOf(n)
  BY ONLY <1>2, <1>3, LevelsAre
<1>5. ASSUME d >= 1 PROVE M[1] \in 0 .. Len(T) /\ \A i \in 1 .. Len(T) : T[i].level >= 1 <=> i > M[1]
  <2>1. 1 \in 1 .. d
    BY ONLY <1>4, <1>5
  <2>2. M[1] \in Nat /\ M[1] <= t.qhead /\ t.qhead \in 0 .. Len(T)
    BY <1>1, <1>2, <1>3, <2>1 DEF TrailOk
  <2>3. M[1] \in 0 .. Len(T)
    BY ONLY <1>4, <2>2
  <2>4. QED  BY <1>1, <1>2, <1>3, <2>1, <2>3 DEF TrailOk
<1>6. QED  BY <1>1, <1>2, <1>4, <1>5 DEF d

LEMMA BlameIs ==
  ASSUME NEW n, NEW F, NEW t, NEW C, NEW T, NEW M, NEW A, Refuting(n, F, t, C, T, M, A),
         NEW j \in 1 .. Len(T), T[j].level > 0, NEW r, Blaming(n, F, T, A, j, r),
         NEW y, y = Blame(t, r, T[j])
  PROVE  Blaming(n, F, T, A, j - 1, y)
<1>1. /\ n \in Nat /\ F \in SUBSET Assignments(n) /\ T = t.trail /\ C = t.clause
      /\ ClausesOk(n, C) /\ ReasonOk(C, T) /\ Sound(F, C, T) /\ AssumedOk(T, M, A)
      /\ Len(M) \in Nat /\ Len(T) \in Nat /\ A \in Seq(LitsOf(n)) /\ Len(M) < Len(A)
      /\ \A i \in 1 .. Len(T) : T[i].level \in 0 .. Len(M)
      /\ \A i \in 1 .. Len(T) : \A l \in LitsOf(n) : T[i].lit = -l => LevelOf(t, l) = T[i].level
      /\ \A i \in 1 .. Len(T) : T[i].lit \in LitsOf(n)
  BY RefutingIs
<1> DEFINE e == T[j]
<1>2. e.lit \in LitsOf(n) /\ -(-e.lit) = e.lit /\ -e.lit \in LitsOf(n) /\ Var(e.lit) \in 1 .. n
  BY <1>1, Literals
<1>3. /\ r \in Blames(n) /\ \A l \in r.out : -l \in Range(A)
      /\ \A m \in F : \/ \E l \in r.out : Makes(m, l)
                      \/ \E i \in 1 .. j : Var(T[i].lit) \in r.seen /\ T[i].level > 0 /\ Makes(m, -T[i].lit)
  BY DEF Blaming
<1>4. \A i \in 1 .. j : i = j \/ i \in 1 .. j - 1
  BY ONLY <1>1, j \in 1 .. Len(T)
<1>5. CASE Var(e.lit) \notin r.seen
  <2>1. y = r
    BY <1>5 DEF Blame
  <2>2. QED  BY <1>3, <1>4, <1>5, <2>1 DEF Blaming
<1>6. CASE Var(e.lit) \in r.seen /\ e.reason = 0
  <2> DEFINE out == r.out \cup {-e.lit}
  <2>1. y = [r EXCEPT !.out = out]
    BY <1>6 DEF Blame
  <2>2. out \in SUBSET LitsOf(n)
    BY <1>2, <1>3 DEF Blames
  <2>3. r.out \subseteq out /\ -e.lit \in out
    OBVIOUS
  <2>4. \A l \in out : -l \in Range(A)
    <3>1. e.lit \in Range(A)
      <4>1. T[j].level <= Len(A)
        <5> DEFINE a == Len(A)
                   b == Len(M)
                   lev == T[j].level
        <5>1. a \in Nat /\ b \in Nat /\ lev \in 0 .. b /\ b < a
          BY <1>1
        <5> HIDE DEF a, b, lev
        <5>2. lev <= a
          BY ONLY <5>1
        <5>3. QED  BY <5>2 DEF a, lev
      <4>2. QED  BY <1>1, <1>6, <4>1 DEF AssumedOk
    <3>2. QED  BY <1>2, <1>3, <3>1
  <2> HIDE DEF out
  <2>5. y \in Blames(n) /\ y.seen = r.seen /\ y.out = out
    BY ONLY <1>3, <2>1, <2>2 DEF Blames
  <2>6. ASSUME NEW m \in F
        PROVE  \/ \E l \in out : Makes(m, l)
               \/ \E i \in 1 .. j - 1 : Var(T[i].lit) \in r.seen /\ T[i].level > 0 /\ Makes(m, -T[i].lit)
    BY <1>3, <1>4, <2>3
  <2>7. QED  BY <2>4, <2>5, <2>6 DEF Blaming
<1>7. CASE Var(e.lit) \in r.seen /\ e.reason # 0
  <2> DEFINE c == e.reason
             K == C[c]
             more == { Var(l) : l \in { k \in Range(Tail(K)) : LevelOf(t, k) > 0 } }
             S == r.seen \cup more
  <2>1. /\ c \in DOMAIN C /\ K[1] = e.lit
        /\ \A k \in 2 .. Len(K) : \E i \in 1 .. j - 1 : T[i].lit = -K[k]
    BY <1>1, <1>7 DEF ReasonOk
  <2>2. y = [r EXCEPT !.seen = S]
    BY <1>1, <1>7 DEF Blame
  <2>3. IsClause(n, K) /\ Len(K) >= 2
    BY <1>1, <2>1, ClausesAre
  <2>10. \A m \in F : \E l \in Range(K) : Makes(m, l)
    BY <1>1, <2>1 DEF Sound, Makers
  <2> HIDE DEF K, c
  <2>4. /\ K \in Seq(LitsOf(n)) /\ Len(K) \in Nat
        /\ \A x : x \in Range(K) <=> \E k \in 1 .. Len(K) : K[k] = x
    BY <1>1, <2>3, ClauseIs
  <2>5. Range(K) = {K[1]} \cup Range(Tail(K)) /\ Range(Tail(K)) \subseteq LitsOf(n)
    <3> DEFINE tail == Tail(K)
    <3>1. K \in Seq(LitsOf(n)) /\ Len(K) >= 1 /\ tail = Tail(K)
      <4>1. Len(K) >= 1
        BY ONLY <2>3, <2>4
      <4>2. QED  BY <2>4, <4>1
    <3> HIDE DEF tail
    <3>2. Range(K) = {K[1]} \cup Range(tail) /\ tail \in Seq(LitsOf(n))
      BY ONLY <3>1, TailIs
    <3>3. Range(tail) \subseteq LitsOf(n)
      BY <3>2 DEF Range
    <3>4. QED  BY <3>2, <3>3 DEF tail
  <2>6. S \in SUBSET (1 .. n) /\ r.seen \subseteq S
    <3>1. \A l \in LitsOf(n) : Var(l) \in 1 .. n
      BY <1>1, Literals
    <3>2. more \subseteq 1 .. n
      BY <2>5, <3>1
    <3>3. QED  BY <1>3, <3>2 DEF Blames
  <2>7. ASSUME NEW m \in F
        PROVE  \/ \E l \in r.out : Makes(m, l)
               \/ \E i \in 1 .. j - 1 : Var(T[i].lit) \in S /\ T[i].level > 0 /\ Makes(m, -T[i].lit)
    <3>1. CASE \E l \in r.out : Makes(m, l)
      BY <3>1
    <3>2. CASE \E i \in 1 .. j - 1 : Var(T[i].lit) \in r.seen /\ T[i].level > 0 /\ Makes(m, -T[i].lit)
      BY <2>6, <3>2
    <3>3. CASE Makes(m, -e.lit)
      <4>1. PICK l \in Range(K) : Makes(m, l)
        BY <2>10
      <4>2. m \in Assignments(n)
        BY <1>1
      <4>3. l # K[1]
        <5>1. ~Makes(m, e.lit)
          BY <1>1, <1>2, <3>3, <4>2, Literals
        <5>2. QED  BY <2>1, <4>1, <5>1
      <4>4. l \in Range(Tail(K)) /\ l \in LitsOf(n)
        BY <2>5, <4>1, <4>3
      <4>5. PICK k \in 1 .. Len(K) : K[k] = l
        BY <2>4, <4>1
      <4>6. k \in 2 .. Len(K)
        <5>1. k # 1
          BY <4>3, <4>5
        <5>2. QED  BY ONLY <2>4, <4>5, <5>1
      <4>7. PICK i \in 1 .. j - 1 : T[i].lit = -l
        BY <2>1, <4>5, <4>6
      <4>8. i \in 1 .. Len(T)
        BY ONLY <1>1, <4>7, j \in 1 .. Len(T)
      <4>9. Var(T[i].lit) = Var(l) /\ -T[i].lit = l
        BY <1>1, <4>4, <4>7, Literals
      <4>10. T[i].level > 0
        <5>1. T[i].level # 0
          <6>1. SUFFICES ASSUME T[i].level = 0 PROVE FALSE
            OBVIOUS
          <6>2. Makes(m, -l)
            BY <1>1, <4>7, <4>8, <6>1 DEF Sound
          <6>3. QED  BY <1>1, <4>1, <4>2, <4>4, <6>2, Literals
        <5>2. T[i].level \in 0 .. Len(M)
          BY <1>1, <4>8
        <5>3. QED  BY ONLY <1>1, <5>1, <5>2
      <4>11. LevelOf(t, l) > 0
        BY <1>1, <4>4, <4>7, <4>8, <4>10
      <4>12. Var(l) \in S
        BY <4>4, <4>11
      <4>13. QED  BY <4>1, <4>7, <4>9, <4>10, <4>12
    <3>4. QED  BY <1>3, <1>4, <3>1, <3>2, <3>3
  <2> HIDE DEF S
  <2>8. y \in Blames(n) /\ y.seen = S /\ y.out = r.out
    BY ONLY <1>3, <2>2, <2>6 DEF Blames
  <2>9. QED  BY <1>3, <2>7, <2>8 DEF Blaming
<1>8. QED  BY <1>5, <1>6, <1>7

(* The end of a sequence backwards.                                        *)
Backwards(T, a, es) == es = Reverse(SubSeq(T, a + 1, Len(T)))

LEMMA BackwardsFrom ==
  ASSUME NEW S, NEW T \in Seq(S), NEW a \in 0 .. Len(T), NEW es, Backwards(T, a, es)
  PROVE  /\ Len(es) \in Nat /\ Len(es) = Len(T) - a
         /\ \A k \in 1 .. Len(es) : /\ es[k] = T[Len(T) - k + 1]
                                    /\ Len(T) - k + 1 \in 1 .. Len(T) /\ Len(T) - k + 1 > a
<1> DEFINE b == Len(T)
           U == SubSeq(T, a + 1, b)
<1>1. b \in Nat /\ a \in 0 .. b
  OBVIOUS
<1>2. Len(U) = b - a /\ \A i \in 1 .. b - a : U[i] = T[i + a]
  <2>1. U = [i \in 1 .. b - a |-> T[i + a]]
    <3>1. (b - (a + 1)) + 1 = b - a /\ \A i \in 1 .. b - a : (i + (a + 1)) - 1 = i + a
      BY ONLY <1>1
    <3>2. U = [i \in 1 .. (b - (a + 1)) + 1 |-> T[(i + (a + 1)) - 1]]
      OBVIOUS
    <3>3. QED  BY <3>1, <3>2
  <2>2. b - a \in Nat
    BY ONLY <1>1
  <2>3. Len(U) = b - a
    BY <2>1, <2>2
  <2>4. QED  BY <2>1, <2>3
<1>3. es = [i \in 1 .. Len(U) |-> U[(Len(U) - i) + 1]]
  BY DEF Reverse, Backwards
<1>4. Len(es) = b - a /\ b - a \in Nat
  <2>1. b - a \in Nat
    BY ONLY <1>1
  <2>2. QED  BY <1>2, <1>3, <2>1
<1> HIDE DEF U, b
<1>5. ASSUME NEW k \in 1 .. b - a PROVE es[k] = T[b - k + 1] /\ b - k + 1 \in 1 .. b /\ b - k + 1 > a
  <2>1. /\ ((b - a) - k) + 1 \in 1 .. b - a /\ ((b - a) - k) + 1 + a = b - k + 1
        /\ b - k + 1 \in 1 .. b /\ b - k + 1 > a
    BY ONLY <1>1, <1>5
  <2>2. es[k] = U[((b - a) - k) + 1]
    BY <1>2, <1>3
  <2>3. U[((b - a) - k) + 1] = T[((b - a) - k) + 1 + a]
    BY <1>2, <2>1
  <2>4. QED  BY <2>1, <2>2, <2>3
<1>6. QED  BY <1>4, <1>5 DEF b

LEMMA BlameAllIs ==
  ASSUME NEW n, NEW F, NEW t, NEW C, NEW T, NEW M, NEW A, Refuting(n, F, t, C, T, M, A),
         Len(M) >= 1, NEW a, a = M[1], NEW es, Backwards(T, a, es),
         NEW first, Blaming(n, F, T, A, Len(T), first)
  PROVE  Blaming(n, F, T, A, a, BlameAll(t, first, es))
<1> DEFINE m == Len(es)
           Turn(k, x) == Blame(t, x, es[k])
           X == [k \in 0 .. m |-> { x \in Blames(n) : Blaming(n, F, T, A, Len(T) - k, x) }]
           turn == [k \in 1 .. m |-> [x \in X[k - 1] |-> Turn(k, x)]]
           Is(g) == g = [k \in 0 .. m |-> IF k = 0 THEN first ELSE Turn(k, g[k - 1])]
           run == CHOOSE g : Is(g)
<1>50. BlameAll(t, first, es) = run[m]
  BY DEF Loop, BlameAll
<1>1. /\ Len(T) \in Nat /\ a \in 0 .. Len(T) /\ \A i \in 1 .. Len(T) : T[i].level >= 1 <=> i > a
      /\ \A i \in 1 .. Len(T) : T[i].level \in 0 .. Len(M)
  BY RefutingIs
<1>2. /\ m \in Nat /\ m = Len(T) - a
      /\ \A k \in 1 .. m : es[k] = T[Len(T) - k + 1] /\ Len(T) - k + 1 \in 1 .. Len(T) /\ Len(T) - k + 1 > a
  <2>1. T \in Seq(Entries(n))
    BY DEF Refuting, Good, TrailOk
  <2> HIDE DEF m
  <2>2. /\ Len(es) \in Nat /\ Len(es) = Len(T) - a
        /\ \A k \in 1 .. Len(es) : /\ es[k] = T[Len(T) - k + 1]
                                   /\ Len(T) - k + 1 \in 1 .. Len(T) /\ Len(T) - k + 1 > a
    BY <1>1, <2>1, BackwardsFrom
  <2>3. QED  BY <2>2 DEF m
<1>60. m \in Nat
  BY <1>2
<1>40. first \in Blames(n) /\ Blaming(n, F, T, A, Len(T) - 0, first)
  <2>1. Len(T) - 0 = Len(T)
    BY ONLY <1>1
  <2>2. QED  BY <2>1 DEF Blaming
<1>41. ASSUME NEW k \in 1 .. m, NEW x \in Blames(n), Blaming(n, F, T, A, Len(T) - (k - 1), x)
       PROVE  Turn(k, x) \in Blames(n) /\ Blaming(n, F, T, A, Len(T) - k, Turn(k, x))
  <2> DEFINE y == Turn(k, x)
             j == Len(T) - k + 1
  <2>1. y = Blame(t, x, T[j]) /\ j \in 1 .. Len(T) /\ j > a
    BY <1>2
  <2>2. Len(T) - (k - 1) = j /\ Len(T) - k = j - 1
    BY <1>1, <1>60
  <2> HIDE DEF y, m, Turn, j
  <2>3. Blaming(n, F, T, A, j, x)
    BY <1>41, <2>2
  <2>4. T[j].level > 0
    <3>1. T[j].level >= 1 /\ T[j].level \in 0 .. Len(M)
      BY <1>1, <2>1
    <3>2. QED  BY ONLY <3>1
  <2>5. Blaming(n, F, T, A, j - 1, y)
    BY <2>1, <2>3, <2>4, BlameIs
  <2>6. y \in Blames(n)
    BY <2>5 DEF Blaming
  <2>7. QED  BY <2>2, <2>5, <2>6 DEF y
<1>61. m \in Nat
  BY <1>60
<1>62. \A k \in 0 .. m : \A x : x \in X[k] <=> x \in Blames(n) /\ Blaming(n, F, T, A, Len(T) - k, x)
  OBVIOUS
<1> HIDE DEF X
<1>63. first \in X[0]
  <2>1. 0 \in 0 .. m
    BY <1>61
  <2>2. QED  BY <1>40, <1>62, <2>1
<1>64. ASSUME NEW k \in 1 .. m, NEW x \in X[k - 1] PROVE Turn(k, x) \in X[k]
  <2>1. k - 1 \in 0 .. m /\ k \in 0 .. m
    BY <1>61
  <2>2. x \in Blames(n) /\ Blaming(n, F, T, A, Len(T) - (k - 1), x)
    BY <1>62, <2>1
  <2>3. Turn(k, x) \in Blames(n) /\ Blaming(n, F, T, A, Len(T) - k, Turn(k, x))
    BY <1>41, <2>2
  <2> HIDE DEF Turn
  <2>4. QED  BY <1>62, <2>1, <2>3
<1>65. \A k \in 1 .. m : \A x \in X[k - 1] : turn[k][x] \in X[k] /\ turn[k][x] = Turn(k, x)
  BY <1>64
<1> HIDE DEF turn, Is, Turn, m
<1>66. PICK g : Turns(g, m, first, turn) /\ \A k \in 0 .. m : g[k] \in X[k]
  <2>1. \A k \in 1 .. m : \A x \in X[k - 1] : turn[k][x] \in X[k]
    BY <1>65
  <2>2. QED  BY <1>61, <1>63, <2>1, Stepwise
<1>67. Is(g)
  <2>1. \A k \in 1 .. m : k - 1 \in 0 .. m /\ k \in 0 .. m /\ k # 0
    BY <1>61
  <2>2. \A k \in 1 .. m : g[k] = Turn(k, g[k - 1])
    BY <1>65, <1>66, <2>1 DEF Turns
  <2>3. DOMAIN g = 0 .. m /\ g = [k \in DOMAIN g |-> g[k]]
    BY <1>66 DEF Turns
  <2>4. g[0] = first /\ \A k \in 0 .. m : k # 0 => k \in 1 .. m
    BY <1>61, <1>66 DEF Turns
  <2>5. QED  BY <2>2, <2>3, <2>4 DEF Is
<1>68. Is(run)
  BY <1>67
<1> HIDE DEF run
<1>69. run[m] \in X[m]
  <2>1. run[0] \in X[0]
    BY <1>61, <1>63, <1>68 DEF Is
  <2>2. ASSUME NEW k \in 1 .. m, run[k - 1] \in X[k - 1] PROVE run[k] \in X[k]
    <3>1. k \in 0 .. m /\ k # 0
      BY <1>61
    <3>2. run[k] = Turn(k, run[k - 1])
      BY <1>68, <3>1 DEF Is
    <3>3. QED  BY <1>65, <2>2, <3>2
  <2>3. QED  BY <1>61, <2>1, <2>2, RunStays
<1>70. run[m] \in Blames(n) /\ Blaming(n, F, T, A, Len(T) - m, run[m])
  <2>1. m \in 0 .. m
    BY <1>61
  <2>2. QED  BY <1>62, <1>69, <2>1
<1>71. QED
  <2>1. Len(T) - m = a
    BY ONLY <1>1, <1>2
  <2>2. QED  BY <1>50, <1>70, <2>1

(* The final conflict: a clause of negated assumptions that follows.       *)
LEMMA AnalyzeFinalIs ==
  ASSUME NEW n, NEW F, NEW t, NEW C, NEW T, NEW M, NEW A, Refuting(n, F, t, C, T, M, A),
         NEW p, OnTrail(T, p), p = -A[Len(M) + 1], NEW out, out = analyzeFinal(t, p)
  PROVE  /\ \A l \in out : l \in LitsOf(n) /\ -l \in Range(A)
         /\ \A m \in F : \E l \in out : Makes(m, l)
<1>1. /\ n \in Nat /\ F \in SUBSET Assignments(n) /\ T = t.trail /\ M = t.lim /\ Sound(F, C, T)
      /\ Len(M) \in Nat /\ Len(T) \in Nat /\ A \in Seq(LitsOf(n)) /\ Len(M) < Len(A)
      /\ \A i \in 1 .. Len(T) : T[i].level \in 0 .. Len(M)
      /\ \A i \in 1 .. Len(T) : T[i].lit \in LitsOf(n)
      /\ Len(M) >= 1 => \A i \in 1 .. Len(T) : T[i].level >= 1 <=> i > M[1]
  BY RefutingIs
<1> DEFINE a == A[Len(M) + 1]
<1>2. a \in LitsOf(n) /\ a \in Range(A)
  <2> DEFINE k == Len(A)
             h == Len(M)
  <2>1. k \in Nat /\ h \in Nat /\ h < k /\ DOMAIN A = 1 .. k
    BY <1>1
  <2> HIDE DEF k, h
  <2>2. h + 1 \in 1 .. k
    BY ONLY <2>1
  <2>3. A[h + 1] \in LitsOf(n) /\ A[h + 1] \in Range(A)
    BY <1>1, <2>1, <2>2 DEF Range
  <2>4. QED  BY <2>3 DEF h
<1> HIDE DEF a
<1>3. p = -a /\ p \in LitsOf(n) /\ -p = a
  BY <1>1, <1>2, Literals DEF a
<1>4. PICK i \in 1 .. Len(T) : T[i].lit = p
  BY DEF OnTrail
<1>5. CASE Len(M) = 0
  <2>1. out = {p}
    BY <1>1, <1>5 DEF analyzeFinal, decisionLevel
  <2>2. T[i].level = 0
    BY <1>1, <1>5
  <2>3. \A m \in F : Makes(m, p)
    BY <1>1, <1>4, <2>2 DEF Sound
  <2>4. QED  BY <1>2, <1>3, <2>1, <2>3
<1>6. CASE Len(M) # 0
  <2> DEFINE b == M[1]
             es == Reverse(SubSeq(T, b + 1, Len(T)))
             first == [seen |-> {Var(p)}, out |-> {p}]
             r == BlameAll(t, first, es)
  <2>1. out = r.out
    BY <1>1, <1>6 DEF analyzeFinal, decisionLevel, Blamed
  <2>2. Backwards(T, b, es) /\ r = BlameAll(t, first, es) /\ b = M[1]
    BY DEF Backwards
  <2>3. first \in Blames(n) /\ first.seen = {Var(p)} /\ first.out = {p}
    <3>1. Var(p) \in 1 .. n
      BY <1>1, <1>3, Literals
    <3>2. QED  BY <1>3, <3>1 DEF Blames
  <2> HIDE DEF b, es, first, r
  <2>4. Blaming(n, F, T, A, Len(T), first)
    <3>1. ASSUME NEW m \in F
          PROVE  \/ \E l \in first.out : Makes(m, l)
                 \/ \E z \in 1 .. Len(T) : Var(T[z].lit) \in first.seen /\ T[z].level > 0 /\ Makes(m, -T[z].lit)
      <4>1. CASE Makes(m, p)
        BY <2>3, <4>1
      <4>2. CASE ~Makes(m, p)
        <5>1. Makes(m, -p)
          BY <1>1, <1>3, <4>2, Literals
        <5>2. T[i].level # 0
          BY <1>1, <1>4, <4>2 DEF Sound
        <5>3. T[i].level > 0
          <6>1. T[i].level \in 0 .. Len(M)
            BY <1>1
          <6>2. QED  BY ONLY <5>2, <6>1
        <5>4. QED  BY <1>4, <2>3, <5>1, <5>3
      <4>3. QED  BY <4>1, <4>2
    <3>2. \A l \in first.out : -l \in Range(A)
      BY <1>2, <1>3, <2>3
    <3>3. QED  BY <2>3, <3>1, <3>2 DEF Blaming
  <2>5. Len(M) >= 1
    BY ONLY <1>1, <1>6
  <2>6. Blaming(n, F, T, A, b, r)
    BY <2>2, <2>4, <2>5, BlameAllIs
  <2>7. ASSUME NEW m \in F PROVE \E l \in out : Makes(m, l)
    <3>1. SUFFICES ASSUME NEW z \in 1 .. b, T[z].level > 0 PROVE FALSE
      BY <2>1, <2>6 DEF Blaming
    <3>2. b \in 0 .. Len(T)
      BY <2>2, <2>5, RefutingIs
    <3>3. z \in 1 .. Len(T) /\ ~(z > b)
      BY ONLY <1>1, <3>1, <3>2
    <3>4. ~(T[z].level >= 1) /\ T[z].level \in 0 .. Len(M)
      BY <1>1, <2>2, <2>5, <3>3
    <3>5. QED  BY ONLY <3>1, <3>4
  <2>8. QED  BY <2>1, <2>6, <2>7 DEF Blaming, Blames
<1>7. QED  BY <1>5, <1>6

-----------------------------------------------------------------------------
(* The steps of search.  F are the assignments that satisfy the file, A is *)
(* what is assumed.  The solver t before propagate, after it when there is *)
(* no conflict, and when the clause c is the conflict.                     *)
Busy(n, F, A, t) ==
  /\ Meant(n, F, t) /\ t.ok /\ AssumedOk(t.trail, t.lim, A)
  /\ Looked(t.clause, t.trail, t.qhead, Len(t.lim)) /\ Opened(t.trail, t.lim)

Calm(n, F, A, t) ==
  Meant(n, F, t) /\ t.ok /\ AssumedOk(t.trail, t.lim, A) /\ Through(t)

Stuck(n, F, A, t, c) ==
  /\ Meant(n, F, t) /\ t.ok /\ AssumedOk(t.trail, t.lim, A)
  /\ Clash(t.clause, t.trail, t.lim, t.qhead, c)

(* What is new on the trail after propagate is no decision.                *)
LEMMA AssumedContinues ==
  ASSUME NEW n \in Nat, NEW T, NEW M, NEW q, TrailOk(n, T, M, q), Opened(T, M),
         NEW U, NEW r, TrailOk(n, U, M, r), DecisionsOk(U, M), Continues(U, T),
         NEW A \in Seq(LitsOf(n)), AssumedOk(T, M, A)
  PROVE  AssumedOk(U, M, A)
<1>1. /\ Len(T) \in Nat /\ Len(U) \in Nat /\ Len(M) \in Nat
      /\ \A i \in 1 .. Len(U) : U[i].level \in 0 .. Len(M)
      /\ \A k \in 1 .. Len(M) : M[k] \in Nat
  BY TrailIs
<1>2. Len(T) <= Len(U) /\ \A i \in 1 .. Len(T) : i \in 1 .. Len(U) /\ U[i] = T[i]
  BY <1>1 DEF Continues
<1>3. ASSUME NEW k \in 1 .. Len(A), k <= Len(M)
      PROVE  \E i \in 1 .. Len(U) : U[i].lit = A[k] /\ U[i].level <= k
  <2>1. PICK i \in 1 .. Len(T) : T[i].lit = A[k] /\ T[i].level <= k
    BY <1>3 DEF AssumedOk
  <2>2. QED  BY <1>2, <2>1
<1>4. ASSUME NEW i \in 1 .. Len(U), U[i].reason = 0, U[i].level > 0, U[i].level <= Len(A)
      PROVE  U[i].lit \in Range(A)
  <2>1. i = M[U[i].level] + 1
    BY <1>4 DEF DecisionsOk
  <2>2. U[i].level \in 1 .. Len(M)
    BY <1>1, <1>4
  <2>3. M[U[i].level] < Len(T) /\ M[U[i].level] \in Nat
    BY <1>1, <2>2 DEF Opened
  <2>4. i \in 1 .. Len(T)
    <3> DEFINE m == M[U[i].level]
               a == Len(T)
    <3>1. i = m + 1 /\ m < a /\ m \in Nat /\ a \in Nat
      BY <2>1, <2>3, <1>1
    <3> HIDE DEF m, a
    <3>2. i \in 1 .. a
      BY ONLY <3>1
    <3>3. QED  BY <3>2 DEF a
  <2>5. U[i] = T[i]
    BY <1>2, <2>4
  <2>6. QED  BY <1>4, <2>4, <2>5 DEF AssumedOk
<1>5. QED  BY <1>3, <1>4 DEF AssumedOk

LEMMA BusyPropagated ==
  ASSUME NEW n \in Nat, NEW F \in SUBSET Assignments(n), NEW A \in Seq(LitsOf(n)),
         NEW t, Busy(n, F, A, t), NEW r, r = Propagated(t), NEW u, u = r.s
  PROVE  /\ r.confl = 0 => Calm(n, F, A, u)
         /\ r.confl # 0 => Stuck(n, F, A, u, r.confl)
<1>1. /\ Good(n, t) /\ Sound(F, t.clause, t.trail) /\ Looked(t.clause, t.trail, t.qhead, Len(t.lim))
      /\ t.ok /\ Lossless(n, F, t.orig, t.clause, t.trail)
      /\ AssumedOk(t.trail, t.lim, A) /\ Opened(t.trail, t.lim)
  BY DEF Busy, Meant
<1>2. /\ Good(n, u) /\ Kin(t, u) /\ Permuted(t.clause, u.clause) /\ Continues(u.trail, t.trail)
      /\ Sound(F, u.clause, u.trail)
      /\ r.confl = 0 => Through(u)
      /\ r.confl # 0 => Clash(u.clause, u.trail, u.lim, u.qhead, r.confl)
  BY ONLY <1>1, PropagatedIs, r = Propagated(t), u = r.s, n \in Nat, F \in SUBSET Assignments(n)
<1>3. u.ok = t.ok /\ u.orig = t.orig /\ u.lim = t.lim
  BY <1>2 DEF Kin
<1>4. TrailOk(n, t.trail, t.lim, t.qhead) /\ TrailOk(n, u.trail, t.lim, u.qhead) /\ DecisionsOk(u.trail, t.lim)
  BY <1>1, <1>2, <1>3 DEF Good
<1>5. AssumedOk(u.trail, t.lim, A)
  BY ONLY <1>1, <1>2, <1>4, AssumedContinues, n \in Nat, A \in Seq(LitsOf(n))
<1>6. Lossless(n, F, u.orig, u.clause, u.trail)
  <2>1. Len(t.trail) \in Nat /\ Len(u.trail) \in Nat
    BY <1>4, TrailIs
  <2>2. Lossless(n, F, t.orig, t.clause, u.trail)
    BY ONLY <1>1, <1>2, <2>1, LosslessContinues
  <2>3. t.orig \subseteq DOMAIN t.clause
    BY <1>1 DEF Good
  <2>4. \A c \in t.orig : Range(u.clause[c]) = Range(t.clause[c])
    BY <1>2, <2>3 DEF Permuted
  <2>5. QED  BY <1>3, <2>2, <2>4 DEF Lossless, Makers
<1>7. Meant(n, F, u) /\ u.ok /\ AssumedOk(u.trail, u.lim, A)
  BY <1>1, <1>2, <1>3, <1>5, <1>6 DEF Meant
<1>8. QED  BY <1>2, <1>7 DEF Calm, Stuck

(* After a conflict.                                                       *)
LEMMA EnqueueOpens ==
  ASSUME NEW n \in Nat, NEW v, Good(n, v), NEW M, M = v.lim, NEW U, NEW l, NEW from, Grown(v.trail, M, l, from, U)
  PROVE  \A k \in 1 .. Len(M) : M[k] < Len(U)
<1>1. Len(v.trail) \in Nat /\ Len(M) \in Nat /\ v.qhead \in Nat /\ v.qhead <= Len(v.trail) /\ v.trail \in Seq(Entries(n))
      /\ \A k \in 1 .. Len(M) : M[k] \in 0 .. v.qhead
  <2>1. TrailOk(n, v.trail, M, v.qhead)
    BY DEF Good
  <2>2. v.trail \in Seq(Entries(n))
    BY <2>1 DEF TrailOk
  <2>3. QED  BY <2>1, <2>2, TrailIs
<1>2. Len(U) = Len(v.trail) + 1
  BY <1>1 DEF Grown
<1> DEFINE a == Len(v.trail)
<1>3. \A k \in 1 .. Len(M) : M[k] \in 0 .. a
  BY <1>1
<1>4. a \in Nat /\ Len(U) = a + 1
  BY <1>1, <1>2
<1> HIDE DEF a
<1>5. QED  BY <1>3, <1>4

LEMMA LearnOpens ==
  ASSUME NEW n, NEW F, NEW t, NEW C, NEW T, NEW d, NEW A, NEW L, Learning(n, F, t, C, T, d, A, L),
         NEW u, u = LearnClause(t, L)
  PROVE  Opened(u.trail, u.lim)
<1> DEFINE b == BackLevel(t, L)
           v == cancelUntil(t, b)
           c == FreshRef(t)
<1>1. Backing(T, d, L, b)
  BY BackLevelIs
<1> HIDE DEF b
<1>2. Back(n, F, A, L, b, v) /\ n \in Nat
  BY ONLY <1>1, LessonBack, Learning(n, F, t, C, T, d, A, L), b = b DEF Learning
<1>3. Good(n, v) /\ Form(v)
  BY <1>2 DEF Back, Good
<1>4. u = Asserting(v, c, L)
  BY DEF LearnClause, b
<1> HIDE DEF v, c
<1>5. PICK from : Grown(v.trail, v.lim, L[1], from, u.trail) /\ u.lim = v.lim
  <2>1. CASE Len(L) = 1
    <3>1. u = uncheckedEnqueue(v, L[1], 0)
      BY <1>4, <2>1 DEF Asserting
    <3>2. Frame(v, u) /\ Grown(v.trail, v.lim, L[1], 0, u.trail)
      BY ONLY <1>3, <3>1, EnqueueIs
    <3>3. QED  BY <3>2 DEF Frame
  <2>2. CASE Len(L) # 1
    <3> DEFINE w == [Attached(v, c, L) EXCEPT !.learnt = @ \cup {c}]
    <3>1. u = uncheckedEnqueue(w, L[1], c)
      BY <1>4, <2>2 DEF Asserting
    <3>2. Joined(v, c, L, w, "learnt")
      BY DEF Joined
    <3> HIDE DEF w
    <3>3. JoinFrame(v, c, L, w, "learnt")
      BY ONLY <1>3, <3>2, JoinedIs
    <3>4. Form(w) /\ w.trail = v.trail /\ w.lim = v.lim
      BY <3>3 DEF JoinFrame
    <3>5. Frame(w, u) /\ Grown(w.trail, w.lim, L[1], c, u.trail)
      BY ONLY <3>4, <3>1, EnqueueIs
    <3>6. QED  BY <3>4, <3>5 DEF Frame
  <2>3. QED  BY <2>1, <2>2
<1>6. \A k \in 1 .. Len(v.lim) : v.lim[k] < Len(u.trail)
  BY ONLY <1>2, <1>3, <1>5, EnqueueOpens
<1>7. QED  BY <1>5, <1>6 DEF Opened

LEMMA StuckLearned ==
  ASSUME NEW n \in Nat, NEW F \in SUBSET Assignments(n), NEW A \in Seq(LitsOf(n)),
         NEW t, NEW c, Stuck(n, F, A, t, c), Len(t.lim) > 0, NEW u, u = Learned(t, c)
  PROVE  Busy(n, F, A, u)
<1>1. /\ Good(n, t) /\ Sound(F, t.clause, t.trail) /\ t.ok
      /\ Lossless(n, F, t.orig, t.clause, t.trail)
      /\ AssumedOk(t.trail, t.lim, A) /\ Clash(t.clause, t.trail, t.lim, t.qhead, c)
  BY DEF Stuck, Meant
<1>2. Continuing(n, F, A, u) /\ u.ok = t.ok
  BY ONLY <1>1, LearnedIs, u = Learned(t, c), Len(t.lim) > 0, n \in Nat, F \in SUBSET Assignments(n),
     A \in Seq(LitsOf(n))
<1>3. Opened(u.trail, u.lim)
  <2> DEFINE G == FirstUip(t, c)
             H == Minimized(t, G)
             L == Arranged(t, H)
  <2>1. Analysis(n, F, t, t.clause, t.trail, Len(t.lim))
    BY <1>1 DEF Analysis, Good
  <2>2. Clashing(n, F, t, t.clause, t.trail, Len(t.lim), c)
    BY <1>1, <2>1 DEF Clashing
  <2>3. Lesson(n, F, t.trail, Len(t.lim), G)
    BY ONLY <2>2, FirstUipIs
  <2> HIDE DEF G
  <2>4. Lesson(n, F, t.trail, Len(t.lim), H)
    BY ONLY <2>1, <2>3, MinimizedIs
  <2> HIDE DEF H
  <2>5. Lesson(n, F, t.trail, Len(t.lim), L) /\ Headed(t.trail, L)
    BY ONLY <2>1, <2>4, ArrangedIs
  <2>6. u = LearnClause(t, L)
    BY DEF Learned, L, H, G
  <2> HIDE DEF L
  <2>7. Learning(n, F, t, t.clause, t.trail, Len(t.lim), A, L)
    BY <1>1, <2>5 DEF Learning, Clash
  <2>8. QED  BY ONLY <2>6, <2>7, LearnOpens
<1>4. QED  BY <1>1, <1>2, <1>3 DEF Busy, Meant, Continuing

(* A restart.                                                              *)
LEMMA CalmRestarted ==
  ASSUME NEW n \in Nat, NEW F \in SUBSET Assignments(n), NEW A \in Seq(LitsOf(n)),
         NEW t, Calm(n, F, A, t), NEW u, u = cancelUntil(t, 0)
  PROVE  Busy(n, F, A, u)
<1>1. /\ Good(n, t) /\ Sound(F, t.clause, t.trail) /\ t.ok
      /\ Lossless(n, F, t.orig, t.clause, t.trail)
      /\ AssumedOk(t.trail, t.lim, A) /\ Looked(t.clause, t.trail, t.qhead, Len(t.lim))
  BY DEF Calm, Meant, Through
<1>2. TrailOk(n, t.trail, t.lim, t.qhead)
  BY <1>1 DEF Good
<1>3. Len(t.lim) \in Nat
  BY <1>2, TrailIs
<1>4. CASE Len(t.lim) = 0
  <2>1. u = t
    BY <1>4, CancelNothing
  <2>2. Opened(t.trail, t.lim)
    BY <1>4 DEF Opened
  <2>3. QED  BY <1>1, <2>1, <2>2 DEF Busy, Meant
<1>5. CASE Len(t.lim) > 0
  <2>1. /\ Good(n, u) /\ CancelFrame(t, u)
        /\ Cut(t.trail, t.lim, 0, u.qhead, u.trail, u.lim)
        /\ u.qhead = Len(u.trail) /\ Len(u.lim) = 0
    <3> DEFINE lev == 0
    <3>1. Good(n, t) /\ lev \in Nat /\ lev < Len(t.lim) /\ u = cancelUntil(t, lev)
      BY <1>1, <1>5
    <3>2. lev = 0
      OBVIOUS
    <3> HIDE DEF lev
    <3>3. /\ Good(n, u) /\ CancelFrame(t, u)
          /\ Cut(t.trail, t.lim, lev, u.qhead, u.trail, u.lim)
          /\ u.qhead = Len(u.trail) /\ Len(u.lim) = lev
      BY ONLY <3>1, CancelIs, n \in Nat
    <3>4. QED  BY <3>2, <3>3
  <2>2. 0 <= Len(t.lim)
    BY <1>3
  <2>3. /\ Sound(F, t.clause, u.trail) /\ Lossless(n, F, t.orig, t.clause, u.trail)
        /\ Looked(t.clause, u.trail, u.qhead, 0) /\ AssumedOk(u.trail, u.lim, A)
    BY ONLY <1>1, <1>2, <1>3, <2>1, <2>2, CutKeeps, n \in Nat, A \in Seq(LitsOf(n))
  <2>4. Opened(u.trail, u.lim)
    BY <2>1 DEF Opened
  <2>5. u.ok = t.ok /\ u.clause = t.clause /\ u.orig = t.orig
    BY <2>1 DEF CancelFrame
  <2>6. QED  BY <1>1, <2>1, <2>3, <2>4, <2>5 DEF Busy, Meant
<1>6. QED  BY <1>3, <1>4, <1>5

(* simplify and reduceDB.                                                  *)
Tidying(t) == IF decisionLevel(t) = 0 THEN Simplified(t) ELSE t

LEMMA CalmTidied ==
  ASSUME NEW n \in Nat, NEW F \in SUBSET Assignments(n), NEW A \in Seq(LitsOf(n)),
         NEW t, Calm(n, F, A, t), NEW u, u = Tidying(t)
  PROVE  Meant(n, F, u) /\ (u.ok => Calm(n, F, A, u)) /\ (~u.ok => F = {})
<1>1. CASE Len(t.lim) = 0
  <2>1. TrailOk(n, t.trail, t.lim, t.qhead) /\ t.lim \in Seq(Nat)
    BY DEF Calm, Meant, Good, TrailOk
  <2>2. t.lim = <<>>
    BY <1>1, <2>1
  <2>3. Rooted(n, F, t)
    BY <2>2 DEF Calm, Meant, Rooted
  <2>4. u = Simplified(t)
    BY <1>1 DEF Tidying, decisionLevel
  <2>5. Rooted(n, F, u)
    BY ONLY <2>3, <2>4, SimplifiedIs, n \in Nat, F \in SUBSET Assignments(n)
  <2>6. Meant(n, F, u) /\ u.lim = <<>> /\ (u.ok => Through(u)) /\ (~u.ok => F = {})
    BY <2>5 DEF Meant, Rooted
  <2>7. TrailOk(n, u.trail, u.lim, u.qhead)
    BY <2>6 DEF Meant, Good
  <2>8. AssumedOk(u.trail, u.lim, A)
    BY ONLY <2>6, <2>7, RootIs, n \in Nat
  <2>9. QED  BY <2>6, <2>8 DEF Calm
<1>2. CASE Len(t.lim) # 0
  <2>1. u = t
    BY <1>2 DEF Tidying, decisionLevel
  <2>2. QED  BY <2>1 DEF Calm
<1>3. QED  BY <1>1, <1>2

LEMMA CalmReduced ==
  ASSUME NEW n \in Nat, NEW F, NEW A, NEW t, Calm(n, F, A, t), NEW u, u \in Reductions(t)
  PROVE  Calm(n, F, A, u)
<1>1. /\ Good(n, t) /\ Sound(F, t.clause, t.trail) /\ t.ok /\ Through(t)
      /\ Lossless(n, F, t.orig, t.clause, t.trail) /\ AssumedOk(t.trail, t.lim, A)
  BY DEF Calm, Meant
<1>2. /\ Good(n, u) /\ Through(u) /\ Sound(F, u.clause, u.trail)
      /\ Lossless(n, F, u.orig, u.clause, u.trail) /\ AssumedOk(u.trail, u.lim, A)
      /\ u.ok = t.ok
  BY ONLY <1>1, ReducedIs, u \in Reductions(t), n \in Nat
<1>3. QED  BY <1>1, <1>2 DEF Calm, Meant

(* An assumption that holds gets a level of its own.                       *)
LEMMA CalmAssumed ==
  ASSUME NEW n \in Nat, NEW F, NEW A \in Seq(LitsOf(n)), NEW t, Calm(n, F, A, t),
         Len(t.lim) < Len(A), OnTrail(t.trail, A[Len(t.lim) + 1]), NEW u, u = newDecisionLevel(t)
  PROVE  Calm(n, F, A, u)
<1>1. /\ Good(n, t) /\ Sound(F, t.clause, t.trail) /\ t.ok /\ Through(t)
      /\ Lossless(n, F, t.orig, t.clause, t.trail) /\ AssumedOk(t.trail, t.lim, A)
  BY DEF Calm, Meant
<1>2. /\ Good(n, u)
      /\ u.ok = t.ok /\ u.clause = t.clause /\ u.orig = t.orig /\ u.trail = t.trail
      /\ Len(u.lim) = Len(t.lim) + 1
      /\ Len(t.lim) \in Nat /\ Len(t.trail) \in Nat
      /\ Through(u)
  <2>1. Good(n, t) /\ Through(t)
    BY <1>1
  <2>2. QED  BY ONLY <2>1, LevelIs, u = newDecisionLevel(t), n \in Nat
<1>3. \A i \in 1 .. Len(t.trail) : t.trail[i].level \in 0 .. Len(t.lim)
  <2>1. TrailOk(n, t.trail, t.lim, t.qhead)
    BY <1>1 DEF Good
  <2>2. QED  BY <2>1, TrailIs
<1> DEFINE d == Len(t.lim)
           T == t.trail
           e == Len(A)
<1>4. ASSUME NEW k \in 1 .. Len(A), k <= Len(u.lim)
      PROVE  \E i \in 1 .. Len(T) : T[i].lit = A[k] /\ T[i].level <= k
  <2>1. CASE k <= Len(t.lim)
    BY <1>1, <2>1 DEF AssumedOk
  <2>2. CASE k = d + 1
    <3>1. PICK i \in 1 .. Len(T) : T[i].lit = A[k]
      BY <2>2 DEF OnTrail
    <3> DEFINE lv == T[i].level
    <3>2. lv \in 0 .. d /\ d \in Nat
      BY <1>2, <1>3
    <3>3. k = d + 1
      BY <2>2
    <3> HIDE DEF d, lv
    <3>4. lv <= k
      BY ONLY <3>2, <3>3
    <3>5. T[i].level <= k
      BY <3>4 DEF lv
    <3>6. QED  BY <3>1, <3>5
  <2>3. d \in Nat /\ k <= d + 1 /\ (k <= d => k <= Len(t.lim)) /\ k \in 1 .. e
    BY <1>2, <1>4
  <2> HIDE DEF d, e
  <2>4. k <= d \/ k = d + 1
    BY ONLY <2>3
  <2>5. QED  BY <2>1, <2>2, <2>3, <2>4
<1>5. AssumedOk(u.trail, u.lim, A)
  BY <1>1, <1>2, <1>4 DEF AssumedOk
<1>6. QED  BY <1>1, <1>2, <1>5 DEF Calm, Meant

(* A decision: the next assumption, if there is one more.                  *)
NextAssumption(M, A, l) == Len(M) + 1 <= Len(A) => l = A[Len(M) + 1]

LEMMA CalmDecided ==
  ASSUME NEW n \in Nat, NEW F, NEW A \in Seq(LitsOf(n)), NEW t, Calm(n, F, A, t),
         NEW l \in LitsOf(n), Free(t.trail, l), NextAssumption(t.lim, A, l),
         NEW u, u = Decide(t, l)
  PROVE  Busy(n, F, A, u)
<1>0. /\ Good(n, t) /\ Sound(F, t.clause, t.trail) /\ t.ok /\ Through(t)
      /\ Lossless(n, F, t.orig, t.clause, t.trail) /\ AssumedOk(t.trail, t.lim, A)
  BY DEF Calm, Meant
<1> USE <1>0
<1> DEFINE v == newDecisionLevel(t)
           T == t.trail
           M == t.lim
           N == v.lim
           U == u.trail
           C == t.clause
           O == t.orig
           o == 0
<1>1. u = uncheckedEnqueue(v, l, o) /\ v = newDecisionLevel(t)
  BY DEF Decide
<1> HIDE DEF v
<1>2. /\ Good(n, v) /\ Form(v)
      /\ v.ok = t.ok /\ v.clause = t.clause /\ v.orig = t.orig /\ v.learnt = t.learnt
      /\ v.watches = t.watches /\ v.trail = t.trail /\ v.qhead = t.qhead /\ v.heap = t.heap
      /\ v.lim = Append(t.lim, Len(t.trail)) /\ Len(v.lim) = Len(t.lim) + 1 /\ v.lim[Len(v.lim)] = Len(t.trail)
      /\ \A k \in 1 .. Len(t.lim) : k \in 1 .. Len(v.lim) /\ v.lim[k] = t.lim[k]
      /\ Len(t.lim) \in Nat /\ Len(t.trail) \in Nat
      /\ Through(v)
  BY ONLY <1>1, LevelIs, n \in Nat, Good(n, t), Through(t)
<1>3. Enqueuing(n, v, l, o)
  <2>1. l \in LitsOf(n) /\ Free(v.trail, l)
    BY <1>2
  <2>2. v.lim[Len(v.lim)] = Len(v.trail)
    BY <1>2
  <2>3. QED  BY ONLY <2>1, <2>2 DEF Enqueuing
<1> HIDE DEF o
<1>4. /\ Good(n, u) /\ Frame(v, u) /\ u.clause = v.clause /\ u.watches = v.watches /\ u.qhead = v.qhead
      /\ Grown(v.trail, v.lim, l, o, u.trail)
  <2>1. n \in Nat /\ Good(n, v)
    BY <1>2
  <2>2. u = uncheckedEnqueue(v, l, o)
    BY <1>1
  <2>3. QED  BY ONLY <1>3, <2>1, <2>2, EnqueueGood
<1>5. u.lim = N /\ u.ok = t.ok /\ u.orig = O /\ u.clause = C /\ Grown(T, N, l, o, U) /\ v.qhead = Len(T)
  BY ONLY <1>2, <1>4 DEF Frame, Through
<1>6. n \in Nat /\ TrailOk(n, T, N, v.qhead) /\ l \in LitsOf(n) /\ o \in Nat
  BY <1>2 DEF Good, o
<1>7. Len(T) \in Nat /\ Len(M) \in Nat /\ Len(N) = Len(M) + 1 /\ Len(N) # 0
  BY <1>2
<1>8. Sound(F, C, T) /\ AssumedOk(T, M, A) /\ A \in Seq(LitsOf(n)) /\ NextAssumption(M, A, l)
  OBVIOUS
<1>9. Looked(C, T, v.qhead, Len(N))
  BY ONLY <1>2 DEF Through
<1> DEFINE q == v.qhead
           w == Len(N)
<1> HIDE DEF T, M, N, U, C, O, q, w
<1>10. /\ Sound(F, C, T) /\ Root(N, F, l) => Sound(F, C, U)
       /\ Lossless(n, F, O, C, T) => Lossless(n, F, O, C, U)
       /\ Looked(C, T, q, w) => Looked(C, U, q, w)
       /\ Len(U) = Len(T) + 1 /\ Continues(U, T) /\ U[Len(U)] = Item(l, o, Len(N))
  <2>1. n \in Nat /\ TrailOk(n, T, N, q) /\ l \in LitsOf(n) /\ o \in Nat /\ Grown(T, N, l, o, U)
    BY <1>5, <1>6 DEF q
  <2>2. QED  BY ONLY <2>1, GrownKeeps
<1>11. AssumedOk(U, N, A)
  <2>1. U[Len(U)].lit = l /\ U[Len(U)].level = Len(N) /\ Len(U) \in 1 .. Len(U)
    BY <1>7, <1>10 DEF Item
  <2>2. \A i \in 1 .. Len(T) : i \in 1 .. Len(U) /\ U[i] = T[i]
    BY ONLY <1>7, <1>10 DEF Continues
  <2>3. \A i \in 1 .. Len(U) : i \in 1 .. Len(T) \/ i = Len(U)
    BY ONLY <1>7, <1>10
  <2>4. ASSUME NEW k \in 1 .. Len(A), k <= Len(N) PROVE \E i \in 1 .. Len(U) : U[i].lit = A[k] /\ U[i].level <= k
    <3>1. CASE k <= Len(M)
      <4>1. PICK i \in 1 .. Len(T) : T[i].lit = A[k] /\ T[i].level <= k
        BY <1>8, <3>1 DEF AssumedOk
      <4>2. QED  BY <2>2, <4>1
    <3>2. CASE ~(k <= Len(M))
      <4>1. k = Len(N) /\ k = Len(M) + 1 /\ k <= Len(A)
        BY <1>7, <2>4, <3>2
      <4>2. A[k] = l
        BY <1>8, <4>1 DEF NextAssumption
      <4>3. U[Len(U)].level <= k
        BY ONLY <1>7, <2>1, <4>1
      <4>4. QED  BY <2>1, <4>2, <4>3
    <3>3. QED  BY <3>1, <3>2
  <2>5. ASSUME NEW i \in 1 .. Len(U), U[i].reason = 0, U[i].level > 0, U[i].level <= Len(A) PROVE U[i].lit \in Range(A)
    <3>1. CASE i \in 1 .. Len(T)
      BY <1>8, <2>2, <2>5, <3>1 DEF AssumedOk
    <3>2. CASE i = Len(U)
      <4>1. Len(M) + 1 <= Len(A)
        BY <1>7, <2>1, <2>5, <3>2
      <4>2. Len(M) + 1 \in DOMAIN A /\ U[i].lit = A[Len(M) + 1]
        BY <1>7, <1>8, <2>1, <3>2, <4>1 DEF NextAssumption
      <4>3. QED  BY <4>2 DEF Range
    <3>3. QED  BY <2>3, <3>1, <3>2
  <2>6. QED  BY <2>4, <2>5 DEF AssumedOk
<1>12. Looked(C, U, q, w)
  BY <1>9, <1>10 DEF q, w
<1>13. Sound(F, C, U)
  BY <1>7, <1>8, <1>10 DEF Root
<1>14. u.qhead = q /\ w = Len(N)
  BY <1>4 DEF q, w
<1>15. /\ Good(n, u) /\ u.ok = t.ok /\ u.clause = t.clause /\ u.orig = t.orig
       /\ Sound(F, u.clause, u.trail)
       /\ Lossless(n, F, u.orig, u.clause, u.trail)
       /\ Looked(u.clause, u.trail, u.qhead, Len(u.lim))
       /\ AssumedOk(u.trail, u.lim, A)
  BY <1>4, <1>5, <1>10, <1>11, <1>12, <1>13, <1>14 DEF T, U, C, O
<1>16. Opened(u.trail, u.lim)
  <2>1. \A k \in 1 .. Len(v.lim) : v.lim[k] < Len(u.trail)
    BY ONLY <1>2, <1>4, EnqueueOpens, n \in Nat
  <2>2. QED  BY <1>4, <2>1 DEF Frame, Opened
<1>17. QED  BY <1>15, <1>16 DEF Busy, Meant

(* Of the heap, the variables without a value have to be kept.             *)
Reheaped(t, H, u) == u = [t EXCEPT !.heap = H]

LEMMA ReheapedIs ==
  ASSUME NEW n \in Nat, NEW F, NEW A, NEW t, NEW H, H \subseteq 1 .. n, Unassigned(n, t.trail) \subseteq H,
         NEW u, Form(t), Reheaped(t, H, u)
  PROVE  /\ Good(n, t) => Good(n, u)
         /\ Meant(n, F, t) => Meant(n, F, u)
         /\ Busy(n, F, A, t) => Busy(n, F, A, u)
         /\ Calm(n, F, A, t) => Calm(n, F, A, u)
         /\ u.clause = t.clause /\ u.trail = t.trail /\ u.lim = t.lim /\ u.qhead = t.qhead /\ u.ok = t.ok
         /\ u.polarity = t.polarity
<1>1. u = [ ok |-> t.ok, clause |-> t.clause, orig |-> t.orig, learnt |-> t.learnt,
            watches |-> t.watches, trail |-> t.trail, lim |-> t.lim, qhead |-> t.qhead,
            heap |-> H, polarity |-> t.polarity, userPol |-> t.userPol,
            simpAssigns |-> t.simpAssigns, simpProps |-> t.simpProps ]
  BY DEF Form, Reheaped
<1>2. /\ u.ok = t.ok /\ u.clause = t.clause /\ u.orig = t.orig /\ u.learnt = t.learnt
      /\ u.watches = t.watches /\ u.trail = t.trail /\ u.lim = t.lim /\ u.qhead = t.qhead
      /\ u.heap = H /\ u.polarity = t.polarity /\ u.userPol = t.userPol /\ u.simpProps = t.simpProps
  BY ONLY <1>1
<1>3. Form(u)
  BY ONLY <1>1 DEF Form
<1>4. Good(n, t) => Good(n, u)
  BY <1>2, <1>3 DEF Good
<1>5. Meant(n, F, t) => Meant(n, F, u)
  BY <1>2, <1>4 DEF Meant
<1>6. Through(t) => Through(u)
  BY <1>2 DEF Through
<1>7. QED  BY <1>2, <1>4, <1>5, <1>6 DEF Busy, Calm

(* pickBranchLit takes a variable without a value.                         *)
LEMMA CalmBranched ==
  ASSUME NEW n \in Nat, NEW F, NEW A \in Seq(LitsOf(n)), NEW t, Calm(n, F, A, t),
         Len(t.lim) >= Len(A), NEW v \in t.heap \ Assigned(t), NEW l \in {v, -v},
         NEW H, H = t.heap \ (Assigned(t) \cup {v}), NEW u, u = Decide([t EXCEPT !.heap = H], l)
  PROVE  Busy(n, F, A, u)
<1>1. Good(n, t) /\ Form(t)
  BY DEF Calm, Meant, Good
<1>2. t.heap \subseteq 1 .. n /\ Unassigned(n, t.trail) \subseteq t.heap /\ TrailOk(n, t.trail, t.lim, t.qhead)
  BY <1>1 DEF Good
<1>3. v \in 1 .. n /\ l \in LitsOf(n) /\ l # 0 /\ -l \in {v, -v}
  <2>1. v \in 1 .. n
    BY <1>2
  <2>2. QED  BY <2>1 DEF LitsOf
<1>4. /\ Len(t.trail) \in Nat /\ DOMAIN t.trail = 1 .. Len(t.trail) /\ Len(t.lim) \in Nat
      /\ \A i \in 1 .. Len(t.trail) : t.trail[i].lit \in LitsOf(n)
  BY <1>2, TrailIs
<1>5. \A k \in LitsOf(n) : OnTrail(t.trail, k) => Var(k) \in Assigned(t)
  BY <1>4 DEF OnTrail, Assigned, TrueLits
<1>6. v \in LitsOf(n) /\ -v \in LitsOf(n) /\ Var(v) = v /\ Var(-v) = v
  BY <1>3, Literals
<1>7. Free(t.trail, l)
  <2>1. ~OnTrail(t.trail, v) /\ ~OnTrail(t.trail, -v)
    BY <1>5, <1>6
  <2>2. QED  BY <1>3, <2>1 DEF Free
<1>8. NextAssumption(t.lim, A, l)
  <2>1. Len(A) \in Nat
    OBVIOUS
  <2>2. QED  BY <1>4, <2>1 DEF NextAssumption
<1> DEFINE w == Decide(t, l)
<1>9. w = Decide(t, l)
  OBVIOUS
<1> HIDE DEF w
<1>10. Busy(n, F, A, w)
  BY ONLY <1>3, <1>7, <1>8, <1>9, CalmDecided, n \in Nat, A \in Seq(LitsOf(n)), Calm(n, F, A, t)
<1> DEFINE T == t.trail
           U == Append(T, Item(l, 0, Len(t.lim) + 1))
           N == Append(t.lim, Len(T))
<1>11. /\ w = [ ok |-> t.ok, clause |-> t.clause, orig |-> t.orig, learnt |-> t.learnt,
                watches |-> t.watches, trail |-> U, lim |-> N, qhead |-> t.qhead,
                heap |-> t.heap, polarity |-> t.polarity, userPol |-> t.userPol,
                simpAssigns |-> t.simpAssigns, simpProps |-> t.simpProps ]
       /\ u = [ ok |-> t.ok, clause |-> t.clause, orig |-> t.orig, learnt |-> t.learnt,
                watches |-> t.watches, trail |-> U, lim |-> N, qhead |-> t.qhead,
                heap |-> H, polarity |-> t.polarity, userPol |-> t.userPol,
                simpAssigns |-> t.simpAssigns, simpProps |-> t.simpProps ]
  <2>1. t.lim \in Seq(Nat)
    BY <1>2 DEF TrailOk
  <2>2. Len(Append(t.lim, Len(T))) = Len(t.lim) + 1
    BY <2>1
  <2>3. QED  BY <1>1, <1>9, <2>2 DEF Form, Decide, uncheckedEnqueue, newDecisionLevel, decisionLevel, Item
<1>12. Form(w) /\ Reheaped(w, H, u)
  <2> HIDE DEF U, N
  <2>1. Form(w)
    BY ONLY <1>11 DEF Form
  <2>2. Reheaped(w, H, u)
    <3> DEFINE z == [w EXCEPT !.heap = H]
    <3>1. z = [ ok |-> t.ok, clause |-> t.clause, orig |-> t.orig, learnt |-> t.learnt,
                watches |-> t.watches, trail |-> U, lim |-> N, qhead |-> t.qhead,
                heap |-> H, polarity |-> t.polarity, userPol |-> t.userPol,
                simpAssigns |-> t.simpAssigns, simpProps |-> t.simpProps ]
      BY ONLY <1>11
    <3>2. QED  BY ONLY <1>11, <3>1 DEF Reheaped
  <2>3. QED  BY <2>1, <2>2
<1>13. H \subseteq 1 .. n /\ Unassigned(n, w.trail) \subseteq H
  <2>1. T \in Seq(Entries(n))
    BY <1>2 DEF TrailOk
  <2> DEFINE e == Item(l, 0, Len(t.lim) + 1)
             a == Len(T)
  <2>2. e.lit = l
    BY DEF Item
  <2>3. w.trail = Append(T, e)
    BY ONLY <1>11
  <2> HIDE DEF e
  <2>4. a \in Nat /\ Len(w.trail) = a + 1 /\ w.trail[a + 1] = e /\ \A i \in 1 .. a : w.trail[i] = T[i]
    BY <1>4, <2>1, <2>3
  <2> HIDE DEF a
  <2>5. a + 1 \in 1 .. Len(w.trail) /\ \A i \in 1 .. a : i \in 1 .. Len(w.trail)
    BY <2>4
  <2>6. OnTrail(w.trail, l) /\ \A k : OnTrail(T, k) => OnTrail(w.trail, k)
    BY <2>2, <2>4, <2>5 DEF OnTrail, a
  <2>7. ASSUME NEW x \in Unassigned(n, w.trail) PROVE x \in H
    <3>1. x \in Unassigned(n, T)
      BY <2>6 DEF Unassigned
    <3>2. x # v
      BY <2>6 DEF Unassigned
    <3>3. x \in 1 .. n
      BY DEF Unassigned
    <3>4. x \notin Assigned(t)
      <4>1. SUFFICES ASSUME NEW k \in TrueLits(t), Var(k) = x PROVE FALSE
        BY DEF Assigned
      <4>2. PICK i \in 1 .. Len(t.trail) : k = t.trail[i].lit
        BY <1>4 DEF TrueLits
      <4>3. k \in LitsOf(n) /\ OnTrail(T, k)
        BY <1>4, <4>2 DEF OnTrail
      <4>4. k = x \/ k = -x
        BY <4>1, <4>3 DEF Var, LitsOf
      <4>5. QED  BY <3>1, <4>3, <4>4 DEF Unassigned
    <3>5. QED  BY <1>2, <3>1, <3>2, <3>4
  <2>8. H \subseteq 1 .. n
    BY <1>2
  <2>9. QED  BY <2>7, <2>8
<1>14. QED  BY ONLY <1>10, <1>12, <1>13, ReheapedIs, n \in Nat

(* No variable is left: the values make every clause and assumption true.  *)
Complete(n, T) == \A l \in LitsOf(n) : OnTrail(T, l) \/ OnTrail(T, -l)

LEMMA AllAssigned ==
  ASSUME NEW n \in Nat, NEW t, Good(n, t), t.heap \subseteq Assigned(t)
  PROVE  Complete(n, t.trail) /\ Unassigned(n, t.trail) = {}
<1>1. /\ TrailOk(n, t.trail, t.lim, t.qhead) /\ t.heap \subseteq 1 .. n /\ Unassigned(n, t.trail) \subseteq t.heap
  BY DEF Good
<1>2. /\ DOMAIN t.trail = 1 .. Len(t.trail)
      /\ \A i \in 1 .. Len(t.trail) : t.trail[i].lit \in LitsOf(n)
  BY <1>1, TrailIs
<1>3. ASSUME NEW v \in Assigned(t) PROVE OnTrail(t.trail, v) \/ OnTrail(t.trail, -v)
  <2>1. PICK i \in 1 .. Len(t.trail) : Var(t.trail[i].lit) = v
    BY <1>2 DEF Assigned, TrueLits
  <2>2. t.trail[i].lit \in LitsOf(n)
    BY <1>2
  <2>3. t.trail[i].lit = v \/ t.trail[i].lit = -v
    BY <2>1, <2>2 DEF Var, LitsOf
  <2>4. QED  BY <2>3 DEF OnTrail
<1>4. Unassigned(n, t.trail) = {}
  BY <1>1, <1>3 DEF Unassigned
<1>5. ASSUME NEW l \in LitsOf(n) PROVE OnTrail(t.trail, l) \/ OnTrail(t.trail, -l)
  <2>1. Var(l) \in 1 .. n /\ (l = Var(l) \/ l = -Var(l)) /\ -l \in {Var(l), -Var(l)}
    BY DEF LitsOf, Var
  <2>2. OnTrail(t.trail, Var(l)) \/ OnTrail(t.trail, -Var(l))
    BY <1>4, <2>1 DEF Unassigned
  <2>3. (l = Var(l) /\ -l = -Var(l)) \/ (l = -Var(l) /\ -l = Var(l))
    BY <2>1 DEF LitsOf, Var
  <2>4. QED  BY <2>2, <2>3
<1>6. QED  BY <1>4, <1>5 DEF Complete

LEMMA ModelIs ==
  ASSUME NEW n \in Nat \ {0}, NEW t, Good(n, t), Complete(n, t.trail), NEW m, m = ModelOf(t)
  PROVE  m \in Assignments(n) /\ m # <<>> /\ \A l \in LitsOf(n) : OnTrail(t.trail, l) => Makes(m, l)
<1>1. TrailOk(n, t.trail, t.lim, t.qhead) /\ DOMAIN t.polarity = 1 .. n /\ n \in Nat
  BY DEF Good
<1>2. /\ \A l : IsTrue(t, l) <=> OnTrail(t.trail, l)
      /\ \A l \in LitsOf(n) : ~(OnTrail(t.trail, l) /\ OnTrail(t.trail, -l))
  BY <1>1, TrueIs, TrailIs
<1>3. m = [v \in 1 .. n |-> IF OnTrail(t.trail, v) THEN 1 ELSE IF OnTrail(t.trail, -v) THEN 0 ELSE -1]
  BY <1>1, <1>2 DEF ModelOf
<1>4. \A v \in 1 .. n : v \in LitsOf(n) /\ -v \in LitsOf(n) /\ -(-v) = v
  BY DEF LitsOf
<1>5. \A v \in 1 .. n : IF OnTrail(t.trail, v) THEN m[v] = 1 ELSE m[v] = 0 /\ OnTrail(t.trail, -v)
  BY <1>2, <1>3, <1>4 DEF Complete
<1>6. m \in Assignments(n)
  BY <1>3, <1>5 DEF Assignments
<1>7. m # <<>>
  <2>1. 1 \in DOMAIN m
    BY <1>3
  <2>2. QED  BY <2>1
<1>8. ASSUME NEW l \in LitsOf(n), OnTrail(t.trail, l) PROVE Makes(m, l)
  <2>1. CASE l > 0
    <3>1. l \in 1 .. n /\ Var(l) = l
      BY <2>1 DEF LitsOf, Var
    <3>2. QED  BY <1>5, <1>8, <2>1, <3>1 DEF Makes
  <2>2. CASE ~(l > 0)
    <3>1. -l \in 1 .. n /\ Var(l) = -l /\ -(-l) = l
      BY <2>2 DEF LitsOf, Var
    <3>2. ~OnTrail(t.trail, -l)
      BY <1>2, <1>8
    <3>3. m[-l] = 0
      BY <1>5, <3>1, <3>2
    <3>4. QED  BY <2>2, <3>1, <3>3 DEF Makes
  <2>3. QED  BY <2>1, <2>2
<1>9. QED  BY <1>6, <1>7, <1>8

LEMMA CalmAnswers ==
  ASSUME NEW n \in Nat \ {0}, NEW F, NEW A \in Seq(LitsOf(n)), NEW t, Calm(n, F, A, t),
         Len(t.lim) >= Len(A), t.heap \subseteq Assigned(t), NEW m, m = ModelOf(t),
         NEW u, u = [t EXCEPT !.heap = {}]
  PROVE  /\ Meant(n, F, u) /\ u.ok /\ Through(u)
         /\ m # <<>> /\ m \in F /\ \A l \in Range(A) : Makes(m, l)
<1>1. /\ Good(n, t) /\ Form(t) /\ n \in Nat /\ Through(t) /\ AssumedOk(t.trail, t.lim, A)
      /\ Lossless(n, F, t.orig, t.clause, t.trail)
  BY DEF Calm, Meant, Good
<1>2. Complete(n, t.trail) /\ Unassigned(n, t.trail) = {}
  BY ONLY <1>1, AllAssigned, t.heap \subseteq Assigned(t)
<1>3. Calm(n, F, A, u)
  <2> DEFINE H == {}
  <2>1. H \subseteq 1 .. n /\ Unassigned(n, t.trail) \subseteq H /\ Reheaped(t, H, u) /\ Calm(n, F, A, t)
    BY <1>2 DEF Reheaped
  <2> HIDE DEF H
  <2>2. QED  BY ONLY <1>1, <2>1, ReheapedIs
<1>4. m \in Assignments(n) /\ m # <<>> /\ \A l \in LitsOf(n) : OnTrail(t.trail, l) => Makes(m, l)
  BY ONLY <1>1, <1>2, ModelIs, n \in Nat \ {0}, m = ModelOf(t)
<1>5. /\ ClausesOk(n, t.clause) /\ TrailOk(n, t.trail, t.lim, t.qhead) /\ t.orig \subseteq DOMAIN t.clause
  BY <1>1 DEF Good
<1> DEFINE T == t.trail
           C == t.clause
<1>6. /\ Len(T) \in Nat /\ Len(t.lim) \in Nat
      /\ \A i \in 1 .. Len(T) : T[i].lit \in LitsOf(n) /\ T[i].level \in 0 .. Len(t.lim)
  BY <1>1, <1>5, TrailIs
<1>7. ASSUME NEW c \in t.orig PROVE Makers(m, C[c])
  <2>1. /\ c \in DOMAIN C /\ C[c][1] \in LitsOf(n) /\ C[c][1] \in Range(C[c])
        /\ Range(C[c]) \subseteq LitsOf(n)
    BY <1>1, <1>5, ClausesAre
  <2>2. CASE OnTrail(T, C[c][1])
    BY <1>4, <2>1, <2>2 DEF Makers
  <2>3. CASE OnTrail(T, -C[c][1])
    <3>1. PICK i \in 1 .. Len(T) : T[i].lit = -C[c][1]
      BY <2>3 DEF OnTrail
    <3>2. -T[i].lit = C[c][1]
      BY <2>1, <3>1 DEF LitsOf
    <3>3. i \in 1 .. t.qhead /\ T[i].level <= Len(t.lim) /\ Looked(C, T, t.qhead, Len(t.lim))
      BY <1>1, <1>6 DEF Through
    <3>4. -T[i].lit \in {C[c][1], C[c][2]}
      BY <3>2
    <3> HIDE DEF T, C
    <3>5. PICK j \in 1 .. Len(T) : T[j].lit \in Range(C[c])
      BY <2>1, <3>3, <3>4 DEF Looked
    <3>6. OnTrail(T, T[j].lit)
      BY DEF OnTrail
    <3>7. QED  BY <1>4, <2>1, <3>5, <3>6 DEF Makers, T
  <2>4. QED  BY <1>2, <2>1, <2>2, <2>3 DEF Complete
<1>8. m \in F
  <2>1. \A i \in 1 .. Len(T) : Makes(m, T[i].lit)
    BY <1>4, <1>6 DEF OnTrail
  <2>2. QED  BY <1>1, <1>4, <1>7, <2>1 DEF Lossless
<1>9. ASSUME NEW l \in Range(A) PROVE Makes(m, l)
  <2>1. Len(A) \in Nat /\ Len(t.lim) >= Len(A)
    OBVIOUS
  <2>2. PICK k \in 1 .. Len(A) : A[k] = l
    BY DEF Range
  <2>3. k <= Len(t.lim)
    BY <1>6, <2>1
  <2>4. PICK i \in 1 .. Len(T) : T[i].lit = A[k]
    BY <1>1, <2>3 DEF AssumedOk
  <2>5. QED  BY <1>4, <1>6, <2>2, <2>4 DEF OnTrail
<1>10. QED  BY <1>3, <1>4, <1>8, <1>9 DEF Calm

(* An assumption that is false.                                            *)
LEMMA CalmRefuted ==
  ASSUME NEW n \in Nat, NEW F \in SUBSET Assignments(n), NEW A \in Seq(LitsOf(n)), NEW t, Calm(n, F, A, t),
         Len(t.lim) < Len(A), NEW p, p = -A[Len(t.lim) + 1], OnTrail(t.trail, p),
         NEW out, out = analyzeFinal(t, p)
  PROVE  /\ \A l \in out : l \in LitsOf(n) /\ -l \in Range(A)
         /\ \A m \in F : \E l \in out : Makes(m, l)
<1> DEFINE C == t.clause
           T == t.trail
           M == t.lim
<1>1. Refuting(n, F, t, C, T, M, A)
  BY DEF Refuting, Calm, Meant
<1>2. OnTrail(T, p) /\ p = -A[Len(M) + 1]
  OBVIOUS
<1> HIDE DEF C, T, M
<1>3. QED  BY ONLY <1>1, <1>2, AnalyzeFinalIs, out = analyzeFinal(t, p)

(* The end of solve_.                                                      *)
LEMMA CancelRooted ==
  ASSUME NEW n \in Nat, NEW F, NEW t, Meant(n, F, t), t.ok => Through(t),
         NEW u, u = cancelUntil(t, 0)
  PROVE  Rooted(n, F, u)
<1>1. Good(n, t) /\ TrailOk(n, t.trail, t.lim, t.qhead) /\ Sound(F, t.clause, t.trail)
  BY DEF Meant, Good
<1>2. Len(t.lim) \in Nat /\ t.lim \in Seq(Nat)
  BY <1>1, TrailIs DEF TrailOk
<1>3. CASE Len(t.lim) = 0
  <2>1. u = t
    BY <1>3, CancelNothing
  <2>2. t.lim = <<>>
    BY <1>2, <1>3
  <2>3. QED  BY <2>1, <2>2 DEF Rooted, Meant
<1>4. CASE Len(t.lim) > 0
  <2> DEFINE lev == 0
  <2>1. Good(n, t) /\ lev \in Nat /\ lev < Len(t.lim) /\ u = cancelUntil(t, lev)
    BY <1>1, <1>4
  <2>2. lev = 0 /\ lev <= Len(t.lim)
    BY <1>2
  <2> HIDE DEF lev
  <2>3. /\ Good(n, u) /\ CancelFrame(t, u)
        /\ Cut(t.trail, t.lim, lev, u.qhead, u.trail, u.lim)
        /\ u.qhead = Len(u.trail) /\ Len(u.lim) = lev
    BY ONLY <2>1, CancelIs, n \in Nat
  <2>4. u.lim = <<>>
    <3>1. TrailOk(n, u.trail, u.lim, u.qhead)
      BY <2>3 DEF Good
    <3>2. u.lim \in Seq(Nat)
      BY <3>1 DEF TrailOk
    <3>3. QED  BY <2>2, <2>3, <3>2
  <2>5. /\ Sound(F, t.clause, u.trail)
        /\ Lossless(n, F, t.orig, t.clause, t.trail) => Lossless(n, F, t.orig, t.clause, u.trail)
        /\ Looked(t.clause, t.trail, t.qhead, Len(t.lim)) => Looked(t.clause, u.trail, u.qhead, lev)
    <3> DEFINE T == t.trail
               M == t.lim
               q == t.qhead
               U == u.trail
               N == u.lim
               m == u.qhead
               C == t.clause
               O == t.orig
               high == Len(M)
    <3>1. /\ TrailOk(n, T, M, q) /\ Cut(T, M, lev, m, U, N) /\ n \in Nat
          /\ Sound(F, C, T) /\ high \in Nat /\ lev <= high
      BY <1>1, <1>2, <2>2, <2>3
    <3> HIDE DEF T, M, q, U, N, m, C, O, high
    <3>2. /\ Sound(F, C, U)
          /\ Lossless(n, F, O, C, T) => Lossless(n, F, O, C, U)
          /\ Looked(C, T, q, high) => Looked(C, U, m, lev)
      BY ONLY <3>1, CutKeeps
    <3>3. QED  BY <3>2 DEF T, M, q, U, N, m, C, O, high
  <2>6. u.ok = t.ok /\ u.clause = t.clause /\ u.orig = t.orig
    BY <2>3 DEF CancelFrame
  <2>7. t.ok => Looked(t.clause, t.trail, t.qhead, Len(t.lim)) /\ Lossless(n, F, t.orig, t.clause, t.trail)
    BY DEF Through, Meant
  <2>8. u.ok => Through(u) /\ Lossless(n, F, u.orig, u.clause, u.trail)
    BY <2>3, <2>5, <2>6, <2>7 DEF Through
  <2>9. ~u.ok => F = {}
    BY <2>6 DEF Meant
  <2>10. Sound(F, u.clause, u.trail)
    BY <2>5, <2>6
  <2>11. QED  BY <2>3, <2>4, <2>8, <2>9, <2>10 DEF Rooted
<1>5. QED  BY <1>2, <1>3, <1>4

LEMMA Returned ==
  ASSUME NEW n \in Nat, NEW F, NEW t, Meant(n, F, t), NEW b \in BOOLEAN,
         b => t.ok /\ Through(t), ~b => F = {},
         NEW u, u = cancelUntil([t EXCEPT !.ok = @ /\ b], 0)
  PROVE  Rooted(n, F, u)
<1> DEFINE v == [t EXCEPT !.ok = @ /\ b]
<1>1. Good(n, t) /\ Form(t) /\ t.ok \in BOOLEAN
  BY DEF Meant, Good
<1>2. u = cancelUntil(v, 0)
  OBVIOUS
<1>3. CASE b
  <2>1. t.ok = TRUE /\ (t.ok /\ b) = TRUE
    BY <1>1, <1>3
  <2>2. v = [t EXCEPT !.ok = TRUE]
    BY <2>1
  <2> HIDE DEF v
  <2>3. v = t
    BY ONLY <1>1, <2>1, <2>2, CheckedHolds
  <2>4. Meant(n, F, v) /\ (v.ok => Through(v))
    BY <1>3, <2>3
  <2>5. QED  BY ONLY <1>2, <2>4, CancelRooted, n \in Nat
<1>4. CASE ~b
  <2>1. (t.ok /\ b) = FALSE
    BY <1>1, <1>4
  <2>2. v = [t EXCEPT !.ok = FALSE]
    BY <2>1
  <2> HIDE DEF v
  <2>3. Good(n, v) /\ v.ok = FALSE
    BY ONLY <1>1, <2>2, CheckedFails, n \in Nat
  <2>4. Sound(F, v.clause, v.trail)
    BY <1>4 DEF Sound
  <2>5. Meant(n, F, v) /\ (v.ok => Through(v))
    BY <1>4, <2>3, <2>4 DEF Meant
  <2>6. QED  BY ONLY <1>2, <2>5, CancelRooted, n \in Nat
<1>5. QED  BY <1>3, <1>4

(* The start of solve_.                                                    *)
LEMMA RootedStarts ==
  ASSUME NEW n \in Nat, NEW F \in SUBSET Assignments(n), NEW A \in Seq(LitsOf(n)), NEW t, Rooted(n, F, t),
         NEW pol \in [1 .. n -> {-1, 0, 1}], NEW u, u = Simplified([t EXCEPT !.userPol = pol])
  PROVE  Meant(n, F, u) /\ (u.ok => Busy(n, F, A, u)) /\ (~u.ok => F = {})
<1> DEFINE v == [t EXCEPT !.userPol = pol]
<1>1. v = [t EXCEPT !.userPol = pol] /\ u = Simplified(v)
  OBVIOUS
<1> HIDE DEF v
<1>2. Rooted(n, F, v)
  BY ONLY <1>1, PreferringIs, n \in Nat, Rooted(n, F, t), pol \in [1 .. n -> {-1, 0, 1}]
<1>3. Rooted(n, F, u)
  BY ONLY <1>1, <1>2, SimplifiedIs, n \in Nat, F \in SUBSET Assignments(n)
<1>4. Meant(n, F, u) /\ u.lim = <<>> /\ (u.ok => Through(u)) /\ (~u.ok => F = {})
  BY <1>3 DEF Meant, Rooted
<1>5. TrailOk(n, u.trail, u.lim, u.qhead)
  BY <1>4 DEF Meant, Good
<1>6. AssumedOk(u.trail, u.lim, A)
  BY ONLY <1>4, <1>5, RootIs, n \in Nat
<1>7. Opened(u.trail, u.lim)
  BY <1>4 DEF Opened
<1>8. QED  BY <1>4, <1>6, <1>7 DEF Busy, Through

(* A solver without clauses.                                               *)
LEMMA NewSolverIs ==
  ASSUME NEW n \in Nat, NEW t, t = NewSolver(n)
  PROVE  Rooted(n, Assignments(n), t)
<1> DEFINE E == <<>>
<1>1. /\ E = <<>> /\ Len(E) = 0 /\ DOMAIN E = {} /\ Range(E) = {} /\ IsInjective(E)
      /\ \A S : E \in Seq(S)
  BY DEF Range, IsInjective
<1>2. E = [c \in DOMAIN E |-> E[c]]
  BY <1>1
<1>3. t = [ ok |-> TRUE, clause |-> E, orig |-> {}, learnt |-> {},
            watches |-> [l \in LitsOf(n) |-> E],
            trail |-> E, lim |-> E, qhead |-> 0,
            heap |-> 1 .. n,
            polarity |-> [v \in 1 .. n |-> TRUE], userPol |-> [v \in 1 .. n |-> -1],
            simpAssigns |-> -1, simpProps |-> 0 ]
  BY DEF NewSolver, LitsOf
<1> HIDE DEF E
<1>4. /\ t.ok = TRUE /\ t.clause = E /\ t.orig = {} /\ t.learnt = {} /\ t.watches = [l \in LitsOf(n) |-> E]
      /\ t.trail = E /\ t.lim = E /\ t.qhead = 0 /\ t.heap = 1 .. n
      /\ t.polarity = [v \in 1 .. n |-> TRUE] /\ t.userPol = [v \in 1 .. n |-> -1] /\ t.simpProps = 0
  BY <1>3
<1>5. Form(t)
  BY ONLY <1>3 DEF Form
<1>6. 1 .. Len(E) = {}
  BY <1>1
<1>7. ClausesOk(n, E)
  <2>1. IsFiniteSet({})
    BY FS_EmptySet
  <2>2. QED  BY <1>1, <1>2, <2>1 DEF ClausesOk
<1>8. TrailOk(n, E, E, 0)
  BY <1>1, <1>6 DEF TrailOk
<1>9. WatchOk(n, E, [l \in LitsOf(n) |-> E])
  BY <1>1 DEF WatchOk, WatchAt, Lists
<1>10. ReasonOk(E, E) /\ DecisionsOk(E, E) /\ Looked(E, E, 0, 0)
  BY <1>1, <1>6 DEF ReasonOk, DecisionsOk, Looked
<1>11. Good(n, t)
  <2>1. t.polarity \in [1 .. n -> BOOLEAN] /\ t.userPol \in [1 .. n -> {-1, 0, 1}]
    BY <1>4
  <2>2. Unassigned(n, t.trail) \subseteq t.heap
    BY <1>4 DEF Unassigned
  <2>3. /\ TrailOk(n, t.trail, t.lim, t.qhead) /\ ClausesOk(n, t.clause)
        /\ ReasonOk(t.clause, t.trail) /\ DecisionsOk(t.trail, t.lim)
    BY <1>4, <1>7, <1>8, <1>10
  <2>4. WatchOk(n, t.clause, t.watches)
    BY <1>4, <1>9
  <2>5. t.simpProps \in Int /\ t.heap \subseteq 1 .. n
    BY <1>4
  <2>8. t.ok \in BOOLEAN
    BY <1>4
  <2>6. t.orig \cup t.learnt = DOMAIN t.clause /\ t.orig \cap t.learnt = {}
    BY <1>1, <1>4
  <2>7. QED  BY <1>5, <2>1, <2>2, <2>3, <2>4, <2>5, <2>6, <2>8 DEF Good
<1>12. Sound(Assignments(n), E, E) /\ Lossless(n, Assignments(n), {}, E, E)
  BY <1>1, <1>6 DEF Sound, Lossless
<1>13. QED  BY <1>1, <1>4, <1>10, <1>11, <1>12 DEF Rooted, Through

-----------------------------------------------------------------------------
(* The invariant.  What is known of the file.                              *)
LEMMA FilesAre ==
  ASSUME NEW f \in Files
  PROVE  /\ f.vars \in Nat \ {0} /\ f.vars \in Nat
         /\ f.clauses \in Seq(Seq(LitsOf(f.vars)))
         /\ \A k : ModelsOf(f, k) \in SUBSET Assignments(f.vars)
         /\ \A A \in Questions(f) : A \in Seq(LitsOf(f.vars))
         /\ \A pol \in Chosen(f) : pol \in [1 .. f.vars -> {-1, 0, 1}]
         /\ ModelsOf(f, 0) = Assignments(f.vars)
         /\ \A k \in 0 .. Len(f.clauses) - 1 :
              ModelsOf(f, k + 1) = { m \in ModelsOf(f, k) : Makers(m, f.clauses[k + 1]) }
<1>1. /\ f.vars \in Nat \ {0} /\ f.clauses \in Seq(Seq(LitsOf(f.vars)))
      /\ Questions(f) \subseteq Seq(LitsOf(f.vars))
      /\ Chosen(f) \subseteq [1 .. f.vars -> {0, 1}]
  BY CdclAssumption DEF LitsOf
<1>2. ASSUME NEW pol \in Chosen(f) PROVE pol \in [1 .. f.vars -> {-1, 0, 1}]
  BY <1>1
<1>3. ASSUME NEW k \in 0 .. Len(f.clauses) - 1
      PROVE  ModelsOf(f, k + 1) = { m \in ModelsOf(f, k) : Makers(m, f.clauses[k + 1]) }
  <2>1. Len(f.clauses) \in Nat
    BY <1>1
  <2>2. k \in Nat /\ 1 .. (k + 1) = 1 .. k \cup {k + 1}
    BY <2>1
  <2>3. QED  BY <2>2 DEF ModelsOf
<1>4. QED  BY <1>1, <1>2, <1>3 DEF ModelsOf

LEMMA InvFacts ==
  ASSUME CdclInv
  PROVE  /\ file \in Files /\ file.vars \in Nat /\ file.vars \in Nat \ {0}
         /\ Known \in SUBSET Assignments(file.vars)
         /\ assumptions \in Seq(LitsOf(file.vars))
         /\ pc \in {"read", "ready"} => Rooted(file.vars, Known, s)
         /\ pc = "propagate" => Busy(file.vars, Known, assumptions, s)
         /\ pc \in {"calm", "branch"} => Calm(file.vars, Known, assumptions, s)
         /\ pc = "conflict" => Stuck(file.vars, Known, assumptions, s, confl)
<1>1. file \in Files /\ assumptions \in Seq(LitsOf(file.vars)) /\ (pc \in Searching => s.ok)
  BY DEF CdclInv, ControlOk
<1>2. file.vars \in Nat /\ file.vars \in Nat \ {0} /\ Known \in SUBSET Assignments(file.vars)
  BY <1>1, FilesAre DEF Known
<1>3. Meant(file.vars, Known, s)
  BY DEF CdclInv, MeaningOk
<1>4. pc \in {"read", "ready"} => Rooted(file.vars, Known, s)
  BY <1>3 DEF CdclInv, IdleOk, Rooted, Meant
<1>5. pc = "propagate" => Busy(file.vars, Known, assumptions, s)
  BY <1>1, <1>3 DEF CdclInv, SearchOk, Searching, Busy
<1>6. pc \in {"calm", "branch"} => Calm(file.vars, Known, assumptions, s)
  BY <1>1, <1>3 DEF CdclInv, SearchOk, Searching, Calm
<1>7. pc = "conflict" => Stuck(file.vars, Known, assumptions, s, confl)
  BY <1>1, <1>3 DEF CdclInv, SearchOk, Searching, Stuck
<1>8. QED  BY <1>1, <1>2, <1>4, <1>5, <1>6, <1>7

(* What has to be shown of a step of search.                               *)
Same == UNCHANGED <<file, read, assumptions, status, answer>>

LEMMA BusyNext ==
  ASSUME CdclInv, pc \in Searching, Same, UNCHANGED conflict,
         pc' = "propagate", Busy(file.vars, Known, assumptions, s')
  PROVE  CdclInv'
<1>1. /\ pc' \in Searching /\ pc' \notin {"read", "ready", "end"} /\ pc \notin {"read", "ready"}
      /\ pc' # "end" /\ pc' \notin {"calm", "branch"} /\ pc' # "conflict"
  BY DEF Searching
<1>2. Known' = Known /\ file'.vars = file.vars
  BY DEF Same, Known
<1>3. ControlOk'
  BY <1>1 DEF CdclInv, ControlOk, Same, Busy
<1>4. MeaningOk'
  BY <1>2 DEF MeaningOk, Busy
<1>5. ConflictOk'
  BY <1>2 DEF CdclInv, ConflictOk, Same
<1>6. IdleOk' /\ EndOk'
  BY <1>1 DEF IdleOk, EndOk
<1>7. SearchOk'
  BY <1>1 DEF SearchOk, Busy, Same
<1>8. QED  BY <1>3, <1>4, <1>5, <1>6, <1>7 DEF CdclInv

LEMMA CalmNext ==
  ASSUME CdclInv, pc \in Searching, Same, UNCHANGED conflict,
         pc' \in {"calm", "branch"}, Calm(file.vars, Known, assumptions, s')
  PROVE  CdclInv'
<1>1. /\ pc' \in Searching /\ pc' \notin {"read", "ready", "end"} /\ pc \notin {"read", "ready"}
      /\ pc' # "end" /\ pc' # "propagate" /\ pc' # "conflict"
  BY DEF Searching
<1>2. Known' = Known /\ file'.vars = file.vars
  BY DEF Same, Known
<1>3. ControlOk'
  BY <1>1 DEF CdclInv, ControlOk, Same, Calm
<1>4. MeaningOk'
  BY <1>2 DEF MeaningOk, Calm
<1>5. ConflictOk'
  BY <1>2 DEF CdclInv, ConflictOk, Same
<1>6. IdleOk' /\ EndOk'
  BY <1>1 DEF IdleOk, EndOk
<1>7. SearchOk'
  BY <1>1 DEF SearchOk, Calm, Same
<1>8. QED  BY <1>3, <1>4, <1>5, <1>6, <1>7 DEF CdclInv

LEMMA StuckNext ==
  ASSUME CdclInv, pc \in Searching, Same, UNCHANGED conflict,
         pc' = "conflict", Stuck(file.vars, Known, assumptions, s', confl')
  PROVE  CdclInv'
<1>1. /\ pc' \in Searching /\ pc' \notin {"read", "ready", "end"} /\ pc \notin {"read", "ready"}
      /\ pc' # "end" /\ pc' # "propagate" /\ pc' \notin {"calm", "branch"}
  BY DEF Searching
<1>2. Known' = Known /\ file'.vars = file.vars
  BY DEF Same, Known
<1>3. ControlOk'
  BY <1>1 DEF CdclInv, ControlOk, Same, Stuck
<1>4. MeaningOk'
  BY <1>2 DEF MeaningOk, Stuck
<1>5. ConflictOk'
  BY <1>2 DEF CdclInv, ConflictOk, Same
<1>6. IdleOk' /\ EndOk'
  BY <1>1 DEF IdleOk, EndOk
<1>7. SearchOk'
  BY <1>1 DEF SearchOk, Stuck, Same
<1>8. QED  BY <1>3, <1>4, <1>5, <1>6, <1>7 DEF CdclInv

LEMMA EndNext ==
  ASSUME CdclInv, pc \in Searching, Same, pc' = "end",
         Meant(file.vars, Known, s'),
         conflict' # {} => \A m \in Known : \E l \in conflict' : Makes(m, l),
         \A l \in conflict' : l \in LitsOf(file.vars) /\ -l \in Range(assumptions),
         model' # <<>> => /\ s'.ok /\ Through(s') /\ conflict' = {}
                          /\ model' \in Known /\ \A l \in Range(assumptions) : Makes(model', l),
         model' = <<>> /\ conflict' # {} => s'.ok /\ Through(s'),
         model' = <<>> /\ conflict' = {} => Known = {}
  PROVE  CdclInv'
<1>1. /\ pc' \notin Searching /\ pc' \notin {"read", "ready"} /\ pc \notin {"read", "ready"}
      /\ pc' # "propagate" /\ pc' \notin {"calm", "branch"} /\ pc' # "conflict"
  BY DEF Searching
<1>2. Known' = Known /\ file'.vars = file.vars /\ assumptions' = assumptions
  BY DEF Same, Known
<1>3. ControlOk'
  BY <1>1 DEF CdclInv, ControlOk, Same
<1>4. MeaningOk'
  BY <1>2 DEF MeaningOk
<1>5. ConflictOk'
  BY <1>2 DEF ConflictOk
<1>6. IdleOk' /\ SearchOk'
  BY <1>1 DEF IdleOk, SearchOk
<1>7. EndOk'
  BY <1>2 DEF EndOk
<1>8. QED  BY <1>3, <1>4, <1>5, <1>6, <1>7 DEF CdclInv

-----------------------------------------------------------------------------
(* Every step keeps the invariant.                                         *)
LEMMA InitKeeps ==
  ASSUME Init
  PROVE  CdclInv
<1>1. file \in Files /\ pc = "read" /\ read = 0 /\ s = NewSolver(file.vars)
      /\ assumptions = <<>> /\ conflict = {} /\ status = "none"
  BY DEF Init
<1>2. file.vars \in Nat /\ Known = Assignments(file.vars) /\ file.clauses \in Seq(Seq(LitsOf(file.vars)))
  BY <1>1, FilesAre DEF Known
<1>3. Rooted(file.vars, Known, s)
  BY ONLY <1>1, <1>2, NewSolverIs
<1>4. ControlOk
  <2>1. 0 \in 0 .. Len(file.clauses)
    BY <1>2
  <2>2. assumptions \in Seq(LitsOf(file.vars))
    BY <1>1
  <2>3. pc \notin Searching
    BY <1>1 DEF Searching
  <2>4. QED  BY <1>1, <2>1, <2>2, <2>3 DEF ControlOk
<1>5. MeaningOk /\ IdleOk
  BY <1>3 DEF MeaningOk, IdleOk, Rooted, Meant
<1>6. ConflictOk /\ SearchOk /\ EndOk
  BY <1>1 DEF ConflictOk, SearchOk, EndOk, Searching
<1>7. QED  BY <1>4, <1>5, <1>6 DEF CdclInv

LEMMA ReadKeeps ==
  ASSUME CdclInv, Read
  PROVE  CdclInv'
<1> DEFINE n == file.vars
           k == read
           raw == file.clauses[k + 1]
           E == { m \in Known : Makers(m, raw) }
<1>1. /\ pc = "read" /\ pc' = "read" /\ read < Len(file.clauses) /\ read' = k + 1 /\ file' = file
      /\ s' = AddClause(s, raw) /\ assumptions' = assumptions /\ conflict' = conflict /\ status' = status
  BY DEF Read
<1>2. /\ file \in Files /\ n \in Nat /\ Known \in SUBSET Assignments(n) /\ Rooted(n, Known, s)
  BY <1>1, InvFacts
<1>3. read \in 0 .. Len(file.clauses) /\ file.clauses \in Seq(Seq(LitsOf(n)))
  BY <1>2, FilesAre DEF CdclInv, ControlOk
<1>4. k \in 0 .. Len(file.clauses) - 1 /\ read' \in 0 .. Len(file.clauses) /\ raw \in Seq(LitsOf(n))
  BY <1>1, <1>3
<1>5. Known' = E
  <2>1. Known' = ModelsOf(file, k + 1)
    BY <1>1 DEF Known
  <2>2. QED  BY <1>2, <1>4, <2>1, FilesAre DEF Known
<1>6. Rooted(n, E, s')
  <2> HIDE DEF E, raw, n
  <2>1. E = { m \in Known : Makers(m, raw) }
    BY DEF E
  <2>2. Rooted(n, E, AddClause(s, raw))
    BY ONLY <1>2, <1>4, <2>1, AddClauseIs
  <2>3. QED  BY <1>1, <2>2
<1>7. Rooted(n, Known', s')
  BY <1>5, <1>6
<1> HIDE DEF E, raw, n
<1>8. pc' \notin Searching /\ pc' # "end"
  BY <1>1 DEF Searching
<1>9. ControlOk'
  BY <1>1, <1>4, <1>8 DEF CdclInv, ControlOk
<1>10. MeaningOk' /\ IdleOk'
  BY <1>1, <1>7 DEF MeaningOk, IdleOk, Rooted, Meant, n
<1>11. ConflictOk'
  <2>1. \A m \in Known' : m \in Known
    BY <1>5 DEF E
  <2>2. QED  BY <1>1, <2>1 DEF CdclInv, ConflictOk
<1>12. SearchOk' /\ EndOk'
  BY <1>1, <1>8 DEF SearchOk, EndOk
<1>13. QED  BY <1>9, <1>10, <1>11, <1>12 DEF CdclInv

LEMMA ReadAllKeeps ==
  ASSUME CdclInv, ReadAll
  PROVE  CdclInv'
<1>1. /\ pc = "read" /\ pc' = "ready" /\ read = Len(file.clauses)
      /\ UNCHANGED <<file, s, read, assumptions, confl, conflict, status, model, answer>>
  BY DEF ReadAll
<1>2. pc' \notin Searching /\ pc' # "end" /\ Known' = Known
  BY <1>1 DEF Searching, Known
<1>3. ControlOk'
  BY <1>1, <1>2 DEF CdclInv, ControlOk
<1>4. MeaningOk' /\ ConflictOk'
  BY <1>1, <1>2 DEF CdclInv, MeaningOk, ConflictOk
<1>5. IdleOk' /\ SearchOk' /\ EndOk'
  BY <1>1, <1>2 DEF CdclInv, IdleOk, SearchOk, EndOk
<1>6. QED  BY <1>3, <1>4, <1>5 DEF CdclInv

LEMMA AskKeeps ==
  ASSUME CdclInv, Ask
  PROVE  CdclInv'
<1>1. /\ pc = "ready" /\ assumptions' \in Questions(file) /\ conflict' = {} /\ status' = "pending"
      /\ model' = <<>> /\ answer' = <<>> /\ file' = file /\ read' = read
  BY DEF Ask, given
<1>2. PICK pol \in Preferences :
        s' = Simplified([s EXCEPT !.userPol = pol]) /\ pc' = IF s'.ok THEN "propagate" ELSE "end"
  BY DEF Ask
<1>3. /\ file \in Files /\ file.vars \in Nat /\ Known \in SUBSET Assignments(file.vars)
      /\ Rooted(file.vars, Known, s)
  BY <1>1, InvFacts
<1>4. assumptions' \in Seq(LitsOf(file.vars)) /\ pol \in [1 .. file.vars -> {-1, 0, 1}]
  <2>1. s.userPol \in [1 .. file.vars -> {-1, 0, 1}]
    BY <1>3 DEF Rooted, Good
  <2>2. pol = s.userPol \/ pol \in Chosen(file)
    BY DEF Preferences
  <2>3. QED  BY <1>1, <1>3, <2>1, <2>2, FilesAre
<1>5. /\ Meant(file.vars, Known, s') /\ (s'.ok => Busy(file.vars, Known, assumptions', s'))
      /\ (~s'.ok => Known = {})
  <2> DEFINE n == file.vars
             F == Known
             A == assumptions'
             t == s
             u == s'
  <2>1. /\ n \in Nat /\ F \in SUBSET Assignments(n) /\ A \in Seq(LitsOf(n)) /\ Rooted(n, F, t)
        /\ pol \in [1 .. n -> {-1, 0, 1}] /\ u = Simplified([t EXCEPT !.userPol = pol])
    BY <1>2, <1>3, <1>4
  <2> HIDE DEF n, F, A, t, u
  <2>2. Meant(n, F, u) /\ (u.ok => Busy(n, F, A, u)) /\ (~u.ok => F = {})
    BY ONLY <2>1, RootedStarts
  <2>3. QED  BY <2>2 DEF n, F, A, t, u
<1>6. Known' = Known /\ pc # "read" /\ (s'.ok => pc' = "propagate") /\ (~s'.ok => pc' = "end")
  BY <1>1, <1>2 DEF Known
<1>7. /\ pc' \notin {"read", "ready", "calm", "branch", "conflict"} /\ pc' \in {"propagate", "end"}
      /\ (pc' \in Searching => s'.ok /\ pc' = "propagate") /\ (pc' = "end" => ~s'.ok)
      /\ (pc' = "propagate" => pc' \in Searching)
  BY <1>6 DEF Searching
<1>8. ControlOk'
  BY <1>1, <1>4, <1>6, <1>7 DEF CdclInv, ControlOk
<1>9. MeaningOk' /\ ConflictOk' /\ IdleOk'
  BY <1>1, <1>5, <1>6, <1>7 DEF MeaningOk, ConflictOk, IdleOk
<1>10. SearchOk'
  BY <1>5, <1>7 DEF SearchOk, Busy
<1>11. EndOk'
  BY <1>1, <1>5, <1>6, <1>7 DEF EndOk
<1>12. QED  BY <1>8, <1>9, <1>10, <1>11 DEF CdclInv

LEMMA PropagateKeeps ==
  ASSUME CdclInv, Propagate
  PROVE  CdclInv'
<1>1. pc = "propagate" /\ Same /\ UNCHANGED conflict /\ pc' = IF confl' # 0 THEN "conflict" ELSE "calm"
  BY DEF Propagate, Same, given
<1>2. /\ file.vars \in Nat /\ Known \in SUBSET Assignments(file.vars)
      /\ assumptions \in Seq(LitsOf(file.vars)) /\ Busy(file.vars, Known, assumptions, s)
  BY <1>1, InvFacts
<1>3. /\ confl' = 0 => Calm(file.vars, Known, assumptions, s')
      /\ confl' # 0 => Stuck(file.vars, Known, assumptions, s', confl')
  <2> DEFINE n == file.vars
             F == Known
             A == assumptions
             t == s
             u == s'
             c == confl'
  <2>1. PICK r \in {Propagated(t)} : u = r.s /\ c = r.confl
    BY DEF Propagate
  <2>2. /\ n \in Nat /\ F \in SUBSET Assignments(n) /\ A \in Seq(LitsOf(n)) /\ Busy(n, F, A, t)
        /\ r = Propagated(t)
    BY <1>2, <2>1
  <2> HIDE DEF n, F, A, t, u, c
  <2>3. (r.confl = 0 => Calm(n, F, A, u)) /\ (r.confl # 0 => Stuck(n, F, A, u, r.confl))
    BY ONLY <2>1, <2>2, BusyPropagated
  <2>4. (c = 0 => Calm(n, F, A, u)) /\ (c # 0 => Stuck(n, F, A, u, c))
    BY ONLY <2>1, <2>3
  <2>5. QED  BY <2>4 DEF n, F, A, t, u, c
<1>4. pc \in Searching
  BY <1>1 DEF Searching
<1>5. CASE confl' = 0
  <2>1. pc' \in {"calm", "branch"}
    BY <1>1, <1>5
  <2>2. QED  BY <1>1, <1>3, <1>4, <1>5, <2>1, CalmNext
<1>6. CASE confl' # 0
  <2>1. pc' = "conflict"
    BY <1>1, <1>6
  <2>2. QED  BY <1>1, <1>3, <1>4, <1>6, <2>1, StuckNext
<1>7. QED  BY <1>5, <1>6

LEMMA RootConflictKeeps ==
  ASSUME CdclInv, RootConflict
  PROVE  CdclInv'
<1>1. /\ pc = "conflict" /\ Same /\ UNCHANGED conflict /\ pc' = "end" /\ s' = s /\ model' = <<>>
      /\ Len(s.lim) = 0
  BY DEF RootConflict, End, Same, given, decisionLevel
<1>2. pc \in Searching /\ conflict = {}
  BY <1>1 DEF CdclInv, ControlOk, Searching
<1>3. /\ file.vars \in Nat /\ Known \in SUBSET Assignments(file.vars)
      /\ Stuck(file.vars, Known, assumptions, s, confl)
  BY <1>1, InvFacts
<1>4. Known = {}
  <2> DEFINE n == file.vars
             F == Known
             T == s.trail
             M == s.lim
             C == s.clause
             q == s.qhead
  <2>1. /\ n \in Nat /\ F \in SUBSET Assignments(n) /\ ClausesOk(n, C) /\ Sound(F, C, T)
        /\ TrailOk(n, T, M, q) /\ confl \in DOMAIN C /\ AllFalse(T, C[confl])
    BY <1>3 DEF Stuck, Meant, Good, Clash
  <2>2. M = <<>>
    <3>1. M \in Seq(Nat)
      BY <2>1 DEF TrailOk
    <3>2. QED  BY <1>1, <3>1
  <2> HIDE DEF n, F, T, M, C, q
  <2>3. \A i \in 1 .. Len(T) : T[i].level = 0
    BY ONLY <2>1, <2>2, RootIs
  <2>4. F = {}
    BY ONLY <2>1, <2>3, RootClash
  <2>5. QED  BY <2>4 DEF F
<1>5. Meant(file.vars, Known, s')
  BY <1>1, <1>3 DEF Stuck
<1>6. model' = <<>> /\ conflict' = {} /\ pc' = "end"
  BY <1>1, <1>2
<1>7. QED  BY <1>1, <1>2, <1>4, <1>5, <1>6, EndNext

LEMMA LearnKeeps ==
  ASSUME CdclInv, Learn
  PROVE  CdclInv'
<1>1. /\ pc = "conflict" /\ Same /\ UNCHANGED conflict /\ pc' = "propagate" /\ s' = Learned(s, confl)
      /\ Len(s.lim) > 0
  BY DEF Learn, Same, given, decisionLevel
<1>2. /\ file.vars \in Nat /\ Known \in SUBSET Assignments(file.vars)
      /\ assumptions \in Seq(LitsOf(file.vars)) /\ Stuck(file.vars, Known, assumptions, s, confl)
  BY <1>1, InvFacts
<1>3. Busy(file.vars, Known, assumptions, s')
  <2> DEFINE n == file.vars
             F == Known
             A == assumptions
             t == s
             u == s'
  <2>1. /\ n \in Nat /\ F \in SUBSET Assignments(n) /\ A \in Seq(LitsOf(n)) /\ Stuck(n, F, A, t, confl)
        /\ Len(t.lim) > 0 /\ u = Learned(t, confl)
    BY <1>1, <1>2
  <2> HIDE DEF n, F, A, t, u
  <2>2. Busy(n, F, A, u)
    BY ONLY <2>1, StuckLearned
  <2>3. QED  BY <2>2 DEF n, F, A, u
<1>4. pc \in Searching
  BY <1>1 DEF Searching
<1>5. QED  BY <1>1, <1>3, <1>4, BusyNext

LEMMA RestartKeeps ==
  ASSUME CdclInv, Restart
  PROVE  CdclInv'
<1>1. pc = "calm" /\ Same /\ UNCHANGED conflict /\ pc' = "propagate" /\ s' = cancelUntil(s, 0)
  BY DEF Restart, Same, given
<1>2. /\ file.vars \in Nat /\ Known \in SUBSET Assignments(file.vars)
      /\ assumptions \in Seq(LitsOf(file.vars)) /\ Calm(file.vars, Known, assumptions, s)
  BY <1>1, InvFacts
<1>3. Busy(file.vars, Known, assumptions, s')
  <2> DEFINE n == file.vars
             F == Known
             A == assumptions
             t == s
             u == s'
  <2>1. /\ n \in Nat /\ F \in SUBSET Assignments(n) /\ A \in Seq(LitsOf(n)) /\ Calm(n, F, A, t)
        /\ u = cancelUntil(t, 0)
    BY <1>1, <1>2
  <2> HIDE DEF n, F, A, t, u
  <2>2. Busy(n, F, A, u)
    BY ONLY <2>1, CalmRestarted
  <2>3. QED  BY <2>2 DEF n, F, A, u
<1>4. pc \in Searching
  BY <1>1 DEF Searching
<1>5. QED  BY <1>1, <1>3, <1>4, BusyNext

LEMMA TidyKeeps ==
  ASSUME CdclInv, Tidy
  PROVE  CdclInv'
<1> DEFINE t == Tidied
<1>1. /\ pc = "calm" /\ UNCHANGED <<file, read, assumptions, conflict>>
      /\ IF ~t.ok THEN End(t, <<>>)
         ELSE /\ s' \in Reductions(t) \/ s' = t
              /\ pc' = "branch" /\ UNCHANGED <<status, model, answer>>
  BY DEF Tidy, given
<1>2. pc \in Searching /\ conflict = {}
  BY <1>1 DEF CdclInv, ControlOk, Searching
<1>3. /\ file.vars \in Nat /\ Known \in SUBSET Assignments(file.vars)
      /\ assumptions \in Seq(LitsOf(file.vars)) /\ Calm(file.vars, Known, assumptions, s)
  BY <1>1, InvFacts
<1>4. /\ Meant(file.vars, Known, t) /\ (t.ok => Calm(file.vars, Known, assumptions, t))
      /\ (~t.ok => Known = {})
  <2> DEFINE n == file.vars
             F == Known
             A == assumptions
             b == s
  <2>1. /\ n \in Nat /\ F \in SUBSET Assignments(n) /\ A \in Seq(LitsOf(n)) /\ Calm(n, F, A, b)
        /\ t = Tidying(b)
    BY <1>3 DEF Tidied, Tidying
  <2> HIDE DEF n, F, A, b, t
  <2>2. Meant(n, F, t) /\ (t.ok => Calm(n, F, A, t)) /\ (~t.ok => F = {})
    BY ONLY <2>1, CalmTidied
  <2>3. QED  BY <2>2 DEF n, F, A, t
<1> HIDE DEF t
<1>5. CASE ~t.ok
  <2>1. /\ s' = t /\ model' = <<>> /\ pc' = "end" /\ Same /\ conflict' = {}
    BY <1>1, <1>2, <1>5 DEF End, Same
  <2>2. Meant(file.vars, Known, s') /\ Known = {}
    BY <1>4, <1>5, <2>1
  <2>3. QED  BY <1>2, <2>1, <2>2, EndNext
<1>6. CASE t.ok
  <2>1. pc' = "branch" /\ Same /\ (s' \in Reductions(t) \/ s' = t)
    BY <1>1, <1>6 DEF Same
  <2>2. Calm(file.vars, Known, assumptions, s')
    <3> DEFINE n == file.vars
               F == Known
               A == assumptions
               u == s'
    <3>1. n \in Nat /\ Calm(n, F, A, t) /\ (u \in Reductions(t) \/ u = t)
      BY <1>3, <1>4, <1>6, <2>1
    <3> HIDE DEF n, F, A, u
    <3>2. Calm(n, F, A, u)
      BY ONLY <3>1, CalmReduced
    <3>3. QED  BY <3>2 DEF n, F, A, u
  <2>3. pc' \in {"calm", "branch"} /\ UNCHANGED conflict
    BY <1>1, <2>1
  <2>4. QED  BY <1>2, <2>1, <2>2, <2>3, CalmNext
<1>7. QED  BY <1>5, <1>6

(* The next assumption.                                                    *)
LEMMA AssumingIs ==
  ASSUME CdclInv, Assuming, NEW l, l = NextAssumed
  PROVE  /\ pc \in Searching /\ conflict = {} /\ file.vars \in Nat
         /\ Known \in SUBSET Assignments(file.vars) /\ assumptions \in Seq(LitsOf(file.vars))
         /\ Calm(file.vars, Known, assumptions, s)
         /\ Len(s.lim) < Len(assumptions) /\ l = assumptions[Len(s.lim) + 1] /\ l \in LitsOf(file.vars)
         /\ (IsTrue(s, l) <=> OnTrail(s.trail, l)) /\ (IsFalse(s, l) <=> OnTrail(s.trail, -l))
<1>1. pc = "branch" /\ Len(s.lim) < Len(assumptions) /\ l = assumptions[Len(s.lim) + 1]
  BY DEF Assuming, NextAssumed, decisionLevel
<1>2. pc \in Searching /\ conflict = {}
  BY <1>1 DEF CdclInv, ControlOk, Searching
<1>3. /\ file.vars \in Nat /\ Known \in SUBSET Assignments(file.vars)
      /\ assumptions \in Seq(LitsOf(file.vars)) /\ Calm(file.vars, Known, assumptions, s)
  BY <1>1, InvFacts
<1>4. TrailOk(file.vars, s.trail, s.lim, s.qhead)
  BY <1>3 DEF Calm, Meant, Good
<1>5. Len(s.lim) \in Nat
  BY <1>3, <1>4, TrailIs
<1>6. l \in LitsOf(file.vars)
  <2>1. Len(s.lim) + 1 \in 1 .. Len(assumptions)
    BY <1>1, <1>3, <1>5
  <2>2. QED  BY <1>1, <1>3, <2>1
<1>7. (IsTrue(s, l) <=> OnTrail(s.trail, l)) /\ (IsFalse(s, l) <=> OnTrail(s.trail, -l))
  BY <1>3, <1>4, TrueIs
<1>8. QED  BY <1>1, <1>2, <1>3, <1>6, <1>7

LEMMA AssumeHoldingKeeps ==
  ASSUME CdclInv, AssumeHolding
  PROVE  CdclInv'
<1> DEFINE l == NextAssumed
<1>1. /\ Assuming /\ Same /\ UNCHANGED <<pc, conflict>> /\ s' = newDecisionLevel(s) /\ IsTrue(s, l)
  BY DEF AssumeHolding, Same, given
<1>2. l = NextAssumed
  OBVIOUS
<1> HIDE DEF l
<1>3. /\ pc \in Searching /\ file.vars \in Nat /\ assumptions \in Seq(LitsOf(file.vars))
      /\ Calm(file.vars, Known, assumptions, s)
      /\ Len(s.lim) < Len(assumptions) /\ l = assumptions[Len(s.lim) + 1] /\ OnTrail(s.trail, l)
  BY <1>1, <1>2, AssumingIs
<1>4. Calm(file.vars, Known, assumptions, s')
  <2> DEFINE n == file.vars
             F == Known
             A == assumptions
             t == s
             u == s'
  <2>1. /\ n \in Nat /\ A \in Seq(LitsOf(n)) /\ Calm(n, F, A, t) /\ Len(t.lim) < Len(A)
        /\ OnTrail(t.trail, A[Len(t.lim) + 1]) /\ u = newDecisionLevel(t)
    BY <1>1, <1>3
  <2> HIDE DEF n, F, A, t, u
  <2>2. Calm(n, F, A, u)
    BY ONLY <2>1, CalmAssumed
  <2>3. QED  BY <2>2 DEF n, F, A, u
<1>5. pc' \in {"calm", "branch"}
  BY <1>1 DEF Assuming
<1>6. QED  BY <1>1, <1>3, <1>4, <1>5, CalmNext

LEMMA AssumeRefutedKeeps ==
  ASSUME CdclInv, AssumeRefuted
  PROVE  CdclInv'
<1> DEFINE l == NextAssumed
<1>1. /\ Assuming /\ Same /\ s' = s /\ IsFalse(s, l) /\ conflict' = analyzeFinal(s, -l)
      /\ model' = <<>> /\ pc' = "end"
  BY DEF AssumeRefuted, End, Same, given
<1>2. l = NextAssumed
  OBVIOUS
<1> HIDE DEF l
<1>3. /\ pc \in Searching /\ file.vars \in Nat /\ assumptions \in Seq(LitsOf(file.vars))
      /\ Known \in SUBSET Assignments(file.vars) /\ Calm(file.vars, Known, assumptions, s)
      /\ Len(s.lim) < Len(assumptions) /\ l = assumptions[Len(s.lim) + 1] /\ OnTrail(s.trail, -l)
  BY <1>1, <1>2, AssumingIs
<1>4. /\ \A k \in conflict' : k \in LitsOf(file.vars) /\ -k \in Range(assumptions)
      /\ \A m \in Known : \E k \in conflict' : Makes(m, k)
  <2> DEFINE n == file.vars
             F == Known
             A == assumptions
             t == s
             out == conflict'
             p == -l
  <2>1. /\ n \in Nat /\ F \in SUBSET Assignments(n) /\ A \in Seq(LitsOf(n)) /\ Calm(n, F, A, t)
        /\ Len(t.lim) < Len(A) /\ OnTrail(t.trail, p) /\ p = -A[Len(t.lim) + 1] /\ out = analyzeFinal(t, p)
    BY <1>1, <1>3
  <2> HIDE DEF n, F, A, t, out, p
  <2>2. (\A k \in out : k \in LitsOf(n) /\ -k \in Range(A)) /\ \A m \in F : \E k \in out : Makes(m, k)
    BY ONLY <2>1, CalmRefuted
  <2>3. QED  BY <2>2 DEF F, A, out, n
<1>5. Meant(file.vars, Known, s') /\ s'.ok /\ Through(s')
  BY <1>1, <1>3 DEF Calm
<1>6. conflict' = {} => Known = {}
  BY <1>4
<1>7. QED  BY <1>1, <1>3, <1>4, <1>5, <1>6, EndNext

LEMMA AssumeKeeps ==
  ASSUME CdclInv, Assume
  PROVE  CdclInv'
<1> DEFINE l == NextAssumed
<1>1. /\ Assuming /\ Same /\ UNCHANGED conflict /\ s' = Decide(s, l) /\ pc' = "propagate"
      /\ ~IsTrue(s, l) /\ ~IsFalse(s, l)
  BY DEF Assume, Go, Same, given
<1>2. l = NextAssumed
  OBVIOUS
<1> HIDE DEF l
<1>3. /\ pc \in Searching /\ file.vars \in Nat /\ assumptions \in Seq(LitsOf(file.vars))
      /\ Calm(file.vars, Known, assumptions, s) /\ l \in LitsOf(file.vars)
      /\ l = assumptions[Len(s.lim) + 1] /\ ~OnTrail(s.trail, l) /\ ~OnTrail(s.trail, -l)
  BY <1>1, <1>2, AssumingIs
<1>4. Busy(file.vars, Known, assumptions, s')
  <2> DEFINE n == file.vars
             F == Known
             A == assumptions
             t == s
             u == s'
  <2>1. /\ n \in Nat /\ A \in Seq(LitsOf(n)) /\ Calm(n, F, A, t) /\ l \in LitsOf(n)
        /\ Free(t.trail, l) /\ NextAssumption(t.lim, A, l) /\ u = Decide(t, l)
    BY <1>1, <1>3 DEF Free, NextAssumption
  <2> HIDE DEF n, F, A, t, u
  <2>2. Busy(n, F, A, u)
    BY ONLY <2>1, CalmDecided
  <2>3. QED  BY <2>2 DEF n, F, A, u
<1>5. QED  BY <1>1, <1>3, <1>4, BusyNext

LEMMA BranchKeeps ==
  ASSUME CdclInv, Branch
  PROVE  CdclInv'
<1>1. pc = "branch" /\ Same /\ UNCHANGED conflict /\ pc' = "propagate" /\ Len(s.lim) >= Len(assumptions)
  BY DEF Branch, Branching, Go, Same, given, decisionLevel
<1>2. /\ file.vars \in Nat /\ assumptions \in Seq(LitsOf(file.vars))
      /\ Calm(file.vars, Known, assumptions, s)
  BY <1>1, InvFacts
<1>3. PICK v \in s.heap \ Assigned(s) :
        s' = Decide([s EXCEPT !.heap = @ \ (Assigned(s) \cup {v})], Preferred(v))
  BY DEF Branch, Go
<1>4. Preferred(v) \in {v, -v}
  <2>1. s.userPol[v] = 1 \/ s.userPol[v] = 0 \/ (s.userPol[v] # 1 /\ s.userPol[v] # 0)
    OBVIOUS
  <2>2. QED  BY <2>1 DEF Preferred
<1>5. Busy(file.vars, Known, assumptions, s')
  <2> DEFINE n == file.vars
             F == Known
             A == assumptions
             t == s
             u == s'
             l == Preferred(v)
             H == t.heap \ (Assigned(t) \cup {v})
  <2>1. /\ n \in Nat /\ A \in Seq(LitsOf(n)) /\ Calm(n, F, A, t) /\ Len(t.lim) >= Len(A)
        /\ v \in t.heap \ Assigned(t) /\ l \in {v, -v} /\ H = t.heap \ (Assigned(t) \cup {v})
        /\ u = Decide([t EXCEPT !.heap = H], l)
    BY <1>1, <1>2, <1>3, <1>4
  <2> HIDE DEF n, F, A, t, u, l, H
  <2>2. Busy(n, F, A, u)
    BY ONLY <2>1, CalmBranched
  <2>3. QED  BY <2>2 DEF n, F, A, u
<1>6. pc \in Searching
  BY <1>1 DEF Searching
<1>7. QED  BY <1>1, <1>5, <1>6, BusyNext

LEMMA ModelFoundKeeps ==
  ASSUME CdclInv, ModelFound
  PROVE  CdclInv'
<1>1. /\ pc = "branch" /\ Same /\ UNCHANGED conflict /\ pc' = "end" /\ Len(s.lim) >= Len(assumptions)
      /\ s.heap \subseteq Assigned(s) /\ s' = [s EXCEPT !.heap = {}] /\ model' = ModelOf(s)
  BY DEF ModelFound, Branching, End, Same, given, decisionLevel
<1>2. pc \in Searching /\ conflict = {}
  BY <1>1 DEF CdclInv, ControlOk, Searching
<1>3. /\ file.vars \in Nat \ {0} /\ assumptions \in Seq(LitsOf(file.vars))
      /\ Calm(file.vars, Known, assumptions, s)
  BY <1>1, InvFacts
<1>4. /\ Meant(file.vars, Known, s') /\ s'.ok /\ Through(s')
      /\ model' # <<>> /\ model' \in Known /\ \A l \in Range(assumptions) : Makes(model', l)
  <2> DEFINE n == file.vars
             F == Known
             A == assumptions
             t == s
             u == s'
             m == model'
  <2>1. /\ n \in Nat \ {0} /\ A \in Seq(LitsOf(n)) /\ Calm(n, F, A, t) /\ Len(t.lim) >= Len(A)
        /\ t.heap \subseteq Assigned(t) /\ m = ModelOf(t) /\ u = [t EXCEPT !.heap = {}]
    BY <1>1, <1>3
  <2> HIDE DEF n, F, A, t, u, m
  <2>2. /\ Meant(n, F, u) /\ u.ok /\ Through(u)
        /\ m # <<>> /\ m \in F /\ \A l \in Range(A) : Makes(m, l)
    BY ONLY <2>1, CalmAnswers
  <2>3. QED  BY <2>2 DEF n, F, A, u, m
<1>5. conflict' = {}
  BY <1>1, <1>2
<1>6. QED  BY <1>1, <1>2, <1>4, <1>5, EndNext

LEMMA ReturnKeeps ==
  ASSUME CdclInv, Return
  PROVE  CdclInv'
<1> DEFINE b == ~(model = <<>> /\ conflict = {})
<1>1. /\ pc = "end" /\ pc' = "ready" /\ UNCHANGED <<file, read, assumptions, conflict>>
      /\ status' = "answered" /\ s' = cancelUntil([s EXCEPT !.ok = @ /\ b], 0)
  BY DEF Return, given
<1>2. /\ file.vars \in Nat /\ Meant(file.vars, Known, s) /\ b \in BOOLEAN
      /\ (b => s.ok /\ Through(s)) /\ (~b => Known = {})
  BY <1>1, InvFacts DEF CdclInv, MeaningOk, EndOk
<1>3. Rooted(file.vars, Known, s')
  <2> DEFINE n == file.vars
             F == Known
             t == s
             u == s'
  <2>1. /\ n \in Nat /\ Meant(n, F, t) /\ b \in BOOLEAN /\ (b => t.ok /\ Through(t)) /\ (~b => F = {})
        /\ u = cancelUntil([t EXCEPT !.ok = @ /\ b], 0)
    BY <1>1, <1>2
  <2> HIDE DEF n, F, t, u, b
  <2>2. Rooted(n, F, u)
    BY ONLY <2>1, Returned
  <2>3. QED  BY <2>2 DEF n, F, u
<1> HIDE DEF b
<1>4. Known' = Known /\ pc' \notin Searching /\ pc' # "end" /\ pc # "read"
  BY <1>1 DEF Known, Searching
<1>5. ControlOk'
  BY <1>1, <1>4 DEF CdclInv, ControlOk
<1>6. MeaningOk' /\ IdleOk'
  BY <1>1, <1>3, <1>4 DEF MeaningOk, IdleOk, Rooted, Meant
<1>7. ConflictOk'
  BY <1>1, <1>4 DEF CdclInv, ConflictOk
<1>8. SearchOk' /\ EndOk'
  BY <1>1, <1>4 DEF SearchOk, EndOk, Searching
<1>9. QED  BY <1>5, <1>6, <1>7, <1>8 DEF CdclInv

(* The solver's invariant.                                                 *)
THEOREM CdclInductive == Spec => []CdclInv
<1>1. Init => CdclInv
  BY InitKeeps
<1>2. CdclInv /\ [Next]_vars => CdclInv'
  <2> SUFFICES ASSUME CdclInv, [Next]_vars PROVE CdclInv'
    OBVIOUS
  <2>1. CASE Read
    BY <2>1, ReadKeeps
  <2>2. CASE ReadAll
    BY <2>2, ReadAllKeeps
  <2>3. CASE Ask
    BY <2>3, AskKeeps
  <2>4. CASE Propagate
    BY <2>4, PropagateKeeps
  <2>5. CASE RootConflict
    BY <2>5, RootConflictKeeps
  <2>6. CASE Learn
    BY <2>6, LearnKeeps
  <2>7. CASE Restart
    BY <2>7, RestartKeeps
  <2>8. CASE Tidy
    BY <2>8, TidyKeeps
  <2>9. CASE AssumeHolding
    BY <2>9, AssumeHoldingKeeps
  <2>10. CASE AssumeRefuted
    BY <2>10, AssumeRefutedKeeps
  <2>11. CASE Assume
    BY <2>11, AssumeKeeps
  <2>12. CASE Branch
    BY <2>12, BranchKeeps
  <2>13. CASE ModelFound
    BY <2>13, ModelFoundKeeps
  <2>14. CASE Return
    BY <2>14, ReturnKeeps
  <2>15. CASE UNCHANGED vars
    BY <2>15 DEF vars, CdclInv, ControlOk, MeaningOk, ConflictOk, IdleOk, SearchOk, EndOk, Known
  <2>16. QED
    BY <2>1, <2>2, <2>3, <2>4, <2>5, <2>6, <2>7, <2>8, <2>9, <2>10, <2>11, <2>12, <2>13, <2>14, <2>15
    DEF Next, Step
<1>3. QED  BY <1>1, <1>2, PTL DEF Spec

-----------------------------------------------------------------------------
(* What the invariant says.  The watches and the places in the clauses.    *)
LEMMA WatchesAre ==
  ASSUME CdclInv
  PROVE  WatchesExact
<1> DEFINE n == file.vars
           T == s.trail
           C == s.clause
           W == s.watches
<1>1. Good(n, s) /\ n \in Nat
  BY InvFacts DEF CdclInv, MeaningOk, Meant
<1>2. /\ ClausesOk(n, C) /\ TrailOk(n, T, s.lim, s.qhead) /\ WatchOk(n, C, W) /\ ReasonOk(C, T)
  BY <1>1 DEF Good
<1>3. DOMAIN W = LitsOf(n) /\ \A l \in LitsOf(n) : W[l] \in Seq(Watchers(n))
  BY <1>2 DEF WatchOk, Lists
<1>4. DOMAIN T = 1 .. Len(T)
  BY <1>1, <1>2, TrailIs
<1> HIDE DEF n, T, C, W
<1>5. ASSUME NEW l \in DOMAIN W
      PROVE  /\ { w.cref : w \in Range(W[l]) } = { c \in DOMAIN C : -l \in {C[c][1], C[c][2]} }
             /\ \A i, j \in DOMAIN W[l] : i # j => W[l][i].cref # W[l][j].cref
             /\ \A w \in Range(W[l]) : w.blocker \in Range(C[w.cref]) \ {-l}
  <2>1. IsInjective(W[l]) /\ WatchAt(C, l, Range(W[l]))
    BY <1>2, <1>3, <1>5 DEF WatchOk
  <2>2. { w.cref : w \in Range(W[l]) } = { c \in DOMAIN C : -l \in {C[c][1], C[c][2]} }
    BY <2>1 DEF WatchAt
  <2>3. ASSUME NEW i \in DOMAIN W[l], NEW j \in DOMAIN W[l], i # j
        PROVE  W[l][i].cref # W[l][j].cref
    <3>1. W[l][i] \in Range(W[l]) /\ W[l][j] \in Range(W[l])
      BY DEF Range
    <3>2. W[l][i] # W[l][j]
      BY <2>1, <2>3 DEF IsInjective
    <3>3. QED  BY <2>1, <3>1, <3>2 DEF WatchAt
  <2>4. QED  BY <2>1, <2>2, <2>3 DEF WatchAt
<1>6. ASSUME NEW i \in DOMAIN T, T[i].reason # 0
      PROVE  /\ T[i].reason \in DOMAIN C
             /\ C[T[i].reason][1] = T[i].lit
             /\ \A k \in Range(Tail(C[T[i].reason])) : \E j \in 1 .. i - 1 : T[j].lit = -k
  <2> DEFINE c == T[i].reason
             K == C[c]
             L == Tail(K)
  <2>1. /\ c \in DOMAIN C /\ K[1] = T[i].lit
        /\ \A k \in 2 .. Len(K) : \E j \in 1 .. i - 1 : T[j].lit = -K[k]
    BY <1>2, <1>4, <1>6 DEF ReasonOk
  <2>2. K \in Seq(LitsOf(n)) /\ Len(K) >= 2
    BY <1>2, <2>1 DEF ClausesOk, IsClause
  <2>3. L = Tail(K) /\ Len(K) >= 1 /\ Len(K) \in Nat
    BY <2>2
  <2> HIDE DEF L, K
  <2>4. L \in Seq(LitsOf(n)) /\ Len(L) = Len(K) - 1 /\ \A k \in 1 .. Len(L) : L[k] = K[k + 1]
    BY ONLY <2>2, <2>3, TailIs
  <2>5. ASSUME NEW l \in Range(L) PROVE \E j \in 1 .. i - 1 : T[j].lit = -l
    <3>1. PICK k \in DOMAIN L : L[k] = l
      BY DEF Range
    <3>2. k \in 1 .. Len(L)
      BY <2>4, <3>1
    <3>3. k + 1 \in 2 .. Len(K) /\ K[k + 1] = l
      BY <2>3, <2>4, <3>1, <3>2
    <3>4. QED  BY <2>1, <3>3
  <2>6. QED  BY <2>1, <2>5 DEF L, K
<1>7. QED  BY <1>5, <1>6 DEF WatchesExact, T, C, W

(* Between two steps of search every clause is watched exactly by its      *)
(* first two literals, and one that made a literal true has it first.      *)
THEOREM WatchesStayExact == Spec => []WatchesExact
<1>1. CdclInv => WatchesExact
  BY WatchesAre
<1>2. QED  BY <1>1, CdclInductive, PTL

(* Propagation misses nothing.                                             *)
LEMMA NothingIsMissed ==
  ASSUME CdclInv
  PROVE  NothingMissed
<1> SUFFICES ASSUME pc \in {"calm", "branch"}
             PROVE  /\ \A c \in DOMAIN s.clause :
                         \/ Satisfied(s, c)
                         \/ Cardinality({ l \in Range(s.clause[c]) : ~IsFalse(s, l) }) >= 2
                    /\ DOMAIN s.polarity \ Assigned(s) \subseteq s.heap
  BY DEF NothingMissed
<1> DEFINE n == file.vars
           T == s.trail
           C == s.clause
<1>1. Good(n, s) /\ n \in Nat /\ Through(s)
  BY InvFacts DEF Calm, Meant
<1>2. /\ ClausesOk(n, C) /\ TrailOk(n, T, s.lim, s.qhead) /\ DOMAIN s.polarity = 1 .. n
      /\ Unassigned(n, T) \subseteq s.heap
  BY <1>1 DEF Good
<1>3. /\ DOMAIN T = 1 .. Len(T) /\ Len(T) \in Nat /\ Len(s.lim) \in Nat
      /\ \A i \in 1 .. Len(T) : T[i].lit \in LitsOf(n) /\ T[i].level \in 0 .. Len(s.lim)
      /\ \A l : IsTrue(s, l) <=> OnTrail(T, l)
      /\ \A l : IsFalse(s, l) <=> OnTrail(T, -l)
  BY <1>1, <1>2, TrailIs, TrueIs
<1>4. s.qhead = Len(T) /\ Looked(C, T, s.qhead, Len(s.lim))
  BY <1>1 DEF Through
<1> HIDE DEF T, C, n
<1>5. ASSUME NEW c \in DOMAIN C, ~Satisfied(s, c)
      PROVE  Cardinality({ l \in Range(C[c]) : ~IsFalse(s, l) }) >= 2
  <2> DEFINE S == { l \in Range(C[c]) : ~IsFalse(s, l) }
             a == C[c][1]
             b == C[c][2]
  <2>1. /\ a # b /\ a \in LitsOf(n) /\ b \in LitsOf(n) /\ a \in Range(C[c]) /\ b \in Range(C[c])
        /\ IsClause(n, C[c])
    BY <1>1, <1>2, ClausesAre
  <2>2. \A l \in Range(C[c]) : ~OnTrail(T, l)
    BY <1>3, <1>5 DEF Satisfied, C
  <2>3. ASSUME NEW l \in {a, b} PROVE l \in S
    <3>1. SUFFICES ASSUME OnTrail(T, -l) PROVE FALSE
      BY <1>3, <2>1
    <3>2. PICK i \in 1 .. Len(T) : T[i].lit = -l
      BY <3>1 DEF OnTrail
    <3>3. -T[i].lit = l
      BY <2>1, <3>2 DEF LitsOf
    <3>4. i \in 1 .. s.qhead /\ T[i].level <= Len(s.lim)
      BY <1>3, <1>4
    <3>5. -T[i].lit \in {C[c][1], C[c][2]}
      BY <3>3
    <3>6. PICK j \in 1 .. Len(T) : T[j].lit \in Range(C[c])
      BY <1>4, <3>4, <3>5 DEF Looked
    <3>7. OnTrail(T, T[j].lit)
      BY DEF OnTrail
    <3>8. QED  BY <2>2, <3>6, <3>7
  <2>4. IsFiniteSet(Range(C[c]))
    <3>1. C[c] \in Seq(LitsOf(n))
      BY <2>1 DEF IsClause
    <3>2. Range(C[c]) \subseteq LitsOf(n) /\ IsFiniteSet(LitsOf(n))
      BY <1>1, <3>1, LitsFinite DEF Range
    <3>3. QED  BY ONLY <3>2, FS_Subset
  <2>5. IsFiniteSet(S) /\ {a, b} \subseteq S
    BY <2>3, <2>4, FS_Subset
  <2> HIDE DEF a, b, S
  <2>6. Cardinality({a, b}) = 2
    <3>1. IsFiniteSet({a}) /\ Cardinality({a}) = 1 /\ b \notin {a} /\ {a, b} = {a} \cup {b}
      BY <2>1, FS_Singleton
    <3>2. QED  BY ONLY <3>1, FS_AddElement
  <2>7. Cardinality(S) >= 2
    BY <2>5, <2>6, FS_Subset, FS_CardinalityType
  <2>8. QED  BY <2>7 DEF S
<1>6. ASSUME NEW v \in DOMAIN s.polarity \ Assigned(s) PROVE v \in s.heap
  <2>1. v \in 1 .. n /\ v \in LitsOf(n) /\ -v \in LitsOf(n) /\ Var(v) = v /\ Var(-v) = v
    <3>1. v \in 1 .. n
      BY <1>2
    <3>2. QED  BY <1>1, <3>1, Literals
  <2>2. ~OnTrail(T, v) /\ ~OnTrail(T, -v)
    BY <1>3, <2>1 DEF Assigned, TrueLits, OnTrail, T
  <2>3. QED  BY <1>2, <2>1, <2>2 DEF Unassigned
<1>7. QED  BY <1>5, <1>6 DEF C

(* When propagate returns without a conflict no clause is false or has one *)
(* literal left, and every variable without a value is in the heap.        *)
THEOREM NothingStaysMissed == Spec => []NothingMissed
<1>1. CdclInv => NothingMissed
  BY NothingIsMissed
<1>2. QED  BY <1>1, CdclInductive, PTL

(* What the clauses mean.                                                  *)
LEMMA OfFileIs ==
  ASSUME CdclInv
  PROVE  OfFile = Known /\ All = Assignments(file.vars)
<1>1. DOMAIN s.polarity = 1 .. file.vars
  BY DEF CdclInv, MeaningOk, Meant, Good
<1>2. All = Assignments(file.vars)
  BY <1>1 DEF All, Assignments
<1>3. QED  BY <1>2 DEF OfFile, Known, ModelsOf, Makers

LEMMA OnlyConsequences ==
  ASSUME CdclInv
  PROVE  ConsequencesOnly
<1> DEFINE n == file.vars
           T == s.trail
           C == s.clause
           F == Known
<1>1. /\ Sound(F, C, T) /\ (s.ok => Lossless(n, F, s.orig, C, T)) /\ (~s.ok => F = {})
      /\ Good(n, s) /\ n \in Nat /\ F \subseteq Assignments(n)
  BY InvFacts DEF CdclInv, MeaningOk, Meant
<1>2. /\ s.orig \subseteq DOMAIN C /\ s.learnt \subseteq DOMAIN C /\ TrailOk(n, T, s.lim, s.qhead)
  BY <1>1 DEF Good
<1>3. DOMAIN T = 1 .. Len(T)
  BY <1>1, <1>2, TrailIs
<1>4. OfFile = F /\ All = Assignments(n)
  BY OfFileIs
<1>5. /\ conflict # {} => \A m \in F : \E l \in conflict : Makes(m, l)
      /\ \A l \in conflict : -l \in Range(assumptions)
  BY DEF CdclInv, ConflictOk
<1> HIDE DEF F, n, T, C
<1>6. ASSUME s.ok PROVE OfMemory = F
  <2>1. \A m \in F : m \in OfMemory
    BY <1>1, <1>2, <1>3, <1>4 DEF OfMemory, Sound, Makers, T, C
  <2>2. \A m \in OfMemory : m \in F
    BY <1>1, <1>3, <1>4, <1>6 DEF OfMemory, Lossless, Makers, T, C
  <2>3. QED  BY <2>1, <2>2
<1>7. \A m \in F : \A c \in s.learnt : \E l \in Range(C[c]) : Makes(m, l)
  BY <1>1, <1>2 DEF Sound, Makers
<1>8. { -l : l \in conflict } \subseteq Range(assumptions)
  BY <1>5
<1>9. QED  BY <1>1, <1>4, <1>5, <1>6, <1>7, <1>8 DEF ConsequencesOnly, C

(* What is learnt, what holds at level 0, what is left of the clauses read *)
(* and the final conflict follow from the file; and nothing of it is lost. *)
THEOREM LearnsConsequences == Spec => []ConsequencesOnly
<1>1. CdclInv => ConsequencesOnly
  BY OnlyConsequences
<1>2. QED  BY <1>1, CdclInductive, PTL

-----------------------------------------------------------------------------
(* The answers.                                                            *)
LEMMA MakesTheSame ==
  \A m, l : TheOracle!Makes(m, l) <=> Makes(m, l)
  BY DEF TheOracle!Makes, TheOracle!VarOf, Makes, Var

LEMMA RangesAreSame ==
  \A f : TheOracle!Range(f) = Range(f)
  BY DEF TheOracle!Range, Range

LEMMA ModelsAre ==
  ASSUME CdclInv, pc # "read"
  PROVE  TheOracle!Models(file, assumptions) = { m \in Known : \A l \in Range(assumptions) : Makes(m, l) }
<1> DEFINE K == file.clauses
           N == file.vars
<1>1. Known = { m \in [1 .. N -> {0, 1}] : \A k \in 1 .. Len(K) : \E l \in Range(K[k]) : Makes(m, l) }
  <2>1. read = Len(K)
    BY DEF CdclInv, ControlOk
  <2>2. Known = ModelsOf(file, Len(K))
    BY <2>1 DEF Known
  <2>3. QED  BY <2>2 DEF ModelsOf, Makers, Assignments
<1>2. DOMAIN K = 1 .. Len(K)
  BY FilesAre DEF CdclInv, ControlOk
<1>3. TheOracle!Models(file, assumptions)
        = { m \in [1 .. N -> {0, 1}] : /\ \A k \in DOMAIN K : \E l \in Range(K[k]) : Makes(m, l)
                                       /\ \A l \in Range(assumptions) : Makes(m, l) }
  BY RangesAreSame, MakesTheSame, Zenon DEF TheOracle!Models
<1> HIDE DEF K, N
<1>4. QED  BY <1>1, <1>2, <1>3

LEMMA AskRefines ==
  ASSUME CdclInv, Ask
  PROVE  TheOracle!Ask
<1>1. status # "pending"
  BY DEF CdclInv, ControlOk, Ask
<1>2. QED  BY <1>1 DEF Ask, given, TheOracle!Ask

LEMMA ReturnRefines ==
  ASSUME CdclInv, Return
  PROVE  TheOracle!Reply
<1> DEFINE X == TheOracle!Models(file, assumptions)
<1>1. /\ pc = "end" /\ status' = "answered" /\ answer' = model /\ UNCHANGED <<file, assumptions>>
  BY DEF Return, given
<1>2. status = "pending"
  BY <1>1 DEF CdclInv, ControlOk
<1>3. X = { m \in Known : \A l \in Range(assumptions) : Makes(m, l) }
  BY <1>1, ModelsAre
<1> HIDE DEF X
<1>4. CASE model # <<>>
  <2>1. model \in X
    BY <1>1, <1>3, <1>4 DEF CdclInv, EndOk
  <2>2. QED  BY <1>1, <1>2, <2>1 DEF TheOracle!Reply, TheOracle!Answers, X
<1>5. CASE model = <<>>
  <2>1. X = {}
    <3>1. SUFFICES ASSUME NEW m \in X PROVE FALSE
      OBVIOUS
    <3>2. /\ m \in Known /\ \A l \in Range(assumptions) : Makes(m, l)
          /\ file.vars \in Nat /\ Known \subseteq Assignments(file.vars)
          /\ assumptions \in Seq(LitsOf(file.vars))
      BY <1>3, InvFacts
    <3>3. conflict # {}
      BY <1>1, <1>5, <3>2 DEF CdclInv, EndOk
    <3>4. PICK l \in conflict : Makes(m, l) /\ l \in LitsOf(file.vars) /\ -l \in Range(assumptions)
      BY <3>2, <3>3 DEF CdclInv, ConflictOk
    <3>5. -l \in LitsOf(file.vars) /\ Makes(m, -l)
      BY <3>2, <3>4 DEF Range
    <3>6. QED  BY <3>2, <3>4, <3>5, Literals
  <2>2. QED  BY <1>1, <1>2, <1>5, <2>1 DEF TheOracle!Reply, TheOracle!Answers, X
<1>6. QED  BY <1>4, <1>5

(* Each answer to a question is a solution of the file in which what is    *)
(* assumed holds, or none when there is none, however often the solver has *)
(* been asked before: the steps of the solver are steps of Oracle.         *)
THEOREM AnswersAsTheOracle == Spec => TheOracle!Init /\ [][TheOracle!Next]_(TheOracle!vars)
<1>1. Init => TheOracle!Init
  BY DEF Init, TheOracle!Init
<1>2. CdclInv /\ [Next]_vars => [TheOracle!Next]_(TheOracle!vars)
  <2> SUFFICES ASSUME CdclInv, [Next]_vars PROVE [TheOracle!Next]_(TheOracle!vars)
    OBVIOUS
  <2>1. CASE Ask
    BY <2>1, AskRefines DEF TheOracle!Next
  <2>2. CASE Return
    BY <2>2, ReturnRefines DEF TheOracle!Next
  <2>3. CASE Read \/ ReadAll \/ Propagate \/ RootConflict \/ Learn \/ Restart \/ Tidy \/ UNCHANGED vars
    BY <2>3 DEF Read, ReadAll, Propagate, RootConflict, Learn, Restart, Tidy, End, given, vars, TheOracle!vars
  <2>4. CASE AssumeHolding \/ AssumeRefuted \/ Assume \/ Branch \/ ModelFound
    BY <2>4 DEF AssumeHolding, AssumeRefuted, Assume, Branch, ModelFound, End, Go, given, TheOracle!vars
  <2>5. QED  BY <2>1, <2>2, <2>3, <2>4 DEF Next, Step
<1>3. QED  BY <1>1, <1>2, CdclInductive, PTL DEF Spec

=============================================================================
