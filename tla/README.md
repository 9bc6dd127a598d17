# DynCA in TLA+

DynCA builds t-wise covering arrays for Boolean formulas (feature models in CNF,
CASA or CTW form): a list of rows, each satisfying the formula, such that every
combination of values of t columns that some valid row has appears in some row
of the list. It starts from an array of strength 2 and goes up one strength at a
time, *expanding* the array and then *optimizing* it until a time limit or a
stop request. This directory models that program, checks the models with TLC and
proves the central results with TLAPS. Source paths below are relative to `src/src/`
of the repository; `expandor.cpp`, `optimizer*.cpp` and `solvers.hpp` are in `expandor/`.

1. [The system](#1-the-system)
2. [The modules](#2-the-modules)
3. [What the runs check](#3-what-the-runs-check)
4. [What is proved](#4-what-is-proved)
5. [What is not modelled](#5-what-is-not-modelled)

## 1. The system

### Components, their state and operations

| Component | State | Operations | Module |
|---|---|---|---|
| Input and conversion (`io/ctw*`, `io/casa.*`, `io/cnf.*`, `covering_array.*`) | constraint trees, options, clauses, groups | parse, normalize, atomicize, encode, reduce, CASA/CNF conversion of models and rows, validity check | `Ctw`, `Casa`, `Convert` |
| SamplingCA (`generator/cdclcasampler.*`) | rows, bit set of covered tuples, candidate queue, sampling counts | `GenerateCoveringArray` | `SamplingCA`, `TupleMap` |
| PbOCCSAT (`generator/pboccsatsolver.*`) | an assignment, stacks of unsatisfied clauses and their variables, scores, weights, candidate stack | `solve` with its heuristics | `PbInstance`, `SwapStack`, `PbFields`, `PbOccsat` |
| SAT solver (`3rd/minisat/minisat_ext`) and wrappers | clauses, watches, trail, learnt clauses | read, `solve` with assumptions | `Oracle`, `Trail`, `Cdcl` |
| d-DNNF validator (`io/ddnnf.*`, `solvers.hpp`) | a graph with the variables below each node | parse, `check_tuple` | `Ddnnf` |
| Expandor (`expandor.cpp`) | `old_testcase`, `new_testcase`, the bitmap of covered tuples, `uncovered_tuples`, `tuples_U`, counts by literal, the candidate cache | `Expand`, `Optimize`, `GetFinalCA` | `Expand` |
| Optimizer loop (`optimizer.cpp`) | `testcases`, `best_testcases`, `last_strength_testcases`, `tuples_U`, step counters | `search`, `restart` | `Search`, `AnytimeArray` |
| Optimizer bookkeeping (`optimizer.cpp`) | per tuple: times covered, covering rows, weight, place; per row: covered tuples, unique tuples, summed weight, clause counts, tabu mark | `rebind_pos_to_idx`, `UpdateInfo_remove_testcase`, `forcetestcase` | `Bookkeeping`, `Coverage` |
| Parallel rescans and tuple index (`optimizer.cpp`, `expandor.hpp`, `util/combinadic.hpp`) | a range, a combination and queues for each of 16 threads | `combinadic_*`, `TupleToIndex`, the threads of `restart` and `rebind_pos_to_idx` | `Rescan`, `TupleMap`, `Bookkeeping` |
| Neighbourhoods (`optimizer_hsca.cpp`, `optimizer_scalable.cpp`) | cell tabu marks | `remove_testcase_greedily`, `random_greedy_step` and what they call | `Neighbourhood` |
| Driver (`main.cpp`, `util/interrupt.hpp`) | the array, `global_stop_flag` | the loop over strengths, the signal handler | `Expand`, `Search` |
| Intrusive lists (`util/intrusive_list.h`) | nodes in a pool | insert, erase, clear | sequences in `Bookkeeping` |
| Command line, configuration, logger, random numbers, bit sets | – | – | – |

They interact by calls and shared state only. The driver parses a model, gets an array
of strength 2 from SamplingCA (or a file) and hands it to the Expandor; the Expandor asks
a sampling solver for rows and a validator whether a tuple occurs in any valid row; the
Optimizer takes the Expandor's lists (`std::move`), gives them back (`swap_testcase_out`),
keeps a pointer to the Expandor for its bitmap, and asks a solver for whole rows. The
signal handler shares one atomic flag with the main thread. The threads of the rescans
write to shared arrays without a lock and are joined before what they wrote is read,
except that `restart` leaves its collector thread running across a check of the flag.

### What is hard

* **Incremental bookkeeping.** In the Optimizer fifteen arrays and lists describe the same
  rows and tuples and change by swap-removals, lazily cleaned lists, saved handles and
  running sums; the local-search solver keeps four kinds of scores and three stacks in the
  same way, the SAT solver its watches, SamplingCA its gains. An error shows many steps later.
* **Trust between phases.** `rebind_pos_to_idx` declares every tuple covered
  without looking; `check_part_invalid` takes a missing bit of the lower strength
  for a proof of invalidity; restart's tuples come from the bitmap alone.
* **Rows that change sides.** Restart exchanges rows between `best_testcases` and
  `last_strength_testcases`, in place, while an unfinished array is discarded.
* **Threads.** Sixteen threads share ranges that are seldom multiples of sixteen; each
  decodes its first combination and steps from there.
* **Interruption.** Signals and time limits arrive between any two steps.
* **Progress.** Nothing in the loops decreases by construction: greedy generation
  sorts partly stale gains, `ReplenishTestCase` never shortens its list, the
  search may cycle.
* **Meaning across representations.** A constraint passes through six forms, a row through
  three; a compiled formula is asked in two ways that must agree.

The hazards are listed with their lines in `PROJECT.json`.

## 2. The modules

| Module | Models | EXTENDS / instantiates |
|---|---|---|
| `Formula` | formula, groups, rows, tuples, which tuples are listed and which are tracked | – |
| `Expand` | `Expandor` and the loop over strengths | `Formula` |
| `AnytimeArray` | abstract: what an optimization promises its caller | – |
| `Coverage` | abstract bookkeeping: removal, overwriting, rebinding over sets of tuples | `Formula` |
| `Search` | `Expandor::Optimize`, `Optimizer::search`, `restart`, stop flag, time limit | `Coverage`, instance of `AnytimeArray` |
| `TupleMap` | the number of a tuple, `combnum` and `Get*Base` | – |
| `Rescan` | ranges of threads, combinations, the place of a tuple in the bitmap | `TupleMap` |
| `Bookkeeping` | the Optimizer's lists, counters and threads | `Formula`, `Rescan`, instance of `Coverage` |
| `Neighbourhood` | how a step chooses the row it writes | `Formula` |
| `SamplingCA` | `CDCLCASampler` | `TupleMap` |
| `SwapStack` | a stack with the places of its elements | – |
| `Loops` | a loop over a sequence as a fold; the elements of a sequence that are in a set | – |
| `PbInstance`, `PbFields`, `PbOccsat` | the local-search solver: formula, fields, search | `SwapStack`, `Loops` |
| `Oracle` | abstract: what the program expects of a SAT solver | – |
| `Trail`, `Cdcl` | the SAT solver's data and operations; reading and search | `Loops`, instance of `Oracle` |
| `Ddnnf` | the d-DNNF validator | – |
| `Ctw`, `Casa`, `Convert` | passes over constraints; CASA, CNF and rows; the way from a file to a CNF | `Convert` extends both |
| `Foundations` | lemmas of several proofs: least elements, recursion, sums, lists without repetition, loops; theorems about the stacks of `SwapStack` and about `Rescan` | `SwapStack`, `Loops`, `Rescan`, library theorems |
| `SearchProof`, `ExpandProof`, `NeighbourhoodProof` | theorems | the module of the name; all but `ExpandProof` also `Foundations` |
| `SamplingCAProof` | theorems: counting, the search for uncovered tuples, the invariant | `SamplingCA`, `Foundations` |
| `BookkeepingProof` | theorems: the operations on lists and counters; the invariant and what follows | `Bookkeeping`, `Foundations` |
| `PbOccsatProof` | theorems: the instance, the loops of the solver, the scores as sums over the clauses, the invariant | `PbOccsat`, `Foundations` |
| `CdclProof` | theorems: the methods of the SAT solver one by one, the invariant, what follows | `Cdcl`, `Foundations` |
| `MC...` | small instances | the module of the name |

They form a chain. `Convert` gives the formula; `SamplingCA` the first array (its
`CompleteAtEnd` is the assumption `ArraysComplete` of `Expand`); `Expand` ends each round in
the state that `Search` starts from (`HandsOver`); `Search` is built from the operations of
`Coverage` and implements `AnytimeArray`; `Bookkeeping` implements `Coverage`; `Expand` uses
of an optimization only what `AnytimeArray` promises. `Neighbourhood` fills in what `Search`
leaves open, and reads scores that `Bookkeeping` shows to be exact. `Oracle` is what `Expand`,
`SamplingCA` and `Neighbourhood` take a solver to be, and `Cdcl` implements it; `Ddnnf` is the
other validator.

### Rows and tuples (`Formula`)

A row is a function from variables to bits, a tuple a function from t of the
variables. The option groups of a model are sets of variables exactly one of
which is set (the formula's clauses say so); the code enumerates only tuples that set
members positively and from distinct groups (`Listed`), while the bits it sets
when scanning rows leave the last literal free (`Tracked`). The difference
matters to restart, which recomputes `tuples_U` from the bits.

### `Expand`

One action per stretch of straight-line code: `Enumerate` (`Expand` up to row
generation, including the cache's first half), `Greedy` (one turn of
`GenerateCoveringArray`: draw N candidates, score them, sort all 2N pairs, keep the
better half, add the best, or leave the loop), `Replenish` (one tuple of the
shuffled list, an arbitrary one since the list is shuffled), `Replenished`,
`Optimize` or `LeaveAsIs` (its early returns), `Finish` (the loop of `main`: the final
array, or the exit of `global_check_stop`). The pairs in `gain` keep the stale
half exactly as the code does, including the places into a candidate list that
has changed. The sampling solver is external: any row of `Sampled` without
assumptions, any valid row that agrees with them otherwise. The validator is
exact. The `use_cache = false` branch cannot be reached (the field is never
assigned) and is left out, and so are `valid_tuples` (kept by debug builds, read by
nothing) and the counts that are only printed. `Optimize` hands back any rows, divided into
old and new ones in any way, that cover the bitmap's tuples and are no more than before
(`KeepsCoverage`), which is what `AnytimeArray` promises; the parameter `Returned` says which of these are tried.
The theorems leave it open.

### `Search`

`pc` is the main thread's place: entering `Optimize`, at the head of the loop,
between the two writes of one step (`"backtrack"`), inside `restart` before the stop
flag is read (`"restart"`), and the ends: returned, `std::terminate`, killed by a
second signal, or an access outside an empty vector. `Signal` and `TimeUp` occur
anywhere. Which row is removed or written, and with what, is left open, so that
the results hold for both neighbourhoods and any mix of them. Restart is two
actions, split where it reads the flag. `CellLevel`, `ShrinkDivisor` and
`KeepDivisor` stand for the constants of the code (a percentage, 10 and 200).

### `Bookkeeping` and `Rescan`

The fields of the Optimizer are the fields of the record `book`, under the code's
names. The operations are functions on that record in the order of the code:
`RowGone` is the half that removal and overwriting share, `Removed` and `Forced` the
whole operations. Names and places count from 1, and a dead
name maps to 0 instead of -1; an `IntrusiveList` is a sequence and the handle
`unique_node` a place in it. A loop of the code over a list without repetition whose turns write
different places is one simultaneous update of them (`HeldAt`, `WeightIn`, `Overwritten`); the one loop in which the turns
meet, the swap-removals from `covered_tuples`, is the recursion `TakenOut`, which goes as the code does from the
last place to the first. Which rows are written is open; which are removed is
not (`CellRemove`, `TupleRemove`), nor is reweighing, which must not be interleaved
differently.

Three actions are steps of single threads: `CoverColumns` and `CollectColumns` (the two
scans of `restart`, one combination of columns each) and `ScanTuple` (`rebind_pos_to_idx`,
one tuple); `Covered`, `Collected` and `Scanned` join them. `job` has for each thread its
range, its combination and its queues, and the places of shared arrays it wrote to. The
ranges (`Start`), the decoding of a number into columns (`Decode`), the step to the next
(`NextColumns`) and the index of a tuple (`TupleToIndex`) are those of the code. The binary
search of `combinadic_decode` is given by what it finds (`Greatest`). The collector thread of
`restart`, which only frees what nobody reads before it is joined, is in `Search`.

### `Neighbourhood`

The state is the two arrays, the weights, and the tabu marks of rows and cells, kept as
ages up to the first age that is not tabu. One action per way a step can go: `Remove`;
of the cell neighbourhood `CellDescent` (gradient descent by weight, or a
reweighing), `CellFirstBest`, `CellBacktrack`, `CellRandomGreedy`, `CellForced` (a solver
call for the whole row) and `CellGivesUp`; of the tuple neighbourhood `TupleDescent`,
`TupleForced`, `TupleRandom`. `Forcible` is `check_force_tuple` with its counting of clauses,
which counts a column twice when a literal of the tuple is also the group mate of another;
`NewRow` is what `forcetuple` then writes. The lists behind the scores are functions of the
rows here, which `Bookkeeping` justifies.

### `SamplingCA`

`Update` (count the tuples of the row just added), `Generate` (draw candidates, refresh the
gains of those left over, take the best or end the loop), `Final` (the backbone, the tuples
that are left), `Find` (one solver call for an uncovered tuple), `Choose` (add what it found where
it is still needed), `Done`. Tuples are numbers, as in the bit sets of the code. The recursion of
`find_uncovered_tuples_pre` is given by what it visits: `Cut` has the prefixes at which it stops because the last literal is
against the backbone, `Below` what it subtracts there (from `combnum` and a power of two), `CountedOff` their sum, and
`pending` the tuples it comes to, in the order of `First`.

### `PbOccsat`

`PbInstance` builds the formula from the lines of a file (tautologies and repeated literals
dropped, neighbours by clause). `PbFields` has an operator for each method that changes the
fields: `init`, `flip`, `update` of the scores and of the candidate stack, and the clause weighting
schemes. `PbOccsat` is `solve`: one action per way the next variable is picked
(`PickPac`, `PickFirstDiv`, `PickDoubleCC`, `PickNvcc`, `PickAspiration`, or `Reweigh` and `Diversify`),
then `FlipVar` and `UpdateFields`. The function pointers of the code are the fields of a
profile. Random draws and comparisons with a probability are nondeterministic, weights
are scaled by a fraction, and priorities are multiples of a unit. Before the first call the fields are those of
an empty solution: nothing reads them before `init`. That a profile does not start from a given solution
(`init # "given"` in `PbOccsatAssumption`) is what the code does: only `set_init_solution` selects it, and
it brings the solution along (`SolveFrom`).

### `Cdcl`

`Trail` has the data of `minisat_ext/Solver.cc` as a record and an operator for each method:
`attach`, `propagate` with its watches and blockers, `analyze` with recursive minimization,
`analyzeFinal`, `cancelUntil`, `reduceDB`, `simplify`. `Cdcl` reads a file clause by clause and
then answers questions; one step is one round of `search`. Which variable is decided is
open; activities are left out.

### `Ddnnf`

A graph is read line by line and the variables below each node are propagated as in `parse`;
`CheckValid` and `CheckArray` are the two ways the validator is asked, for tuples of any length
and for up to three literals.

### `Ctw`, `Casa`, `Convert`

`Ctw` has the grammar by levels of operators and a pass per function of `ctw.cpp`; `Casa` the
reduction of CASA models (clauses as the sets of symbols that satisfy them), both encodings, and rows in both forms.
`ReduceCnf` is `reduce_cnf`: the CNF that is parsed from the coprocessor's answer replaces
all fields, `num_cared` and the groups included, so that each conversion has two results, with a coprocessor and without. The
coprocessor itself is external: it leaves the clauses alone, or does to the end what it is asked for (unit propagation,
subsumption, strengthening). `Convert` has an action per pass and per conversion, so
that the constraint can be compared with its meaning between any two of them.

## 3. What the runs check

Every property of a passing run is also shown to be able to fail: a named variant of the
model's definitions (marked "a bug" in the modules) violates it.

### `expand` (MCExpand.cfg, 17,684 states)

Six variables, three free and a group of three; the clauses make a pair invalid (the
case of `check_part_invalid`), a triple in sorted order (the case of
`check_clauses_invalid`) and a triple in unsorted order (which only the validator finds).
From three arrays of strength 2, one of which is complete
for all strengths so that nothing is new, the loop goes to strength 4; a candidate
set of two with two rows to sample is enough to let gains repeat, tie and become
stale. An optimization hands back the rows as they are, without one of them, with one of them rewritten, or only as many as
it takes to cover the same, these also in reverse order, and moves a row between old and new ones (`MCReturned`).

* `UncoveredExact`: neither the shortcuts of the enumeration nor the two ways of
  marking progress lose a valid tuple.
* `BitmapExact`: the bitmap stays exact, also after an optimization dropped, rewrote and moved rows.
* `CountersExact`: the count that ends `ReplenishTestCase` and the counts that
  weight the sampling follow the open tuples.
* `CompleteAtEnd`: the result covers *every* valid tuple of the strength, also
  those that are never listed because they name an unset member of a group. This
  is the reduction the enumeration rests on.
* `HandsOver`: the state given to the Optimizer is `Init` of `Search`.
* `RowsEarnTheirPlace`: each row that is added covers a tuple left out before,
  although half of the gains are stale. It holds for a reason that is itself a
  finding (below): the stale half is always zero.
* `Terminates`, under weak fairness of the next step: a sequential program keeps
  running.

The starting arrays are complete for strength 2. The program takes that on trust of an
array it reads from a file: with an incomplete one, `check_part_invalid` would drop
valid tuples silently.

### `search` (MCSearch.cfg, about 62,000 states)

Five variables, a group of three, strength 3, four rows; starts with disjoint rows,
with repeated rows, with a single new row and with none; `alt_length` 0 (no restarts)
and 2. The divisors are 2 and 4 so that two old rows suffice to be drawn out, and
restarts stop once `alt_length` exceeds 3, after the first restart has grown it. Both
neighbourhoods are enabled.

* `UncoveredExact`: the list of uncovered tuples is exact at every step.
* `KeepsThePromise`: refinement of `AnytimeArray`, whose array is the one that would
  be returned at that moment (`InHand`), not the one being worked on.
* `RestartKeepsRows`: the exchange of restart loses and doubles no row.
* `StopEnds`: a stop request leads to an end, under weak fairness of the main
  thread; nothing is assumed of the signals or the clock.
* `Recovers`: an unfinished array is completed or given up by a restart.

### `bookkeeping` (MCBookkeeping.cfg, 57,814 states)

Three variables at strength 2; each tuple can be covered by two rows, so that
tuples become unique, shared and uncovered in every order; up to two or three
writes after the initial rows, one of the starts with doubled rows. Two threads scan ranges
of three columns or combinations and of up to six tuples, so that their ranges are uneven, and each of them
is stopped between any two items.

* `CountsExact`, `PlacesExact`, `UniqueExact`, `WeightsExact`: each structure equals its
  definition from the rows. `UniqueExact` also shows that the clean-up in
  `uptate_unique_covered` never finds anything.
* `MarksDistinct`: no two rows carry the same positive tabu mark.
* `ScanExact`: no two threads write to one place, in any phase and at any speed, and the
  tuples that a restart finds are, each once, those that the bitmap knows and the
  older rows leave out: no combination is skipped or done twice, no two tuples share a bit.
* `ImplementsCoverage`: refinement of `Coverage`, on which `Search` is built.

### `neighbourhood` (MCNeighbourhood.cfg, 16,454 states)

Four variables, of which three form a group, and a clause that a write can break; strength 2; weights
up to 2, one row and one round of cells tabu. A start is what an expansion leaves, and the complete set
that a restart may bind.

* `RowsValid`: no move of either neighbourhood writes a row that breaks a clause.
* `OffersSound`: what `check_force_tuple` accepts is right, although it counts some columns twice,
  even for a tuple that names two members of one group.
* `ScoresTrue`: `Gain` is what a write brings, whatever has been reweighed since the lists
  were built. It says nothing of `GainOnly`, by which the random greedy step of the cell neighbourhood compares rows.

### `samplingca` (MCSamplingCA.cfg, 42,852 states)

Three formulas: a fact and a pair that excludes each other; two facts; no fact. Strengths 2 and
3, candidate sets of two, with and without an upper limit on the number of covered tuples (10, or 0 for none).

* `CountsExact`: the covered tuples, their number, the sampling counts and the gains of leftover
  candidates, all incremental, agree with the rows.
* `CompleteAtEnd`: at the end exactly the valid tuples are covered and the coverage reported is 1,
  the backbone and the solver having counted off exactly the invalid tuples.
* `RowsEarnTheirPlace`: no row is added in vain. `Ends`, under weak fairness of the next step.

### `pbocc` (MCPbOccsat.cfg, 350,752 states)

Two formulas over three variables: one with a tautology and a repeated literal, and a hard core
around a single solution, so that greedy steps get stuck and weights grow; four profiles
of function pointers (the default; PAWS, score2 and novelty; none, probSAT and random ties; score2 and
hscore2), two calls of `solve` (the second starts from what the first left), five
flips a try, and thresholds small enough for weights to be scaled down.

* `StacksExact`, `ScoresExact`, `GoodVarsExact`: what the flips change clause by clause is what
  the definitions give, whatever was weighted and scaled before.
* `SolvedSatisfiesFile`: a reported solution satisfies the file, the clauses dropped or
  shortened when the instance was built included.

### `cdcl` (MCCdcl.cfg, 35,223 states)

Two files of four variables, hard enough to learn from and to reduce what was learnt; one of three with facts,
tautologies and repeated literals; one of two without a solution, which only the search finds out. One or two
questions with and without assumptions, the first conflict restarts, and the limit on learnt clauses is small enough to
delete some.

* `WatchesExact`: every clause is watched by its first two literals, once each, and a reason has
  its literal first and only earlier false ones behind.
* `NothingMissed`: after propagation without conflict no clause is false or unit.
* `ConsequencesOnly`: what is learnt and the final conflict follow from the file, and what is
  kept in memory has exactly its models.
* `ImplementsOracle`: refinement of `Oracle`, its liveness included, under weak fairness of `Step` (the
  solver keeps working while it is asked something).

### `ddnnf` (MCDdnnf.cfg, 12,772 states)

918 graphs over three variables: every formula of two of them as a compiler by decisions writes it, decisions on and
products with the third, shared parts, lines in both orders. `ValidatorExact`: the validator accepts
exactly the tuples that a solution contains, and its two ways of answering agree.

### `convert` (MCConvert.cfg, 53,993 states)

An enumeration, a range and a Boolean with every constraint of a few shapes over a few
comparisons, and small CASA and CNF files, to both targets, with and without a coprocessor. The options of the CASA files are
all parameters, or the first two of three are; the one that is not has two values or three.

* `MeaningKept`: each pass over a constraint keeps its meaning, configuration by configuration.
* `SameRows`: the rows of the CNF, written back, are exactly the rows the file allows, and the check at the end
  accepts exactly these; a row written back and read again keeps the values of all variables that stand for parameters.
  An option beside the parameters gets no exactly-one clauses; if it has more than two values the CNF may allow more rows,
  and the property claims only that it allows no fewer.
  It includes `GroupsKept`: the groups are those of the parameters, every row sets one member of each, and a clause
  made of some members says that one is set, also after the coprocessor has rewritten the clauses. This is what
  `check_force_tuple` relies on (`GroupClauses` of `Neighbourhood`).

A row over the CNF is compared on the variables that stand for parameters, and not by its width, because the code has
two. With options beside the parameters (a CASA file may have some, a CTW constraint often adds some), `num_cared` is the
variables of the parameters without a coprocessor (`casa.cpp:156`) and all variables with one (`cnf.cpp:93` and `152`), while rows that are
generated have a value for every variable and rows of an initial array in CASA form one for those of the parameters
(`covering_array.hpp:72`). So in either case one of the two differs from `num_cared`, by which `reinit_CA` sizes its bit sets; and
the Expandor and the Optimizer index all rows by all variables. `Expand` and what follows model rows of full
width, as they are generated.

### Bounds

Bounds that the code does not have, each a named constant or a definition of an MC module: `MCReturned` (what an
optimization hands back), `MaxIdx` (rows written since a binding), `MaxWeight` (reweighings), `MaxAltLength` (restarts), `MaxFlips`, `MaxSolves`,
the number of questions and the ages of tabu marks. Each is large enough that what it bounds happens at least twice in a row
where it can (weights, flips, questions) or once from every state (restarts). Deadlock is checked except
where the program ends or a bound stops it, which is every module here.

### Fairness

`expand`, `samplingca` and `cdcl` assume weak fairness of the next step of a sequential program, `search` that
of the main thread and of nothing else. The others state no fairness and check safety only.

### Disagreements found

* `idle_cache` (`BestIsSelected`): the comment at `expandor.cpp:308` and the second half of
  the candidate set exist to let earlier candidates compete again. They never do:
  only the upper half of `gain` is ever scored (line 391), the lower half starts as
  zeros, and the lower half of the sorted list stays zeros for ever. The rows sampled
  before the loop are never used.
* `empty_handed` (`NeverEmptyHanded`): `Optimize` declines an empty array, but `search` may
  drop the last row it has and then steps on a row at a random place of an empty vector.
* `stop_in_restart` (`StopIsOrderly`): a stop request that arrives before line 454 of
  `optimizer.cpp` makes `restart` return past a joinable thread, whose destructor
  ends the process by `std::terminate`.

Each is violated in a run of its own.

## 4. What is proved

All for every value of the constants, with the TLA+ proof system.

### `SearchProof`

For every formula, every group structure, every set of rows, every pair of
arrays `Starts` allows and every configuration; it rests on `FormulaAssumption` and
`SearchAssumption` (types and ranges of the constants) and nothing else.

* `TypeCorrect`, `UncoveredAlwaysExact`: `Spec => []TypeOK` and `Spec => []UncoveredExact`.
* `SearchKeepsThePromise`: `Spec => KeepsThePromise`, the refinement of `AnytimeArray`.
* `ReturnsComplete`: when the phase returns, the rows cover all of the bitmap.
* `RestartMovesRows`: `Spec => RestartKeepsRows`, an action property: restart exchanges rows between the best array and the one
  in hand, and as bags the two hold afterwards what they held before.

`UncoveredExact` is not inductive: `rebind_pos_to_idx` sets the list to empty without
looking, so one has to know that the rows restart binds are complete, which
holds only because of where they come from. The inductive invariant `SearchInv` says:

* `TypeOK`;
* `TuplesExact`: outside `restart`, `tuplesU` is exactly the part of the bitmap that `last`
  leaves uncovered;
* `FreshStart`: before the loop starts nothing is listed and all is covered;
* `UncoveredExact` itself;
* `BestComplete`: while `testcases` is unfinished, `best` covers `tuplesU` and is no smaller;
* `AllTogether`: inside `restart` and at the end, `last` and `testcases` together cover the bitmap: the
  exchange moves rows, it loses none.

`SearchInvariant` has one step per action. `HandInv` derives that the array in hand is
complete, and `StepRefines` that each step is an `Improve`, a `Return`, a `Die` or a stutter of
`AnytimeArray`.

### `ExpandProof`

For every formula, grouping, strength, candidate set, sampling and set of starting arrays; it rests on
`FormulaAssumption`, `ExpandAssumption` and `ArraysComplete` (the starting arrays are complete for
their strength, which is `CompleteHolds` of the generator, below, and which the program takes on trust of a file).

Nothing is assumed of `Returned`: an optimization may hand back any rows that `AnytimeArray` allows.

* `TypeCorrect`, `UncoveredExactAlways`, `BitmapExactAlways`, `CountersExactAlways`, `HandsOverAlways`: the
  invariants of the run.
* `RowsEarnAlways`: the action property `RowsEarnTheirPlace`.
* `CompleteAlways`: `CompleteAtEnd`, if groups are exclusive alternatives (`GroupsExclusive`) and there are
  at least as many columns as the strength once a group counts as one (`EnoughColumns`). TLC evaluates
  both on the instance. Without them the claim fails: a tuple of unset members is listed by nobody.

No conjunct alone is inductive. The invariant `Inv` joins

* `Typed`: the types, place by place;
* `GainsKept`: candidates are valid rows, and the lower half of the gains is 0 (what `RowsEarnAlways` needs:
  a gain above 0 is then fresh);
* `BitsExact`, `UncoveredExact`, `CountersExact`: the bitmap, the list of open tuples and the counts agree with the rows;
* `Bound`: nothing open has a bit in the greedy loop, and while rows are generated `tuples_U` and the bitmap are those
  of the old and the new rows together;
* `ListedCovered`: all listed valid tuples are covered whenever `main` or the optimization has the array.

Each action has its lemma, split by conjunct. `EnoughColumns` says that any columns a valid row sets can be completed,
up to the strength, by others that it sets positively. The argument for `CompleteAlways` is the lemma `ListedSuffice`:
replace, in a valid row, each unset member of a group by the member that the row sets, and fill up with more columns;
the tuple so found is listed, so a row covers it, and this row agrees with the original tuple.

### `BookkeepingProof`

For every formula, grouping, strength, number of threads, and set of starts; it rests on `FormulaAssumption` and
`BookkeepingAssumption` (types and ranges of the constants; the bitmap of a start is that of its rows).

* `Typed`, `CountersAgree`, `PlacesAgree`, `UniqueAgree`, `WeightsAgree`, `MarksDiffer`, `ScansExact`: all invariants of the run.
* `Implements`: `Spec => ImplementsCoverage`, the refinement of `Coverage`, each step a removal, an overwriting, a
  binding or a stutter.
* `ScanShared`: in `rebind_pos_to_idx` no two threads write to one counter, and all of them are written in the end.
* `ColumnsInStep`: in the scans of `restart` each thread is always at the combination whose number
  its counter has.

None of the invariants is inductive: `CountsExact` needs the covered tuples of each row, these need the names of the rows and the
unique lists need both; and all of them need that the threads built them right to begin with. The inductive invariant
`BookInv` says for each phase what its threads have made so far:

* `Covering`, `Collecting`: each thread of `restart` is somewhere in its range (`Progress`), and the
  bits set or the tuples queued are those of exactly the combinations before its counter;
* `Scanning`: the fields are as `rebind_pos_to_idx` resets them (`Fresh`), the tuples are those that the bitmap knows and the
  older rows leave out, each once (`Target`), and counters and queues are right for the tuples that are done;
* `Steady`, between two steps: the fields are exact (`Full`) and the marks of rows differ (`Marks`).

`Full` is `Exact(b, S, C)` for all rows S and the relation C that says which rows cover a tuple. `Exact` has a
conjunct for each group of fields: counters and covered tuples (`Counted`), the two tuple lists and their map
(`Placed`), unique lists and their sums (`Weighed`), names of rows (`Named`) and the lazily cleaned lists of
names (`NamesListed`). It is stated for any S and C because an operation leaves the rows for a while: `RowGone` takes
a row out of C (`RowGoneIs`), after which the fields are exact for the other rows alone; a removal
then moves the last row into the gap (`MovedIs`), an overwriting writes the new row over it (`OverwrittenIs`) and adds
it to C, tuples that others cover first, then the new ones (`CoverAgainIs`, `CoverFirstIs`). The lazily cleaned lists are why `NamesListed` speaks
of live names only: a list may still hold names of rows that are gone.

`Outcome` says what a step does to rows and tuples only (`Keeps`, `Removes`, `Forces`, `Rebinds`); `BookStep` proves it together with
`BookInv`, and the refinement follows from it alone. The threads are the phases' own lemmas (`CoverStep`, `CollectStep`,
`ScanningStep`): one item moves one counter, and with the first theorems of `Foundations` the counters
run through everything once.

### `NeighbourhoodProof`

For every formula, set of bindable tuples and configuration.

* `RowsStayValid`: `RowsValid`; `OffersStaySound`: `OffersSound`; `ScoresStayTrue`: `ScoresTrue`.

Their hypothesis `GroupClauses` says of each group that some clause wants one of its members set and that no
valid row sets two of them: weaker than the exactly-one clauses that both encoders write, so that it holds also after the
coprocessor has rewritten them (`GroupsKept` of `Convert`). TLC evaluates it on the instance. The invariant `Inv` adds to the rows' validity that the tuples are such as the bitmap can know, and that the array
`backtrack_row` looks into covers all of them while some are uncovered. The crux of `OffersSound` is a case distinction about the
columns that a tuple writes: if its literals are in different groups, each
column is written once, and the counting of clauses is right (`CountsTrue`, `ApartIsRight`); otherwise it sets one member of a group and
clears another, whose column is counted twice (`TwoOfAGroup`), so that the clause that wants a member of the group set seems to be
left without a true literal, and the tuple is never offered (`NeverOffered`).

### `SamplingCAProof`

For every set of files, every strength the code has (2 to 6, at most the number of variables), every upper limit and size of the
candidate set; it rests on `SamplingAssumption` (types and ranges of the constants), on what `Oracle` says of the solvers, and on
nothing else.

* `CountsHold`: `CountsExact`; `CompleteHolds`: `CompleteAtEnd`; `RowsNotInVain`: the action property `RowsEarnTheirPlace`.
* `CountedOffIs`: what the search for uncovered tuples counts off without descending is the number of tuples with a
  literal against the backbone.

None of the properties is inductive. `CountsExact` speaks of the leftover candidates only when their gains have been
refreshed; between two rounds they carry those of the round before, and `clear_pq` is right to take off `selected` alone only
because that is all the newest row covers anew. `CompleteAtEnd` speaks of the end only. The invariant `IInv` joins

* `RowsRight`: the rows are models, as many as counted, and the backbone is that of the file;
* `CountsRight`: bit set and counter are those of the rows that were counted;
* `CandidatesRight`: candidates carry the gains of their rows, before or after the round, `selected` is what the newest row
  gains, and the sampling counts follow the rows;
* `EndRight`: in the final pass `exact` is the number of valid tuples and of invalid ones still to be asked for, each valid tuple
  is covered, pending or found, and each solution found contains its tuple.

`CompleteHolds` is a count. There are 2^k sequences of signs (`SignsCount`) and `nCr` combinations (`CombinationsCount`), so
`combnum` times a power of two is the number of tuples (`LiteralsCount`). Each tuple with a literal against the backbone lies below
exactly one cut (`CutOfIs`), and `Below` is how many lie below that one (`BelowIs`); the sum over the cuts is then a sum of
fibres (`SumOfFibers`). No such tuple is in a model, since the last unit clause on a variable decides its backbone and all of
them hold (`BackboneSound`, `ClashingInvalid`). The remaining invalid tuples are counted off by the solver, one at a time:
`pending` always has a first tuple (`FirstThere`: the order of the recursion is total). And a number in the bit set belongs to one
tuple (`PlaceOnce`, from `MapIndexOnce`), so covered numbers and covered tuples are equally many.

### `PbOccsatProof`

For every set of files, every profile of function pointers, every first solution and priority, any number of tries and flips and
any weighting parameters; it rests on `PbFieldsAssumption` and `PbOccsatAssumption` (types and ranges of the constants; the unit of
the priorities can be divided by the clause lengths) and nothing else.

* `StacksStayExact`: `StacksExact`; `ScoresStayExact`: `ScoresExact`; `GoodVarsStayExact`: `GoodVarsExact`;
  `SolutionsSatisfy`: `SolvedSatisfiesFile`.
* `NotesStayHeavy`: the clauses that the PAWS scheme notes are noted once and have a weight above one. So
  `dec_clause_weight_paws` never meets the weight that it is careful not to lower, and the notes never outgrow their array.
* `PbInductive`: `Spec => []PbInv`, the inductive invariant behind them, which contains the types of all fields: no array is read
  outside its bounds.

The properties are far from inductive. A score is changed by looking at `sat_count` and `sat_var` after the flip, and is
right afterwards only if it was right before, if the counts are those of the new solution, and if `sat_var` names the single true literal
of a clause that had or has just one. `PbInv` says

* `InstanceExact`: the clauses are those of the file without tautologies and repetitions, a variable's occurrences are all of them, each
  once, its neighbours the variables that share a clause with it (`BuiltExact`);
* `Ready`, between updates: the counts and both stacks are those of the solution (`CountsExact`), the scores those of counts and weights
  (`ScoresAre`), the average that of the weights, flags and list of good variables agree (`GoodsOk`), and until weights have been scaled down
  they are all of them; notes are heavy (`Noted`);
* `Midway`, between `flip` and `update`: there is a solution `old` from which flipping this variable led here (`JustFlipped`); counts
  and stacks are those of the new one, scores and pairs of true literals still those of the old one (`Pending`);
* in `search`, that every listed good variable qualifies: not so after weights have grown, until the next flip.

The loops of the code are folds, and a loop lemma says what holds after some of its turns: of `flip`, that the counts are right for
the clauses walked so far (`FlipStep`, `FlipLoop`); of the four score updates, that the score is a sum over the clauses whose
summands are new for the clauses walked and old for the rest (`Blend`, `BlendTurn`). For that the scores are written as sums of parts,
one per clause (`MakeParts`, `BreakParts`, `GainParts`, `LossParts`; `InitIsTotal` shows that these are the code's initial scores), and a
turn of the loop changes just the parts of one clause (`ScoreTurn`, `Score2Turn`), by a case distinction about how many
literals of it are true before and after. That the candidates stay complete under `update` needs that the score of a
variable that shares no clause with the flipped one stays (`ScoreFrame`). The parts of the invariant do not mention the
state but the fields, so that a step which leaves the instance alone keeps them in the next state too (`SameInv`).

### `CdclProof`

For every set of files over any number of variables, every question, every number of questions, every choice of decision variables
and of clauses to delete, every schedule of restarts; it rests on `CdclAssumption` (types and ranges of the constants) and nothing
else.

* `WatchesStayExact`: `WatchesExact`; `NothingStaysMissed`: `NothingMissed`; `LearnsConsequences`: `ConsequencesOnly`.
* `AnswersAsTheOracle`: `Spec => TheOracle!Init /\ [][TheOracle!Next]_(TheOracle!vars)`, the refinement of `Oracle` step by step: an answer is
  a solution of the file under the assumptions, and `<<>>` only when there is none. That an answer comes is left to
  TLC (`ImplementsOracle`).
* `CdclInductive`: `Spec => []CdclInv`, the inductive invariant behind them.

None of the properties is inductive. `NothingMissed` holds only where propagation has ended; that it holds there again after the next
backjump needs to be known of the levels, since a clause may be false in part at any time. `WatchesExact` needs that clauses
name no variable twice, that the trail does so neither, and that propagation sees each watch list as it was. `ConsequencesOnly` needs all of that and the
levels of reasons. `CdclInv` joins

* `ControlOk`: types, and what is known at each place of the program;
* `MeaningOk`: the solver is `Good` - clauses without repetition, the trail in levels (`TrailOk`), watches (`WatchOk`), reasons
  (`ReasonOk`), only the first literal of a level without a reason (`DecisionsOk`), polarities and heap - and it means what it has read: everything in memory follows
  from the clauses read (`Sound`), and the original clauses with the literals of level 0 lose nothing of them (`Lossless`); learnt clauses can be
  deleted for that reason;
* `ConflictOk`: the final conflict is a clause of negated assumptions that follows from the file;
* `SearchOk`: assumptions are true below their levels and the only decisions there (`AssumedOk`); and `Looked`, at each place of the loop: if a propagated
  literal makes a watched one false, the clause has a true literal of the same level or a lower one. Levels make this survive
  `cancelUntil`: what is undone takes with it no true literal on which a watch that stays false relies. After
  a conflict (`Clash`) it is known for the lower levels only, and the backjump goes there;
* `IdleOk` and `EndOk`: between questions the trail is that of level 0 and propagated; a model is one.

A method has a lemma that says what it keeps of each part, for any solver record, and each of its loops has a lemma for one turn.
`propagate` moves watchers from one list to another while it walks one of them: its lemmas (`MidWatch`) split the list into what
is kept, the watcher in hand and the rest, and a conflict leaves the rest where it is. `analyze` keeps a count: `path` is the number of seen literals of the
current level not yet reached, so when it is one the literal reached is alone (`FirstUip`), and every resolvent follows from `Sound`.
Minimization walks the trail upward: whatever is in `Following` is implied by the other literals of the clause, whichever levels the
five-bit abstraction confuses. `CdclInv` is also checked by TLC on the instance of `cdcl`, in its 35,223 states, before it is proved here.

### `Foundations`

`EmptyExact`, `PushedExact`, `TakenExact`: the stacks of PbOCCSAT keep the map of places the inverse of the list,
and taking out an element by swapping takes out this element alone. For every number of threads, columns and tuples:

* `RangesPartition`: the ranges of the threads are disjoint and leave out nothing.
* `DecodeBijective`: `combinadic_decode` maps the numbers below `nCr` one to one onto the combinations.
* `StepsDecode`: `combinadic_next` of what a number decodes to is what the next number decodes to.
* `MapIndexOnce`: no two tuples share a place in a bitmap, for any strength from 2 on and any number of columns. The offsets
  `Get*Base` are nested sums of binomials; they are reduced to a rank among combinations (`BaseIs`, `RankOnce`).

There is no induction principle that the provers can instantiate with an operator; the proofs take a least counterexample
instead (`Least`), and a least set of a finite set's subsets (`SubsetInduction`) where the data are sets. The function
`nCr` is recursive, and so are `combnum`, the lists and the sums: `Recursion` constructs a solution of
the equation step by step, from which the equation itself follows for the function that the definition chooses (`Binomials`,
`CombnumIs`, `KeptIs`, `SumUnfolds`). `Digits` relates a combination to
the parts of its number that its first columns make up: decoding gives digits
(`DecodeDigits`), digits determine the combination (`DigitsDecode`) and the number (`NumberedOnce`), every combination
has some (`Numbered`), and a step adds one (`NextDigits`).

Of the other lemmas `ImageCount` and `SumOfFibers` count a set by a map from it, and `Stepwise` and `RunStays` say of a fold that it
exists and that what each turn keeps holds at its end; the loops of PbOCCSAT and of the SAT solver rest on these two.

### Only model-checked

Liveness (`StopEnds`, `Recovers`, `Terminates`, `Ends`, the liveness of `Oracle`, so `ImplementsOracle` as a whole) is out of the proof
system's reach, and so is what recursive operators over trees and graphs compute (`MeaningKept` and `SameRows` of `Convert` with
`Ctw` and `Casa`, `ValidatorExact` of `Ddnnf`).

## 5. What is not modelled

* **External programs**: the compilers d4v2 and FastFMC (the form of their output is `WellFormed`), the
  coprocessor that `reduce_cnf` calls (`Coprocessed`: nothing, or all that its options ask for), the library CaDiCaL (an `Oracle`).
* **Text**: the characters and blanks of files, the parameter section of CTW files, messages on ill-formed
  ones, printing, command line, configuration, logging.
* **Code that nothing calls**: `SimpSolver`, `core/Solver`, garbage collection and DIMACS output of MiniSat;
  `add_var`, `add_clause`, `remove_clause_last` of the wrappers; the local-search part of SamplingCA's candidates (no caller turns it on);
  `remove_testcase_randomly` and `remove_unnecessary_tc`; `combinadic_encode` and `combinadic_previous`;
  `IntrusiveList::merge`; the `use_cache = false` branch.
* **Conversions**: ranges with a step other than 1; groups when a CNF becomes a CASA model (there are none then).
* **Intrusive lists** below their values: `erase` of the head leaves the `pre` of the new head dangling, but `pre` is read of
  later nodes only. The pool is memory management.
* **Activities** of the SAT solver, of which the models leave the choice open; random numbers, which are nondeterminism.
* **Integer widths**: the sizes are computed in 64 bits from the binomials, counters of tuples are `int`. No
  module claims anything about overflow.
* **Degenerate settings**: `taboo_size` 0 (removals would index an empty vector) is excluded by the assumptions;
  `alt_length` 1 stays 1 when multiplied by 1.8 and truncated, and is modelled in `Search` without a property.
