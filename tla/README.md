# A verification project for multi-row-resynthesis (Easyn)

The program takes a placed netlist of standard cells of two heights (8T and
12T), decides which rows of the floorplan become 12T rows, exchanges cells for
functionally equivalent ones to trade area against timing, and puts every cell
in a row of its own height. This directory holds TLA+ models of the parts whose
logic is the program's own, the TLC runs that check them, and proofs checked by
TLAPS of what holds for every design.

`PROJECT.json` lists runs, mutants (a plausible mistake for every checked
property, which TLC must find), theorems, hazards, and for every definition the
lines of code it models. To check one run: `tlc -config MCPasses.cfg
MCPasses`; to check the proofs of a module: `tlapm BackPropagationProofs.tla`.

## 1. Inventory

The default flow (`src/src/main.cpp:216`) is `NewDPSolver::New_dp_solve`;
`-olddp` selects the older solver, the row based placement and the legalizer.
The program is a single sequential process: nothing runs concurrently, nothing
survives a crash. What is hard is state that lives long: globals that are
updated in place over many gates, passes and iterations, and whose correctness
depends on everything that was done before.

| Part | State | Operations | Hard |
|---|---|---|---|
| **Abacus legalizer** (`src/abacus`) | cells with their row, density per row, free width per SubRow, linked clusters with weight, q and width | `readDef`, `parse`, `getRowIdx`, `placeRowTrail`, `placeRowFinal`, `determinePosition` | incremental sums kept in several places; chains of merges; a trial that duplicates the final step; snapping after packing; fallbacks when no row has room |
| **Iterations and back propagation** (`new_dpsolver.cpp` 1208-1503, 1772-1878, 2528-2709) | area slack, phase, cell and row of every gate, row densities, counters, fanout lists, queue | `iteration_rowheight`, `New_dp_back_propagation`, `New_dp_back_propagation_iteration_rec`, `calculate_dy` | counters that decide when a gate is ready, reset only in part; a test for a row and a search for a row with different rules; an area budget kept up over all iterations and never recomputed; a null dereference when rows are full, or when no pass was run |
| **Row heights** (`new_dpsolver.cpp` 1997-2146) | height of every row, score of every pair | `reassign_height_new` | loops that move their own index and undo each other's work |
| **Row clusters** (`new_dpsolver.cpp` 22-460, 2660-2692) | a treap of gates per cluster with sums over its subtrees, one ordered set of gates per row | `pushup`, `split`, `merge`, `getrank`, `getroot`, `do_placeat`, `try_placeat`, writing the positions | sums renewed bottom up on every path; a trial that must restore the trees; clusters held at both ends of the row under different limits |
| **Candidates and delays** (`new_dpsolver.cpp` 570-971, 2537-2658) | `dp_table`, the cells bound in the one timer, its arrivals | `New_init_dp_table`, `New_dp_solve_iteration_rec`, `convert_node_on_timer` | a recursion that exchanges cells in the timer, memoises, and must leave the placed cell behind; arrivals that are renewed gate by gate only |
| **Old solver** (`dp_solver.cpp`) | `dp_table`, cut cache, cells asked for, where each gate was asked from | `init_dp_table`, `dp_solve_rec`, `dp_back_propagation`, `naive_solution_selection` | a cache keyed by the sum of the leaves and reused for another cell; nets rebuilt while tables are being filled |
| **Row heights of the old solver** (`row_base.cpp` 650-801) | height and score of every row | `reassign_height_new` (another one) | parity repairs in one sweep with a counter carried over |
| **Pareto selection** (`util.cpp` 90-104, `pareto.h`) | the elements found so far | `pareto_solution_select_tmp`, `Pareto::addvalue` | elements removed in the middle of the loop; equal values |
| **Nets of a remapped gate** (`timing.cpp` 505-745) | `PlaceInfo_net` and the timer's nets | `buildTopo_remap` | two tables that are edited side by side; a mistake shows at the next remap on the net |
| **Placement data** (`PlaceInfo.cpp`) | tables of gates, nets and pins | `process_net` and other readers | none: copies JSON fields |
| Steiner and RC trees (`timing.cpp`), driver (`main.cpp`, `resynthesis.cpp`), result writer, scripts | files | reading, writing, calling | I/O only |
| OpenTimer, mockturtle, flute, JSON, nauty | | | other projects' code |

How the parts interact: the driver reads the placement into tables, the row
height assignment turns the cells' areas per row into two lists of rows, and the
iterations take these lists as the rows of each height. A pass reads delays and
required times from the timer, writes the chosen cells back to it and to the
netlist, and positions to the output file; on the old path the legalizer then
takes the file and the lists of rows. All of this is by call and by shared
global tables.

What makes each modelled part correct:

* *Legalizer*: the accounts of a row agree with its cells; no cell is lost, none
  is placed twice, none overlaps another, all stand on sites in rows of their
  height with room for them, as near as the rule allows; the packing is optimal.
* *Back propagation*: every gate exactly once per pass, after all its users;
  rows never overfull and only with cells of their height; the area budget is
  never overdrawn; a pass fails only when there is no room.
* *Row heights*: the densities asked for hold in the end; rows change in pairs;
  in the old solver the 12T rows are the chosen ones and their partners.
* *Row clusters*: the trees stand for the same clusters whatever was tried; the
  written row is legal, and undisturbed if it was legal before.
* *Delays*: every candidate of every gate is measured, each with the others as
  they are placed.
* *Old solver*: what an entry keeps are choices for the nodes its cell reads, and
  the front of all of them, also out of the cache (with remapping neither holds,
  see `old_cache`); every gate that is read is visited on behalf of its readers.
* *Nets*: both netlists stay the netlist of the present cells.

## 2. Modules

| Module | Models | Role |
|---|---|---|
| `Legalizer` | `src/abacus` | specification |
| `ReverseTopological` | | abstract: what a pass promises about its order |
| `BackPropagation` | the iterations and passes | specification; implements `ReverseTopological` |
| `RowSearch` | the search for a row, as a loop | extends `BackPropagation`, checked against its `IsChosenRow` |
| `RowHeightAssignment` | `reassign_height_new` of the new solver | specification |
| `OldRowHeights` | `reassign_height_new` of the old solver | specification |
| `RowGates` | order, place and legality of the gates of a row | extended by the next two |
| `RowClusters` | the clusters of one row | abstract: sets of gates |
| `ClusterTreaps` | the same with the trees | specification; implements `RowClusters` |
| `DelaySolve` | candidates, the timer, the iterations around them | specification |
| `ParetoSelection` | the selection by area and delay | specification |
| `OldSolver` | table, cache, back propagation, selection | specification |
| `NetlistRemap` | `buildTopo_remap` | specification |
| `*Proofs` | | theorems on the module of that name (`BackPropagationProofs` also on `RowSearch`, `RowHeightAssignmentProofs` also on `OldRowHeights`, `OldSolverProofs` also on `ParetoSelection`) |
| `FiniteLemmas` | | least elements, induction, finite sums and folds, used by the proofs |
| `MC*` | | small instances; each pairs with the `.cfg` of its name (`MCOldSelected.cfg` and `MCOldCache.cfg` are two more for `MCOldSolver`) |

The modules follow the seams of the code, where the parts meet through a table
one of them has finished: the lists of rows, the chosen row, the offered
exchanges, the front of choices. `BackPropagation` takes a row by what the search
accepts, which `RowSearch` compares with the loop; which gate a row gets is open
in `ClusterTreaps`; `OldSolver` uses the front by its definition, which
`ParetoSelection` shows the code to compute, and takes any arrivals for a
remapped gate, whose nets are the subject of `NetlistRemap`.

### Legalizer

`ReadCell` is one COMPONENTS line of `readDef`, `SetRowHeights` the end of
`parse`. `PlaceCell(c)` is one round of `abacusProcess`: `getRowIdx`, then
`placeRowTrail`, then `placeRowFinal`. `DeterminePosition(r)` is one row of
`determinePosition`. A row's clusters are a sequence from left to right instead
of a list linked by `predecessor`; the merging loop is a fold from the right.
A cluster's `x` is kept as a numerator over its weight and `optimalX` as a
fraction, so that the model computes without rounding what the code computes in
doubles, and its integers have no bound. The code multiplies the weight of one
cluster by the width of another as `int`s (`Legalizer.cpp:230`, `:296`); as weights
are widths, the product overflows for clusters wider than about 46000 units, which
the model does not show.
The strict and non-strict comparisons of `getRowIdx` are as in the code: a cell
asks for its own row to have room for it once more, because the density already
counts it, and no search includes its own row.

`std::sort` may order cells with equal `x` in any way: `PlaceCell` takes any
cell not right of another one that is left. `divideRow` has nothing to do, as
`terminals` is always empty. Bookshelf readers are not called by the program.

### BackPropagation

`SkipPass` and `StartPass` are the head of the loop of `iteration_rowheight`
(the latter with everything `New_dp_back_propagation` resets and counts),
`SkipInput`, `ProcessGate` and `Crash` one call of
`New_dp_back_propagation_iteration_rec` for the head of the queue, `EndPass` and
`Finish` the ends of the loops. Variables have the names of the globals;
`placed` is the union of `treaps::nodes`. After the last iteration `New_dp_solve`
writes the positions from the treaps of the last pass, which only the head of a
pass creates. When every pass was skipped (an `area_slack` that begins at 0, say, or
is not negative and a single iteration) it dereferences a null `treapnode`
(`new_dpsolver.cpp:2774`): `Finish` then ends in "crashed". The budget is one of
`AreaSlacks`, so one run has designs that are over it and designs that are not.

The timer is left open: `TestGates` is the set of all lists of at most one
affordable candidate per height in either order, which covers every outcome of
the tests on ratios, required times, period and threshold, including a
threshold that is not initialised. In exchange, nothing about timing can be
concluded from this model; `DelaySolve` is about the timer. The to-and-fro search
for a row is described by what it accepts: `Turn` numbers the indices in the
order of the search and `Reached` says that no earlier row was cheaper, which is
when the loop goes on. `RowSearch` has the loop itself, with `TooExpensive`, the
turns and their ends; `SearchTakesChosenRow` compares the two for every
candidate of the next gate in every state of a pass (proved in
`SearchFindsChosenRow`). `Crash` is the step after
which the code dereferences `Placer[-1]`. `CrashesWhenFull` is about these steps of a
pass, not about the end of the iterations.

Candidates of a gate share its leaves because `New_init_dp_table` keeps only
cuts with the leaves of the gate itself; the counters go up and down once per
candidate as in the code. The order in which one step pushes several leaves
is the iteration order of a hash table and is left open.

### RowHeightAssignment

`Choose` is the sorting and the choice by score, `Spread12` and `Spread8` are
single rounds of the two loops, in which `BreakRun` moves the index `i` to
behind the pair it has changed, `Split` fills the two lists. The two densities
are variables that never change, so one run has all combinations of small ones.
`i` counts pairs where the code counts rows in twos. An odd last row has no height in the code
(its entry is an empty string), never counts as 8T or 12T in a run and ends
among the 8T rows; here its height is "none".

### OldRowHeights

`Choose` is the sorting by score and the choice of `chosen_top_K` rows; `EvenRun`,
`OddRunOf8T`, `OddRunOf12T` and `EndPairing` are the four ways a round of the
repair loop goes, with `i` and `sum` as in the code; `Split` fills the two lists.

### RowClusters and ClusterTreaps

`ClusterTreaps` has a heap of `treapnode`s with the pointers and the sums of the
code. `Merge`, `Split`, `Pushup`, `GetRoot` and `Getrank` are functions from a
heap to a heap. `TryPlaceAt` is `try_placeat` from both sides, including the
second neighbour that is merged for the cost of the trial and split off again;
`Insert`, `Right` and `Left` are `do_placeat` with a step for each search of a
neighbour; `Write` writes the position of one gate, for which the tree is split
behind it and merged again; `NewPass` makes all nodes anew. `RowClusters` is the
same without trees: a cluster is a set of gates, and `TryPlaceAt` is no step.
Both extend `RowGates`, where the gates, their order and the properties of a row
are. The refinement mapping reads each cluster off its tree.
`weight_e` is always 1 in the code, so `sum_e` is `size`. The sums that only
`calculate_displace` reads are left out: no caller uses the cost of a trial.

### DelaySolve

`CallOutput` and `CallLeaf` are calls of `New_dp_solve_iteration_rec`,
`MeasureOther` and `MeasurePlaced` the candidates it exchanges and the placed
cell it ends with, `Convert` is `convert_node_on_timer`, `Exchange` what a pass
does to the timer, `Init` what `New_init_dp_table` has adopted. An arrival is
represented by what it was computed from: for each gate of the cone the set of
its cells at the time. So a property can say that a delay was computed with the
cells that are placed. `NextIteration` follows the two kinds of passes (win area,
spend area); the thresholds that order them are a choice.

### ParetoSelection

`AddIndex`, `Reject`, `Erase`, `Pass` and `PushBack` are the ways a round of
the loop of `Pareto::addvalue` goes for element `ii`; `index` is its parameter and
the loop variable of `pareto_solution_select_tmp`. Its specification is named
`SelectionSpec`, so that a module can extend it and `OldSolver`.

### OldSolver

`CallOutput`, `CallLeaf`, `Solve` and `SolveCached` are `dp_solve_rec` with its
stack in `calls`; the arrivals are read when a call begins, as in the code, and
`Enter` rebuilds the nets when the candidate reads other nodes than the timer
has. `BeginBack`, `SkipOutput`, `VisitOutput`, `VisitLeaf`, `Leave` are
`dp_back_propagation` and its recursion, with the required time as a choice;
`Select` is `naive_solution_selection`. Of the candidates of a gate
`init_dp_table` keeps those of the assigned height (`Suitable`). Without remapping
they are the cells that fit what the mapped cell reads (`Mapped`, `Fitting`); with
remapping a cell may fit several cuts, and the table, keyed by its name, has the
one that was stored last, possibly another one than that of the mapped cell too:
`Offered` and `Cut` give one cut per cell. `cut_value` is the bare sum of the nodes
of a cut, and two cuts of a gate may share it. `FirstPlace` and `Critical` follow
the order of the loops over the fanins and their delays, so which of several equal
critical nodes is cached is the one of the code. What the code leaves undefined
ends in "undefined": the driver of an output that is an input or the constant 1 has
no cut (`:826`; only the constant 0 is skipped), a cell's name that is not in the
table inserts an entry without one, and choices taken over for a shorter cut are
read behind their end.
`remap_flag` is a variable that never changes, so one run has both options.

### NetlistRemap

`Remap(n, c)` is a call of `buildTopo_remap`. A net is a set of pins. `Edited` is
the editing of `PlaceInfo_net`, `Connected` what `connect_pin` accepts. Only the
old solver with remapping makes such calls; they come in any order here.
`node_to_gate_map` is the cell the solver notes for a gate. Before the first remap
the timer may have another one, as `init_dp_table` repowers every gate with several
candidates to the first entry of its table (`dp_solver.cpp:442-446`); this leaves the
pins of the gate, their names and their nets as they are, which is what the
netlists are about.

## 3. What is checked

Every passing run is exhaustive over its instance, and between them they take
every action of every specification. Deadlock is checked wherever the model has
a `Stop` after the end; where it has none (`DelaySolve`, `ParetoSelection`,
`OldSolver`) the end of the work is the only state without a step and the check
is off.

| Run | Shows | Bounds, and why they are enough |
|---|---|---|
| `legalizer_rows` | row accounting, capacity, heights, nearest row | 3 cells, 3 rows, 2 widths, all heights: each outcome of `getRowIdx` (stay, up, down, no row) occurs with rows empty, full and overfull; the rows' distances differ so that up and down can be told apart |
| `legalizer_packing` | exact q, least displacement, trial = final, legal output | 4 cells in one row, compared with every integer placement in their order: a merge can cause a second and a third one; row origin and sites are not aligned with 0; four wide cells do not fit |
| `passes` | every gate once, after its users, and none forgotten; fanouts known; rows hold what they should, heights match, the search takes the row it should, a pass fails only when rows are full; the budget is kept; termination | 4 gates, 2 inputs and a constant with shared leaves, reconvergence and outputs that are read; 5 rows that take one or two gates; 5 iterations, as the counters of inputs only drift from the second pass on; a budget that begins overdrawn, or just kept: exchanges that over- and undershoot it, failure, full first rows, searches that end at both ends of the floorplan and at a row that costs more, passes that start from exchanged cells, and designs for which every pass is skipped |
| `row_heights` | both densities; both heights remain | 8 pairs and an odd row, 5 chosen, all scores; every combination of densities of 1 to 3, with the second loop and without: both loops change pairs, the second takes back what the first has done, and the settings for which it breaks the first promise occur |
| `old_row_heights` | 12T rows are the chosen ones and their partners | 7 rows, 3 chosen, all orders of three scores: runs of 1 to 7 rows, repairs that follow each other, a last row without a partner |
| `cluster_treaps` | exact sums, the trees implement the clusters, legal and undisturbed rows | 4 gates, 2 widths, a row that they fill to the last unit, positions on top of each other, at both ends and apart, trees that are chains and not, equal priorities: a merge can cause further ones from both sides |
| `delay_solve` | one trial at a time, complete, comparable and fresh delays, termination | 4 gates that share fanins at three depths, one without a choice and one between the heights, three solves and two kinds of passes |
| `pareto_selection` | incomparable elements, exactly the front | all lists of up to 4 choices over 3 areas and 3 delays: a value can remove several elements, equal one in the middle, be worse than the last |
| `old_solver` | without remapping: the front also from the cache, least area in time; with both options: complete back propagation | 4 gates, 2 of them with a front of several choices, 2 with candidates that read different nodes, of which one has two cuts with the same sum; both options; required times before, between and after all delays |
| `netlist_remap` | both netlists are that of the present cells | 4 gates with 3 or 4 cells each, all orders of remaps; pins are permuted, shared and renamed, nets lose their last reader |
| `old_selected` | a violation: nothing is selected | the instance of `old_solver` |
| `old_cache` | a violation: an entry has choices for nodes its cell does not read | the instance of `old_solver` |

`old_selected` is a finding. `dp_back_propagation_rec` looks for the slowest
choice with a delay `<` the required time, and falls back to the fastest when
all are `>` it. When the fastest is exactly as fast as required, neither branch
selects anything, and `assert(selected_index != -1)`
(`src/src/dp_solver.cpp:894`) fails. The selection of a cell for an output
(`:1136`) has the same gap without an assertion and then reads in front of
`gate_list`; the model calls that state "undefined" and ends there.

`old_cache` is another one. `dp_cut_cache` of a gate is keyed by the sum of the nodes
of a cut (`dp_solver.cpp:489-494`, `:595`, `:787`). Without remapping a gate has one
cut. With it, it may have {2, 3, 4} and {4, 5}: the second candidate then takes the
choices of the first one over, although `:476` calls them "all permutations of the
gates slected for all fanins". They name cells for other nodes, and back propagation
asks the nodes of this cut for them, or reads behind the end of a choice.

Some comments of the code disagree with it in ways the models follow:
`dp_solver.cpp:43` says that gates *with positive slack* keep their cell, but the
test of the slack (`:70`) is commented out; `:1174` describes what happens to
gates outside of all timing paths, but every list begins with the first entry of
the table (`:1074`), so the branch is never taken; OpenTimer's `timer.cpp:1104`
says that a timer without pending tasks is up to date, but `run_all_tasks`
(`:1443`) has cleared the frontiers without propagating from them, so a gate that
is not converted itself keeps an old arrival. Hence the precondition of
`FreshDelays`: every gate on the way has a choice of cells.

Symmetry is used only in the runs of the legalizer, which check no liveness:
cells are interchangeable model values there.

Fairness: weak fairness of `Next`. The program is one thread in one loop and
waits for nothing, so as long as a step can be taken one is taken; nothing is
assumed of the choices. `Terminates` shows with it that skipped passes cannot go
on for ever, `SolvesEnd` that the recursion over outputs and leaves and the
iterations around it end.

## 4. What is proved

All theorems hold for every value of the constants that satisfies the named
assumptions of the modules. TLAPS checks each to the last leaf.

*`FiniteLemmas`.* The provers cannot instantiate the induction theorems of the
library, so induction is by least counterexample, over sets: `LeastOfNats`,
`SmallestBadSet` (a smallest subset of a finite set that violates something).
From these it is shown that sums over finite sets exist, have the right type, are
additive, monotone and linear (`SumAdd`, `SumUnion`, `SumGrows`, `SumLinear`), that
products of squares are (`SquaresAdd`), and
what a fold over a sequence returns is the end of a chain of single rounds
(`RightFoldExists`, `LeftFoldExists`). This is what makes the accounts of rows,
the sums of clusters and the merging loops provable for any number of cells.

*`LegalizerProofs`.* The inductive invariant comes in layers.

1. `BaseInv` is `TypeOK` with what each phase knows (`Phases`: every cell has a
   row once it is read, `todo` is empty when rows are written, ...). `TypeOK`
   alone is not inductive: `getRowIdx` returns the row of the cell when none has
   room, which must be one. `ChosenRow` is the case analysis of `getRowIdx`.
   `TypeCorrect`, `Capacity` (a step never fills a row beyond `row_width`) and
   `HeightsRespected` follow.
2. `AccountingInv` writes the accounts as sums; a cell that moves is taken out of
   one sum and put in another (`SumRemove`, `SumAdd`). `RowsAccounted` follows.
3. `Located`: an unplaced cell still lies on the row it was read to. With rows in
   ascending order (`RowsApart`) the distance grows monotonically on either side,
   so the first row with room above and the first below are the nearest:
   `NearestChosen`.
4. `GoodInv`: the clusters of a row hold its placed cells, every one once, and
   `weight`, `width` and `q` of a cluster are sums over its members
   (`GoodCluster`). The lemma `MergeGood` is the reason why `addCluster` shifts
   the absorbed `q` by weight times width: the pull of every member changes by the
   width in front of it. `QStaysExact` follows.
5. `PackedInv`: clusters do not overlap, and stand inside the row if they fit in
   it. `CollapseStepPacked` is one round of the loop; the comparison of the last
   cluster with its predecessor is enough because those in front of it are
   untouched and ordered transitively (`EndsByTransitive`).
6. `TightInv`: a cluster that fits in its row is *settled*, it stands where its q
   asks for or at the end of the row it is asked to leave; and *held*, for each of
   its members what is in front of it asks on average for a place at or right of
   the cluster's own, or at least no further left than the whole cluster does.
   `MergeTight` shows that a merge keeps both: that the two clusters overlapped
   means that the left one wants to be right of where the merged one ends, and the
   right one left of it (`HeldOnTheLeft`, `HeldOnTheRight`). Tightness is the
   condition of optimality of a quadratic program with order constraints:
   `NoGain` sums the tensions of the members times the distances of a legal
   placement, which grow from left to right, by parts (`ChainSum`), and
   `TightIsBest` follows for one cluster. Clusters are compared with a placement
   each on its own, so `PackingIsOptimal` is a sum over them (`SumOfBlocks`); the
   products of squared weights that bring the displacements of the clusters to a
   common denominator follow a recursion like sums (`SquaresOf`).
7. `TrialsAreFinal` needs no invariant but the types: the rounds of the trial and
   of the placement have the same q, weight and width as long as both go on, and
   stop together (`MatchingStep`).
8. `LegalInv`: the rows in front of `nextRow` are written legally. Snapping moves a
   cluster to the nearest site, by up to half a site to either side; two clusters
   that touch are both rounded, and do not overlap only because widths are whole
   sites (`SnapKeepsOrder`); for the same reason a cluster inside the row stays
   inside (`SnapStaysInside`). `ResultIsLegal` follows for `OnSites`: the end
   result for every design.

`RowsApart` and `OnSites` are hypotheses of `NearestChosen` and `ResultIsLegal`, not assumptions of
the model. A floorplan lists its rows from the bottom, and its rows and library
cells are whole numbers of sites wide; the code checks neither, and without
`OnSites` rounding may make neighbours overlap. The instances of TLC satisfy them
(`ASSUME` in `MCLegalizerRows` and `MCLegalizerPacking`).

*`BackPropagationProofs`.* `TypeCorrect` needs no strengthening. `BudgetIsKept`
and `CrashesOnlyWhenFull` are about the single steps of a pass: the first from `ChosenCell`
(the chosen cell is the present one or an affordable candidate), the second from
`SearchFindsRow`, an argument by the least `Turn` among the rows with room: the
search cannot have stopped before it, as it stops only at a row that costs more
than one it has taken. `PassesComplete` and `ImplementsReverseTopological` rest
on the inductive invariant `OrderInv`. Neither property is inductive: a counter
has to be related to the work that is left. With `Pending(l)` the uses of `l` by
gates that are not placed, `CounterInv` says that the counter of a gate
is the number of its pending uses, or -1 if it has been queued after being
counted down; `QueuedInv`, `OnceInv`, `ReadyInv` and `PlacedInv` say that
exactly the gates with nothing pending are in the queue, once, or placed. That
the empty queue means all gates are placed (`EmptyQueue`) takes the greatest
gate that is not placed: all its users are placed, so it would be queued.
Both, and `HeightsAlwaysMatch`, assume `DistinctPOs`: a gate that drives two
outputs is pushed twice by the code. `RowsNeverOverfull` does not need it.

Two more are sums. `RowsHoldAlways`: the density of a row is the width of the
gates placed in it, as a pass clears the rows and every gate is placed once
(`OnceInv`), so its width is never added twice. `FanoutsAlwaysKnown` takes
`FanoutInv`: `dp_fanouts` of a gate holds each placed user once for each of its
candidates; what is queued has no pending user, so all its users are placed and
none is missing. Both assume `DistinctPOs` as well.

`SearchFindsChosenRow` is about `RowSearch`, for every floorplan and without
`DistinctPOs`: the loop, round by round, ends with the row `IsChosenRow` describes.
Only the types are needed of the state. The loop is a recursive function on the
offsets; that there is one (`LoopExists`) and only one (`LoopType`) follows from
`NextTurn`, as every round goes on to a later turn. `LoopInv` is what the loop
knows at an offset: no row of an earlier turn was dearer than one with room before
it, and the row taken is the last with room. `LoopStops` shows that a dearer row
ends exactly what is reached, `LoopRound` that a round which skips one side, or
ends for want of rows on both, has left out no row.

*`RowHeightAssignmentProofs`.* The inductive invariant `IInv` says for each loop
that all windows of the wanted length that begin before `i` contain a pair of
the wanted height, and for the second loop that the promise of the first still
holds. `RoundMakesDense` is one round: a window that begins in the part jumped
over contains the changed pair because the middle of a run is less than
`density` pairs from `i`. `RoundKeepsDense` shows why the second loop cannot
reopen a gap when it only breaks runs of three or more: the pair it changes
keeps a neighbour of the old height on both sides. When `density_8T` is 2 it may open
one, but by a single pair (`RoundNearlyDense`): the pair before the one it changes is
still 12T, and the pairs ahead are untouched.
`Density12Kept` therefore has two halves, the promise for `density_8T` of -1, or of at
least 3 with a `density_12T` of at least 2, and one pair more for any `density_8T` but
1, which leaves no 12T pair at all. `Density12` and `Density8`
follow, and `PairsStayWhole`. `BothHeightsLeft` takes a second invariant,
`BothInv`: when no density is 1 a loop breaks up runs of two or more pairs only,
and the pair in front of the one it changes keeps the old height.

For `OldRowHeights`, in the same module, `PairsOfChosen`: for every number of rows
and every score the 12T rows are the chosen rows and their partners. `OldInv` says
of each row whether it is decided: the rows before the index, and the partner of
the last of them when the counter is odd. Decided rows are 12T exactly if they or
their partners were chosen (`IsTouched`), the others exactly if they were chosen
themselves. What carries it over a round is that `sum` has the parity of `i`
(`RoundPaired`), which is why it must survive a repair. `OldOptions` states for
these theorems what `OptionsAssumption` of `OldRowHeights` says.

*`RowClustersProofs`.* `RowsAreLegal` and `UndisturbedRowsStay` are about the
clusters as sets of gates, for every row, order of placing and exchange of cells.
`IInv` says that the clusters `do_placeat` is not at work on are ordered and do not
touch (`SettledApart`). Not touching goes on transitively (`ApartGoesOn`) and two
clusters touch on one side at most (`TouchesOneSide`), which is not evident, as a
cluster held at an end of the row is compared by where it is held and not by
where it wants to be. The cluster with the new gate is the difficulty: the gate
may lie between two gates of another cluster, so the two are not ordered at all
until they are merged. `RootOrdered` allows this while the cluster is the gate
alone and nothing has been merged from the left, and `RightPassed` says what the
search to the right has achieved when the search to the left begins, and what a
merge on the left takes back: the flag sends the loop to the right again.
`RootSettles` is the end of the two searches: a cluster that touches none of its
neighbours is apart from all clusters, and a gate inside another cluster always
touches it on one side. `UndisturbedRowsStay` takes a second invariant, `Singles`:
gates that are apart where they came from never touch, so they are never merged.
They assume `CellsAssumption` only, nothing of where the positions lie. That the
trees implement these sets is for TLC.

*`DelaySolveProofs`.* `IInv` relates the stack, the table and the timer: the
gates below the top of the stack wait for a leaf; only the top may have a trial
cell in the timer (`OneTrial`), and its leaves are solved; whatever is bound has
been tried. `SolveIsComplete` is again an argument by the greatest element: the
greatest gate that is not solved drives an output or is read by a solved gate,
whose leaves were solved before it (`ReachableAssumption`). `DelaysAreOwn` and
`OfferedAlike` say what a comparison of two delays of a gate is worth: they
were read behind the same arrivals, whatever the order of candidates and calls.
`DelaysAreFresh` adds that these arrivals are those of the placed cells. It needs
two more facts: `ConeKept`, an arrival never loses or gains a gate it depends on,
and `SolvedFresh`, the arrival behind a solved gate was propagated in this solve,
since a gate with a choice of cells is left bound to another one before its
placed cell is bound again (`BoundTried`). A gate with a single candidate has no
such step, hence the condition on the gates on the way.

*`OldSolverProofs`, the selection.* `SelectionInv` says that the elements are
pairwise incomparable, that no element in front of `ii` is comparable to the new
value, and that every choice added so far is either in an element or beaten by
one. `Erase` and `Reject` exclude each other for one value by transitivity, so an
element that was removed is never missed. `ElementsIncomparable` and
`SelectsTheFront` follow. `SelectionServes` links the two modules: given the areas
and delays of all choices for a cut, what the selection returns is the set
`ParetoChoices` with which `Solve` of `OldSolver` continues.

*`OldSolverProofs`, the solver.* The inductive invariant of `dp_solve_rec` is
`SolveInv`, for runs without remapping (`MappedInv`): with it the arrivals change
between the entries, and the cache breaks the front (`old_cache`). An entry that is
calculated has its leaves calculated (`LeavesSolved`), and a calculated entry never
changes again; so what it was computed from is still there, and its delays stay
right although the table around it grows (`EntryStays`). `CacheInv` says the same of
what is cached, for the candidate that has filled the cache, and `CallInv` that a
call in progress has read the present arrivals. The difficulty is the cache: a list
that was computed for one candidate is given to another one with the same leaves, a
different area and none of the first one's delays. It fits because the area of the
cell itself is the same in all choices (`AreaShift`), so the order of the choices
does not depend on it, and because the critical node, its cell and the place in its
list that are cached find the delay again (`IsCritical`, `CriticalOf`). Behind inputs
the measured delay stands in front (`NumMeasured`). That a front exists below every
choice (`FrontExists`) is an argument by a smallest set of choices without one.
`KeptFronts` follows, and `PickedSmallest` with what a call of the back propagation
has selected: of two kept choices the slower one is never the larger one.

The invariant of the back propagation, `BackInv`, says nothing of what the table
holds, and so covers remapping as well: what it is asked for may be the name of a
cell for another node, and the run then ends as the code leaves it undefined.
`VisitInv`: a call in progress works for a candidate of its gate and has selected
one of its choices. `CoverInv` adds for each cell that was asked for, and each gate
it reads, that this gate was asked on its behalf or that a call on the stack is
still to come to it (`Covers`). A gate is not visited again for the same parent,
though perhaps for another cell of it; `Covers` survives this as `node_parent_map`
has the parent. The cell a list began with was asked for by nobody, and is
excepted. `VisitsAreComplete` is what is left of it when the stack is empty. It says
that gates are visited, not that every cell asked for is noted: a second request
from the same parent is dropped by the code.

*`NetlistRemapProofs`.* A net is the pins of the remapped gate and all others
(`OtherPins`, `OwnPins`); the others do not depend on the cell of the gate, and
for the gate's own pins the cases of `Edited` (renamed, dropped, kept, new) are
those of a net in or not in the old and the new cut (`EditedNet`, `KeptNet`).
`AllConnected`: every pin of the edited table exists in the timer. `TableExact`,
`TimerExact` and `Local` follow.

Only model-checked:

* *Liveness*: `Terminates` and `SolvesEnd`; the prover does not reason about
  `ENABLED`.
* *Recursion*: `SumsExact` and `ImplementsRow` of `ClusterTreaps` are about
  `RECURSIVE` operators on trees, which the prover does not handle. `LegalRow` and
  `LegalRowStays` are proved for `RowClusters`; that they hold of the trees follows
  with `ImplementsRow`, which is checked on its instance.
* *`SomethingSelected`* and *`ChoicesOfLeaves`* of `OldSolver` do not hold
  (`old_selected`, `old_cache`). Without remapping the latter is part of
  `KeepsTheFront`.
* *With remapping* nothing is proved of the contents of the table: `KeepsTheFront` and
  `SmallestInTime` are stated for runs without it.

## 5. Assumptions and limits

* Cells lie on rows (`CellsAssumption` of `Legalizer`): otherwise `row_index` stays
  -1 and indexes the tables. `row_width` is the width of the first row, and
  `LegalResult` speaks of rows that are not overfull.
* `chosen_top_K` is at most the number of rows or pairs, densities are positive
  (or -1 for 8T): the code checks neither.
* No gate drives two outputs in the theorems on `BackPropagation` that say so
  (`DistinctPOs`), nor in its instance; the current cell of a gate is among its candidates.
* Positions read are on the die (`DieAssumption` of `ClusterTreaps`).
  `LegalRow` is stated for gates that differ in x or width (`DistinctKeys`):
  `do_placeat` looks for the left neighbour with the id 0, passes over a gate with
  the same x and width, and may leave the two on top of each other.
* `DelaySolve`: every gate is reachable from an output, as `topo_view` gives them
  (`ReachableAssumption`); the timer is up to date when the table is built
  (`FirstArrivalAssumption`). The delay of the mapped cell of a gate that was
  moved to the other height is read from the arrivals of before (`Misread`);
  `LikeWithLike` and `FreshDelays` except it.
* `OldSolver`: every table has an entry (`Init`), gates behind inputs have candidates
  behind inputs only (`InputAssumption`), arrivals ascend (`TimerAssumption`), every
  cell reads a node (`NetworkAssumption`). The code relies on these and checks none.
  Areas, arrivals, measured delays and required times are integers. A run in which
  an input or the constant 1 drives an output ends in "undefined" when the back
  propagation comes to it, so what the solver does behind that is not shown; no
  instance has such an output. That delays taken from the cache are stale after a
  net in front was rebuilt is in the model, and no property denies it.
* `NetlistRemap`: outputs are driven by gates (`NameAssumption`), input pins are
  not named like output pins, a cell reads each node once.
* Floating point is exact in all models and integers have no bound: that
  `area_slack` drifts away from the area of the cells, or that an `int` overflows, they
  do not show. Orders of hash tables are open.

Not modelled:

* *Dead code.* In `new_dpsolver.cpp` the other scorings and `reassign_height`
  (2148-2490), `New_dp_solve_rec`, `New_dp_back_propagation_rec` and what only they
  call; in `row_base.cpp` everything behind the return at 802 (scoring, k-means);
  in `dp_solver.cpp` `back_propagation`, `dp_back_propagation_intuitive`; in
  `util.cpp` `pareto_solution_select`, `solution_select_by_delay`,
  `dp_table_gate_pruning`; `buildTopo_test` and `buildTopo_global`;
  `resynthesis.cpp` and `abacus/main.cpp`, which are commented out.
* *Input and output without logic of its own.* The driver, the readers of DEF, LEF
  and JSON, the result writer, the reports, the scripts.
* *Numbers.* Wire lengths, Steiner and RC trees, loads, slews; the mapping of cut
  functions to library cells, which mockturtle does. They are choices or
  constants of the models.
* *Vendored code.* OpenTimer, mockturtle, flute, nauty and the JSON libraries make
  up about 550 thousand of 560 thousand lines of the repository. The models
  cover what the program itself adds, about eight thousand lines of which a good
  part is dead; a share of the whole repository says nothing about them.

## 6. What could come next

* `BackPropagation` with `ClusterTreaps` in every row, to relate the x positions
  to the rows that are chosen.
