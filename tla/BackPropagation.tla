---------------------------- MODULE BackPropagation ----------------------------
(***************************************************************************)
(* The iterations of the new solver (src/src/new_dpsolver.cpp): passes     *)
(* that win area ("slack") alternate with passes that spend it to repair   *)
(* timing ("tight").  A pass (New_dp_back_propagation) walks the network   *)
(* from the outputs to the inputs with a queue and a counter per node;     *)
(* for every gate it may exchange the cell for another candidate and it    *)
(* puts the gate in a row of the height of its cell.                       *)
(*                                                                         *)
(* One step of a pass is one call of New_dp_back_propagation_iteration_rec.*)
(*                                                                         *)
(* Abstractions: the timer is a choice, namely which candidates pass the   *)
(* tests on delays, required times and thresholds and which of the two     *)
(* best ratios is the better one.  New_init_dp_table keeps only cuts with  *)
(* the leaves of the original gate, so the leaves belong to the node and   *)
(* not to the candidate.  The order in which a step pushes several leaves  *)
(* is left open.  Areas are integers.                                      *)
(***************************************************************************)
EXTENDS Integers, Sequences, FiniteSets, SequencesExt

CONSTANTS
  NumNodes,     \* size of the network: constants, inputs and gates
  Gates,        \* its gates
  Leaves,       \* Leaves[n]: the nodes a gate reads
  POs,          \* the driver of each output, in order
  Cells,        \* the cells of the library
  Candidates,   \* Candidates[n]: the cells in dp_table[n]
  Area, Width,  \* of each cell
  Height,       \* of each cell, "8T" or "12T"
  Y,            \* the row each gate was placed in by the input
  Rows,         \* Rows[h]: the rows of height h in increasing order
  Tolerance,    \* Tolerance[h]: the displacement a changed gate may add
  max_x_length, \* the width of a row
  AreaSlacks,   \* the area slacks the user may ask for
  Iterations    \* iteration_rowheight: the number of iterations

Heights == {"8T", "12T"}

Nodes == 0 .. NumNodes - 1

\* Node 0 is a constant, and the nodes are numbered from inputs to outputs.
ASSUME NetworkAssumption ==
  /\ NumNodes \in Nat
  /\ Gates \subseteq Nodes \ {0}
  /\ Leaves \in [Gates -> SUBSET Nodes]
  /\ \A n \in Gates : \A l \in Leaves[n] : l < n
  /\ POs \in Seq(Nodes)

\* topo_view only sees what an output can reach.
ASSUME ReachableAssumption ==
  \A l \in Gates :
    \/ \E n \in Gates : l \in Leaves[n]
    \/ \E i \in DOMAIN POs : POs[i] = l

ASSUME LibraryAssumption ==
  /\ IsFiniteSet(Cells)
  /\ Candidates \in [Gates -> (SUBSET Cells) \ {{}}]
  /\ Area \in [Cells -> Nat \ {0}]
  /\ Width \in [Cells -> Nat \ {0}]
  /\ Height \in [Cells -> Heights]

ASSUME FloorplanAssumption ==
  /\ Y \in [Gates -> Int]
  /\ Rows \in [Heights -> Seq(Int) \ {<<>>}]
  /\ Tolerance \in [Heights -> Nat]
  /\ max_x_length \in Nat
  /\ AreaSlacks \subseteq Int
  /\ Iterations \in Nat

AllRows == ToSet(Rows["8T"]) \cup ToSet(Rows["12T"])

VARIABLES
  status,           \* "idle", "pass", "crashed" or "done"
  iter_rowheight,   \* iterations left
  phase,            \* "tight" or "slack"
  area_slack,       \* area that may still be spent
  cell_type,        \* the cell of each gate
  final_y,          \* treapnode::final_y, the row of each gate
  row_density_map,  \* width placed in each row
  placed,           \* the gates in the rows (treaps::nodes)
  dp_iter_map,      \* the counter of each node
  dp_fanouts,       \* the users of each gate that have been placed
  res_nodes         \* the queue

passVars == <<final_y, row_density_map, placed, dp_iter_map, dp_fanouts,
              res_nodes>>
vars == <<status, iter_rowheight, phase, area_slack, cell_type, final_y,
          row_density_map, placed, dp_iter_map, dp_fanouts, res_nodes>>

Init ==
  /\ status = "idle"
  /\ iter_rowheight = Iterations
  /\ phase = "tight"
  /\ area_slack \in AreaSlacks
  /\ cell_type \in {f \in [Gates -> Cells] : \A n \in Gates : f[n] \in Candidates[n]}
  /\ final_y = [n \in Gates |-> 0]
  /\ row_density_map = [r \in AllRows |-> 0]
  /\ placed = {}
  /\ dp_iter_map = [l \in Nodes |-> 0]
  /\ dp_fanouts = [l \in Gates |-> <<>>]
  /\ res_nodes = <<>>

-----------------------------------------------------------------------------
(***************************************************************************)
(* The iterations: iteration_rowheight and the head of a pass              *)
(***************************************************************************)

NextPhase == IF phase = "tight" THEN "slack" ELSE "tight"

\* There is nothing to win once the area fits, and nothing to spend before;
\* the last iteration runs a tight pass all the same.
Skipped ==
  \/ NextPhase = "slack" /\ area_slack >= 0
  \/ NextPhase = "tight" /\ area_slack <= 0 /\ iter_rowheight # 1

\* Mutants: no end of the iterations is tested; they are not counted.
NextIterationEndless ==
  /\ status = "idle"
  /\ iter_rowheight' = iter_rowheight - 1
  /\ phase' = NextPhase

NextIterationUncounted ==
  /\ status = "idle"
  /\ iter_rowheight > 0
  /\ iter_rowheight' = iter_rowheight
  /\ phase' = NextPhase

NextIteration ==
  /\ status = "idle"
  /\ iter_rowheight > 0
  /\ iter_rowheight' = iter_rowheight - 1
  /\ phase' = NextPhase

SkipPass ==
  /\ NextIteration
  /\ Skipped
  /\ UNCHANGED <<status, area_slack, cell_type, passVars>>

\* Mutant: a node is counted once for every gate that reads it.
UsesOncePerGate(l) ==
  {u \in Gates \X Cells :
     l \in Leaves[u[1]] /\ u[2] = CHOOSE g \in Candidates[u[1]] : TRUE}

\* A node is counted once for every candidate of every gate that reads it.
Uses(l) == {u \in Gates \X Cells : l \in Leaves[u[1]] /\ u[2] \in Candidates[u[1]]}

\* Only the counters of gates are cleared before they are counted up again.
Counted ==
  [l \in Nodes |->
     (IF l \in Gates THEN 0 ELSE dp_iter_map[l]) + Cardinality(Uses(l))]

\* An output that drives constant 0 is left out, as is one with users.
IsRoot(o) == o # 0 /\ Counted[o] = 0

\* The roots go to the queue in the order of the outputs they drive.
IncreasingSeqs(S) ==
  {s \in SetToSeqs(S) : \A i, j \in DOMAIN s : i < j => s[i] < s[j]}

RootQueues ==
  {[i \in DOMAIN s |-> POs[s[i]]] :
     s \in IncreasingSeqs({i \in DOMAIN POs : IsRoot(POs[i])})}

\* Mutant: the rows are not emptied.
StartPassInFullRows ==
  /\ NextIteration
  /\ ~Skipped
  /\ status' = "pass"
  /\ placed' = {}
  /\ final_y' = [n \in Gates |-> 0]
  /\ dp_fanouts' = [l \in Gates |-> <<>>]
  /\ dp_iter_map' = Counted
  /\ res_nodes' \in RootQueues
  /\ UNCHANGED <<area_slack, cell_type, row_density_map>>

StartPass ==
  /\ NextIteration
  /\ ~Skipped
  /\ status' = "pass"
  /\ placed' = {}
  /\ row_density_map' = [r \in AllRows |-> 0]
  /\ final_y' = [n \in Gates |-> 0]
  /\ dp_fanouts' = [l \in Gates |-> <<>>]
  /\ dp_iter_map' = Counted
  /\ res_nodes' \in RootQueues
  /\ UNCHANGED <<area_slack, cell_type>>

EndPass ==
  /\ status = "pass"
  /\ res_nodes = <<>>
  /\ status' = "idle"
  /\ UNCHANGED <<iter_rowheight, phase, area_slack, cell_type, passVars>>

\* New_dp_solve goes on with the treaps of the last pass.  The head of a pass
\* creates them, so that there is none when every pass was skipped; a pass
\* that ended has placed a gate if there is one.
Finish ==
  /\ status = "idle"
  /\ iter_rowheight = 0
  /\ status' = IF placed = {} /\ Gates # {} THEN "crashed" ELSE "done"
  /\ UNCHANGED <<iter_rowheight, phase, area_slack, cell_type, passVars>>

-----------------------------------------------------------------------------
(***************************************************************************)
(* Choosing a cell and a row for gate n                                    *)
(***************************************************************************)

Abs(i) == IF i < 0 THEN -i ELSE i

\* calculate_dy: the vertical distance of row y to what n reads and to what
\* reads n; an input has no treapnode and counts with y itself.
DyFanin(n, y) ==
  MapThenSumSet(LAMBDA l : IF l \in Gates THEN Abs(Y[l] - y) ELSE y, Leaves[n])

DyFanout(n, y) ==
  MapThenSumSet(LAMBDA i : Abs(final_y[dp_fanouts[n][i]] - y),
                DOMAIN dp_fanouts[n])

HasRoom(g, y) == row_density_map[y] + Width[g] <= max_x_length

\* A row will do for a changed gate unless it is farther from both sides.
GoodRow(n, g, y) ==
  /\ HasRoom(g, y)
  /\ \/ DyFanin(n, Y[n]) + Tolerance[Height[g]] >= DyFanin(n, y)
     \/ DyFanout(n, Y[n]) + Tolerance[Height[g]] >= DyFanout(n, y)

\* Mutant: any area left will do for a larger cell.
AffordableOnce(n, g) ==
  \/ phase = "slack" /\ Area[g] < Area[cell_type[n]] /\ area_slack < 0
  \/ phase = "tight" /\ Area[g] > Area[cell_type[n]] /\ area_slack > 0

\* The candidates the area allows: smaller ones while the area slack is
\* negative in a slack pass, larger ones it can pay for in a tight one.
Affordable(n, g) ==
  \/ /\ phase = "slack"
     /\ Area[g] < Area[cell_type[n]]
     /\ area_slack < 0
  \/ /\ phase = "tight"
     /\ Area[g] > Area[cell_type[n]]
     /\ Area[g] - Area[cell_type[n]] <= area_slack

\* test_gate: at most one affordable candidate of each height.
TestGates(n) ==
  LET S == {g \in Candidates[n] : Affordable(n, g)}
  IN {<<>>} \cup {<<g>> : g \in S}
       \cup {t \in S \X S : Height[t[1]] # Height[t[2]]}

HasGoodRow(n, g) == \E y \in ToSet(Rows[Height[g]]) : GoodRow(n, g, y)

\* The first test gate with a good row, otherwise the cell it has.
ChosenGate(n, test) ==
  LET good == {i \in DOMAIN test : HasGoodRow(n, test[i])}
  IN IF good = {} THEN cell_type[n] ELSE test[Min(good)]

\* The search for a row starts at index o and goes left and right of it in
\* turn: o, o-1, o+1, o-2, ...; Turn numbers the indices in that order.
\* (RowSearch follows the loop step by step.)
Origin(n, rows) ==
  LET at == {i \in DOMAIN rows : rows[i] >= Y[n]}
  IN IF at = {} THEN Len(rows) ELSE Min(at)

Turn(o, i) == IF i < o THEN 2 * (o - i) - 1 ELSE 2 * (i - o)

Cost(n, y) == DyFanin(n, y) + DyFanout(n, y)

\* Mutant: the search ends at the first row without room.
ReachedUntilFull(n, g, rows, i) ==
  LET turn(j) == Turn(Origin(n, rows), j)
  IN \A p \in DOMAIN rows : turn(p) <= turn(i) => HasRoom(g, rows[p])

\* The search takes every row with room until it meets a row, with room or
\* not, that costs more than one it has taken; the last one taken is used.
Reached(n, g, rows, i) ==
  LET turn(j) == Turn(Origin(n, rows), j)
  IN \A p, j \in DOMAIN rows :
       turn(j) < turn(p) /\ turn(p) <= turn(i) /\ HasRoom(g, rows[j])
         => Cost(n, rows[p]) <= Cost(n, rows[j])

\* Mutant: the rows of the cell the gate had are searched.
IsChosenOldRow(n, g, y) ==
  LET rows == Rows[Height[cell_type[n]]]
      taken == {i \in DOMAIN rows : HasRoom(g, rows[i]) /\ Reached(n, g, rows, i)}
  IN \E i \in taken :
       /\ y = rows[i]
       /\ \A j \in taken : Turn(Origin(n, rows), j) <= Turn(Origin(n, rows), i)

IsChosenRow(n, g, y) ==
  LET rows == Rows[Height[g]]
      taken == {i \in DOMAIN rows : HasRoom(g, rows[i]) /\ Reached(n, g, rows, i)}
  IN \E i \in taken :
       /\ y = rows[i]
       /\ \A j \in taken : Turn(Origin(n, rows), j) <= Turn(Origin(n, rows), i)

-----------------------------------------------------------------------------
(***************************************************************************)
(* One gate: New_dp_back_propagation_iteration_rec                         *)
(***************************************************************************)

Dequeue(n) ==
  /\ status = "pass"
  /\ res_nodes # <<>>
  /\ n = Head(res_nodes)

SkipInput(n) ==
  /\ Dequeue(n)
  /\ n \notin Gates
  /\ res_nodes' = Tail(res_nodes)
  /\ UNCHANGED <<status, iter_rowheight, phase, area_slack, cell_type, final_y,
                 row_density_map, placed, dp_iter_map, dp_fanouts>>

\* The area is paid and the cell exchanged before a row is looked for.
Exchange(n, g) ==
  /\ area_slack' = area_slack + Area[cell_type[n]] - Area[g]
  /\ cell_type' = [cell_type EXCEPT ![n] = g]

\* Mutant: the counter is tested before it goes down.
ReadyLeavesLate(n) ==
  {l \in Leaves[n] : dp_iter_map[l] \in 0 .. Cardinality(Candidates[n]) - 1}

\* The counter of every leaf goes down once per candidate; when it meets
\* zero it is taken one further, so that the leaf is queued only once.
ReadyLeaves(n) ==
  {l \in Leaves[n] : dp_iter_map[l] \in 1 .. Cardinality(Candidates[n])}

CountDown(n) ==
  dp_iter_map' = [l \in Nodes |->
    IF l \notin Leaves[n] THEN dp_iter_map[l]
    ELSE dp_iter_map[l] - Cardinality(Candidates[n])
           - (IF l \in ReadyLeaves(n) THEN 1 ELSE 0)]

PlaceGate(n, g, y) ==
  /\ Exchange(n, g)
  /\ final_y' = [final_y EXCEPT ![n] = y]
  /\ row_density_map' = [row_density_map EXCEPT ![y] = @ + Width[g]]
  /\ placed' = placed \cup {n}
  /\ dp_fanouts' = [l \in Gates |->
       IF l \in Leaves[n]
       THEN dp_fanouts[l] \o [i \in 1 .. Cardinality(Candidates[n]) |-> n]
       ELSE dp_fanouts[l]]
  /\ CountDown(n)
  /\ \E order \in SetToSeqs(ReadyLeaves(n)) :
       res_nodes' = Tail(res_nodes) \o order
  /\ UNCHANGED <<status, iter_rowheight, phase>>

ProcessGate(n, test) ==
  /\ Dequeue(n)
  /\ n \in Gates
  /\ \E y \in AllRows :
       /\ IsChosenRow(n, ChosenGate(n, test), y)
       /\ PlaceGate(n, ChosenGate(n, test), y)

\* Without a row the code goes on with row -1, which has no treap.
Crash(n, test) ==
  /\ Dequeue(n)
  /\ n \in Gates
  /\ \A y \in AllRows : ~IsChosenRow(n, ChosenGate(n, test), y)
  /\ Exchange(n, ChosenGate(n, test))
  /\ final_y' = [final_y EXCEPT ![n] = -1]
  /\ status' = "crashed"
  /\ UNCHANGED <<iter_rowheight, phase, row_density_map, placed, dp_iter_map,
                 dp_fanouts, res_nodes>>

Stop == status \in {"crashed", "done"} /\ UNCHANGED vars

Next ==
  \/ SkipPass
  \/ StartPass
  \/ EndPass
  \/ Finish
  \/ \E n \in Nodes : SkipInput(n)
  \/ \E n \in Gates : \E test \in TestGates(n) : ProcessGate(n, test)
  \/ \E n \in Gates : \E test \in TestGates(n) : Crash(n, test)
  \/ Stop

\* The program is one sequential loop that nothing can hold up.
Spec == Init /\ [][Next]_vars /\ WF_vars(Next)

-----------------------------------------------------------------------------
(***************************************************************************)
(* Properties                                                              *)
(***************************************************************************)

\* The variables have the types of the globals of NewDPSolver.
TypeOK ==
  /\ status \in {"idle", "pass", "crashed", "done"}
  /\ iter_rowheight \in 0 .. Iterations
  /\ phase \in {"tight", "slack"}
  /\ area_slack \in Int
  /\ cell_type \in [Gates -> Cells]
  /\ \A n \in Gates : cell_type[n] \in Candidates[n]
  /\ final_y \in [Gates -> AllRows \cup {0, -1}]
  /\ row_density_map \in [AllRows -> Nat]
  /\ placed \subseteq Gates
  /\ dp_iter_map \in [Nodes -> Int]
  /\ dp_fanouts \in [Gates -> Seq(Gates)]
  /\ res_nodes \in Seq(Nodes)

\* A gate that drives two outputs is queued twice by a pass.
DistinctPOs == \A i, j \in DOMAIN POs : i # j => POs[i] # POs[j]

\* The gates that read the output of l.
UsersOf(l) == {n \in Gates : l \in Leaves[n]}

(***************************************************************************)
(* row_density_map is what both searches for a row go by, and the cell of  *)
(* a gate may change several times over the iterations.  During a pass it  *)
(* is at every moment the width of the cells the row holds, so that no row *)
(* is ever filled beyond its end.                                          *)
(***************************************************************************)
DensityIsExact ==
  \A r \in AllRows :
    row_density_map[r] = MapThenSumSet(LAMBDA n : Width[cell_type[n]],
                                       {n \in placed : final_y[n] = r})

NoRowOverfull == \A r \in AllRows : row_density_map[r] <= max_x_length

RowsHold == DensityIsExact /\ NoRowOverfull

(***************************************************************************)
(* Mixed row heights: a cell never stands in a row of the other height,    *)
(* although the row that made an exchange acceptable is not the row the    *)
(* gate is put in.                                                         *)
(***************************************************************************)
HeightsMatch ==
  \A n \in placed : final_y[n] \in ToSet(Rows[Height[cell_type[n]]])

(***************************************************************************)
(* A counter per leaf, counted up over all candidates, counted down over   *)
(* all candidates and never recomputed, decides when a gate is ready.      *)
(* When a gate is taken from the queue every user has its row and is in    *)
(* dp_fanouts as often as it was counted, so that calculate_dy never reads *)
(* the final_y = 0 of a gate that has no row yet.                          *)
(***************************************************************************)
FanoutsKnown ==
  status = "pass" => \A i \in DOMAIN res_nodes : res_nodes[i] \in Gates =>
    \A u \in UsersOf(res_nodes[i]) :
      /\ u \in placed
      /\ Cardinality({k \in DOMAIN dp_fanouts[res_nodes[i]] :
                        dp_fanouts[res_nodes[i]][k] = u})
           = Cardinality(Candidates[u])

(***************************************************************************)
(* A pass that runs out of work has placed every gate - no counter is left *)
(* above zero, in the first pass or in a later one -, and no design is     *)
(* written before a pass has done so, although passes are skipped.         *)
(***************************************************************************)
PassComplete ==
  \/ status = "pass" /\ res_nodes = <<>>
  \/ status = "done"
    => placed = Gates

(***************************************************************************)
(* The area budget.  A design that is within its budget stays within it,   *)
(* whatever is exchanged; one that is over budget never gets worse.  The   *)
(* test and the payment are apart: a candidate is tested before the other  *)
(* gates of the pass have spent what it counts on.                         *)
(***************************************************************************)
BudgetStep ==
  /\ area_slack >= 0 => area_slack' >= 0
  /\ area_slack < 0 => area_slack' >= area_slack

BudgetKept == [][BudgetStep]_vars

(***************************************************************************)
(* A pass only fails for a gate that fits in no row of its height, and     *)
(* never because of an exchange: the greedy search for a row cannot miss   *)
(* the row that was found when the exchange was tested.                    *)
(***************************************************************************)
CrashStep ==
  status = "pass" /\ status' = "crashed" =>
    /\ cell_type' = cell_type
    /\ \A y \in ToSet(Rows[Height[cell_type[Head(res_nodes)]]]) :
         ~HasRoom(cell_type[Head(res_nodes)], y)

CrashesWhenFull == [][CrashStep]_vars

\* The iterations come to an end, or the program fails.
Terminates == <>(status \in {"crashed", "done"})

(***************************************************************************)
(* A pass implements ReverseTopological: the queue and the counters take   *)
(* every gate once, after its users, and nothing is left when the next     *)
(* pass begins.                                                            *)
(***************************************************************************)
Topo == INSTANCE ReverseTopological WITH Users <- [l \in Gates |-> UsersOf(l)]

ReverseTopologicalOrder == Topo!Spec
================================================================================
