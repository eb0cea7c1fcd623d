------------------------------ MODULE DelaySolve ------------------------------
(***************************************************************************)
(* How the new solver measures its candidates (src/src/new_dpsolver.cpp,   *)
(* New_dp_solve_iteration_rec).  The solver has one timer.  To learn the   *)
(* delay of a candidate it exchanges the cell of the gate in the timer,    *)
(* asks for the arrival time behind the gate and goes on to the next       *)
(* candidate; the cell that is placed comes last, so that it stays.  The   *)
(* gates are measured from the inputs to the outputs by a recursion that   *)
(* starts at the outputs; `stack' holds the gates of its calls.            *)
(*                                                                         *)
(* The timer does not propagate: convert_node_on_timer computes the        *)
(* arrival behind the gate it converts from the arrivals the timer has in  *)
(* store (Timer::update_at_pin), and a gate that is already bound to the   *)
(* cell is left alone.                                                     *)
(*                                                                         *)
(* Abstractions: an arrival time is represented by what it was computed    *)
(* from, that is by the cells each gate of the fanin cone had at the time; *)
(* the load that a gate puts on the gates it reads is left out.  The order *)
(* of the outputs, of the leaves and of the candidates (a hash table) is   *)
(* left open.  A pass of the back propagation, BackPropagation, only       *)
(* exchanges cells here.  Required times are a choice.                     *)
(***************************************************************************)
EXTENDS Integers, Sequences, FiniteSets

CONSTANTS
  NumNodes,     \* size of the network: constants, inputs and gates
  Gates,        \* its gates
  Leaves,       \* Leaves[n]: the nodes a gate reads
  POs,          \* the drivers of the outputs
  Cells,        \* the cells of the library
  Candidates,   \* Candidates[n]: the cells in dp_table[n]
  Area,         \* of each cell
  Height,       \* of each cell, "8T" or "12T"
  X1, X2,       \* the cells named _X1_ and _X2_
  Original,     \* Original[n]: the cell the mapper bound gate n to
  Assigned,     \* gateHeightAssignmentMap
  FirstArrival, \* the arrivals in store when the table is built
  Iterations    \* solves that are followed by a pass

ASSUME NetworkAssumption ==
  /\ NumNodes \in Nat
  /\ Gates \subseteq 1 .. NumNodes
  /\ Leaves \in [Gates -> SUBSET (0 .. NumNodes)]
  /\ \A n \in Gates : \A l \in Leaves[n] : l < n
  /\ POs \subseteq 0 .. NumNodes

\* topo_view only sees what an output can reach.
ASSUME ReachableAssumption ==
  \A l \in Gates : l \in POs \/ \E n \in Gates : l \in Leaves[n]

ASSUME LibraryAssumption ==
  /\ Candidates \in [Gates -> SUBSET Cells]
  /\ Original \in [Gates -> Cells]
  /\ \A n \in Gates : Original[n] \in Candidates[n]
  /\ Area \in [Cells -> Nat]
  /\ Height \in [Cells -> {"8T", "12T"}]
  /\ Assigned \in [Gates -> {"8T", "12T"}]
  /\ Iterations \in Nat

VARIABLES
  status,            \* "solve", "pass" or "done"
  stage,             \* "slack": win area, "tight": spend it
  iter_rowheight,    \* iterations left
  cell_type,         \* PlaceInfoMap: the cell of each gate in the placement
  node_to_gate_map,  \* the cell the solver thinks the timer has
  timer,             \* the cell the timer has
  arrival,           \* arrival[n][m]: the cells of m the arrival behind n saw
  delay_list,        \* delay_list[n][c]: the arrival that was read for c
  change_ratios,     \* the exchanges that are offered to the pass
  stack,             \* the gates of the calls in progress
  exchanged          \* the gates the pass has been at

vars == <<status, stage, iter_rowheight, cell_type, node_to_gate_map, timer, arrival,
          delay_list, change_ratios, stack, exchanged>>

-----------------------------------------------------------------------------
(***************************************************************************)
(* The timer                                                               *)
(***************************************************************************)

GateLeaves(n) == Leaves[n] \cap Gates

\* The arrival behind n as Timer::update_at_pin computes it from what is
\* stored for the gates that n reads.
Propagated(n, c, arr) ==
  [m \in Gates |->
     IF m = n THEN {c} ELSE UNION {arr[l][m] : l \in GateLeaves(n)}]

\* The timer was updated with the netlist of the mapper.
ASSUME FirstArrivalAssumption ==
  /\ FirstArrival \in [Gates -> [Gates -> SUBSET Cells]]
  /\ FirstArrival = [n \in Gates |-> Propagated(n, Original[n], FirstArrival)]

\* convert_node_on_timer: nothing happens to a gate that is bound to c.
Convert(n, c) ==
  IF node_to_gate_map[n] = c
  THEN UNCHANGED <<timer, node_to_gate_map, arrival>>
  ELSE /\ timer' = [timer EXCEPT ![n] = c]
       /\ node_to_gate_map' = [node_to_gate_map EXCEPT ![n] = c]
       /\ arrival' = [arrival EXCEPT ![n] = Propagated(n, c, arrival)]

-----------------------------------------------------------------------------
(***************************************************************************)
(* The table                                                               *)
(***************************************************************************)

\* The candidates New_init_dp_table may move a gate to that was assigned to
\* rows of the other height: of 8T only the smallest.
Adoptable(n) ==
  {c \in Candidates[n] : /\ Height[c] = Assigned[n]
                         /\ Height[c] # Height[Original[n]]
                         /\ Height[c] = "8T" => c \in X1}

\* Of 12T an _X2_ cell if there is one.
Adopted(n) ==
  LET preferred == {c \in Adoptable(n) : Height[c] = "12T" /\ c \in X2}
  IN IF Adoptable(n) = {} THEN {Original[n]}
     ELSE IF preferred = {} THEN Adoptable(n)
     ELSE preferred

NotCalculated == [m \in Gates |-> {}]

Calculated(n, c) == delay_list[n][c] # NotCalculated

Solved(n) == Calculated(n, cell_type[n])

\* The timer has read the netlist of the mapper and was updated; then every
\* gate is repowered with the cell it was moved to, and nothing is updated.
Init ==
  /\ status = "solve"
  /\ stage \in {"slack", "tight"}
  /\ iter_rowheight = Iterations
  /\ cell_type \in {f \in [Gates -> Cells] : \A n \in Gates : f[n] \in Adopted(n)}
  /\ node_to_gate_map = Original
  /\ timer = cell_type
  /\ arrival = FirstArrival
  /\ delay_list = [n \in Gates |-> [c \in Cells |-> NotCalculated]]
  /\ change_ratios = {}
  /\ stack = <<>>
  /\ exchanged = {}

-----------------------------------------------------------------------------
(***************************************************************************)
(* The recursion: New_dp_solve_iteration_rec                               *)
(***************************************************************************)

Top == stack[Len(stack)]

Inside(n) == stack # <<>> /\ n = Top

\* A call for an output; calls for inputs and solved gates return at once.
CallOutput ==
  /\ status = "solve"
  /\ stack = <<>>
  /\ \E o \in POs \cap Gates :
       /\ ~Solved(o)
       /\ stack' = <<o>>
  /\ UNCHANGED <<status, stage, iter_rowheight, cell_type, node_to_gate_map,
                 timer, arrival, delay_list, change_ratios, exchanged>>

LeavesSolved(n) == \A l \in GateLeaves(n) : Solved(l)

\* The gates a call reads are solved before it touches the timer.
CallLeaf ==
  /\ stack # <<>>
  /\ \E l \in GateLeaves(Top) :
       /\ ~Solved(l)
       /\ stack' = Append(stack, l)
  /\ UNCHANGED <<status, stage, iter_rowheight, cell_type, node_to_gate_map,
                 timer, arrival, delay_list, change_ratios, exchanged>>

\* convert_node_on_timer, report_at: nothing is left for report_at to
\* propagate, so it reads what is in store.
Measure(n, c) ==
  /\ Convert(n, c)
  /\ delay_list' = [delay_list EXCEPT ![n][c] = arrival'[n]]

\* Mutant: the leaves are solved only when the gate has been measured.
MeasureOtherEarly ==
  /\ stack # <<>>
  /\ \E c \in Candidates[Top] \ {cell_type[Top]} :
       /\ ~Calculated(Top, c)
       /\ Measure(Top, c)
  /\ UNCHANGED <<status, stage, iter_rowheight, cell_type, change_ratios,
                 stack, exchanged>>

MeasureOther ==
  /\ stack # <<>>
  /\ LeavesSolved(Top)
  /\ \E c \in Candidates[Top] \ {cell_type[Top]} :
       /\ ~Calculated(Top, c)
       /\ Measure(Top, c)
  /\ UNCHANGED <<status, stage, iter_rowheight, cell_type, change_ratios,
                 stack, exchanged>>

\* The exchanges that win or spend area at gate n.
Exchanges(n) ==
  {c \in Candidates[n] :
     IF stage = "slack" THEN Area[c] < Area[cell_type[n]]
                        ELSE Area[c] > Area[cell_type[n]]}

\* Mutant: the call does not return.
MeasurePlacedAgain ==
  /\ stack # <<>>
  /\ LeavesSolved(Top)
  /\ \A c \in Candidates[Top] \ {cell_type[Top]} : Calculated(Top, c)
  /\ Measure(Top, cell_type[Top])
  /\ UNCHANGED <<status, stage, iter_rowheight, cell_type, change_ratios,
                 stack, exchanged>>

\* Mutant: the call returns while candidates have not been measured.
MeasurePlacedEarly ==
  /\ stack # <<>>
  /\ LeavesSolved(Top)
  /\ Measure(Top, cell_type[Top])
  /\ \E offered \in {{}, Exchanges(Top)} :
       change_ratios' = change_ratios \cup ({Top} \X offered)
  /\ stack' = SubSeq(stack, 1, Len(stack) - 1)
  /\ UNCHANGED <<status, stage, iter_rowheight, cell_type, exchanged>>

\* The cell that is placed is measured last.  Whether the gate has slack
\* enough (or too little) for its exchanges to be offered is the timer's.
MeasurePlaced ==
  /\ stack # <<>>
  /\ LeavesSolved(Top)
  /\ \A c \in Candidates[Top] \ {cell_type[Top]} : Calculated(Top, c)
  /\ Measure(Top, cell_type[Top])
  /\ \E offered \in {{}, Exchanges(Top)} :
       change_ratios' = change_ratios \cup ({Top} \X offered)
  /\ stack' = SubSeq(stack, 1, Len(stack) - 1)
  /\ UNCHANGED <<status, stage, iter_rowheight, cell_type, exchanged>>

-----------------------------------------------------------------------------
(***************************************************************************)
(* The iterations                                                          *)
(***************************************************************************)

BeginPass ==
  /\ status = "solve"
  /\ stack = <<>>
  /\ \A o \in POs \cap Gates : Solved(o)
  /\ status' = "pass"
  /\ exchanged' = {}
  /\ UNCHANGED <<stage, iter_rowheight, cell_type, node_to_gate_map, timer,
                 arrival, delay_list, change_ratios, stack>>

Users(n) == {u \in Gates : n \in Leaves[u]}

\* New_dp_back_propagation_iteration_rec, as far as the timer sees it.
Exchange(n) ==
  /\ status = "pass"
  /\ n \notin exchanged
  /\ Users(n) \subseteq exchanged
  /\ \E c \in {cell_type[n]} \cup Exchanges(n) :
       /\ cell_type' = [cell_type EXCEPT ![n] = c]
       /\ Convert(n, c)
  /\ exchanged' = exchanged \cup {n}
  /\ UNCHANGED <<status, stage, iter_rowheight, delay_list, change_ratios, stack>>

\* Mutant: what was measured in the last solve is kept.
NextIterationKept ==
  /\ status = "pass"
  /\ exchanged = Gates
  /\ iter_rowheight > 0
  /\ status' = "solve"
  /\ stage' \in {"slack", "tight"}
  /\ iter_rowheight' = iter_rowheight - 1
  /\ change_ratios' = {}
  /\ UNCHANGED <<cell_type, node_to_gate_map, timer, arrival, delay_list,
                 stack, exchanged>>

\* Every candidate of every gate is to be measured again.
NextIteration ==
  /\ status = "pass"
  /\ exchanged = Gates
  /\ iter_rowheight > 0
  /\ status' = "solve"
  /\ stage' \in {"slack", "tight"}
  /\ iter_rowheight' = iter_rowheight - 1
  /\ delay_list' = [n \in Gates |-> [c \in Cells |-> NotCalculated]]
  /\ change_ratios' = {}
  /\ UNCHANGED <<cell_type, node_to_gate_map, timer, arrival, stack, exchanged>>

End ==
  /\ status = "pass"
  /\ exchanged = Gates
  /\ iter_rowheight = 0
  /\ status' = "done"
  /\ UNCHANGED <<stage, iter_rowheight, cell_type, node_to_gate_map, timer,
                 arrival, delay_list, change_ratios, stack, exchanged>>

Next ==
  \/ CallOutput
  \/ CallLeaf
  \/ MeasureOther
  \/ MeasurePlaced
  \/ BeginPass
  \/ \E n \in Gates : Exchange(n)
  \/ NextIteration
  \/ End

\* One thread runs the solver: a call that can go on goes on.
Spec == Init /\ [][Next]_vars /\ WF_vars(Next)

-----------------------------------------------------------------------------
(***************************************************************************)
(* Properties                                                              *)
(***************************************************************************)

Snapshots == [Gates -> SUBSET Cells]

\* Every variable has its type; the calls in progress go down the network.
TypeOK ==
  /\ status \in {"solve", "pass", "done"}
  /\ stage \in {"slack", "tight"}
  /\ iter_rowheight \in 0 .. Iterations
  /\ cell_type \in [Gates -> Cells]
  /\ \A n \in Gates : cell_type[n] \in Candidates[n]
  /\ node_to_gate_map \in [Gates -> Cells]
  /\ timer \in [Gates -> Cells]
  /\ arrival \in [Gates -> Snapshots]
  /\ delay_list \in [Gates -> [Cells -> Snapshots]]
  /\ change_ratios \subseteq Gates \X Cells
  /\ stack \in Seq(Gates)
  /\ \A i, j \in 1 .. Len(stack) : i < j => stack[j] < stack[i]
  /\ exchanged \subseteq Gates

\* Only the gate whose candidates are being measured has a cell in the timer
\* that is not the one it is placed with, and only once everything it reads
\* has been measured: the recursion of one gate never sees the trial cell
\* of another.
OneTrialAtATime ==
  \A n \in Gates :
    timer[n] # cell_type[n] => Inside(n) /\ LeavesSolved(n)

\* When the pass begins the timer has the placement, the solver knows it
\* and every candidate of every gate has been measured, also of the gates
\* that only other gates read.
PassKnowsAll ==
  status = "pass" =>
    /\ timer = cell_type /\ node_to_gate_map = cell_type
    /\ \A n \in Gates : \A c \in Candidates[n] : Calculated(n, c)

\* A delay belongs to the candidate it is written for.
MeasuredAsItself ==
  \A n \in Gates : \A c \in Candidates[n] :
    Calculated(n, c) => delay_list[n][c][n] = {c}

\* In the first solve the solver believes that the timer still has the cell
\* of the mapper, also where the gate has been moved to the other height: the
\* delay of that cell is what the timer had in store before.
Misread(n, c) ==
  iter_rowheight = Iterations /\ c = Original[n] /\ Adoptable(n) # {}

\* The delays an offered exchange compares are of arrivals that differ in
\* the cell of that gate alone, unless one of them was misread.
LikeWithLike ==
  status = "solve" =>
    \A r \in change_ratios : ~Misread(r[1], r[2]) =>
      \A m \in Gates \ {r[1]} :
        delay_list[r[1]][r[2]][m] = delay_list[r[1]][cell_type[r[1]]][m]

\* The gates the arrival behind n depends on.
Cone(n) == {m \in Gates : FirstArrival[n][m] # {}}

\* When every gate on the way has a choice, each delay that is read in a
\* solve and not misread comes from the cells that are placed.
FreshDelays ==
  status = "solve" =>
    \A n \in Gates :
      (\A m \in Cone(n) : Cardinality(Candidates[m]) > 1) =>
        \A c \in Candidates[n] : Calculated(n, c) /\ ~Misread(n, c) =>
          \A m \in Cone(n) \ {n} : delay_list[n][c][m] = {cell_type[m]}

\* Every solve and every pass comes to its end.
SolvesEnd == <>(status = "done")

=============================================================================
