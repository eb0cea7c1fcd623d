------------------------------ MODULE OldSolver ------------------------------
(***************************************************************************)
(* The solver that -olddp chooses (src/src/dp_solver.cpp).  Its table has  *)
(* an entry for each candidate cell of each gate.  dp_solve_rec fills an   *)
(* entry from those of the gates the candidate reads: of all choices of    *)
(* cells for them it keeps the ones that no other choice beats in area and *)
(* delay.  A cache lets the next candidate that reads the same gates take  *)
(* the choices over; its key is the sum of the numbers of the gates, which *)
(* two cuts of a gate may share.                                           *)
(* dp_back_propagation then goes from the outputs to the inputs, picks one *)
(* of the choices of each entry it comes to, and collects for every gate   *)
(* the cells that were asked for; naive_solution_selection takes the least *)
(* of them.                                                                *)
(*                                                                         *)
(* Abstractions: hash tables have no order here, so which element a table  *)
(* begins with and the order of the calls of dp_solve_rec are left open;   *)
(* the choices of an entry are kept in some fixed order, and which of      *)
(* equal ones is picked is left open.  With remapping, Offered and Cut are *)
(* what the filter by distance lets through; the table is keyed by the     *)
(* names of cells, and of several cuts a cell fits it keeps the last.  A   *)
(* cell that reads other gates than the one in the timer has its nets      *)
(* rebuilt (NetlistRemap), and the timer is updated: every arrival becomes *)
(* any of Arrivals.                                                        *)
(* Arrivals ascend along the gates: a delay that is not positive would     *)
(* leave local_max_fanin uninitialised.                                    *)
(***************************************************************************)
EXTENDS Integers, Sequences, FiniteSets, FiniteSetsExt, SequencesExt

CONSTANTS
  NumNodes,    \* size of the network
  Gates,       \* its gates
  POs,         \* the drivers of the outputs, in their order
  Cells,       \* the cells of the library
  Original,    \* Original[n]: the cell the mapper bound gate n to
  Mapped,      \* Mapped[n]: the nodes that gate n reads then, ascending
  Fitting,     \* Fitting[n]: the cells that have the function of n over them
  Offered,     \* Offered[n]: those that have it over any cut of n
  Cut,         \* Cut[n][c]: of these cuts, the one the table keeps for c
  Area,        \* of each cell
  Height,      \* of each cell
  Assigned,    \* gateHeightAssignmentMap
  Arrivals,    \* Arrivals[n]: the arrivals behind n the timer may report
  Measured,    \* the delays init_dp_table measures at gates behind inputs
  RequiredTimes, \* what report_rat may answer
  Period       \* of the clock

Nodes == 0 .. NumNodes

\* What gate n may read.
Reads(n) == Range(Mapped[n]) \cup UNION {Range(Cut[n][c]) : c \in Offered[n]}

ASSUME NetworkAssumption ==
  /\ NumNodes \in Nat
  /\ Gates \subseteq 1 .. NumNodes
  /\ POs \in Seq(Nodes)
  /\ \A n \in Gates :
       /\ Mapped[n] \in Seq(Nodes) \ {<<>>}
       /\ \A c \in Offered[n] : Cut[n][c] \in Seq(Nodes) \ {<<>>}
       /\ \A l \in Reads(n) : l < n

ASSUME LibraryAssumption ==
  /\ IsFiniteSet(Cells)
  /\ \A n \in Gates : Fitting[n] \subseteq Cells /\ Offered[n] \subseteq Cells
  /\ Area \in [Cells -> Int]

\* check_input_gate
InputGate(n) == Range(Mapped[n]) \cap Gates = {}

\* All cuts of a gate behind inputs are of inputs.
ASSUME InputAssumption == \A n \in Gates : InputGate(n) => Reads(n) \cap Gates = {}

\* What report_at says behind such a gate.
ASSUME MeasuredAssumption ==
  \A n \in Gates : InputGate(n) =>
    \A c \in Fitting[n] \cup Offered[n] : Measured[n][c] \in Nat

ASSUME TimerAssumption ==
  /\ RequiredTimes \subseteq Int
  /\ Period \in Int
  /\ \A n \in Gates : Arrivals[n] \subseteq Nat \ {0}
  /\ \A n \in Gates : \A l \in Reads(n) \cap Gates :
       \A s \in Arrivals[l], t \in Arrivals[n] : s < t

VARIABLES
  remap_flag,         \* the option: a gate may read other nodes than mapped
  status,             \* "solve", "back", "done"; "assert", "undefined"
  arrival,            \* the arrival the timer reports behind each gate
  node_cut_map,       \* the nodes each gate reads in the timer
  dp_table,           \* dp_table[n][c]: the entry of candidate c
  dp_cut_cache,       \* dp_cut_cache[n]: by sums of nodes
  calls,              \* the calls of dp_solve_rec in progress
  po,                 \* dp_back_propagation: the output
  visits,             \* the calls of dp_back_propagation_rec in progress
  node_parent_map,    \* where dp_back_propagation_rec came from
  dp_final_solution,  \* the cells that were asked for
  cell_type           \* the result

vars == <<remap_flag, status, arrival, node_cut_map, dp_table, dp_cut_cache, calls, po, visits,
          node_parent_map, dp_final_solution, cell_type>>

-----------------------------------------------------------------------------
(***************************************************************************)
(* The table                                                               *)
(***************************************************************************)

\* check_gate_height_match and check_prune_in_dp_table_init: a gate whose
\* cell has the assigned height keeps it.
Suitable(n, cells) ==
  {c \in cells :
     /\ Height[c] = Assigned[n]
     /\ Height[Original[n]] = Assigned[n] => c = Original[n]}

Candidates(n) == Suitable(n, IF remap_flag THEN Offered[n] ELSE Fitting[n])

\* The cut of an entry.
CutOf(n, c) == IF remap_flag THEN Cut[n][c] ELSE Mapped[n]

NewEntry(n, c) ==
  [is_calculated |-> FALSE,
   delay_list |-> IF InputGate(n) THEN <<Measured[n][c]>> ELSE <<>>,
   pareto_gate_list |-> <<>>]

EmptyCache == [v \in {} |-> <<>>]

\* What an update of the timer may find.
Timings ==
  {f \in [Gates -> UNION {Arrivals[n] : n \in Gates}] : \A n \in Gates : f[n] \in Arrivals[n]}

\* A table without an entry has no begin().
Init ==
  /\ remap_flag \in BOOLEAN
  /\ \A n \in Gates : Candidates(n) # {}
  /\ status = "solve"
  /\ arrival \in Timings
  /\ node_cut_map = Mapped
  /\ dp_table = [n \in Gates |-> [c \in Candidates(n) |-> NewEntry(n, c)]]
  /\ dp_cut_cache = [n \in Gates |-> EmptyCache]
  /\ calls = <<>>
  /\ po = 1
  /\ visits = <<>>
  /\ node_parent_map = [n \in Gates |-> {}]
  /\ dp_final_solution = [n \in Gates |-> {}]
  /\ cell_type = Original

\* Inputs and constants have one entry, named as they are, without area and
\* without delay.
CandidatesOf(l) == IF l \in Gates THEN DOMAIN dp_table[l] ELSE {l}

DelayList(l, c) == IF l \in Gates THEN dp_table[l][c].delay_list ELSE <<0>>

AreaOf(c) == IF c \in Cells THEN Area[c] ELSE 0

Calculated(l, c) == l \in Gates => dp_table[l][c].is_calculated

-----------------------------------------------------------------------------
(***************************************************************************)
(* dp_solve_rec                                                            *)
(***************************************************************************)

\* The nets of a gate are rebuilt when c reads other nodes than the timer
\* has.  The arrivals are read before the recursion.
Enter(n, c) ==
  /\ IF node_cut_map[n] = CutOf(n, c)
     THEN UNCHANGED <<arrival, node_cut_map>>
     ELSE /\ arrival' \in Timings
          /\ node_cut_map' = [node_cut_map EXCEPT ![n] = CutOf(n, c)]
  /\ calls' = Append(calls,
       [node |-> n, cell |-> c, at |-> arrival'[n],
        fanin |-> [l \in Range(CutOf(n, c)) |-> IF l \in Gates THEN arrival'[l] ELSE 0]])

CallOutput ==
  /\ status = "solve"
  /\ calls = <<>>
  /\ \E o \in Range(POs) \cap Gates : \E c \in Candidates(o) :
       /\ ~Calculated(o, c)
       /\ Enter(o, c)
  /\ UNCHANGED <<remap_flag, status, dp_table, dp_cut_cache, po, visits, node_parent_map,
                 dp_final_solution, cell_type>>

Top == calls[Len(calls)]
TopCut == CutOf(Top.node, Top.cell)
Return == calls' = SubSeq(calls, 1, Len(calls) - 1)

\* faninArrivalTimeMap has 0 for a node that is not in it.
pin2pin(l) == Top.at - (IF l \in Range(TopCut) THEN Top.fanin[l] ELSE 0)

cut_value(cut) == FoldLeft(+, 0, cut)

InCache == cut_value(TopCut) \in DOMAIN dp_cut_cache[Top.node]

CallLeaf ==
  /\ calls # <<>>
  /\ ~InCache
  /\ \E l \in Range(TopCut) \cap Gates : \E c \in Candidates(l) :
       /\ ~Calculated(l, c)
       /\ Enter(l, c)
  /\ UNCHANGED <<remap_flag, status, dp_table, dp_cut_cache, po, visits, node_parent_map,
                 dp_final_solution, cell_type>>

\* The choices of a cell for each node of a cut.
FaninCells(cut) ==
  {l \in [1 .. Len(cut) -> UNION {CandidatesOf(m) : m \in Range(cut)}] :
     \A k \in 1 .. Len(cut) : l[k] \in CandidatesOf(cut[k])}

TotalArea(c, l) == FoldLeft(LAMBDA sum, g : sum + AreaOf(g), AreaOf(c), l)

MinDelay(l, c) == Min(Range(DelayList(l, c)))

\* The delay through the node at position k.
DelayThrough(cut, l, k) == MinDelay(cut[k], l[k]) + pin2pin(cut[k])

\* Of the delays of the cells in front all combinations are tried; the best
\* takes the least of each.
MaxDelay(cut, l) == Max({DelayThrough(cut, l, k) : k \in 1 .. Len(cut)} \cup {0})

\* pareto_solution_select_tmp, the subject of ParetoSelection.
ParetoChoices(cut, c) ==
  {l \in FaninCells(cut) :
     ~\E m \in FaninCells(cut) :
        /\ TotalArea(c, m) =< TotalArea(c, l)
        /\ MaxDelay(cut, m) =< MaxDelay(cut, l)
        /\ TotalArea(c, m) < TotalArea(c, l) \/ MaxDelay(cut, m) < MaxDelay(cut, l)}

\* The combinations of delays are tried in the order of the lists: in the
\* first of the best each node has its first delay that is not too long.
FirstPlace(cut, l, k) ==
  Min({j \in DOMAIN DelayList(cut[k], l[k]) :
         DelayList(cut[k], l[k])[j] + pin2pin(cut[k]) =< MaxDelay(cut, l)})

\* The first node that decides the delay there, its cell and the place in
\* its delay_list.
Critical(cut, l) ==
  LET Decides(k) == DelayList(cut[k], l[k])[FirstPlace(cut, l, k)] + pin2pin(cut[k])
                      = MaxDelay(cut, l)
      k == Min({i \in 1 .. Len(cut) : Decides(i)})
  IN <<cut[k], l[k], FirstPlace(cut, l, k)>>

Complete(choices, delays) ==
  dp_table' = [dp_table EXCEPT ![Top.node][Top.cell] =
    [is_calculated |-> TRUE,
     delay_list |-> @.delay_list \o delays,
     pareto_gate_list |-> choices]]

Solve ==
  /\ calls # <<>>
  /\ ~InCache
  /\ \A l \in Range(TopCut) : \A c \in CandidatesOf(l) : Calculated(l, c)
  /\ \E choices \in {SetToSeq(ParetoChoices(TopCut, Top.cell))} :
       /\ Complete(choices, [j \in DOMAIN choices |-> MaxDelay(TopCut, choices[j])])
       /\ dp_cut_cache' = [dp_cut_cache EXCEPT ![Top.node] =
            [v \in DOMAIN @ \cup {cut_value(TopCut)} |->
               IF v \in DOMAIN @ THEN @[v]
               ELSE [pareto_gate_list |-> choices,
                     critical |-> [j \in DOMAIN choices |-> Critical(TopCut, choices[j])]]]]
  /\ Return
  /\ UNCHANGED <<remap_flag, status, arrival, node_cut_map, po, visits, node_parent_map,
                 dp_final_solution, cell_type>>

\* Mutant: the delay in front is taken without the delay of the gate.
SolveCachedBare ==
  /\ calls # <<>>
  /\ InCache
  /\ LET cached == dp_cut_cache[Top.node][cut_value(TopCut)]
         DelayOf(t) == DelayList(t[1], t[2])[t[3]]
     IN Complete(cached.pareto_gate_list,
                 [j \in DOMAIN cached.critical |-> DelayOf(cached.critical[j])])
  /\ Return
  /\ UNCHANGED <<remap_flag, status, arrival, node_cut_map, dp_cut_cache, po, visits,
                 node_parent_map, dp_final_solution, cell_type>>

SolveCached ==
  /\ calls # <<>>
  /\ InCache
  /\ LET cached == dp_cut_cache[Top.node][cut_value(TopCut)]
         DelayOf(t) == DelayList(t[1], t[2])[t[3]] + pin2pin(t[1])
     IN Complete(cached.pareto_gate_list,
                 [j \in DOMAIN cached.critical |-> DelayOf(cached.critical[j])])
  /\ Return
  /\ UNCHANGED <<remap_flag, status, arrival, node_cut_map, dp_cut_cache, po, visits,
                 node_parent_map, dp_final_solution, cell_type>>

-----------------------------------------------------------------------------
(***************************************************************************)
(* dp_back_propagation                                                     *)
(***************************************************************************)

\* The table begins anywhere.
BeginBack ==
  /\ status = "solve"
  /\ calls = <<>>
  /\ \A o \in Range(POs) \cap Gates : \A c \in Candidates(o) : Calculated(o, c)
  /\ status' = "back"
  /\ \E f \in [Gates -> Cells] :
       /\ \A n \in Gates : f[n] \in Candidates(n)
       /\ dp_final_solution' = [n \in Gates |-> {f[n]}]
  /\ UNCHANGED <<remap_flag, arrival, node_cut_map, dp_table, dp_cut_cache, calls, po, visits,
                 node_parent_map, cell_type>>

\* Mutant: the fastest of those that are in time.
FastestInTime(delays, required) ==
  {j \in DOMAIN delays : \A k \in DOMAIN delays : delays[j] =< delays[k]}

\* The slowest that is in time, else the fastest; nothing when the fastest is
\* just in time.
Selectable(delays, required) ==
  LET inTime == {j \in DOMAIN delays : delays[j] < required}
  IN IF \A j \in DOMAIN delays : delays[j] > required
     THEN {j \in DOMAIN delays : \A k \in DOMAIN delays : delays[j] =< delays[k]}
     ELSE {j \in inTime : \A k \in inTime : delays[k] =< delays[j]}

\* Mutant: a gate is visited once.
Visited(n, parent) == node_parent_map[n] # {}

\* dp_back_propagation_rec has been at n on behalf of that gate.
FromThere(n, parent) == parent \in node_parent_map[n]

\* dp_back_propagation_rec up to its loop over the nodes it reads; `rest'
\* are the calls that wait for it.  A name that is not in the table has no
\* cut to read, and an entry that is not calculated may have no delays.
Visit(n, parent, c, rest) ==
  IF FromThere(n, parent)
  THEN visits' = rest /\ UNCHANGED <<status, node_parent_map, dp_final_solution>>
  ELSE
    /\ node_parent_map' = [node_parent_map EXCEPT ![n] = @ \cup {parent}]
    /\ IF c \notin DOMAIN dp_table[n]
       THEN status' = "undefined" /\ visits' = rest /\ UNCHANGED dp_final_solution
       ELSE
         /\ dp_final_solution' = [dp_final_solution EXCEPT ![n] = @ \cup {c}]
         /\ IF Len(dp_table[n][c].pareto_gate_list) = 1
            THEN /\ visits' = Append(rest, [node |-> n, cell |-> c, required |-> 0,
                                            selected |-> 1, next |-> 1])
                 /\ UNCHANGED status
            ELSE IF dp_table[n][c].delay_list = <<>>
            THEN status' = "undefined" /\ visits' = rest
            ELSE \E required \in RequiredTimes :
              LET selectable == Selectable(dp_table[n][c].delay_list, required)
              IN IF selectable = {}
                 THEN status' = "assert" /\ visits' = rest
                 ELSE /\ \E s \in selectable :
                           visits' = Append(rest, [node |-> n, cell |-> c, required |-> required,
                                                   selected |-> s, next |-> 1])
                      /\ UNCHANGED status

\* The constant 0 drives the output.
SkipOutput ==
  /\ status = "back"
  /\ visits = <<>>
  /\ po =< Len(POs)
  /\ POs[po] = 0
  /\ po' = po + 1
  /\ UNCHANGED <<remap_flag, status, arrival, node_cut_map, dp_table, dp_cut_cache, calls, visits,
                 node_parent_map, dp_final_solution, cell_type>>

\* The candidates of the driver compete with their best delays; without a
\* selection gate_list is read in front of its beginning.  An input or the
\* constant 1 has no cut to read.
VisitOutput ==
  /\ status = "back"
  /\ visits = <<>>
  /\ po =< Len(POs)
  /\ POs[po] # 0
  /\ LET o == POs[po]
         delays == [c \in CandidatesOf(o) |-> MinDelay(o, c)]
     IN IF o \notin Gates \/ Selectable(delays, Period) = {}
        THEN status' = "undefined" /\ UNCHANGED <<visits, node_parent_map, dp_final_solution>>
        ELSE \E c \in Selectable(delays, Period) : Visit(o, 0, c, <<>>)
  /\ po' = po + 1
  /\ UNCHANGED <<remap_flag, arrival, node_cut_map, dp_table, dp_cut_cache, calls, cell_type>>

Deepest == visits[Len(visits)]
DeepestCut == CutOf(Deepest.node, Deepest.cell)

\* The next node the gate reads; choices for a shorter cut have no cell for
\* it.
VisitLeaf ==
  /\ status = "back"
  /\ visits # <<>>
  /\ Deepest.next =< Len(DeepestCut)
  /\ LET k == Deepest.next
         l == DeepestCut[k]
         rest == [visits EXCEPT ![Len(visits)].next = k + 1]
         chosen == dp_table[Deepest.node][Deepest.cell].pareto_gate_list[Deepest.selected]
     IN IF l \in Gates
        THEN IF k =< Len(chosen)
             THEN Visit(l, Deepest.node, chosen[k], rest)
             ELSE /\ status' = "undefined"
                  /\ visits' = rest
                  /\ UNCHANGED <<node_parent_map, dp_final_solution>>
        ELSE visits' = rest /\ UNCHANGED <<status, node_parent_map, dp_final_solution>>
  /\ UNCHANGED <<remap_flag, arrival, node_cut_map, dp_table, dp_cut_cache, calls, po, cell_type>>

Leave ==
  /\ status = "back"
  /\ visits # <<>>
  /\ Deepest.next > Len(DeepestCut)
  /\ visits' = SubSeq(visits, 1, Len(visits) - 1)
  /\ UNCHANGED <<remap_flag, status, arrival, node_cut_map, dp_table, dp_cut_cache, calls, po,
                 node_parent_map, dp_final_solution, cell_type>>

\* naive_solution_selection; the list of a gate is never empty.
Select ==
  /\ status = "back"
  /\ visits = <<>>
  /\ po > Len(POs)
  /\ status' = "done"
  /\ \E f \in [Gates -> Cells] :
       /\ \A n \in Gates :
            /\ f[n] \in dp_final_solution[n]
            /\ \A c \in dp_final_solution[n] : Area[f[n]] =< Area[c]
       /\ cell_type' = f
  /\ UNCHANGED <<remap_flag, arrival, node_cut_map, dp_table, dp_cut_cache, calls, po, visits,
                 node_parent_map, dp_final_solution>>

Next ==
  \/ CallOutput
  \/ CallLeaf
  \/ Solve
  \/ SolveCached
  \/ BeginBack
  \/ SkipOutput
  \/ VisitOutput
  \/ VisitLeaf
  \/ Leave
  \/ Select

\* One thread runs the solver.
Spec == Init /\ [][Next]_vars /\ WF_vars(Next)

-----------------------------------------------------------------------------
(***************************************************************************)
(* Properties                                                              *)
(***************************************************************************)

Entries(n) == {c \in DOMAIN dp_table[n] : dp_table[n][c].is_calculated}

\* What an entry has kept are choices for the very nodes its cell reads,
\* from their own tables: "store all permutations of the gates slected for
\* all fanins", src/src/dp_solver.cpp:476, and "Use Cache result to determine
\* gate solution", :594.  With remapping the cache breaks it: another cut of
\* the gate may have the same sum.
ChoicesOfLeaves ==
  \A n \in Gates : \A c \in Entries(n) :
    Range(dp_table[n][c].pareto_gate_list) \subseteq FaninCells(CutOf(n, c))

ArrivalOf(l) == IF l \in Gates THEN arrival[l] ELSE 0

DelayNow(n, cut, l) ==
  Max({MinDelay(cut[k], l[k]) + arrival[n] - ArrivalOf(cut[k]) : k \in 1 .. Len(cut)})

\* Without remapping, what an entry has kept are choices for the nodes its
\* cell reads, each with the delay of the slowest path through it, and for
\* every choice there is one among them that is as good in area and delay -
\* also when they are from the cache.  (Behind inputs init_dp_table has left
\* a delay in front.)
KeepsTheFront ==
  ~remap_flag => \A n \in Gates : \A c \in Entries(n) :
    LET cut == CutOf(n, c)
        kept == dp_table[n][c].pareto_gate_list
        delays == dp_table[n][c].delay_list
        measured == Len(delays) - Len(kept)
    IN /\ measured = (IF InputGate(n) THEN 1 ELSE 0)
       /\ Range(kept) \subseteq FaninCells(cut)
       /\ \A j \in DOMAIN kept : delays[j + measured] = DelayNow(n, cut, kept[j])
       /\ \A l \in FaninCells(cut) : \E j \in DOMAIN kept :
            /\ TotalArea(c, kept[j]) =< TotalArea(c, l)
            /\ delays[j + measured] =< DelayNow(n, cut, l)

\* Without remapping, the choice the back propagation picks is the
\* smallest of those that are faster than required, and the fastest one
\* when none is.
SmallestInTime ==
  ~remap_flag => \A v \in Range(visits) :
    LET kept == dp_table[v.node][v.cell].pareto_gate_list
        delays == dp_table[v.node][v.cell].delay_list
        inTime == {j \in DOMAIN kept : delays[j] < v.required}
    IN Len(kept) > 1 =>
         IF inTime = {}
         THEN \A j \in DOMAIN kept : delays[v.selected] =< delays[j]
         ELSE /\ v.selected \in inTime
              /\ \A j \in inTime : TotalArea(v.cell, kept[v.selected])
                                       =< TotalArea(v.cell, kept[j])

\* When the solver ends as it should, the back propagation has come to every
\* output and, for every cell it asked for (all but the one the list began
\* with), has been at every gate it reads on behalf of its gate.  Whether the
\* cell asked for the second time is noted there it does not say: the code
\* returns early.
VisitsCover ==
  status = "done" =>
    /\ \A o \in Range(POs) \cap Gates : 0 \in node_parent_map[o]
    /\ \A n \in Gates : node_parent_map[n] # {} =>
         Cardinality({c \in dp_final_solution[n] :
           ~\A l \in Range(CutOf(n, c)) \cap Gates : n \in node_parent_map[l]}) =< 1

\* assert(selected_index != -1), src/src/dp_solver.cpp:894.
SomethingSelected == status # "assert"

=============================================================================
