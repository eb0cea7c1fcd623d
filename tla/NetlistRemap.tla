----------------------------- MODULE NetlistRemap -----------------------------
(***************************************************************************)
(* What happens to the nets when the old solver tries a cell that reads    *)
(* other nodes (createRCTree::buildTopo_remap, src/src/timing.cpp).  There *)
(* are two netlists: PlaceInfo_net, which process_net has read, and the    *)
(* one in the timer.  The gate is removed from the timer and inserted with *)
(* its new cell, and then each net that the old or the new cell reads, and *)
(* the net behind the gate, is taken apart and connected again from        *)
(* PlaceInfo_net, which is edited on the way.  From the next remap on the  *)
(* edited table is what nets are connected from.                           *)
(*                                                                         *)
(* A net has the name of the node that drives it; nodes are named as in    *)
(* the code, "x1" or "g4".  Constants are no leaves.  The order of the     *)
(* pins in a net, their positions and the RC trees are left out.  Calls    *)
(* may come in any order: dp_solve_rec goes through the candidates as      *)
(* OldSolver says.  init_dp_table has repowered a gate with several        *)
(* candidates to the first of its table (dp_solver.cpp:442-446); that      *)
(* leaves the pins of the gate, their names and their nets as they are, so *)
(* node_to_gate_map, the cell the solver notes, is the one that has them.  *)
(***************************************************************************)
EXTENDS Integers, Sequences, FiniteSets, Functions

CONSTANTS
  Inputs,       \* the inputs of the design
  Gates,        \* its gates
  Outputs,      \* its outputs
  Drives,       \* Drives[y]: the node that drives output y
  Cells,        \* the cells of the library
  Pins,         \* Pins[c]: the input pins of c, in the order of the library
  OutputName,   \* OutputName[c]: its output pin
  Candidates,   \* Candidates[n]: the cells in dp_table[n]
  Cut,          \* Cut[n][c]: the nodes that c would read
  Permutation,  \* Permutation[n][c]: pin i reads the node at this place of Cut
  Original      \* the netlist that was placed

Nets == Inputs \cup Gates

IO == "none"    \* the cellname of an IO pin

\* Pins "Z" and "ZN" are what the code takes for outputs.
OutputPins == {"Z", "ZN"}

ASSUME LibraryAssumption ==
  \A c \in Cells :
    /\ Pins[c] \in Seq(STRING)
    /\ Range(Pins[c]) \cap OutputPins = {}
    /\ OutputName[c] \in OutputPins

\* A gate does not read itself; its candidates read each node once.
ASSUME CutAssumption ==
  \A n \in Gates :
    /\ Original[n] \in Candidates[n]
    /\ Candidates[n] \subseteq Cells
    /\ \A c \in Candidates[n] :
         /\ Cut[n][c] \in Seq(Nets \ {n})
         /\ Len(Cut[n][c]) = Len(Pins[c])
         /\ Permutation[n][c] \in [1 .. Len(Cut[n][c]) -> 1 .. Len(Cut[n][c])]
         /\ \A i, j \in 1 .. Len(Cut[n][c]) :
              Permutation[n][c][i] = Permutation[n][c][j] => i = j
         /\ \A k \in 1 .. Len(Cut[n][c]) :
              \E i \in 1 .. Len(Cut[n][c]) : Permutation[n][c][i] = k
         /\ \A j, k \in 1 .. Len(Cut[n][c]) : Cut[n][c][j] = Cut[n][c][k] => j = k

\* An input that is an output as well would be taken for an error below.
ASSUME NameAssumption ==
  /\ \A y \in Outputs : Drives[y] \in Gates
  /\ (Inputs \cup Outputs) \cap OutputPins = {}
  /\ Inputs \cap Gates = {}
  /\ IO \notin Gates

ASSUME OriginalAssumption == Original \in [Gates -> Cells]

VARIABLES
  node_cut_map,      \* the nodes each gate reads in the timer
  node_to_gate_map,  \* the cell whose pins it has there
  PlaceInfo_net,     \* the pins of each net in the tables of the program
  timer_net          \* the pins that are connected to it in the timer

vars == <<node_cut_map, node_to_gate_map, PlaceInfo_net, timer_net>>

-----------------------------------------------------------------------------
(***************************************************************************)
(* Netlists                                                                *)
(***************************************************************************)

Pin(cellname, name) == [cellname |-> cellname, name |-> name]

\* Mutant: the pins in the order of the cut.
cut_to_pin_straight(n, c) ==
  [l \in Range(Cut[n][c]) |->
     Pins[c][CHOOSE i \in 1 .. Len(Cut[n][c]) : Cut[n][c][i] = l]]

\* The pin with which c reads a node.
cut_to_pin_map(n, c) ==
  [l \in Range(Cut[n][c]) |->
     Pins[c][CHOOSE i \in 1 .. Len(Cut[n][c]) : Cut[n][c][Permutation[n][c][i]] = l]]

\* The pins of c that read l.
PinsOn(n, c, l) == {i \in 1 .. Len(Cut[n][c]) : Cut[n][c][Permutation[n][c][i]] = l}

\* What drives a net, the pins of another gate on it and the outputs on it.
DriverPin(cells, l) ==
  IF l \in Inputs THEN Pin(IO, l) ELSE Pin(l, OutputName[cells[l]])

ReaderPins(cells, l, n) == {Pin(n, Pins[cells[n]][i]) : i \in PinsOn(n, cells[n], l)}

OutputPinsOf(l) == {Pin(IO, y) : y \in {y \in Outputs : Drives[y] = l}}

NetPins(cells, l) ==
  {DriverPin(cells, l)}
  \cup (UNION {ReaderPins(cells, l, n) : n \in Gates})
  \cup OutputPinsOf(l)

\* The nets of gates with these cells.
Netlist(cells) == [l \in Nets |-> NetPins(cells, l)]

\* The placed netlist is read by process_net and by the timer.
Init ==
  /\ node_cut_map = [n \in Gates |-> Cut[n][Original[n]]]
  /\ node_to_gate_map = Original
  /\ PlaceInfo_net = Netlist(Original)
  /\ timer_net = Netlist(Original)

-----------------------------------------------------------------------------
(***************************************************************************)
(* buildTopo_remap                                                         *)
(***************************************************************************)

\* The node behind a net: the gate with a pin Z or ZN, else the IO pin.
net_to_gate(pins) ==
  LET outs == {p \in pins : p.name \in OutputPins}
  IN IF outs # {}
     THEN (CHOOSE p \in outs : TRUE).cellname
     ELSE (CHOOSE p \in pins : p.cellname = IO).name

Renamed(pins, n, name) ==
  {IF p.cellname = n THEN Pin(n, name) ELSE p : p \in pins}

Dropped(pins, n) == {p \in pins : p.cellname # n}

\* Mutant: the pin of a node that is no longer read stays in the table.
EditedKept(pins, n, c, original_cut) ==
  LET l == net_to_gate(pins)
  IN IF l \in Range(Cut[n][c])
     THEN Renamed(pins, n, cut_to_pin_map(n, c)[l])
          \cup (IF l \in original_cut THEN {} ELSE {Pin(n, cut_to_pin_map(n, c)[l])})
     ELSE pins

\* modify_PinInfo_net, and the new pin of a node that was not read before.
Edited(pins, n, c, original_cut) ==
  LET l == net_to_gate(pins)
  IN IF l \in Range(Cut[n][c])
     THEN Renamed(pins, n, cut_to_pin_map(n, c)[l])
          \cup (IF l \in original_cut THEN {} ELSE {Pin(n, cut_to_pin_map(n, c)[l])})
     ELSE Dropped(pins, n)

\* A net whose driver is in neither cut is left as remove_gate has left it.
Recognised(pins, n, c, original_cut) ==
  net_to_gate(pins) \in original_cut \cup Range(Cut[n][c])

\* connect_pin reports an error for a pin the timer does not have.
PinExists(p, cells) ==
  p.cellname = IO \/ p.name \in Range(Pins[cells[p.cellname]]) \cup {OutputName[cells[p.cellname]]}

Connected(pins, cells) == {p \in pins : PinExists(p, cells)}

Bound(n, c) == [node_to_gate_map EXCEPT ![n] = c]

\* dp_solve_rec asks for cell c of gate n.
Remap(n, c) ==
  LET original_cut == Range(node_cut_map[n])
      cells == Bound(n, c)
      net_to_be_update ==
        {l \in original_cut \cup Range(Cut[n][c]) :
           Recognised(PlaceInfo_net[l], n, c, original_cut)}
  IN /\ node_cut_map[n] # Cut[n][c]
     /\ node_cut_map' = [node_cut_map EXCEPT ![n] = Cut[n][c]]
     /\ node_to_gate_map' = cells
     /\ PlaceInfo_net' =
          [l \in Nets |->
             IF l = n THEN Renamed(PlaceInfo_net[l], n, OutputName[c])
             ELSE IF l \in net_to_be_update THEN Edited(PlaceInfo_net[l], n, c, original_cut)
             ELSE PlaceInfo_net[l]]
     /\ timer_net' =
          [l \in Nets |->
             IF l = n \/ l \in net_to_be_update
             THEN Connected(PlaceInfo_net'[l], cells)
             ELSE Dropped(timer_net[l], n)]

Next == \E n \in Gates : \E c \in Candidates[n] : Remap(n, c)

Spec == Init /\ [][Next]_vars

-----------------------------------------------------------------------------
(***************************************************************************)
(* Properties                                                              *)
(***************************************************************************)

\* What the solver notes of a gate goes together.
TypeOK ==
  /\ node_to_gate_map \in [Gates -> Cells]
  /\ \A n \in Gates : node_to_gate_map[n] \in Candidates[n]
  /\ node_cut_map = [n \in Gates |-> Cut[n][node_to_gate_map[n]]]
  /\ DOMAIN PlaceInfo_net = Nets
  /\ DOMAIN timer_net = Nets

\* However many gates have been remapped, and however often, the table is
\* the one process_net would read from a netlist with the present cells: no
\* net keeps or loses a pin, and no pin has the name it had in another cell.
TableIsNetlist == PlaceInfo_net = Netlist(node_to_gate_map)

\* So is the netlist in the timer: what it times is the netlist of the
\* present cells, connected as their functions ask for.
TimerIsNetlist == timer_net = Netlist(node_to_gate_map)

\* A remap leaves the pins of all other gates on their nets.
RemapIsLocal ==
  [][\A n \in Gates : node_cut_map'[n] # node_cut_map[n] =>
       \A l \in Nets : Dropped(timer_net'[l], n) = Dropped(timer_net[l], n)]_vars

=============================================================================
