-------------------------- MODULE NetlistRemapProofs --------------------------
(***************************************************************************)
(* Proofs about NetlistRemap: whatever was remapped before, the table of   *)
(* nets and the netlist in the timer are those of the present cells.       *)
(* The argument splits a net into the pins of the gate that is remapped    *)
(* and all others.  The others are the same for the old and the new cell   *)
(* (OtherPins); the own pins of a gate are one pin on a net it reads and   *)
(* none on a net it does not read (OwnPins).                               *)
(***************************************************************************)
EXTENDS NetlistRemap, TLAPS

\* What a gate may be bound to.
Bindings == {cells \in [Gates -> Cells] : \A n \in Gates : cells[n] \in Candidates[n]}

\* An input pin is not named like an output.
LEMMA InputPinNames ==
  ASSUME NEW c \in Cells, NEW i \in 1 .. Len(Pins[c])
  PROVE  Pins[c][i] \in Range(Pins[c]) /\ Pins[c][i] \notin OutputPins
<1>1. Pins[c] \in Seq(STRING) /\ Range(Pins[c]) \cap OutputPins = {}
  BY LibraryAssumption
<1>2. DOMAIN Pins[c] = 1 .. Len(Pins[c])
  BY <1>1
<1>. QED  BY <1>1, <1>2 DEF Range

\* A candidate reads each node of its cut with exactly one pin, the one that
\* cut_to_pin_map has for it, and no other node.
LEMMA OnePinEach ==
  ASSUME NEW n \in Gates, NEW c \in Candidates[n], NEW l
  PROVE  {Pin(n, Pins[c][i]) : i \in PinsOn(n, c, l)} =
           IF l \in Range(Cut[n][c]) THEN {Pin(n, cut_to_pin_map(n, c)[l])} ELSE {}
<1>. DEFINE k == Len(Cut[n][c])
            cut == Cut[n][c]
            perm == Permutation[n][c]
<1>1. /\ cut \in Seq(Nets \ {n})
      /\ perm \in [1 .. k -> 1 .. k]
      /\ \A i, j \in 1 .. k : perm[i] = perm[j] => i = j
      /\ \A j \in 1 .. k : \E i \in 1 .. k : perm[i] = j
      /\ \A i, j \in 1 .. k : cut[i] = cut[j] => i = j
  BY CutAssumption
<1>2. DOMAIN cut = 1 .. k /\ k \in Nat
  BY <1>1
<1>3. \A i \in 1 .. k : cut[perm[i]] \in Range(cut)
  BY <1>1, <1>2 DEF Range
<1>4. CASE l \notin Range(cut)
  <2>1. PinsOn(n, c, l) = {}
    BY <1>3, <1>4 DEF PinsOn
  <2>. QED  BY <2>1, <1>4
<1>5. CASE l \in Range(cut)
  <2>1. PICK j \in 1 .. k : cut[j] = l
    BY <1>2, <1>5 DEF Range
  <2>2. PICK i \in 1 .. k : perm[i] = j
    BY <1>1
  <2>3. \A m \in 1 .. k : cut[perm[m]] = l <=> m = i
    <3>. TAKE m \in 1 .. k
    <3>1. perm[m] \in 1 .. k
      BY <1>1
    <3>2. cut[perm[m]] = l => perm[m] = j
      BY <1>1, <2>1, <3>1
    <3>. QED  BY <1>1, <2>1, <2>2, <3>2
  <2>4. (CHOOSE m \in 1 .. k : cut[perm[m]] = l) = i
    BY <2>3
  <2>5. cut_to_pin_map(n, c)[l] = Pins[c][i]
    BY <1>5, <2>4 DEF cut_to_pin_map
  <2>6. PinsOn(n, c, l) = {i}
    BY <2>3 DEF PinsOn
  <2>. QED  BY <1>5, <2>5, <2>6
<1>. QED  BY <1>4, <1>5

\* The three kinds of pins on a net.
LEMMA PinsOfNet ==
  ASSUME NEW cells, NEW l \in Nets, NEW p
  PROVE  p \in Netlist(cells)[l] <=>
           \/ p = DriverPin(cells, l)
           \/ \E n \in Gates : p \in ReaderPins(cells, l, n)
           \/ p \in OutputPinsOf(l)
<1>. DEFINE readers == UNION {ReaderPins(cells, l, n) : n \in Gates}
<1>1. Netlist(cells)[l] = NetPins(cells, l)
  BY DEF Netlist
<1>2. NetPins(cells, l) = {DriverPin(cells, l)} \cup readers \cup OutputPinsOf(l)
  BY Zenon DEF NetPins
<1>3. p \in readers <=> \E n \in Gates : p \in ReaderPins(cells, l, n)
  OBVIOUS
<1>. HIDE DEF readers
<1>. QED  BY <1>1, <1>2, <1>3

LEMMA ReaderPinNames ==
  ASSUME NEW cells \in Bindings, NEW l, NEW n \in Gates, NEW p \in ReaderPins(cells, l, n)
  PROVE  /\ p.cellname = n
         /\ p.name \in Range(Pins[cells[n]])
         /\ p.name \notin OutputPins
<1>1. PICK i \in PinsOn(n, cells[n], l) : p = Pin(n, Pins[cells[n]][i])
  BY DEF ReaderPins
<1>2. cells[n] \in Candidates[n] /\ cells[n] \in Cells
  BY DEF Bindings
<1>3. i \in 1 .. Len(Pins[cells[n]])
  BY <1>2, CutAssumption DEF PinsOn
<1>. QED  BY <1>1, <1>2, <1>3, InputPinNames DEF Pin

\* net_to_gate finds the driver of each net.
LEMMA DriverFound ==
  ASSUME NEW cells \in Bindings, NEW l \in Nets
  PROVE  net_to_gate(Netlist(cells)[l]) = l
<1>. DEFINE pins == Netlist(cells)[l]
            outs == {p \in pins : p.name \in OutputPins}
            ios == {p \in pins : p.cellname = IO}
<1>1. \A p \in OutputPinsOf(l) : p.cellname = IO /\ p.name \notin OutputPins /\ l \in Gates
  BY NameAssumption DEF OutputPinsOf, Pin
<1>2. \A n \in Gates : \A p \in ReaderPins(cells, l, n) :
        p.cellname # IO /\ p.name \notin OutputPins
  BY ReaderPinNames, NameAssumption
<1>3. CASE l \in Gates
  <2>1. l \notin Inputs
    BY <1>3, NameAssumption
  <2>2. DriverPin(cells, l) = Pin(l, OutputName[cells[l]])
    BY <2>1 DEF DriverPin
  <2>3. OutputName[cells[l]] \in OutputPins
    BY <1>3, LibraryAssumption DEF Bindings
  <2>4. DriverPin(cells, l).name \in OutputPins /\ DriverPin(cells, l).cellname = l
    BY <2>2, <2>3 DEF Pin
  <2>5. outs = {DriverPin(cells, l)}
    BY <1>1, <1>2, <2>4, PinsOfNet
  <2>. QED  BY <2>4, <2>5 DEF net_to_gate
<1>4. CASE l \in Inputs
  <2>1. l \notin Gates /\ l \notin OutputPins
    BY <1>4, NameAssumption
  <2>2. DriverPin(cells, l) = Pin(IO, l)
    BY <1>4 DEF DriverPin
  <2>3. DriverPin(cells, l).name = l /\ DriverPin(cells, l).cellname = IO
    BY <2>2 DEF Pin
  <2>4. OutputPinsOf(l) = {}
    BY <1>1, <2>1
  <2>5. outs = {}
    BY <1>2, <2>1, <2>3, <2>4, PinsOfNet
  <2>6. ios = {DriverPin(cells, l)}
    BY <1>2, <2>3, <2>4, PinsOfNet
  <2>. QED  BY <2>3, <2>5, <2>6 DEF net_to_gate
<1>. QED  BY <1>3, <1>4 DEF Nets

LEMMA NewBindings ==
  ASSUME NEW cells \in Bindings, NEW n \in Gates, NEW c \in Candidates[n]
  PROVE  [cells EXCEPT ![n] = c] \in Bindings /\ [cells EXCEPT ![n] = c][n] = c
<1>. DEFINE new == [cells EXCEPT ![n] = c]
<1>1. cells \in [Gates -> Cells] /\ \A m \in Gates : cells[m] \in Candidates[m]
  BY DEF Bindings
<1>2. c \in Cells
  BY CutAssumption
<1>3. new \in [Gates -> Cells] /\ new[n] = c
  BY <1>1, <1>2
<1>4. \A m \in Gates : new[m] \in Candidates[m]
  BY <1>1
<1>. QED  BY <1>3, <1>4 DEF Bindings

\* The pins that are not of gate n do not depend on its cell.
LEMMA OtherPins ==
  ASSUME NEW cells \in Bindings, NEW n \in Gates, NEW c \in Candidates[n], NEW l \in Nets
  PROVE  Dropped(Netlist([cells EXCEPT ![n] = c])[l], n) = Dropped(Netlist(cells)[l], n)
<1>. DEFINE new == [cells EXCEPT ![n] = c]
<1>1. new \in Bindings
  BY NewBindings
<1>2. \A m \in Gates \ {n} : new[m] = cells[m]
  BY DEF Bindings
<1>3. \A m \in Gates \ {n} : ReaderPins(new, l, m) = ReaderPins(cells, l, m)
  BY <1>2 DEF ReaderPins
<1>4. \A p \in ReaderPins(new, l, n) \cup ReaderPins(cells, l, n) : p.cellname = n
  BY <1>1, ReaderPinNames
<1>5. l # n => DriverPin(new, l) = DriverPin(cells, l)
  BY <1>2 DEF DriverPin, Nets
<1>6. l = n => DriverPin(new, l).cellname = n /\ DriverPin(cells, l).cellname = n
  BY NameAssumption DEF DriverPin, Pin
<1>7. ASSUME NEW p
      PROVE  p \in Dropped(Netlist(new)[l], n) <=> p \in Dropped(Netlist(cells)[l], n)
  <2>. HIDE DEF new
  <2>1. p \in Netlist(new)[l] /\ p.cellname # n => p \in Netlist(cells)[l]
    BY <1>3, <1>4, <1>5, <1>6, PinsOfNet
  <2>2. p \in Netlist(cells)[l] /\ p.cellname # n => p \in Netlist(new)[l]
    BY <1>3, <1>4, <1>5, <1>6, PinsOfNet
  <2>. QED  BY <2>1, <2>2 DEF Dropped
<1>. QED  BY <1>7 DEF Dropped

\* The pins a gate has on a net, for any cell.
OwnPin(n, c, l) ==
  IF l = n THEN {Pin(n, OutputName[c])}
  ELSE IF l \in Range(Cut[n][c]) THEN {Pin(n, cut_to_pin_map(n, c)[l])}
  ELSE {}

LEMMA OwnPins ==
  ASSUME NEW cells \in Bindings, NEW n \in Gates, NEW l \in Nets
  PROVE  Netlist(cells)[l] = Dropped(Netlist(cells)[l], n) \cup OwnPin(n, cells[n], l)
<1>1. cells[n] \in Candidates[n]
  BY DEF Bindings
<1>2. \A m \in Gates : \A p \in ReaderPins(cells, l, m) : p.cellname = m
  BY ReaderPinNames
<1>3. \A p \in OutputPinsOf(l) : p.cellname # n
  BY NameAssumption DEF OutputPinsOf, Pin
<1>4. ReaderPins(cells, l, n) = IF l \in Range(Cut[n][cells[n]])
                                THEN {Pin(n, cut_to_pin_map(n, cells[n])[l])} ELSE {}
  BY <1>1, OnePinEach DEF ReaderPins
<1>5. n \notin Range(Cut[n][cells[n]])
  <2>1. Cut[n][cells[n]] \in Seq(Nets \ {n})
    BY <1>1, CutAssumption
  <2>2. \A i \in DOMAIN Cut[n][cells[n]] : Cut[n][cells[n]][i] \in Nets \ {n}
    BY <2>1
  <2>. QED  BY <2>2 DEF Range
<1>6. l # n => DriverPin(cells, l).cellname # n
  BY NameAssumption DEF DriverPin, Pin
<1>7. l = n => DriverPin(cells, l) = Pin(n, OutputName[cells[n]])
  BY NameAssumption DEF DriverPin
<1>8. ASSUME NEW p
      PROVE  p \in Netlist(cells)[l] /\ p.cellname = n <=> p \in OwnPin(n, cells[n], l)
  <2>1. CASE l = n
    <3>1. ReaderPins(cells, l, n) = {}
      BY <1>4, <1>5, <2>1
    <3>2. OwnPin(n, cells[n], l) = {DriverPin(cells, l)} /\ DriverPin(cells, l).cellname = n
      BY <1>7, <2>1 DEF OwnPin, Pin
    <3>. QED  BY <1>2, <1>3, <3>1, <3>2, PinsOfNet
  <2>2. CASE l # n
    <3>1. OwnPin(n, cells[n], l) = ReaderPins(cells, l, n)
      BY <1>4, <2>2 DEF OwnPin
    <3>. QED  BY <1>2, <1>3, <1>6, <2>2, <3>1, PinsOfNet
  <2>. QED  BY <2>1, <2>2
<1>. QED  BY <1>8 DEF Dropped

-----------------------------------------------------------------------------
(***************************************************************************)
(* The invariant                                                           *)
(***************************************************************************)

IInv == TypeOK /\ TableIsNetlist /\ TimerIsNetlist

LEMMA TypeGivesBindings ==
  ASSUME TypeOK
  PROVE  node_to_gate_map \in Bindings
BY DEF TypeOK, Bindings

LEMMA InitIInv == Init => IInv
<1>. SUFFICES ASSUME Init PROVE IInv
  OBVIOUS
<1>1. TypeOK
  <2>1. Original \in [Gates -> Cells]
    BY OriginalAssumption
  <2>2. \A n \in Gates : Original[n] \in Candidates[n]
    BY CutAssumption
  <2>. QED  BY <2>1, <2>2 DEF Init, TypeOK, Netlist
<1>. QED  BY <1>1 DEF Init, IInv, TableIsNetlist, TimerIsNetlist

\* Renaming the pins of a gate in a net it has pins on.
LEMMA RenamedNet ==
  ASSUME NEW pins, NEW n, NEW name, NEW own,
         pins = Dropped(pins, n) \cup own,
         \A p \in own : p.cellname = n
  PROVE  Renamed(pins, n, name) =
           Dropped(pins, n) \cup (IF own = {} THEN {} ELSE {Pin(n, name)})
<1>1. ASSUME NEW q \in Renamed(pins, n, name)
      PROVE  q \in Dropped(pins, n) \/ (own # {} /\ q = Pin(n, name))
  <2>1. PICK p \in pins : q = IF p.cellname = n THEN Pin(n, name) ELSE p
    BY <1>1 DEF Renamed
  <2>2. CASE p.cellname = n
    <3>1. p \in own
      BY <2>2 DEF Dropped
    <3>. QED  BY <2>1, <2>2, <3>1
  <2>3. CASE p.cellname # n
    BY <2>1, <2>3 DEF Dropped
  <2>. QED  BY <2>2, <2>3
<1>2. ASSUME NEW q \in Dropped(pins, n) PROVE q \in Renamed(pins, n, name)
  <2>1. q \in pins /\ q.cellname # n
    BY <1>2 DEF Dropped
  <2>. QED  BY <2>1 DEF Renamed
<1>3. ASSUME own # {} PROVE Pin(n, name) \in Renamed(pins, n, name)
  <2>1. PICK p \in own : p.cellname = n
    BY <1>3
  <2>2. p \in pins
    OBVIOUS
  <2>. QED  BY <2>1, <2>2 DEF Renamed
<1>. QED  BY <1>1, <1>2, <1>3

\* The net behind the remapped gate.
LEMMA OwnNet ==
  ASSUME NEW cells \in Bindings, NEW n \in Gates, NEW c \in Candidates[n]
  PROVE  Renamed(Netlist(cells)[n], n, OutputName[c]) = Netlist([cells EXCEPT ![n] = c])[n]
<1>. DEFINE new == [cells EXCEPT ![n] = c]
            pins == Netlist(cells)[n]
            own == OwnPin(n, cells[n], n)
<1>1. n \in Nets
  BY DEF Nets
<1>2. own # {} /\ \A p \in own : p.cellname = n
  BY DEF OwnPin, Pin
<1>3. pins = Dropped(pins, n) \cup own
  BY <1>1, OwnPins
<1>4. Renamed(pins, n, OutputName[c]) = Dropped(pins, n) \cup {Pin(n, OutputName[c])}
  <2>. HIDE DEF pins, own
  <2>. QED  BY <1>2, <1>3, RenamedNet
<1>5. new \in Bindings /\ new[n] = c
  BY NewBindings
<1>6. Netlist(new)[n] = Dropped(Netlist(new)[n], n) \cup {Pin(n, OutputName[c])}
  <2>1. OwnPin(n, new[n], n) = {Pin(n, OutputName[c])}
    BY <1>5 DEF OwnPin
  <2>. HIDE DEF new
  <2>. QED  BY <1>1, <1>5, <2>1, OwnPins
<1>7. Dropped(Netlist(new)[n], n) = Dropped(pins, n)
  BY <1>1, OtherPins
<1>. QED  BY <1>4, <1>6, <1>7

\* A net that the old or the new cell reads.
LEMMA EditedNet ==
  ASSUME NEW cells \in Bindings, NEW n \in Gates, NEW c \in Candidates[n],
         NEW l \in Nets, l # n,
         l \in Range(Cut[n][cells[n]]) \cup Range(Cut[n][c])
  PROVE  Edited(Netlist(cells)[l], n, c, Range(Cut[n][cells[n]]))
           = Netlist([cells EXCEPT ![n] = c])[l]
<1>. DEFINE new == [cells EXCEPT ![n] = c]
            pins == Netlist(cells)[l]
            own == OwnPin(n, cells[n], l)
            before == Range(Cut[n][cells[n]])
            name == cut_to_pin_map(n, c)[l]
<1>1. net_to_gate(pins) = l
  BY DriverFound
<1>2. \A p \in own : p.cellname = n
  BY DEF OwnPin, Pin
<1>3. own = {} <=> l \notin before
  BY DEF OwnPin
<1>4. pins = Dropped(pins, n) \cup own
  BY OwnPins
<1>5. Renamed(pins, n, name) = Dropped(pins, n) \cup (IF own = {} THEN {} ELSE {Pin(n, name)})
  <2>. HIDE DEF pins, own, name
  <2>. QED  BY <1>2, <1>4, RenamedNet
<1>6. new \in Bindings /\ new[n] = c
  BY NewBindings
<1>7. Netlist(new)[l] = Dropped(pins, n) \cup OwnPin(n, c, l)
  <2>1. Dropped(Netlist(new)[l], n) = Dropped(pins, n)
    BY OtherPins
  <2>2. Netlist(new)[l] = Dropped(Netlist(new)[l], n) \cup OwnPin(n, new[n], l)
    <3>. HIDE DEF new
    <3>. QED  BY <1>6, OwnPins
  <2>. QED  BY <1>6, <2>1, <2>2
<1>8. CASE l \in Range(Cut[n][c])
  <2>1. OwnPin(n, c, l) = {Pin(n, name)}
    BY <1>8 DEF OwnPin
  <2>2. Edited(pins, n, c, before) =
          Renamed(pins, n, name) \cup (IF l \in before THEN {} ELSE {Pin(n, name)})
    <3>. HIDE DEF pins, before
    <3>. QED  BY <1>1, <1>8 DEF Edited
  <2>. HIDE DEF pins, before, own, name, new
  <2>3. Edited(pins, n, c, before) = Netlist(new)[l]
    <3>1. CASE l \in before
      BY <1>3, <1>5, <1>7, <2>1, <2>2, <3>1
    <3>2. CASE l \notin before
      BY <1>3, <1>5, <1>7, <2>1, <2>2, <3>2
    <3>. QED  BY <3>1, <3>2
  <2>. QED  BY <2>3 DEF pins, before, new
<1>9. CASE l \notin Range(Cut[n][c])
  <2>1. OwnPin(n, c, l) = {}
    BY <1>9 DEF OwnPin
  <2>2. Edited(pins, n, c, before) = Dropped(pins, n)
    <3>. HIDE DEF pins, before
    <3>. QED  BY <1>1, <1>9 DEF Edited
  <2>. QED  BY <1>7, <2>1, <2>2
<1>. QED  BY <1>8, <1>9

\* Any other net.
LEMMA KeptNet ==
  ASSUME NEW cells \in Bindings, NEW n \in Gates, NEW c \in Candidates[n],
         NEW l \in Nets, l # n,
         l \notin Range(Cut[n][cells[n]]), l \notin Range(Cut[n][c])
  PROVE  /\ Netlist([cells EXCEPT ![n] = c])[l] = Netlist(cells)[l]
         /\ Dropped(Netlist(cells)[l], n) = Netlist(cells)[l]
<1>. DEFINE new == [cells EXCEPT ![n] = c]
<1>1. new \in Bindings /\ new[n] = c
  BY NewBindings
<1>2. OwnPin(n, cells[n], l) = {} /\ OwnPin(n, c, l) = {}
  BY DEF OwnPin
<1>3. Netlist(cells)[l] = Dropped(Netlist(cells)[l], n)
  <2>1. Netlist(cells)[l] = Dropped(Netlist(cells)[l], n) \cup OwnPin(n, cells[n], l)
    BY OwnPins
  <2>. QED  BY <1>2, <2>1
<1>4. Netlist(new)[l] = Dropped(Netlist(new)[l], n)
  <2>. HIDE DEF new
  <2>1. Netlist(new)[l] = Dropped(Netlist(new)[l], n) \cup OwnPin(n, new[n], l)
    BY <1>1, OwnPins
  <2>2. OwnPin(n, new[n], l) = {}
    BY <1>1, <1>2
  <2>. QED  BY <2>1, <2>2
<1>5. Dropped(Netlist(new)[l], n) = Dropped(Netlist(cells)[l], n)
  BY OtherPins
<1>. QED  BY <1>3, <1>4, <1>5

\* The timer has every pin of a netlist of its cells.
LEMMA AllConnected ==
  ASSUME NEW cells \in Bindings, NEW l \in Nets
  PROVE  Connected(Netlist(cells)[l], cells) = Netlist(cells)[l]
<1>1. ASSUME NEW p \in Netlist(cells)[l] PROVE PinExists(p, cells)
  <2>1. CASE p = DriverPin(cells, l)
    BY <2>1 DEF DriverPin, Pin, PinExists
  <2>2. CASE \E n \in Gates : p \in ReaderPins(cells, l, n)
    BY <2>2, ReaderPinNames DEF PinExists
  <2>3. CASE p \in OutputPinsOf(l)
    BY <2>3 DEF OutputPinsOf, Pin, PinExists
  <2>. QED  BY <2>1, <2>2, <2>3, PinsOfNet
<1>. QED  BY <1>1 DEF Connected

\* One step of the solver: every net becomes the net of the new cells.
LEMMA RemapIInv ==
  ASSUME IInv, NEW n \in Gates, NEW c \in Candidates[n], Remap(n, c)
  PROVE  IInv'
<1>. DEFINE cells == node_to_gate_map
            new == [cells EXCEPT ![n] = c]
            before == Range(node_cut_map[n])
            updated == {l \in before \cup Range(Cut[n][c]) :
                          Recognised(PlaceInfo_net[l], n, c, before)}
<1>1. cells \in Bindings
  BY TypeGivesBindings DEF IInv
<1>2. before = Range(Cut[n][cells[n]])
  BY DEF IInv, TypeOK
<1>3. PlaceInfo_net = Netlist(cells) /\ timer_net = Netlist(cells)
  BY DEF IInv, TableIsNetlist, TimerIsNetlist
<1>4. /\ node_cut_map' = [node_cut_map EXCEPT ![n] = Cut[n][c]]
      /\ node_to_gate_map' = new
      /\ PlaceInfo_net' =
           [l \in Nets |->
              IF l = n THEN Renamed(PlaceInfo_net[l], n, OutputName[c])
              ELSE IF l \in updated THEN Edited(PlaceInfo_net[l], n, c, before)
              ELSE PlaceInfo_net[l]]
      /\ timer_net' =
           [l \in Nets |->
              IF l = n \/ l \in updated
              THEN Connected(PlaceInfo_net'[l], new)
              ELSE Dropped(timer_net[l], n)]
  BY DEF Remap, Bound
<1>5. new \in Bindings /\ new[n] = c
  BY <1>1, NewBindings
<1>6. before \subseteq Nets /\ Range(Cut[n][c]) \subseteq Nets
  <2>1. cells[n] \in Candidates[n]
    BY <1>1 DEF Bindings
  <2>2. Cut[n][cells[n]] \in Seq(Nets \ {n}) /\ Cut[n][c] \in Seq(Nets \ {n})
    BY <2>1, CutAssumption
  <2>3. \A s \in Seq(Nets \ {n}) : Range(s) \subseteq Nets
    BY DEF Range
  <2>. QED  BY <1>2, <2>2, <2>3
<1>7. updated = before \cup Range(Cut[n][c])
  <2>1. \A l \in before \cup Range(Cut[n][c]) : net_to_gate(PlaceInfo_net[l]) = l
    BY <1>1, <1>3, <1>6, DriverFound
  <2>. QED  BY <2>1 DEF Recognised
<1>8. ASSUME NEW l \in Nets
      PROVE  PlaceInfo_net'[l] = Netlist(new)[l] /\ timer_net'[l] = Netlist(new)[l]
  <2>1. Connected(Netlist(new)[l], new) = Netlist(new)[l]
    <3>. HIDE DEF new
    <3>. QED  BY <1>5, AllConnected
  <2>2. CASE l = n
    <3>1. PlaceInfo_net'[l] = Renamed(Netlist(cells)[n], n, OutputName[c])
      BY <1>3, <1>4, <2>2
    <3>2. PlaceInfo_net'[l] = Netlist(new)[l]
      BY <1>1, <2>2, <3>1, OwnNet
    <3>3. timer_net'[l] = Connected(PlaceInfo_net'[l], new)
      BY <1>4, <2>2
    <3>. QED  BY <2>1, <3>2, <3>3
  <2>3. CASE l # n /\ l \in before \cup Range(Cut[n][c])
    <3>1. PlaceInfo_net'[l] = Edited(Netlist(cells)[l], n, c, Range(Cut[n][cells[n]]))
      <4>. HIDE DEF updated, before, new
      <4>. QED  BY <1>2, <1>3, <1>4, <1>7, <2>3
    <3>2. l \in Range(Cut[n][cells[n]]) \cup Range(Cut[n][c])
      BY <1>2, <2>3
    <3>3. PlaceInfo_net'[l] = Netlist(new)[l]
      BY <1>1, <2>3, <3>1, <3>2, EditedNet
    <3>4. timer_net'[l] = Connected(PlaceInfo_net'[l], new)
      <4>. HIDE DEF updated, before, new
      <4>. QED  BY <1>4, <1>7, <2>3
    <3>. QED  BY <2>1, <3>3, <3>4
  <2>4. CASE l # n /\ l \notin before \cup Range(Cut[n][c])
    <3>1. PlaceInfo_net'[l] = Netlist(cells)[l] /\ timer_net'[l] = Dropped(Netlist(cells)[l], n)
      <4>. HIDE DEF updated, before, new
      <4>. QED  BY <1>3, <1>4, <1>7, <2>4
    <3>2. l \notin Range(Cut[n][cells[n]]) /\ l \notin Range(Cut[n][c])
      BY <1>2, <2>4
    <3>. QED  BY <1>1, <2>4, <3>1, <3>2, KeptNet
  <2>. QED  BY <2>2, <2>3, <2>4
<1>9. TypeOK'
  <2>. HIDE DEF new, updated, before
  <2>1. node_to_gate_map' \in [Gates -> Cells]
    BY <1>4, <1>5 DEF Bindings
  <2>2. ASSUME NEW m \in Gates
        PROVE  /\ node_to_gate_map'[m] \in Candidates[m]
               /\ node_cut_map'[m] = Cut[m][node_to_gate_map'[m]]
    <3>1. node_to_gate_map'[m] \in Candidates[m]
      BY <1>4, <1>5 DEF Bindings
    <3>2. CASE m = n
      <4>1. node_cut_map'[m] = Cut[n][c]
        BY <1>4, <3>2 DEF IInv, TypeOK
      <4>. QED  BY <1>4, <1>5, <3>1, <3>2, <4>1
    <3>3. CASE m # n
      <4>1. new[m] = cells[m]
        BY <3>3 DEF new
      <4>2. node_cut_map'[m] = node_cut_map[m]
        BY <1>4, <3>3 DEF IInv, TypeOK
      <4>. QED  BY <1>4, <3>1, <4>1, <4>2 DEF IInv, TypeOK
    <3>. QED  BY <3>2, <3>3
  <2>3. node_cut_map' = [m \in Gates |-> node_cut_map'[m]]
    BY <1>4 DEF IInv, TypeOK
  <2>4. node_cut_map' = [m \in Gates |-> Cut[m][node_to_gate_map'[m]]]
    BY <2>2, <2>3
  <2>5. DOMAIN PlaceInfo_net' = Nets /\ DOMAIN timer_net' = Nets
    BY <1>4
  <2>. QED  BY <2>1, <2>2, <2>4, <2>5 DEF TypeOK
<1>10. PlaceInfo_net' = Netlist(new) /\ timer_net' = Netlist(new)
  <2>. HIDE DEF new, updated, before
  <2>1. PlaceInfo_net' = [l \in Nets |-> PlaceInfo_net'[l]]
    BY <1>4
  <2>2. timer_net' = [l \in Nets |-> timer_net'[l]]
    BY <1>4
  <2>3. Netlist(new) = [l \in Nets |-> Netlist(new)[l]]
    BY DEF Netlist
  <2>. QED  BY <1>8, <2>1, <2>2, <2>3
<1>. QED  BY <1>4, <1>9, <1>10 DEF IInv, TableIsNetlist, TimerIsNetlist

LEMMA StutterIInv == IInv /\ UNCHANGED vars => IInv'
BY DEF IInv, TypeOK, TableIsNetlist, TimerIsNetlist, vars

\* The invariant holds in every state of the solver.
THEOREM Invariance == Spec => []IInv
<1>1. IInv /\ [Next]_vars => IInv'
  BY RemapIInv, StutterIInv DEF Next
<1>. QED  BY InitIInv, <1>1, PTL DEF Spec

\* Cells and cuts that are noted for a gate always go together.
THEOREM TypeCorrect == Spec => []TypeOK
BY Invariance, PTL DEF IInv

\* The edited table of nets is the one of the present cells.
THEOREM TableExact == Spec => []TableIsNetlist
BY Invariance, PTL DEF IInv

\* The netlist in the timer is the one of the present cells.
THEOREM TimerExact == Spec => []TimerIsNetlist
BY Invariance, PTL DEF IInv

\* A remap takes no pin of another gate off its net.
THEOREM Local == Spec => RemapIsLocal
<1>. DEFINE Step == \A n \in Gates : node_cut_map'[n] # node_cut_map[n] =>
                      \A l \in Nets : Dropped(timer_net'[l], n) = Dropped(timer_net[l], n)
<1>1. IInv /\ IInv' /\ [Next]_vars => [Step]_vars
  <2>. SUFFICES ASSUME IInv, IInv', Next, NEW m \in Gates,
                       node_cut_map'[m] # node_cut_map[m], NEW l \in Nets
                PROVE  Dropped(timer_net'[l], m) = Dropped(timer_net[l], m)
    BY DEF vars
  <2>0. PICK n \in Gates : \E c \in Candidates[n] : Remap(n, c)
    BY DEF Next
  <2>1. PICK c \in Candidates[n] : Remap(n, c)
    BY <2>0
  <2>2. /\ node_cut_map' = [node_cut_map EXCEPT ![n] = Cut[n][c]]
        /\ node_to_gate_map' = [node_to_gate_map EXCEPT ![n] = c]
    BY <2>1 DEF Remap, Bound
  <2>3. m = n
    BY <2>2
  <2>4. /\ timer_net = Netlist(node_to_gate_map)
        /\ timer_net' = Netlist([node_to_gate_map EXCEPT ![n] = c])
    BY <2>2 DEF IInv, TimerIsNetlist
  <2>5. node_to_gate_map \in Bindings
    BY TypeGivesBindings DEF IInv
  <2>. QED  BY <2>3, <2>4, <2>5, OtherPins
<1>2. Spec => [][Step]_vars
  BY Invariance, <1>1, PTL DEF Spec
<1>. QED  BY <1>2 DEF RemapIsLocal

=============================================================================
