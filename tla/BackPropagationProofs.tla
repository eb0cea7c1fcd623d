------------------------- MODULE BackPropagationProofs -------------------------
(***************************************************************************)
(* What the passes guarantee for every network, library and floorplan.     *)
(***************************************************************************)
EXTENDS RowSearch, FiniteLemmas, TLAPS

-----------------------------------------------------------------------------
(***************************************************************************)
(* Finite sets                                                             *)
(***************************************************************************)

\* A gate has finitely many candidates, at least one.
LEMMA FiniteCandidates ==
  ASSUME NEW n \in Gates
  PROVE  /\ IsFiniteSet(Candidates[n])
         /\ Cardinality(Candidates[n]) \in Nat \ {0}
<1>1. Candidates[n] \in SUBSET Cells /\ Candidates[n] # {}
  BY LibraryAssumption
<1>2. IsFiniteSet(Candidates[n])
  BY <1>1, LibraryAssumption, FS_Subset
<1>. QED  BY <1>1, <1>2, FS_CardinalityType, FS_EmptySet

\* There are finitely many gates.
LEMMA FiniteGates == IsFiniteSet(Gates)
<1>1. IsFiniteSet(Nodes)
  BY NetworkAssumption, FS_Interval DEF Nodes
<1>. QED  BY <1>1, NetworkAssumption, FS_Subset

\* A node is counted finitely often.
LEMMA FiniteUses ==
  ASSUME NEW l
  PROVE  IsFiniteSet(Uses(l)) /\ Cardinality(Uses(l)) \in Nat
<1>1. IsFiniteSet(Gates \X Cells)
  BY FiniteGates, LibraryAssumption, FS_Product
<1>2. Uses(l) \in SUBSET (Gates \X Cells)
  BY DEF Uses
<1>. QED  BY <1>1, <1>2, FS_Subset, FS_CardinalityType

-----------------------------------------------------------------------------
(***************************************************************************)
(* The choice of a cell and of a row                                       *)
(***************************************************************************)

\* The chosen cell is the one the gate has or an affordable candidate for
\* which a row was found.
LEMMA ChosenCell ==
  ASSUME NEW n \in Gates, NEW test \in TestGates(n),
         cell_type[n] \in Candidates[n]
  PROVE  LET g == ChosenGate(n, test)
         IN /\ g \in Candidates[n]
            /\ \/ g = cell_type[n]
               \/ Affordable(n, g) /\ HasGoodRow(n, g)
<1> DEFINE S == {g \in Candidates[n] : Affordable(n, g)}
           good == {i \in DOMAIN test : HasGoodRow(n, test[i])}
<1>1. /\ DOMAIN test \in SUBSET Nat
      /\ \A i \in DOMAIN test : test[i] \in S
  <2>1. \/ test = <<>>
        \/ \E g \in S : test = <<g>>
        \/ test \in S \X S
    BY DEF TestGates
  <2>. HIDE DEF S
  <2>. QED  BY <2>1
<1>2. CASE good = {}
  BY <1>2 DEF ChosenGate
<1>3. CASE good # {}
  <2>1. good \in SUBSET Nat
    BY <1>1
  <2>2. Min(good) \in good
    <3>. HIDE DEF good
    <3>. QED  BY <2>1, <1>3, LeastOfNats
  <2>3. ChosenGate(n, test) = test[Min(good)]
    BY <1>3 DEF ChosenGate
  <2>. QED  BY <1>1, <2>2, <2>3
<1>. QED  BY <1>2, <1>3

\* The chosen row is a row of the height of the cell and has room for it.
LEMMA ChosenRow ==
  ASSUME NEW n \in Gates, NEW g \in Cells, NEW y, IsChosenRow(n, g, y)
  PROVE  y \in ToSet(Rows[Height[g]]) /\ y \in AllRows /\ HasRoom(g, y)
<1>1. \E i \in DOMAIN Rows[Height[g]] : y = Rows[Height[g]][i] /\ HasRoom(g, Rows[Height[g]][i])
  BY DEF IsChosenRow
<1>2. Height[g] \in {"8T", "12T"}
  BY LibraryAssumption DEF Heights
<1>. QED  BY <1>1, <1>2 DEF ToSet, AllRows

-----------------------------------------------------------------------------
(***************************************************************************)
(* The queue                                                               *)
(***************************************************************************)

\* A sequence of SetToSeqs(S) has every element of S once.
LEMMA SeqOfSet ==
  ASSUME NEW S, IsFiniteSet(S), NEW s \in SetToSeqs(S)
  PROVE  /\ s \in Seq(S)
         /\ DOMAIN s = 1 .. Len(s)
         /\ \A i, j \in DOMAIN s : i # j => s[i] # s[j]
         /\ \A x \in S : \E i \in DOMAIN s : s[i] = x
<1> DEFINE D == 1 .. Cardinality(S)
           T == {s[i] : i \in D}
<1>1. Cardinality(S) \in Nat
  BY FS_CardinalityType
<1>2. s \in [D -> S] /\ \A i, j \in D : i # j => s[i] # s[j]
  BY DEF SetToSeqs
<1>3. s \in Seq(S) /\ DOMAIN s = 1 .. Len(s)
  BY <1>1, <1>2
<1>4. IsFiniteSet(D) /\ Cardinality(D) = Cardinality(S)
  BY <1>1, FS_Interval
<1>5. s \in Surjection(D, T) /\ s \in Injection(D, T)
  BY <1>2 DEF Surjection, Injection, IsInjective
<1>6. Cardinality(T) = Cardinality(S)
  <2>. HIDE DEF D, T
  <2>. QED  BY <1>4, <1>5, FS_Surjection
<1>7. T = S
  <2>1. T \in SUBSET S
    BY <1>2
  <2>. HIDE DEF T
  <2>. QED  BY <2>1, <1>6, FS_Subset
<1>. QED  BY <1>2, <1>3, <1>7

\* What a step appends to the queue.
LEMMA ReadyOrder ==
  ASSUME NEW n \in Gates, NEW order \in SetToSeqs(ReadyLeaves(n))
  PROVE  /\ order \in Seq(Nodes)
         /\ \A i \in DOMAIN order : order[i] \in ReadyLeaves(n)
         /\ \A i, j \in DOMAIN order : i # j => order[i] # order[j]
         /\ \A l \in ReadyLeaves(n) : \E i \in DOMAIN order : order[i] = l
<1>1. ReadyLeaves(n) \in SUBSET Nodes
  BY NetworkAssumption DEF ReadyLeaves
<1>2. IsFiniteSet(Nodes)
  BY NetworkAssumption, FS_Interval DEF Nodes
<1>3. IsFiniteSet(ReadyLeaves(n))
  BY <1>1, <1>2, FS_Subset
<1>4. /\ order \in Seq(ReadyLeaves(n))
      /\ \A i, j \in DOMAIN order : i # j => order[i] # order[j]
      /\ \A l \in ReadyLeaves(n) : \E i \in DOMAIN order : order[i] = l
  BY <1>3, SeqOfSet
<1>. QED  BY <1>1, <1>4

\* What the queue of a pass starts with.
LEMMA RootQueue ==
  ASSUME NEW q \in RootQueues
  PROVE  /\ q \in Seq(Nodes)
         /\ \A i \in DOMAIN q : IsRoot(q[i])
         /\ \A i \in DOMAIN POs : IsRoot(POs[i]) => \E k \in DOMAIN q : q[k] = POs[i]
         /\ DistinctPOs => \A i, j \in DOMAIN q : i # j => q[i] # q[j]
<1> DEFINE S == {i \in DOMAIN POs : IsRoot(POs[i])}
<1>1. PICK s \in SetToSeqs(S) : q = [i \in DOMAIN s |-> POs[s[i]]]
  BY DEF RootQueues, IncreasingSeqs
<1>2. IsFiniteSet(S)
  <2>1. DOMAIN POs = 1 .. Len(POs) /\ Len(POs) \in Nat
    BY NetworkAssumption
  <2>2. IsFiniteSet(DOMAIN POs)
    BY <2>1, FS_Interval
  <2>. QED  BY <2>2, FS_Subset
<1>3. /\ s \in Seq(S)
      /\ DOMAIN s = 1 .. Len(s)
      /\ \A i, j \in DOMAIN s : i # j => s[i] # s[j]
      /\ \A x \in S : \E i \in DOMAIN s : s[i] = x
  <2>. HIDE DEF S
  <2>. QED  BY <1>2, SeqOfSet
<1>4. \A i \in DOMAIN s : s[i] \in S
  <2>. HIDE DEF S
  <2>. QED  BY <1>3
<1>5. \A i \in S : POs[i] \in Nodes
  BY NetworkAssumption
<1>6. q \in Seq(Nodes) /\ DOMAIN q = DOMAIN s
  <2>1. Len(s) \in Nat /\ q \in [1 .. Len(s) -> Nodes]
    <3>. HIDE DEF S
    <3>. QED  BY <1>1, <1>3, <1>4, <1>5
  <2>. QED  BY <2>1, <1>3
<1>7. \A i \in DOMAIN q : q[i] = POs[s[i]]
  BY <1>1
<1>8. ASSUME DistinctPOs, NEW i \in DOMAIN q, NEW j \in DOMAIN q, i # j
      PROVE  q[i] # q[j]
  <2>1. s[i] # s[j] /\ s[i] \in DOMAIN POs /\ s[j] \in DOMAIN POs
    BY <1>3, <1>4, <1>6, <1>8
  <2>. QED  BY <2>1, <1>7, <1>8 DEF DistinctPOs
<1>. QED  BY <1>3, <1>4, <1>6, <1>7, <1>8

-----------------------------------------------------------------------------
(***************************************************************************)
(* Type correctness                                                        *)
(***************************************************************************)

\* The program starts with variables of the right types.
LEMMA TypeInit ==
  ASSUME Init
  PROVE  TypeOK
<1>1. \A l \in Gates : dp_fanouts[l] = <<>>
  BY DEF Init
<1>2. cell_type \in [Gates -> Cells] /\ \A n \in Gates : cell_type[n] \in Candidates[n]
  BY DEF Init
<1>3. res_nodes \in Seq(Nodes) /\ dp_fanouts \in [Gates -> Seq(Gates)]
  BY DEF Init
<1>4. iter_rowheight \in 0 .. Iterations /\ area_slack \in Int
  BY FloorplanAssumption DEF Init
<1>. QED  BY <1>2, <1>3, <1>4 DEF Init, TypeOK

\* The step that places a gate keeps the types.
LEMMA TypePlaceGate ==
  ASSUME TypeOK, status = "pass", NEW n \in Gates, NEW g \in Candidates[n],
         NEW y \in AllRows, res_nodes # <<>>, PlaceGate(n, g, y)
  PROVE  TypeOK'
<1> USE DEF PlaceGate
<1>0. g \in Cells /\ Cardinality(Candidates[n]) \in Nat
  BY LibraryAssumption, FiniteCandidates
<1>e. /\ area_slack' = area_slack + Area[cell_type[n]] - Area[g]
      /\ cell_type' = [cell_type EXCEPT ![n] = g]
  BY DEF Exchange
<1>1. area_slack' \in Int /\ cell_type' \in [Gates -> Cells]
  <2>. HIDE DEF PlaceGate
  <2>1. cell_type[n] \in Cells
    BY DEF TypeOK
  <2>2. Area[cell_type[n]] \in Int /\ Area[g] \in Int
    BY <2>1, <1>0, LibraryAssumption
  <2>. QED  BY <1>e, <1>0, <2>2 DEF TypeOK
<1>2. \A m \in Gates : cell_type'[m] \in Candidates[m]
  <2>. HIDE DEF PlaceGate
  <2>. QED  BY <1>e DEF TypeOK
<1>3. final_y' \in [Gates -> AllRows \cup {0, -1}]
  BY DEF TypeOK
<1>4. row_density_map' \in [AllRows -> Nat]
  <2>1. Width[g] \in Nat
    BY <1>0, LibraryAssumption
  <2>2. row_density_map \in [AllRows -> Nat]
    BY DEF TypeOK
  <2>3. row_density_map[y] + Width[g] \in Nat
    BY <2>1, <2>2
  <2>4. row_density_map' = [row_density_map EXCEPT ![y] = @ + Width[g]]
    OBVIOUS
  <2>. QED  BY <2>2, <2>3, <2>4
<1>5. dp_iter_map' \in [Nodes -> Int]
  BY <1>0 DEF CountDown, TypeOK
<1>6. dp_fanouts' \in [Gates -> Seq(Gates)]
  <2>1. [i \in 1 .. Cardinality(Candidates[n]) |-> n] \in Seq(Gates)
    BY <1>0
  <2>2. \A l \in Gates : dp_fanouts[l] \in Seq(Gates)
    BY DEF TypeOK
  <2>3. \A l \in Gates :
          dp_fanouts[l] \o [i \in 1 .. Cardinality(Candidates[n]) |-> n] \in Seq(Gates)
    BY <2>1, <2>2
  <2>. QED  BY <2>2, <2>3
<1>7. res_nodes' \in Seq(Nodes)
  <2>1. PICK order \in SetToSeqs(ReadyLeaves(n)) : res_nodes' = Tail(res_nodes) \o order
    OBVIOUS
  <2>2. order \in Seq(Nodes)
    BY ReadyOrder
  <2>3. Tail(res_nodes) \in Seq(Nodes)
    <3>1. res_nodes \in Seq(Nodes)
      BY DEF TypeOK
    <3>. HIDE DEF PlaceGate
    <3>. QED  BY <3>1
  <2>. HIDE DEF PlaceGate
  <2>. QED  BY <2>1, <2>2, <2>3
<1>8. placed' \in SUBSET Gates
  BY DEF TypeOK
<1>. HIDE DEF PlaceGate
<1>9. UNCHANGED <<status, iter_rowheight, phase>>
  BY DEF PlaceGate
<1>. QED  BY <1>1, <1>2, <1>3, <1>4, <1>5, <1>6, <1>7, <1>8, <1>9 DEF TypeOK

\* The counters a pass starts with are numbers.
LEMMA CountedType ==
  ASSUME TypeOK
  PROVE  Counted \in [Nodes -> Int]
BY FiniteUses DEF Counted, TypeOK

\* Every step of the program keeps the types.
LEMMA TypeNext ==
  ASSUME TypeOK, [Next]_vars
  PROVE  TypeOK'
<1>1. CASE SkipPass
  <2>1. /\ iter_rowheight' \in 0 .. Iterations
        /\ phase' \in {"tight", "slack"}
    BY <1>1, FloorplanAssumption DEF SkipPass, NextIteration, NextPhase, TypeOK
  <2>. QED  BY <1>1, <2>1 DEF SkipPass, passVars, TypeOK
<1>2. CASE StartPass
  <2>1. /\ iter_rowheight' \in 0 .. Iterations
        /\ phase' \in {"tight", "slack"}
    BY <1>2, FloorplanAssumption DEF StartPass, NextIteration, NextPhase, TypeOK
  <2>2. dp_iter_map' \in [Nodes -> Int] /\ res_nodes' \in Seq(Nodes)
    BY <1>2, CountedType, RootQueue DEF StartPass
  <2>3. /\ dp_fanouts' \in [Gates -> Seq(Gates)]
        /\ row_density_map' \in [AllRows -> Nat]
        /\ final_y' \in [Gates -> AllRows \cup {0, -1}]
    BY <1>2 DEF StartPass
  <2>. QED  BY <1>2, <2>1, <2>2, <2>3 DEF StartPass, TypeOK
<1>3. CASE EndPass
  BY <1>3 DEF EndPass, passVars, TypeOK
<1>4. CASE Finish
  BY <1>4 DEF Finish, passVars, TypeOK
<1>5. ASSUME NEW n \in Nodes, SkipInput(n)
      PROVE  TypeOK'
  <2>1. res_nodes' \in Seq(Nodes)
    BY <1>5 DEF SkipInput, Dequeue, TypeOK
  <2>. QED  BY <1>5, <2>1 DEF SkipInput, TypeOK
<1>6. ASSUME NEW n \in Gates, NEW test \in TestGates(n), ProcessGate(n, test)
      PROVE  TypeOK'
  <2>1. ChosenGate(n, test) \in Candidates[n]
    BY ChosenCell DEF TypeOK
  <2>. QED  BY <1>6, <2>1, TypePlaceGate DEF ProcessGate, Dequeue
<1>7. ASSUME NEW n \in Gates, NEW test \in TestGates(n), Crash(n, test)
      PROVE  TypeOK'
  <2>1. ChosenGate(n, test) \in Candidates[n]
    BY ChosenCell DEF TypeOK
  <2>2. ChosenGate(n, test) \in Cells
    BY <2>1, LibraryAssumption
  <2>3. area_slack' \in Int /\ cell_type' \in [Gates -> Cells]
    BY <1>7, <2>2, LibraryAssumption DEF Crash, Exchange, TypeOK
  <2>4. \A m \in Gates : cell_type'[m] \in Candidates[m]
    BY <1>7, <2>1 DEF Crash, Exchange, TypeOK
  <2>5. final_y' \in [Gates -> AllRows \cup {0, -1}]
    BY <1>7 DEF Crash, TypeOK
  <2>. QED  BY <1>7, <2>3, <2>4, <2>5 DEF Crash, TypeOK
<1>8. CASE UNCHANGED vars
  BY <1>8 DEF vars, TypeOK
<1>. QED  BY <1>1, <1>2, <1>3, <1>4, <1>5, <1>6, <1>7, <1>8 DEF Next, Stop

(***************************************************************************)
(* Type correctness: the cell of a gate is always one of its candidates,   *)
(* and a row is chosen among those of the floorplan.                       *)
(***************************************************************************)
THEOREM TypeCorrect == Spec => []TypeOK
<1>1. Init => TypeOK
  BY TypeInit
<1>2. TypeOK /\ [Next]_vars => TypeOK'
  BY TypeNext
<1>. QED  BY <1>1, <1>2, PTL DEF Spec

-----------------------------------------------------------------------------
(***************************************************************************)
(* The area budget                                                         *)
(***************************************************************************)

\* The cell that is chosen does not break the budget.
LEMMA BudgetExchange ==
  ASSUME TypeOK, NEW n \in Gates, NEW test \in TestGates(n),
         Exchange(n, ChosenGate(n, test))
  PROVE  BudgetStep
<1> DEFINE g == ChosenGate(n, test)
<1>1. /\ g \in Candidates[n]
      /\ g = cell_type[n] \/ Affordable(n, g)
  BY ChosenCell DEF TypeOK
<1>2. area_slack' = area_slack + Area[cell_type[n]] - Area[g]
  BY DEF Exchange
<1>3. Area[cell_type[n]] \in Nat /\ Area[g] \in Nat /\ area_slack \in Int
  BY <1>1, LibraryAssumption DEF TypeOK
<1>. HIDE DEF g
<1>4. CASE g = cell_type[n]
  BY <1>2, <1>3, <1>4 DEF BudgetStep
<1>5. CASE Affordable(n, g)
  BY <1>2, <1>3, <1>5 DEF BudgetStep, Affordable
<1>. QED  BY <1>1, <1>4, <1>5

\* Every step keeps the budget.
LEMMA BudgetNext ==
  ASSUME TypeOK, [Next]_vars
  PROVE  BudgetStep
<1>0. area_slack' = area_slack => BudgetStep
  BY DEF TypeOK, BudgetStep
<1>1. CASE SkipPass \/ StartPass \/ EndPass \/ Finish
  BY <1>0, <1>1 DEF SkipPass, StartPass, EndPass, Finish
<1>2. ASSUME NEW n \in Nodes, SkipInput(n)
      PROVE  BudgetStep
  BY <1>0, <1>2 DEF SkipInput
<1>3. ASSUME NEW n \in Gates, NEW test \in TestGates(n), ProcessGate(n, test)
      PROVE  BudgetStep
  BY <1>3, BudgetExchange DEF ProcessGate, PlaceGate
<1>4. ASSUME NEW n \in Gates, NEW test \in TestGates(n), Crash(n, test)
      PROVE  BudgetStep
  BY <1>4, BudgetExchange DEF Crash
<1>5. CASE UNCHANGED vars
  BY <1>0, <1>5 DEF vars
<1>. QED  BY <1>1, <1>2, <1>3, <1>4, <1>5 DEF Next, Stop

(***************************************************************************)
(* A design within its area budget stays within it over all iterations,    *)
(* and one that is over budget never gets worse.                           *)
(***************************************************************************)
THEOREM BudgetIsKept == Spec => BudgetKept
<1>1. TypeOK /\ [Next]_vars => BudgetStep
  BY BudgetNext
<1>2. Spec => []TypeOK
  BY TypeCorrect
<1>. QED  BY <1>1, <1>2, PTL DEF Spec, BudgetKept

-----------------------------------------------------------------------------
(***************************************************************************)
(* The search for a row                                                    *)
(***************************************************************************)

\* The numbers of the turns of a search are natural and bounded.
LEMMA TurnsBounded ==
  ASSUME NEW n \in Gates, NEW rows \in Seq(Int) \ {<<>>}, NEW i \in DOMAIN rows
  PROVE  Turn(Origin(n, rows), i) \in 0 .. 2 * Len(rows)
<1> DEFINE at == {k \in DOMAIN rows : rows[k] >= Y[n]}
<1>1. Len(rows) \in Nat \ {0} /\ DOMAIN rows = 1 .. Len(rows)
  OBVIOUS
<1>2. Origin(n, rows) \in DOMAIN rows
  <2>1. CASE at = {}
    BY <1>1, <2>1 DEF Origin
  <2>2. CASE at # {}
    <3>1. at \in SUBSET Nat
      BY <1>1
    <3>2. Min(at) \in at
      <4>. HIDE DEF at
      <4>. QED  BY <2>2, <3>1, LeastOfNats
    <3>. QED  BY <2>2, <3>2 DEF Origin
  <2>. QED  BY <2>1, <2>2
<1>. QED  BY <1>1, <1>2 DEF Turn

(***************************************************************************)
(* The greedy search finds a row whenever there is one: the first row with *)
(* room, in the order of the search, is always reached.                    *)
(***************************************************************************)
LEMMA SearchFindsRow ==
  ASSUME NEW n \in Gates, NEW g \in Cells,
         \E y \in ToSet(Rows[Height[g]]) : HasRoom(g, y)
  PROVE  \E y \in AllRows : IsChosenRow(n, g, y)
<1> DEFINE rows == Rows[Height[g]]
           turn(i) == Turn(Origin(n, rows), i)
           room == {i \in DOMAIN rows : HasRoom(g, rows[i])}
           taken == {i \in DOMAIN rows :
                       HasRoom(g, rows[i]) /\ Reached(n, g, rows, i)}
           roomTurns == {turn(i) : i \in room}
           takenTurns == {turn(i) : i \in taken}
<1>1. rows \in Seq(Int) \ {<<>>}
  BY LibraryAssumption, FloorplanAssumption DEF Heights
<1>2. Len(rows) \in Nat /\ \A i \in DOMAIN rows : turn(i) \in 0 .. 2 * Len(rows)
  BY <1>1, TurnsBounded
<1>3. room # {}
  BY DEF ToSet
<1>4. PICK i \in room : \A j \in room : turn(i) =< turn(j)
  <2>1. roomTurns \in SUBSET Nat /\ roomTurns # {}
    <3>. HIDE DEF turn
    <3>. QED  BY <1>2, <1>3
  <2>2. Min(roomTurns) \in roomTurns /\ \A t \in roomTurns : Min(roomTurns) =< t
    <3>. HIDE DEF roomTurns
    <3>. QED  BY <2>1, LeastOfNats
  <2>. QED  BY <2>2
<1>5. i \in taken
  <2>1. ASSUME NEW p \in DOMAIN rows, NEW j \in DOMAIN rows,
               turn(j) < turn(p), turn(p) =< turn(i), HasRoom(g, rows[j])
        PROVE  FALSE
    <3>1. turn(i) =< turn(j)
      BY <1>4, <2>1
    <3>2. turn(i) \in Int /\ turn(j) \in Int /\ turn(p) \in Int
      <4>. HIDE DEF turn
      <4>. QED  BY <1>2
    <3>. HIDE DEF turn
    <3>. QED  BY <2>1, <3>1, <3>2
  <2>2. Reached(n, g, rows, i)
    BY <2>1 DEF Reached
  <2>. QED  BY <2>2
<1>6. PICK k \in taken : \A j \in taken : turn(j) =< turn(k)
  <2>1. /\ takenTurns \in SUBSET Nat
        /\ takenTurns # {}
        /\ \A t \in takenTurns : t =< 2 * Len(rows)
    <3>. HIDE DEF turn
    <3>. QED  BY <1>2, <1>5
  <2>2. 2 * Len(rows) \in Nat
    BY <1>2
  <2>3. \E t \in takenTurns : \A u \in takenTurns : u =< t
    <3>. HIDE DEF takenTurns, rows
    <3>. QED  BY <2>1, <2>2, GreatestOfNats
  <2>. QED  BY <2>3
<1>7. IsChosenRow(n, g, rows[k])
  BY <1>6 DEF IsChosenRow
<1>8. rows[k] \in AllRows
  BY <1>7, ChosenRow
<1>. QED  BY <1>7, <1>8

\* A step that fails leaves the cell alone and has no row to choose from.
LEMMA CrashOfStep ==
  ASSUME TypeOK, [Next]_vars
  PROVE  CrashStep
<1>. SUFFICES ASSUME status = "pass", status' = "crashed"
              PROVE  CrashStep
  BY DEF CrashStep
<1>0. PICK n \in Gates : \E t \in TestGates(n) : Crash(n, t)
  BY DEF Next, vars, SkipPass, StartPass, EndPass, Finish, Stop, SkipInput,
         ProcessGate, PlaceGate
<1>1. PICK test \in TestGates(n) : Crash(n, test)
  BY <1>0
<1> DEFINE g == ChosenGate(n, test)
<1>2. /\ g \in Candidates[n]
      /\ g = cell_type[n] \/ HasGoodRow(n, g)
  BY ChosenCell DEF TypeOK
<1>3. g \in Cells
  BY <1>2, LibraryAssumption
<1>4. \A y \in ToSet(Rows[Height[g]]) : ~HasRoom(g, y)
  BY <1>1, <1>3, SearchFindsRow DEF Crash
<1>5. ~HasGoodRow(n, g)
  BY <1>4 DEF HasGoodRow, GoodRow
<1>6. g = cell_type[n]
  BY <1>2, <1>5
<1>7. cell_type' = cell_type
  BY <1>1, <1>6 DEF Crash, Exchange, TypeOK
<1>8. n = Head(res_nodes)
  BY <1>1 DEF Crash, Dequeue
<1>. QED  BY <1>4, <1>6, <1>7, <1>8 DEF CrashStep

(***************************************************************************)
(* A pass fails only for a gate that fits in no row of its height with the *)
(* cell it already had.                                                    *)
(***************************************************************************)
THEOREM CrashesOnlyWhenFull == Spec => CrashesWhenFull
<1>1. TypeOK /\ [Next]_vars => CrashStep
  BY CrashOfStep
<1>2. Spec => []TypeOK
  BY TypeCorrect
<1>. QED  BY <1>1, <1>2, PTL DEF Spec, CrashesWhenFull

-----------------------------------------------------------------------------
(***************************************************************************)
(* The order of a pass.  The counter of a gate is the number of its uses   *)
(* that are still to come, with -1 for "queued or placed"; the queue holds *)
(* the gates that have none to come and are not placed, each once.         *)
(***************************************************************************)
Pending(l) == {u \in Uses(l) : u[1] \notin placed}

CounterInv ==
  \A l \in Gates :
    dp_iter_map[l] = IF Uses(l) # {} /\ Pending(l) = {} THEN -1
                     ELSE Cardinality(Pending(l))

QueuedInv ==
  \A i \in DOMAIN res_nodes : res_nodes[i] \in Gates =>
    res_nodes[i] \notin placed /\ Pending(res_nodes[i]) = {}

OnceInv ==
  \A i, j \in DOMAIN res_nodes :
    i # j /\ res_nodes[i] \in Gates => res_nodes[i] # res_nodes[j]

ReadyInv ==
  \A l \in Gates : Pending(l) = {} =>
    l \in placed \/ \E i \in DOMAIN res_nodes : res_nodes[i] = l

PlacedInv == \A l \in placed : Pending(l) = {}

PassInv == CounterInv /\ QueuedInv /\ OnceInv /\ ReadyInv /\ PlacedInv

OrderInv ==
  /\ status = "pass" => PassInv
  /\ status = "idle" => placed = {} \/ placed = Gates
  /\ status = "done" => placed = Gates

\* Taking the head off a queue and appending a sequence, element by element.
LEMMA TailAppend ==
  ASSUME NEW S, NEW q \in Seq(S), q # <<>>, NEW o \in Seq(S)
  PROVE  /\ DOMAIN q = 1 .. Len(q) /\ Len(q) \in Nat \ {0}
         /\ DOMAIN o = 1 .. Len(o) /\ Len(o) \in Nat
         /\ DOMAIN (Tail(q) \o o) = 1 .. Len(q) - 1 + Len(o)
         /\ \A i \in 1 .. Len(q) - 1 : (Tail(q) \o o)[i] = q[i + 1]
         /\ \A i \in Len(q) .. Len(q) - 1 + Len(o) :
              (Tail(q) \o o)[i] = o[i - (Len(q) - 1)]
<1>1. Len(q) \in Nat \ {0} /\ Len(o) \in Nat
  OBVIOUS
<1>2. Tail(q) \in Seq(S) /\ Len(Tail(q)) = Len(q) - 1
  OBVIOUS
<1>3. \A i \in 1 .. Len(q) - 1 : Tail(q)[i] = q[i + 1]
  OBVIOUS
<1>. QED  BY <1>1, <1>2, <1>3

\* Nothing is pending for a gate no gate reads, and something for one that is read.
LEMMA UsesOfRead ==
  ASSUME NEW l \in Gates
  PROVE  Uses(l) = {} <=> \A n \in Gates : l \notin Leaves[n]
<1>1. ASSUME NEW n \in Gates, l \in Leaves[n]
      PROVE  Uses(l) # {}
  <2>1. PICK g \in Candidates[n] : g \in Cells
    BY LibraryAssumption
  <2>2. <<n, g>> \in Uses(l)
    BY <1>1, <2>1 DEF Uses
  <2>. QED  BY <2>2
<1>2. \A u \in Uses(l) : u[1] \in Gates /\ l \in Leaves[u[1]]
  BY DEF Uses
<1>. QED  BY <1>1, <1>2

\* The number of pending uses of a gate is a natural number.
LEMMA FinitePending ==
  ASSUME NEW l
  PROVE  IsFiniteSet(Pending(l)) /\ Cardinality(Pending(l)) \in Nat
<1>1. Pending(l) \in SUBSET Uses(l)
  BY DEF Pending
<1>. QED  BY <1>1, FiniteUses, FS_Subset, FS_CardinalityType

\* When the queue is empty every gate is placed: the users of the greatest
\* gate that is not would all be placed, and so the gate would be queued.
LEMMA EmptyQueue ==
  ASSUME TypeOK, PassInv, res_nodes = <<>>
  PROVE  placed = Gates
<1>. SUFFICES ASSUME Gates \ placed # {}
              PROVE  FALSE
  BY DEF TypeOK
<1>1. /\ Gates \ placed \in SUBSET Nat
      /\ NumNodes \in Nat
      /\ \A m \in Gates \ placed : m =< NumNodes
  BY NetworkAssumption DEF Nodes
<1>2. PICK m \in Gates \ placed : \A k \in Gates \ placed : k =< m
  BY <1>1, GreatestOfNats
<1>3. ASSUME NEW u \in Uses(m)
      PROVE  u[1] \in placed
  <2>1. u[1] \in Gates /\ m \in Leaves[u[1]]
    BY DEF Uses
  <2>2. \A n \in Gates : m \in Leaves[n] => m < n
    BY NetworkAssumption
  <2>3. \A n \in Gates : n \in Nat
    BY NetworkAssumption DEF Nodes
  <2>4. ~(u[1] =< m)
    BY <2>1, <2>2, <2>3
  <2>. QED  BY <1>2, <2>1, <2>4
<1>4. Pending(m) = {}
  BY <1>3 DEF Pending
<1>. QED  BY <1>2, <1>4 DEF PassInv, ReadyInv

\* A pass begins with everything pending and the gates nobody reads queued.
LEMMA OrderStartPass ==
  ASSUME TypeOK, DistinctPOs, StartPass
  PROVE  PassInv'
<1>1. placed' = {} /\ dp_iter_map' = Counted /\ res_nodes' \in RootQueues
  BY DEF StartPass
<1>2. \A l \in Gates : Counted[l] = Cardinality(Uses(l))
  <2>1. \A l \in Gates : l \in Nodes
    BY NetworkAssumption
  <2>. QED  BY <2>1, FiniteUses DEF Counted
<1>3. \A l : Pending(l)' = Uses(l)
  BY <1>1 DEF Pending
<1>4. \A l \in Gates : IsRoot(l) <=> Uses(l) = {}
  <2>1. \A l \in Gates : l # 0
    BY NetworkAssumption
  <2>. QED  BY <1>2, <2>1, FiniteUses, FS_EmptySet DEF IsRoot
<1>5. CounterInv'
  BY <1>1, <1>2, <1>3 DEF CounterInv
<1>6. QueuedInv'
  BY <1>1, <1>3, <1>4, RootQueue DEF QueuedInv
<1>7. OnceInv'
  BY <1>1, RootQueue DEF OnceInv
<1>8. ReadyInv'
  <2>. SUFFICES ASSUME NEW l \in Gates, Uses(l) = {}
                PROVE  \E i \in DOMAIN res_nodes' : res_nodes'[i] = l
    BY <1>3 DEF ReadyInv
  <2>1. PICK i \in DOMAIN POs : POs[i] = l
    BY UsesOfRead, ReachableAssumption
  <2>. QED  BY <1>1, <1>4, <2>1, RootQueue
<1>9. PlacedInv'
  BY <1>1 DEF PlacedInv
<1>. QED  BY <1>5, <1>6, <1>7, <1>8, <1>9 DEF PassInv

\* Placing gate n ends the pending uses its candidates make of a node.
LEMMA PendingAfter ==
  ASSUME NEW n \in Gates, n \notin placed, placed' = placed \cup {n}, NEW l \in Gates
  PROVE  /\ l \notin Leaves[n] => Pending(l)' = Pending(l)
         /\ l \in Leaves[n] =>
              /\ Pending(l) # {}
              /\ Cardinality(Pending(l)) =
                   Cardinality(Pending(l)') + Cardinality(Candidates[n])
<1> DEFINE Own == {n} \X Candidates[n]
<1>1. Pending(l)' = {u \in Pending(l) : u[1] # n}
  BY DEF Pending
<1>2. \A u \in Pending(l) : l \in Leaves[u[1]]
  BY DEF Pending, Uses
<1>3. CASE l \notin Leaves[n]
  BY <1>1, <1>2, <1>3
<1>4. CASE l \in Leaves[n]
  <2>1. Own \in SUBSET Pending(l)
    BY <1>4, LibraryAssumption DEF Pending, Uses
  <2>2. Pending(l)' = Pending(l) \ Own
    <3>1. \A u \in Pending(l) : u[1] = n <=> u \in Own
      BY DEF Pending, Uses
    <3>. QED  BY <1>1, <3>1
  <2>3. Own # {} /\ Cardinality(Own) = Cardinality(Candidates[n])
    <3>1. IsFiniteSet({n}) /\ Cardinality({n}) = 1
      BY FS_Singleton
    <3>2. IsFiniteSet(Own) /\ Cardinality(Own) = 1 * Cardinality(Candidates[n])
      BY <3>1, FiniteCandidates, FS_Product
    <3>3. Cardinality(Candidates[n]) \in Nat \ {0}
      BY FiniteCandidates
    <3>4. Cardinality(Own) = Cardinality(Candidates[n])
      <4>. HIDE DEF Own
      <4>. QED  BY <3>2, <3>3
    <3>5. Own # {}
      <4>. HIDE DEF Own
      <4>. QED  BY <3>3, <3>4, FS_EmptySet
    <3>. QED  BY <3>4, <3>5
  <2>4. Cardinality(Pending(l) \ Own) = Cardinality(Pending(l)) - Cardinality(Own)
    <3>1. Pending(l) \cap Own = Own
      BY <2>1
    <3>. HIDE DEF Own
    <3>. QED  BY <3>1, FinitePending, FS_Difference
  <2>5. Cardinality(Pending(l)) \in Nat /\ Cardinality(Candidates[n]) \in Nat
    BY FinitePending, FiniteCandidates
  <2>6. Cardinality(Pending(l)) = Cardinality(Pending(l)') + Cardinality(Candidates[n])
    <3>. HIDE DEF Own
    <3>. QED  BY <2>2, <2>3, <2>4, <2>5
  <2>7. Pending(l) # {}
    BY <2>1, <2>3
  <2>. QED  BY <1>4, <2>6, <2>7
<1>. QED  BY <1>3, <1>4

\* Taking a gate from the queue and placing it keeps the order of the pass.
LEMMA OrderPlaceGate ==
  ASSUME TypeOK, PassInv, NEW n \in Gates, NEW g \in Candidates[n], NEW y \in AllRows,
         res_nodes # <<>>, n = Head(res_nodes), PlaceGate(n, g, y)
  PROVE  PassInv'
<1>1. /\ placed' = placed \cup {n}
      /\ CountDown(n)
      /\ \E order \in SetToSeqs(ReadyLeaves(n)) : res_nodes' = Tail(res_nodes) \o order
  BY DEF PlaceGate
<1>2. PICK order \in SetToSeqs(ReadyLeaves(n)) : res_nodes' = Tail(res_nodes) \o order
  BY <1>1
<1>3. /\ order \in Seq(Nodes)
      /\ \A i \in DOMAIN order : order[i] \in ReadyLeaves(n)
      /\ \A i, j \in DOMAIN order : i # j => order[i] # order[j]
      /\ \A l \in ReadyLeaves(n) : \E i \in DOMAIN order : order[i] = l
  BY ReadyOrder
<1>4. /\ DOMAIN res_nodes = 1 .. Len(res_nodes) /\ Len(res_nodes) \in Nat \ {0}
      /\ DOMAIN order = 1 .. Len(order) /\ Len(order) \in Nat
      /\ DOMAIN res_nodes' = 1 .. Len(res_nodes) - 1 + Len(order)
      /\ \A i \in 1 .. Len(res_nodes) - 1 : res_nodes'[i] = res_nodes[i + 1]
      /\ \A i \in Len(res_nodes) .. Len(res_nodes) - 1 + Len(order) :
           res_nodes'[i] = order[i - (Len(res_nodes) - 1)]
  <2>1. res_nodes \in Seq(Nodes)
    BY DEF TypeOK
  <2>. QED  BY <1>2, <1>3, <2>1, TailAppend
<1>5. n = res_nodes[1] /\ 1 \in DOMAIN res_nodes
  BY <1>4
<1>6. n \notin placed /\ Pending(n) = {}
  BY <1>5 DEF PassInv, QueuedInv
<1>7. n \notin Leaves[n]
  BY NetworkAssumption DEF Nodes
<1>8. \A l \in Gates : l \notin Leaves[n] => Pending(l)' = Pending(l)
  BY <1>1, <1>6, PendingAfter
<1>9. \A l \in Gates : l \in Leaves[n] =>
        /\ Pending(l) # {}
        /\ Cardinality(Pending(l)) = Cardinality(Pending(l)') + Cardinality(Candidates[n])
  BY <1>1, <1>6, PendingAfter
<1>10. \A l : /\ IsFiniteSet(Pending(l)') /\ Cardinality(Pending(l)') \in Nat
              /\ Cardinality(Pending(l)') = 0 <=> Pending(l)' = {}
  <2>1. \A l : Pending(l)' \in SUBSET Uses(l)
    BY DEF Pending
  <2>. QED  BY <2>1, FiniteUses, FS_Subset, FS_CardinalityType, FS_EmptySet
<1>11. Cardinality(Candidates[n]) \in Nat \ {0}
  BY FiniteCandidates
<1>12. \A l \in Gates : l \in Leaves[n] =>
         dp_iter_map[l] = Cardinality(Pending(l)') + Cardinality(Candidates[n])
  BY <1>9 DEF PassInv, CounterInv
<1>13. \A l \in Gates : l \in ReadyLeaves(n) <=> l \in Leaves[n] /\ Pending(l)' = {}
  BY <1>10, <1>11, <1>12 DEF ReadyLeaves
<1>14. \A l \in Gates : Pending(l) = {} => Pending(l)' = {}
  BY <1>8, <1>9
<1>15. CounterInv'
  <2>. SUFFICES ASSUME NEW l \in Gates
                PROVE  dp_iter_map'[l] = IF Uses(l) # {} /\ Pending(l)' = {} THEN -1
                                         ELSE Cardinality(Pending(l)')
    BY DEF CounterInv
  <2>0. l \in Nodes
    BY NetworkAssumption
  <2>1. CASE l \notin Leaves[n]
    <3>1. dp_iter_map'[l] = dp_iter_map[l]
      BY <1>1, <2>0, <2>1 DEF CountDown
    <3>. QED  BY <1>8, <2>1, <3>1 DEF PassInv, CounterInv
  <2>2. CASE l \in Leaves[n]
    <3>1. dp_iter_map'[l] = dp_iter_map[l] - Cardinality(Candidates[n])
                              - (IF l \in ReadyLeaves(n) THEN 1 ELSE 0)
      BY <1>1, <2>0, <2>2 DEF CountDown
    <3>2. Uses(l) # {}
      BY <2>2, UsesOfRead
    <3>. QED  BY <1>10, <1>11, <1>12, <1>13, <2>2, <3>1, <3>2
  <2>. QED  BY <2>1, <2>2
<1>16. \A i \in DOMAIN res_nodes :
         i # 1 /\ res_nodes[i] \in Gates => res_nodes[i] # n
  BY <1>5 DEF PassInv, OnceInv
<1>17. \A l \in ReadyLeaves(n) : l \in Gates => l \notin placed' /\ Pending(l) # {}
  BY <1>1, <1>7, <1>9 DEF ReadyLeaves, PassInv, PlacedInv
<1>18. QueuedInv'
  <2>. SUFFICES ASSUME NEW i \in DOMAIN res_nodes', NEW m \in Gates, m = res_nodes'[i]
                PROVE  m \notin placed' /\ Pending(m)' = {}
    BY DEF QueuedInv, Pending
  <2>1. CASE i \in 1 .. Len(res_nodes) - 1
    <3>1. m = res_nodes[i + 1] /\ i + 1 \in DOMAIN res_nodes /\ i + 1 # 1
      BY <1>4, <2>1
    <3>2. m \notin placed /\ Pending(m) = {}
      BY <3>1 DEF PassInv, QueuedInv
    <3>3. m # n
      BY <1>16, <3>1
    <3>. QED  BY <1>1, <1>14, <3>2, <3>3
  <2>2. CASE i \in Len(res_nodes) .. Len(res_nodes) - 1 + Len(order)
    <3>1. i - (Len(res_nodes) - 1) \in DOMAIN order
      BY <1>4, <2>2
    <3>2. m \in ReadyLeaves(n)
      BY <1>3, <1>4, <2>2, <3>1
    <3>. QED  BY <1>13, <1>17, <3>2
  <2>. QED  BY <1>4, <2>1, <2>2
<1>19. OnceInv'
  <2>1. \A i \in 1 .. Len(res_nodes) - 1 :
          /\ res_nodes'[i] = res_nodes[i + 1]
          /\ res_nodes[i + 1] \in Gates => Pending(res_nodes[i + 1]) = {}
    BY <1>4 DEF PassInv, QueuedInv
  <2>2. \A i \in Len(res_nodes) .. Len(res_nodes) - 1 + Len(order) :
          res_nodes'[i] \in Gates => Pending(res_nodes'[i]) # {}
    <3>1. \A i \in Len(res_nodes) .. Len(res_nodes) - 1 + Len(order) :
            i - (Len(res_nodes) - 1) \in DOMAIN order
      BY <1>4
    <3>. QED  BY <1>3, <1>4, <1>17, <3>1
  <2>3. ASSUME NEW i \in 1 .. Len(res_nodes) - 1, NEW j \in 1 .. Len(res_nodes) - 1,
               i # j, res_nodes[i + 1] \in Gates
        PROVE  res_nodes[i + 1] # res_nodes[j + 1]
    <3>1. i + 1 \in DOMAIN res_nodes /\ j + 1 \in DOMAIN res_nodes /\ i + 1 # j + 1
      BY <1>4, <2>3
    <3>. QED  BY <2>3, <3>1 DEF PassInv, OnceInv
  <2>4. ASSUME NEW i \in Len(res_nodes) .. Len(res_nodes) - 1 + Len(order),
               NEW j \in Len(res_nodes) .. Len(res_nodes) - 1 + Len(order), i # j
        PROVE  res_nodes'[i] # res_nodes'[j]
    <3>1. /\ i - (Len(res_nodes) - 1) \in DOMAIN order
          /\ j - (Len(res_nodes) - 1) \in DOMAIN order
          /\ i - (Len(res_nodes) - 1) # j - (Len(res_nodes) - 1)
      BY <1>4, <2>4
    <3>. QED  BY <1>3, <1>4, <3>1
  <2>. SUFFICES ASSUME NEW i \in DOMAIN res_nodes', NEW j \in DOMAIN res_nodes',
                       i # j, res_nodes'[i] \in Gates
                PROVE  res_nodes'[i] # res_nodes'[j]
    BY DEF OnceInv
  <2>5. /\ i \in 1 .. Len(res_nodes) - 1 \/ i \in Len(res_nodes) .. Len(res_nodes) - 1 + Len(order)
        /\ j \in 1 .. Len(res_nodes) - 1 \/ j \in Len(res_nodes) .. Len(res_nodes) - 1 + Len(order)
    BY <1>4
  <2>. QED  BY <2>1, <2>2, <2>3, <2>4, <2>5
<1>20. ReadyInv'
  <2>. SUFFICES ASSUME NEW l \in Gates, Pending(l)' = {}
                PROVE  l \in placed' \/ \E i \in DOMAIN res_nodes' : res_nodes'[i] = l
    BY DEF ReadyInv
  <2>1. CASE Pending(l) = {}
    <3>1. CASE l \in placed
      BY <1>1, <3>1
    <3>2. CASE l \notin placed
      <4>1. PICK i \in DOMAIN res_nodes : res_nodes[i] = l
        BY <2>1, <3>2 DEF PassInv, ReadyInv
      <4>2. CASE i = 1
        BY <1>1, <1>5, <4>1, <4>2
      <4>3. CASE i # 1
        <5>1. i - 1 \in 1 .. Len(res_nodes) - 1 /\ i - 1 \in DOMAIN res_nodes'
          BY <1>4, <4>3
        <5>2. res_nodes'[i - 1] = res_nodes[(i - 1) + 1]
          BY <1>4, <5>1
        <5>3. (i - 1) + 1 = i
          BY <1>4
        <5>. QED  BY <4>1, <5>1, <5>2, <5>3
      <4>. QED  BY <4>2, <4>3
    <3>. QED  BY <3>1, <3>2
  <2>2. CASE Pending(l) # {}
    <3>1. l \in ReadyLeaves(n)
      BY <1>8, <1>13, <2>2
    <3>2. PICK k \in DOMAIN order : order[k] = l
      BY <1>3, <3>1
    <3>3. /\ k + (Len(res_nodes) - 1) \in Len(res_nodes) .. Len(res_nodes) - 1 + Len(order)
          /\ k + (Len(res_nodes) - 1) \in DOMAIN res_nodes'
          /\ k + (Len(res_nodes) - 1) - (Len(res_nodes) - 1) = k
      BY <1>4, <3>2
    <3>4. res_nodes'[k + (Len(res_nodes) - 1)] = order[k]
      BY <1>4, <3>3
    <3>. QED  BY <3>2, <3>3, <3>4
  <2>. QED  BY <2>1, <2>2
<1>21. PlacedInv'
  <2>1. \A l \in placed' : l \in Gates /\ Pending(l) = {}
    BY <1>1, <1>6 DEF PassInv, PlacedInv, TypeOK
  <2>. QED  BY <1>14, <2>1 DEF PlacedInv
<1>. QED  BY <1>15, <1>18, <1>19, <1>20, <1>21 DEF PassInv

\* Dropping an input from the queue keeps the order of the pass.
LEMMA OrderSkipInput ==
  ASSUME TypeOK, PassInv, NEW n \in Nodes, SkipInput(n)
  PROVE  PassInv'
<1>1. /\ UNCHANGED <<dp_iter_map, placed>>
      /\ n \notin Gates /\ n = Head(res_nodes) /\ res_nodes # <<>>
      /\ res_nodes' = Tail(res_nodes)
  BY DEF SkipInput, Dequeue
<1>2. res_nodes \in Seq(Nodes)
  BY DEF TypeOK
<1>3. /\ DOMAIN res_nodes = 1 .. Len(res_nodes) /\ Len(res_nodes) \in Nat \ {0}
      /\ DOMAIN res_nodes' = 1 .. Len(res_nodes) - 1
      /\ \A i \in DOMAIN res_nodes' : res_nodes'[i] = res_nodes[i + 1]
      /\ n = res_nodes[1]
  BY <1>1, <1>2
<1>4. \A i \in DOMAIN res_nodes' : i + 1 \in DOMAIN res_nodes
  BY <1>3
<1>5. \A l : Pending(l)' = Pending(l)
  BY <1>1 DEF Pending
<1>6. CounterInv' /\ PlacedInv'
  BY <1>1, <1>5 DEF PassInv, CounterInv, PlacedInv
<1>7. QueuedInv'
  <2>. SUFFICES ASSUME NEW i \in DOMAIN res_nodes', NEW m \in Gates, m = res_nodes'[i]
                PROVE  m \notin placed' /\ Pending(m)' = {}
    BY DEF QueuedInv, Pending
  <2>. QED  BY <1>1, <1>3, <1>4, <1>5 DEF PassInv, QueuedInv
<1>8. OnceInv'
  <2>. SUFFICES ASSUME NEW i \in DOMAIN res_nodes', NEW j \in DOMAIN res_nodes',
                       i # j, res_nodes'[i] \in Gates
                PROVE  res_nodes'[i] # res_nodes'[j]
    BY DEF OnceInv
  <2>1. i + 1 # j + 1
    BY <1>3
  <2>. QED  BY <1>3, <1>4, <2>1 DEF PassInv, OnceInv
<1>9. ReadyInv'
  <2>. SUFFICES ASSUME NEW l \in Gates, Pending(l) = {}, l \notin placed
                PROVE  \E i \in DOMAIN res_nodes' : res_nodes'[i] = l
    BY <1>1, <1>5 DEF ReadyInv
  <2>1. PICK i \in DOMAIN res_nodes : res_nodes[i] = l
    BY DEF PassInv, ReadyInv
  <2>2. i # 1
    BY <1>1, <1>3, <2>1
  <2>3. i - 1 \in DOMAIN res_nodes' /\ (i - 1) + 1 = i
    BY <1>3, <2>2
  <2>. QED  BY <1>3, <2>1, <2>3
<1>. QED  BY <1>6, <1>7, <1>8, <1>9 DEF PassInv

\* Every step of the program keeps the order of the passes.
LEMMA OrderNext ==
  ASSUME DistinctPOs, TypeOK, OrderInv, [Next]_vars
  PROVE  OrderInv'
<1>1. CASE SkipPass
  BY <1>1 DEF SkipPass, NextIteration, passVars, OrderInv
<1>8. CASE Finish
  BY <1>8 DEF Finish, passVars, OrderInv
<1>2. CASE StartPass
  <2>1. PassInv' /\ status' = "pass"
    BY <1>2, OrderStartPass DEF StartPass
  <2>. QED  BY <2>1 DEF OrderInv
<1>3. CASE EndPass
  <2>1. placed = Gates
    BY <1>3, EmptyQueue DEF EndPass, OrderInv
  <2>. QED  BY <1>3, <2>1 DEF EndPass, passVars, OrderInv
<1>4. ASSUME NEW n \in Nodes, SkipInput(n)
      PROVE  OrderInv'
  <2>1. status = "pass" /\ status' = "pass"
    BY <1>4 DEF SkipInput, Dequeue
  <2>2. PassInv'
    BY <1>4, <2>1, OrderSkipInput DEF OrderInv
  <2>. QED  BY <2>1, <2>2 DEF OrderInv
<1>5. ASSUME NEW n \in Gates, NEW test \in TestGates(n), ProcessGate(n, test)
      PROVE  OrderInv'
  <2>1. status = "pass" /\ res_nodes # <<>> /\ n = Head(res_nodes)
    BY <1>5 DEF ProcessGate, Dequeue
  <2>2. ChosenGate(n, test) \in Candidates[n]
    BY ChosenCell DEF TypeOK
  <2>3. PICK y \in AllRows : PlaceGate(n, ChosenGate(n, test), y)
    BY <1>5 DEF ProcessGate
  <2>4. PassInv'
    BY <2>1, <2>2, <2>3, OrderPlaceGate DEF OrderInv
  <2>5. status' = "pass"
    BY <2>1, <2>3 DEF PlaceGate
  <2>. QED  BY <2>4, <2>5 DEF OrderInv
<1>6. ASSUME NEW n \in Gates, NEW test \in TestGates(n), Crash(n, test)
      PROVE  OrderInv'
  BY <1>6 DEF Crash, OrderInv
<1>7. CASE UNCHANGED vars
  <2>1. PassInv => PassInv'
    BY <1>7 DEF vars, PassInv, CounterInv, QueuedInv, OnceInv, ReadyInv, PlacedInv, Pending
  <2>. QED  BY <1>7, <2>1 DEF vars, OrderInv
<1>. QED  BY <1>1, <1>2, <1>3, <1>4, <1>5, <1>6, <1>7, <1>8 DEF Next, Stop

\* The inductive invariant holds from the start.
LEMMA OrderAlways ==
  ASSUME DistinctPOs
  PROVE  Spec => []OrderInv
<1>1. Init => OrderInv
  BY DEF Init, OrderInv
<1>2. TypeOK /\ OrderInv /\ [Next]_vars => OrderInv'
  BY OrderNext
<1>3. Spec => []TypeOK
  BY TypeCorrect
<1>. QED  BY <1>1, <1>2, <1>3, PTL DEF Spec

(***************************************************************************)
(* When no gate drives two outputs, a pass that runs out of work has       *)
(* placed every gate, whatever the network and the number of candidates,   *)
(* and the program only goes on from the iterations with every gate placed.*)
(***************************************************************************)
THEOREM PassesComplete ==
  ASSUME DistinctPOs
  PROVE  Spec => []PassComplete
<1>1. TypeOK /\ OrderInv => PassComplete
  BY EmptyQueue DEF OrderInv, PassComplete
<1>2. Spec => []TypeOK
  BY TypeCorrect
<1>3. Spec => []OrderInv
  BY OrderAlways
<1>. QED  BY <1>1, <1>2, <1>3, PTL

\* The head of the queue is not placed, when it is a gate.
LEMMA HeadNotPlaced ==
  ASSUME TypeOK, OrderInv, NEW n \in Gates, Dequeue(n)
  PROVE  n \notin placed /\ Pending(n) = {}
<1>1. status = "pass" /\ res_nodes # <<>> /\ n = Head(res_nodes)
  BY DEF Dequeue
<1>2. 1 \in DOMAIN res_nodes /\ n = res_nodes[1]
  BY <1>1 DEF TypeOK
<1>. QED  BY <1>1, <1>2 DEF OrderInv, PassInv, QueuedInv

\* Every step of the program is a step of ReverseTopological or none.
LEMMA TopoNext ==
  ASSUME TypeOK, OrderInv, [Next]_vars
  PROVE  [Topo!Next]_placed
<1>1. CASE SkipPass \/ EndPass \/ Finish \/ UNCHANGED vars
  BY <1>1 DEF SkipPass, EndPass, Finish, passVars, vars
<1>2. CASE StartPass
  <2>1. placed' = {} /\ (placed = {} \/ placed = Gates)
    BY <1>2 DEF StartPass, NextIteration, OrderInv
  <2>. QED  BY <2>1 DEF Topo!Next, Topo!BeginPass
<1>3. ASSUME NEW n \in Nodes, SkipInput(n)
      PROVE  placed' = placed
  BY <1>3 DEF SkipInput
<1>4. ASSUME NEW n \in Gates, NEW test \in TestGates(n), ProcessGate(n, test)
      PROVE  Topo!Take(n)
  <2>1. n \notin placed /\ Pending(n) = {}
    BY <1>4, HeadNotPlaced DEF ProcessGate
  <2>2. ASSUME NEW u \in UsersOf(n)
        PROVE  u \in placed
    <3>1. PICK g \in Candidates[u] : u \in Gates /\ <<u, g>> \in Uses(n)
      BY LibraryAssumption DEF UsersOf, Uses
    <3>. QED  BY <2>1, <3>1 DEF Pending
  <2>3. placed' = placed \cup {n}
    BY <1>4 DEF ProcessGate, PlaceGate
  <2>. QED  BY <2>1, <2>2, <2>3 DEF Topo!Take
<1>5. ASSUME NEW n \in Gates, NEW test \in TestGates(n), Crash(n, test)
      PROVE  placed' = placed
  BY <1>5 DEF Crash
<1>. QED  BY <1>1, <1>2, <1>3, <1>4, <1>5 DEF Next, Stop, Topo!Next

(***************************************************************************)
(* When no gate drives two outputs, the queue and the counters implement   *)
(* ReverseTopological: every pass takes every gate once, after its users.  *)
(***************************************************************************)
THEOREM ImplementsReverseTopological ==
  ASSUME DistinctPOs
  PROVE  Spec => ReverseTopologicalOrder
<1>1. Init => Topo!Init
  BY DEF Init, Topo!Init
<1>2. TypeOK /\ OrderInv /\ [Next]_vars => [Topo!Next]_placed
  BY TopoNext
<1>3. Spec => []TypeOK
  BY TypeCorrect
<1>4. Spec => []OrderInv
  BY OrderAlways
<1>. QED  BY <1>1, <1>2, <1>3, <1>4, PTL DEF Spec, ReverseTopologicalOrder, Topo!Spec

-----------------------------------------------------------------------------
(***************************************************************************)
(* Rows: what is in them                                                   *)
(***************************************************************************)

\* No step fills a row beyond its end.
LEMMA OverfullNext ==
  ASSUME TypeOK, NoRowOverfull, [Next]_vars
  PROVE  NoRowOverfull'
<1>1. CASE StartPass
  BY <1>1, FloorplanAssumption DEF StartPass, NoRowOverfull
<1>2. ASSUME NEW n \in Gates, NEW test \in TestGates(n), ProcessGate(n, test)
      PROVE  NoRowOverfull'
  <2> DEFINE g == ChosenGate(n, test)
  <2>1. g \in Cells
    BY ChosenCell, LibraryAssumption DEF TypeOK
  <2>2. PICK y \in AllRows : IsChosenRow(n, g, y) /\ PlaceGate(n, g, y)
    BY <1>2 DEF ProcessGate
  <2>3. row_density_map[y] + Width[g] =< max_x_length
    BY <2>1, <2>2, ChosenRow DEF HasRoom
  <2>4. row_density_map' = [row_density_map EXCEPT ![y] = @ + Width[g]]
    BY <2>2 DEF PlaceGate
  <2>. HIDE DEF g
  <2>. QED  BY <2>3, <2>4 DEF NoRowOverfull, TypeOK
<1>3. ASSUME UNCHANGED row_density_map
      PROVE  NoRowOverfull'
  BY <1>3 DEF NoRowOverfull
<1>4. ~StartPass /\ (\A n \in Gates : \A test \in TestGates(n) : ~ProcessGate(n, test))
        => UNCHANGED row_density_map
  BY DEF Next, Stop, vars, SkipPass, EndPass, Finish, SkipInput, Crash, passVars
<1>. QED  BY <1>1, <1>2, <1>3, <1>4

(***************************************************************************)
(* The width accounted to a row never exceeds the width of the rows, over  *)
(* all passes and exchanges.                                               *)
(***************************************************************************)
THEOREM RowsNeverOverfull == Spec => []NoRowOverfull
<1>1. Init => NoRowOverfull
  BY FloorplanAssumption DEF Init, NoRowOverfull
<1>2. TypeOK /\ NoRowOverfull /\ [Next]_vars => NoRowOverfull'
  BY OverfullNext
<1>3. Spec => []TypeOK
  BY TypeCorrect
<1>. QED  BY <1>1, <1>2, <1>3, PTL DEF Spec

\* A step puts a gate in a row of its height and moves no gate placed before.
LEMMA HeightsNext ==
  ASSUME TypeOK, OrderInv, HeightsMatch, [Next]_vars
  PROVE  HeightsMatch'
<1>1. CASE StartPass
  BY <1>1 DEF StartPass, HeightsMatch
<1>2. ASSUME NEW n \in Gates, NEW test \in TestGates(n), ProcessGate(n, test)
      PROVE  HeightsMatch'
  <2> DEFINE g == ChosenGate(n, test)
  <2>1. g \in Cells
    BY ChosenCell, LibraryAssumption DEF TypeOK
  <2>2. PICK y \in AllRows : IsChosenRow(n, g, y) /\ PlaceGate(n, g, y)
    BY <1>2 DEF ProcessGate
  <2>3. y \in ToSet(Rows[Height[g]])
    BY <2>1, <2>2, ChosenRow
  <2>4. /\ cell_type' = [cell_type EXCEPT ![n] = g]
        /\ final_y' = [final_y EXCEPT ![n] = y]
        /\ placed' = placed \cup {n}
    BY <2>2 DEF PlaceGate, Exchange
  <2>. HIDE DEF g
  <2>. QED  BY <2>3, <2>4 DEF HeightsMatch, TypeOK
<1>3. ASSUME NEW n \in Gates, NEW test \in TestGates(n), Crash(n, test)
      PROVE  HeightsMatch'
  <2>1. n \notin placed
    BY <1>3, HeadNotPlaced DEF Crash
  <2>2. /\ placed' = placed
        /\ \A m \in Gates \ {n} : final_y'[m] = final_y[m] /\ cell_type'[m] = cell_type[m]
    BY <1>3 DEF Crash, Exchange, TypeOK
  <2>. QED  BY <2>1, <2>2 DEF HeightsMatch, TypeOK
<1>4. ASSUME UNCHANGED <<cell_type, final_y, placed>>
      PROVE  HeightsMatch'
  BY <1>4 DEF HeightsMatch
<1>5. \/ StartPass
      \/ \E n \in Gates : \E test \in TestGates(n) : ProcessGate(n, test)
      \/ \E n \in Gates : \E test \in TestGates(n) : Crash(n, test)
      \/ UNCHANGED <<cell_type, final_y, placed>>
  BY DEF Next, Stop, vars, SkipPass, EndPass, Finish, SkipInput, passVars
<1>. QED  BY <1>1, <1>2, <1>3, <1>4, <1>5

(***************************************************************************)
(* When no gate drives two outputs, a placed cell always stands in a row   *)
(* of its own height, whatever it was exchanged for.                       *)
(***************************************************************************)
THEOREM HeightsAlwaysMatch ==
  ASSUME DistinctPOs
  PROVE  Spec => []HeightsMatch
<1>1. Init => HeightsMatch
  BY DEF Init, HeightsMatch
<1>2. TypeOK /\ OrderInv /\ HeightsMatch /\ [Next]_vars => HeightsMatch'
  BY HeightsNext
<1>3. Spec => []TypeOK
  BY TypeCorrect
<1>4. Spec => []OrderInv
  BY OrderAlways
<1>. QED  BY <1>1, <1>2, <1>3, <1>4, PTL DEF Spec

(***************************************************************************)
(* The width a row holds, with the sum written as the lemmas need it.      *)
(***************************************************************************)
CellWidths == [n \in Gates |-> Width[cell_type[n]]]

InRow(r) == {n \in placed : final_y[n] = r}

DensitySum ==
  \A r \in AllRows : row_density_map[r] = SumFunctionOnSet(CellWidths, InRow(r))

\* A sum over the cells of some gates, in the two forms it is written in.
LEMMA WidthSum ==
  ASSUME NEW cells \in [Gates -> Cells], NEW S \in SUBSET Gates
  PROVE  MapThenSumSet(LAMBDA n : Width[cells[n]], S)
           = SumFunctionOnSet([n \in Gates |-> Width[cells[n]]], S)
<1>1. MapThenSumSet(LAMBDA n : Width[cells[n]], S)
        = SumFunctionOnSet([n \in S |-> Width[cells[n]]], S)
  BY DEF SumFunctionOnSet, FoldFunctionOnSet, MapThenFoldSet, MapThenSumSet
<1>2. SumFunctionOnSet([n \in S |-> Width[cells[n]]], S)
        = SumFunctionOnSet([n \in Gates |-> Width[cells[n]]], S)
  <2>1. IsFiniteSet(S)
    BY FiniteGates, FS_Subset
  <2>. QED  BY <2>1, SumSame
<1>. QED  BY <1>1, <1>2

\* What the lemmas need to know of the widths in a row.
LEMMA RowSumType ==
  ASSUME TypeOK
  PROVE  /\ \A n \in Gates : CellWidths[n] \in Int
         /\ \A r : IsFiniteSet(InRow(r)) /\ InRow(r) \in SUBSET placed
<1>1. \A n \in Gates : Width[cell_type[n]] \in Int
  BY LibraryAssumption DEF TypeOK
<1>2. \A r : InRow(r) \in SUBSET placed /\ placed \in SUBSET Gates
  BY DEF InRow, TypeOK
<1>. QED  BY <1>1, <1>2, FiniteGates, FS_Subset DEF CellWidths

\* A step that leaves alone the rows, and the cells in them, keeps the sums.
LEMMA DensitySame ==
  ASSUME TypeOK, TypeOK', DensitySum, UNCHANGED <<row_density_map, placed>>,
         \A m \in placed : final_y'[m] = final_y[m] /\ cell_type'[m] = cell_type[m]
  PROVE  DensitySum'
<1>. SUFFICES ASSUME NEW r \in AllRows
              PROVE  row_density_map'[r] = SumFunctionOnSet(CellWidths', InRow(r)')
  BY DEF DensitySum
<1>1. InRow(r)' = InRow(r)
  BY DEF InRow
<1>2. IsFiniteSet(InRow(r)) /\ \A m \in InRow(r) : CellWidths'[m] = CellWidths[m]
  BY RowSumType DEF CellWidths, TypeOK
<1>3. SumFunctionOnSet(CellWidths, InRow(r)) = SumFunctionOnSet(CellWidths', InRow(r))
  BY <1>2, SumSame
<1>. QED  BY <1>1, <1>3 DEF DensitySum

\* Placing a gate that is in no row adds its width to the row it is put in.
LEMMA DensityPlaceGate ==
  ASSUME TypeOK, DensitySum, NEW n \in Gates, n \notin placed, NEW g \in Cells,
         NEW y \in AllRows, PlaceGate(n, g, y)
  PROVE  DensitySum'
<1>1. /\ cell_type' = [cell_type EXCEPT ![n] = g]
      /\ final_y' = [final_y EXCEPT ![n] = y]
      /\ row_density_map' = [row_density_map EXCEPT ![y] = @ + Width[g]]
      /\ placed' = placed \cup {n}
  BY DEF PlaceGate, Exchange
<1>2. /\ \A m \in placed : CellWidths'[m] = CellWidths[m]
      /\ CellWidths'[n] = Width[g]
      /\ Width[g] \in Int
  BY <1>1, LibraryAssumption DEF CellWidths, TypeOK
<1>. SUFFICES ASSUME NEW r \in AllRows
              PROVE  row_density_map'[r] = SumFunctionOnSet(CellWidths', InRow(r)')
  BY DEF DensitySum
<1>3. /\ IsFiniteSet(InRow(r)) /\ InRow(r) \in SUBSET placed
      /\ \A m \in InRow(r) : CellWidths'[m] = CellWidths[m] /\ CellWidths'[m] \in Int
  BY <1>2, RowSumType DEF TypeOK
<1>4. SumFunctionOnSet(CellWidths, InRow(r)) = SumFunctionOnSet(CellWidths', InRow(r))
  BY <1>3, SumSame
<1>5. \A m \in placed : final_y'[m] = final_y[m]
  BY <1>1 DEF TypeOK
<1>6. CASE r = y
  <2>1. InRow(r)' = InRow(r) \cup {n}
    BY <1>1, <1>5, <1>6 DEF InRow, TypeOK
  <2>2. SumFunctionOnSet(CellWidths', InRow(r) \cup {n})
          = SumFunctionOnSet(CellWidths', InRow(r)) + Width[g]
    <3>1. n \notin InRow(r)
      BY <1>3
    <3>. QED  BY <1>2, <1>3, <3>1, SumAdd
  <2>3. row_density_map'[r] = row_density_map[r] + Width[g]
    BY <1>1, <1>6 DEF TypeOK
  <2>. QED  BY <1>4, <2>1, <2>2, <2>3 DEF DensitySum
<1>7. CASE r # y
  <2>1. InRow(r)' = InRow(r)
    BY <1>1, <1>5, <1>7 DEF InRow, TypeOK
  <2>2. row_density_map'[r] = row_density_map[r]
    BY <1>1, <1>7 DEF TypeOK
  <2>. QED  BY <1>4, <2>1, <2>2 DEF DensitySum
<1>. QED  BY <1>6, <1>7

\* Every step keeps row_density_map the width of what is in the rows.
LEMMA DensityNext ==
  ASSUME TypeOK, TypeOK', OrderInv, DensitySum, [Next]_vars
  PROVE  DensitySum'
<1>1. CASE StartPass
  <2>1. \A r \in AllRows : row_density_map'[r] = 0 /\ InRow(r)' = {}
    BY <1>1 DEF StartPass, InRow
  <2>2. SumFunctionOnSet(CellWidths', {}) = 0
    BY SumEmpty
  <2>. QED  BY <2>1, <2>2 DEF DensitySum
<1>2. ASSUME NEW n \in Gates, NEW test \in TestGates(n), ProcessGate(n, test)
      PROVE  DensitySum'
  <2>1. n \notin placed
    BY <1>2, HeadNotPlaced DEF ProcessGate
  <2>2. ChosenGate(n, test) \in Cells
    BY ChosenCell, LibraryAssumption DEF TypeOK
  <2>. QED  BY <1>2, <2>1, <2>2, DensityPlaceGate DEF ProcessGate
<1>3. ASSUME NEW n \in Gates, NEW test \in TestGates(n), Crash(n, test)
      PROVE  DensitySum'
  <2>1. n \notin placed
    BY <1>3, HeadNotPlaced DEF Crash
  <2>2. \A m \in placed : final_y'[m] = final_y[m] /\ cell_type'[m] = cell_type[m]
    BY <1>3, <2>1 DEF Crash, Exchange, TypeOK
  <2>. QED  BY <1>3, <2>2, DensitySame DEF Crash
<1>4. ASSUME UNCHANGED <<row_density_map, cell_type, final_y, placed>>
      PROVE  DensitySum'
  BY <1>4, DensitySame
<1>5. \/ StartPass
      \/ \E n \in Gates : \E test \in TestGates(n) : ProcessGate(n, test)
      \/ \E n \in Gates : \E test \in TestGates(n) : Crash(n, test)
      \/ UNCHANGED <<row_density_map, cell_type, final_y, placed>>
  BY DEF Next, Stop, vars, SkipPass, EndPass, Finish, SkipInput, passVars
<1>. QED  BY <1>1, <1>2, <1>3, <1>4, <1>5

(***************************************************************************)
(* When no gate drives two outputs, the width accounted to a row is at     *)
(* every moment the width of the cells in it, over all passes and          *)
(* exchanges, and never exceeds the width of the row.                      *)
(***************************************************************************)
THEOREM RowsHoldAlways ==
  ASSUME DistinctPOs
  PROVE  Spec => []RowsHold
<1>1. Init => DensitySum
  <2>. SUFFICES ASSUME Init PROVE DensitySum
    OBVIOUS
  <2>1. \A r \in AllRows : row_density_map[r] = 0 /\ InRow(r) = {}
    BY DEF Init, InRow
  <2>2. SumFunctionOnSet(CellWidths, {}) = 0
    BY SumEmpty
  <2>. QED  BY <2>1, <2>2 DEF DensitySum
<1>2. TypeOK /\ TypeOK' /\ OrderInv /\ DensitySum /\ [Next]_vars => DensitySum'
  BY DensityNext
<1>3. TypeOK /\ DensitySum => DensityIsExact
  <2>. SUFFICES ASSUME TypeOK, DensitySum, NEW r \in AllRows
                PROVE  row_density_map[r]
                         = MapThenSumSet(LAMBDA n : Width[cell_type[n]],
                                         {n \in placed : final_y[n] = r})
    BY DEF DensityIsExact
  <2>1. cell_type \in [Gates -> Cells] /\ InRow(r) \in SUBSET Gates
    BY DEF TypeOK, InRow
  <2>2. MapThenSumSet(LAMBDA n : Width[cell_type[n]], InRow(r))
          = SumFunctionOnSet(CellWidths, InRow(r))
    BY <2>1, WidthSum DEF CellWidths
  <2>. QED  BY <2>2 DEF DensitySum, InRow
<1>4. Spec => []TypeOK
  BY TypeCorrect
<1>5. Spec => []OrderInv
  BY OrderAlways
<1>6. Spec => []NoRowOverfull
  BY RowsNeverOverfull
<1>. QED  BY <1>1, <1>2, <1>3, <1>4, <1>5, <1>6, PTL DEF Spec, RowsHold

-----------------------------------------------------------------------------
(***************************************************************************)
(* The fanouts: how often a placed user stands in dp_fanouts               *)
(***************************************************************************)
Occurrences(s, u) == {k \in DOMAIN s : s[k] = u}

FanoutInv ==
  status = "pass" => \A l \in Gates : \A u \in UsersOf(l) :
    Cardinality(Occurrences(dp_fanouts[l], u))
      = IF u \in placed THEN Cardinality(Candidates[u]) ELSE 0

\* Sequence t is s with k times n appended.
Appended(s, t, n, k) ==
  /\ Len(t) = Len(s) + k
  /\ \A i \in 1 .. Len(s) : t[i] = s[i]
  /\ \A i \in Len(s) + 1 .. Len(s) + k : t[i] = n

\* Appending one gate several times adds to its own occurrences only.
LEMMA OccurrencesAppend ==
  ASSUME NEW n \in Gates, NEW u \in Gates, NEW k \in Nat,
         NEW s \in Seq(Gates), NEW t \in Seq(Gates), Appended(s, t, n, k)
  PROVE  Cardinality(Occurrences(t, u))
           = Cardinality(Occurrences(s, u)) + (IF u = n THEN k ELSE 0)
<1>1. /\ Len(s) \in Nat /\ DOMAIN s = 1 .. Len(s) /\ DOMAIN t = 1 .. Len(s) + k
      /\ \A i \in 1 .. Len(s) : t[i] = s[i]
      /\ \A i \in Len(s) + 1 .. Len(s) + k : t[i] = n
  BY DEF Appended
<1>2. PICK new : new = Len(s) + 1 .. Len(s) + k
  OBVIOUS
<1>3. PICK old : old = Occurrences(s, u)
  OBVIOUS
<1>4. IsFiniteSet(old) /\ Cardinality(old) \in Nat
  <2>1. IsFiniteSet(1 .. Len(s)) /\ old \in SUBSET (1 .. Len(s))
    BY <1>1, <1>3, FS_Interval DEF Occurrences
  <2>. QED  BY <2>1, FS_Subset, FS_CardinalityType
<1>5. CASE u # n
  <2>1. Occurrences(t, u) = old
    BY <1>1, <1>3, <1>5 DEF Occurrences
  <2>. QED  BY <1>3, <1>4, <1>5, <2>1
<1>6. CASE u = n
  <2>1. Occurrences(t, u) = old \cup new /\ old \cap new = {}
    BY <1>1, <1>2, <1>3, <1>6 DEF Occurrences
  <2>2. IsFiniteSet(new) /\ Cardinality(new) = k
    <3>1. PICK a, b : a = Len(s) + 1 /\ b = Len(s) + k
      OBVIOUS
    <3>2. a \in Int /\ b \in Int /\ (a > b <=> k = 0) /\ b - a + 1 = k
      BY <1>1, <3>1
    <3>. QED  BY <1>2, <3>1, <3>2, FS_Interval
  <2>3. Cardinality(old \cup new) = Cardinality(old) + Cardinality(new) - Cardinality({})
    BY <1>4, <2>1, <2>2, FS_Union
  <2>4. Cardinality(old \cup new) = Cardinality(old) + k
    BY <1>4, <2>2, <2>3, FS_EmptySet
  <2>5. Cardinality(Occurrences(t, u)) = Cardinality(old) + k
    BY <2>1, <2>4
  <2>. QED  BY <1>3, <1>6, <2>5
<1>. QED  BY <1>5, <1>6

\* Every step keeps the fanouts in step with what is placed.
LEMMA FanoutNext ==
  ASSUME TypeOK, OrderInv, FanoutInv, [Next]_vars
  PROVE  FanoutInv'
<1>1. CASE StartPass
  <2>1. \A l \in Gates : dp_fanouts'[l] = <<>> /\ placed' = {}
    BY <1>1 DEF StartPass
  <2>2. \A u : Occurrences(<<>>, u) = {}
    BY DEF Occurrences
  <2>. QED  BY <2>1, <2>2, FS_EmptySet DEF FanoutInv
<1>2. ASSUME NEW n \in Gates, NEW test \in TestGates(n), ProcessGate(n, test)
      PROVE  FanoutInv'
  <2>1. n \notin placed /\ status = "pass"
    BY <1>2, HeadNotPlaced DEF ProcessGate, Dequeue
  <2>2. /\ placed' = placed \cup {n}
        /\ dp_fanouts' = [l \in Gates |->
             IF l \in Leaves[n]
             THEN dp_fanouts[l] \o [i \in 1 .. Cardinality(Candidates[n]) |-> n]
             ELSE dp_fanouts[l]]
    BY <1>2 DEF ProcessGate, PlaceGate
  <2>3. ASSUME NEW l \in Gates, NEW u \in UsersOf(l)
        PROVE  Cardinality(Occurrences(dp_fanouts'[l], u))
                 = IF u \in placed' THEN Cardinality(Candidates[u]) ELSE 0
    <3>1. Cardinality(Occurrences(dp_fanouts[l], u))
            = IF u \in placed THEN Cardinality(Candidates[u]) ELSE 0
      BY <2>1 DEF FanoutInv
    <3>2. u \in Gates /\ l \in Leaves[u] /\ dp_fanouts[l] \in Seq(Gates)
      BY DEF UsersOf, TypeOK
    <3>3. Cardinality(Candidates[n]) \in Nat
      BY FiniteCandidates
    <3>4. CASE l \in Leaves[n]
      <4>1. Cardinality(Occurrences(dp_fanouts'[l], u))
              = Cardinality(Occurrences(dp_fanouts[l], u))
                  + (IF u = n THEN Cardinality(Candidates[n]) ELSE 0)
        <5>1. PICK k \in Nat : k = Cardinality(Candidates[n])
          BY <3>3
        <5>2. PICK s \in Seq(Gates) : s = dp_fanouts[l]
          BY <3>2
        <5>3. PICK t : t = s \o [i \in 1 .. k |-> n]
          OBVIOUS
        <5>4. t \in Seq(Gates) /\ Appended(s, t, n, k)
          BY <5>3 DEF Appended
        <5>5. t = dp_fanouts'[l]
          BY <2>2, <3>4, <5>1, <5>2, <5>3
        <5>6. Cardinality(Occurrences(t, u))
                = Cardinality(Occurrences(s, u)) + (IF u = n THEN k ELSE 0)
          BY <3>2, <5>4, OccurrencesAppend
        <5>. QED  BY <5>1, <5>2, <5>5, <5>6
      <4>. QED  BY <2>1, <2>2, <3>1, <3>2, <3>3, <4>1, FiniteCandidates
    <3>5. CASE l \notin Leaves[n]
      <4>1. u # n /\ dp_fanouts'[l] = dp_fanouts[l]
        BY <2>2, <3>2, <3>5
      <4>. QED  BY <2>2, <3>1, <4>1
    <3>. QED  BY <3>4, <3>5
  <2>. QED  BY <2>3 DEF FanoutInv, UsersOf
<1>3. ASSUME NEW n \in Gates, NEW test \in TestGates(n), Crash(n, test)
      PROVE  FanoutInv'
  BY <1>3 DEF Crash, FanoutInv
<1>4. ASSUME status' = "pass" => UNCHANGED <<status, placed, dp_fanouts>>
      PROVE  FanoutInv'
  BY <1>4 DEF FanoutInv, UsersOf
<1>5. \/ StartPass
      \/ \E n \in Gates : \E test \in TestGates(n) : ProcessGate(n, test)
      \/ \E n \in Gates : \E test \in TestGates(n) : Crash(n, test)
      \/ status' = "pass" => UNCHANGED <<status, placed, dp_fanouts>>
  BY DEF Next, Stop, vars, SkipPass, EndPass, Finish, SkipInput, passVars
<1>. QED  BY <1>1, <1>2, <1>3, <1>4, <1>5

\* All users of a queued gate are placed.
LEMMA QueuedUsers ==
  ASSUME TypeOK, PassInv, NEW i \in DOMAIN res_nodes, res_nodes[i] \in Gates,
         NEW u \in UsersOf(res_nodes[i])
  PROVE  u \in placed
<1>1. PICK g \in Candidates[u] : u \in Gates /\ <<u, g>> \in Uses(res_nodes[i])
  BY LibraryAssumption DEF UsersOf, Uses
<1>2. Pending(res_nodes[i]) = {}
  BY DEF PassInv, QueuedInv
<1>. QED  BY <1>1, <1>2 DEF Pending

(***************************************************************************)
(* When no gate drives two outputs, every user of a queued gate has a row  *)
(* and stands in dp_fanouts once for each of its candidates, so that the   *)
(* distances to the fanouts never count a gate that has no row.            *)
(***************************************************************************)
THEOREM FanoutsAlwaysKnown ==
  ASSUME DistinctPOs
  PROVE  Spec => []FanoutsKnown
<1>1. Init => FanoutInv
  BY DEF Init, FanoutInv
<1>2. TypeOK /\ OrderInv /\ FanoutInv /\ [Next]_vars => FanoutInv'
  BY FanoutNext
<1>3. TypeOK /\ OrderInv /\ FanoutInv => FanoutsKnown
  BY QueuedUsers DEF OrderInv, FanoutInv, FanoutsKnown, Occurrences
<1>4. Spec => []TypeOK
  BY TypeCorrect
<1>5. Spec => []OrderInv
  BY OrderAlways
<1>. QED  BY <1>1, <1>2, <1>3, <1>4, <1>5, PTL DEF Spec

-----------------------------------------------------------------------------
(***************************************************************************)
(* The search for a row.  Its loop is a recursive function on the offsets, *)
(* which exists because every round goes on to a later turn.  What the     *)
(* loop knows at an offset (LoopInv) is what holds of all rows of earlier  *)
(* turns; at its end these are all rows, or all that are reached.          *)
(***************************************************************************)

\* The turn at which the loop comes to an offset.
TurnOf(i) == IF i >= 0 THEN 2 * i ELSE -2 * i - 1

\* The offset the loop goes on with, which is none of S at its end.
NextOf(i, S) == IF Across(i) \in S THEN Across(i) ELSE Across(Across(i))

\* f is the loop over the offsets in S, with the rows taken in M: it stops
\* at the offsets and rows in stop, and goes on with what take says is taken.
IsLoop(f, S, M, stop, take) ==
  f = [i \in S |-> [m \in M |->
        IF <<i, m>> \in stop THEN m
        ELSE IF Across(i) \in S THEN f[Across(i)][take[i][m]]
        ELSE IF Across(Across(i)) \in S THEN f[Across(Across(i))][take[i][m]]
        ELSE take[i][m]]]

\* The offsets of the rows 1 .. L around the row o.
OffsetsOf(L, o) == {k - o : k \in 1 .. L}

\* The offsets are the numbers between two bounds.
LEMMA Offsets ==
  ASSUME NEW L \in Nat, NEW o \in 1 .. L
  PROVE  OffsetsOf(L, o) = (1 - o) .. (L - o)
<1>1. ASSUME NEW i \in (1 - o) .. (L - o)
      PROVE  i \in OffsetsOf(L, o)
  <2>1. i + o \in 1 .. L /\ i = (i + o) - o
    OBVIOUS
  <2>. QED  BY <2>1 DEF OffsetsOf
<1>. QED  BY <1>1 DEF OffsetsOf

\* No two offsets have the same turn.
LEMMA TurnsDiffer ==
  ASSUME NEW i \in Int, NEW j \in Int
  PROVE  /\ TurnOf(i) \in Nat
         /\ TurnOf(i) = TurnOf(j) => i = j
BY DEF TurnOf

\* The loop goes on with the next turn within the floorplan, and ends when
\* there is no later one.
LEMMA NextTurn ==
  ASSUME NEW a \in Int, NEW b \in Int, 0 \in a .. b, NEW i \in a .. b
  PROVE  /\ Across(i) \in Int /\ Across(Across(i)) \in Int
         /\ TurnOf(Across(i)) = TurnOf(i) + 1
         /\ TurnOf(Across(Across(i))) = TurnOf(i) + 2
         /\ Across(i) \notin a .. b /\ Across(Across(i)) \notin a .. b =>
              \A j \in a .. b : TurnOf(j) =< TurnOf(i)
BY DEF TurnOf, Across

\* There is such a loop.
LEMMA LoopExists ==
  ASSUME NEW a \in Int, NEW b \in Int, NEW S, S = a .. b, 0 \in S, NEW M,
         NEW stop, NEW take \in [S -> [M -> M]]
  PROVE  \E f \in [S -> [M -> M]] : IsLoop(f, S, M, stop, take)
<1> DEFINE top == 2 * (b - a) + 2
           D(n) == {i \in S : TurnOf(i) + n >= top}
           Body(f, i, m) ==
             IF <<i, m>> \in stop THEN m
             ELSE IF Across(i) \in S THEN f[Across(i)][take[i][m]]
             ELSE IF Across(Across(i)) \in S THEN f[Across(Across(i))][take[i][m]]
             ELSE take[i][m]
           Loops(f, n) == f = [i \in D(n) |-> [m \in M |-> Body(f, i, m)]]
           G == {n \in Nat : \E f \in [D(n) -> [M -> M]] : Loops(f, n)}
<1>1. \A i \in S : TurnOf(i) \in Nat /\ TurnOf(i) < top
  BY DEF TurnOf
<1>2. top \in Nat
  OBVIOUS
<1>3. ASSUME NEW i \in S
      PROVE  /\ Across(i) \in S => TurnOf(Across(i)) = TurnOf(i) + 1
             /\ Across(Across(i)) \in S => TurnOf(Across(Across(i))) = TurnOf(i) + 2
  BY NextTurn
<1>4. 0 \in G
  <2>1. D(0) = {}
    BY <1>1, <1>2
  <2>2. PICK f : f = [i \in D(0) |-> [m \in M |-> m]]
    OBVIOUS
  <2>3. f \in [D(0) -> [M -> M]]
    BY <2>2
  <2>4. Loops(f, 0)
    BY <2>1, <2>2
  <2>. QED  BY <2>3, <2>4
<1>5. ASSUME NEW n \in G
      PROVE  n + 1 \in G
  <2>1. PICK f \in [D(n) -> [M -> M]] : Loops(f, n)
    OBVIOUS
  <2>2. n \in Nat /\ D(n) \in SUBSET D(n + 1) /\ D(n + 1) \in SUBSET S
    BY <1>1
  <2>3. ASSUME NEW i \in D(n + 1)
        PROVE  /\ Across(i) \in S => Across(i) \in D(n)
               /\ Across(Across(i)) \in S => Across(Across(i)) \in D(n)
    BY <1>1, <1>2, <1>3, <2>2
  <2>4. PICK h : h = [i \in D(n + 1) |-> [m \in M |-> Body(f, i, m)]]
    OBVIOUS
  <2>. HIDE DEF D, top
  <2>5. ASSUME NEW i \in D(n + 1), NEW m \in M
        PROVE  Body(f, i, m) \in M
    <3>1. take[i][m] \in M
      BY <2>2
    <3>. QED  BY <2>1, <2>3, <3>1
  <2>6. h \in [D(n + 1) -> [M -> M]]
    <3>. HIDE DEF Body
    <3>. QED  BY <2>4, <2>5
  <2>7. \A i \in D(n) : h[i] = f[i]
    <3>. HIDE DEF Body
    <3>. QED  BY <2>1, <2>2, <2>4
  <2>8. ASSUME NEW i \in D(n + 1), NEW m \in M
        PROVE  Body(f, i, m) = Body(h, i, m)
    BY <2>3, <2>7
  <2>9. Loops(h, n + 1)
    <3>. HIDE DEF Body
    <3>. QED  BY <2>4, <2>8
  <2>. HIDE DEF Loops
  <2>. QED  BY <2>2, <2>6, <2>9
<1>6. G = Nat
  <2>1. G \in SUBSET Nat
    OBVIOUS
  <2>. HIDE DEF G
  <2>. QED  BY <1>4, <1>5, <2>1, InductionOnNat
<1>7. D(top) = S
  BY <1>1, <1>2
<1>8. PICK f \in [D(top) -> [M -> M]] : Loops(f, top)
  <2>1. top \in G
    <3>. HIDE DEF G, top
    <3>. QED  BY <1>2, <1>6
  <2>. QED  BY <2>1
<1>9. f \in [S -> [M -> M]] /\ f = [i \in S |-> [m \in M |-> Body(f, i, m)]]
  <2>. HIDE DEF D, Body, top
  <2>. QED  BY <1>7, <1>8
<1>. QED  BY <1>9 DEF IsLoop

\* f is the loop for the rows R with room and the costs c.
IsSearch(f, L, o, R, c, S, M, stop, take) ==
  /\ S = (1 - o) .. (L - o)
  /\ M = {NoRow} \cup 1 .. L
  /\ \A i \in S, m \in M : <<i, m>> \in stop <=> m # NoRow /\ c[o + i] > c[m]
  /\ take \in [S -> [M -> M]]
  /\ \A i \in S, m \in M : take[i][m] = IF o + i \in R THEN o + i ELSE m
  /\ f \in [S -> [M -> M]]
  /\ IsLoop(f, S, M, stop, take)

\* Every such loop ends with a row taken on the way.
LEMMA LoopType ==
  ASSUME NEW a \in Int, NEW b \in Int, NEW S, S = a .. b, 0 \in S, NEW M,
         NEW stop, NEW take \in [S -> [M -> M]],
         NEW f, IsLoop(f, S, M, stop, take)
  PROVE  f \in [S -> [M -> M]]
<1>1. PICK h \in [S -> [M -> M]] : IsLoop(h, S, M, stop, take)
  BY LoopExists
<1> DEFINE T == {t \in Nat : \E j \in S : t = TurnOf(j) /\ f[j] # h[j]}
<1>2. \A j \in S : j \in Int /\ TurnOf(j) \in Nat
  BY TurnsDiffer
<1>3. ASSUME T # {} PROVE FALSE
  <2>1. PICK t \in T : \A x \in T : x =< t
    <3>1. PICK top \in Nat : top = 2 * (b - a) + 2
      OBVIOUS
    <3>2. \A j \in S : TurnOf(j) =< top
      BY <3>1 DEF TurnOf
    <3>3. T \in SUBSET Nat /\ \A x \in T : x =< top
      BY <3>2
    <3>. HIDE DEF T
    <3>. QED  BY <1>3, <3>3, GreatestOfNats
  <2>2. PICK j \in S : t = TurnOf(j) /\ f[j] # h[j]
    OBVIOUS
  <2>3. ASSUME NEW x \in S, TurnOf(x) > TurnOf(j)
        PROVE  f[x] = h[x]
    <3>1. TurnOf(x) \notin T
      <4>1. TurnOf(x) \in Nat /\ t \in Nat
        BY <1>2, <2>2
      <4>. HIDE DEF T
      <4>. QED  BY <2>1, <2>2, <2>3, <4>1
    <3>. QED  BY <1>2, <3>1
  <2>4. /\ Across(j) \in S => f[Across(j)] = h[Across(j)]
        /\ Across(Across(j)) \in S => f[Across(Across(j))] = h[Across(Across(j))]
    <3>1. /\ TurnOf(Across(j)) = TurnOf(j) + 1
          /\ TurnOf(Across(Across(j))) = TurnOf(j) + 2
      BY NextTurn
    <3>. HIDE DEF T
    <3>. QED  BY <1>2, <2>3, <3>1
  <2> DEFINE e(q) == [i \in S |-> [m \in M |->
                       IF <<i, m>> \in stop THEN m
                       ELSE IF Across(i) \in S THEN q[Across(i)][take[i][m]]
                       ELSE IF Across(Across(i)) \in S
                            THEN q[Across(Across(i))][take[i][m]]
                       ELSE take[i][m]]]
  <2>5. e(f)[j] = e(h)[j]
    BY <2>4
  <2>6. f = e(f) /\ h = e(h)
    BY <1>1 DEF IsLoop
  <2>7. f[j] = h[j]
    <3>. HIDE DEF e, T
    <3>1. f[j] = e(f)[j]
      BY <2>6, Zenon
    <3>2. h[j] = e(h)[j]
      BY <2>6, Zenon
    <3>. QED  BY <2>5, <3>1, <3>2
  <2>. QED  BY <2>2, <2>7
<1>4. \A j \in S : f[j] = h[j]
  BY <1>2, <1>3
<1>5. f = [j \in S |-> f[j]] /\ h = [j \in S |-> h[j]]
  BY <1>1 DEF IsLoop
<1>. QED  BY <1>4, <1>5

\* No row up to a turn costs more than one with room before it; R are the
\* rows with room and c are the costs.
CheapUpTo(L, o, R, c, turn) ==
  \A p, j \in 1 .. L :
    Turn(o, j) < Turn(o, p) /\ Turn(o, p) =< turn /\ j \in R => c[p] =< c[j]

\* m is the row of T that the search comes to last, or none when T is empty.
IsLast(m, T, o) ==
  IF m = NoRow THEN T = {} ELSE m \in T /\ \A j \in T : Turn(o, j) =< Turn(o, m)

\* The rows with room before offset i, and all that are reached.
Before(o, R, i) == {k \in R : Turn(o, k) < TurnOf(i)}
TakenOf(L, o, R, c) == {k \in R : CheapUpTo(L, o, R, c, Turn(o, k))}

\* What the loop knows at offset i with m taken.
LoopInv(L, o, R, c, i, m) ==
  CheapUpTo(L, o, R, c, TurnOf(i) - 1) /\ IsLast(m, Before(o, R, i), o)

\* The turn of a row is that of its offset, and no other row has it.
LEMMA TurnOfRow ==
  ASSUME NEW L \in Nat, NEW o \in 1 .. L, NEW i \in Int, o + i \in 1 .. L
  PROVE  /\ Turn(o, o + i) = TurnOf(i)
         /\ TurnOf(i) \in Nat
         /\ \A k \in 1 .. L : Turn(o, k) \in Nat
         /\ \A k \in 1 .. L : Turn(o, k) = TurnOf(i) => k = o + i
         /\ \A j, k \in 1 .. L : Turn(o, j) = Turn(o, k) => j = k
BY DEF Turn, TurnOf

\* A row that is too dear ends the search: what is taken is all that is
\* reached.
LEMMA LoopStops ==
  ASSUME NEW L \in Nat, NEW o \in 1 .. L, NEW R \in SUBSET (1 .. L),
         NEW c \in [1 .. L -> Int],
         NEW i \in Int, o + i \in 1 .. L, NEW m \in 1 .. L,
         LoopInv(L, o, R, c, i, m), c[o + i] > c[m]
  PROVE  IsLast(m, TakenOf(L, o, R, c), o)
<1>1. /\ Turn(o, o + i) = TurnOf(i) /\ TurnOf(i) \in Nat
      /\ \A k \in 1 .. L : Turn(o, k) \in Nat
  BY TurnOfRow
<1>2. m # NoRow /\ m \in R /\ Turn(o, m) < TurnOf(i)
  BY DEF LoopInv, IsLast, Before, NoRow
<1>3. ASSUME NEW k \in R
      PROVE  k \in TakenOf(L, o, R, c) <=> Turn(o, k) < TurnOf(i)
  <2>1. CASE Turn(o, k) < TurnOf(i)
    <3>1. Turn(o, k) =< TurnOf(i) - 1
      BY <1>1, <2>1
    <3>2. CheapUpTo(L, o, R, c, TurnOf(i) - 1)
      BY DEF LoopInv
    <3>3. ASSUME NEW p \in 1 .. L, Turn(o, p) =< Turn(o, k)
          PROVE  Turn(o, p) =< TurnOf(i) - 1
      BY <1>1, <3>1, <3>3
    <3>4. CheapUpTo(L, o, R, c, Turn(o, k))
      BY <3>2, <3>3 DEF CheapUpTo
    <3>. QED  BY <2>1, <3>4 DEF TakenOf
  <2>2. CASE ~(Turn(o, k) < TurnOf(i))
    <3>1. Turn(o, m) < Turn(o, o + i) /\ Turn(o, o + i) =< Turn(o, k)
      BY <1>1, <1>2, <2>2
    <3>2. c[m] \in Int /\ c[o + i] \in Int /\ ~(c[o + i] =< c[m])
      BY <1>2
    <3>3. ~CheapUpTo(L, o, R, c, Turn(o, k))
      BY <1>2, <3>1, <3>2 DEF CheapUpTo
    <3>. QED  BY <2>2, <3>3 DEF TakenOf
  <2>. QED  BY <2>1, <2>2
<1>4. TakenOf(L, o, R, c) = Before(o, R, i)
  BY <1>3 DEF TakenOf, Before
<1>. QED  BY <1>4 DEF LoopInv

\* A row that is not too dear is taken if it has room.
LEMMA LoopTakes ==
  ASSUME NEW L \in Nat, NEW o \in 1 .. L, NEW R \in SUBSET (1 .. L),
         NEW c \in [1 .. L -> Int],
         NEW i \in Int, o + i \in 1 .. L, NEW m \in {NoRow} \cup 1 .. L,
         LoopInv(L, o, R, c, i, m), ~(m # NoRow /\ c[o + i] > c[m]),
         NEW t, t = IF o + i \in R THEN o + i ELSE m
  PROVE  /\ CheapUpTo(L, o, R, c, TurnOf(i))
         /\ IsLast(t, {k \in R : Turn(o, k) =< TurnOf(i)}, o)
<1>1. /\ Turn(o, o + i) = TurnOf(i) /\ TurnOf(i) \in Nat
      /\ \A k \in 1 .. L : Turn(o, k) \in Nat
      /\ \A k \in 1 .. L : Turn(o, k) = TurnOf(i) => k = o + i
      /\ \A j, k \in 1 .. L : Turn(o, j) = Turn(o, k) => j = k
  BY TurnOfRow
<1>2. ASSUME NEW j \in R, Turn(o, j) < TurnOf(i)
      PROVE  c[o + i] =< c[j]
  <2>1. m # NoRow /\ m \in R /\ Turn(o, j) =< Turn(o, m) /\ Turn(o, m) < TurnOf(i)
    BY <1>2 DEF LoopInv, IsLast, Before
  <2>2. c[o + i] =< c[m] /\ c[m] \in Int /\ c[j] \in Int /\ c[o + i] \in Int
    BY <2>1
  <2>3. c[m] =< c[j]
    <3>1. CASE j = m
      BY <2>2, <3>1
    <3>2. CASE j # m
      <4>1. Turn(o, j) # Turn(o, m)
        BY <1>1, <2>1, <3>2
      <4>2. Turn(o, j) < Turn(o, m) /\ Turn(o, m) =< TurnOf(i) - 1
        BY <1>1, <2>1, <4>1
      <4>. QED  BY <2>1, <4>2 DEF LoopInv, CheapUpTo
    <3>. QED  BY <3>1, <3>2
  <2>. QED  BY <2>2, <2>3
<1>3. CheapUpTo(L, o, R, c, TurnOf(i))
  <2>1. ASSUME NEW p \in 1 .. L, NEW j \in 1 .. L,
               Turn(o, j) < Turn(o, p), Turn(o, p) =< TurnOf(i), j \in R
        PROVE  c[p] =< c[j]
    <3>1. CASE Turn(o, p) = TurnOf(i)
      BY <1>1, <1>2, <2>1, <3>1
    <3>2. CASE Turn(o, p) # TurnOf(i)
      BY <1>1, <2>1, <3>2 DEF LoopInv, CheapUpTo
    <3>. QED  BY <3>1, <3>2
  <2>. QED  BY <2>1 DEF CheapUpTo
<1>4. IsLast(t, {k \in R : Turn(o, k) =< TurnOf(i)}, o)
  <2>1. CASE o + i \in R
    BY <1>1, <2>1 DEF IsLast, NoRow
  <2>2. CASE o + i \notin R
    <3>1. ASSUME NEW k \in R
          PROVE  Turn(o, k) =< TurnOf(i) <=> Turn(o, k) < TurnOf(i)
      <4>1. Turn(o, k) # TurnOf(i) /\ Turn(o, k) \in Nat
        BY <1>1, <2>2
      <4>. QED  BY <1>1, <4>1
    <3>2. {k \in R : Turn(o, k) =< TurnOf(i)} = Before(o, R, i)
      BY <3>1 DEF Before
    <3>. QED  BY <2>2, <3>2 DEF LoopInv
  <2>. QED  BY <2>1, <2>2
<1>. QED  BY <1>3, <1>4

\* One round: it ends the search with all that is reached taken, or the next
\* offset has a later turn and finds what it may rely on.
LEMMA LoopRound ==
  ASSUME NEW L \in Nat, NEW o \in 1 .. L, NEW R \in SUBSET (1 .. L),
         NEW c \in [1 .. L -> Int],
         NEW i \in Int, o + i \in 1 .. L, NEW m \in {NoRow} \cup 1 .. L,
         LoopInv(L, o, R, c, i, m), ~(m # NoRow /\ c[o + i] > c[m]),
         NEW t, t = IF o + i \in R THEN o + i ELSE m,
         NEW S, S = (1 - o) .. (L - o)
  PROVE  /\ Across(i) \in S => LoopInv(L, o, R, c, Across(i), t)
         /\ Across(i) \notin S /\ Across(Across(i)) \in S
              => LoopInv(L, o, R, c, Across(Across(i)), t)
         /\ Across(i) \notin S /\ Across(Across(i)) \notin S
              => IsLast(t, TakenOf(L, o, R, c), o)
<1>1. /\ CheapUpTo(L, o, R, c, TurnOf(i))
      /\ IsLast(t, {k \in R : Turn(o, k) =< TurnOf(i)}, o)
  BY LoopTakes
<1>2. /\ i \in S /\ 0 \in S
      /\ Across(i) \in Int /\ Across(Across(i)) \in Int
      /\ TurnOf(i) \in Nat
      /\ TurnOf(Across(i)) = TurnOf(i) + 1
      /\ TurnOf(Across(Across(i))) = TurnOf(i) + 2
      /\ Across(i) \notin S /\ Across(Across(i)) \notin S =>
           \A j \in S : TurnOf(j) =< TurnOf(i)
  <2>1. i \in S /\ 0 \in S /\ 1 - o \in Int /\ L - o \in Int
    OBVIOUS
  <2>. QED  BY <2>1, NextTurn, TurnsDiffer
<1>3. ASSUME NEW k \in 1 .. L
      PROVE  \E j \in S : k = o + j /\ Turn(o, k) = TurnOf(j) /\ Turn(o, k) \in Nat
  <2>1. PICK j : j = k - o
    OBVIOUS
  <2>2. j \in S /\ j \in Int /\ k = o + j
    BY <2>1
  <2>. QED  BY <2>2, TurnOfRow
<1>4. CASE Across(i) \in S
  <2>1. ASSUME NEW k \in R
        PROVE  Turn(o, k) < TurnOf(Across(i)) <=> Turn(o, k) =< TurnOf(i)
    <3>1. Turn(o, k) \in Nat
      BY <1>3
    <3>. QED  BY <1>2, <3>1
  <2>2. Before(o, R, Across(i)) = {k \in R : Turn(o, k) =< TurnOf(i)}
    BY <2>1 DEF Before
  <2>3. TurnOf(Across(i)) - 1 = TurnOf(i)
    BY <1>2
  <2>. QED  BY <1>1, <1>4, <2>2, <2>3 DEF LoopInv
<1>5. CASE Across(i) \notin S /\ Across(Across(i)) \in S
  <2>1. ASSUME NEW k \in 1 .. L
        PROVE  Turn(o, k) # TurnOf(i) + 1
    <3>1. PICK j \in S : Turn(o, k) = TurnOf(j) /\ j \in Int
      BY <1>3
    <3>2. TurnOf(j) # TurnOf(Across(i))
      BY <1>2, <1>5, <3>1, TurnsDiffer
    <3>. QED  BY <1>2, <3>1, <3>2
  <2>2. PICK later : later = Across(Across(i))
    OBVIOUS
  <2>3. TurnOf(later) = TurnOf(i) + 2
    BY <1>2, <2>2
  <2>4. ASSUME NEW k \in 1 .. L
        PROVE  Turn(o, k) < TurnOf(later) <=> Turn(o, k) =< TurnOf(i)
    <3>1. Turn(o, k) \in Nat /\ Turn(o, k) # TurnOf(i) + 1
      BY <1>3, <2>1
    <3>. QED  BY <1>2, <2>3, <3>1
  <2>5. Before(o, R, later) = {k \in R : Turn(o, k) =< TurnOf(i)}
    BY <2>4 DEF Before
  <2>6. CheapUpTo(L, o, R, c, TurnOf(later) - 1)
    <3>1. ASSUME NEW k \in 1 .. L, Turn(o, k) =< TurnOf(later) - 1
          PROVE  Turn(o, k) =< TurnOf(i)
      BY <1>2, <1>3, <2>3, <2>4, <3>1
    <3>. QED  BY <1>1, <3>1 DEF CheapUpTo
  <2>. QED  BY <1>1, <1>5, <2>2, <2>5, <2>6 DEF LoopInv
<1>6. CASE Across(i) \notin S /\ Across(Across(i)) \notin S
  <2>1. \A k \in 1 .. L : Turn(o, k) =< TurnOf(i)
    BY <1>2, <1>3, <1>6
  <2>2. \A k \in R : CheapUpTo(L, o, R, c, Turn(o, k))
    BY <1>1, <2>1 DEF CheapUpTo
  <2>3. TakenOf(L, o, R, c) = {k \in R : Turn(o, k) =< TurnOf(i)}
    BY <2>1, <2>2 DEF TakenOf
  <2>. QED  BY <1>1, <1>6, <2>3
<1>. QED  BY <1>4, <1>5, <1>6

\* From any offset on the loop ends with the last row that is taken.
LEMMA LoopResult ==
  ASSUME NEW L \in Nat, NEW o \in 1 .. L, NEW R \in SUBSET (1 .. L),
         NEW c \in [1 .. L -> Int],
         NEW f, NEW S, NEW M, NEW stop, NEW take,
         IsSearch(f, L, o, R, c, S, M, stop, take),
         NEW i \in S, NEW m \in M, LoopInv(L, o, R, c, i, m)
  PROVE  IsLast(f[i][m], TakenOf(L, o, R, c), o)
<1> DEFINE Bad(j) == \E k \in M : /\ LoopInv(L, o, R, c, j, k)
                                 /\ ~IsLast(f[j][k], TakenOf(L, o, R, c), o)
           T == {t \in Nat : \E j \in S : t = TurnOf(j) /\ Bad(j)}
<1>1. S = (1 - o) .. (L - o) /\ M = {NoRow} \cup 1 .. L
  BY DEF IsSearch
<1>2. \A x \in S, y \in M : <<x, y>> \in stop <=> y # NoRow /\ c[o + x] > c[y]
  BY DEF IsSearch
<1>3. \A x \in S, y \in M :
        take[x][y] \in M /\ take[x][y] = IF o + x \in R THEN o + x ELSE y
  BY DEF IsSearch
<1>4. f \in [S -> [M -> M]] /\ IsLoop(f, S, M, stop, take)
  BY DEF IsSearch
<1>5. SUFFICES ASSUME T # {} PROVE FALSE
  <2>1. i \in Int
    BY <1>1
  <2>2. Bad(i) => TurnOf(i) \in T
    BY <2>1, TurnsDiffer
  <2>. QED  BY <2>2
<1>6. \A j \in S : j \in Int /\ o + j \in 1 .. L /\ TurnOf(j) \in Nat
  <2>1. \A j \in S : j \in Int /\ o + j \in 1 .. L
    BY <1>1
  <2>. QED  BY <2>1, TurnsDiffer
<1>7. PICK t \in T : \A x \in T : x =< t
  <2>1. PICK b \in Nat : b = 2 * L
    OBVIOUS
  <2>2. \A j \in S : TurnOf(j) =< b
    BY <1>1, <2>1 DEF TurnOf
  <2>3. T \in SUBSET Nat /\ \A x \in T : x =< b
    BY <2>2
  <2>. HIDE DEF T
  <2>. QED  BY <1>5, <2>3, GreatestOfNats
<1>8. PICK j \in S : t = TurnOf(j) /\ Bad(j)
  OBVIOUS
<1>9. PICK k \in M : /\ LoopInv(L, o, R, c, j, k)
                     /\ ~IsLast(f[j][k], TakenOf(L, o, R, c), o)
  BY <1>8
<1>10. ASSUME NEW x \in S, TurnOf(x) > TurnOf(j), NEW y \in M, LoopInv(L, o, R, c, x, y)
      PROVE  IsLast(f[x][y], TakenOf(L, o, R, c), o)
  <2>1. TurnOf(x) \notin T
    <3>1. TurnOf(x) \in Nat /\ t \in Nat
      BY <1>6, <1>8
    <3>. HIDE DEF T
    <3>. QED  BY <1>7, <1>8, <1>10, <3>1
  <2>2. ~Bad(x)
    BY <1>6, <2>1
  <2>. QED  BY <1>10, <2>2
<1>. HIDE DEF Bad, T
<1>11. f[j][k] = IF <<j, k>> \in stop THEN k
                ELSE IF Across(j) \in S THEN f[Across(j)][take[j][k]]
                ELSE IF Across(Across(j)) \in S THEN f[Across(Across(j))][take[j][k]]
                ELSE take[j][k]
  <2> DEFINE e == [x \in S |-> [y \in M |->
                    IF <<x, y>> \in stop THEN y
                    ELSE IF Across(x) \in S THEN f[Across(x)][take[x][y]]
                    ELSE IF Across(Across(x)) \in S THEN f[Across(Across(x))][take[x][y]]
                    ELSE take[x][y]]]
  <2>1. f = e
    BY <1>4 DEF IsLoop
  <2>2. f[j][k] = e[j][k]
    BY <2>1, Zenon
  <2>. QED  BY <2>2
<1>12. CASE <<j, k>> \in stop
  <2>1. k \in 1 .. L /\ c[o + j] > c[k]
    BY <1>1, <1>2, <1>12
  <2>2. f[j][k] = k
    BY <1>11, <1>12
  <2>3. IsLast(k, TakenOf(L, o, R, c), o)
    BY <1>6, <1>9, <2>1, LoopStops
  <2>. QED  BY <1>9, <2>2, <2>3
<1>13. CASE <<j, k>> \notin stop
  <2>1. PICK r \in M : r = take[j][k] /\ r = IF o + j \in R THEN o + j ELSE k
    BY <1>3
  <2>2. /\ Across(j) \in S => LoopInv(L, o, R, c, Across(j), r)
        /\ Across(j) \notin S /\ Across(Across(j)) \in S
             => LoopInv(L, o, R, c, Across(Across(j)), r)
        /\ Across(j) \notin S /\ Across(Across(j)) \notin S
             => IsLast(r, TakenOf(L, o, R, c), o)
    <3>1. k \in {NoRow} \cup 1 .. L /\ ~(k # NoRow /\ c[o + j] > c[k])
      BY <1>1, <1>2, <1>13
    <3>2. j \in Int /\ o + j \in 1 .. L
      BY <1>6
    <3>3. S = (1 - o) .. (L - o)
      BY <1>1
    <3>4. LoopInv(L, o, R, c, j, k) /\ r = IF o + j \in R THEN o + j ELSE k
      BY <1>9, <2>1
    <3>. QED  BY <3>1, <3>2, <3>3, <3>4, LoopRound
  <2>3. /\ TurnOf(Across(j)) > TurnOf(j)
        /\ TurnOf(Across(Across(j))) > TurnOf(j)
    <3>1. 1 - o \in Int /\ L - o \in Int /\ 0 \in S
      BY <1>1
    <3>2. TurnOf(Across(j)) = TurnOf(j) + 1 /\ TurnOf(Across(Across(j))) = TurnOf(j) + 2
      BY <1>1, <3>1, NextTurn
    <3>. QED  BY <1>6, <3>2
  <2>4. CASE Across(j) \in S
    BY <1>9, <1>10, <1>11, <1>13, <2>1, <2>2, <2>3, <2>4
  <2>5. CASE Across(j) \notin S /\ Across(Across(j)) \in S
    BY <1>9, <1>10, <1>11, <1>13, <2>1, <2>2, <2>3, <2>5
  <2>6. CASE Across(j) \notin S /\ Across(Across(j)) \notin S
    BY <1>9, <1>11, <1>13, <2>1, <2>2, <2>6
  <2>. QED  BY <2>4, <2>5, <2>6
<1>. QED  BY <1>12, <1>13

\* A distance is an integer.
LEMMA CostType ==
  ASSUME TypeOK, NEW n \in Gates, NEW y \in Int
  PROVE  Cost(n, y) \in Int
<1>1. PICK near : near = [l \in Leaves[n] |-> IF l \in Gates THEN Abs(Y[l] - y) ELSE y]
  OBVIOUS
<1>2. PICK far : far = [i \in DOMAIN dp_fanouts[n] |->
                          Abs(final_y[dp_fanouts[n][i]] - y)]
  OBVIOUS
<1>3. IsFiniteSet(Leaves[n])
  <2>1. Leaves[n] \in SUBSET Nodes /\ IsFiniteSet(Nodes)
    BY NetworkAssumption, FS_Interval DEF Nodes
  <2>. QED  BY <2>1, FS_Subset
<1>4. IsFiniteSet(DOMAIN dp_fanouts[n])
  <2>1. dp_fanouts[n] \in Seq(Gates)
    BY DEF TypeOK
  <2>2. DOMAIN dp_fanouts[n] = 1 .. Len(dp_fanouts[n]) /\ Len(dp_fanouts[n]) \in Nat
    BY <2>1
  <2>. QED  BY <2>2, FS_Interval
<1>5. \A l \in Leaves[n] : near[l] \in Int
  BY <1>1, FloorplanAssumption DEF Abs
<1>6. \A i \in DOMAIN dp_fanouts[n] : far[i] \in Int
  <2>1. AllRows \in SUBSET Int
    BY FloorplanAssumption DEF AllRows, ToSet, Heights
  <2>2. \A i \in DOMAIN dp_fanouts[n] : dp_fanouts[n][i] \in Gates
    BY DEF TypeOK
  <2>3. \A m \in Gates : final_y[m] \in Int
    <3>1. final_y \in [Gates -> AllRows \cup {0, -1}]
      BY DEF TypeOK
    <3>2. \A m \in Gates : final_y[m] \in AllRows \/ final_y[m] = 0 \/ final_y[m] = -1
      BY <3>1
    <3>3. \A r \in AllRows : r \in Int
      BY <2>1
    <3>. QED  BY <3>2, <3>3
  <2>. QED  BY <1>2, <2>2, <2>3 DEF Abs
<1>7. DyFanin(n, y) = SumFunctionOnSet(near, Leaves[n])
  <2> DEFINE Near(l) == IF l \in Gates THEN Abs(Y[l] - y) ELSE y
  <2>1. PICK S : S = Leaves[n]
    OBVIOUS
  <2>2. DyFanin(n, y) = MapThenSumSet(Near, S)
    BY <2>1 DEF DyFanin
  <2>3. near = [l \in S |-> Near(l)]
    BY <1>1, <2>1
  <2>. HIDE DEF Near
  <2>4. MapThenSumSet(Near, S) = SumFunctionOnSet([l \in S |-> Near(l)], S)
    BY DEF MapThenSumSet, SumFunctionOnSet, FoldFunctionOnSet, MapThenFoldSet
  <2>. QED  BY <2>1, <2>2, <2>3, <2>4
<1>8. DyFanout(n, y) = SumFunctionOnSet(far, DOMAIN dp_fanouts[n])
  BY <1>2 DEF DyFanout, MapThenSumSet, SumFunctionOnSet, FoldFunctionOnSet, MapThenFoldSet
<1>. QED  BY <1>3, <1>4, <1>5, <1>6, <1>7, <1>8, SumType DEF Cost

\* The search begins at a row.
LEMMA OriginType ==
  ASSUME NEW n \in Gates, NEW rows \in Seq(Int), rows # <<>>
  PROVE  Len(rows) \in Nat /\ DOMAIN rows = 1 .. Len(rows) /\ Origin(n, rows) \in 1 .. Len(rows)
<1>1. PICK at : at = {i \in DOMAIN rows : rows[i] >= Y[n]}
  OBVIOUS
<1>2. Len(rows) \in Nat \ {0} /\ DOMAIN rows = 1 .. Len(rows)
  OBVIOUS
<1>3. CASE at = {}
  BY <1>1, <1>2, <1>3 DEF Origin
<1>4. CASE at # {}
  <2>1. at \in SUBSET Nat
    BY <1>1, <1>2
  <2>2. Min(at) \in at
    BY <1>4, <2>1, LeastOfNats
  <2>. QED  BY <1>1, <1>2, <1>4, <2>2 DEF Origin
<1>. QED  BY <1>3, <1>4

\* The rows with room, and what they cost.
RowsWithRoom(g) == {k \in DOMAIN Rows[Height[g]] : HasRoom(g, Rows[Height[g]][k])}
CostOfRow(n, g) == [k \in DOMAIN Rows[Height[g]] |-> Cost(n, Rows[Height[g]][k])]

\* The row found is the last one that is taken.
LEMMA FoundRowIsLast ==
  ASSUME TypeOK, NEW n \in Gates, NEW g \in Candidates[n],
         NEW rows, rows = Rows[Height[g]], NEW o, o = Origin(n, rows)
  PROVE  /\ Len(rows) \in Nat /\ DOMAIN rows = 1 .. Len(rows) /\ o \in 1 .. Len(rows)
         /\ CostOfRow(n, g) \in [1 .. Len(rows) -> Int]
         /\ IsLast(FoundRow(n, g),
                   TakenOf(Len(rows), o, RowsWithRoom(g), CostOfRow(n, g)), o)
<1>1. g \in Cells /\ Height[g] \in Heights /\ rows \in Seq(Int) /\ rows # <<>>
  BY LibraryAssumption, FloorplanAssumption
<1>2. PICK L : L = Len(rows)
  OBVIOUS
<1>3. L \in Nat /\ DOMAIN rows = 1 .. L /\ o \in 1 .. L
  BY <1>1, <1>2, OriginType
<1>4. PICK c : c = CostOfRow(n, g)
  OBVIOUS
<1>5. /\ c \in [1 .. L -> Int]
      /\ \A k \in 1 .. L : c[k] = Cost(n, rows[k])
  <2>1. \A k \in 1 .. L : rows[k] \in Int
    BY <1>1, <1>3
  <2>. QED  BY <1>3, <1>4, <2>1, CostType DEF CostOfRow
<1>6. PICK R \in SUBSET (1 .. L) :
        R = RowsWithRoom(g) /\ \A k \in 1 .. L : k \in R <=> HasRoom(g, rows[k])
  <2>1. RowsWithRoom(g) \in SUBSET (1 .. L)
    BY <1>3 DEF RowsWithRoom
  <2>2. \A k \in 1 .. L : k \in RowsWithRoom(g) <=> HasRoom(g, rows[k])
    BY <1>3 DEF RowsWithRoom
  <2>. QED  BY <2>1, <2>2
<1>7. PICK a \in Int, b \in Int : a = 1 - o /\ b = L - o
  BY <1>3
<1> DEFINE S == {k - Origin(n, Rows[Height[g]]) : k \in DOMAIN Rows[Height[g]]}
           M == {NoRow} \cup DOMAIN Rows[Height[g]]
<1>8. S = a .. b /\ S = (1 - o) .. (L - o) /\ M = {NoRow} \cup 1 .. L /\ 0 \in S
  <2>1. S = OffsetsOf(L, o)
    BY <1>3 DEF OffsetsOf
  <2>2. S = (1 - o) .. (L - o)
    BY <1>3, <2>1, Offsets
  <2>. HIDE DEF S
  <2>. QED  BY <1>3, <1>7, <2>2
<1>9. PICK take : take = [i \in S |-> [m \in M |-> IF o + i \in R THEN o + i ELSE m]]
  OBVIOUS
<1>10. PICK stop : stop = {x \in S \X M : x[2] # NoRow /\ c[o + x[1]] > c[x[2]]}
  OBVIOUS
<1> DEFINE Body(f, i, m) ==
             LET taken == IF HasRoom(g, Rows[Height[g]][Origin(n, Rows[Height[g]]) + i])
                          THEN Origin(n, Rows[Height[g]]) + i ELSE m
                 next1 == Across(i)
                 next2 == Across(next1)
             IN IF TooExpensive(n, Rows[Height[g]], Origin(n, Rows[Height[g]]) + i, m)
                THEN m
                ELSE IF next1 \in S THEN f[next1][taken]
                ELSE IF next2 \in S THEN f[next2][taken]
                ELSE taken
           Search == CHOOSE f : f = [i \in S |-> [m \in M |-> Body(f, i, m)]]
<1>11. FoundRow(n, g) = Search[0][NoRow]
  BY DEF FoundRow
<1>. HIDE DEF S, M
<1>12. /\ take \in [S -> [M -> M]]
       /\ \A i \in S, m \in M : take[i][m] = IF o + i \in R THEN o + i ELSE m
  BY <1>8, <1>9
<1>13. \A i \in S, m \in M : <<i, m>> \in stop <=> m # NoRow /\ c[o + i] > c[m]
  BY <1>10
<1>14. ASSUME NEW f
       PROVE  IsLoop(f, S, M, stop, take)
                <=> f = [i \in S |-> [m \in M |-> Body(f, i, m)]]
  <2>1. ASSUME NEW i \in S, NEW m \in M
        PROVE  /\ <<i, m>> \in stop <=> TooExpensive(n, rows, o + i, m)
               /\ take[i][m] = IF HasRoom(g, rows[o + i]) THEN o + i ELSE m
    <3>1. o + i \in 1 .. L
      BY <1>3, <1>8
    <3>2. m # NoRow => m \in 1 .. L
      BY <1>8
    <3>. QED  BY <1>5, <1>6, <1>12, <1>13, <3>1, <3>2 DEF TooExpensive
  <2> DEFINE Round(i, m) ==
               IF <<i, m>> \in stop THEN m
               ELSE IF Across(i) \in S THEN f[Across(i)][take[i][m]]
               ELSE IF Across(Across(i)) \in S THEN f[Across(Across(i))][take[i][m]]
               ELSE take[i][m]
  <2>2. ASSUME NEW i \in S, NEW m \in M
        PROVE  Body(f, i, m) = Round(i, m)
    BY <2>1
  <2>3. [i \in S |-> [m \in M |-> Body(f, i, m)]] = [i \in S |-> [m \in M |-> Round(i, m)]]
    <3>. HIDE DEF Body, Round
    <3>. QED  BY <2>2
  <2>. HIDE DEF Body
  <2>. QED  BY <2>3 DEF IsLoop
<1>. HIDE DEF Body, Search
<1>15. \E f : IsLoop(f, S, M, stop, take)
  <2>1. PICK D, E : D = S /\ E = M
    OBVIOUS
  <2>2. D = a .. b /\ 0 \in D /\ take \in [D -> [E -> E]]
    BY <1>8, <1>12, <2>1
  <2>3. \E f : IsLoop(f, D, E, stop, take)
    BY <2>2, LoopExists
  <2>. QED  BY <2>1, <2>3
<1>16. IsLoop(Search, S, M, stop, take)
  BY <1>14, <1>15 DEF Search
<1>17. PICK f, S2, M2 : f = Search /\ S2 = S /\ M2 = M
  OBVIOUS
<1>18. f \in [S2 -> [M2 -> M2]] /\ IsLoop(f, S2, M2, stop, take)
  <2>1. S2 = a .. b /\ 0 \in S2 /\ take \in [S2 -> [M2 -> M2]] /\ IsLoop(f, S2, M2, stop, take)
    BY <1>8, <1>12, <1>16, <1>17
  <2>. QED  BY <2>1, LoopType
<1>19. LoopInv(L, o, R, c, 0, NoRow)
  <2>1. TurnOf(0) = 0 /\ \A k \in 1 .. L : Turn(o, k) \in Nat
    BY <1>3 DEF TurnOf, Turn
  <2>2. ASSUME NEW k \in 1 .. L
        PROVE  ~(Turn(o, k) < TurnOf(0)) /\ ~(Turn(o, k) =< TurnOf(0) - 1)
    BY <2>1
  <2>3. Before(o, R, 0) = {}
    BY <2>2 DEF Before
  <2>. QED  BY <2>2, <2>3 DEF LoopInv, CheapUpTo, IsLast
<1>20. IsLast(f[0][NoRow], TakenOf(L, o, R, c), o)
  <2>1. IsSearch(f, L, o, R, c, S2, M2, stop, take)
    BY <1>8, <1>12, <1>13, <1>17, <1>18 DEF IsSearch
  <2>2. 0 \in S2 /\ NoRow \in M2
    BY <1>8, <1>17
  <2>. QED  BY <1>3, <1>5, <1>19, <2>1, <2>2, LoopResult
<1>. QED  BY <1>2, <1>3, <1>4, <1>5, <1>6, <1>11, <1>17, <1>20

\* The row found is the row chosen.
LEMMA ChosenIsFound ==
  ASSUME TypeOK, NEW n \in Gates, NEW g \in Candidates[n], NEW y
  PROVE  IsChosenRow(n, g, y)
           <=> FoundRow(n, g) # NoRow /\ y = Rows[Height[g]][FoundRow(n, g)]
<1>1. PICK rows, o : rows = Rows[Height[g]] /\ o = Origin(n, rows)
  OBVIOUS
<1>2. PICK L, R, c : L = Len(rows) /\ R = RowsWithRoom(g) /\ c = CostOfRow(n, g)
  OBVIOUS
<1>3. PICK k, T : k = FoundRow(n, g) /\ T = TakenOf(L, o, R, c)
  OBVIOUS
<1>4. L \in Nat /\ DOMAIN rows = 1 .. L /\ o \in 1 .. L /\ IsLast(k, T, o)
  BY <1>1, <1>2, <1>3, FoundRowIsLast
<1>5. /\ \A i \in 1 .. L : c[i] = Cost(n, rows[i])
      /\ \A i \in 1 .. L : i \in R <=> HasRoom(g, rows[i])
      /\ R \in SUBSET (1 .. L)
  BY <1>1, <1>2, <1>4 DEF RowsWithRoom, CostOfRow
<1>6. ASSUME NEW i \in 1 .. L
      PROVE  CheapUpTo(L, o, R, c, Turn(o, i)) <=> Reached(n, g, rows, i)
  BY <1>1, <1>4, <1>5 DEF CheapUpTo, Reached
<1>7. T = {i \in DOMAIN rows : HasRoom(g, rows[i]) /\ Reached(n, g, rows, i)}
  BY <1>3, <1>4, <1>5, <1>6 DEF TakenOf
<1>8. IsChosenRow(n, g, y)
        <=> \E i \in T : y = rows[i] /\ \A j \in T : Turn(o, j) =< Turn(o, i)
  BY <1>1, <1>7 DEF IsChosenRow
<1>9. CASE k = NoRow
  BY <1>3, <1>4, <1>8, <1>9 DEF IsLast
<1>10. CASE k # NoRow
  <2>1. k \in T /\ \A j \in T : Turn(o, j) =< Turn(o, k)
    BY <1>4, <1>10 DEF IsLast
  <2>2. T \in SUBSET (1 .. L)
    BY <1>4, <1>7
  <2>3. ASSUME NEW i \in T, \A j \in T : Turn(o, j) =< Turn(o, i)
        PROVE  i = k
    <3>1. Turn(o, i) =< Turn(o, k) /\ Turn(o, k) =< Turn(o, i)
      BY <2>1, <2>3
    <3>2. i \in 1 .. L /\ k \in 1 .. L
      BY <2>1, <2>2
    <3>. QED  BY <1>4, <3>1, <3>2 DEF Turn
  <2>4. IsChosenRow(n, g, y) <=> y = rows[k]
    BY <1>8, <2>1, <2>3
  <2>. QED  BY <1>1, <1>3, <1>10, <2>4
<1>. QED  BY <1>9, <1>10

(***************************************************************************)
(* In every state of a pass the loop that goes to and fro between the rows *)
(* ends, for every candidate of the gate at the head of the queue, with    *)
(* the row that BackPropagation chooses, or without one when it has none:  *)
(* whatever the floorplan, the turns at its ends leave out no row.         *)
(***************************************************************************)
THEOREM SearchFindsChosenRow == Spec => []SearchTakesChosenRow
<1>1. TypeOK => SearchTakesChosenRow
  BY ChosenIsFound DEF SearchTakesChosenRow
<1>2. Spec => []TypeOK
  BY TypeCorrect
<1>. QED  BY <1>1, <1>2, PTL
================================================================================
