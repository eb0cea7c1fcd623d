--------------------------- MODULE DelaySolveProofs ---------------------------
(***************************************************************************)
(* The recursion that measures the candidates, for every network.  What    *)
(* holds it together: a call touches the timer only when everything its    *)
(* gate reads has been solved, and a solved gate has its own cell back.    *)
(***************************************************************************)
EXTENDS DelaySolve, FiniteLemmas, FiniteSetTheorems, TLAPS

\* What the arrivals in store behind the leaves of n saw of gate m.
Upstream(n, m) == UNION {arrival[l][m] : l \in GateLeaves(n)}

\* An arrival is of the cell the solver knows of.
ArrivalOwn == \A n \in Gates : arrival[n][n] = {node_to_gate_map[n]}

\* The timer has the cell the solver knows of, or the one that is placed.
Synced == \A n \in Gates : timer[n] = node_to_gate_map[n] \/ timer[n] = cell_type[n]

LeavesFirst ==
  \A n \in Gates : \A c \in Candidates[n] : Calculated(n, c) => LeavesSolved(n)

SolvedWhole ==
  \A n \in Gates : Solved(n) =>
    /\ node_to_gate_map[n] = cell_type[n]
    /\ timer[n] = cell_type[n]
    /\ \A c \in Candidates[n] : Calculated(n, c)

Calls ==
  /\ stack # <<>> => status = "solve"
  /\ \A i \in 1 .. Len(stack) : ~Solved(stack[i])

AllSolved == status # "solve" => \A n \in Gates : Solved(n)

\* The gate has been moved and the solver does not know.
Unknown(n) ==
  /\ iter_rowheight = Iterations
  /\ node_to_gate_map[n] = Original[n]
  /\ Adoptable(n) # {}

\* Before it is solved a gate is bound to the candidate that was tried last.
BoundTried ==
  status = "solve" => \A n \in Gates : ~Solved(n) =>
    /\ \/ node_to_gate_map[n] = cell_type[n]
       \/ Calculated(n, node_to_gate_map[n])
       \/ Unknown(n)
    /\ (\E c \in Candidates[n] : Calculated(n, c)) =>
         node_to_gate_map[n] # cell_type[n]

\* A delay was computed from the arrivals that are still in store.
FromUpstream ==
  status = "solve" =>
    \A n \in Gates : \A c \in Candidates[n] :
      Calculated(n, c) /\ ~Misread(n, c) /\ Candidates[n] # {c} =>
        \A m \in Gates \ {n} : delay_list[n][c][m] = Upstream(n, m)

Offered ==
  status = "solve" =>
    \A n \in Gates : \A c \in Cells : <<n, c>> \in change_ratios =>
      Solved(n) /\ c \in Candidates[n] /\ c # cell_type[n]

Moved ==
  status = "solve" /\ iter_rowheight = Iterations =>
    \A n \in Gates : cell_type[n] \in Adopted(n)

IInv ==
  /\ TypeOK /\ ArrivalOwn /\ Synced /\ OneTrialAtATime /\ LeavesFirst
  /\ SolvedWhole /\ Calls /\ AllSolved /\ MeasuredAsItself /\ BoundTried
  /\ FromUpstream /\ Offered /\ Moved

-----------------------------------------------------------------------------
(***************************************************************************)
(* The timer                                                               *)
(***************************************************************************)

\* What is propagated is a snapshot; it has c for n.
LEMMA PropagatedType ==
  ASSUME NEW n \in Gates, NEW c \in Cells, NEW arr \in [Gates -> Snapshots]
  PROVE  /\ Propagated(n, c, arr) \in Snapshots
         /\ Propagated(n, c, arr)[n] = {c}
         /\ \A m \in Gates \ {n} :
              Propagated(n, c, arr)[m] = UNION {arr[l][m] : l \in GateLeaves(n)}
<1>1. \A m \in Gates : UNION {arr[l][m] : l \in GateLeaves(n)} \subseteq Cells
  BY DEF GateLeaves, Snapshots
<1>. QED  BY <1>1 DEF Propagated, Snapshots

\* What converting a gate does to the timer.
LEMMA ConvertEffect ==
  ASSUME TypeOK, ArrivalOwn, NEW n \in Gates, NEW c \in Cells, Convert(n, c)
  PROVE  /\ node_to_gate_map' = [node_to_gate_map EXCEPT ![n] = c]
         /\ timer' \in [Gates -> Cells]
         /\ arrival' \in [Gates -> Snapshots]
         /\ \A m \in Gates \ {n} : timer'[m] = timer[m] /\ arrival'[m] = arrival[m]
         /\ arrival'[n][n] = {c}
         /\ IF node_to_gate_map[n] = c THEN timer'[n] = timer[n]
            ELSE /\ timer'[n] = c
                 /\ \A m \in Gates \ {n} : arrival'[n][m] = Upstream(n, m)
<1>1. CASE node_to_gate_map[n] = c
  BY <1>1 DEF Convert, TypeOK, ArrivalOwn
<1>2. CASE node_to_gate_map[n] # c
  <2>1. /\ timer' = [timer EXCEPT ![n] = c]
        /\ node_to_gate_map' = [node_to_gate_map EXCEPT ![n] = c]
        /\ arrival' = [arrival EXCEPT ![n] = Propagated(n, c, arrival)]
    BY <1>2 DEF Convert
  <2>2. arrival \in [Gates -> Snapshots] /\ timer \in [Gates -> Cells]
    BY DEF TypeOK
  <2> DEFINE P == Propagated(n, c, arrival)
  <2>3. /\ P \in Snapshots
        /\ P[n] = {c}
        /\ \A m \in Gates \ {n} : P[m] = Upstream(n, m)
    BY <2>2, PropagatedType DEF Upstream
  <2>4. arrival' = [arrival EXCEPT ![n] = P]
    BY <2>1
  <2>. HIDE DEF P
  <2>. QED  BY <1>2, <2>1, <2>2, <2>3, <2>4
<1>. QED  BY <1>1, <1>2

\* What measuring a candidate does to the table.
LEMMA MeasureEffect ==
  ASSUME TypeOK, ArrivalOwn, NEW n \in Gates, NEW c \in Cells, Measure(n, c)
  PROVE  /\ delay_list' \in [Gates -> [Cells -> Snapshots]]
         /\ delay_list'[n][c] = arrival'[n]
         /\ delay_list'[n][c] # NotCalculated
         /\ \A m \in Gates : \A d \in Cells :
              m # n \/ d # c => delay_list'[m][d] = delay_list[m][d]
<1>1. /\ arrival' \in [Gates -> Snapshots]
      /\ arrival'[n][n] = {c}
  BY ConvertEffect DEF Measure
<1>2. delay_list' = [delay_list EXCEPT ![n][c] = arrival'[n]]
  BY DEF Measure
<1>3. arrival'[n] # NotCalculated
  BY <1>1 DEF NotCalculated
<1>4. delay_list \in [Gates -> [Cells -> Snapshots]]
  BY DEF TypeOK
<1>5. delay_list'[n] = [delay_list[n] EXCEPT ![c] = arrival'[n]]
  BY <1>2, <1>4
<1>6. \A m \in Gates \ {n} : delay_list'[m] = delay_list[m]
  BY <1>2, <1>4
<1>7. delay_list'[n] \in [Cells -> Snapshots]
  BY <1>1, <1>4, <1>5
<1>8. delay_list' \in [Gates -> [Cells -> Snapshots]]
  BY <1>2, <1>4, <1>6, <1>7
<1>. QED  BY <1>1, <1>3, <1>4, <1>5, <1>6, <1>8

-----------------------------------------------------------------------------
(***************************************************************************)
(* The actions                                                             *)
(***************************************************************************)

\* A candidate the gate may be moved to is one of the table.
LEMMA AdoptedType ==
  ASSUME NEW n \in Gates
  PROVE  /\ Adopted(n) \subseteq Candidates[n]
         /\ Candidates[n] \subseteq Cells
         /\ Adoptable(n) # {} => Original[n] \notin Adopted(n)
         /\ Adoptable(n) = {} => Adopted(n) = {Original[n]}
BY LibraryAssumption DEF Adopted, Adoptable

LEMMA InitIInv == Init => IInv
<1> SUFFICES ASSUME Init PROVE IInv
  OBVIOUS
<1>1. \A n \in Gates : FirstArrival[n][n] = {Original[n]}
  <2>1. FirstArrival = [n \in Gates |-> Propagated(n, Original[n], FirstArrival)]
    BY FirstArrivalAssumption
  <2>2. \A n \in Gates : FirstArrival[n] = Propagated(n, Original[n], FirstArrival)
    BY <2>1
  <2>. QED  BY <2>2 DEF Propagated
<1>2. \A n \in Gates : \A c \in Cells : ~Calculated(n, c)
  BY DEF Init, Calculated
<1>3. \A n \in Gates : cell_type[n] \in Adopted(n) /\ cell_type[n] \in Candidates[n]
  BY AdoptedType DEF Init
<1>4. NotCalculated \in Snapshots
  BY DEF NotCalculated, Snapshots
<1>5. TypeOK
  BY <1>3, <1>4, FirstArrivalAssumption, LibraryAssumption DEF Init, TypeOK, Snapshots
<1>6. ArrivalOwn /\ Synced /\ OneTrialAtATime /\ Calls /\ AllSolved /\ Offered
  BY <1>1 DEF Init, ArrivalOwn, Synced, OneTrialAtATime, Calls, AllSolved, Offered
<1>7. \A n \in Gates : ~Solved(n)
  BY <1>2, <1>5 DEF Solved, TypeOK
<1>8. LeavesFirst /\ SolvedWhole /\ MeasuredAsItself /\ FromUpstream
  BY <1>2, <1>7, AdoptedType DEF LeavesFirst, SolvedWhole, MeasuredAsItself, FromUpstream
<1>9. Moved
  BY <1>3 DEF Moved
<1>10. BoundTried
  BY <1>2, <1>3, AdoptedType DEF BoundTried, Init, Unknown
<1>. QED  BY <1>5, <1>6, <1>8, <1>9, <1>10 DEF IInv

\* The gate of the innermost call is not solved, nor are its callers.
LEMMA TopUnsolved ==
  ASSUME IInv, stack # <<>>
  PROVE  /\ Top \in Gates /\ ~Solved(Top) /\ status = "solve"
         /\ Len(stack) \in Nat \ {0}
         /\ stack \in Seq(Gates)
         /\ \A i \in 1 .. Len(stack) - 1 : stack[i] # Top
<1>1. stack \in Seq(Gates) /\ Len(stack) \in Nat \ {0} /\ Gates \subseteq Nat
  BY NetworkAssumption DEF IInv, TypeOK
<1>2. \A i, j \in 1 .. Len(stack) : i < j => stack[j] < stack[i]
  BY DEF IInv, TypeOK
<1>3. Len(stack) \in 1 .. Len(stack) /\ \A i \in 1 .. Len(stack) : stack[i] \in Gates
  BY <1>1
<1>4. Top \in Gates /\ ~Solved(Top) /\ status = "solve"
  BY <1>3 DEF IInv, Calls, Top
<1>5. \A i \in 1 .. Len(stack) - 1 : stack[i] # Top
  <2> SUFFICES ASSUME NEW i \in 1 .. Len(stack) - 1 PROVE stack[i] # stack[Len(stack)]
    BY DEF Top
  <2>1. i \in 1 .. Len(stack) /\ i < Len(stack)
    BY <1>1
  <2>2. stack[Len(stack)] < stack[i]
    BY <1>2, <1>3, <2>1
  <2>3. stack[i] \in Nat
    BY <1>1, <1>3, <2>1
  <2>. QED  BY <2>2, <2>3
<1>. QED  BY <1>1, <1>4, <1>5

\* What measuring a candidate leaves true, whichever candidate it is.
LEMMA MeasureKeeps ==
  ASSUME IInv, NEW n \in Gates, ~Solved(n), LeavesSolved(n),
         NEW c \in Candidates[n], Measure(n, c),
         UNCHANGED <<status, iter_rowheight, cell_type>>
  PROVE  /\ \A m \in Gates \ {n} : \A d \in Cells : Calculated(m, d)' <=> Calculated(m, d)
         /\ \A d \in Cells : Calculated(n, d)' <=> d = c \/ Calculated(n, d)
         /\ \A m \in Gates \ {n} : Solved(m)' <=> Solved(m)
         /\ ArrivalOwn' /\ Synced' /\ LeavesFirst' /\ MeasuredAsItself'
<1>1. c \in Cells
  BY AdoptedType
<1>2. TypeOK /\ ArrivalOwn /\ Convert(n, c)
  BY DEF IInv, Measure
<1>3. /\ \A m \in Gates \ {n} : \A d \in Cells : Calculated(m, d)' <=> Calculated(m, d)
      /\ \A d \in Cells : Calculated(n, d)' <=> d = c \/ Calculated(n, d)
  BY <1>1, <1>2, MeasureEffect DEF Calculated
<1>4. \A m \in Gates : cell_type[m] \in Cells /\ Candidates[m] \subseteq Cells
  BY <1>2, AdoptedType DEF TypeOK
<1>5. /\ \A m \in Gates \ {n} : Solved(m)' <=> Solved(m)
      /\ \A m \in Gates : Solved(m) => Solved(m)'
  BY <1>1, <1>3, <1>4 DEF Solved
<1>6. \A m \in Gates : LeavesSolved(m) => LeavesSolved(m)'
  BY <1>5 DEF LeavesSolved, GateLeaves
<1>7. /\ node_to_gate_map' = [node_to_gate_map EXCEPT ![n] = c]
      /\ \A m \in Gates \ {n} : timer'[m] = timer[m] /\ arrival'[m] = arrival[m]
      /\ arrival'[n][n] = {c}
      /\ timer'[n] = IF node_to_gate_map[n] = c THEN timer[n] ELSE c
  BY <1>1, <1>2, ConvertEffect
<1>8. node_to_gate_map \in [Gates -> Cells]
  BY <1>2 DEF TypeOK
<1>9. ArrivalOwn'
  BY <1>1, <1>2, <1>7, <1>8 DEF ArrivalOwn
<1>10. Synced'
  BY <1>1, <1>7, <1>8 DEF Synced, IInv
<1>11. LeavesFirst'
  <2>1. LeavesFirst /\ LeavesSolved(n)
    BY DEF IInv
  <2>. QED  BY <1>1, <1>3, <1>4, <1>6, <2>1 DEF LeavesFirst
<1>12. MeasuredAsItself'
  <2>1. MeasuredAsItself
    BY DEF IInv
  <2>2. /\ delay_list'[n][c][n] = {c}
        /\ \A m \in Gates : \A d \in Cells :
              m # n \/ d # c => delay_list'[m][d] = delay_list[m][d]
    BY <1>1, <1>2, <1>7, MeasureEffect
  <2>. QED  BY <1>1, <1>3, <1>4, <2>1, <2>2 DEF MeasuredAsItself
<1>. QED  BY <1>3, <1>5, <1>9, <1>10, <1>11, <1>12

\* A delay that is read behind a converted gate is of the arrivals in store,
\* and the other delays stay so: what their gates read is solved.
LEMMA MeasureUpstream ==
  ASSUME IInv, NEW n \in Gates, ~Solved(n), LeavesSolved(n),
         NEW c \in Candidates[n], Measure(n, c), status = "solve",
         UNCHANGED <<status, iter_rowheight, cell_type>>,
         node_to_gate_map[n] = c => Misread(n, c) \/ Candidates[n] = {c}
  PROVE  FromUpstream'
<1> SUFFICES ASSUME NEW m \in Gates, NEW d \in Candidates[m], Calculated(m, d)',
                    ~Misread(m, d), Candidates[m] # {d},
                    NEW k \in Gates \ {m}
             PROVE  delay_list'[m][d][k] = Upstream(m, k)'
  BY DEF FromUpstream, Misread
<1>1. c \in Cells /\ d \in Cells /\ TypeOK /\ ArrivalOwn /\ Convert(n, c)
  BY AdoptedType DEF IInv, Measure
<1>2. /\ \A l \in Gates \ {n} : arrival'[l] = arrival[l]
      /\ node_to_gate_map[n] # c => \A l \in Gates \ {n} : arrival'[n][l] = Upstream(n, l)
  BY <1>1, ConvertEffect
<1>3. LeavesSolved(m)
  BY <1>1, MeasureKeeps DEF IInv, LeavesFirst
<1>4. GateLeaves(m) \subseteq Gates \ {n}
  BY <1>3 DEF LeavesSolved, GateLeaves
<1>5. Upstream(m, k)' = Upstream(m, k)
  BY <1>2, <1>4 DEF Upstream, GateLeaves
<1>6. CASE m = n /\ d = c
  <2>1. node_to_gate_map[n] # c
    BY <1>6
  <2>2. delay_list'[n][c] = arrival'[n]
    BY <1>1, MeasureEffect
  <2>. QED  BY <1>2, <1>5, <1>6, <2>1, <2>2
<1>7. CASE m # n \/ d # c
  <2>1. delay_list'[m][d] = delay_list[m][d]
    BY <1>1, <1>7, MeasureEffect
  <2>2. Calculated(m, d)
    BY <1>1, <1>7, MeasureKeeps
  <2>3. delay_list[m][d][k] = Upstream(m, k)
    BY <2>2 DEF IInv, FromUpstream
  <2>. QED  BY <1>5, <2>1, <2>3
<1>. QED  BY <1>6, <1>7

\* A trial.
LEMMA MeasureOtherIInv == IInv /\ MeasureOther => IInv'
<1> SUFFICES ASSUME IInv, MeasureOther PROVE IInv'
  OBVIOUS
<1>1. PICK n \in Gates : n = Top
  BY TopUnsolved DEF MeasureOther
<1>2. PICK c \in Candidates[n] \ {cell_type[n]} : ~Calculated(n, c) /\ Measure(n, c)
  BY <1>1 DEF MeasureOther
<1>3. /\ stack # <<>> /\ LeavesSolved(n) /\ ~Solved(n) /\ status = "solve"
      /\ UNCHANGED <<status, stage, iter_rowheight, cell_type, change_ratios, stack, exchanged>>
  BY <1>1, TopUnsolved DEF MeasureOther
<1>4. TypeOK /\ ArrivalOwn /\ Convert(n, c) /\ c \in Cells /\ cell_type[n] \in Cells
  BY <1>2, AdoptedType DEF IInv, Measure, TypeOK
<1>5. /\ \A m \in Gates \ {n} : \A d \in Cells : Calculated(m, d)' <=> Calculated(m, d)
      /\ \A d \in Cells : Calculated(n, d)' <=> d = c \/ Calculated(n, d)
      /\ \A m \in Gates \ {n} : Solved(m)' <=> Solved(m)
      /\ ArrivalOwn' /\ Synced' /\ LeavesFirst' /\ MeasuredAsItself'
  BY <1>2, <1>3, MeasureKeeps
<1>6. ~Solved(n)'
  BY <1>2, <1>3, <1>4, <1>5 DEF Solved
<1>7. /\ node_to_gate_map' = [node_to_gate_map EXCEPT ![n] = c]
      /\ timer' \in [Gates -> Cells] /\ arrival' \in [Gates -> Snapshots]
      /\ \A m \in Gates \ {n} : timer'[m] = timer[m] /\ arrival'[m] = arrival[m]
  BY <1>4, ConvertEffect
<1>8. node_to_gate_map \in [Gates -> Cells] /\ \A m \in Gates : Candidates[m] \subseteq Cells
  BY <1>4, AdoptedType DEF TypeOK
<1>9. TypeOK'
  <2>1. delay_list' \in [Gates -> [Cells -> Snapshots]]
    BY <1>2, <1>4, MeasureEffect
  <2>. QED  BY <1>3, <1>4, <1>7, <1>8, <2>1 DEF TypeOK
<1>10. OneTrialAtATime'
  <2>1. \A m \in Gates \ {n} : timer[m] = cell_type[m]
    BY <1>1 DEF IInv, OneTrialAtATime, Inside
  <2>2. LeavesSolved(n)'
    BY <1>3, <1>5, <1>6 DEF LeavesSolved, GateLeaves
  <2>3. Inside(n)'
    BY <1>1, <1>3 DEF Inside, Top
  <2>. QED  BY <1>3, <1>7, <2>1, <2>2, <2>3 DEF OneTrialAtATime
<1>11. SolvedWhole'
  BY <1>3, <1>5, <1>6, <1>7, <1>8 DEF IInv, SolvedWhole
<1>12. Calls' /\ AllSolved'
  <2>1. stack \in Seq(Gates) /\ Len(stack) \in Nat /\ \A i \in 1 .. Len(stack) : stack[i] \in Gates
    BY <1>4 DEF TypeOK
  <2>. QED  BY <1>3, <1>5, <1>6, <2>1 DEF IInv, Calls, AllSolved
<1>13. BoundTried'
  <2>1. /\ node_to_gate_map'[n] = c
        /\ \A m \in Gates \ {n} : node_to_gate_map'[m] = node_to_gate_map[m]
    BY <1>7, <1>8
  <2>2. \A m \in Gates : \E d \in Cells : d = node_to_gate_map[m]
    BY <1>8
  <2>. QED  BY <1>2, <1>3, <1>4, <1>5, <1>8, <2>1, <2>2 DEF IInv, BoundTried, Unknown
<1>14. FromUpstream'
  <2>1. node_to_gate_map[n] = c => Misread(n, c)
    BY <1>2, <1>3 DEF IInv, BoundTried, Unknown, Misread
  <2>. QED  BY <1>2, <1>3, <2>1, MeasureUpstream
<1>15. Offered' /\ Moved'
  BY <1>3, <1>5, <1>6 DEF IInv, Offered, Moved
<1>. QED  BY <1>5, <1>9, <1>10, <1>11, <1>12, <1>13, <1>14, <1>15 DEF IInv

\* The cell that is placed: the gate is solved and the call returns.
LEMMA MeasurePlacedIInv == IInv /\ MeasurePlaced => IInv'
<1> SUFFICES ASSUME IInv, MeasurePlaced PROVE IInv'
  OBVIOUS
<1>1. PICK n \in Gates : n = Top
  BY TopUnsolved DEF MeasurePlaced
<1> DEFINE c == cell_type[n]
<1>2. /\ stack # <<>> /\ LeavesSolved(n) /\ ~Solved(n) /\ status = "solve"
      /\ Measure(n, c) /\ c \in Candidates[n] /\ c \in Cells
      /\ \A d \in Candidates[n] \ {c} : Calculated(n, d)
      /\ stack' = SubSeq(stack, 1, Len(stack) - 1)
      /\ UNCHANGED <<status, stage, iter_rowheight, cell_type, exchanged>>
  BY <1>1, TopUnsolved DEF MeasurePlaced, IInv, TypeOK
<1>3. PICK offered \in {{}, Exchanges(n)} : change_ratios' = change_ratios \cup ({n} \X offered)
  BY <1>1 DEF MeasurePlaced
<1>4. TypeOK /\ ArrivalOwn /\ Convert(n, c)
  BY <1>2 DEF IInv, Measure
<1>5. /\ \A m \in Gates \ {n} : \A d \in Cells : Calculated(m, d)' <=> Calculated(m, d)
      /\ \A d \in Cells : Calculated(n, d)' <=> d = c \/ Calculated(n, d)
      /\ \A m \in Gates \ {n} : Solved(m)' <=> Solved(m)
      /\ ArrivalOwn' /\ Synced' /\ LeavesFirst' /\ MeasuredAsItself'
  <2>. HIDE DEF c
  <2>. QED  BY <1>2, MeasureKeeps
<1>6. Solved(n)'
  BY <1>2, <1>5 DEF Solved
<1>7. /\ node_to_gate_map' = [node_to_gate_map EXCEPT ![n] = c]
      /\ timer' \in [Gates -> Cells] /\ arrival' \in [Gates -> Snapshots]
      /\ \A m \in Gates \ {n} : timer'[m] = timer[m] /\ arrival'[m] = arrival[m]
      /\ IF node_to_gate_map[n] = c THEN timer'[n] = timer[n] ELSE timer'[n] = c
  <2>. HIDE DEF c
  <2>. QED  BY <1>2, <1>4, ConvertEffect
<1>8. node_to_gate_map \in [Gates -> Cells] /\ \A m \in Gates : Candidates[m] \subseteq Cells
  BY <1>4, AdoptedType DEF TypeOK
<1>9. timer'[n] = c
  BY <1>7 DEF IInv, Synced
<1>10. Exchanges(n) \subseteq Candidates[n] \ {c}
  BY <1>2, LibraryAssumption DEF Exchanges
<1>11. /\ stack' \in Seq(Gates) /\ Len(stack') \in Nat /\ Len(stack') = Len(stack) - 1
       /\ \A i \in 1 .. Len(stack') : i \in 1 .. Len(stack) - 1 /\ stack'[i] = stack[i] /\ stack[i] \in Gates \ {n}
  <2> DEFINE k == Len(stack) - 1
  <2>1. /\ k \in Nat /\ k < Len(stack) /\ stack \in Seq(Gates) /\ Len(stack) \in Nat
        /\ \A i \in 1 .. k : stack[i] # n
    BY <1>1, <1>2, TopUnsolved
  <2>2. stack' = SubSeq(stack, 1, k)
    BY <1>2
  <2> HIDE DEF k
  <2>3. stack' \in Seq(Gates) /\ Len(stack') = k /\ \A i \in 1 .. k : stack'[i] = stack[i]
    BY <2>1, <2>2
  <2>4. \A i \in 1 .. k : stack[i] \in Gates
    BY <2>1
  <2>. QED  BY <2>1, <2>3, <2>4 DEF k
<1>12. TypeOK'
  <2>1. delay_list' \in [Gates -> [Cells -> Snapshots]]
    <3>. HIDE DEF c
    <3>. QED  BY <1>2, <1>4, MeasureEffect
  <2>2. change_ratios' \subseteq Gates \X Cells
    BY <1>3, <1>4, <1>8, <1>10 DEF TypeOK
  <2>3. \A i, j \in 1 .. Len(stack') : i < j => stack'[j] < stack'[i]
    <3>1. \A i \in 1 .. Len(stack') : i \in 1 .. Len(stack)
      BY <1>2, <1>11, TopUnsolved
    <3>2. \A i, j \in 1 .. Len(stack) : i < j => stack[j] < stack[i]
      BY <1>4 DEF TypeOK
    <3>. QED  BY <1>11, <3>1, <3>2
  <2>. QED  BY <1>2, <1>4, <1>7, <1>8, <1>11, <2>1, <2>2, <2>3 DEF TypeOK
<1>13. OneTrialAtATime'
  <2>1. \A m \in Gates \ {n} : timer[m] = cell_type[m]
    BY <1>1 DEF IInv, OneTrialAtATime, Inside
  <2>. QED  BY <1>2, <1>7, <1>9, <2>1 DEF OneTrialAtATime
<1>14. SolvedWhole'
  <2>1. \A d \in Candidates[n] : Calculated(n, d)'
    BY <1>2, <1>5, <1>8
  <2>2. node_to_gate_map'[n] = c
    BY <1>7, <1>8
  <2>. QED  BY <1>2, <1>5, <1>7, <1>8, <1>9, <2>1, <2>2 DEF IInv, SolvedWhole
<1>15. Calls' /\ AllSolved'
  BY <1>2, <1>5, <1>11 DEF IInv, Calls, AllSolved
<1>16. BoundTried'
  <2>1. \A m \in Gates \ {n} : node_to_gate_map'[m] = node_to_gate_map[m] /\ node_to_gate_map[m] \in Cells
    BY <1>7, <1>8
  <2>. QED  BY <1>2, <1>5, <1>6, <1>8, <2>1 DEF IInv, BoundTried, Unknown
<1>17. FromUpstream'
  <2>1. node_to_gate_map[n] = c => Candidates[n] = {c}
    BY <1>2 DEF IInv, BoundTried
  <2>. HIDE DEF c
  <2>. QED  BY <1>2, <2>1, MeasureUpstream
<1>18. Offered'
  <2>1. \A d \in Cells : <<n, d>> \in change_ratios' => <<n, d>> \in change_ratios \/ d \in Candidates[n] \ {c}
    BY <1>3, <1>10
  <2>2. \A m \in Gates \ {n} : \A d \in Cells : <<m, d>> \in change_ratios' => <<m, d>> \in change_ratios
    BY <1>3
  <2>. QED  BY <1>2, <1>5, <1>6, <2>1, <2>2 DEF IInv, Offered
<1>19. Moved'
  BY <1>2 DEF IInv, Moved
<1>. QED  BY <1>5, <1>12, <1>13, <1>14, <1>15, <1>16, <1>17, <1>18, <1>19 DEF IInv

\* The calls: no gate has a trial cell when the recursion goes down.
LEMMA CallIInv == IInv /\ (CallOutput \/ CallLeaf) => IInv'
<1> SUFFICES ASSUME IInv, CallOutput \/ CallLeaf PROVE IInv'
  OBVIOUS
<1>1. UNCHANGED <<status, stage, iter_rowheight, cell_type, node_to_gate_map,
                 timer, arrival, delay_list, change_ratios, exchanged>>
  BY DEF CallOutput, CallLeaf
<1>2. /\ ArrivalOwn' /\ Synced' /\ LeavesFirst' /\ SolvedWhole' /\ AllSolved'
      /\ MeasuredAsItself' /\ BoundTried' /\ FromUpstream' /\ Offered' /\ Moved'
      /\ \A n \in Gates : Solved(n)' <=> Solved(n)
  BY <1>1 DEF IInv, ArrivalOwn, Synced, LeavesFirst, SolvedWhole, AllSolved,
     MeasuredAsItself, BoundTried, FromUpstream, Offered, Moved, Calculated,
     Solved, LeavesSolved, GateLeaves, Upstream, Misread, Unknown
<1>3. TypeOK /\ Gates \subseteq Nat
  BY NetworkAssumption DEF IInv
<1>4. CASE CallOutput
  <2>1. PICK o \in Gates : ~Solved(o) /\ stack' = <<o>> /\ status = "solve" /\ stack = <<>>
    BY <1>4 DEF CallOutput
  <2>2. TypeOK'
    BY <1>1, <1>3, <2>1 DEF TypeOK
  <2>3. OneTrialAtATime'
    BY <1>1, <2>1 DEF IInv, OneTrialAtATime, Inside
  <2>4. Calls'
    BY <1>1, <1>2, <2>1 DEF Calls
  <2>. QED  BY <1>2, <2>2, <2>3, <2>4 DEF IInv
<1>5. CASE CallLeaf
  <2>1. PICK l \in GateLeaves(Top) : ~Solved(l) /\ stack' = Append(stack, l)
    BY <1>5 DEF CallLeaf
  <2>2. /\ stack # <<>> /\ Top \in Gates /\ status = "solve" /\ l \in Gates /\ l < Top
        /\ stack \in Seq(Gates) /\ Len(stack) \in Nat \ {0}
    BY <1>5, <2>1, TopUnsolved, NetworkAssumption DEF CallLeaf, GateLeaves
  <2>3. /\ Len(stack') = Len(stack) + 1 /\ stack' \in Seq(Gates)
        /\ stack'[Len(stack) + 1] = l
        /\ \A i \in 1 .. Len(stack) : stack'[i] = stack[i] /\ stack[i] \in Gates
    BY <2>1, <2>2
  <2>4. \A i \in 1 .. Len(stack) : l < stack[i]
    <3>1. \A i \in 1 .. Len(stack) : i = Len(stack) \/ Top < stack[i]
      BY <1>3, <2>2 DEF TypeOK, Top
    <3>2. \A i \in 1 .. Len(stack) : stack[i] \in Nat /\ (i = Len(stack) => stack[i] = Top)
      BY <1>3, <2>3 DEF Top
    <3>3. l \in Nat /\ Top \in Nat
      BY <1>3, <2>2
    <3>. QED  BY <2>2, <3>1, <3>2, <3>3
  <2>5. TypeOK'
    <3>1. \A i, j \in 1 .. Len(stack') : i < j => stack'[j] < stack'[i]
      <4> SUFFICES ASSUME NEW i \in 1 .. Len(stack'), NEW j \in 1 .. Len(stack'), i < j
                   PROVE  stack'[j] < stack'[i]
        OBVIOUS
      <4>1. i \in 1 .. Len(stack)
        BY <2>2, <2>3
      <4>2. CASE j = Len(stack) + 1
        BY <2>3, <2>4, <4>1, <4>2
      <4>3. CASE j \in 1 .. Len(stack)
        BY <1>3, <2>3, <4>1, <4>3 DEF TypeOK
      <4>. QED  BY <2>2, <2>3, <4>2, <4>3
    <3>. QED  BY <1>1, <1>3, <2>3, <3>1 DEF TypeOK
  <2>6. OneTrialAtATime'
    <3>1. \A n \in Gates : timer[n] = cell_type[n]
      BY <2>1 DEF IInv, OneTrialAtATime, Inside, LeavesSolved
    <3>. QED  BY <1>1, <3>1 DEF OneTrialAtATime
  <2>7. Calls'
    <3>1. \A i \in 1 .. Len(stack') : i = Len(stack) + 1 \/ i \in 1 .. Len(stack)
      BY <2>2, <2>3
    <3>. QED  BY <1>1, <1>2, <2>1, <2>2, <2>3, <3>1 DEF IInv, Calls
  <2>. QED  BY <1>2, <2>5, <2>6, <2>7 DEF IInv
<1>. QED  BY <1>4, <1>5

\* No gate is left out: the greatest unsolved one would be read by a gate
\* that was solved before what it reads.
LEMMA BeginPassIInv == IInv /\ BeginPass => IInv'
<1> SUFFICES ASSUME IInv, BeginPass PROVE IInv'
  OBVIOUS
<1>1. /\ UNCHANGED <<stage, iter_rowheight, cell_type, node_to_gate_map, timer,
                     arrival, delay_list, change_ratios, stack>>
      /\ status' = "pass" /\ stack = <<>> /\ exchanged' = {}
      /\ \A o \in POs \cap Gates : Solved(o)
  BY DEF BeginPass
<1>2. \A n \in Gates : Solved(n)
  <2> DEFINE S == {n \in Gates : ~Solved(n)}
  <2> SUFFICES ASSUME S # {} PROVE FALSE
    OBVIOUS
  <2>1. S \in SUBSET Nat /\ NumNodes \in Nat /\ \A y \in S : y =< NumNodes
    <3>1. Gates \subseteq 1 .. NumNodes /\ NumNodes \in Nat
      BY NetworkAssumption
    <3>2. \A y \in 1 .. NumNodes : y \in Nat /\ y =< NumNodes
      BY <3>1
    <3>. QED  BY <3>1, <3>2
  <2>2. PICK m \in S : \A y \in S : y =< m
    <3>. HIDE DEF S
    <3>. QED  BY <2>1, GreatestOfNats
  <2>3. PICK u \in Gates : m \in Leaves[u]
    BY <1>1, ReachableAssumption
  <2>4. m < u /\ m \in Nat /\ u \in Nat
    BY <2>3, NetworkAssumption
  <2>5. Solved(u)
    BY <2>2, <2>4
  <2>6. cell_type[u] \in Candidates[u]
    BY DEF IInv, TypeOK
  <2>7. LeavesSolved(u)
    BY <2>5, <2>6 DEF IInv, LeavesFirst, Solved
  <2>. QED  BY <2>3, <2>7 DEF LeavesSolved, GateLeaves
<1>3. TypeOK' /\ OneTrialAtATime'
  BY <1>1 DEF IInv, TypeOK, OneTrialAtATime, Inside, LeavesSolved, Solved, Calculated, Top
<1>4. ArrivalOwn' /\ Synced' /\ LeavesFirst' /\ SolvedWhole' /\ MeasuredAsItself'
  BY <1>1 DEF IInv, ArrivalOwn, Synced, LeavesFirst, SolvedWhole, MeasuredAsItself,
     Calculated, Solved, LeavesSolved
<1>5. Calls' /\ AllSolved'
  BY <1>1, <1>2 DEF Calls, AllSolved, Solved, Calculated
<1>6. BoundTried' /\ FromUpstream' /\ Offered' /\ Moved'
  BY <1>1 DEF BoundTried, FromUpstream, Offered, Moved
<1>. QED  BY <1>3, <1>4, <1>5, <1>6 DEF IInv

\* In a pass every candidate has been measured and every gate is bound to
\* its cell, so that an exchange reaches the timer.
LEMMA ExchangeIInv == ASSUME NEW n \in Gates PROVE IInv /\ Exchange(n) => IInv'
<1> SUFFICES ASSUME IInv, Exchange(n) PROVE IInv'
  OBVIOUS
<1>1. PICK c \in {cell_type[n]} \cup Exchanges(n) :
        cell_type' = [cell_type EXCEPT ![n] = c] /\ Convert(n, c)
  BY DEF Exchange
<1>2. /\ status = "pass" /\ exchanged' = exchanged \cup {n}
      /\ UNCHANGED <<status, stage, iter_rowheight, delay_list, change_ratios, stack>>
  BY DEF Exchange
<1>3. TypeOK /\ ArrivalOwn /\ c \in Candidates[n] /\ c \in Cells
  BY AdoptedType DEF IInv, TypeOK, Exchanges
<1>4. /\ \A m \in Gates : Solved(m) /\ node_to_gate_map[m] = cell_type[m] /\ timer[m] = cell_type[m]
      /\ \A m \in Gates : \A d \in Candidates[m] : Calculated(m, d)
      /\ stack = <<>>
  BY <1>2 DEF IInv, AllSolved, SolvedWhole, Calls
<1>5. /\ node_to_gate_map' = [node_to_gate_map EXCEPT ![n] = c]
      /\ timer' \in [Gates -> Cells] /\ arrival' \in [Gates -> Snapshots]
      /\ \A m \in Gates \ {n} : timer'[m] = timer[m] /\ arrival'[m] = arrival[m]
      /\ arrival'[n][n] = {c}
      /\ IF node_to_gate_map[n] = c THEN timer'[n] = timer[n] ELSE timer'[n] = c
  BY <1>1, <1>3, ConvertEffect
<1>6. /\ cell_type' \in [Gates -> Cells] /\ \A m \in Gates : cell_type'[m] \in Candidates[m]
      /\ \A m \in Gates : timer'[m] = cell_type'[m] /\ node_to_gate_map'[m] = cell_type'[m]
      /\ \A m \in Gates \ {n} : node_to_gate_map'[m] = node_to_gate_map[m]
      /\ node_to_gate_map' \in [Gates -> Cells] /\ node_to_gate_map'[n] = c
  BY <1>1, <1>3, <1>4, <1>5 DEF TypeOK
<1>7. TypeOK'
  BY <1>2, <1>3, <1>5, <1>6 DEF TypeOK
<1>8. \A m \in Gates : \A d \in Candidates[m] : Calculated(m, d)'
  BY <1>2, <1>4 DEF Calculated
<1>9. \A m \in Gates : Solved(m)'
  BY <1>6, <1>8 DEF Solved, Calculated
<1>10. ArrivalOwn' /\ Synced' /\ OneTrialAtATime'
  BY <1>3, <1>5, <1>6 DEF ArrivalOwn, Synced, OneTrialAtATime
<1>11. LeavesFirst' /\ SolvedWhole' /\ AllSolved'
  BY <1>6, <1>8, <1>9 DEF LeavesFirst, LeavesSolved, GateLeaves, SolvedWhole, AllSolved
<1>12. Calls' /\ MeasuredAsItself'
  BY <1>2, <1>4 DEF IInv, Calls, MeasuredAsItself, Calculated
<1>13. BoundTried' /\ FromUpstream' /\ Offered' /\ Moved'
  BY <1>2 DEF BoundTried, FromUpstream, Offered, Moved
<1>. QED  BY <1>7, <1>10, <1>11, <1>12, <1>13 DEF IInv

\* Between the solves.
LEMMA NextIterationIInv == IInv /\ NextIteration => IInv'
<1> SUFFICES ASSUME IInv, NextIteration PROVE IInv'
  OBVIOUS
<1>1. /\ status = "pass" /\ status' = "solve" /\ stage' \in {"slack", "tight"}
      /\ iter_rowheight > 0 /\ iter_rowheight' = iter_rowheight - 1
      /\ delay_list' = [n \in Gates |-> [c \in Cells |-> NotCalculated]]
      /\ change_ratios' = {}
      /\ UNCHANGED <<cell_type, node_to_gate_map, timer, arrival, stack, exchanged>>
  BY DEF NextIteration
<1>2. TypeOK /\ Iterations \in Nat
  BY LibraryAssumption DEF IInv
<1>3. /\ \A m \in Gates : node_to_gate_map[m] = cell_type[m] /\ timer[m] = cell_type[m]
      /\ stack = <<>>
  BY <1>1 DEF IInv, AllSolved, SolvedWhole, Calls
<1>4. NotCalculated \in Snapshots
  BY DEF NotCalculated, Snapshots
<1>5. TypeOK'
  BY <1>1, <1>2, <1>3, <1>4 DEF TypeOK
<1>6. \A m \in Gates : \A d \in Cells : ~Calculated(m, d)'
  BY <1>1 DEF Calculated, NotCalculated
<1>7. \A m \in Gates : ~Solved(m)' /\ Candidates[m] \subseteq Cells
  BY <1>5, <1>6, AdoptedType DEF TypeOK, Solved, Calculated
<1>8. ArrivalOwn' /\ Synced' /\ OneTrialAtATime'
  BY <1>1, <1>3 DEF IInv, ArrivalOwn, Synced, OneTrialAtATime
<1>9. LeavesFirst' /\ SolvedWhole' /\ AllSolved' /\ MeasuredAsItself' /\ Calls'
  BY <1>1, <1>3, <1>6, <1>7 DEF LeavesFirst, SolvedWhole, AllSolved, MeasuredAsItself, Calls
<1>10. BoundTried' /\ FromUpstream'
  BY <1>1, <1>3, <1>6, <1>7 DEF BoundTried, FromUpstream
<1>11. Offered' /\ Moved'
  BY <1>1, <1>2 DEF Offered, Moved, TypeOK
<1>. QED  BY <1>5, <1>8, <1>9, <1>10, <1>11 DEF IInv

LEMMA EndIInv == IInv /\ (End \/ UNCHANGED vars) => IInv'
<1> SUFFICES ASSUME IInv, End \/ UNCHANGED vars PROVE IInv'
  OBVIOUS
<1>1. /\ UNCHANGED <<stage, iter_rowheight, cell_type, node_to_gate_map, timer,
                     arrival, delay_list, change_ratios, stack, exchanged>>
      /\ status' \in {"solve", "pass", "done"}
      /\ status' = "solve" <=> status = "solve"
  BY DEF End, vars, IInv, TypeOK
<1>2. TypeOK' /\ OneTrialAtATime'
  BY <1>1 DEF IInv, TypeOK, OneTrialAtATime, Inside, LeavesSolved, Solved, Calculated, Top
<1>3. /\ ArrivalOwn' /\ Synced' /\ LeavesFirst' /\ SolvedWhole' /\ MeasuredAsItself'
      /\ Calls' /\ AllSolved'
  BY <1>1 DEF IInv, ArrivalOwn, Synced, LeavesFirst, SolvedWhole, MeasuredAsItself,
     Calculated, Solved, LeavesSolved, Calls, AllSolved
<1>4. BoundTried' /\ FromUpstream' /\ Offered' /\ Moved'
  BY <1>1 DEF IInv, BoundTried, FromUpstream, Offered, Moved, Calculated, Solved,
     Unknown, Misread, Upstream
<1>. QED  BY <1>2, <1>3, <1>4 DEF IInv

-----------------------------------------------------------------------------
(***************************************************************************)
(* The theorems                                                            *)
(***************************************************************************)

\* The inductive invariant holds in every reachable state.
LEMMA SpecIInv == Spec => []IInv
<1>1. IInv /\ [Next]_vars => IInv'
  BY MeasureOtherIInv, MeasurePlacedIInv, CallIInv, BeginPassIInv, ExchangeIInv,
     NextIterationIInv, EndIInv DEF Next
<1>. QED  BY <1>1, InitIInv, PTL DEF Spec

\* Every variable has its type, and the calls in progress go down the
\* network: the recursion of New_dp_solve_iteration_rec cannot meet itself.
THEOREM TypeCorrect == Spec => []TypeOK
<1>1. IInv => TypeOK
  BY DEF IInv
<1>. QED  BY <1>1, SpecIInv, PTL

\* The timer holds the placement but for the gate that is being tried.
THEOREM OneTrial == Spec => []OneTrialAtATime
<1>1. IInv => OneTrialAtATime
  BY DEF IInv
<1>. QED  BY <1>1, SpecIInv, PTL

\* A pass of the back propagation finds every candidate of every gate
\* measured and the timer, the solver and the placement in agreement.
THEOREM SolveIsComplete == Spec => []PassKnowsAll
<1>1. IInv => PassKnowsAll
  <2> SUFFICES ASSUME IInv, status = "pass" PROVE PassKnowsAll
    BY DEF PassKnowsAll
  <2>1. \A n \in Gates : Solved(n)
    BY DEF IInv, AllSolved
  <2>2. timer = cell_type /\ node_to_gate_map = cell_type
    BY <2>1 DEF IInv, SolvedWhole, TypeOK
  <2>. QED  BY <2>1, <2>2 DEF IInv, SolvedWhole, PassKnowsAll
<1>. QED  BY <1>1, SpecIInv, PTL

\* A delay is that of the candidate it is written for.
THEOREM DelaysAreOwn == Spec => []MeasuredAsItself
<1>1. IInv => MeasuredAsItself
  BY DEF IInv
<1>. QED  BY <1>1, SpecIInv, PTL

\* An exchange that is offered was weighed against the placed cell with the
\* same arrivals in front of both.
THEOREM OfferedAlike == Spec => []LikeWithLike
<1>1. IInv => LikeWithLike
  <2> SUFFICES ASSUME IInv, status = "solve", NEW r \in change_ratios,
                      ~Misread(r[1], r[2]), NEW m \in Gates \ {r[1]}
               PROVE  delay_list[r[1]][r[2]][m] = delay_list[r[1]][cell_type[r[1]]][m]
    BY DEF LikeWithLike
  <2>1. PICK n \in Gates, c \in Cells : r = <<n, c>>
    BY DEF IInv, TypeOK
  <2>2. Solved(n) /\ c \in Candidates[n] /\ c # cell_type[n] /\ cell_type[n] \in Candidates[n]
    BY <2>1 DEF IInv, Offered, TypeOK
  <2>3. ~Misread(n, cell_type[n])
    BY AdoptedType DEF IInv, Moved, Misread
  <2>4. Calculated(n, c) /\ Calculated(n, cell_type[n])
    BY <2>2 DEF IInv, SolvedWhole
  <2>5. delay_list[n][c][m] = Upstream(n, m)
    BY <2>1, <2>2, <2>4 DEF IInv, FromUpstream
  <2>6. delay_list[n][cell_type[n]][m] = Upstream(n, m)
    BY <2>1, <2>2, <2>3, <2>4 DEF IInv, FromUpstream
  <2>. QED  BY <2>1, <2>5, <2>6
<1>. QED  BY <1>1, SpecIInv, PTL

-----------------------------------------------------------------------------
(***************************************************************************)
(* The arrivals of a solve                                                 *)
(***************************************************************************)

\* Every gate on the way to n has a choice of cells.
Free(n) == \A m \in Cone(n) : Cardinality(Candidates[m]) > 1

\* The gates an arrival depends on stay the same.
ConeKept == \A n, m \in Gates : arrival[n][m] # {} <=> m \in Cone(n)

\* The arrival behind a solved gate has been propagated in this solve.
SolvedFresh ==
  status = "solve" =>
    \A n \in Gates : Solved(n) /\ Free(n) =>
      \A m \in Cone(n) : arrival[n][m] = {cell_type[m]}

\* A gate depends on itself and on what the gates it reads depend on.
LEMMA ConeOfGate ==
  ASSUME NEW n \in Gates
  PROVE  /\ n \in Cone(n)
         /\ \A m \in Gates \ {n} : m \in Cone(n) <=> \E l \in GateLeaves(n) : m \in Cone(l)
         /\ Cone(n) \subseteq Gates
<1>1. FirstArrival = [k \in Gates |-> Propagated(k, Original[k], FirstArrival)]
  BY FirstArrivalAssumption
<1>2. FirstArrival[n] = Propagated(n, Original[n], FirstArrival)
  BY <1>1
<1>3. /\ FirstArrival[n][n] = {Original[n]}
      /\ \A m \in Gates \ {n} :
           FirstArrival[n][m] = UNION {FirstArrival[l][m] : l \in GateLeaves(n)}
  BY <1>2 DEF Propagated
<1>. QED  BY <1>3 DEF Cone

\* With a choice there is another candidate.
LEMMA FreeHasOther ==
  ASSUME NEW n \in Gates, Free(n), NEW c
  PROVE  Candidates[n] # {c}
<1>1. Cardinality(Candidates[n]) > 1
  BY ConeOfGate DEF Free
<1>2. Cardinality({c}) = 1
  BY FS_Singleton
<1>. QED  BY <1>1, <1>2

LEMMA ConvertKeepsCone ==
  ASSUME TypeOK, ArrivalOwn, ConeKept, NEW n \in Gates, NEW c \in Cells, Convert(n, c)
  PROVE  ConeKept'
<1>1. CASE node_to_gate_map[n] = c
  BY <1>1 DEF Convert, ConeKept, Cone
<1>2. CASE node_to_gate_map[n] # c
  <2>1. /\ \A k \in Gates \ {n} : arrival'[k] = arrival[k]
        /\ arrival'[n][n] = {c}
        /\ \A m \in Gates \ {n} : arrival'[n][m] = Upstream(n, m)
    BY <1>2, ConvertEffect
  <2>2. \A m \in Gates \ {n} : Upstream(n, m) # {} <=> m \in Cone(n)
    <3> TAKE m \in Gates \ {n}
    <3>1. \A l \in GateLeaves(n) : arrival[l][m] # {} <=> m \in Cone(l)
      BY DEF ConeKept, GateLeaves
    <3>2. m \in Cone(n) <=> \E l \in GateLeaves(n) : m \in Cone(l)
      BY ConeOfGate
    <3>. QED  BY <3>1, <3>2 DEF Upstream
  <2>3. n \in Cone(n)
    BY ConeOfGate
  <2>. QED  BY <2>1, <2>2, <2>3 DEF ConeKept, Cone
<1>. QED  BY <1>1, <1>2

\* What the solved gates in front hand on is of the cells that are placed.
LEMMA UpstreamFresh ==
  ASSUME ConeKept, SolvedFresh, status = "solve", NEW n \in Gates,
         LeavesSolved(n), Free(n), NEW m \in Cone(n) \ {n}
  PROVE  Upstream(n, m) = {cell_type[m]}
<1>1. m \in Gates /\ \E l \in GateLeaves(n) : m \in Cone(l)
  BY ConeOfGate
<1>2. ASSUME NEW l \in GateLeaves(n)
      PROVE  arrival[l][m] = IF m \in Cone(l) THEN {cell_type[m]} ELSE {}
  <2>1. l \in Gates /\ Solved(l)
    BY DEF LeavesSolved, GateLeaves
  <2>2. Cone(l) \subseteq Cone(n)
    BY <2>1, ConeOfGate
  <2>3. Free(l)
    BY <2>2 DEF Free
  <2>. QED  BY <1>1, <2>1, <2>3 DEF SolvedFresh, ConeKept
<1>. QED  BY <1>1, <1>2 DEF Upstream

LEMMA InitFresh == Init => ConeKept /\ SolvedFresh
<1> SUFFICES ASSUME Init PROVE ConeKept /\ SolvedFresh
  OBVIOUS
<1>1. ConeKept
  BY DEF Init, ConeKept, Cone
<1>2. \A n \in Gates : ~Solved(n)
  <2>1. TypeOK
    BY InitIInv DEF IInv
  <2>. QED  BY <2>1 DEF Init, Solved, Calculated, TypeOK
<1>. QED  BY <1>1, <1>2 DEF SolvedFresh

LEMMA NextFresh ==
  IInv /\ ConeKept /\ SolvedFresh /\ [Next]_vars => ConeKept' /\ SolvedFresh'
<1> SUFFICES ASSUME IInv, ConeKept, SolvedFresh, [Next]_vars
             PROVE  ConeKept' /\ SolvedFresh'
  OBVIOUS
<1>0. TypeOK /\ ArrivalOwn
  BY DEF IInv
<1>1. CASE MeasureOther
  <2>1. PICK n \in Gates : n = Top
    BY <1>1, TopUnsolved DEF MeasureOther
  <2>2. PICK c \in Candidates[n] \ {cell_type[n]} : Measure(n, c)
    BY <1>1, <2>1 DEF MeasureOther
  <2>3. /\ LeavesSolved(n) /\ ~Solved(n) /\ c \in Cells /\ cell_type[n] \in Cells
        /\ UNCHANGED <<status, iter_rowheight, cell_type>>
    BY <1>0, <1>1, <2>1, <2>2, TopUnsolved, AdoptedType DEF MeasureOther, TypeOK
  <2>4. ConeKept' /\ \A k \in Gates \ {n} : arrival'[k] = arrival[k]
    BY <1>0, <2>2, <2>3, ConvertKeepsCone, ConvertEffect DEF Measure
  <2>5. /\ \A k \in Gates \ {n} : Solved(k)' <=> Solved(k)
        /\ \A d \in Cells : Calculated(n, d)' <=> d = c \/ Calculated(n, d)
    BY <2>2, <2>3, MeasureKeeps
  <2>6. ~Solved(n)'
    BY <2>2, <2>3, <2>5 DEF Solved
  <2>. QED  BY <2>3, <2>4, <2>5, <2>6 DEF SolvedFresh, Free, Cone
<1>2. CASE MeasurePlaced
  <2>1. PICK n \in Gates : n = Top
    BY <1>2, TopUnsolved DEF MeasurePlaced
  <2> DEFINE c == cell_type[n]
  <2>2. /\ LeavesSolved(n) /\ ~Solved(n) /\ status = "solve" /\ c \in Cells /\ c \in Candidates[n]
        /\ \A d \in Candidates[n] \ {c} : Calculated(n, d)
        /\ Measure(n, c)
        /\ UNCHANGED <<status, iter_rowheight, cell_type>>
    BY <1>0, <1>2, <2>1, TopUnsolved DEF MeasurePlaced, TypeOK
  <2>3. /\ ConeKept'
        /\ \A k \in Gates \ {n} : arrival'[k] = arrival[k]
        /\ arrival'[n][n] = {c}
        /\ node_to_gate_map[n] # c => \A m \in Gates \ {n} : arrival'[n][m] = Upstream(n, m)
    <3>. HIDE DEF c
    <3>. QED  BY <1>0, <2>2, ConvertKeepsCone, ConvertEffect DEF Measure
  <2>4. \A k \in Gates \ {n} : Solved(k)' <=> Solved(k)
    <3>. HIDE DEF c
    <3>. QED  BY <2>2, MeasureKeeps
  <2>5. ASSUME Free(n), NEW m \in Cone(n)
        PROVE  arrival'[n][m] = {cell_type[m]}
    <3>1. \E d \in Candidates[n] : d # c
      BY <2>2, <2>5, FreeHasOther
    <3>2. node_to_gate_map[n] # c
      BY <2>2, <3>1 DEF IInv, BoundTried
    <3>3. CASE m = n
      BY <2>3, <3>3
    <3>4. CASE m # n
      BY <2>2, <2>3, <2>5, <3>2, <3>4, UpstreamFresh, ConeOfGate
    <3>. QED  BY <3>3, <3>4
  <2>6. \A k \in Gates \ {n} : Solved(k)' /\ Free(k) =>
          \A m \in Cone(k) : arrival'[k][m] = {cell_type[m]}
    BY <2>2, <2>3, <2>4 DEF SolvedFresh
  <2>. QED  BY <2>2, <2>3, <2>5, <2>6 DEF SolvedFresh, Free, Cone
<1>3. ASSUME NEW n \in Gates, Exchange(n)
      PROVE  ConeKept' /\ SolvedFresh'
  <2>1. PICK c \in {cell_type[n]} \cup Exchanges(n) : Convert(n, c)
    BY <1>3 DEF Exchange
  <2>2. c \in Cells
    BY <1>0, <2>1, AdoptedType DEF TypeOK, Exchanges
  <2>. QED  BY <1>0, <1>3, <2>1, <2>2, ConvertKeepsCone DEF Exchange, SolvedFresh
<1>4. CASE NextIteration
  <2>1. \A n \in Gates : ~Solved(n)'
    BY <1>0, <1>4 DEF NextIteration, Solved, Calculated, TypeOK
  <2>. QED  BY <1>4, <2>1 DEF NextIteration, ConeKept, Cone, SolvedFresh
<1>5. CASE CallOutput \/ CallLeaf \/ BeginPass \/ End \/ UNCHANGED vars
  <2>1. /\ UNCHANGED <<cell_type, arrival, delay_list>>
        /\ status' = "solve" => status = "solve"
    BY <1>5 DEF CallOutput, CallLeaf, BeginPass, End, vars
  <2>. QED  BY <2>1 DEF ConeKept, Cone, SolvedFresh, Free, Solved, Calculated
<1>. QED  BY <1>1, <1>2, <1>3, <1>4, <1>5 DEF Next

\* For gates whose whole cone has a choice of cells, every delay that is read
\* in a solve is of the placed cells: no arrival is left from before the last
\* pass, whatever that pass exchanged.
THEOREM DelaysAreFresh == Spec => []FreshDelays
<1>1. IInv /\ ConeKept /\ SolvedFresh => FreshDelays
  <2> SUFFICES ASSUME IInv, ConeKept, SolvedFresh, status = "solve", NEW n \in Gates,
                      Free(n), NEW c \in Candidates[n], Calculated(n, c), ~Misread(n, c),
                      NEW m \in Cone(n) \ {n}
               PROVE  delay_list[n][c][m] = {cell_type[m]}
    BY DEF FreshDelays, Free
  <2>1. m \in Gates
    BY ConeOfGate
  <2>2. LeavesSolved(n)
    BY DEF IInv, LeavesFirst
  <2>3. Candidates[n] # {c}
    BY FreeHasOther
  <2>4. delay_list[n][c][m] = Upstream(n, m)
    BY <2>1, <2>3 DEF IInv, FromUpstream
  <2>. QED  BY <2>2, <2>4, UpstreamFresh
<1>. QED  BY <1>1, SpecIInv, InitFresh, NextFresh, PTL DEF Spec

=============================================================================
