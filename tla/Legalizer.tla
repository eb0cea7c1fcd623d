------------------------------ MODULE Legalizer ------------------------------
(***************************************************************************)
(* The Abacus row legalizer (src/abacus): every cell of the design is put  *)
(* in a row of its own height (8T or 12T) that has room for it, and the    *)
(* cells of a row are packed in clusters.  A cluster is placed where the   *)
(* weighted squared displacement of its members is least and is merged     *)
(* with the cluster on its left whenever the two would overlap.  When all  *)
(* cells are in, the clusters are snapped to the sites of their row.       *)
(*                                                                         *)
(* One step of abacusProcess places one cell (getRowIdx, placeRowTrail and *)
(* placeRowFinal), one step of determinePosition writes out one row.       *)
(*                                                                         *)
(* Abstractions: coordinates and q are integers and a cluster's x is kept  *)
(* as a numerator over its weight, so the arithmetic is exact where the    *)
(* code rounds doubles, and unbounded where it has ints: the product of a  *)
(* cluster's weight and another one's width (Legalizer.cpp:230, :296) is   *)
(* of ints and may overflow for very wide clusters.  `terminals' is always *)
(* empty in the program, so divideRow changes nothing and a row has its    *)
(* one initial SubRow.                                                     *)
(***************************************************************************)
EXTENDS Integers, Sequences, FiniteSets, SequencesExt

CONSTANTS
  Cells,        \* names of the cells
  NumRows,      \* number of ROW lines of the DEF file
  RowY,         \* y coordinate of each row
  MinX, MaxX,   \* left and right end of each row
  SiteWidth,    \* width of a placement site
  CellInputs,   \* what readDef may read for a cell
  RowHeights    \* the assignments of heights to rows parse may produce

Rows == 0 .. NumRows - 1

Heights == {"8T", "12T"}

\* Parser::readDef also accepts a cell half a row above the row's origin.
RowOffset == 512

ASSUME RowsAssumption ==
  /\ NumRows \in Nat \ {0}
  /\ RowY \in [Rows -> Int]
  /\ MinX \in [Rows -> Int]
  /\ MaxX \in [Rows -> Int]
  /\ SiteWidth \in Nat \ {0}
  /\ RowHeights \subseteq [Rows -> Heights]

\* Every cell of a placed DEF file has a width and lies on a row.
ASSUME CellsAssumption ==
  /\ IsFiniteSet(Cells) /\ Cells # {}
  /\ CellInputs \subseteq
       [x : Int, y : Int, width : Nat \ {0}, gate_height : Heights]
  /\ \A i \in CellInputs : \E r \in Rows : i.y \in {RowY[r], RowY[r] + RowOffset}

\* Parser.cpp keeps the width of the first row and uses it for all of them.
row_width == MaxX[0] - MinX[0]

VARIABLES
  phase,            \* "read", "place", "write" or "done"
  cell,             \* position, width and height of each cell read
  cell_height,      \* the height every row was given
  todo,             \* cells the current loop has not reached yet
  row_index,        \* Cell::row_index
  row_density_map,  \* total width accounted to each row
  freeWidth,        \* SubRow::freeWidth
  clusters,         \* the clusters of each row from left to right
  optimalX,         \* Cell::optimalX, a fraction <<numerator, denominator>>
  nextRow,          \* the row determinePosition writes next
  def_data          \* the positions written out

input == <<cell, cell_height>>
vars == <<phase, cell, cell_height, todo, row_index, row_density_map,
          freeWidth, clusters, optimalX, nextRow, def_data>>

NoRow == -1
Unread == [x |-> 0, y |-> 0, width |-> 0, gate_height |-> "8T"]
Unwritten == [x |-> 0, y |-> 0, written |-> FALSE]

-----------------------------------------------------------------------------
(***************************************************************************)
(* Reading the design: readDef and parse                                   *)
(***************************************************************************)

Init ==
  /\ phase = "read"
  /\ cell = [c \in Cells |-> Unread]
  /\ cell_height = [r \in Rows |-> "8T"]
  /\ todo = Cells
  /\ row_index = [c \in Cells |-> NoRow]
  /\ row_density_map = [r \in Rows |-> 0]
  /\ freeWidth = [r \in Rows |-> MaxX[r] - MinX[r]]
  /\ clusters = [r \in Rows |-> <<>>]
  /\ optimalX = [c \in Cells |-> <<0, 1>>]
  /\ nextRow = 0
  /\ def_data = [c \in Cells |-> Unwritten]

\* readDef takes the first row whose origin matches the cell's y.
RowAt(y, r) ==
  /\ y \in {RowY[r], RowY[r] + RowOffset}
  /\ \A s \in Rows : s < r => y \notin {RowY[s], RowY[s] + RowOffset}

ReadCell(c, i, r) ==
  /\ phase = "read"
  /\ c \in todo
  /\ RowAt(i.y, r)
  /\ cell' = [cell EXCEPT ![c] = i]
  /\ row_index' = [row_index EXCEPT ![c] = r]
  /\ row_density_map' = [row_density_map EXCEPT ![r] = @ + i.width]
  /\ todo' = todo \ {c}
  /\ UNCHANGED <<phase, cell_height, freeWidth, clusters, optimalX, nextRow,
                 def_data>>

\* parse ends by giving every row the height it was assigned.
SetRowHeights ==
  /\ phase = "read"
  /\ todo = {}
  /\ cell_height' \in RowHeights
  /\ phase' = "place"
  /\ todo' = Cells
  /\ UNCHANGED <<cell, row_index, row_density_map, freeWidth, clusters,
                 optimalX, nextRow, def_data>>

-----------------------------------------------------------------------------
(***************************************************************************)
(* Choosing a row: getRowIdx                                               *)
(***************************************************************************)

SameHeight(c, r) == cell[c].gate_height = cell_height[r]

\* Mutant: the density of the row is not looked at.
HasRoomForAny(c, r) == SameHeight(c, r) /\ cell[c].width <= row_width

HasRoom(c, r) ==
  /\ SameHeight(c, r)
  /\ cell[c].width + row_density_map[r] <= row_width

\* Mutant: a cell stays in a row of the other height.
StaysInAnyHeight(c) ==
  cell[c].width + row_density_map[row_index[c]] < row_width

\* The density of the cell's own row already includes the cell, and the
\* comparison is strict: the cell stays only if the row could take it twice.
StaysInRow(c) ==
  /\ SameHeight(c, row_index[c])
  /\ cell[c].width + row_density_map[row_index[c]] < row_width

UpperRows(c) == {r \in Rows : r > row_index[c] /\ HasRoom(c, r)}
LowerRows(c) == {r \in Rows : r < row_index[c] /\ HasRoom(c, r)}

Abs(n) == IF n < 0 THEN -n ELSE n

Distance(c, r) == Abs(cell[c].y - RowY[r])

\* Mutant: the row above is preferred whenever there is one.
UpperIsFirst(c) == UpperRows(c) # {}

UpperIsCloser(c) ==
  /\ UpperRows(c) # {}
  /\ LowerRows(c) # {} =>
       Distance(c, Min(UpperRows(c))) < Distance(c, Max(LowerRows(c)))

getRowIdx(c) ==
  IF StaysInRow(c) THEN row_index[c]
  ELSE IF UpperIsCloser(c) THEN Min(UpperRows(c))
  ELSE IF LowerRows(c) # {} THEN Max(LowerRows(c))
  ELSE row_index[c]

-----------------------------------------------------------------------------
(***************************************************************************)
(* Packing a row: placeRowTrail and placeRowFinal                          *)
(*                                                                         *)
(* A cluster is [x, q, weight, width, member]; its left end is x / weight. *)
(***************************************************************************)

\* The cell's own x, moved inside the row.
ClampedX(r, c) ==
  CASE cell[c].x < MinX[r] -> MinX[r]
    [] cell[c].x >= MinX[r] /\ cell[c].x > MaxX[r] - cell[c].width ->
         MaxX[r] - cell[c].width
    [] OTHER -> cell[c].x

\* q / weight moved inside the row, as a numerator over weight.
ClampedQ(r, q, weight, width) ==
  LET x == IF q < MinX[r] * weight THEN MinX[r] * weight ELSE q
      right == (MaxX[r] - width) * weight
  IN IF x > right THEN right ELSE x

\* The right end of cluster k is at or left of n / d.
EndsBy(k, n, d) == (k.x + k.width * k.weight) * d <= n * k.weight

StartsCluster(r, x) ==
  \/ clusters[r] = <<>>
  \/ EndsBy(Last(clusters[r]), x, 1)

\* Mutant: the absorbing cluster does not shift the q of the absorbed one.
TrialStepUnshifted(r, prev, trial) ==
  IF trial.stop \/ EndsBy(prev, ClampedQ(r, trial.q, trial.weight, trial.width),
                          trial.weight)
  THEN [trial EXCEPT !.stop = TRUE]
  ELSE [q |-> prev.q + trial.q, weight |-> prev.weight + trial.weight,
        width |-> prev.width + trial.width, stop |-> FALSE]

\* One round of the trial loop: trial absorbs prev if they would overlap.
TrialStep(r, prev, trial) ==
  LET x == ClampedQ(r, trial.q, trial.weight, trial.width)
  IN IF trial.stop \/ EndsBy(prev, x, trial.weight)
     THEN [trial EXCEPT !.stop = TRUE]
     ELSE [q |-> prev.q + trial.q - trial.weight * prev.width,
           weight |-> prev.weight + trial.weight,
           width |-> prev.width + trial.width,
           stop |-> FALSE]

placeRowTrail(r, c) ==
  LET x == ClampedX(r, c)
      w == cell[c].width
      k == Last(clusters[r])
      start == [q |-> k.q + w * (x - k.width), weight |-> k.weight + w,
                width |-> k.width + w, stop |-> FALSE]
      t == FoldRight(LAMBDA prev, trial : TrialStep(r, prev, trial),
                     Front(clusters[r]), start)
  IN IF StartsCluster(r, x)
     THEN <<x, 1>>
     ELSE <<ClampedQ(r, t.q, t.weight, t.width) + (t.width - w) * t.weight,
            t.weight>>

\* Mutant: the weight of the first cell is not added.
NewClusterWeightless(x, c) ==
  [x |-> x, q |-> cell[c].width * x, weight |-> 0, width |-> cell[c].width,
   member |-> <<c>>]

NewCluster(x, c) ==
  LET w == cell[c].width
  IN [x |-> x * w, q |-> w * x, weight |-> w, width |-> w, member |-> <<c>>]

\* Mutant: the cell asks for its own position, not for that of the cluster.
AddCellUnshifted(k, x, c) ==
  LET w == cell[c].width
  IN [k EXCEPT !.q = @ + w * x, !.weight = @ + w,
               !.width = @ + w, !.member = Append(@, c)]

AddCell(k, x, c) ==
  LET w == cell[c].width
  IN [k EXCEPT !.q = @ + w * (x - k.width), !.weight = @ + w,
               !.width = @ + w, !.member = Append(@, c)]

Reposition(r, k) == [k EXCEPT !.x = ClampedQ(r, k.q, k.weight, k.width)]

\* Mutant: q is added without its shift.
AddClusterUnshifted(prev, k) ==
  [prev EXCEPT !.q = @ + k.q, !.weight = @ + k.weight,
               !.width = @ + k.width, !.member = @ \o k.member]

AddCluster(prev, k) ==
  [prev EXCEPT !.q = @ + k.q - k.weight * prev.width,
               !.weight = @ + k.weight,
               !.width = @ + k.width,
               !.member = @ \o k.member]

\* One round of the loop of placeRowFinal on the cluster done[1] and its
\* predecessor; more than one cluster in done means the loop has stopped.
CollapseStep(r, prev, done) ==
  IF Len(done) > 1 \/ EndsBy(prev, Head(done).x, Head(done).weight)
  THEN <<prev>> \o done
  ELSE <<Reposition(r, AddCluster(prev, Head(done)))>>

\* Mutant: only the first pair of clusters is looked at.
CollapseOnce(r, ks) ==
  LET k == Reposition(r, Last(ks))
      front == Front(ks)
  IN IF front = <<>> \/ EndsBy(Last(front), k.x, k.weight)
     THEN Append(front, k)
     ELSE Append(Front(front), Reposition(r, AddCluster(Last(front), k)))

Collapse(r, ks) ==
  FoldRight(LAMBDA prev, done : CollapseStep(r, prev, done),
            Front(ks), <<Reposition(r, Last(ks))>>)

WithCell(r, c) ==
  LET x == ClampedX(r, c)
      ks == clusters[r]
  IN IF StartsCluster(r, x)
     THEN Append(ks, NewCluster(x, c))
     ELSE Collapse(r, Append(Front(ks), AddCell(Last(ks), x, c)))

\* Mutant: the cell is not taken off the density of the row it leaves.
placeRowFinalTwice(r, c) ==
  /\ row_density_map' = [row_density_map EXCEPT ![r] = @ + cell[c].width]
  /\ row_index' = [row_index EXCEPT ![c] = r]
  /\ freeWidth' = [freeWidth EXCEPT ![r] = @ - cell[c].width]
  /\ clusters' = [clusters EXCEPT ![r] = WithCell(r, c)]

placeRowFinal(r, c) ==
  /\ row_density_map' = [row_density_map EXCEPT
                           ![row_index[c]] = @ - cell[c].width,
                           ![r] = @ + cell[c].width]
  /\ row_index' = [row_index EXCEPT ![c] = r]
  /\ freeWidth' = [freeWidth EXCEPT ![r] = @ - cell[c].width]
  /\ clusters' = [clusters EXCEPT ![r] = WithCell(r, c)]

\* The loop of abacusProcess; std::sort leaves cells with equal x in any order.
PlaceCell(c) ==
  /\ phase = "place"
  /\ c \in todo
  /\ \A d \in todo : cell[c].x <= cell[d].x
  /\ optimalX' = [optimalX EXCEPT ![c] = placeRowTrail(getRowIdx(c), c)]
  /\ placeRowFinal(getRowIdx(c), c)
  /\ todo' = todo \ {c}
  /\ phase' = IF todo = {c} THEN "write" ELSE "place"
  /\ UNCHANGED <<input, nextRow, def_data>>

-----------------------------------------------------------------------------
(***************************************************************************)
(* Writing the result: determinePosition                                   *)
(***************************************************************************)

\* The site a cluster is moved to: the nearest one, the left one on a tie.
SnappedX(r, k) ==
  LET shift == k.x - MinX[r] * k.weight
      site == SiteWidth * k.weight
      left == shift \div site
      index == IF 2 * (shift % site) <= site THEN left ELSE left + 1
  IN MinX[r] + index * SiteWidth

Snapped(r, k) == [k EXCEPT !.x = SnappedX(r, k) * k.weight]

IndexIn(k, c) == CHOOSE i \in 1 .. Len(k.member) : k.member[i] = c

WidthOf(S) == MapThenSumSet(LAMBDA c : cell[c].width, S)

\* Width of the members of k in front of c.
OffsetIn(k, c) == WidthOf({k.member[i] : i \in 1 .. IndexIn(k, c) - 1})

ClusterOf(r, c) ==
  CHOOSE k \in ToSet(clusters[r]) : c \in ToSet(k.member)

MembersOf(r) == UNION {ToSet(k.member) : k \in ToSet(clusters[r])}

WrittenX(r, c) ==
  SnappedX(r, ClusterOf(r, c)) + OffsetIn(ClusterOf(r, c), c)

DeterminePosition(r) ==
  /\ phase = "write"
  /\ nextRow = r
  /\ clusters' = [clusters EXCEPT
       ![r] = [i \in 1 .. Len(clusters[r]) |-> Snapped(r, clusters[r][i])]]
  /\ optimalX' = [c \in Cells |->
       IF c \in MembersOf(r) THEN <<WrittenX(r, c), 1>> ELSE optimalX[c]]
  /\ def_data' = [c \in Cells |->
       IF c \in MembersOf(r)
       THEN [x |-> WrittenX(r, c), y |-> RowY[r], written |-> TRUE]
       ELSE def_data[c]]
  /\ nextRow' = nextRow + 1
  /\ phase' = IF nextRow' = NumRows THEN "done" ELSE "write"
  /\ UNCHANGED <<input, todo, row_index, row_density_map, freeWidth>>

Stop == phase = "done" /\ UNCHANGED vars

Next ==
  \/ \E c \in Cells, i \in CellInputs, r \in Rows : ReadCell(c, i, r)
  \/ SetRowHeights
  \/ \E c \in Cells : PlaceCell(c)
  \/ \E r \in Rows : DeterminePosition(r)
  \/ Stop

\* The program is one sequential loop that nothing can hold up.
Spec == Init /\ [][Next]_vars /\ WF_vars(Next)

-----------------------------------------------------------------------------
(***************************************************************************)
(* Properties                                                              *)
(***************************************************************************)

Positive == Nat \ {0}

Cluster == [x : Int, q : Int, weight : Positive, width : Positive,
            member : Seq(Cells)]

\* The variables have the types the declarations of Data.hpp give them.
TypeOK ==
  /\ phase \in {"read", "place", "write", "done"}
  /\ cell \in [Cells -> CellInputs \cup {Unread}]
  /\ cell_height \in [Rows -> Heights]
  /\ todo \subseteq Cells
  /\ row_index \in [Cells -> Rows \cup {NoRow}]
  /\ row_density_map \in [Rows -> Int]
  /\ freeWidth \in [Rows -> Int]
  /\ clusters \in [Rows -> Seq(Cluster)]
  /\ optimalX \in [Cells -> Int \X Positive]
  /\ nextRow \in 0 .. NumRows
  /\ def_data \in [Cells -> [x : Int, y : Int, written : BOOLEAN]]

Placed == CASE phase = "read" -> {} [] phase = "place" -> Cells \ todo
            [] OTHER -> Cells

CellsOf(r) == {c \in Cells : row_index[c] = r}

(***************************************************************************)
(* Row accounting.  row_density_map is filled by readDef, reduced and      *)
(* increased by placeRowFinal and never recomputed; freeWidth is kept      *)
(* apart from it.  At every moment the first is the width of the cells     *)
(* that belong to the row, the second what the placed ones have left.      *)
(***************************************************************************)
RowAccounting ==
  \A r \in Rows :
    /\ row_density_map[r] = WidthOf(CellsOf(r))
    /\ freeWidth[r] = MaxX[r] - MinX[r] - WidthOf(CellsOf(r) \cap Placed)

(***************************************************************************)
(* q is maintained incrementally by two formulas, one for a cell and one   *)
(* for a whole cluster.  It is always the weighted sum of the positions    *)
(* the members ask the cluster's left end to have.                         *)
(***************************************************************************)
QIsExact ==
  \A r \in Rows : \A k \in ToSet(clusters[r]) :
    /\ k.weight = WidthOf(ToSet(k.member))
    /\ k.width = WidthOf(ToSet(k.member))
    /\ k.q = MapThenSumSet(
               LAMBDA c : cell[c].width * (ClampedX(r, c) - OffsetIn(k, c)),
               ToSet(k.member))

(***************************************************************************)
(* The point of Abacus: no legal placement of the placed cells of a row in *)
(* the same order has a smaller weighted squared displacement than the     *)
(* clusters (the reference placements are those on integer coordinates).   *)
(***************************************************************************)
Displacement(r, p) ==
  MapThenSumSet(LAMBDA c : cell[c].width * (p[c] - ClampedX(r, c)) * (p[c] - ClampedX(r, c)),
                MembersOf(r))

\* The order of the cells of r from left to right, over all its clusters.
LeftOf(r, c, d) ==
  \E i, j \in DOMAIN clusters[r] :
    \E a \in DOMAIN clusters[r][i].member, b \in DOMAIN clusters[r][j].member :
      /\ clusters[r][i].member[a] = c /\ clusters[r][j].member[b] = d
      /\ i < j \/ (i = j /\ a < b)

LegalPlacements(r) ==
  LET M == MembersOf(r)
      order == {o \in M \X M : LeftOf(r, o[1], o[2])}
  IN {p \in [M -> MinX[r] .. MaxX[r]] :
        /\ \A c \in M : p[c] + cell[c].width <= MaxX[r]
        /\ \A o \in order : p[o[1]] + cell[o[1]].width <= p[o[2]]}

SquaredWeights(r, S) ==
  FoldSet(LAMBDA i, p : p * clusters[r][i].weight * clusters[r][i].weight, 1, S)

\* The displacement of the clusters of r, times the squares of their weights.
ClusterDisplacement(r) ==
  LET all == DOMAIN clusters[r]
      of(k) == MapThenSumSet(
        LAMBDA c :
          LET d == k.x + (OffsetIn(k, c) - ClampedX(r, c)) * k.weight
          IN cell[c].width * d * d,
        ToSet(k.member))
  IN MapThenSumSet(
       LAMBDA i : of(clusters[r][i]) * SquaredWeights(r, all \ {i}), all)

RowOptimal ==
  \A r \in Rows : nextRow <= r => \A p \in LegalPlacements(r) :
    ClusterDisplacement(r)
      <= Displacement(r, p) * SquaredWeights(r, DOMAIN clusters[r])

\* Cells and rows are as wide as some number of sites.
OnSites ==
  /\ \A r \in Rows : (MaxX[r] - MinX[r]) % SiteWidth = 0
  /\ \A i \in CellInputs : i.width % SiteWidth = 0

(***************************************************************************)
(* What is written out is a legal placement of every row the cells fit in: *)
(* on the sites of the row, inside it, and without overlaps.               *)
(***************************************************************************)
LegalResult ==
  phase = "done" =>
    /\ \A c \in Cells :
         LET r == row_index[c]
         IN /\ def_data[c].written /\ def_data[c].y = RowY[r]
            /\ (def_data[c].x - MinX[r]) % SiteWidth = 0
            /\ row_density_map[r] <= MaxX[r] - MinX[r] =>
                 /\ def_data[c].x >= MinX[r]
                 /\ def_data[c].x + cell[c].width <= MaxX[r]
    /\ \A c, d \in Cells : c # d /\ row_index[c] = row_index[d] =>
         \/ def_data[c].x + cell[c].width <= def_data[d].x
         \/ def_data[d].x + cell[d].width <= def_data[c].x

(***************************************************************************)
(* A step never fills a row beyond row_width: a row only gains a cell it   *)
(* has room for, whatever its own cells, placed or not, add up to.         *)
(***************************************************************************)
CapacityStep ==
  phase = "place" => \A r \in Rows :
    row_density_map'[r] > row_density_map[r] => row_density_map'[r] <= row_width

CapacityRespected == [][CapacityStep]_vars

(***************************************************************************)
(* "error for cell" is printed only when there is no other way: a cell is  *)
(* placed in a row of the wrong height only if no row of its own height    *)
(* has room for it at that moment.                                         *)
(***************************************************************************)
HeightStep ==
  phase = "place" => \A c \in todo \ todo' :
    cell[c].gate_height = cell_height[row_index'[c]] \/ \A r \in Rows : ~HasRoom(c, r)

HeightRespected == [][HeightStep]_vars

\* Rows are numbered upwards, and the half row above a row's origin that
\* readDef accepts does not reach the next one.
RowsApart ==
  \A r, s \in Rows : r < s => RowY[r] + RowOffset <= RowY[s]

(***************************************************************************)
(* A cell that has to leave its row goes to the nearest row that has room  *)
(* for it, although getRowIdx looks at one row above and one below only.   *)
(***************************************************************************)
NearestRow ==
  [][phase = "place" => \A c \in Cells : row_index'[c] # row_index[c] =>
       \A r \in Rows \ {row_index[c]} :
         HasRoom(c, r) => Distance(c, row_index'[c]) <= Distance(c, r)]_vars

(***************************************************************************)
(* placeRowTrail predicts without changing anything what placeRowFinal     *)
(* will do: the cell ends where the last cluster of its row ends.          *)
(***************************************************************************)
TrialIsFinal ==
  [][phase = "place" => \A c \in todo \ todo' :
       LET k == Last(clusters'[row_index'[c]])
           p == optimalX'[c]
       IN (p[1] + cell[c].width * p[2]) * k.weight
            = (k.x + k.width * k.weight) * p[2]]_vars

=============================================================================
